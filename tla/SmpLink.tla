------------------------------ MODULE SmpLink ------------------------------
(***************************************************************************)
(* The SMP client and the SMP server, connecting to each other.            *)
(*                                                                         *)
(* The connection callbacks of SmpClient and SmpServerAdv are put together *)
(* over a radio link whose two ends notice its loss each in its own time.  *)
(* Meanwhile one board has a connection the other knows nothing of: the    *)
(* client scans for a server that does not advertise, or the server        *)
(* advertises to a client that does not scan.                              *)
(*                                                                         *)
(* Commands and uploads touch none of this and are left out (they are in   *)
(* SmpClient). The server's restart is an action here, so that the fault   *)
(* "reboot" of SmpClient is not used.                                      *)
(***************************************************************************)
EXTENDS SmpClient

CONSTANT Objs

ASSUME ObjsAssumption == Objs # {}

ASSUME LinkFaults == "reboot" \notin Faults

VARIABLES ready, advertise_work, in_advertise, pool, recycled, start_failed,
          link      \* External: the connections that both ends believe in

Server == INSTANCE SmpServerAdv
server_vars == <<ready, advertise_work, in_advertise, pool, recycled, start_failed>>
link_vars == <<vars, server_vars, link>>

\* The server's end of a connection the client has given up, or never knew of.
HalfOpen(o) == pool[o] = "connected" /\ \A c \in Conns : <<c, o>> \notin link
Orphan(c) == conn[c] = "connected" /\ \A o \in Objs : <<c, o>> \notin link

\* One type invariant, for both boards and the link.
ComposedTypeOK ==
    /\ TypeOK
    /\ Server!ServerTypeOK
    /\ link \subseteq Conns \X Objs

LinkInit == Init /\ Server!ServerInit /\ link = {}

-----------------------------------------------------------------------------
\* An advertisement reaches the scanner.
ScanHit(c) ==
    /\ Server!Advertising
    /\ scan_connecting(c)
    /\ UNCHANGED <<server_vars, link>>

Establish(c, o) ==
    /\ connected(c)
    /\ Server!connected(o)
    /\ link' = link \cup {<<c, o>>}

\* The attempt times out at the client, or cannot be made.
AttemptFails(c) ==
    /\ connected_err(c)
    /\ UNCHANGED <<server_vars, link>>
ConnectingFails ==
    /\ Server!Advertising
    /\ scan_connecting_error
    /\ UNCHANGED <<server_vars, link>>

\* The server alone sees an attempt, and sees it fail, or sees it succeed and
\* the client never hears of it.
ServerAttemptFails(o) ==
    /\ Server!connected_err(o)
    /\ UNCHANGED <<vars, link>>
ServerAlone(o) ==
    /\ Server!connected(o)
    /\ UNCHANGED <<vars, link>>

\* Each end loses the link by itself, and the client hears of it some time later.
ClientLoses(c) ==
    /\ link_lost(c)
    /\ link' = {l \in link : l[1] # c}
    /\ UNCHANGED server_vars
ClientHears ==
    /\ \E c \in Conns : disconnected(c)
    /\ UNCHANGED <<server_vars, link>>
ServerLoses(o) ==
    /\ Server!disconnected(o)
    /\ link' = {l \in link : l[2] # o}
    /\ UNCHANGED vars

ServerRestarts ==
    /\ Server!restart
    /\ link' = {}
    /\ UNCHANGED vars

ClientResets ==
    /\ client_reset
    /\ link' = {}
    /\ UNCHANGED server_vars

Discovery ==
    /\ discovery_completed_cb \/ discovery_failed
    /\ UNCHANGED <<server_vars, link>>

ServerWork ==
    /\ Server!advertise
    /\ UNCHANGED <<vars, link>>
ServerStarts ==
    /\ Server!bt_le_adv_start
    /\ UNCHANGED <<vars, link>>
ServerStartFails ==
    /\ Server!bt_le_adv_start_fails
    /\ UNCHANGED <<vars, link>>

ServerCallbacks ==
    /\ \/ Server!bt_ready
       \/ \E o \in Objs : Server!unref(o)
       \/ Server!on_conn_recycled
    /\ UNCHANGED <<vars, link>>

LinkNext ==
    \/ \E c \in Conns : \/ ScanHit(c)
                        \/ AttemptFails(c)
                        \/ ClientLoses(c)
                        \/ \E o \in Objs : Establish(c, o)
    \/ \E o \in Objs : \/ ServerAttemptFails(o)
                       \/ ServerAlone(o)
                       \/ ServerLoses(o)
    \/ ConnectingFails \/ ClientHears \/ Discovery
    \/ ServerWork \/ ServerStarts \/ ServerStartFails
    \/ ServerCallbacks \/ ServerRestarts \/ ClientResets

LinkSpec == LinkInit /\ [][LinkNext]_link_vars

\* Both boards run, and a connection that only one end believes in times out.
\* Where losses or restarts can interfere again and again, they do not do so
\* forever at the same place: an advertisement is heard some time, a start is
\* completed, and of endless attempts some succeed.
LinkFairness ==
    /\ SF_link_vars(ServerWork)
    /\ SF_link_vars(ServerStarts)
    /\ WF_link_vars(ServerCallbacks)
    /\ SF_link_vars(\E c \in Conns : ScanHit(c))
    /\ SF_link_vars(\E c \in Conns, o \in Objs : Establish(c, o))
    /\ WF_link_vars(\E c \in Conns : AttemptFails(c) \/ \E o \in Objs : Establish(c, o))
    /\ WF_link_vars(\E c \in Conns : Orphan(c) /\ ClientLoses(c))
    /\ WF_link_vars(ClientHears)
    /\ WF_link_vars(\E o \in Objs : HalfOpen(o) /\ ServerLoses(o))

FairLinkSpec == LinkSpec /\ LinkFairness

-----------------------------------------------------------------------------
(* Properties.                                                             *)

\* See SmpServerAdv: the server is never left without advertising, an object
\* in use or a start on its way, whatever the client does to it.
ServerNotForgotten == Server!NeverForgotten

\* The client is not left without a scan and without an attempt or a connection:
\* each path through its callbacks ends in one of the two. The exceptions are a
\* bt_scan_start that fails and an attempt that cannot be made: main.c prints, and
\* the client stays idle.
ClientNotIdle == scanning \/ default_conn # NoConn \/ scan_failed

\* The boards find each other again and again, although each restarts its half
\* in callbacks of its own, at a time of its own, and only there. Either may also
\* sit with a start that its stack refused, which nothing repeats.
Reconnects == []<>(link # {} \/ start_failed \/ scan_failed)
=============================================================================
