--------------------------- MODULE SmpLinkProofs ---------------------------
(***************************************************************************)
(* Neither board of SmpLink is left with nothing under way, but after a    *)
(* start that its stack refused, for every number of connection objects on *)
(* either.                                                                 *)
(***************************************************************************)
EXTENDS SmpLink, SmpClientProofs

\* What ServerNotForgotten needs of the server's variables.
PoolType == pool \in [Objs -> {"free", "advertising", "connected", "closing"}]

LEMMA ServerStart == LinkInit => PoolType /\ ServerNotForgotten
  BY DEF LinkInit, Server!ServerInit, Server!PowerUp, PoolType,
         ServerNotForgotten, Server!NeverForgotten

\* A step that leaves the server alone.
LEMMA ServerIdle ==
  PoolType /\ ServerNotForgotten /\ UNCHANGED server_vars
  => PoolType' /\ ServerNotForgotten'
  BY DEF server_vars, PoolType, ServerNotForgotten, Server!NeverForgotten

\* A start: if there is no free object, some object is in use.
LEMMA StartKeeps ==
  ASSUME PoolType, ServerNotForgotten, Server!bt_le_adv_start
  PROVE  PoolType' /\ ServerNotForgotten'
<1>1. CASE \E o \in Objs : /\ pool[o] = "free"
                           /\ pool' = [pool EXCEPT ![o] = "advertising"]
  BY <1>1 DEF PoolType, ServerNotForgotten, Server!NeverForgotten
<1>2. CASE pool' = pool /\ (Server!Advertising \/ \A o \in Objs : pool[o] # "free")
  <2>1. \E o \in Objs : pool[o] # "free"
    BY <1>2, ObjsAssumption DEF Server!Advertising
  <2> QED BY <1>2, <2>1 DEF PoolType, ServerNotForgotten, Server!NeverForgotten
<1> QED BY <1>1, <1>2 DEF Server!bt_le_adv_start

\* The steps of one object: its end is in the pool until it is in recycled.
LEMMA ObjectKeeps ==
  ASSUME PoolType, ServerNotForgotten, NEW o \in Objs,
         \/ Server!connected(o) \/ Server!connected_err(o)
         \/ Server!disconnected(o) \/ Server!unref(o)
  PROVE  PoolType' /\ ServerNotForgotten'
<1>1. CASE Server!connected(o)
  BY <1>1 DEF Server!connected, PoolType, ServerNotForgotten, Server!NeverForgotten
<1>2. CASE Server!connected_err(o)
  BY <1>2 DEF Server!connected_err, PoolType, ServerNotForgotten, Server!NeverForgotten
<1>3. CASE Server!disconnected(o)
  BY <1>3 DEF Server!disconnected, PoolType, ServerNotForgotten, Server!NeverForgotten
<1>4. CASE Server!unref(o)
  BY <1>4 DEF Server!unref, PoolType, ServerNotForgotten, Server!NeverForgotten
<1> QED BY <1>1, <1>2, <1>3, <1>4

\* The steps of the work item, the other callbacks, and a restart.
LEMMA WorkKeeps ==
  ASSUME PoolType, ServerNotForgotten,
         \/ Server!bt_ready \/ Server!advertise \/ Server!bt_le_adv_start_fails
         \/ Server!on_conn_recycled \/ Server!restart
  PROVE  PoolType' /\ ServerNotForgotten'
<1> USE DEF PoolType, ServerNotForgotten, Server!NeverForgotten
<1>1. CASE Server!bt_ready
  BY <1>1 DEF Server!bt_ready
<1>2. CASE Server!advertise
  BY <1>2 DEF Server!advertise
<1>3. CASE Server!bt_le_adv_start_fails
  BY <1>3 DEF Server!bt_le_adv_start_fails
<1>4. CASE Server!on_conn_recycled
  BY <1>4 DEF Server!on_conn_recycled
<1>5. CASE Server!restart
  BY <1>5 DEF Server!restart, Server!PowerUp
<1> QED BY <1>1, <1>2, <1>3, <1>4, <1>5

LEMMA ServerStep ==
  PoolType /\ ServerNotForgotten /\ [LinkNext]_link_vars
  => PoolType' /\ ServerNotForgotten'
<1> SUFFICES ASSUME PoolType, ServerNotForgotten, [LinkNext]_link_vars
             PROVE  PoolType' /\ ServerNotForgotten'
  OBVIOUS
<1>1. CASE UNCHANGED server_vars
  BY <1>1, ServerIdle
<1>2. CASE \E o \in Objs : \/ Server!connected(o) \/ Server!connected_err(o)
                           \/ Server!disconnected(o) \/ Server!unref(o)
  BY <1>2, ObjectKeeps
<1>3. CASE Server!bt_le_adv_start
  BY <1>3, StartKeeps
<1>4. CASE \/ Server!bt_ready \/ Server!advertise \/ Server!bt_le_adv_start_fails
           \/ Server!on_conn_recycled \/ Server!restart
  BY <1>4, WorkKeeps
<1> QED
  BY <1>1, <1>2, <1>3, <1>4
     DEF LinkNext, link_vars, ScanHit, Establish, AttemptFails, ConnectingFails,
         ClientLoses, ClientHears, ServerAttemptFails, ServerAlone, ServerLoses, Discovery, ServerWork,
         ServerStarts, ServerStartFails, ServerCallbacks, ServerRestarts,
         ClientResets

\* ServerNotForgotten holds of the two boards together, for any pool: every
\* path on which bluetooth_smp.c gives up an object leads to another start.
THEOREM ServerNeverForgotten == LinkSpec => []ServerNotForgotten
<1>1. LinkInit => PoolType /\ ServerNotForgotten
  BY ServerStart
<1>2. PoolType /\ ServerNotForgotten /\ [LinkNext]_link_vars
      => (PoolType /\ ServerNotForgotten)'
  BY ServerStep
<1> QED BY <1>1, <1>2, PTL DEF LinkSpec

-----------------------------------------------------------------------------
\* The only steps that can leave the client idle are those of scan_failed.
LEMMA ClientStep == ClientNotIdle /\ [LinkNext]_link_vars => ClientNotIdle'
<1> SUFFICES ASSUME ClientNotIdle, [LinkNext]_link_vars
             PROVE  ClientNotIdle'
  OBVIOUS
<1> USE DEF ClientNotIdle
<1>1. CASE UNCHANGED <<scanning, default_conn, scan_failed>>
  BY <1>1
<1>2. CASE \E c \in Conns : scan_connecting(c)
  BY <1>2, ConnAssumption DEF scan_connecting
<1>3. CASE scan_connecting_error
  BY <1>3 DEF scan_connecting_error
<1>4. CASE \E c \in Conns : connected_err(c) \/ disconnected(c)
  <2>1. PICK c \in Conns : release(c)
    BY <1>4 DEF connected_err, disconnected
  <2> QED BY <2>1 DEF release, bt_scan_start
<1>5. CASE client_reset
  BY <1>5 DEF client_reset, bt_scan_start
<1> QED
  BY <1>1, <1>2, <1>3, <1>4, <1>5
     DEF LinkNext, link_vars, vars, bt, ClientResets, ScanHit, Establish,
         AttemptFails, ConnectingFails, ClientLoses, ClientHears, link_lost,
         connected, ServerAttemptFails, ServerAlone, ServerLoses, Discovery,
         discovery_completed_cb, discovery_failed, ServerWork, ServerStarts,
         ServerStartFails, ServerCallbacks, ServerRestarts

\* ClientNotIdle holds of the two boards together, whichever of the failures
\* happen: release and main() are the only ways to lose default_conn, and both
\* start the scan. The statement names the exception: a client whose last scan
\* did not start, or could not make its connection, is idle.
THEOREM ClientNeverIdle == LinkSpec => []ClientNotIdle
<1>1. LinkInit => ClientNotIdle
  BY DEF LinkInit, Init, ClientNotIdle
<1>2. ClientNotIdle /\ [LinkNext]_link_vars => ClientNotIdle'
  BY ClientStep
<1> QED BY <1>1, <1>2, PTL DEF LinkSpec

-----------------------------------------------------------------------------
\* What the boards do together, the client does in SmpClient: the link only
\* says when. So every theorem of SmpClientProofs holds here as well.
THEOREM LinkImplementsClient == LinkSpec => Spec
<1>1. LinkInit => Init
  BY DEF LinkInit
<1>2. [LinkNext]_link_vars => [Next]_vars
  BY DEF LinkNext, link_vars, Next, ScanHit, Establish, AttemptFails,
         ConnectingFails, ClientLoses, ClientHears, ServerAttemptFails,
         ServerAlone, ServerLoses, Discovery, ServerWork, ServerStarts,
         ServerStartFails, ServerCallbacks, ServerRestarts, ClientResets
<1> QED BY <1>1, <1>2, PTL DEF LinkSpec, Spec

-----------------------------------------------------------------------------
\* What both ends believe in is a pair of a client's and a server's object, and
\* the server's variables keep their types.
ServerAndLinkType == Server!ServerTypeOK /\ link \subseteq Conns \X Objs

LEMMA ServerTypeStart == LinkInit => ServerAndLinkType
  BY DEF LinkInit, Server!ServerInit, Server!PowerUp, Server!ServerTypeOK,
         ServerAndLinkType

\* One step of the server, whatever the link does.
LEMMA ServerTypeKeeps ==
  ASSUME Server!ServerTypeOK,
         \/ UNCHANGED server_vars
         \/ Server!bt_ready \/ Server!advertise \/ Server!bt_le_adv_start
         \/ Server!bt_le_adv_start_fails \/ Server!on_conn_recycled
         \/ Server!restart
         \/ \E o \in Objs : \/ Server!connected(o) \/ Server!connected_err(o)
                            \/ Server!disconnected(o) \/ Server!unref(o)
  PROVE  Server!ServerTypeOK'
<1> USE DEF Server!ServerTypeOK
<1>1. CASE UNCHANGED server_vars
  BY <1>1 DEF server_vars
<1>2. CASE Server!bt_ready \/ Server!advertise \/ Server!on_conn_recycled
  BY <1>2 DEF Server!bt_ready, Server!advertise, Server!on_conn_recycled
<1>3. CASE Server!bt_le_adv_start \/ Server!bt_le_adv_start_fails
  BY <1>3 DEF Server!bt_le_adv_start, Server!bt_le_adv_start_fails
<1>4. CASE Server!restart
  BY <1>4 DEF Server!restart, Server!PowerUp
<1>5. CASE \E o \in Objs : Server!connected(o) \/ Server!connected_err(o)
  BY <1>5 DEF Server!connected, Server!connected_err
<1>6. CASE \E o \in Objs : Server!disconnected(o) \/ Server!unref(o)
  BY <1>6 DEF Server!disconnected, Server!unref
<1> QED BY <1>1, <1>2, <1>3, <1>4, <1>5, <1>6

LEMMA ServerTypeStep ==
  ServerAndLinkType /\ [LinkNext]_link_vars => ServerAndLinkType'
<1> SUFFICES ASSUME ServerAndLinkType, [LinkNext]_link_vars
             PROVE  ServerAndLinkType'
  OBVIOUS
<1>1. Server!ServerTypeOK'
  <2>1. \/ UNCHANGED server_vars
        \/ Server!bt_ready \/ Server!advertise \/ Server!bt_le_adv_start
        \/ Server!bt_le_adv_start_fails \/ Server!on_conn_recycled
        \/ Server!restart
        \/ \E o \in Objs : \/ Server!connected(o) \/ Server!connected_err(o)
                           \/ Server!disconnected(o) \/ Server!unref(o)
    BY DEF LinkNext, link_vars, ScanHit, Establish, AttemptFails, ConnectingFails,
           ClientLoses, ClientHears, ServerAttemptFails, ServerAlone, ServerLoses, Discovery, ServerWork,
           ServerStarts, ServerStartFails, ServerCallbacks, ServerRestarts,
           ClientResets
  <2> QED BY <2>1, ServerTypeKeeps DEF ServerAndLinkType
<1>2. (link \subseteq Conns \X Objs)'
  <2>1. \/ link' = link \/ link' = {}
        \/ \E c \in Conns, o \in Objs : link' = link \cup {<<c, o>>}
        \/ \E c \in Conns : link' = {l \in link : l[1] # c}
        \/ \E o \in Objs : link' = {l \in link : l[2] # o}
    BY DEF LinkNext, link_vars, ScanHit, Establish, AttemptFails, ConnectingFails,
           ClientLoses, ClientHears, ServerAttemptFails, ServerAlone, ServerLoses, Discovery, ServerWork,
           ServerStarts, ServerStartFails, ServerCallbacks, ServerRestarts,
           ClientResets
  <2> QED BY <2>1 DEF ServerAndLinkType
<1> QED BY <1>1, <1>2 DEF ServerAndLinkType

\* ComposedTypeOK: SmpClient's part of it is its own theorem, for the boards
\* together do what SmpClient does.
THEOREM ComposedTypeCorrect == LinkSpec => []ComposedTypeOK
<1>1. LinkSpec => []TypeOK
  BY LinkImplementsClient, TypeCorrect, PTL
<1>2. LinkSpec => []ServerAndLinkType
  BY ServerTypeStart, ServerTypeStep, PTL DEF LinkSpec
<1>3. TypeOK /\ ServerAndLinkType => ComposedTypeOK
  BY DEF ServerAndLinkType, ComposedTypeOK
<1> QED BY <1>1, <1>2, <1>3, PTL
=============================================================================
