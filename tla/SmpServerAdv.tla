---------------------------- MODULE SmpServerAdv ----------------------------
(***************************************************************************)
(* The SMP server's advertising                                            *)
(* (bootloader_samples/smp/mcuboot_smp_ble/src/bluetooth_smp.c).           *)
(*                                                                         *)
(* The server has one work item, advertise_work, which starts to advertise *)
(* once. It is submitted when Bluetooth is ready, when a connection could  *)
(* not be made, and when the stack has taken a connection object back.     *)
(*                                                                         *)
(* Advertising needs a connection object of its own, and an object is      *)
(* given back some time after its connection has failed or ended: that     *)
(* part of the stack is External, and modelled as the callbacks see it.    *)
(***************************************************************************)
CONSTANT Objs       \* the stack's connection objects, CONFIG_BT_MAX_CONN

VARIABLES
    ready,          \* External: bt_enable has completed
    advertise_work, \* the work item is on the work queue
    in_advertise,   \* the work queue thread is in advertise()
    pool,           \* External: state of each connection object
    recycled,       \* External: on_conn_recycled is due
    start_failed    \* history: the stack refused the last start

ServerTypeOK ==
    /\ ready \in BOOLEAN
    /\ advertise_work \in BOOLEAN
    /\ in_advertise \in BOOLEAN
    /\ pool \in [Objs -> {"free", "advertising", "connected", "closing"}]
    /\ recycled \in BOOLEAN
    /\ start_failed \in BOOLEAN

PowerUp == [ready |-> FALSE, advertise_work |-> FALSE, in_advertise |-> FALSE,
            pool |-> [o \in Objs |-> "free"], recycled |-> FALSE,
            start_failed |-> FALSE]

\* What start_smp_bluetooth_adverts() leaves: the work item initialised,
\* bt_enable under way.
ServerInit ==
    /\ ready = PowerUp.ready
    /\ advertise_work = PowerUp.advertise_work
    /\ in_advertise = PowerUp.in_advertise
    /\ pool = PowerUp.pool
    /\ recycled = PowerUp.recycled
    /\ start_failed = PowerUp.start_failed

Advertising == \E o \in Objs : pool[o] = "advertising"

\* Enabling that fails is printed, and leaves ready FALSE for good.
bt_ready ==
    /\ ~ready
    /\ ready' = TRUE
    /\ advertise_work' = TRUE
    /\ UNCHANGED <<in_advertise, pool, recycled, start_failed>>

\* The work queue thread takes the item: from now on it can be submitted again.
advertise ==
    /\ advertise_work /\ ~in_advertise
    /\ advertise_work' = FALSE
    /\ in_advertise' = TRUE
    /\ UNCHANGED <<ready, pool, recycled, start_failed>>

\* External: bt_le_adv_start takes a free object, or returns -EALREADY or
\* -ENOMEM. advertise() prints an error and returns.
bt_le_adv_start ==
    /\ in_advertise
    /\ in_advertise' = FALSE
    /\ \/ /\ ~Advertising
          /\ \E o \in Objs : /\ pool[o] = "free"
                             /\ pool' = [pool EXCEPT ![o] = "advertising"]
          /\ start_failed' = FALSE
       \/ /\ Advertising \/ \A o \in Objs : pool[o] # "free"
          /\ UNCHANGED <<pool, start_failed>>
    /\ UNCHANGED <<ready, advertise_work, recycled>>

\* External: the stack or the controller refuses for a reason of its own.
\* advertise() prints the error and returns.
bt_le_adv_start_fails ==
    /\ in_advertise /\ ~Advertising
    /\ in_advertise' = FALSE
    /\ start_failed' = TRUE
    /\ UNCHANGED <<ready, advertise_work, pool, recycled>>

\* The connection takes the advertiser's object, and advertising is over.
connected(o) ==
    /\ pool[o] = "advertising"
    /\ pool' = [pool EXCEPT ![o] = "connected"]
    /\ UNCHANGED <<ready, advertise_work, in_advertise, recycled, start_failed>>

\* A failed connection: the object is still to be given back when the work is
\* submitted.
connected_err(o) ==
    /\ pool[o] = "advertising"
    /\ pool' = [pool EXCEPT ![o] = "closing"]
    /\ advertise_work' = TRUE
    /\ UNCHANGED <<ready, in_advertise, recycled, start_failed>>

\* disconnected() only prints.
disconnected(o) ==
    /\ pool[o] = "connected"
    /\ pool' = [pool EXCEPT ![o] = "closing"]
    /\ UNCHANGED <<ready, advertise_work, in_advertise, recycled, start_failed>>

\* External: nobody refers to the object any more.
unref(o) ==
    /\ pool[o] = "closing"
    /\ pool' = [pool EXCEPT ![o] = "free"]
    /\ recycled' = TRUE
    /\ UNCHANGED <<ready, advertise_work, in_advertise, start_failed>>

\* The seeded error: as if the other two submissions were enough.
on_conn_recycled_Silent ==
    /\ recycled
    /\ recycled' = FALSE
    /\ UNCHANGED <<ready, advertise_work, in_advertise, pool, start_failed>>
on_conn_recycled ==
    /\ recycled
    /\ recycled' = FALSE
    /\ advertise_work' = TRUE
    /\ UNCHANGED <<ready, in_advertise, pool, start_failed>>

\* External: the board restarts, at any time.
restart ==
    /\ ready
    /\ ready' = PowerUp.ready
    /\ advertise_work' = PowerUp.advertise_work
    /\ in_advertise' = PowerUp.in_advertise
    /\ pool' = PowerUp.pool
    /\ recycled' = PowerUp.recycled
    /\ start_failed' = PowerUp.start_failed

-----------------------------------------------------------------------------
\* A server that is up is not forgotten: it advertises, or holds an object whose
\* end will start it again, or a start is on its way. The one exception is a
\* start that the stack refused: advertise() does not retry. It has to hold with
\* submissions that meet in the one work item, with starts that find no free
\* object, and with the object coming back after the work has run.
NeverForgotten ==
    ready => \/ start_failed
             \/ advertise_work \/ in_advertise \/ recycled
             \/ \E o \in Objs : pool[o] # "free"
=============================================================================
