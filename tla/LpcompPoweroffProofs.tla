------------------------ MODULE LpcompPoweroffProofs ------------------------
(***************************************************************************)
(* The comparator watches for what current_state waits for. What makes it  *)
(* so is the order of the calls in comp_callback(): between the stop and   *)
(* the start nothing interrupts, and the driver takes the configuration    *)
(* because the comparator does not run.                                    *)
(***************************************************************************)
EXTENDS LpcompPoweroff, TLAPS

Configured ==
    /\ current_state = High => reference = Above /\ detection = "up"
    /\ current_state = Low => reference = Between /\ detection # "up"

\* In the callback: stopped, after main() has begun, the state and poweroff
\* changed together, and the threshold in place before the start.
CallbackInOrder ==
    callback # "none" =>
        /\ ~running
        /\ main # "start"
        /\ poweroff <=> current_state = High
        /\ callback = "start" => Configured

\* Before main() has begun: as the devicetree and the initialisers leave it,
\* and no direction that interrupts.
BeforeMain ==
    main = "start" =>
        /\ int_mask = "none" /\ detection = "none" /\ reference = Between
        /\ running
        /\ current_state = Low /\ ~poweroff
        /\ callback = "none"

LpcompInv == TypeOK /\ WatchesForState /\ CallbackInOrder /\ BeforeMain

\* At reset.
LEMMA InitLpcomp == Init => LpcompInv
  BY DEF Init, LpcompInv, TypeOK, WatchesForState, CallbackInOrder, BeforeMain,
         Configured, Low, High, Below, Between, Above

\* The steps of main().
LEMMA MainKeeps ==
  ASSUME LpcompInv,
         \/ comparator_set_trigger \/ k_sleep \/ test_poweroff \/ sys_poweroff
  PROVE  LpcompInv'
<1> USE DEF LpcompInv, TypeOK, WatchesForState, CallbackInOrder, BeforeMain,
            Configured, MainRuns, comparator, program
<1>1. CASE comparator_set_trigger
  BY <1>1 DEF comparator_set_trigger, Low, High
<1>2. CASE k_sleep
  BY <1>2 DEF k_sleep
<1>3. CASE test_poweroff
  BY <1>3 DEF test_poweroff
<1>4. CASE sys_poweroff
  BY <1>4 DEF sys_poweroff
<1> QED BY <1>1, <1>2, <1>3, <1>4

\* The callback interrupts only a main() that has set the trigger.
LEMMA InterruptAfterStart == LpcompInv /\ Interrupt => main # "start"
  BY DEF LpcompInv, TypeOK, BeforeMain, Interrupt

\* The steps of comp_callback().
LEMMA CallbackKeeps ==
  ASSUME LpcompInv, comp_callback \/ nrfx_lpcomp_reconfigure \/ nrfx_lpcomp_start
  PROVE  LpcompInv'
<1> USE DEF LpcompInv, TypeOK, WatchesForState, CallbackInOrder, BeforeMain,
            Configured
<1>1. CASE comp_callback
  <2>1. Interrupt /\ main # "start"
    BY <1>1, InterruptAfterStart DEF comp_callback
  <2>2. CASE \/ HighToLow /\ Flip(Low, FALSE) /\ running' = FALSE
             \/ LowToHigh /\ Flip(High, TRUE) /\ running' = FALSE
    BY <1>1, <2>1, <2>2 DEF comp_callback, Flip, Low, High
  <2>3. CASE UNCHANGED <<current_state, poweroff, callback, running>>
    BY <1>1, <2>1, <2>3 DEF comp_callback
  <2> QED BY <1>1, <2>2, <2>3 DEF comp_callback
<1>2. CASE nrfx_lpcomp_reconfigure
  BY <1>2 DEF nrfx_lpcomp_reconfigure, Low, High, Between, Above
<1>3. CASE nrfx_lpcomp_start
  BY <1>3 DEF nrfx_lpcomp_start, IntMask, Low, High
<1> QED BY <1>1, <1>2, <1>3

\* The voltage changes neither side; a reset starts over.
LEMMA VoltageKeeps ==
  ASSUME LpcompInv, NEW v \in Below .. Above, move(v) \/ wake(v)
  PROVE  LpcompInv'
<1> USE DEF LpcompInv, TypeOK, WatchesForState, CallbackInOrder, BeforeMain,
            Configured
<1>1. CASE move(v)
  BY <1>1 DEF move, Crossings, program
<1>2. CASE wake(v)
  BY <1>2 DEF wake, Low, High, Between, Above
<1> QED BY <1>1, <1>2

\* Every step keeps it.
LEMMA NextLpcomp == LpcompInv /\ [Next]_vars => LpcompInv'
<1> SUFFICES ASSUME LpcompInv, [Next]_vars PROVE LpcompInv'
  OBVIOUS
<1>1. CASE Program
  BY <1>1, MainKeeps, CallbackKeeps DEF Program
<1>2. CASE \E v \in Below .. Above : move(v) \/ wake(v)
  BY <1>2, VoltageKeeps
<1>3. CASE UNCHANGED vars
  BY <1>3 DEF vars, program, comparator, LpcompInv, TypeOK, WatchesForState,
              CallbackInOrder, BeforeMain, Configured
<1> QED BY <1>1, <1>2, <1>3 DEF Next

\* The invariant, of every behaviour.
LEMMA LpcompInvariant == Spec => []LpcompInv
  BY InitLpcomp, NextLpcomp, PTL DEF Spec

\* TypeOK: comp_callback() and main() leave no variable outside its range, and the
\* comparator has only the two references that are configured.
THEOREM TypeCorrect == Spec => []TypeOK
<1>1. LpcompInv => TypeOK
  BY DEF LpcompInv
<1> QED BY <1>1, LpcompInvariant, PTL

\* WatchesForState holds through every interrupt of comp_callback() and in
\* system off, whatever the voltage does meanwhile.
THEOREM WatchesAlways == Spec => []WatchesForState
<1>1. LpcompInv => WatchesForState
  BY DEF LpcompInv
<1> QED BY <1>1, LpcompInvariant, PTL
=============================================================================
