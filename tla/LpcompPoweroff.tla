--------------------------- MODULE LpcompPoweroff ---------------------------
(***************************************************************************)
(* Switching off on a voltage                                              *)
(* (peripherals/lpcomp_system_off/src/main.c and app.overlay).             *)
(*                                                                         *)
(* The callback of the low-power comparator sets poweroff and points the   *)
(* comparator at the other of two thresholds. The main loop looks at       *)
(* poweroff every five seconds and switches the system off. Only the       *)
(* comparator can end that: the system then starts from reset.             *)
(*                                                                         *)
(* The comparator and its driver are External. Its output is 1 while the   *)
(* input is above the reference. While it runs it remembers that the input *)
(* has crossed the reference upwards or downwards, interrupts if that is   *)
(* the direction it was started with, and in system off wakes the system   *)
(* if it is the direction called "detection". The driver does not          *)
(* reconfigure a comparator that runs. Whether it forgets, on starting,    *)
(* what was remembered without an interrupt is left open.                  *)
(*                                                                         *)
(* The callback is an interrupt: main() does not run until it is over, but *)
(* the voltage moves. A name such as comp_callback_NoStop is a seeded      *)
(* error, used by no action.                                               *)
(***************************************************************************)
EXTENDS Integers

\* The input, against 4/8 and 7/8 of the supply.
Below == 0
Between == 1
Above == 2

Low == "WAITING_FOR_VOLT_LOW"
High == "WAITING_FOR_VOLT_HIGH"

VARIABLES
    poweroff,
    current_state,
    main,       \* where main() is
    callback,   \* where comp_callback() is
    reference,  \* External: the threshold of the comparator, as a voltage
    detection,  \* External: the direction that wakes the system
    int_mask,   \* External: the direction that interrupts
    running,    \* External: the comparator runs
    seen,       \* External: the crossings it remembers
    voltage,    \* External: the input
    on          \* External: the system is not in system off

program == <<poweroff, current_state, main, callback>>
comparator == <<reference, detection, int_mask, running, seen>>
vars == <<program, comparator, voltage, on>>

\* One type invariant.
TypeOK ==
    /\ poweroff \in BOOLEAN
    /\ current_state \in {Low, High}
    /\ main \in {"start", "sleep", "test", "poweroff"}
    /\ callback \in {"none", "reconfigure", "start"}
    /\ reference \in {Between, Above}
    /\ detection \in {"up", "down", "none"}
    /\ int_mask \in {"up", "down", "none"}
    /\ running \in BOOLEAN
    /\ seen \subseteq {"up", "down"}
    /\ voltage \in Below .. Above
    /\ on \in BOOLEAN

\* The static initialisers and the devicetree: refsel = "VDD_4_8".
Init ==
    /\ poweroff = FALSE
    /\ current_state = Low
    /\ main = "start"
    /\ callback = "none"
    /\ reference = Between
    /\ detection = "none"
    /\ int_mask = "none"
    /\ running = TRUE
    /\ seen = {}
    /\ voltage \in Below .. Above
    /\ on = TRUE

comparator_get_output == IF voltage >= reference THEN 1 ELSE 0

-----------------------------------------------------------------------------
(* main(), when no interrupt runs.                                         *)

MainRuns == on /\ callback = "none"

comparator_set_trigger ==
    /\ MainRuns /\ main = "start"
    /\ int_mask' = "up"
    /\ main' = "sleep"
    /\ UNCHANGED <<poweroff, current_state, callback, reference, detection,
                   running, seen, voltage, on>>

k_sleep ==
    /\ MainRuns /\ main = "sleep"
    /\ main' = "test"
    /\ UNCHANGED <<poweroff, current_state, callback, comparator, voltage, on>>

test_poweroff ==
    /\ MainRuns /\ main = "test"
    /\ main' = IF poweroff THEN "poweroff" ELSE "sleep"
    /\ UNCHANGED <<poweroff, current_state, callback, comparator, voltage, on>>

sys_poweroff ==
    /\ MainRuns /\ main = "poweroff"
    /\ on' = FALSE
    /\ UNCHANGED <<program, comparator, voltage>>

-----------------------------------------------------------------------------
(* comp_callback(): test and stop, reconfigure, start.                     *)

Interrupt == on /\ callback = "none" /\ running /\ int_mask \in seen

Flip(state, off) ==
    /\ current_state' = state
    /\ poweroff' = off
    /\ callback' = "reconfigure"

LowToHigh == current_state = Low /\ comparator_get_output = 1
HighToLow == current_state = High /\ comparator_get_output = 0

comp_callback_NoStop ==
    /\ Interrupt
    /\ seen' = seen \ {int_mask}
    /\ \/ HighToLow /\ Flip(Low, FALSE)
       \/ LowToHigh /\ Flip(High, TRUE)
       \/ ~HighToLow /\ ~LowToHigh /\ UNCHANGED <<current_state, poweroff, callback>>
    /\ UNCHANGED <<main, reference, detection, int_mask, running, voltage, on>>
comp_callback ==
    /\ Interrupt
    /\ seen' = seen \ {int_mask}
    /\ \/ HighToLow /\ Flip(Low, FALSE) /\ running' = FALSE
       \/ LowToHigh /\ Flip(High, TRUE) /\ running' = FALSE
       \/ /\ ~HighToLow /\ ~LowToHigh
          /\ UNCHANGED <<current_state, poweroff, callback, running>>
    /\ UNCHANGED <<main, reference, detection, int_mask, voltage, on>>

\* config_volt_low and config_volt_high.
nrfx_lpcomp_reconfigure ==
    /\ callback = "reconfigure"
    /\ callback' = "start"
    /\ IF running THEN UNCHANGED <<reference, detection>>
       ELSE /\ reference' = IF current_state = Low THEN Between ELSE Above
            /\ detection' = IF current_state = Low THEN "down" ELSE "up"
    /\ UNCHANGED <<poweroff, current_state, main, int_mask, running, seen,
                   voltage, on>>

\* The direction given to each start.
IntMask_Cross == IF current_state = Low THEN "up" ELSE "cross"
IntMask == IF current_state = Low THEN "up" ELSE "down"

nrfx_lpcomp_start_Not ==
    /\ callback = "start"
    /\ callback' = "none"
    /\ UNCHANGED <<poweroff, current_state, main, comparator, voltage, on>>
nrfx_lpcomp_start ==
    /\ callback = "start"
    /\ callback' = "none"
    /\ int_mask' = IntMask
    /\ running' = TRUE
    /\ seen' \in {seen, {}}
    /\ UNCHANGED <<poweroff, current_state, main, reference, detection,
                   voltage, on>>

-----------------------------------------------------------------------------
(* External: the voltage, and what the comparator makes of it.             *)

\* The crossings of a running comparator's reference on the way to v.
Crossings(v) ==
    IF ~running THEN {}
    ELSE IF voltage < reference /\ v >= reference THEN {"up"}
    ELSE IF voltage >= reference /\ v < reference THEN {"down"}
    ELSE {}

move(v) ==
    /\ v - voltage \in {-1, 1}
    /\ on \/ detection \notin Crossings(v)
    /\ voltage' = v
    /\ seen' = seen \cup Crossings(v)
    /\ UNCHANGED <<program, reference, detection, int_mask, running, on>>

\* Out of system off by a reset: everything as in Init.
wake(v) ==
    /\ v - voltage \in {-1, 1}
    /\ ~on /\ detection \in Crossings(v)
    /\ poweroff' = FALSE
    /\ current_state' = Low
    /\ main' = "start"
    /\ callback' = "none"
    /\ reference' = Between
    /\ detection' = "none"
    /\ int_mask' = "none"
    /\ running' = TRUE
    /\ seen' = {}
    /\ voltage' = v
    /\ on' = TRUE

Program ==
    \/ comparator_set_trigger \/ k_sleep \/ test_poweroff \/ sys_poweroff
    \/ comp_callback \/ nrfx_lpcomp_reconfigure \/ nrfx_lpcomp_start

Next == Program \/ \E v \in Below .. Above : move(v) \/ wake(v)

\* The processor runs; the voltage does as it likes.
Spec == Init /\ [][Next]_vars /\ WF_vars(Program)

-----------------------------------------------------------------------------
(* Properties.                                                             *)

\* Between callbacks the comparator watches for what current_state waits for:
\* threshold, direction of interrupt and direction of wake-up belong together
\* and to poweroff, whichever edges came while it was reconfigured. It holds in
\* system off too, where the program cannot put it right any more.
WatchesForState ==
    callback = "none" /\ main # "start" =>
        /\ running
        /\ poweroff <=> current_state = High
        /\ current_state = High =>
            reference = Above /\ detection = "up" /\ int_mask = "down"
        /\ current_state = Low =>
            reference = Between /\ detection # "up" /\ int_mask = "up"

\* The system does not sleep through a voltage that keeps falling below the
\* lower threshold and rising above the upper one: also when the interrupt
\* cleared poweroff after main() had looked at it, or an edge fell into the
\* reconfiguration.
Swings == []<>(voltage = Below) /\ []<>(voltage = Above)
WakesUp == Swings => (~on ~> on)

-----------------------------------------------------------------------------
(* What the messages say and the program does not do.                      *)

\* comp_callback() logs "Voltage below VDD * 4/8" when it goes on to wait for
\* the upper threshold.
LogsBelowWhenBelow ==
    [][current_state = Low /\ current_state' = High => voltage = Below]_vars
=============================================================================
