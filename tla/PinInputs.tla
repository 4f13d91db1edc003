------------------------------ MODULE PinInputs ------------------------------
(***************************************************************************)
(* Limit switch inputs of driver.c: the GPIO interrupt (gpio_isr), the      *)
(* debounce it defers to the grbl task (pin_debounce, 40 ms later), and     *)
(* limitsEnable, with which grbl arms the inputs and takes out those that a *)
(* homing cycle uses.                                                       *)
(*                                                                          *)
(* The interrupt runs on the core of the grbl task and before its next      *)
(* step, so a whole gpio_isr is one action, and so is limitsEnable: an      *)
(* interrupt between two turns of its loop does what it would have done     *)
(* before or after all of it.  pin_debounce is two, since a switch may move *)
(* between the test of its level and the end of the function.               *)
(***************************************************************************)
EXTENDS Naturals, FiniteSets

CONSTANTS
    Pins,                \* limit inputs
    NoPin,
    HomingSources,       \* the sets of inputs that homing cycles use
    MaxTasks,            \* bound: calls of pin_debounce waiting for one input
    MaxPresses           \* bound: times that switches close

ASSUME PinAssumption ==
    /\ NoPin \notin Pins
    /\ HomingSources \subseteq (SUBSET Pins)
    /\ MaxTasks \in Nat
    /\ MaxPresses \in Nat

VARIABLES
    active,              \* external: the switches that are closed
    intr_type,           \* GPIO: inputs whose edges are detected
    intr_enabled,        \* GPIO: inputs whose interrupt is enabled
    intr_status,         \* GPIO: inputs whose interrupt is pending
    tasks,               \* external: calls of pin_debounce waiting, per input
    debouncing,          \* the input between test and end of pin_debounce
    \* history
    armed,               \* inputs the last limitsEnable left enabled
    reported,            \* closed, and the callback was told since
    missed,              \* closed while nothing watched the input
    presses              \* number of times that a switch closed

gpio == <<intr_type, intr_enabled, intr_status>>
switches == <<active, missed, presses>>
vars == <<active, intr_type, intr_enabled, intr_status, tasks, debouncing,
          armed, reported, missed, presses>>

\* Inputs are configured without a limit interrupt; limitsEnable arms them.
Init ==
    /\ active = {}
    /\ intr_type = {}
    /\ intr_enabled = {}
    /\ intr_status = {}
    /\ tasks = [p \in Pins |-> 0]
    /\ debouncing = NoPin
    /\ armed = {}
    /\ reported = {}
    /\ missed = {}
    /\ presses = 0

-----------------------------------------------------------------------------
(* Switches (external)                                                      *)

\* An edge is latched for an input whose interrupt is enabled; enabling an
\* interrupt forgets an edge latched before.
Watched(p) == p \in intr_type \cap intr_enabled

Press(p) ==
    /\ p \notin active
    /\ presses < MaxPresses
    /\ presses' = presses + 1
    /\ active' = active \cup {p}
    /\ IF Watched(p)
       THEN intr_status' = intr_status \cup {p} /\ UNCHANGED missed
       ELSE /\ missed' = IF tasks[p] = 0 THEN missed \cup {p} ELSE missed
            /\ UNCHANGED intr_status
    /\ UNCHANGED <<intr_type, intr_enabled, tasks, debouncing, armed, reported>>

Release(p) ==
    /\ p \in active
    /\ active' = active \ {p}
    /\ missed' = missed \ {p}
    /\ reported' = reported \ {p}
    /\ UNCHANGED <<gpio, tasks, debouncing, armed, presses>>

-----------------------------------------------------------------------------
(* The interrupt                                                            *)

Pending == intr_status \cap intr_enabled

\* Variants named Bug... are plausible mistakes in the definition that follows
\* them; no specification uses them.

\* The inputs of the interrupt are reported, not the switches that are closed.
BugReportsPending == reported' = reported \cup Pending

\* hal.limits.interrupt_callback(limitsGetState()).
Callback == reported' = reported \cup active

BugDisablesAnyway(added) ==
    /\ Pending # {}
    /\ intr_status' = intr_status \ Pending
    /\ tasks' = [p \in Pins |-> IF p \in added THEN tasks[p] + 1 ELSE tasks[p]]
    /\ intr_enabled' = intr_enabled \ Pending
    /\ IF added # Pending THEN Callback ELSE UNCHANGED reported
    /\ UNCHANGED <<switches, intr_type, debouncing, armed>>

BugNoFallback(added) ==
    /\ Pending # {}
    /\ intr_status' = intr_status \ Pending
    /\ tasks' = [p \in Pins |-> IF p \in added THEN tasks[p] + 1 ELSE tasks[p]]
    /\ intr_enabled' = intr_enabled \ added
    /\ UNCHANGED <<switches, intr_type, debouncing, armed, reported>>

\* The inputs in "added" get a delayed task and are disabled; for the others
\* task_add_delayed found no room and the callback is called at once.
gpio_isr(added) ==
    /\ Pending # {}
    /\ intr_status' = intr_status \ Pending
    /\ tasks' = [p \in Pins |-> IF p \in added THEN tasks[p] + 1 ELSE tasks[p]]
    /\ intr_enabled' = intr_enabled \ added
    /\ IF added # Pending THEN Callback ELSE UNCHANGED reported
    /\ UNCHANGED <<switches, intr_type, debouncing, armed>>

Interrupt ==
    \E added \in SUBSET Pending :
        /\ \A p \in added : tasks[p] < MaxTasks
        /\ gpio_isr(added)

-----------------------------------------------------------------------------
(* grbl task                                                                *)

\* The task goes on when no interrupt is pending.
TaskRuns == Pending = {}

\* pin_debounce: an input that is still active is reported ...
BugOneTaskForAll(p) ==
    /\ TaskRuns
    /\ debouncing = NoPin
    /\ tasks[p] > 0
    /\ tasks' = [q \in Pins |-> 0]
    /\ debouncing' = p
    /\ IF p \in active THEN Callback ELSE UNCHANGED reported
    /\ UNCHANGED <<switches, gpio, armed>>

DebounceTest(p) ==
    /\ TaskRuns
    /\ debouncing = NoPin
    /\ tasks[p] > 0
    /\ tasks' = [tasks EXCEPT ![p] = @ - 1]
    /\ debouncing' = p
    /\ IF p \in active THEN Callback ELSE UNCHANGED reported
    /\ UNCHANGED <<switches, gpio, armed>>

\* ... and its interrupt is enabled again.
DebounceEnable ==
    /\ TaskRuns
    /\ debouncing # NoPin
    /\ intr_enabled' = intr_enabled \cup {debouncing}
    /\ intr_status' = intr_status \ {debouncing}
    /\ debouncing' = NoPin
    /\ UNCHANGED <<switches, intr_type, tasks, armed, reported>>

\* limitsEnable(on, homing): off takes all inputs out, a homing cycle those it
\* uses.
limitsEnable(on, homing) ==
    /\ TaskRuns
    /\ debouncing = NoPin
    /\ armed' = IF on THEN Pins \ homing ELSE {}
    /\ intr_type' = IF on THEN Pins ELSE {}
    /\ intr_enabled' = armed'
    /\ intr_status' = {}
    /\ UNCHANGED <<switches, tasks, debouncing, reported>>

Debounce == DebounceEnable \/ \E p \in Pins : DebounceTest(p)

Next ==
    \/ \E p \in Pins : Press(p) \/ Release(p)
    \/ Interrupt
    \/ Debounce
    \/ limitsEnable(FALSE, {})
    \/ \E homing \in HomingSources : limitsEnable(TRUE, homing)

\* Interrupts are taken and delayed tasks run.
Fairness == WF_vars(Interrupt) /\ WF_vars(Debounce)

Spec == Init /\ [][Next]_vars /\ Fairness

-----------------------------------------------------------------------------
(* Properties                                                               *)

\* No switch is reported that bounced and is open when the callback is called.
TypeOK ==
    /\ active \in SUBSET Pins
    /\ intr_type \in SUBSET Pins
    /\ intr_enabled \in SUBSET Pins
    /\ intr_status \in SUBSET Pins
    /\ tasks \in [Pins -> Nat]
    /\ debouncing \in Pins \cup {NoPin}
    /\ armed \in SUBSET Pins
    /\ reported \subseteq active
    /\ missed \subseteq active
    /\ presses \in Nat

\* An input that limitsEnable left enabled is never deaf: its interrupt is
\* enabled, or a debounce that will enable it is on its way.  It may have been
\* taken out and armed again, any number of times, with a debounce waiting.
NoDeafPin ==
    \A p \in armed :
        p \in intr_type /\ (p \in intr_enabled \/ tasks[p] > 0 \/ debouncing = p)

\* A switch that closes and stays closed is known to grbl, or the news is on
\* its way, unless it closed while nothing watched the input: before it was
\* armed, or after pin_debounce had found it open and before that enabled the
\* interrupt again.
PressNotLost ==
    \A p \in active :
        p \in reported \cup missed \/ p \in intr_status \/ tasks[p] > 0

\* ... and the news arrives.
PressReported ==
    \A p \in Pins :
        (p \in active \ missed) ~> (p \in reported \/ p \notin active)

\* An input that limitsEnable took out does not interrupt.
DisabledIsQuiet == \A p \in Pins \ armed : ~ Watched(p)
=============================================================================
