--------------------------- MODULE PinInputsProofs ---------------------------
(***************************************************************************)
(* Theorems about PinInputs: an armed input is never deaf, and a press is   *)
(* not lost, for any number of inputs and of waiting debounces.             *)
(***************************************************************************)
EXTENDS PinInputs, TLAPS

\* Every variable keeps its type, and only switches that are closed are reported.
THEOREM SpecTypeOK == Spec => []TypeOK
<1>1. Init => TypeOK
  BY DEF Init, TypeOK
<1>2. TypeOK /\ [Next]_vars => TypeOK'
  <2> SUFFICES ASSUME TypeOK, [Next]_vars
               PROVE  TypeOK'
    OBVIOUS
  <2>1. ASSUME NEW p \in Pins, Press(p)
        PROVE  TypeOK'
    BY <2>1 DEF TypeOK, Press
  <2>2. ASSUME NEW p \in Pins, Release(p)
        PROVE  TypeOK'
    BY <2>2 DEF TypeOK, Release, gpio
  <2>3. ASSUME NEW added \in SUBSET Pending, gpio_isr(added)
        PROVE  TypeOK'
    <3>1. tasks' \in [Pins -> Nat]
      BY <2>3 DEF TypeOK, gpio_isr
    <3> QED
      BY <2>3, <3>1 DEF TypeOK, gpio_isr, Callback, switches
  <2>4. ASSUME NEW p \in Pins, DebounceTest(p)
        PROVE  TypeOK'
    <3>1. tasks' \in [Pins -> Nat]
      BY <2>4 DEF TypeOK, DebounceTest
    <3> QED
      BY <2>4, <3>1 DEF TypeOK, DebounceTest, Callback, switches, gpio
  <2>5. CASE DebounceEnable
    BY <2>5 DEF TypeOK, DebounceEnable, switches
  <2>6. ASSUME NEW on \in BOOLEAN, NEW homing, limitsEnable(on, homing)
        PROVE  TypeOK'
    BY <2>6 DEF TypeOK, limitsEnable, switches
  <2>7. CASE UNCHANGED vars
    BY <2>7 DEF TypeOK, vars
  <2> QED
    BY <2>1, <2>2, <2>3, <2>4, <2>5, <2>6, <2>7 DEF Next, Interrupt, Debounce
<1> QED
  BY <1>1, <1>2, PTL DEF Spec

-----------------------------------------------------------------------------
LEMMA NoDeafPinStep == TypeOK /\ NoDeafPin /\ [Next]_vars => NoDeafPin'
<1> SUFFICES ASSUME TypeOK, NoDeafPin, [Next]_vars,
                    NEW q \in armed'
             PROVE  /\ q \in intr_type'
                    /\ q \in intr_enabled' \/ tasks'[q] > 0 \/ debouncing' = q
  BY DEF NoDeafPin
<1>1. ASSUME NEW p \in Pins, Press(p) \/ Release(p)
      PROVE  UNCHANGED <<armed, intr_type, intr_enabled, tasks, debouncing>>
  BY <1>1 DEF Press, Release, gpio
<1>2. ASSUME NEW added \in SUBSET Pending, gpio_isr(added)
      PROVE  /\ q \in intr_type'
             /\ q \in intr_enabled' \/ tasks'[q] > 0 \/ debouncing' = q
  <2>1. q \in armed /\ q \in Pins
    BY <1>2 DEF gpio_isr, TypeOK
  <2>2. CASE q \in added
    <3>1. tasks'[q] = tasks[q] + 1 /\ tasks[q] \in Nat
      BY <1>2, <2>1, <2>2 DEF gpio_isr, TypeOK
    <3> QED
      BY <1>2, <2>1, <3>1 DEF gpio_isr, NoDeafPin
  <2>3. CASE q \notin added
    BY <1>2, <2>1, <2>3 DEF gpio_isr, NoDeafPin
  <2> QED
    BY <2>2, <2>3
<1>3. ASSUME NEW p \in Pins, DebounceTest(p)
      PROVE  /\ q \in intr_type'
             /\ q \in intr_enabled' \/ tasks'[q] > 0 \/ debouncing' = q
  <2>1. q \in armed /\ q \in Pins /\ debouncing = NoPin
    BY <1>3 DEF DebounceTest, TypeOK
  <2>2. CASE q = p
    BY <1>3, <2>1, <2>2 DEF DebounceTest, NoDeafPin, gpio
  <2>3. CASE q # p
    BY <1>3, <2>1, <2>3, PinAssumption DEF DebounceTest, NoDeafPin, TypeOK, gpio
  <2> QED
    BY <2>2, <2>3
<1>4. CASE DebounceEnable
  BY <1>4 DEF DebounceEnable, NoDeafPin, TypeOK
<1>5. ASSUME NEW on \in BOOLEAN, NEW homing, limitsEnable(on, homing)
      PROVE  q \in intr_type' /\ q \in intr_enabled'
  BY <1>5 DEF limitsEnable
<1>6. CASE UNCHANGED vars
  BY <1>6 DEF vars, NoDeafPin
<1> QED
  BY <1>1, <1>2, <1>3, <1>4, <1>5, <1>6 DEF Next, Interrupt, Debounce, NoDeafPin

\* However limitsEnable, the interrupt and waiting debounces interleave, an
\* input that limitsEnable armed has its interrupt enabled, or a debounce that
\* will enable it.
THEOREM SpecNoDeafPin == Spec => []NoDeafPin
<1>1. Init => NoDeafPin
  BY DEF Init, NoDeafPin
<1> QED
  BY <1>1, NoDeafPinStep, SpecTypeOK, PTL DEF Spec

-----------------------------------------------------------------------------
\* An interrupt is pending only for an input whose interrupt is enabled.
StatusInv == intr_status \subseteq intr_enabled

LEMMA StatusInvStep == StatusInv /\ [Next]_vars => StatusInv'
<1> SUFFICES ASSUME StatusInv, [Next]_vars
             PROVE  StatusInv'
  OBVIOUS
<1>1. ASSUME NEW p \in Pins, Press(p) \/ Release(p)
      PROVE  StatusInv'
  BY <1>1 DEF StatusInv, Press, Release, Watched, gpio
<1>2. ASSUME NEW added \in SUBSET Pending, gpio_isr(added)
      PROVE  StatusInv'
  BY <1>2 DEF StatusInv, gpio_isr, Pending
<1>3. CASE Debounce
  BY <1>3 DEF StatusInv, Debounce, DebounceTest, DebounceEnable, gpio
<1>4. ASSUME NEW on \in BOOLEAN, NEW homing, limitsEnable(on, homing)
      PROVE  StatusInv'
  BY <1>4 DEF StatusInv, limitsEnable
<1>5. CASE UNCHANGED vars
  BY <1>5 DEF StatusInv, vars
<1> QED
  BY <1>1, <1>2, <1>3, <1>4, <1>5 DEF Next, Interrupt

LEMMA PressNotLostStep ==
    TypeOK /\ StatusInv /\ PressNotLost /\ [Next]_vars => PressNotLost'
<1> DEFINE Known(q) ==
        q \in reported \cup missed \/ q \in intr_status \/ tasks[q] > 0
<1> SUFFICES ASSUME TypeOK, StatusInv, PressNotLost, [Next]_vars,
                    NEW q \in active'
             PROVE  Known(q)'
  BY DEF PressNotLost
<1>1. q \in active => Known(q)
  BY DEF PressNotLost
<1>2. ASSUME NEW p \in Pins, Press(p)
      PROVE  Known(q)'
  <2>1. CASE q = p
    BY <1>2, <2>1 DEF Press, TypeOK
  <2>2. CASE q # p
    BY <1>1, <1>2, <2>2 DEF Press
  <2> QED
    BY <2>1, <2>2
<1>3. ASSUME NEW p \in Pins, Release(p)
      PROVE  Known(q)'
  BY <1>1, <1>3 DEF Release, gpio
<1>4. ASSUME NEW added \in SUBSET Pending, gpio_isr(added)
      PROVE  Known(q)'
  <2>1. q \in active /\ q \in Pins
    BY <1>4 DEF gpio_isr, switches, TypeOK
  <2>2. CASE q \in added
    <3>1. tasks'[q] = tasks[q] + 1 /\ tasks[q] \in Nat
      BY <1>4, <2>1, <2>2 DEF gpio_isr, TypeOK
    <3> QED
      BY <3>1
  <2>3. CASE q \notin added /\ q \in Pending
    <3>1. reported' = reported \cup active
      BY <1>4, <2>3 DEF gpio_isr, Callback
    <3> QED
      BY <2>1, <3>1
  <2>4. CASE q \notin Pending
    <3>1. q \notin added /\ tasks'[q] = tasks[q]
      BY <1>4, <2>1, <2>4 DEF gpio_isr, TypeOK
    <3>2. q \in reported => q \in reported'
      BY <1>4 DEF gpio_isr, Callback
    <3>3. q \in intr_status => q \in intr_status'
      BY <1>4, <2>4 DEF gpio_isr
    <3>4. missed' = missed
      BY <1>4 DEF gpio_isr, switches
    <3> QED
      BY <1>1, <2>1, <3>1, <3>2, <3>3, <3>4
  <2> QED
    BY <2>2, <2>3, <2>4
<1>5. ASSUME NEW p \in Pins, DebounceTest(p)
      PROVE  Known(q)'
  <2>1. q \in active /\ q \in Pins
    BY <1>5 DEF DebounceTest, switches, TypeOK
  <2>2. CASE q = p
    BY <1>5, <2>1, <2>2 DEF DebounceTest, Callback
  <2>3. CASE q # p
    BY <1>1, <1>5, <2>1, <2>3 DEF DebounceTest, Callback, switches, gpio, TypeOK
  <2> QED
    BY <2>2, <2>3
<1>6. CASE DebounceEnable
  <2>1. intr_status = {}
    BY <1>6 DEF DebounceEnable, TaskRuns, Pending, StatusInv
  <2> QED
    BY <1>1, <1>6, <2>1 DEF DebounceEnable, switches
<1>7. ASSUME NEW on \in BOOLEAN, NEW homing, limitsEnable(on, homing)
      PROVE  Known(q)'
  <2>1. intr_status = {}
    BY <1>7 DEF limitsEnable, TaskRuns, Pending, StatusInv
  <2> QED
    BY <1>1, <1>7, <2>1 DEF limitsEnable, switches
<1>8. CASE UNCHANGED vars
  BY <1>1, <1>8 DEF vars
<1> HIDE DEF Known
<1> QED
  BY <1>2, <1>3, <1>4, <1>5, <1>6, <1>7, <1>8 DEF Next, Interrupt, Debounce

\* A switch that closes while its input is watched is reported, or will be, for
\* any number of inputs.
THEOREM SpecPressNotLost == Spec => []PressNotLost
<1>1. Init => StatusInv /\ PressNotLost
  BY DEF Init, StatusInv, PressNotLost
<1> QED
  BY <1>1, StatusInvStep, PressNotLostStep, SpecTypeOK, PTL DEF Spec

-----------------------------------------------------------------------------
\* Nothing will enable the interrupt of this input but limitsEnable.
Quiet(p) == p \notin intr_enabled /\ tasks[p] = 0 /\ debouncing # p

QuietStays == [][\A p \in Pins : Quiet(p) => Quiet(p)' \/ p \in armed']_vars

\* What DisabledIsQuiet says of limitsEnable is lost only to a debounce that was
\* waiting already: an input that is taken out with none stays silent until
\* limitsEnable arms it, whatever its switch and the other inputs do.
THEOREM SpecQuietStays == Spec => QuietStays
<1>1. TypeOK /\ [Next]_vars => [\A p \in Pins : Quiet(p) => Quiet(p)' \/ p \in armed']_vars
  <2> SUFFICES ASSUME TypeOK, [Next]_vars, NEW q \in Pins, Quiet(q), q \notin armed'
               PROVE  Quiet(q)'
    OBVIOUS
  <2>1. ASSUME NEW p \in Pins, Press(p) \/ Release(p)
        PROVE  Quiet(q)'
    BY <2>1 DEF Quiet, Press, Release, gpio
  <2>2. ASSUME NEW added \in SUBSET Pending, gpio_isr(added)
        PROVE  Quiet(q)'
    <3>1. q \notin added
      BY <2>2 DEF Quiet, Pending
    <3>2. tasks'[q] = tasks[q]
      BY <2>2, <3>1 DEF gpio_isr
    <3> QED
      BY <2>2, <3>2 DEF Quiet, gpio_isr
  <2>3. ASSUME NEW p \in Pins, DebounceTest(p)
        PROVE  Quiet(q)'
    <3>1. p # q
      BY <2>3 DEF Quiet, DebounceTest
    <3>2. tasks'[q] = tasks[q]
      BY <2>3, <3>1 DEF DebounceTest, TypeOK
    <3> QED
      BY <2>3, <3>1, <3>2 DEF Quiet, DebounceTest, gpio
  <2>4. CASE DebounceEnable
    BY <2>4, PinAssumption DEF Quiet, DebounceEnable
  <2>5. ASSUME NEW on \in BOOLEAN, NEW homing, limitsEnable(on, homing)
        PROVE  Quiet(q)'
    BY <2>5 DEF Quiet, limitsEnable
  <2>6. CASE UNCHANGED vars
    BY <2>6 DEF Quiet, vars
  <2> QED
    BY <2>1, <2>2, <2>3, <2>4, <2>5, <2>6 DEF Next, Interrupt, Debounce
<1> QED
  BY <1>1, SpecTypeOK, PTL DEF Spec, QuietStays
=============================================================================
