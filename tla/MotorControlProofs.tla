------------------------- MODULE MotorControlProofs -------------------------
(***************************************************************************)
(* Theorems about MotorControl: its types, the gains between two calls and  *)
(* within a tick, and the state a spindle that is off is in.                *)
(***************************************************************************)
EXTENDS MotorControl, TLAPS

\* The filter of adrc_spindle_ticker stays within the levels.
LEMMA FilterLevel ==
    ASSUME NEW current \in Levels, NEW raw \in Levels
    PROVE  Filter(current, raw) \in Levels
BY MotorAssumption DEF Levels, Filter

LEMMA ZoneType == ASSUME NEW rpm PROVE Zone(rpm) \in Zones
BY DEF Zone, Zones

\* What is written to the timer lies within its range.
LEMMA ClampedRange ==
    ASSUME NEW u_cmd \in -1 .. 2
    PROVE  Clamped(u_cmd) \in {0, 1}
BY DEF Clamped

\* Output does not touch the motor.
LEMMA OutputLeavesMotor == Log \/ RoomReturns \/ OthersWrite => UNCHANGED motor
BY DEF Log, LogBegin, LogPut, LogGivesUp, RoomReturns, OthersWrite

\* Every variable keeps its type, whichever way the two tasks interleave.
THEOREM SpecTypeOK == Spec => []TypeOK
<1>1. Init => TypeOK
  <2>1. Zone(0) \in Zones
    BY DEF Zone, Zones
  <2>2. 0 \in Levels /\ 0 \in 0 .. LineLength
    BY MotorAssumption DEF Levels
  <2>3. 0 \in Speeds
    BY MotorAssumption
  <2> QED
    BY <2>1, <2>2, <2>3 DEF Init, TypeOK
<1>2. TypeOK /\ [Next]_vars => TypeOK'
  <2> SUFFICES ASSUME TypeOK, [Next]_vars
               PROVE  TypeOK'
    OBVIOUS
  <2>1. ASSUME NEW rpm \in Speeds, SetTarget(rpm)
        PROVE  TypeOK'
    BY <2>1, ZoneType DEF TypeOK, SetTarget, SetterGoes, gains, control, output
  <2>2. CASE set_modifiers
    <3>1. Zone(target_rpm) \in Zones
      BY DEF Zone, Zones
    <3> QED
      BY <2>2, <3>1 DEF TypeOK, set_modifiers, SetB0, SetBeta1, SetBeta2, SetKp,
                        SetterGoes, control, output
  <2>3. CASE TickBegin
    BY <2>3, ZoneType DEF TypeOK, TickBegin, TickerGoes, gains, control, output
  <2>4. CASE TickCount
    BY <2>4 DEF TypeOK, TickCount, TickerGoes, gains, control, output
  <2>5. CASE TickFilter
    <3>1. current_rpm' \in Levels
      BY <2>5, FilterLevel DEF TypeOK, TickFilter
    <3>2. 0 \in Levels
      BY MotorAssumption DEF Levels
    <3> QED
      BY <2>5, <3>1, <3>2 DEF TypeOK, TickFilter, TickerGoes, gains, output
  <2>6. CASE TickStop
    <3>1. 0 \in Levels
      BY MotorAssumption DEF Levels
    <3> QED
      BY <2>6, <3>1 DEF TypeOK, TickStop, TickerGoes, gains, output
  <2>7. CASE TickRun
    BY <2>7, MotorAssumption DEF TypeOK, TickRun, TickerGoes, gains, Levels, output
  <2>8. CASE TickLaw
    BY <2>8 DEF TypeOK, TickLaw, TickReads, TickerGoes, gains, control, output
  <2>9. CASE TickDuty
    BY <2>9, ClampedRange DEF TypeOK, TickDuty, TickerGoes, gains, output
  <2>10. CASE ShaftStarts \/ ShaftRests
    BY <2>10 DEF TypeOK, ShaftStarts, ShaftRests, gains, control, output
  <2>11. CASE Pulse
    BY <2>11, MotorAssumption DEF TypeOK, Pulse, gains, control, output, Levels
  <2>12. CASE UNCHANGED vars
    BY <2>12 DEF TypeOK, vars, output
  <2>13. CASE Log \/ RoomReturns \/ OthersWrite
    <3>1. logging \in 0 .. LineLength /\ room \in BOOLEAN /\ LineLength \in Nat
      BY MotorAssumption DEF TypeOK
    <3>2. logging' \in {logging, LineLength} \/ (logging > 0 /\ logging' = logging - 1)
      BY <2>13 DEF Log, LogBegin, LogPut, LogGivesUp, RoomReturns, OthersWrite
    <3>3. logging' \in 0 .. LineLength
      BY <3>1, <3>2
    <3>4. room' \in BOOLEAN
      BY <2>13, <3>1 DEF Log, LogBegin, LogPut, LogGivesUp, RoomReturns, OthersWrite
    <3> QED
      BY <2>13, <3>3, <3>4, OutputLeavesMotor DEF TypeOK, motor, gains, control
  <2> QED
    BY <2>1, <2>2, <2>3, <2>4, <2>5, <2>6, <2>7, <2>8, <2>9, <2>10, <2>11,
       <2>12, <2>13 DEF Next, Tick
<1> QED
  BY <1>1, <1>2, PTL DEF Spec

-----------------------------------------------------------------------------
\* While set_modifiers is under way, the gains it has stored are those of the
\* new target.
GainsInv ==
    /\ setter \in {"idle", "beta_1", "beta_2", "K_p"} => b0 = Zone(target_rpm)
    /\ setter \in {"idle", "beta_2", "K_p"} => beta_1 = Zone(target_rpm)
    /\ setter \in {"idle", "K_p"} => beta_2 = Zone(target_rpm)
    /\ setter = "idle" => K_p = Zone(target_rpm)

LEMMA GainsInvStep == GainsInv /\ [Next]_vars => GainsInv'
<1> SUFFICES ASSUME GainsInv, [Next]_vars
             PROVE  GainsInv'
  OBVIOUS
<1>1. ASSUME NEW rpm \in Speeds, SetTarget(rpm)
      PROVE  GainsInv'
  BY <1>1 DEF GainsInv, SetTarget, SetterGoes
<1>2. CASE SetB0
  BY <1>2 DEF GainsInv, SetB0, SetterGoes
<1>3. CASE SetBeta1
  BY <1>3 DEF GainsInv, SetBeta1, SetterGoes
<1>4. CASE SetBeta2
  BY <1>4 DEF GainsInv, SetBeta2, SetterGoes
<1>5. CASE SetKp
  BY <1>5 DEF GainsInv, SetKp, SetterGoes
<1>6. CASE Tick \/ ShaftStarts \/ ShaftRests \/ Pulse \/ UNCHANGED motor \/ UNCHANGED vars
  <2>1. UNCHANGED <<target_rpm, b0, beta_1, beta_2, K_p, setter>>
    BY <1>6 DEF Tick, TickBegin, TickCount, TickFilter, TickStop, TickRun,
                TickLaw, TickReads, TickDuty, TickerGoes, ShaftStarts,
                ShaftRests, Pulse, gains, motor, vars
  <2> QED
    BY <2>1 DEF GainsInv
<1> QED
  BY <1>1, <1>2, <1>3, <1>4, <1>5, <1>6, OutputLeavesMotor DEF Next, set_modifiers

\* Between two calls of set_adrc_spindle_speed all four gains are those of the
\* zone of the target, for any set of speeds.
THEOREM SpecGainsFollowTarget == Spec => []GainsFollowTarget
<1>1. Init => GainsInv
  BY DEF Init, GainsInv
<1>2. GainsInv => GainsFollowTarget
  BY DEF GainsInv, GainsFollowTarget
<1> QED
  BY <1>1, <1>2, GainsInvStep, PTL DEF Spec

-----------------------------------------------------------------------------
\* A gain that set_modifiers has yet to store is that of the target before the call.
StaleInv ==
    /\ setter = "idle" => previous = Zone(target_rpm)
    /\ \A g \in {b0, beta_1, beta_2, K_p} : g \in {previous, Zone(target_rpm)}

LEMMA StaleInvStep == GainsInv /\ StaleInv /\ [Next]_vars => StaleInv'
<1> SUFFICES ASSUME GainsInv, StaleInv, [Next]_vars
             PROVE  StaleInv'
  OBVIOUS
<1>1. ASSUME NEW rpm \in Speeds, SetTarget(rpm)
      PROVE  StaleInv'
  BY <1>1 DEF GainsInv, StaleInv, SetTarget, SetterGoes, gains
<1>2. CASE SetB0
  BY <1>2 DEF StaleInv, SetB0, SetterGoes
<1>3. CASE SetBeta1
  BY <1>3 DEF StaleInv, SetBeta1, SetterGoes
<1>4. CASE SetBeta2
  BY <1>4 DEF StaleInv, SetBeta2, SetterGoes
<1>5. CASE SetKp
  BY <1>5 DEF GainsInv, StaleInv, SetKp, SetterGoes
<1>6. CASE Tick \/ ShaftStarts \/ ShaftRests \/ Pulse \/ UNCHANGED motor \/ UNCHANGED vars
  <2>1. UNCHANGED <<target_rpm, b0, beta_1, beta_2, K_p, setter, previous>>
    BY <1>6 DEF Tick, TickBegin, TickCount, TickFilter, TickStop, TickRun,
                TickLaw, TickReads, TickDuty, TickerGoes, ShaftStarts,
                ShaftRests, Pulse, gains, motor, vars
  <2> QED
    BY <2>1 DEF StaleInv
<1> QED
  BY <1>1, <1>2, <1>3, <1>4, <1>5, <1>6, OutputLeavesMotor DEF Next, set_modifiers

\* So whatever a tick may read is recent.
RecentInv ==
    /\ used \subseteq recent
    /\ ticker # "idle" => {previous, Zone(target_rpm)} \subseteq recent

LEMMA RecentInvStep == StaleInv /\ RecentInv /\ [Next]_vars => RecentInv'
<1> SUFFICES ASSUME StaleInv, RecentInv, [Next]_vars
             PROVE  RecentInv'
  OBVIOUS
<1>1. ASSUME NEW rpm \in Speeds, SetTarget(rpm)
      PROVE  RecentInv'
  BY <1>1 DEF RecentInv, SetTarget, SetterGoes
<1>2. CASE set_modifiers
  BY <1>2 DEF RecentInv, set_modifiers, SetB0, SetBeta1, SetBeta2, SetKp, SetterGoes
<1>3. CASE TickBegin
  BY <1>3 DEF RecentInv, TickBegin, TickerGoes
<1>4. CASE TickLaw
  BY <1>4 DEF StaleInv, RecentInv, TickLaw, TickReads, TickerGoes, gains
<1>5. CASE TickDuty
  BY <1>5 DEF StaleInv, RecentInv, TickDuty, TickerGoes
<1>6. CASE TickCount \/ TickFilter \/ TickStop \/ TickRun
  BY <1>6 DEF RecentInv, TickCount, TickFilter, TickStop, TickRun, TickerGoes
<1>7. CASE ShaftStarts \/ ShaftRests \/ Pulse \/ UNCHANGED motor \/ UNCHANGED vars
  BY <1>7 DEF RecentInv, ShaftStarts, ShaftRests, Pulse, motor, vars
<1> QED
  BY <1>1, <1>2, <1>3, <1>4, <1>5, <1>6, <1>7, OutputLeavesMotor DEF Next, Tick

\* A tick that meets set_modifiers half way mixes the gains of the targets it meets, and
\* of no other, for any set of speeds and any number of calls.
THEOREM SpecTickUsesRecentZones == Spec => []TickUsesRecentZones
<1>1. Init => GainsInv /\ StaleInv /\ RecentInv
  BY DEF Init, GainsInv, StaleInv, RecentInv
<1>2. RecentInv => TickUsesRecentZones
  BY DEF RecentInv, TickUsesRecentZones
<1> QED
  BY <1>1, <1>2, GainsInvStep, StaleInvStep, RecentInvStep, PTL DEF Spec

-----------------------------------------------------------------------------
\* A spindle that is off is without power and its observer cleared, also in the
\* middle of a tick; its filter is empty until the tick that starts it takes in
\* a raw value.
OffInv ==
    ~ spindle_on =>
        /\ duty = 0 /\ observer = "zero"
        /\ ticker \in {"idle", "count", "filter", "decide"}
        /\ current_rpm = 0
        /\ ticker # "decide" => raw_rpm = 0

LEMMA OffInvStep == OffInv /\ [Next]_vars => OffInv'
<1> SUFFICES ASSUME OffInv, [Next]_vars
             PROVE  OffInv'
  OBVIOUS
<1>1. CASE (\E rpm \in Speeds : SetTarget(rpm)) \/ set_modifiers
             \/ ShaftStarts \/ ShaftRests \/ Pulse \/ UNCHANGED motor \/ UNCHANGED vars
  <2>1. UNCHANGED <<spindle_on, duty, observer, ticker, current_rpm, raw_rpm>>
    BY <1>1 DEF SetTarget, set_modifiers, SetB0, SetBeta1, SetBeta2, SetKp,
                SetterGoes, ShaftStarts, ShaftRests, Pulse, control, motor, vars
  <2> QED
    BY <2>1 DEF OffInv
<1>2. CASE TickBegin
  BY <1>2 DEF OffInv, TickBegin, TickerGoes, control
<1>3. CASE TickCount
  BY <1>3 DEF OffInv, TickCount, TickerGoes, control
<1>4. CASE TickFilter
  <2>1. Filter(0, 0) = 0
    BY DEF Filter
  <2> QED
    BY <1>4, <2>1 DEF OffInv, TickFilter, TickerGoes
<1>5. CASE TickStop
  BY <1>5 DEF OffInv, TickStop, TickerGoes
<1>6. CASE TickRun
  BY <1>6 DEF OffInv, TickRun, TickerGoes
<1>7. CASE TickLaw
  BY <1>7 DEF OffInv, TickLaw, TickReads, TickerGoes, control
<1>8. CASE TickDuty
  BY <1>8 DEF OffInv, TickDuty, TickerGoes
<1> QED
  BY <1>1, <1>2, <1>3, <1>4, <1>5, <1>6, <1>7, <1>8, OutputLeavesMotor DEF Next, Tick

\* A spindle that is off is clean, whatever the grbl task did to the target
\* between the two places where a tick reads it.
THEOREM SpecOffIsClean == Spec => []OffIsClean
<1>1. Init => OffInv
  BY DEF Init, OffInv
<1>2. OffInv => OffIsClean
  BY DEF OffInv, OffIsClean
<1> QED
  BY <1>1, <1>2, OffInvStep, PTL DEF Spec
=============================================================================
