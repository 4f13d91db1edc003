---------------------------- MODULE MotorControl ----------------------------
(***************************************************************************)
(* The closed-loop spindle motor of motor_control.c.  The grbl task sets    *)
(* the speed (set_adrc_spindle_speed) and with it the controller's gains,   *)
(* one store after the other; the esp_timer task, on the other core, runs   *)
(* adrc_spindle_ticker every millisecond and reads target and gains as it   *)
(* goes.  There is no lock between them.  The same esp_timer task also runs *)
(* spindle_logging_ticker, which writes a line to the stream and waits      *)
(* while the transmitter has no room for the next character.                *)
(*                                                                          *)
(* Speeds are abstracted to the zones of set_modifiers, a gain to the zone  *)
(* it was computed for, and the control law to "any duty".  The shaft is    *)
(* external: power may turn it, and without power it comes to rest.  Of a   *)
(* line that is logged only its length is kept.                             *)
(***************************************************************************)
EXTENDS Integers

CONSTANTS
    Speeds,              \* the speeds that M-codes ask for, 0 among them
    MaxLevel,            \* bound: levels of measured speed told apart
    LineLength           \* bound: characters of a line that is logged

ASSUME MotorAssumption ==
    /\ 0 \in Speeds
    /\ Speeds \subseteq Nat
    /\ MaxLevel \in Nat \ {0}
    /\ LineLength \in Nat

\* The dynamic parameter map of set_modifiers.
Zone(rpm) == IF rpm <= 150 THEN 1 ELSE IF rpm <= 750 THEN 2 ELSE 3
Zones == 1 .. 3
Levels == 0 .. MaxLevel

VARIABLES
    target_rpm,
    b0, beta_1, beta_2, K_p,             \* the zone each was computed for
    setter,                              \* where set_adrc_spindle_speed is
    ticker,                              \* where adrc_spindle_ticker is
    pulse_count,                         \* its local copy of the counter
    used,                                \* history: zones of the gains it read
    previous,                            \* history: the zone before the call under way
    recent,                              \* history: zones since the tick, or the call it met, began
    spindle_on,
    raw_rpm, current_rpm,                \* levels; 0 is below 0.001
    observer,                            \* z1, z2 and u_cmd: "zero" or "live"
    duty,                                \* LEDC: 0 off, 1 a duty within its range
    counter,                             \* PCNT unit 0
    spinning,                            \* external: the shaft turns
    logging,                             \* characters spindle_logging_ticker has yet to write
    room                                 \* external: the transmitter takes a character

output == <<logging, room>>
gains == <<b0, beta_1, beta_2, K_p>>
control == <<spindle_on, raw_rpm, current_rpm, observer, duty>>
vars == <<target_rpm, b0, beta_1, beta_2, K_p, setter, ticker, pulse_count, used,
          previous, recent, spindle_on, raw_rpm, current_rpm, observer, duty, counter, spinning, output>>

Init ==
    /\ target_rpm = 0
    /\ b0 = Zone(0) /\ beta_1 = Zone(0) /\ beta_2 = Zone(0) /\ K_p = Zone(0)
    /\ setter = "idle"
    /\ ticker = "idle"
    /\ pulse_count = 0
    /\ used = {}
    /\ previous = Zone(0) /\ recent = {}
    /\ spindle_on = FALSE
    /\ raw_rpm = 0 /\ current_rpm = 0
    /\ observer = "zero"
    /\ duty = 0
    /\ counter = 0
    /\ spinning = FALSE
    /\ logging = 0 /\ room = TRUE

-----------------------------------------------------------------------------
(* grbl task: set_adrc_spindle_speed and set_modifiers                      *)

SetterGoes(from, to) ==
    /\ setter = from
    /\ setter' = to
    /\ UNCHANGED <<ticker, pulse_count, used, control, counter, spinning, output>>

\* Variants named Bug... are plausible mistakes in the definition that follows
\* them; no specification uses them.
BugSlowerKeepsGains(rpm) ==
    /\ rpm # target_rpm
    /\ target_rpm' = rpm
    /\ SetterGoes("idle", IF rpm > target_rpm THEN "b0" ELSE "idle")
    /\ previous' = Zone(target_rpm) /\ recent' = recent \cup {Zone(rpm)}
    /\ UNCHANGED gains

\* A call that does not wait for the one under way, as from an interrupt.
BugOverlaps(rpm) ==
    /\ rpm # target_rpm
    /\ target_rpm' = rpm
    /\ SetterGoes(setter, "b0")
    /\ previous' = Zone(target_rpm) /\ recent' = recent \cup {Zone(rpm)}
    /\ UNCHANGED gains

\* The speed it already has is an early return.
SetTarget(rpm) ==
    /\ rpm # target_rpm
    /\ target_rpm' = rpm
    /\ SetterGoes("idle", "b0")
    /\ previous' = Zone(target_rpm) /\ recent' = recent \cup {Zone(rpm)}
    /\ UNCHANGED gains

SetB0 ==
    /\ SetterGoes("b0", "beta_1")
    /\ b0' = Zone(target_rpm)
    /\ UNCHANGED <<target_rpm, previous, recent, beta_1, beta_2, K_p>>

SetBeta1 ==
    /\ SetterGoes("beta_1", "beta_2")
    /\ beta_1' = Zone(target_rpm)
    /\ UNCHANGED <<target_rpm, previous, recent, b0, beta_2, K_p>>

SetBeta2 ==
    /\ SetterGoes("beta_2", "K_p")
    /\ beta_2' = Zone(target_rpm)
    /\ UNCHANGED <<target_rpm, previous, recent, b0, beta_1, K_p>>

SetKp ==
    /\ SetterGoes("K_p", "idle")
    /\ K_p' = Zone(target_rpm)
    /\ previous' = Zone(target_rpm)
    /\ UNCHANGED <<target_rpm, recent, b0, beta_1, beta_2>>

set_modifiers == SetB0 \/ SetBeta1 \/ SetBeta2 \/ SetKp

-----------------------------------------------------------------------------
(* esp_timer task: adrc_spindle_ticker                                      *)

TickerGoes(from, to) ==
    /\ ticker = from
    /\ ticker' = to
    /\ UNCHANGED <<target_rpm, gains, setter, spinning, output>>

BugSkipsWhenStopped ==
    /\ target_rpm # 0
    /\ logging = 0
    /\ TickerGoes("idle", "count")
    /\ used' = {}
    /\ recent' = {previous, Zone(target_rpm)}
    /\ UNCHANGED <<previous, pulse_count, control, counter>>

\* A tick that finds no speed asked for and the spindle off returns at once.
TickBegin ==
    /\ target_rpm # 0 \/ spindle_on
    /\ logging = 0
    /\ TickerGoes("idle", "count")
    /\ used' = {}
    /\ recent' = {previous, Zone(target_rpm)}
    /\ UNCHANGED <<previous, pulse_count, control, counter>>

TickCount ==
    /\ TickerGoes("count", "filter")
    /\ pulse_count' = counter
    /\ UNCHANGED <<used, previous, recent, control, counter>>

\* The low-pass filter: one level closer to the last raw value.
Filter(current, raw) ==
    CASE current < raw -> current + 1
      [] current > raw -> current - 1
      [] current = raw -> current

\* The counter is cleared, the filter takes the raw value of the tick before.
BugRawKept ==
    /\ TickerGoes("filter", "decide")
    /\ counter' = 0
    /\ current_rpm' = Filter(current_rpm, raw_rpm)
    /\ raw_rpm' = IF pulse_count > raw_rpm THEN pulse_count ELSE raw_rpm
    /\ pulse_count' = 0
    /\ UNCHANGED <<used, previous, recent, spindle_on, observer, duty>>

TickFilter ==
    /\ TickerGoes("filter", "decide")
    /\ counter' = 0
    /\ current_rpm' = Filter(current_rpm, raw_rpm)
    /\ raw_rpm' = pulse_count
    /\ pulse_count' = 0
    /\ UNCHANGED <<used, previous, recent, spindle_on, observer, duty>>

\* The target is read again.  Stopping cuts the power in every tick, and ends
\* once the measured speed has died away.
BugReleasesAtOnce ==
    /\ target_rpm = 0 /\ spindle_on
    /\ TickerGoes("decide", "idle")
    /\ observer' = "zero"
    /\ counter' = 0
    /\ duty' = 0
    /\ spindle_on' = FALSE
    /\ UNCHANGED <<pulse_count, used, previous, recent, raw_rpm, current_rpm>>

TickStop ==
    /\ target_rpm = 0 /\ spindle_on
    /\ TickerGoes("decide", "idle")
    /\ observer' = "zero"
    /\ counter' = 0
    /\ duty' = 0
    /\ IF current_rpm = 0
       THEN raw_rpm' = 0 /\ spindle_on' = FALSE
       ELSE UNCHANGED <<raw_rpm, spindle_on>>
    /\ UNCHANGED <<pulse_count, used, previous, recent, current_rpm>>

TickRun ==
    /\ target_rpm # 0 \/ ~ spindle_on
    /\ TickerGoes("decide", "z1")
    /\ counter' = IF spindle_on THEN counter ELSE 0
    /\ spindle_on' = TRUE
    /\ UNCHANGED <<pulse_count, used, previous, recent, raw_rpm, current_rpm, observer, duty>>

\* The control law reads b0 and beta_1, then beta_2, then K_p, then b0 again.
TickReads(from, to, zones) ==
    /\ TickerGoes(from, to)
    /\ used' = used \cup zones
    /\ UNCHANGED <<pulse_count, previous, recent, control, counter>>

TickLaw ==
    \/ TickReads("z1", "z2", {b0, beta_1})
    \/ TickReads("z2", "u0", {beta_2})
    \/ TickReads("u0", "duty", {K_p})

\* The upper limit is forgotten.
BugHalfClamped(u_cmd) == IF u_cmd < 0 THEN 0 ELSE u_cmd

\* The command may lie below, within or above the range of the timer.
Clamped(u_cmd) == IF u_cmd > 1 THEN 1 ELSE IF u_cmd < 0 THEN 0 ELSE u_cmd

TickDuty ==
    /\ TickerGoes("duty", "idle")
    /\ used' = used \cup {b0}
    /\ observer' = "live"
    /\ \E u_cmd \in -1 .. 2 : duty' = Clamped(u_cmd)
    /\ UNCHANGED <<pulse_count, previous, recent, counter, spindle_on, raw_rpm, current_rpm>>

Tick == TickBegin \/ TickCount \/ TickFilter \/ TickStop \/ TickRun
          \/ TickLaw \/ TickDuty

-----------------------------------------------------------------------------
(* The shaft and its encoder (external)                                     *)

ShaftStarts ==
    /\ duty # 0 /\ ~ spinning
    /\ spinning' = TRUE
    /\ UNCHANGED <<target_rpm, gains, setter, ticker, pulse_count, used, previous, recent,
                   control, counter, output>>

ShaftRests ==
    /\ duty = 0 /\ spinning
    /\ spinning' = FALSE
    /\ UNCHANGED <<target_rpm, gains, setter, ticker, pulse_count, used, previous, recent,
                   control, counter, output>>

Pulse ==
    /\ spinning /\ counter < MaxLevel
    /\ counter' = counter + 1
    /\ UNCHANGED <<target_rpm, gains, setter, ticker, pulse_count, used, previous, recent,
                   control, spinning, output>>

-----------------------------------------------------------------------------
(* esp_timer task: spindle_logging_ticker, between two ticks                *)

motor == <<target_rpm, gains, setter, ticker, pulse_count, used, previous, recent, control, counter, spinning>>

\* A line is written if the speeds that it shows have changed.
LogBegin ==
    /\ ticker = "idle" /\ logging = 0
    /\ logging' = LineLength
    /\ UNCHANGED <<motor, room>>

\* serialPutC: a character that found no room is tried again ...
LogPut ==
    /\ logging > 0
    /\ room
    /\ logging' = logging - 1
    /\ room' \in BOOLEAN
    /\ UNCHANGED motor

\* ... or given up, when stream_blocking_callback returns false.
LogGivesUp ==
    /\ logging > 0
    /\ ~ room
    /\ logging' = logging - 1
    /\ UNCHANGED <<motor, room>>

\* The transmitter sends a character, and other tasks write some (external).
RoomReturns ==
    /\ ~ room /\ room' = TRUE
    /\ UNCHANGED <<motor, logging>>

OthersWrite ==
    /\ room /\ room' = FALSE
    /\ UNCHANGED <<motor, logging>>

Log == LogBegin \/ LogPut \/ LogGivesUp

Next ==
    \/ \E rpm \in Speeds : SetTarget(rpm)
    \/ set_modifiers
    \/ Tick
    \/ ShaftStarts \/ ShaftRests \/ Pulse
    \/ Log \/ RoomReturns \/ OthersWrite

\* The timer task runs both tickers, the one whose time has come first; the
\* transmitter sends, and whoever waits for it finds room in the end; a call
\* once begun goes on, and a shaft without power comes to rest.
Fairness ==
    /\ SF_vars(Tick)
    /\ SF_vars(LogPut)
    /\ WF_vars(RoomReturns)
    /\ WF_vars(set_modifiers)
    /\ WF_vars(ShaftRests)

Spec == Init /\ [][Next]_vars /\ Fairness

-----------------------------------------------------------------------------
(* Properties                                                               *)

TypeOK ==
    /\ target_rpm \in Speeds
    /\ b0 \in Zones /\ beta_1 \in Zones /\ beta_2 \in Zones /\ K_p \in Zones
    /\ setter \in {"idle", "b0", "beta_1", "beta_2", "K_p"}
    /\ ticker \in {"idle", "count", "filter", "decide", "z1", "z2", "u0", "duty"}
    /\ pulse_count \in Levels /\ used \in SUBSET Zones /\ previous \in Zones /\ recent \in SUBSET Zones
    /\ spindle_on \in BOOLEAN
    /\ raw_rpm \in Levels /\ current_rpm \in Levels
    /\ observer \in {"zero", "live"} /\ duty \in {0, 1}
    /\ counter \in Levels /\ spinning \in BOOLEAN
    /\ logging \in 0 .. LineLength /\ room \in BOOLEAN

\* While the ticker considers the spindle off it does nothing at all when no
\* speed is asked for, so off must mean without power, with the observer
\* cleared and with no speed left in the filter for the next start: whatever
\* the target did between the two places where a tick reads it.
OffIsClean ==
    ~ spindle_on /\ ticker = "idle" =>
        duty = 0 /\ observer = "zero" /\ raw_rpm = 0 /\ current_rpm = 0

\* Between two calls the gains are those of the zone of the target, also after
\* calls that only lower the speed or change it within its zone.
GainsFollowTarget ==
    setter = "idle" => \A g \in {b0, beta_1, beta_2, K_p} : g = Zone(target_rpm)

\* A tick that meets set_modifiers half way mixes gains (lines 96-98), but only
\* those of the targets it meets, the one before a call that is under way when
\* it begins included: no gain is left over from an earlier call.
TickUsesRecentZones == used \subseteq recent

\* Asking for speed 0 takes the power from the motor, although the tick that
\* runs at that moment may still set a duty, and although a line that waits for
\* the transmitter holds up the next one (lines 154 and 215-222).
StopCutsPower == target_rpm = 0 ~> (duty = 0 \/ target_rpm # 0)

\* ... and if it is not asked to turn again, the spindle is off in the end and
\* stays without power.
StopReleases ==
    <>[](target_rpm = 0) => <>[](~ spindle_on /\ duty = 0)
=============================================================================
