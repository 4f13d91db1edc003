------------------------------- MODULE I2sOut -------------------------------
(***************************************************************************)
(* The I2S output expander of i2s_out.c and its use by the stepper code of *)
(* driver.c.  A ring of DMA buffers streams step pulses to shift registers *)
(* (STEPPING); otherwise a constant is shifted out and a pin changes at    *)
(* once (PASSTHROUGH); between the two the chain of buffers is cut and     *)
(* runs out (WAITING).                                                     *)
(*                                                                         *)
(* Actors: the DMA engine with its interrupt; i2sOutTask, which refills    *)
(* buffers and calls the stepper's interrupt callback while it does; the   *)
(* grbl task; interrupts that reset the machine.  All run on one core and  *)
(* i2sOutTask has the higher priority, so the grbl task only runs while    *)
(* i2sOutTask waits for a buffer or sleeps.                                *)
(*                                                                         *)
(* hal.delay_ms sleeps, also inside the critical sections that call it:    *)
(* the spinlock belongs to the core, whose other tasks enter it again.     *)
(* Time is counted in buffers: one passes while the DMA sends one buffer.  *)
(***************************************************************************)
EXTENDS Integers, Sequences, FiniteSets

CONSTANTS
    N,          \* I2S_OUT_DMABUF_COUNT
    MaxBehind,  \* buffers i2sOutTask may be behind while it does not sleep
    MaxMoves,   \* bound: motions that are started
    MaxCalls    \* bound: pin writes, resets and changes of mode

ASSUME I2sAssumption ==
    /\ N \in Nat \ {0, 1}
    /\ MaxBehind \in Nat \ {0}
    /\ MaxMoves \in Nat
    /\ MaxCalls \in Nat

Bufs == 0 .. N - 1
NULL == N
Ring == [b \in Bufs |-> (b + 1) % N]
Actors == {"task", "grbl"}

DelayBuf == 1

\* Bug: the delay does not cover the ring.
BugOneBuffer == 1

DelayAll == N + 1

VARIABLES
    status,     \* i2s_out_pulser_status
    chan,       \* what the transmitter sends: DMA data, or the constant
    single,     \* conf_single_data, for one pin
    port,       \* i2s_out_port_data, for one pin
    next,       \* qe.stqe_next of each descriptor
    data,       \* what each buffer holds: zeros, the port, pulses to send, or pulses sent
    sending,    \* the descriptor the DMA is on, NULL when it has stopped
    after,      \* the descriptor it will go on with, loaded with sending
    queue,      \* o_dma.queue
    pc,         \* of i2sOutTask and the grbl task
    left,       \* what is left of an actor's delay
    cur,        \* dma_desc of i2sOutTask
    goIdlePending,
    streaming,  \* hal.stepper.wake_up = I2SStepperWakeUp
    direct,     \* the step timer is enabled: stepperPulseStart writes the pins itself
    caller,     \* what the grbl task goes on with after i2s_out_delay
    astray,     \* the DMA has met a buffer i2sOutTask is not done with, or the queue is of an older chain
    moves,      \* motions started so far
    calls       \* other calls so far

dma == <<chan, single, next, data, sending, after>>
ghosts == <<astray, moves, calls>>
vars == <<status, port, dma, queue, pc, left, cur, goIdlePending, streaming, direct, caller, ghosts>>

Statuses == {"PASSTHROUGH", "STEPPING", "WAITING"}
Channels == {"static", "stream"}
Contents == {"zero", "port", "fresh", "sent"}
Sleeps == {"stopping", "settling", "restarting"}
Steps == {"ready", "fill", "pulsed", "cleared", "write"} \cup Sleeps
Callers == {"go_idle", "reset", "mode"}

TypeOK ==
    /\ status \in Statuses
    /\ chan \in Channels
    /\ single \in 0 .. 1 /\ port \in 0 .. 1
    /\ next \in [Bufs -> Bufs \cup {NULL}]
    /\ data \in [Bufs -> Contents]
    /\ sending \in Bufs \cup {NULL} /\ after \in Bufs \cup {NULL}
    /\ queue \in Seq(Bufs) /\ Len(queue) <= N
    /\ pc \in [Actors -> Steps]
    /\ left \in [Actors -> 0 .. DelayAll]
    /\ cur \in Bufs
    /\ goIdlePending \in BOOLEAN /\ streaming \in BOOLEAN /\ direct \in BOOLEAN
    /\ caller \in Callers
    /\ astray \in BOOLEAN
    /\ moves \in 0 .. MaxMoves /\ calls \in 0 .. MaxCalls

Asleep(a) == pc[a] \in Sleeps
Goto(a, l) == pc' = [pc EXCEPT ![a] = l]
Sleep(a, l, d) == Goto(a, l) /\ left' = [left EXCEPT ![a] = d]

-----------------------------------------------------------------------------
(* Registers and descriptors. *)

\* Bug: the constant keeps its last value.
BugKeepsConstant(st, nx) ==
    /\ chan' = IF st = "PASSTHROUGH" THEN "static" ELSE "stream"
    /\ single' = single
    /\ sending' = 0 /\ after' = nx[0]

\* i2s_out_start: the chain starts over at the first descriptor of nx.
i2s_out_start(st, nx) ==
    /\ chan' = IF st = "PASSTHROUGH" THEN "static" ELSE "stream"
    /\ single' = IF st = "PASSTHROUGH" THEN port ELSE 0
    /\ sending' = 0 /\ after' = nx[0]

\* i2s_clear_o_dma_buffers
i2s_clear_o_dma_buffers(v) ==
    /\ next' = Ring
    /\ data' = [b \in Bufs |-> v]

\* i2s_out_stop, the status, i2s_out_start: a new chain, with the old queue.
Restart(st, v) ==
    /\ status' = st
    /\ i2s_clear_o_dma_buffers(v)
    /\ i2s_out_start(st, Ring)

OutOfStep == queue # <<>> \/ pc["task"] # "ready"

i2s_out_reset ==
    \/ status = "STEPPING" /\ Restart("STEPPING", "port") /\ astray' = (astray \/ OutOfStep)
    \/ status = "WAITING" /\ Restart("PASSTHROUGH", "zero") /\ UNCHANGED astray
    \/ /\ status = "PASSTHROUGH" /\ i2s_out_start(status, next)
       /\ UNCHANGED <<status, next, data, astray>>

Init ==
    /\ status = "PASSTHROUGH" /\ chan = "static"
    /\ single = 0 /\ port = 0
    /\ next = Ring /\ data = [b \in Bufs |-> "port"]
    /\ sending = 0 /\ after = Ring[0]
    /\ queue = <<>> /\ cur = 0
    /\ pc = [a \in Actors |-> "ready"] /\ left = [a \in Actors |-> 0]
    /\ goIdlePending = FALSE
    /\ streaming = TRUE /\ direct = FALSE /\ caller = "go_idle"
    /\ astray = FALSE /\ moves = 0 /\ calls = 0

-----------------------------------------------------------------------------
(* The DMA engine and its interrupt. *)

TimePasses == left' = [a \in Actors |-> IF Asleep(a) THEN left[a] - 1 ELSE left[a]]

\* No sleeper oversleeps, and i2sOutTask keeps up while it does not sleep.
InTime ==
    /\ \A a \in Actors : Asleep(a) => left[a] > 0
    /\ Asleep("task") \/ Len(queue) + (IF pc["task"] = "ready" THEN 0 ELSE 1) <= MaxBehind

\* Bug: a full queue grows.
BugNeverFull(d) == queue' = Append(queue, d)

\* i2s_out_intr_handler: when the queue is full its oldest buffer is given up.
Enqueue(d) ==
    IF Len(queue) < N
    THEN queue' = Append(queue, d)
    ELSE queue' = Append(Tail(queue), d)

GivenUp(ds) ==
    IF Len(queue) < N THEN ds
    ELSE [ds EXCEPT ![Head(queue)] = IF status = "STEPPING" THEN "port" ELSE "zero"]

Transmitted(ds) == [ds EXCEPT ![sending] = IF @ = "fresh" THEN "sent" ELSE @]

\* The DMA has sent a buffer and goes on with the one linked after it, if any.
i2s_out_intr_handler ==
    /\ sending # NULL
    /\ InTime /\ TimePasses
    /\ Enqueue(sending)
    /\ data' = GivenUp(Transmitted(data))
    /\ sending' = after
    /\ after' = IF after = NULL THEN NULL ELSE next[after]
    /\ astray' = (astray \/ (pc["task"] # "ready" /\ after = cur))
    /\ UNCHANGED <<status, port, chan, single, next, pc, cur, goIdlePending, streaming, direct, caller, moves, calls>>

\* Sleepers wake up also while the DMA is stopped.
Silence ==
    /\ sending = NULL
    /\ \E a \in Actors : Asleep(a)
    /\ InTime /\ TimePasses
    /\ UNCHANGED <<status, port, dma, queue, pc, cur, goIdlePending, streaming, direct, caller, ghosts>>

-----------------------------------------------------------------------------
(* Going idle, in i2sOutTask (from the pulse function) or in the grbl task. *)

\* The return from i2s_out_delay to c.
Return(a, c) ==
    /\ Goto(a, IF a = "task" THEN "pulsed" ELSE "ready")
    /\ goIdlePending' = (goIdlePending /\ c # "reset")
    /\ streaming' = (streaming /\ c # "mode")
    /\ UNCHANGED left

i2s_out_delay(a, c) ==
    \/ status = "PASSTHROUGH" /\ Return(a, c)
    \/ /\ status # "PASSTHROUGH" /\ Sleep(a, "settling", DelayAll)
       /\ UNCHANGED <<goIdlePending, streaming>>

\* i2s_out_set_passthrough and its delay; i2s_out_delay follows.
i2s_out_set_passthrough(a) ==
    /\ status = "STEPPING" /\ status' = "WAITING"
    /\ Sleep(a, "stopping", DelayAll)

Stopped(a, c) ==
    /\ pc[a] = "stopping" /\ left[a] <= 1
    /\ i2s_out_delay(a, c)
    /\ UNCHANGED <<status, port, dma, queue, cur, direct, caller, ghosts>>

Settled(a, c) ==
    /\ pc[a] = "settling" /\ left[a] <= 1
    /\ Return(a, c)
    /\ UNCHANGED <<status, port, dma, queue, cur, direct, caller, ghosts>>

-----------------------------------------------------------------------------
(* i2sOutTask *)

TakeBuffer(d) ==
    /\ pc["task"] = "ready" /\ queue # <<>> /\ d = Head(queue)
    /\ queue' = Tail(queue) /\ cur' = d
    /\ UNCHANGED <<port, left, goIdlePending, streaming, direct, caller, moves, calls>>

\* The buffer is filled from its start: what it held is gone.
StartFill(d) ==
    /\ status = "STEPPING" /\ TakeBuffer(d)
    /\ Goto("task", "fill")
    /\ data' = [data EXCEPT ![d] = "port"]
    /\ astray' = (astray \/ d = sending)
    /\ UNCHANGED <<status, chan, single, next, sending, after>>

\* Bug: the buffer is cleared and stays in the ring.
BugKeepsRing(d) ==
    /\ status = "WAITING" /\ next[d] # NULL /\ TakeBuffer(d)
    /\ data' = [data EXCEPT ![d] = "zero"]
    /\ UNCHANGED <<status, chan, single, next, sending, after, pc, astray>>

\* Bug: no clearing; the DMA may be about to send the buffer once more.
BugNotCleared(d) ==
    /\ status = "WAITING" /\ next[d] # NULL /\ TakeBuffer(d)
    /\ next' = [next EXCEPT ![d] = NULL]
    /\ UNCHANGED <<status, chan, single, data, sending, after, pc, astray>>

CutChain(d) ==
    /\ status = "WAITING" /\ next[d] # NULL /\ TakeBuffer(d)
    /\ data' = [data EXCEPT ![d] = "zero"]
    /\ next' = [next EXCEPT ![d] = NULL]
    /\ UNCHANGED <<status, chan, single, sending, after, pc, astray>>

\* Bug: the first buffer that comes back ends the chain.
BugAnyIsTail(d) ==
    /\ status = "WAITING" /\ TakeBuffer(d)
    /\ Restart("PASSTHROUGH", "zero")
    /\ UNCHANGED <<pc, astray>>

TailFound(d) ==
    /\ status = "WAITING" /\ next[d] = NULL /\ TakeBuffer(d)
    /\ Restart("PASSTHROUGH", "zero")
    /\ UNCHANGED <<pc, astray>>

ClearBuffer(d) ==
    /\ status = "PASSTHROUGH" /\ TakeBuffer(d)
    /\ data' = [data EXCEPT ![d] = "zero"]
    /\ UNCHANGED <<status, chan, single, next, sending, after, pc, astray>>

\* I2SStepperPulseStart, called by the stepper's interrupt callback.
I2SStepperPulseStart ==
    /\ pc["task"] = "fill" /\ status = "STEPPING" /\ streaming
    /\ data' = [data EXCEPT ![cur] = "fresh"]
    /\ UNCHANGED <<status, port, chan, single, next, sending, after, queue, pc, left, cur,
                   goIdlePending, streaming, direct, caller, ghosts>>

\* I2SStepperGoIdle, called by the stepper's interrupt callback when the motion has ended.
I2SStepperGoIdle ==
    /\ pc["task"] = "fill" /\ status = "STEPPING" /\ streaming
    /\ goIdlePending' = FALSE
    /\ i2s_out_set_passthrough("task")
    /\ UNCHANGED <<port, dma, queue, cur, streaming, direct, caller, ghosts>>

\* The pulse function has returned: the status may have changed meanwhile.
PulseReturns ==
    /\ pc["task"] = "pulsed"
    /\ Goto("task", IF status = "PASSTHROUGH" THEN "ready" ELSE "fill")
    /\ next' = IF status = "WAITING" THEN [next EXCEPT ![cur] = NULL] ELSE next
    /\ UNCHANGED <<status, port, chan, single, data, sending, after, queue, left, cur,
                   goIdlePending, streaming, direct, caller, ghosts>>

\* The buffer is full.
Filled ==
    /\ pc["task"] = "fill" /\ Goto("task", "ready")
    /\ UNCHANGED <<status, port, dma, queue, left, cur, goIdlePending, streaming, direct, caller, ghosts>>

i2sOutTask ==
    \/ \E d \in Bufs : StartFill(d) \/ CutChain(d) \/ TailFound(d) \/ ClearBuffer(d)
    \/ I2SStepperPulseStart \/ I2SStepperGoIdle \/ PulseReturns \/ Filled
    \/ Stopped("task", "go_idle") \/ Settled("task", "go_idle")

-----------------------------------------------------------------------------
(* The grbl task, and interrupts. *)

TaskBlocked == Asleep("task") \/ (pc["task"] = "ready" /\ queue = <<>>)

Call == calls < MaxCalls /\ calls' = calls + 1

GoIdle(c) ==
    /\ caller' = c
    /\ \/ i2s_out_set_passthrough("grbl") /\ UNCHANGED <<goIdlePending, streaming>>
       \/ status # "STEPPING" /\ i2s_out_delay("grbl", c) /\ UNCHANGED status

\* i2s_out_set_stepping from PASSTHROUGH; while the chain runs out it waits for a buffer's time.
StartChain ==
    /\ status = "PASSTHROUGH"
    /\ Restart("STEPPING", "port") /\ astray' = OutOfStep
    /\ Goto("grbl", "ready") /\ UNCHANGED left

AwaitChain ==
    /\ status = "WAITING" /\ Sleep("grbl", "restarting", DelayBuf)
    /\ UNCHANGED <<status, dma, astray>>

\* A second call changes nothing.
I2SStepperWakeUp ==
    /\ TaskBlocked /\ pc["grbl"] = "ready" /\ streaming
    /\ moves < MaxMoves /\ moves' = moves + 1
    /\ StartChain \/ AwaitChain
    /\ UNCHANGED <<port, queue, cur, goIdlePending, streaming, direct, caller, calls>>

WakeUpGoesOn ==
    /\ TaskBlocked /\ pc["grbl"] = "restarting" /\ left["grbl"] <= 1
    /\ StartChain \/ AwaitChain
    /\ UNCHANGED <<port, queue, cur, goIdlePending, streaming, direct, caller, moves, calls>>

\* I2SStepperGoIdle: the signals are cleared, with the chain, before the pulser is stopped.
ClearSignals ==
    /\ TaskBlocked /\ pc["grbl"] = "ready" /\ streaming /\ Call
    /\ i2s_out_reset
    /\ Goto("grbl", "cleared") /\ goIdlePending' = FALSE
    /\ UNCHANGED <<port, queue, left, cur, streaming, direct, caller, moves>>

GrblGoIdle ==
    /\ TaskBlocked /\ pc["grbl"] = "cleared"
    /\ GoIdle("go_idle")
    /\ UNCHANGED <<port, dma, queue, cur, direct, ghosts>>

\* I2SReset: what an interrupt has left to the driver's reset.
I2SReset ==
    /\ TaskBlocked /\ pc["grbl"] = "ready" /\ goIdlePending
    /\ GoIdle("reset")
    /\ UNCHANGED <<port, dma, queue, cur, direct, ghosts>>

\* i2s_set_streaming_mode: for homing cycles and lasers the step timer writes the pins.
\* The core asks for it only when the callback that ended a motion has returned.
SetMode(stream) ==
    /\ TaskBlocked /\ pc["grbl"] = "ready" /\ stream # streaming /\ Call
    /\ ~Asleep("task")
    /\ direct' = FALSE /\ caller' = "mode"
    /\ \/ /\ ~stream /\ i2s_out_set_passthrough("grbl")
          /\ UNCHANGED streaming
       \/ /\ stream \/ status # "STEPPING"
          /\ streaming' = stream /\ UNCHANGED <<status, pc, left>>
    /\ UNCHANGED <<port, dma, queue, cur, goIdlePending, astray, moves>>

\* stepperWakeUp and stepperGoIdle, which start and stop the step timer.
stepperWakeUp ==
    /\ TaskBlocked /\ pc["grbl"] = "ready" /\ ~streaming /\ ~direct
    /\ moves < MaxMoves /\ moves' = moves + 1
    /\ direct' = TRUE
    /\ UNCHANGED <<status, port, dma, queue, pc, left, cur, goIdlePending, streaming, caller, astray, calls>>

stepperGoIdle ==
    /\ direct /\ direct' = FALSE
    /\ UNCHANGED <<status, port, dma, queue, pc, left, cur, goIdlePending, streaming, caller, ghosts>>

\* i2s_out_write: the bit, and then the pin if the status allows it.
WriteBit ==
    /\ TaskBlocked /\ pc["grbl"] = "ready" /\ Call
    /\ port' = 1 - port
    /\ Goto("grbl", "write")
    /\ UNCHANGED <<status, dma, queue, left, cur, goIdlePending, streaming, direct, caller, astray, moves>>

WritePin ==
    /\ TaskBlocked /\ pc["grbl"] = "write"
    /\ single' = IF status = "PASSTHROUGH" THEN port ELSE single
    /\ Goto("grbl", "ready")
    /\ UNCHANGED <<status, port, chan, next, data, sending, after, queue, left, cur,
                   goIdlePending, streaming, direct, caller, ghosts>>

\* I2SStepperGoIdle from an interrupt, with signals to clear or without.
InterruptGoIdle ==
    /\ streaming /\ Call
    /\ goIdlePending' = TRUE
    /\ i2s_out_reset \/ UNCHANGED <<status, dma, astray>>
    /\ UNCHANGED <<port, queue, pc, left, cur, streaming, direct, caller, moves>>

Grbl ==
    \/ I2SStepperWakeUp \/ WakeUpGoesOn
    \/ ClearSignals \/ GrblGoIdle \/ I2SReset
    \/ \E stream \in BOOLEAN : SetMode(stream)
    \/ stepperWakeUp \/ WriteBit \/ WritePin
    \/ TaskBlocked /\ Stopped("grbl", caller)
    \/ TaskBlocked /\ Settled("grbl", caller)

Next == i2s_out_intr_handler \/ Silence \/ i2sOutTask \/ Grbl \/ stepperGoIdle \/ InterruptGoIdle

\* The DMA sends, delays end, i2sOutTask goes on, and a sleeping grbl task wakes up.
Fairness ==
    /\ WF_vars(i2s_out_intr_handler \/ Silence)
    /\ WF_vars(i2sOutTask)
    /\ WF_vars(TaskBlocked /\ (Stopped("grbl", caller) \/ Settled("grbl", caller) \/ WakeUpGoesOn))

Spec == Init /\ [][Next]_vars /\ Fairness

-----------------------------------------------------------------------------
(* Properties *)

(* Nobody has to write a pin twice: whatever changes of mode and resets    *)
(* came in between, in PASSTHROUGH the transmitter's constant is the port, *)
(* although i2s_out_write looks at the status without a lock               *)
(* (i2s_out.c 533-546).                                                    *)
PinsFollowPort ==
    status = "PASSTHROUGH" /\ pc["grbl"] # "write" => chan = "static" /\ single = port

(* Unless i2sOutTask has gone astray, pulses are sent once: the DMA never  *)
(* comes back to a buffer whose pulses it has sent (i2s_out.c 463-513).    *)
StepsSentOnce == ~astray /\ sending # NULL => data[sending] # "sent"

(* Unless i2sOutTask has gone astray, pulses in a buffer are sent before   *)
(* the buffer is used again, and before the chain is given up; only a      *)
(* reset drops them (i2s_out.c 463-513, 641-656).                          *)
StepsNotLost ==
    [][\A b \in Bufs : ~astray /\ data[b] = "fresh" /\ data'[b] # "fresh"
         => data'[b] = "sent" \/ ClearSignals \/ InterruptGoIdle]_vars

(* A chain that was told to run out does so, and PASSTHROUGH comes back,   *)
(* whoever gave the order and wherever the DMA was (i2s_out.c 488-504).    *)
WaitingEnds == status = "WAITING" ~> status # "WAITING"

(* When the step timer writes the pins itself, the pulser is in            *)
(* PASSTHROUGH, so that no pulse is lost to a stream that runs out         *)
(* (driver.c 1755-1783, 1802-1804).                                        *)
DirectInPassthrough == direct => status = "PASSTHROUGH"

(* i2sOutTask "reuses the oldest (just transferred) buffer ... and fills   *)
(* the buffer for later DMA" (i2s_out.c 472-473): the DMA is not at the    *)
(* buffer that is being filled.  The code breaks this whenever a motion    *)
(* ends: I2SStepperGoIdle sleeps in the middle of a buffer.                *)
FillsForLaterDma == pc["task"] # "ready" => sending # cur
=============================================================================
