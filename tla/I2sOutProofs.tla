---------------------------- MODULE I2sOutProofs ----------------------------
(***************************************************************************)
(* Theorems about I2sOut, for any number of buffers, motions, calls and    *)
(* delays: type correctness, pins that follow the port, pulses that are    *)
(* neither repeated nor dropped, and the end of streaming before the step  *)
(* timer writes the pins.                                                  *)
(***************************************************************************)
EXTENDS I2sOut, FiniteSetTheorems, TLAPS

\* The ring links buffers to buffers.
LEMMA RingType == Ring \in [Bufs -> Bufs] /\ 0 \in Bufs /\ Ring[0] \in Bufs
<1>1. 0 \in Bufs
  BY I2sAssumption DEF Bufs
<1>2. ASSUME NEW b \in Bufs
      PROVE  (b + 1) % N \in Bufs
  BY <1>2, I2sAssumption DEF Bufs
<1> QED
  BY <1>1, <1>2 DEF Ring

\* Actors move one at a time.
LEMMA GotoType ==
    ASSUME TypeOK, NEW a \in Actors, NEW l \in Steps, Goto(a, l)
    PROVE  /\ pc' \in [Actors -> Steps]
           /\ pc'[a] = l
           /\ \A b \in Actors \ {a} : pc'[b] = pc[b]
BY DEF TypeOK, Goto

LEMMA SleepType ==
    ASSUME TypeOK, NEW a \in Actors, NEW l \in Steps, NEW d \in 0 .. DelayAll, Sleep(a, l, d)
    PROVE  pc' \in [Actors -> Steps] /\ left' \in [Actors -> 0 .. DelayAll]
BY GotoType DEF Sleep, TypeOK

LEMMA Delays == DelayAll \in 0 .. DelayAll /\ DelayBuf \in 0 .. DelayAll
BY I2sAssumption DEF DelayAll, DelayBuf

LEMMA StepNames ==
    /\ Sleeps \subseteq Steps
    /\ "ready" \in Steps /\ "fill" \in Steps /\ "pulsed" \in Steps /\ "cleared" \in Steps /\ "write" \in Steps
    /\ "stopping" \in Steps /\ "settling" \in Steps /\ "restarting" \in Steps
    /\ "task" \in Actors /\ "grbl" \in Actors
BY DEF Steps, Sleeps, Actors

\* A chain that starts.
LEMMA StartType ==
    ASSUME TypeOK, NEW st \in Statuses, NEW nx \in [Bufs -> Bufs \cup {NULL}], i2s_out_start(st, nx)
    PROVE  chan' \in Channels /\ single' \in 0 .. 1 /\ sending' \in Bufs \cup {NULL} /\ after' \in Bufs \cup {NULL}
BY RingType DEF TypeOK, i2s_out_start, Channels

LEMMA RestartType ==
    ASSUME TypeOK, NEW st \in Statuses, NEW v \in Contents, Restart(st, v)
    PROVE  /\ status' \in Statuses
           /\ chan' \in Channels /\ single' \in 0 .. 1 /\ sending' \in Bufs \cup {NULL} /\ after' \in Bufs \cup {NULL}
           /\ next' \in [Bufs -> Bufs \cup {NULL}] /\ data' \in [Bufs -> Contents]
<1>1. Ring \in [Bufs -> Bufs \cup {NULL}]
  BY RingType
<1> QED
  BY <1>1, StartType DEF Restart, i2s_clear_o_dma_buffers

LEMMA ResetType ==
    ASSUME TypeOK, i2s_out_reset
    PROVE  /\ status' \in Statuses
           /\ chan' \in Channels /\ single' \in 0 .. 1 /\ sending' \in Bufs \cup {NULL} /\ after' \in Bufs \cup {NULL}
           /\ next' \in [Bufs -> Bufs \cup {NULL}] /\ data' \in [Bufs -> Contents]
           /\ astray' \in BOOLEAN
<1>0. /\ "STEPPING" \in Statuses /\ "PASSTHROUGH" \in Statuses
      /\ "port" \in Contents /\ "zero" \in Contents
      /\ status \in Statuses /\ next \in [Bufs -> Bufs \cup {NULL}] /\ data \in [Bufs -> Contents]
      /\ astray \in BOOLEAN /\ OutOfStep \in BOOLEAN
  BY DEF TypeOK, Statuses, Contents, OutOfStep
<1>1. CASE Restart("STEPPING", "port") /\ astray' = (astray \/ OutOfStep)
  BY <1>0, <1>1, RestartType
<1>2. CASE Restart("PASSTHROUGH", "zero") /\ UNCHANGED astray
  BY <1>0, <1>2, RestartType
<1>3. CASE i2s_out_start(status, next) /\ UNCHANGED <<status, next, data, astray>>
  BY <1>0, <1>3, StartType
<1> QED
  BY <1>1, <1>2, <1>3 DEF i2s_out_reset

-----------------------------------------------------------------------------
\* The DMA and time: nobody oversleeps, and the queue is never longer than the ring.
LEMMA TimeType ==
    ASSUME TypeOK, InTime, TimePasses
    PROVE  left' \in [Actors -> 0 .. DelayAll]
<1>1. ASSUME NEW a \in Actors
      PROVE  (IF Asleep(a) THEN left[a] - 1 ELSE left[a]) \in 0 .. DelayAll
  <2>1. left[a] \in 0 .. DelayAll /\ DelayAll \in Nat
    BY I2sAssumption DEF TypeOK, DelayAll
  <2>2. Asleep(a) => left[a] > 0
    BY DEF InTime
  <2> QED
    BY <2>1, <2>2
<1> QED
  BY <1>1 DEF TimePasses

LEMMA EnqueueType ==
    ASSUME TypeOK, NEW d \in Bufs, Enqueue(d)
    PROVE  queue' \in Seq(Bufs) /\ Len(queue') <= N
<1>1. queue \in Seq(Bufs) /\ Len(queue) <= N /\ N \in Nat \ {0, 1}
  BY I2sAssumption DEF TypeOK
<1>2. CASE Len(queue) < N
  BY <1>1, <1>2 DEF Enqueue
<1>3. CASE ~(Len(queue) < N)
  <2>1. queue # <<>>
    BY <1>1, <1>3
  <2>2. Tail(queue) \in Seq(Bufs) /\ Len(Tail(queue)) = Len(queue) - 1
    BY <1>1, <2>1
  <2> QED
    BY <1>1, <1>3, <2>2 DEF Enqueue
<1> QED
  BY <1>2, <1>3

LEMMA TakeType ==
    ASSUME TypeOK, NEW d \in Bufs, TakeBuffer(d)
    PROVE  queue' \in Seq(Bufs) /\ Len(queue') <= N
<1>1. queue \in Seq(Bufs) /\ Len(queue) <= N /\ N \in Nat /\ queue # <<>> /\ queue' = Tail(queue)
  BY I2sAssumption DEF TypeOK, TakeBuffer
<1>2. Tail(queue) \in Seq(Bufs) /\ Len(Tail(queue)) = Len(queue) - 1
  BY <1>1
<1> QED
  BY <1>1, <1>2

LEMMA DmaTypeOK == TypeOK /\ (i2s_out_intr_handler \/ Silence) => TypeOK'
<1>1. ASSUME TypeOK, i2s_out_intr_handler
      PROVE  TypeOK'
  <2>1. sending \in Bufs
    BY <1>1 DEF TypeOK, i2s_out_intr_handler
  <2>2. queue' \in Seq(Bufs) /\ Len(queue') <= N
    BY <1>1, <2>1, EnqueueType DEF i2s_out_intr_handler
  <2>3. left' \in [Actors -> 0 .. DelayAll]
    BY <1>1, TimeType DEF i2s_out_intr_handler
  <2>4. Transmitted(data) \in [Bufs -> Contents]
    BY <1>1, <2>1 DEF TypeOK, Transmitted, Contents
  <2>5. data' \in [Bufs -> Contents]
    <3>1. data' = GivenUp(Transmitted(data))
      BY <1>1 DEF i2s_out_intr_handler
    <3> QED
      BY <2>4, <3>1 DEF GivenUp, Contents
  <2>6. sending' \in Bufs \cup {NULL} /\ after' \in Bufs \cup {NULL} /\ astray' \in BOOLEAN
    BY <1>1 DEF TypeOK, i2s_out_intr_handler
  <2> QED
    BY <1>1, <2>2, <2>3, <2>5, <2>6 DEF TypeOK, i2s_out_intr_handler
<1>2. ASSUME TypeOK, Silence
      PROVE  TypeOK'
  BY <1>2, TimeType DEF TypeOK, Silence, dma, ghosts
<1> QED
  BY <1>1, <1>2

\* Going idle.
LEMMA ReturnType ==
    ASSUME TypeOK, NEW a \in Actors, NEW c \in Callers, Return(a, c)
    PROVE  /\ pc' \in [Actors -> Steps] /\ left' \in [Actors -> 0 .. DelayAll]
           /\ goIdlePending' \in BOOLEAN /\ streaming' \in BOOLEAN
BY GotoType, StepNames DEF TypeOK, Return

LEMMA DelayType ==
    ASSUME TypeOK, NEW a \in Actors, NEW c \in Callers, i2s_out_delay(a, c)
    PROVE  /\ pc' \in [Actors -> Steps] /\ left' \in [Actors -> 0 .. DelayAll]
           /\ goIdlePending' \in BOOLEAN /\ streaming' \in BOOLEAN
<1>1. CASE Return(a, c)
  BY <1>1, ReturnType
<1>2. CASE Sleep(a, "settling", DelayAll) /\ UNCHANGED <<goIdlePending, streaming>>
  BY <1>2, SleepType, StepNames, Delays DEF TypeOK
<1> QED
  BY <1>1, <1>2 DEF i2s_out_delay

LEMMA PassthroughType ==
    ASSUME TypeOK, NEW a \in Actors, i2s_out_set_passthrough(a)
    PROVE  /\ pc' \in [Actors -> Steps] /\ left' \in [Actors -> 0 .. DelayAll]
           /\ status' \in Statuses
BY SleepType, StepNames, Delays DEF i2s_out_set_passthrough, Statuses

LEMMA WakesTypeOK ==
    ASSUME TypeOK, NEW a \in Actors, NEW c \in Callers, Stopped(a, c) \/ Settled(a, c)
    PROVE  TypeOK'
<1>1. CASE Stopped(a, c)
  BY <1>1, DelayType DEF TypeOK, Stopped, dma, ghosts
<1>2. CASE Settled(a, c)
  BY <1>2, ReturnType DEF TypeOK, Settled, dma, ghosts
<1> QED
  BY <1>1, <1>2

LEMMA TaskTypeOK == TypeOK /\ i2sOutTask => TypeOK'
<1> SUFFICES ASSUME TypeOK, i2sOutTask
             PROVE  TypeOK'
  OBVIOUS
<1>1. ASSUME NEW d \in Bufs, StartFill(d)
      PROVE  TypeOK'
  <2>1. pc' \in [Actors -> Steps]
    BY <1>1, GotoType, StepNames DEF StartFill
  <2>2. queue' \in Seq(Bufs) /\ Len(queue') <= N
    BY <1>1, TakeType DEF StartFill
  <2>3. data' \in [Bufs -> Contents]
    BY <1>1 DEF TypeOK, StartFill, Contents
  <2> QED
    BY <1>1, <2>1, <2>2, <2>3 DEF TypeOK, StartFill, TakeBuffer
<1>2. ASSUME NEW d \in Bufs, CutChain(d)
      PROVE  TypeOK'
  <2>1. queue' \in Seq(Bufs) /\ Len(queue') <= N
    BY <1>2, TakeType DEF CutChain
  <2>2. data' \in [Bufs -> Contents] /\ next' \in [Bufs -> Bufs \cup {NULL}]
    BY <1>2 DEF TypeOK, CutChain, Contents
  <2> QED
    BY <1>2, <2>1, <2>2 DEF TypeOK, CutChain, TakeBuffer
<1>3. ASSUME NEW d \in Bufs, TailFound(d)
      PROVE  TypeOK'
  <2>1. queue' \in Seq(Bufs) /\ Len(queue') <= N
    BY <1>3, TakeType DEF TailFound
  <2>2. "PASSTHROUGH" \in Statuses /\ "zero" \in Contents
    BY DEF Statuses, Contents
  <2> QED
    BY <1>3, <2>1, <2>2, RestartType DEF TypeOK, TailFound, TakeBuffer
<1>4. ASSUME NEW d \in Bufs, ClearBuffer(d)
      PROVE  TypeOK'
  <2>1. queue' \in Seq(Bufs) /\ Len(queue') <= N
    BY <1>4, TakeType DEF ClearBuffer
  <2>2. data' \in [Bufs -> Contents]
    BY <1>4 DEF TypeOK, ClearBuffer, Contents
  <2> QED
    BY <1>4, <2>1, <2>2 DEF TypeOK, ClearBuffer, TakeBuffer
<1>5. CASE I2SStepperPulseStart
  <2>1. data' \in [Bufs -> Contents]
    BY <1>5 DEF TypeOK, I2SStepperPulseStart, Contents
  <2> QED
    BY <1>5, <2>1 DEF TypeOK, I2SStepperPulseStart, ghosts
<1>6. CASE I2SStepperGoIdle
  BY <1>6, PassthroughType, StepNames DEF TypeOK, I2SStepperGoIdle, dma, ghosts
<1>7. CASE PulseReturns
  <2>1. pc' \in [Actors -> Steps]
    BY <1>7, GotoType, StepNames DEF PulseReturns
  <2>2. next' \in [Bufs -> Bufs \cup {NULL}]
    BY <1>7 DEF TypeOK, PulseReturns
  <2> QED
    BY <1>7, <2>1, <2>2 DEF TypeOK, PulseReturns, ghosts
<1>8. CASE Filled
  BY <1>8, GotoType, StepNames DEF TypeOK, Filled, dma, ghosts
<1>9. "go_idle" \in Callers
  BY DEF Callers
<1> QED
  BY <1>1, <1>2, <1>3, <1>4, <1>5, <1>6, <1>7, <1>8, <1>9, WakesTypeOK, StepNames DEF i2sOutTask

-----------------------------------------------------------------------------
\* The grbl task and interrupts.
LEMMA CallType == TypeOK /\ Call => calls' \in 0 .. MaxCalls
BY I2sAssumption DEF TypeOK, Call

LEMMA GoIdleType ==
    ASSUME TypeOK, NEW c \in Callers, GoIdle(c)
    PROVE  /\ pc' \in [Actors -> Steps] /\ left' \in [Actors -> 0 .. DelayAll]
           /\ goIdlePending' \in BOOLEAN /\ streaming' \in BOOLEAN
           /\ status' \in Statuses /\ caller' \in Callers
<1>1. CASE i2s_out_set_passthrough("grbl") /\ UNCHANGED <<goIdlePending, streaming>>
  BY <1>1, PassthroughType, StepNames DEF GoIdle, TypeOK
<1>2. CASE i2s_out_delay("grbl", c) /\ UNCHANGED status
  BY <1>2, DelayType, StepNames DEF GoIdle, TypeOK
<1> QED
  BY <1>1, <1>2 DEF GoIdle

\* A motion that starts, at once or when the chain has run out.
LEMMA WakeUpType ==
    ASSUME TypeOK, StartChain \/ AwaitChain
    PROVE  /\ pc' \in [Actors -> Steps] /\ left' \in [Actors -> 0 .. DelayAll]
           /\ status' \in Statuses /\ astray' \in BOOLEAN
           /\ chan' \in Channels /\ single' \in 0 .. 1 /\ sending' \in Bufs \cup {NULL} /\ after' \in Bufs \cup {NULL}
           /\ next' \in [Bufs -> Bufs \cup {NULL}] /\ data' \in [Bufs -> Contents]
<1>1. CASE StartChain
  <2>1. "STEPPING" \in Statuses /\ "port" \in Contents
    BY DEF Statuses, Contents
  <2>2. pc' \in [Actors -> Steps] /\ left' = left /\ astray' \in BOOLEAN
    BY <1>1, GotoType, StepNames DEF StartChain, OutOfStep
  <2> QED
    BY <1>1, <2>1, <2>2, RestartType DEF StartChain, TypeOK
<1>2. CASE AwaitChain
  BY <1>2, SleepType, StepNames, Delays DEF AwaitChain, TypeOK, dma
<1> QED
  BY <1>1, <1>2

LEMMA GrblTypeOK == TypeOK /\ Grbl => TypeOK'
<1> SUFFICES ASSUME TypeOK, Grbl
             PROVE  TypeOK'
  OBVIOUS
<1>0. "go_idle" \in Callers /\ "reset" \in Callers /\ "mode" \in Callers
  BY DEF Callers
<1>1. CASE I2SStepperWakeUp
  <2>1. moves' \in 0 .. MaxMoves
    BY <1>1, I2sAssumption DEF TypeOK, I2SStepperWakeUp
  <2> QED
    BY <1>1, <2>1, WakeUpType DEF TypeOK, I2SStepperWakeUp
<1>2. CASE WakeUpGoesOn
  BY <1>2, WakeUpType DEF TypeOK, WakeUpGoesOn
<1>3. CASE ClearSignals
  BY <1>3, ResetType, CallType, GotoType, StepNames DEF TypeOK, ClearSignals
<1>4. CASE GrblGoIdle
  BY <1>0, <1>4, GoIdleType DEF TypeOK, GrblGoIdle, dma, ghosts
<1>5. CASE I2SReset
  BY <1>0, <1>5, GoIdleType DEF TypeOK, I2SReset, dma, ghosts
<1>6. ASSUME NEW stream \in BOOLEAN, SetMode(stream)
      PROVE  TypeOK'
  <2>1. calls' \in 0 .. MaxCalls /\ direct' \in BOOLEAN /\ caller' \in Callers
    BY <1>0, <1>6, CallType DEF SetMode
  <2>2. /\ pc' \in [Actors -> Steps] /\ left' \in [Actors -> 0 .. DelayAll]
        /\ status' \in Statuses /\ streaming' \in BOOLEAN
    BY <1>6, PassthroughType, StepNames DEF TypeOK, SetMode
  <2> QED
    BY <1>6, <2>1, <2>2 DEF TypeOK, SetMode, dma
<1>7. CASE stepperWakeUp
  <2>1. moves' \in 0 .. MaxMoves
    BY <1>7, I2sAssumption DEF TypeOK, stepperWakeUp
  <2> QED
    BY <1>7, <2>1 DEF TypeOK, stepperWakeUp, dma
<1>8. CASE WriteBit
  BY <1>8, CallType, GotoType, StepNames DEF TypeOK, WriteBit, dma
<1>9. CASE WritePin
  BY <1>9, GotoType, StepNames DEF TypeOK, WritePin, ghosts
<1>10. CASE Stopped("grbl", caller) \/ Settled("grbl", caller)
  BY <1>10, WakesTypeOK, StepNames DEF TypeOK
<1> QED
  BY <1>1, <1>2, <1>3, <1>4, <1>5, <1>6, <1>7, <1>8, <1>9, <1>10 DEF Grbl

LEMMA InterruptsTypeOK == TypeOK /\ (InterruptGoIdle \/ stepperGoIdle) => TypeOK'
<1>1. ASSUME TypeOK, InterruptGoIdle
      PROVE  TypeOK'
  <2>1. CASE i2s_out_reset
    BY <1>1, <2>1, ResetType, CallType DEF TypeOK, InterruptGoIdle
  <2>2. CASE UNCHANGED <<status, dma, astray>>
    BY <1>1, <2>2, CallType DEF TypeOK, InterruptGoIdle, dma
  <2> QED
    BY <1>1, <2>1, <2>2 DEF InterruptGoIdle
<1>2. ASSUME TypeOK, stepperGoIdle
      PROVE  TypeOK'
  BY <1>2 DEF TypeOK, stepperGoIdle, dma, ghosts
<1> QED
  BY <1>1, <1>2

\* Every variable keeps its type: the queue never holds more buffers than there are, no delay is
\* overslept, and the next buffer of a chain is one of the ring or none (i2s_out.c 411-458, 518-588).
THEOREM SpecTypeOK == Spec => []TypeOK
<1>1. Init => TypeOK
  <2> SUFFICES ASSUME Init
               PROVE  TypeOK
    OBVIOUS
  <2>1. /\ moves \in 0 .. MaxMoves /\ calls \in 0 .. MaxCalls
        /\ left \in [Actors -> 0 .. DelayAll]
    BY I2sAssumption DEF Init, DelayAll
  <2>2. queue \in Seq(Bufs) /\ Len(queue) <= N
    BY I2sAssumption DEF Init
  <2>3. /\ next \in [Bufs -> Bufs \cup {NULL}] /\ sending \in Bufs \cup {NULL} /\ after \in Bufs \cup {NULL}
        /\ cur \in Bufs
    BY RingType DEF Init
  <2>4. /\ status \in Statuses /\ chan \in Channels /\ data \in [Bufs -> Contents]
        /\ pc \in [Actors -> Steps] /\ caller \in Callers
    BY StepNames DEF Init, Statuses, Channels, Contents, Callers
  <2> QED
    BY <2>1, <2>2, <2>3, <2>4 DEF Init, TypeOK
<1>2. TypeOK /\ [Next]_vars => TypeOK'
  <2>1. TypeOK /\ UNCHANGED vars => TypeOK'
    BY DEF TypeOK, vars, dma, ghosts
  <2> QED
    BY <2>1, DmaTypeOK, TaskTypeOK, GrblTypeOK, InterruptsTypeOK DEF Next
<1> QED
  BY <1>1, <1>2, PTL DEF Spec

-----------------------------------------------------------------------------
\* In PASSTHROUGH the constant is sent, and it is the port but for a write that is on its way.
PinInv ==
    status = "PASSTHROUGH" => chan = "static" /\ (pc["grbl"] # "write" => single = port)

\* Whoever goes on, a write in progress is left to the grbl task.
LEMMA WriteStays ==
    ASSUME TypeOK, NEW a \in Actors, NEW l \in Steps, Goto(a, l),
           l # "write", a = "grbl" => pc["grbl"] # "write"
    PROVE  pc'["grbl"] = "write" <=> pc["grbl"] = "write"
BY GotoType, StepNames DEF Actors

LEMMA PinInvStep == TypeOK /\ PinInv /\ [Next]_vars => PinInv'
<1> SUFFICES ASSUME TypeOK, PinInv, [Next]_vars
             PROVE  PinInv'
  OBVIOUS
\* A step that keeps the constant and leaves writes alone, and does not enter PASSTHROUGH.
<1>a. ASSUME UNCHANGED <<chan, single, port>>,
             status' = "PASSTHROUGH" => status = "PASSTHROUGH",
             pc'["grbl"] = "write" <=> pc["grbl"] = "write"
      PROVE  PinInv'
  BY <1>a DEF PinInv
\* A chain that starts.
<1>b. ASSUME NEW st, NEW nx, i2s_out_start(st, nx), status' = st, UNCHANGED port
      PROVE  PinInv'
  BY <1>b DEF PinInv, i2s_out_start
<1>c. ASSUME i2s_out_reset, UNCHANGED port
      PROVE  PinInv'
  BY <1>b, <1>c DEF i2s_out_reset, Restart
<1>d. ASSUME NEW a \in Actors, i2s_out_set_passthrough(a), UNCHANGED <<chan, single, port>>,
             a = "grbl" => pc["grbl"] # "write"
      PROVE  PinInv'
  BY <1>d DEF PinInv, i2s_out_set_passthrough
<1>e. ASSUME NEW a \in Actors, NEW c, Return(a, c), a = "grbl" => pc["grbl"] # "write"
      PROVE  pc'["grbl"] = "write" <=> pc["grbl"] = "write"
  BY <1>e, WriteStays, StepNames DEF Return
<1>f. ASSUME NEW a \in Actors, NEW c, i2s_out_delay(a, c), a = "grbl" => pc["grbl"] # "write"
      PROVE  pc'["grbl"] = "write" <=> pc["grbl"] = "write"
  BY <1>e, <1>f, WriteStays, StepNames DEF i2s_out_delay, Sleep
<1>g. ASSUME NEW a \in Actors, NEW c, Stopped(a, c) \/ Settled(a, c)
      PROVE  PinInv'
  BY <1>a, <1>e, <1>f, <1>g DEF Stopped, Settled, dma
<1>h. ASSUME NEW c, GoIdle(c), pc["grbl"] # "write", UNCHANGED <<port, dma>>
      PROVE  PinInv'
  BY <1>a, <1>d, <1>f, <1>h, StepNames DEF GoIdle, dma
<1>i. ASSUME StartChain \/ AwaitChain, pc["grbl"] # "write", UNCHANGED port
      PROVE  PinInv'
  <2>1. CASE StartChain
    BY <1>b, <1>i, <2>1 DEF StartChain, Restart
  <2>2. CASE AwaitChain
    BY <1>i, <2>2 DEF AwaitChain, dma, PinInv
  <2> QED
    BY <1>i, <2>1, <2>2
<1>1. CASE i2s_out_intr_handler \/ Silence
  BY <1>1, <1>a DEF i2s_out_intr_handler, Silence, dma
<1>2. ASSUME NEW d \in Bufs, StartFill(d) \/ CutChain(d) \/ ClearBuffer(d)
      PROVE  PinInv'
  <2>1. pc'["grbl"] = "write" <=> pc["grbl"] = "write"
    BY <1>2, WriteStays, StepNames DEF StartFill, CutChain, ClearBuffer
  <2> QED
    BY <1>2, <1>a, <2>1 DEF StartFill, CutChain, ClearBuffer, TakeBuffer
<1>3. ASSUME NEW d \in Bufs, TailFound(d)
      PROVE  PinInv'
  BY <1>3, <1>b DEF TailFound, TakeBuffer, Restart
<1>4. CASE I2SStepperPulseStart
  BY <1>4, <1>a DEF I2SStepperPulseStart
<1>5. CASE I2SStepperGoIdle
  BY <1>5, <1>d, StepNames DEF I2SStepperGoIdle, dma
<1>6. CASE PulseReturns \/ Filled
  <2>1. pc'["grbl"] = "write" <=> pc["grbl"] = "write"
    BY <1>6, WriteStays, StepNames DEF PulseReturns, Filled
  <2> QED
    BY <1>6, <1>a, <2>1 DEF PulseReturns, Filled, dma
<1>7. CASE I2SStepperWakeUp \/ WakeUpGoesOn
  BY <1>7, <1>i DEF I2SStepperWakeUp, WakeUpGoesOn
<1>8. CASE ClearSignals \/ InterruptGoIdle
  BY <1>8, <1>a, <1>c DEF ClearSignals, InterruptGoIdle, dma
<1>9. CASE GrblGoIdle \/ I2SReset
  BY <1>9, <1>h DEF GrblGoIdle, I2SReset
<1>10. ASSUME NEW stream \in BOOLEAN, SetMode(stream)
       PROVE  PinInv'
  BY <1>10, <1>a, <1>d, StepNames DEF SetMode, dma
<1>11. CASE stepperWakeUp \/ stepperGoIdle
  BY <1>11, <1>a DEF stepperWakeUp, stepperGoIdle, dma
<1>12. CASE WriteBit
  BY <1>12, GotoType, StepNames DEF WriteBit, PinInv, dma
<1>13. CASE WritePin
  BY <1>13 DEF WritePin, PinInv
<1>14. CASE UNCHANGED vars
  BY <1>14, <1>a DEF vars, dma
<1> QED
  BY <1>1, <1>2, <1>3, <1>4, <1>5, <1>6, <1>7, <1>8, <1>9, <1>10, <1>11, <1>12, <1>13, <1>14, <1>g, StepNames
     DEF Next, i2sOutTask, Grbl

\* In PASSTHROUGH the pins follow the port, although i2s_out_write does not lock out a change of the
\* status (i2s_out.c 533-546): every way into PASSTHROUGH loads the constant from the port (279-332).
THEOREM SpecPinsFollowPort == Spec => []PinsFollowPort
<1>1. Init => PinInv
  BY DEF Init, PinInv
<1>2. PinInv => PinsFollowPort
  BY DEF PinInv, PinsFollowPort
<1> QED
  BY <1>1, <1>2, PinInvStep, SpecTypeOK, PTL DEF Spec

-----------------------------------------------------------------------------
\* Places in the ring: the buffer k before b, and how far c is ahead of b.
Behind(b, k) == IF b >= k THEN b - k ELSE b + N - k
Ahead(b, c) == IF c >= b THEN c - b ELSE c + N - b

LEMMA RingNext == \A b \in Bufs : Ring[b] = IF b + 1 < N THEN b + 1 ELSE 0
<1> SUFFICES ASSUME NEW b \in Bufs
             PROVE  Ring[b] = IF b + 1 < N THEN b + 1 ELSE 0
  OBVIOUS
<1>1. N \in Nat \ {0, 1} /\ b \in Nat /\ b < N /\ Ring[b] = (b + 1) % N
  BY I2sAssumption DEF Bufs, Ring
<1>2. CASE b + 1 < N
  BY <1>1, <1>2
<1>3. CASE b + 1 = N
  <2>1. Ring[b] = N % N
    BY <1>1, <1>3
  <2> QED
    BY <1>1, <1>3, <2>1
<1> QED
  BY <1>1, <1>2, <1>3

\* Descriptors are linked to the next one of the ring or to none, and a pulser that steps has them all.
LinkInv ==
    /\ \A b \in Bufs : next[b] \in {Ring[b], NULL}
    /\ sending # NULL => after \in {Ring[sending], NULL}
    /\ status = "STEPPING" => next = Ring /\ sending \in Bufs /\ after \in Bufs

Streams == ~astray /\ status # "PASSTHROUGH"

\* What StepsSentOnce needs of the scheduler: the DMA does not lap a task that does not sleep.
KeepsUp == MaxBehind + 1 < N

\* The queue is the stretch of the ring the DMA has just left, and i2sOutTask is at its older end.
ArcInv == Streams /\ sending # NULL =>
    /\ KeepsUp => Len(queue) <= N - 1
    /\ \A i \in 1 .. Len(queue) : queue[i] = Behind(sending, Len(queue) + 1 - i)
    /\ pc["task"] # "ready" => cur = Behind(sending, Len(queue) + 1) /\ Len(queue) <= N - 2

\* Pulses that were sent are in that stretch; those to be sent are ahead of the DMA, before the chain ends.
PulseInv ==
    /\ ~astray /\ status = "PASSTHROUGH" => \A b \in Bufs : data[b] \notin {"fresh", "sent"}
    /\ Streams /\ sending = NULL => \A b \in Bufs : data[b] # "fresh"
    /\ Streams /\ sending # NULL =>
       /\ \A b \in Bufs : data[b] = "sent" => \E i \in 1 .. Len(queue) : queue[i] = b
       /\ \A i \in 1 .. Len(queue) : data[queue[i]] # "fresh"
       /\ \A b \in Bufs : data[b] = "fresh" =>
             /\ after = next[sending]
             /\ \A i \in 1 .. Len(queue) : next[queue[i]] # NULL
             /\ \A c \in Bufs : next[c] = NULL => Ahead(sending, b) <= Ahead(sending, c)

StreamInv == LinkInv /\ ArcInv /\ PulseInv

LEMMA Numbers ==
    /\ N \in Nat /\ N > 1 /\ MaxBehind \in Nat /\ MaxBehind > 0
    /\ \A b \in Bufs : b \in Nat /\ b < N /\ b # NULL
BY I2sAssumption DEF Bufs, NULL

LEMMA QueueType ==
    ASSUME TypeOK
    PROVE  /\ queue \in Seq(Bufs) /\ Len(queue) \in Nat /\ Len(queue) <= N
           /\ \A i \in 1 .. Len(queue) : queue[i] \in Bufs
BY DEF TypeOK

LEMMA TakeFacts ==
    ASSUME TypeOK, NEW d \in Bufs, TakeBuffer(d)
    PROVE  /\ Len(queue) > 0 /\ d = queue[1] /\ cur' = d
           /\ Len(queue') = Len(queue) - 1
           /\ \A i \in 1 .. Len(queue') : queue'[i] = queue[i + 1]
BY QueueType DEF TakeBuffer

\* A chain that starts over with nothing to send.
LEMMA RestartStream ==
    ASSUME TypeOK, NEW st \in {"PASSTHROUGH", "STEPPING"}, NEW v \in {"zero", "port"}, Restart(st, v),
           ~astray' /\ st = "STEPPING" => queue' = <<>> /\ pc'["task"] = "ready"
    PROVE  StreamInv'
<1>1. /\ status' = st /\ next' = Ring /\ sending' = 0 /\ after' = Ring[0]
      /\ data' = [b \in Bufs |-> v]
  BY DEF Restart, i2s_clear_o_dma_buffers, i2s_out_start
<1>2. 0 \in Bufs /\ \A b \in Bufs : Ring[b] \in Bufs /\ Ring[b] # NULL
  BY RingType, Numbers
<1>3. LinkInv'
  BY <1>1, <1>2 DEF LinkInv
<1>4. ArcInv'
  BY <1>1, Numbers DEF ArcInv, Streams
<1>5. PulseInv'
  <2>1. \A b \in Bufs : data'[b] \notin {"fresh", "sent"} /\ next'[b] # NULL
    BY <1>1, <1>2
  <2>2. sending' # NULL /\ sending' \in Bufs /\ after' = next'[sending']
    BY <1>1, <1>2, Numbers
  <2>3. status' # "PASSTHROUGH" /\ ~astray' => Len(queue') = 0
    BY <1>1
  <2>4. Streams' => 1 .. Len(queue') = {}
    BY <2>3 DEF Streams
  <2> QED
    BY <2>1, <2>2, <2>4 DEF PulseInv, Streams
<1> QED
  BY <1>3, <1>4, <1>5 DEF StreamInv

\* Steps that leave the buffers alone, and do not start to work on one.
LEMMA StreamStays ==
    ASSUME TypeOK, StreamInv, UNCHANGED <<next, data, sending, after, queue, cur, astray>>,
           status' = status \/ (status = "STEPPING" /\ status' = "WAITING"),
           pc'["task"] # "ready" => pc["task"] # "ready"
    PROVE  StreamInv'
<1>1. LinkInv'
  BY DEF StreamInv, LinkInv
<1>2. Streams' => Streams
  BY DEF Streams
<1>3. ArcInv'
  BY <1>2 DEF StreamInv, ArcInv
<1>4. PulseInv'
  BY <1>2 DEF StreamInv, PulseInv, Streams
<1> QED
  BY <1>1, <1>3, <1>4 DEF StreamInv

LEMMA ResetStream ==
    ASSUME TypeOK, StreamInv, i2s_out_reset, UNCHANGED <<queue, cur>>, pc'["task"] = pc["task"]
    PROVE  StreamInv'
<1>1. CASE status = "STEPPING" /\ Restart("STEPPING", "port") /\ astray' = (astray \/ OutOfStep)
  BY <1>1, RestartStream DEF OutOfStep
<1>2. CASE status = "WAITING" /\ Restart("PASSTHROUGH", "zero") /\ UNCHANGED astray
  BY <1>2, RestartStream
<1>3. CASE /\ status = "PASSTHROUGH" /\ i2s_out_start(status, next)
           /\ UNCHANGED <<status, next, data, astray>>
  <2>1. sending' = 0 /\ after' = next[0] /\ 0 \in Bufs
    BY <1>3, RingType DEF i2s_out_start
  <2>2. LinkInv'
    BY <1>3, <2>1 DEF StreamInv, LinkInv
  <2>3. ArcInv' /\ PulseInv'
    BY <1>3 DEF StreamInv, ArcInv, PulseInv, Streams
  <2> QED
    BY <2>2, <2>3 DEF StreamInv
<1> QED
  BY <1>1, <1>2, <1>3 DEF i2s_out_reset

\* What is not in the queue is at most this far ahead.
LEMMA NotInQueue ==
    ASSUME TypeOK, StreamInv, Streams, sending \in Bufs, NEW b \in Bufs,
           \A i \in 1 .. Len(queue) : queue[i] # b
    PROVE  Ahead(sending, b) \in Nat /\ Ahead(sending, b) <= N - Len(queue) - 1
<1>1. PICK n \in Nat : n = Len(queue) /\ n <= N
  BY QueueType
<1>2. \A i \in 1 .. n : queue[i] = Behind(sending, n + 1 - i)
  BY <1>1, Numbers DEF StreamInv, ArcInv
<1>3. PICK k \in Nat : k = N - Ahead(sending, b) /\ k <= N
  BY Numbers DEF Ahead
<1>4. CASE 0 < k /\ k <= n
  <2>1. queue[n + 1 - k] = Behind(sending, k)
    BY <1>2, <1>4
  <2>2. Behind(sending, k) = b
    BY <1>1, <1>3, <1>4, Numbers DEF Ahead, Behind
  <2> QED
    BY <1>1, <1>4, <2>1, <2>2
<1>5. k > 0 /\ Ahead(sending, b) \in Nat
  BY <1>3, Numbers DEF Ahead
<1>6. CASE k > n
  BY <1>1, <1>3, <1>5, <1>6, Numbers
<1> QED
  BY <1>3, <1>4, <1>5, <1>6

\* What there is to know of a buffer with pulses to send.
LEMMA FreshFacts ==
    ASSUME TypeOK, StreamInv, Streams, sending \in Bufs, NEW b \in Bufs, data[b] = "fresh"
    PROVE  /\ \A i \in 1 .. Len(queue) : queue[i] # b /\ next[queue[i]] # NULL
           /\ Ahead(sending, b) \in Nat /\ Ahead(sending, b) <= N - Len(queue) - 1
           /\ Len(queue) <= N - 1
           /\ after = next[sending]
           /\ \A c \in Bufs : next[c] = NULL => Ahead(sending, b) <= Ahead(sending, c)
<1>1. sending # NULL
  BY Numbers
<1>2. \A i \in 1 .. Len(queue) : queue[i] # b /\ next[queue[i]] # NULL
  BY <1>1 DEF StreamInv, PulseInv
<1>3. Ahead(sending, b) \in Nat /\ Ahead(sending, b) <= N - Len(queue) - 1
  BY <1>2, NotInQueue
<1>4. Len(queue) <= N - 1
  BY <1>3, QueueType, Numbers
<1> QED
  BY <1>1, <1>2, <1>3, <1>4 DEF StreamInv, PulseInv

LEMMA EnqueueFacts ==
    ASSUME TypeOK, NEW d \in Bufs, Enqueue(d)
    PROVE  /\ Len(queue') = IF Len(queue) < N THEN Len(queue) + 1 ELSE N
           /\ Len(queue') > 0 /\ queue'[Len(queue')] = d
           /\ Len(queue) < N => \A i \in 1 .. Len(queue) : queue'[i] = queue[i]
           /\ Len(queue) = N => \A i \in 1 .. N - 1 : queue'[i] = queue[i + 1]
<1>1. queue \in Seq(Bufs) /\ Len(queue) \in Nat /\ Len(queue) <= N
  BY QueueType
<1>2. CASE Len(queue) < N
  BY <1>1, <1>2, Numbers DEF Enqueue
<1>3. CASE ~(Len(queue) < N)
  <2>0. queue # <<>> /\ Tail(queue) \in Seq(Bufs)
    BY <1>1, <1>3, Numbers
  <2>1. PICK t \in Seq(Bufs) : t = Tail(queue)
    BY <2>0
  <2>2. Len(t) = N - 1 /\ \A i \in 1 .. N - 1 : t[i] = queue[i + 1]
    BY <1>1, <1>3, <2>1, Numbers
  <2>3. queue' = Append(t, d) /\ Len(queue) = N
    BY <1>1, <1>3, <2>1, Numbers DEF Enqueue
  <2>4. Len(queue') = N /\ queue'[N] = d
    BY <2>2, <2>3, Numbers
  <2>5. \A i \in 1 .. N - 1 : queue'[i] = t[i]
    BY <2>2, <2>3, Numbers
  <2> QED
    BY <2>2, <2>3, <2>4, <2>5, Numbers
<1> QED
  BY <1>2, <1>3

\* The DMA goes on: all that moves is its place in the ring.
LEMMA TickStream ==
    ASSUME TypeOK, StreamInv, i2s_out_intr_handler
    PROVE  StreamInv'
<1>0. /\ sending \in Bufs /\ sending # NULL /\ after \in Bufs \cup {NULL}
      /\ status' = status /\ next' = next /\ cur' = cur /\ pc' = pc
      /\ sending' = after /\ after' = IF after = NULL THEN NULL ELSE next[after]
      /\ status \in Statuses /\ astray \in BOOLEAN
      /\ Enqueue(sending)
  BY DEF TypeOK, i2s_out_intr_handler
<1>1. LinkInv'
  <2>1. \A b \in Bufs : next[b] \in {Ring[b], NULL} /\ Ring[b] \in Bufs
    BY RingType DEF StreamInv, LinkInv
  <2>2. status = "STEPPING" => next = Ring /\ after \in Bufs
    BY DEF StreamInv, LinkInv
  <2>3. sending' # NULL => after' \in {Ring[sending'], NULL}
    BY <1>0, <2>1, Numbers
  <2>4. status' = "STEPPING" => next' = Ring /\ sending' \in Bufs /\ after' \in Bufs
    BY <1>0, <2>1, <2>2, Numbers
  <2> QED
    BY <1>0, <2>1, <2>3, <2>4 DEF LinkInv
<1>2. CASE astray'
  BY <1>1, <1>2 DEF StreamInv, ArcInv, PulseInv, Streams
<1>3. CASE ~astray' /\ status = "PASSTHROUGH"
  <2>1. \A b \in Bufs : data[b] \notin {"fresh", "sent"}
    BY <1>0, <1>3 DEF StreamInv, PulseInv, i2s_out_intr_handler
  <2>2. Transmitted(data) = data
    BY <1>0, <2>1 DEF Transmitted, TypeOK
  <2>3. data \in [Bufs -> Contents] /\ data' = GivenUp(data)
    BY <2>2 DEF TypeOK, i2s_out_intr_handler
  <2>4. \A b \in Bufs : data'[b] \notin {"fresh", "sent"}
    BY <1>3, <2>1, <2>3 DEF GivenUp
  <2> QED
    BY <1>0, <1>1, <1>3, <2>4 DEF StreamInv, ArcInv, PulseInv, Streams
<1>4. CASE ~astray' /\ status # "PASSTHROUGH"
  <2>0. Streams /\ Streams' /\ ~(pc["task"] # "ready" /\ after = cur)
    BY <1>0, <1>4 DEF i2s_out_intr_handler, Streams
  <2>1. PICK n \in Nat : n = Len(queue) /\ n <= N
    BY QueueType
  <2>2. /\ \A i \in 1 .. n : queue[i] = Behind(sending, n + 1 - i)
        /\ pc["task"] # "ready" => cur = Behind(sending, n + 1) /\ n <= N - 2
    BY <1>0, <2>0, <2>1 DEF StreamInv, ArcInv
  <2>3. /\ \A b \in Bufs : data[b] = "sent" => \E i \in 1 .. n : queue[i] = b
        /\ \A i \in 1 .. n : data[queue[i]] # "fresh"
    BY <1>0, <2>0, <2>1 DEF StreamInv, PulseInv
  <2>4. after \in {Ring[sending], NULL}
    BY <1>0 DEF StreamInv, LinkInv
  <2>5. after # NULL => after = IF sending + 1 < N THEN sending + 1 ELSE 0
    BY <1>0, <2>4, RingNext
  <2>6. KeepsUp => n <= N - 2
    BY <1>0, <2>1, <2>2, Numbers DEF i2s_out_intr_handler, InTime, KeepsUp, Asleep, Sleeps
  <2>7. after # NULL /\ pc["task"] # "ready" => n <= N - 3
    <3>1. CASE after # NULL /\ pc["task"] # "ready" /\ n = N - 2
      <4>1. cur = Behind(sending, N - 1) /\ cur # after
        BY <2>0, <2>2, <3>1, Numbers
      <4> QED
        BY <1>0, <2>5, <3>1, <4>1, Numbers DEF Behind
    <3> QED
      BY <2>1, <2>2, <3>1, Numbers
  <2>8. PICK m \in Nat : m = Len(queue') /\ m = (IF n < N THEN n + 1 ELSE N) /\ m > 0 /\ m <= N
    BY <1>0, <2>1, EnqueueFacts, Numbers
  \* The last place is new, the others are one place further behind.
  <2>9. /\ queue'[m] = sending
        /\ \A i \in 1 .. m - 1 : i + (n + 1 - m) \in 1 .. n /\ queue'[i] = queue[i + (n + 1 - m)]
    <3>1. CASE n < N
      <4>1. m = n + 1 /\ queue'[m] = sending /\ \A i \in 1 .. n : queue'[i] = queue[i]
        BY <1>0, <2>1, <2>8, <3>1, EnqueueFacts
      <4> QED
        BY <4>1
    <3>2. CASE n = N
      BY <1>0, <2>1, <2>8, <3>2, EnqueueFacts
    <3> QED
      BY <2>1, <3>1, <3>2, Numbers
  <2>10. data' = GivenUp([data EXCEPT ![sending] = IF @ = "fresh" THEN "sent" ELSE @])
    BY DEF i2s_out_intr_handler, Transmitted
  <2>11. CASE n = N
    <3>1. queue[1] = sending /\ Head(queue) = sending
      <4>1. Behind(sending, N) = sending
        BY <1>0, Numbers DEF Behind
      <4>2. 1 \in 1 .. n /\ n + 1 - 1 = N
        BY <2>11, Numbers
      <4>3. queue[1] = Behind(sending, n + 1 - 1)
        BY <2>2, <4>2
      <4> QED
        BY <4>1, <4>2, <4>3, <2>1, QueueType
    <3>2. /\ \A b \in Bufs \ {sending} : data'[b] = data[b]
          /\ data'[sending] \notin {"fresh", "sent"}
      BY <1>0, <2>1, <2>10, <2>11, <3>1 DEF GivenUp, TypeOK
    <3>3. \A b \in Bufs : data'[b] = "sent" => \E i \in 1 .. m : queue'[i] = b
      <4> SUFFICES ASSUME NEW b \in Bufs, data'[b] = "sent"
                   PROVE  \E i \in 1 .. m : queue'[i] = b
        OBVIOUS
      <4>1. b # sending /\ data[b] = "sent"
        BY <3>2
      <4>2. PICK i \in 1 .. n : queue[i] = b
        BY <2>3, <4>1
      <4>3. i # 1
        BY <3>1, <4>1, <4>2
      <4>4. i - 1 \in 1 .. m - 1 /\ (i - 1) + (n + 1 - m) = i
        BY <2>8, <2>11, <4>2, <4>3, Numbers
      <4>5. queue'[i - 1] = b
        BY <2>9, <4>2, <4>4
      <4> QED
        BY <2>8, <4>4, <4>5
    <3>4. \A b \in Bufs : data'[b] # "fresh"
      <4>1. ASSUME NEW b \in Bufs, data[b] = "fresh"
            PROVE  FALSE
        BY <1>0, <2>0, <2>1, <2>11, <4>1, FreshFacts, Numbers
      <4> QED
        BY <3>2, <4>1
    <3>5. \A i \in 1 .. m : queue'[i] \in Bufs
      <4>1. queue' \in Seq(Bufs)
        BY <1>0, EnqueueType
      <4>2. PICK q \in Seq(Bufs) : q = queue'
        BY <4>1
      <4>3. \A i \in 1 .. Len(q) : q[i] \in Bufs
        OBVIOUS
      <4> QED
        BY <2>8, <4>2, <4>3
    <3>6. PulseInv'
      BY <1>0, <1>4, <2>8, <3>3, <3>4, <3>5 DEF PulseInv, Streams
    <3>7. ArcInv'
      <4> SUFFICES ASSUME after # NULL
                   PROVE  ArcInv'
        BY <1>0 DEF ArcInv
      <4>1. \A i \in 1 .. m : queue'[i] = Behind(after, m + 1 - i)
        <5> SUFFICES ASSUME NEW i \in 1 .. m
                     PROVE  queue'[i] = Behind(after, m + 1 - i)
          OBVIOUS
        <5>1. CASE i = m
          <6>1. Behind(after, 1) = sending /\ m + 1 - i = 1
            BY <1>0, <2>5, <2>8, <5>1, Numbers DEF Behind
          <6> QED
            BY <2>9, <5>1, <6>1
        <5>2. CASE i \in 1 .. m - 1
          <6>1. i + 1 \in 1 .. n /\ queue'[i] = queue[i + 1]
            BY <2>8, <2>9, <2>11, <5>2, Numbers
          <6>2. PICK k \in 1 .. N - 1 : k = n + 1 - (i + 1) /\ k + 1 = m + 1 - i
            BY <2>8, <2>11, <5>2, Numbers
          <6>3. queue'[i] = Behind(sending, k)
            BY <2>2, <6>1, <6>2
          <6>4. Behind(sending, k) = Behind(after, k + 1)
            BY <1>0, <2>5, Numbers DEF Behind
          <6> QED
            BY <6>2, <6>3, <6>4
        <5> QED
          BY <2>8, <5>1, <5>2
      <4>2. pc["task"] = "ready"
        BY <2>2, <2>11, Numbers
      <4>3. ~KeepsUp
        BY <2>6, <2>11, Numbers
      <4> QED
        BY <1>0, <2>8, <4>1, <4>2, <4>3 DEF ArcInv
    <3> QED
      BY <1>1, <3>6, <3>7 DEF StreamInv
  <2>12. CASE n < N
    <3>1. m = n + 1 /\ queue'[n + 1] = sending /\ \A i \in 1 .. n : queue'[i] = queue[i]
      BY <1>0, <2>1, <2>8, <2>9, <2>12, EnqueueFacts
    <3>2. data' = [data EXCEPT ![sending] = IF @ = "fresh" THEN "sent" ELSE @]
      BY <2>1, <2>10, <2>12 DEF GivenUp
    <3>3. /\ \A b \in Bufs \ {sending} : data'[b] = data[b]
          /\ data'[sending] # "fresh"
      BY <1>0, <3>2 DEF TypeOK
    <3>4. ArcInv'
      <4> SUFFICES ASSUME after # NULL
                   PROVE  ArcInv'
        BY <1>0 DEF ArcInv
      <4>1. \A i \in 1 .. n + 1 : queue'[i] = Behind(after, n + 2 - i)
        <5> SUFFICES ASSUME NEW i \in 1 .. n + 1
                     PROVE  queue'[i] = Behind(after, n + 2 - i)
          OBVIOUS
        <5>1. CASE i = n + 1
          <6>1. Behind(after, 1) = sending
            BY <1>0, <2>5, Numbers DEF Behind
          <6> QED
            BY <3>1, <5>1, <6>1
        <5>2. CASE i \in 1 .. n
          <6>1. queue'[i] = Behind(sending, n + 1 - i)
            BY <2>2, <3>1, <5>2
          <6>2. PICK k \in 1 .. n : k = n + 1 - i /\ k + 1 = n + 2 - i
            BY <5>2
          <6>3. Behind(sending, k) = Behind(after, k + 1)
            BY <1>0, <2>5, <2>12, Numbers DEF Behind
          <6> QED
            BY <6>1, <6>2, <6>3
        <5> QED
          BY <2>1, <5>1, <5>2
      <4>2. pc["task"] # "ready" => cur = Behind(after, n + 2) /\ n + 1 <= N - 2
        BY <1>0, <2>2, <2>5, <2>7, Numbers DEF Behind
      <4>3. KeepsUp => n + 1 <= N - 1
        BY <2>6, Numbers
      <4> QED
        BY <1>0, <2>8, <3>1, <4>1, <4>2, <4>3 DEF ArcInv
    <3>5. ASSUME NEW b \in Bufs, data'[b] = "fresh"
          PROVE  b # sending /\ data[b] = "fresh"
      BY <3>3, <3>5
    <3>6. CASE after = NULL
      <4>1. ASSUME NEW b \in Bufs, data'[b] = "fresh"
            PROVE  FALSE
        <5>1. b # sending /\ data[b] = "fresh"
          BY <3>5, <4>1
        <5>2. Ahead(sending, b) <= Ahead(sending, sending)
          BY <1>0, <2>0, <3>6, <5>1, FreshFacts
        <5> QED
          BY <1>0, <5>1, <5>2, Numbers DEF Ahead
      <4>2. PulseInv'
        BY <1>0, <1>4, <3>6, <4>1 DEF PulseInv, Streams
      <4> QED
        BY <1>1, <3>4, <4>2 DEF StreamInv
    <3>7. CASE after # NULL
      <4>1. after \in Bufs /\ after' = next'[sending']
        BY <1>0, <3>7
      <4>2. \A b \in Bufs : data'[b] = "sent" => \E i \in 1 .. n + 1 : queue'[i] = b
        <5> SUFFICES ASSUME NEW b \in Bufs, data'[b] = "sent"
                     PROVE  \E i \in 1 .. n + 1 : queue'[i] = b
          OBVIOUS
        <5>1. CASE b = sending
          BY <3>1, <5>1
        <5>2. CASE b # sending
          BY <2>3, <3>1, <3>3, <5>2
        <5> QED
          BY <5>1, <5>2
      <4>3. \A i \in 1 .. n + 1 : data'[queue'[i]] # "fresh"
        <5> SUFFICES ASSUME NEW i \in 1 .. n + 1
                     PROVE  data'[queue'[i]] # "fresh"
          OBVIOUS
        <5>1. CASE i = n + 1
          BY <3>1, <3>3, <5>1
        <5>2. CASE i \in 1 .. n
          <6>1. queue'[i] = queue[i] /\ queue[i] \in Bufs /\ data[queue[i]] # "fresh"
            BY <2>1, <2>3, <3>1, <5>2, QueueType
          <6> QED
            BY <3>3, <6>1
        <5> QED
          BY <2>1, <5>1, <5>2
      <4>4. ASSUME NEW b \in Bufs, data'[b] = "fresh"
            PROVE  /\ \A i \in 1 .. n + 1 : next'[queue'[i]] # NULL
                   /\ \A c \in Bufs : next'[c] = NULL => Ahead(after, b) <= Ahead(after, c)
        <5>1. b # sending /\ data[b] = "fresh"
          BY <3>5, <4>4
        <5>2. /\ \A i \in 1 .. n : next[queue[i]] # NULL
              /\ next[sending] # NULL
              /\ \A c \in Bufs : next[c] = NULL => Ahead(sending, b) <= Ahead(sending, c)
          BY <1>0, <2>0, <2>1, <3>7, <5>1, FreshFacts
        <5>3. \A i \in 1 .. n + 1 : next'[queue'[i]] # NULL
          BY <1>0, <2>1, <3>1, <5>2
        <5>4. ASSUME NEW c \in Bufs, next[c] = NULL
              PROVE  Ahead(after, b) <= Ahead(after, c)
          <6>1. c # sending /\ Ahead(sending, b) <= Ahead(sending, c)
            BY <5>2, <5>4
          <6> QED
            BY <1>0, <2>5, <3>7, <5>1, <6>1, Numbers DEF Ahead
        <5> QED
          BY <1>0, <5>3, <5>4
      <4>5. PulseInv'
        BY <1>0, <1>4, <2>8, <3>1, <3>7, <4>1, <4>2, <4>3, <4>4 DEF PulseInv, Streams
      <4> QED
        BY <1>1, <3>4, <4>5 DEF StreamInv
    <3> QED
      BY <3>6, <3>7
  <2> QED
    BY <2>1, <2>11, <2>12, Numbers
<1> QED
  BY <1>0, <1>2, <1>3, <1>4 DEF i2s_out_intr_handler

\* i2sOutTask takes the oldest buffer of the stretch.
LEMMA TakeStream ==
    ASSUME TypeOK, StreamInv, Streams, sending \in Bufs, NEW d \in Bufs, TakeBuffer(d), UNCHANGED sending
    PROVE  /\ d = Behind(sending, Len(queue') + 1)
           /\ KeepsUp => Len(queue') <= N - 1
           /\ d # sending => Len(queue') <= N - 2
           /\ Len(queue) <= N - 1 => d # sending /\ Ahead(sending, d) = N - Len(queue)
           /\ \A i \in 1 .. Len(queue') : queue'[i] = Behind(sending, Len(queue') + 1 - i)
           /\ \A i \in 1 .. Len(queue') : queue'[i] # d
           /\ \A b \in Bufs \ {d} : (\E i \in 1 .. Len(queue) : queue[i] = b)
                                      => \E i \in 1 .. Len(queue') : queue'[i] = b
<1>1. PICK n \in Nat : n = Len(queue) /\ n <= N
  BY QueueType
<1>2. \A i \in 1 .. n : queue[i] = Behind(sending, n + 1 - i)
  BY <1>1, Numbers DEF StreamInv, ArcInv
<1>3. n > 0 /\ Len(queue') = n - 1 /\ \A i \in 1 .. n - 1 : queue'[i] = queue[i + 1]
  BY <1>1, TakeFacts
<1>4. d = Behind(sending, n)
  BY <1>1, <1>2, <1>3, TakeFacts
<1>5. /\ d # sending => n <= N - 1
      /\ n <= N - 1 => d # sending /\ Ahead(sending, d) = N - n
  <2>1. CASE n = N
    <3>1. Behind(sending, N) = sending
      BY Numbers DEF Behind
    <3> QED
      BY <1>4, <2>1, <3>1, Numbers
  <2>2. CASE n <= N - 1
    <3>1. d # sending
      BY <1>3, <1>4, <2>2, Numbers DEF Behind
    <3>2. Ahead(sending, d) = N - n
      BY <1>3, <1>4, <2>2, Numbers DEF Behind, Ahead
    <3> QED
      BY <2>2, <3>1, <3>2
  <2> QED
    BY <1>1, <2>1, <2>2, Numbers
<1>6. ASSUME NEW i \in 1 .. n - 1
      PROVE  queue'[i] = Behind(sending, n - i) /\ queue'[i] # d
  <2>1. PICK k \in 1 .. n - 1 : k = n - i
    BY <1>6
  <2>2. i + 1 \in 1 .. n /\ n + 1 - (i + 1) = k
    BY <1>6, <2>1
  <2>3. queue'[i] = Behind(sending, k)
    BY <1>2, <1>3, <1>6, <2>2
  <2>4. Behind(sending, k) # Behind(sending, n)
    BY <1>1, <2>1, Numbers DEF Behind
  <2> QED
    BY <1>4, <2>1, <2>3, <2>4
<1>7. ASSUME NEW b \in Bufs \ {d}, NEW i \in 1 .. n, queue[i] = b
      PROVE  \E j \in 1 .. n - 1 : queue'[j] = b
  <2>1. i # 1
    BY <1>1, <1>7, TakeFacts
  <2>2. i - 1 \in 1 .. n - 1 /\ queue'[i - 1] = queue[i]
    BY <1>3, <1>7, <2>1
  <2> QED
    BY <1>7, <2>2
<1>8. PICK m \in Nat : m = Len(queue') /\ m = n - 1 /\ n = m + 1 /\ m <= N - 1
  <2>1. n - 1 \in Nat /\ n = (n - 1) + 1 /\ n - 1 <= N - 1
    BY <1>1, <1>3, Numbers
  <2> QED
    BY <1>3, <2>1
<1>9. \A i \in 1 .. m : queue'[i] = Behind(sending, m + 1 - i) /\ queue'[i] # d
  <2> SUFFICES ASSUME NEW i \in 1 .. m
               PROVE  queue'[i] = Behind(sending, m + 1 - i) /\ queue'[i] # d
    OBVIOUS
  <2>1. n - i = m + 1 - i /\ i \in 1 .. n - 1
    BY <1>8
  <2> QED
    BY <1>6, <2>1
<1>10. \A b \in Bufs \ {d} : (\E i \in 1 .. n : queue[i] = b) => \E i \in 1 .. m : queue'[i] = b
  BY <1>7, <1>8
<1>11. /\ d = Behind(sending, m + 1)
       /\ d # sending => m <= N - 2
       /\ n <= N - 1 => d # sending /\ Ahead(sending, d) = N - n
  BY <1>4, <1>5, <1>8, Numbers
<1>12. n = Len(queue) /\ m = Len(queue')
  BY <1>1, <1>8
<1> QED
  BY <1>8, <1>9, <1>10, <1>11, <1>12

LEMMA StartFillStream ==
    ASSUME TypeOK, StreamInv, NEW d \in Bufs, StartFill(d)
    PROVE  StreamInv'
<1>0. /\ status = "STEPPING" /\ next = Ring /\ sending \in Bufs /\ after \in Bufs
      /\ status' = status /\ next' = next /\ sending' = sending /\ after' = after /\ cur' = d
      /\ astray' = (astray \/ d = sending)
  BY DEF StreamInv, LinkInv, StartFill, TakeBuffer
<1>1. \A b \in Bufs : next[b] # NULL
  BY <1>0, RingType, Numbers
<1>2. LinkInv'
  BY <1>0 DEF StreamInv, LinkInv
<1>3. CASE astray'
  BY <1>2, <1>3 DEF StreamInv, ArcInv, PulseInv, Streams
<1>4. CASE ~astray'
  <2>0. Streams /\ TakeBuffer(d) /\ d # sending
    BY <1>0, <1>4 DEF Streams, StartFill
  <2>1. data'[d] = "port" /\ \A b \in Bufs \ {d} : data'[b] = data[b]
    BY DEF TypeOK, StartFill
  <2>2. Len(queue') \in Nat /\ \A i \in 1 .. Len(queue') : queue'[i] \in Bufs
    BY TakeFacts, <2>0, QueueType
  <2>3. ArcInv'
    BY <1>0, <2>0, <2>2, TakeStream, Numbers DEF ArcInv
  <2>4. sending # NULL
    BY <1>0, Numbers
  <2>5. \A b \in Bufs : data'[b] = "sent" => \E i \in 1 .. Len(queue') : queue'[i] = b
    <3> SUFFICES ASSUME NEW b \in Bufs, data'[b] = "sent"
                 PROVE  \E i \in 1 .. Len(queue') : queue'[i] = b
      OBVIOUS
    <3>1. b # d /\ data[b] = "sent"
      BY <2>1
    <3>2. \E i \in 1 .. Len(queue) : queue[i] = b
      BY <2>0, <2>4, <3>1 DEF StreamInv, PulseInv
    <3> QED
      BY <1>0, <2>0, <3>1, <3>2, TakeStream
  <2>6. \A i \in 1 .. Len(queue') : data'[queue'[i]] # "fresh"
    <3> SUFFICES ASSUME NEW i \in 1 .. Len(queue')
                 PROVE  data'[queue'[i]] # "fresh"
      OBVIOUS
    <3>1. i + 1 \in 1 .. Len(queue) /\ queue'[i] = queue[i + 1]
      BY <2>0, TakeFacts, QueueType
    <3>2. data[queue[i + 1]] # "fresh"
      BY <2>0, <2>4, <3>1 DEF StreamInv, PulseInv
    <3> QED
      BY <2>1, <2>2, <3>1, <3>2
  <2>7. after' = next'[sending']
    BY <1>0, Numbers DEF StreamInv, LinkInv
  <2>8. PulseInv'
    BY <1>0, <1>1, <2>2, <2>4, <2>5, <2>6, <2>7 DEF PulseInv, Streams
  <2> QED
    BY <1>2, <2>3, <2>8 DEF StreamInv
<1> QED
  BY <1>3, <1>4

LEMMA CutStream ==
    ASSUME TypeOK, StreamInv, NEW d \in Bufs, CutChain(d)
    PROVE  StreamInv'
<1>0. /\ status = "WAITING" /\ status' = status
      /\ sending' = sending /\ after' = after /\ cur' = d /\ astray' = astray
      /\ pc["task"] = "ready" /\ pc' = pc /\ TakeBuffer(d)
      /\ sending \in Bufs \cup {NULL}
  BY DEF TypeOK, CutChain, TakeBuffer
<1>1. /\ data'[d] = "zero" /\ \A b \in Bufs \ {d} : data'[b] = data[b]
      /\ next'[d] = NULL /\ \A b \in Bufs \ {d} : next'[b] = next[b]
  BY DEF TypeOK, CutChain
<1>2. LinkInv'
  BY <1>0, <1>1 DEF StreamInv, LinkInv
<1>3. CASE astray
  BY <1>0, <1>2, <1>3 DEF StreamInv, ArcInv, PulseInv, Streams
<1>4. CASE ~astray /\ sending = NULL
  <2>1. \A b \in Bufs : data'[b] # "fresh"
    BY <1>0, <1>1, <1>4 DEF StreamInv, PulseInv, Streams
  <2> QED
    BY <1>0, <1>2, <1>4, <2>1 DEF StreamInv, ArcInv, PulseInv, Streams
<1>5. CASE ~astray /\ sending # NULL
  <2>0. Streams /\ sending \in Bufs
    BY <1>0, <1>5 DEF Streams
  <2>2. /\ Len(queue') \in Nat /\ Len(queue) = Len(queue') + 1
        /\ \A i \in 1 .. Len(queue') : queue'[i] \in Bufs
    BY TakeFacts, <1>0, QueueType
  <2>3. ArcInv'
    BY <1>0, <2>0, <2>2, TakeStream, Numbers DEF ArcInv
  <2>5. \A b \in Bufs : data'[b] = "sent" => \E i \in 1 .. Len(queue') : queue'[i] = b
    <3> SUFFICES ASSUME NEW b \in Bufs, data'[b] = "sent"
                 PROVE  \E i \in 1 .. Len(queue') : queue'[i] = b
      OBVIOUS
    <3>1. b # d /\ data[b] = "sent"
      BY <1>1
    <3>2. \E i \in 1 .. Len(queue) : queue[i] = b
      BY <1>5, <2>0, <3>1 DEF StreamInv, PulseInv
    <3> QED
      BY <1>0, <2>0, <3>1, <3>2, TakeStream
  <2>6. ASSUME NEW i \in 1 .. Len(queue')
        PROVE  /\ i + 1 \in 1 .. Len(queue) /\ queue'[i] = queue[i + 1] /\ queue'[i] # d
               /\ data'[queue'[i]] # "fresh"
    <3>1. i + 1 \in 1 .. Len(queue) /\ queue'[i] = queue[i + 1]
      BY <1>0, <2>6, TakeFacts, QueueType
    <3>2. data[queue[i + 1]] # "fresh"
      BY <1>5, <2>0, <3>1 DEF StreamInv, PulseInv
    <3>3. queue'[i] # d
      BY <1>0, <2>0, <2>6, TakeStream
    <3> QED
      BY <1>1, <2>2, <3>1, <3>2, <3>3
  <2>7. ASSUME NEW b \in Bufs, data'[b] = "fresh"
        PROVE  /\ after = next'[sending]
               /\ \A i \in 1 .. Len(queue') : next'[queue'[i]] # NULL
               /\ \A c \in Bufs : next'[c] = NULL => Ahead(sending, b) <= Ahead(sending, c)
    <3>1. b # d /\ data[b] = "fresh"
      BY <1>1, <2>7
    <3>2. /\ \A i \in 1 .. Len(queue) : next[queue[i]] # NULL
          /\ Ahead(sending, b) \in Nat /\ Ahead(sending, b) <= N - Len(queue) - 1
          /\ Len(queue) <= N - 1
          /\ after = next[sending]
          /\ \A c \in Bufs : next[c] = NULL => Ahead(sending, b) <= Ahead(sending, c)
      BY <2>0, <3>1, FreshFacts
    <3>3. d # sending /\ Ahead(sending, d) = N - Len(queue)
      BY <1>0, <2>0, <3>2, TakeStream
    <3>4. Ahead(sending, b) <= Ahead(sending, d)
      BY <3>2, <3>3, QueueType, Numbers
    <3>5. \A i \in 1 .. Len(queue') : next'[queue'[i]] # NULL
      BY <1>1, <2>2, <2>6, <3>2
    <3> QED
      BY <1>1, <2>0, <3>2, <3>3, <3>4, <3>5
  <2>9. PulseInv'
    BY <1>0, <1>5, <2>5, <2>6, <2>7 DEF PulseInv, Streams
  <2> QED
    BY <1>2, <2>3, <2>9 DEF StreamInv
<1> QED
  BY <1>0, <1>3, <1>4, <1>5

LEMMA TaskStream ==
    ASSUME TypeOK, StreamInv, i2sOutTask
    PROVE  StreamInv'
<1>0. pc \in [Actors -> Steps] /\ "task" \in Actors /\ status \in Statuses
  BY StepNames DEF TypeOK
<1>1. ASSUME NEW d \in Bufs, StartFill(d) \/ CutChain(d)
      PROVE  StreamInv'
  BY <1>1, StartFillStream, CutStream
<1>2. ASSUME NEW d \in Bufs, TailFound(d)
      PROVE  StreamInv'
  BY <1>2, RestartStream DEF TailFound
<1>3. ASSUME NEW d \in Bufs, ClearBuffer(d)
      PROVE  StreamInv'
  <2>1. \A b \in Bufs : data'[b] \in {data[b], "zero"}
    BY <1>3 DEF TypeOK, ClearBuffer
  <2>2. LinkInv'
    BY <1>3 DEF StreamInv, LinkInv, ClearBuffer
  <2>3. ArcInv' /\ PulseInv'
    BY <1>3, <2>1 DEF StreamInv, ArcInv, PulseInv, Streams, ClearBuffer
  <2> QED
    BY <2>2, <2>3 DEF StreamInv
<1>4. CASE I2SStepperPulseStart
  <2>1. /\ status = "STEPPING" /\ next = Ring /\ sending \in Bufs /\ sending # NULL /\ pc["task"] = "fill"
        /\ UNCHANGED <<status, next, sending, after, queue, cur, astray, pc>>
    BY <1>4, Numbers DEF StreamInv, LinkInv, I2SStepperPulseStart, ghosts
  <2>2. \A b \in Bufs : next[b] # NULL
    BY <2>1, RingType, Numbers
  <2>3. LinkInv' /\ ArcInv'
    BY <2>1 DEF StreamInv, LinkInv, ArcInv, Streams
  <2>4. CASE astray
    BY <2>1, <2>3, <2>4 DEF StreamInv, PulseInv, Streams
  <2>5. CASE ~astray
    <3>1. data'[cur] = "fresh" /\ \A b \in Bufs \ {cur} : data'[b] = data[b]
      BY <1>4 DEF TypeOK, I2SStepperPulseStart
    <3>2. PICK n \in Nat : n = Len(queue) /\ \A i \in 1 .. n : queue[i] \in Bufs
      BY QueueType
    <3>3. n <= N - 2 /\ cur = Behind(sending, n + 1) /\ \A i \in 1 .. n : queue[i] = Behind(sending, n + 1 - i)
      BY <2>1, <2>5, <3>2 DEF StreamInv, ArcInv, Streams
    <3>4. ASSUME NEW i \in 1 .. n
          PROVE  queue[i] # cur
      <4>1. PICK k \in 1 .. n : k = n + 1 - i
        BY <3>4
      <4>2. Behind(sending, k) # Behind(sending, n + 1)
        BY <2>1, <3>3, <4>1, Numbers DEF Behind
      <4> QED
        BY <3>3, <4>1, <4>2
    <3>5. /\ after = next[sending]
          /\ \A b \in Bufs : data[b] = "sent" => \E i \in 1 .. n : queue[i] = b
          /\ \A i \in 1 .. n : data[queue[i]] # "fresh"
      <4>1. after = next[sending]
        BY <2>1, Numbers DEF StreamInv, LinkInv
      <4> QED
        BY <2>1, <2>5, <3>2, <4>1 DEF StreamInv, PulseInv, Streams
    <3>6. \A b \in Bufs : data'[b] = "sent" => \E i \in 1 .. n : queue[i] = b
      BY <3>1, <3>5
    <3>7. \A i \in 1 .. n : data'[queue[i]] # "fresh" /\ next[queue[i]] # NULL
      BY <2>2, <3>1, <3>2, <3>4, <3>5
    <3>8. PulseInv'
      BY <2>1, <2>2, <3>2, <3>5, <3>6, <3>7 DEF PulseInv, Streams
    <3> QED
      BY <2>3, <3>8 DEF StreamInv
  <2> QED
    BY <2>4, <2>5
<1>5. CASE I2SStepperGoIdle
  <2>1. pc["task"] = "fill"
    BY <1>5 DEF I2SStepperGoIdle
  <2> QED
    BY <1>5, <2>1, StreamStays DEF I2SStepperGoIdle, i2s_out_set_passthrough, dma, ghosts
<1>6. CASE PulseReturns
  <2>0. /\ pc["task"] = "pulsed"
        /\ UNCHANGED <<status, data, sending, after, queue, cur, astray>>
        /\ sending \in Bufs \cup {NULL} /\ cur \in Bufs
    BY <1>6 DEF PulseReturns, ghosts, TypeOK
  <2>1. CASE status # "WAITING"
    BY <1>6, <2>0, <2>1, StreamStays DEF PulseReturns
  <2>2. CASE status = "WAITING"
    <3>1. next'[cur] = NULL /\ \A b \in Bufs \ {cur} : next'[b] = next[b]
      BY <1>6, <2>2 DEF TypeOK, PulseReturns
    <3>2. LinkInv'
      BY <2>0, <2>2, <3>1 DEF StreamInv, LinkInv
    <3>3. ArcInv'
      BY <2>0, <2>2 DEF StreamInv, ArcInv, Streams
    <3>4. CASE ~(Streams /\ sending # NULL)
      BY <2>0, <2>2, <3>2, <3>3, <3>4 DEF StreamInv, PulseInv, Streams
    <3>5. CASE Streams /\ sending # NULL
      <4>1. sending \in Bufs
        BY <2>0, <3>5
      <4>2. PICK n \in Nat : n = Len(queue) /\ \A i \in 1 .. n : queue[i] \in Bufs
        BY QueueType
      <4>3. n <= N - 2 /\ cur = Behind(sending, n + 1) /\ \A i \in 1 .. n : queue[i] = Behind(sending, n + 1 - i)
        BY <2>0, <3>5, <4>2 DEF StreamInv, ArcInv
      <4>4. ASSUME NEW i \in 1 .. n
            PROVE  queue[i] # cur
        <5>1. PICK k \in 1 .. n : k = n + 1 - i
          BY <4>4
        <5>2. Behind(sending, k) # Behind(sending, n + 1)
          BY <4>1, <4>3, <5>1, Numbers DEF Behind
        <5> QED
          BY <4>3, <5>1, <5>2
      <4>5. sending # cur /\ Ahead(sending, cur) = N - n - 1
        BY <4>1, <4>3, Numbers DEF Behind, Ahead
      <4>6. /\ \A b \in Bufs : data[b] = "sent" => \E i \in 1 .. n : queue[i] = b
            /\ \A i \in 1 .. n : data[queue[i]] # "fresh"
        BY <3>5, <4>2 DEF StreamInv, PulseInv
      <4>7. ASSUME NEW b \in Bufs, data[b] = "fresh"
            PROVE  /\ after = next'[sending]
                   /\ \A i \in 1 .. n : next'[queue[i]] # NULL
                   /\ \A c \in Bufs : next'[c] = NULL => Ahead(sending, b) <= Ahead(sending, c)
        <5>1. /\ \A i \in 1 .. n : next[queue[i]] # NULL
              /\ Ahead(sending, b) <= Ahead(sending, cur)
              /\ after = next[sending]
              /\ \A c \in Bufs : next[c] = NULL => Ahead(sending, b) <= Ahead(sending, c)
          BY <3>5, <4>1, <4>2, <4>5, <4>7, FreshFacts
        <5> QED
          BY <3>1, <4>1, <4>2, <4>4, <4>5, <5>1
      <4>8. PulseInv'
        BY <2>0, <2>2, <3>5, <4>2, <4>6, <4>7 DEF PulseInv, Streams
      <4> QED
        BY <3>2, <3>3, <4>8 DEF StreamInv
    <3> QED
      BY <3>4, <3>5
  <2> QED
    BY <2>1, <2>2
<1>7. CASE Filled
  <2>1. pc'["task"] = "ready"
    BY <1>7, GotoType, StepNames DEF Filled
  <2> QED
    BY <1>7, <2>1, StreamStays DEF Filled, dma, ghosts
<1>8. ASSUME NEW c, Stopped("task", c) \/ Settled("task", c)
      PROVE  StreamInv'
  <2>1. pc["task"] # "ready"
    BY <1>8 DEF Stopped, Settled
  <2> QED
    BY <1>8, <2>1, StreamStays DEF Stopped, Settled, dma, ghosts
<1> QED
  BY <1>1, <1>2, <1>3, <1>4, <1>5, <1>6, <1>7, <1>8 DEF i2sOutTask

\* The grbl task leaves i2sOutTask where it is.
LEMMA GrblGoes ==
    ASSUME TypeOK, NEW l \in Steps, Goto("grbl", l)
    PROVE  pc'["task"] = pc["task"]
BY GotoType, StepNames DEF Actors

LEMMA GrblDelays ==
    ASSUME TypeOK, NEW c, i2s_out_delay("grbl", c) \/ Return("grbl", c) \/ i2s_out_set_passthrough("grbl")
    PROVE  pc'["task"] = pc["task"]
BY GrblGoes, StepNames DEF i2s_out_delay, i2s_out_set_passthrough, Return, Sleep

LEMMA GrblStream ==
    ASSUME TypeOK, StreamInv, Grbl
    PROVE  StreamInv'
<1>a. ASSUME StartChain \/ AwaitChain, UNCHANGED <<queue, cur>>
      PROVE  StreamInv'
  <2>1. pc'["task"] = pc["task"]
    BY <1>a, GrblGoes, StepNames DEF StartChain, AwaitChain, Sleep
  <2>2. CASE StartChain
    BY <1>a, <2>1, <2>2, RestartStream DEF StartChain, OutOfStep
  <2>3. CASE AwaitChain
    BY <1>a, <2>1, <2>3, StreamStays DEF AwaitChain, dma
  <2> QED
    BY <1>a, <2>2, <2>3
<1>b. ASSUME NEW c, GoIdle(c), UNCHANGED <<dma, queue, cur, astray>>
      PROVE  StreamInv'
  <2>1. pc'["task"] = pc["task"]
    BY <1>b, GrblDelays DEF GoIdle
  <2> QED
    BY <1>b, <2>1, StreamStays DEF GoIdle, i2s_out_set_passthrough, dma
<1>1. CASE I2SStepperWakeUp \/ WakeUpGoesOn
  BY <1>1, <1>a DEF I2SStepperWakeUp, WakeUpGoesOn
<1>2. CASE ClearSignals
  BY <1>2, ResetStream, GrblGoes, StepNames DEF ClearSignals
<1>3. CASE GrblGoIdle \/ I2SReset
  BY <1>3, <1>b DEF GrblGoIdle, I2SReset, ghosts
<1>4. ASSUME NEW stream \in BOOLEAN, SetMode(stream)
      PROVE  StreamInv'
  <2>1. pc'["task"] = pc["task"]
    BY <1>4, GrblDelays DEF SetMode
  <2> QED
    BY <1>4, <2>1, StreamStays DEF SetMode, i2s_out_set_passthrough, dma
<1>5. CASE stepperWakeUp
  BY <1>5, StreamStays DEF stepperWakeUp, dma
<1>6. CASE WriteBit \/ WritePin
  <2>1. pc'["task"] = pc["task"]
    BY <1>6, GrblGoes, StepNames DEF WriteBit, WritePin
  <2> QED
    BY <1>6, <2>1, StreamStays DEF WriteBit, WritePin, dma, ghosts
<1>7. CASE Stopped("grbl", caller) \/ Settled("grbl", caller)
  <2>1. pc'["task"] = pc["task"]
    BY <1>7, GrblDelays DEF Stopped, Settled
  <2> QED
    BY <1>7, <2>1, StreamStays DEF Stopped, Settled, dma, ghosts
<1> QED
  BY <1>1, <1>2, <1>3, <1>4, <1>5, <1>6, <1>7 DEF Grbl

LEMMA StreamInvStep == TypeOK /\ StreamInv /\ [Next]_vars => StreamInv'
<1> SUFFICES ASSUME TypeOK, StreamInv, [Next]_vars
             PROVE  StreamInv'
  OBVIOUS
<1>1. CASE Silence \/ stepperGoIdle \/ UNCHANGED vars
  BY <1>1, StreamStays DEF Silence, stepperGoIdle, vars, dma, ghosts
<1>2. CASE InterruptGoIdle
  <2>1. CASE i2s_out_reset
    BY <1>2, <2>1, ResetStream DEF InterruptGoIdle
  <2>2. CASE UNCHANGED <<status, dma, astray>>
    BY <1>2, <2>2, StreamStays DEF InterruptGoIdle, dma
  <2> QED
    BY <1>2, <2>1, <2>2 DEF InterruptGoIdle
<1> QED
  BY <1>1, <1>2, TickStream, TaskStream, GrblStream DEF Next

LEMMA StreamInit == Init => StreamInv
<1> SUFFICES ASSUME Init
             PROVE  StreamInv
  OBVIOUS
<1>1. LinkInv
  BY RingType DEF Init, LinkInv
<1>2. ArcInv /\ PulseInv
  BY DEF Init, ArcInv, PulseInv, Streams
<1> QED
  BY <1>1, <1>2 DEF StreamInv

\* The DMA never comes back to pulses it has sent, for as long as i2sOutTask has not gone astray and keeps up
\* with the DMA while it does not sleep (i2s_out.c 463-513): sent pulses are in the stretch of the ring that
\* is queued for i2sOutTask, and the DMA is not in it.
THEOREM SpecStepsSentOnce ==
    ASSUME KeepsUp
    PROVE  Spec => []StepsSentOnce
<1>1. TypeOK /\ StreamInv => StepsSentOnce
  <2> SUFFICES ASSUME TypeOK, StreamInv, ~astray, sending # NULL, data[sending] = "sent"
               PROVE  FALSE
    BY DEF StepsSentOnce
  <2>1. sending \in Bufs
    BY DEF TypeOK
  <2>2. status # "PASSTHROUGH" /\ Streams
    BY <2>1 DEF StreamInv, PulseInv, Streams
  <2>3. PICK n \in Nat : n = Len(queue)
    BY QueueType
  <2>4. PICK i \in 1 .. n : queue[i] = sending
    BY <2>1, <2>2, <2>3 DEF StreamInv, PulseInv
  <2>5. n <= N - 1 /\ queue[i] = Behind(sending, n + 1 - i)
    BY <2>2, <2>3 DEF StreamInv, ArcInv
  <2>6. PICK k \in 1 .. n : k = n + 1 - i
    BY <2>4
  <2> QED
    BY <2>1, <2>4, <2>5, <2>6, Numbers DEF Behind
<1>2. TypeOK /\ StreamInv /\ [Next]_vars => StreamInv'
  BY StreamInvStep
<1> QED
  BY <1>1, <1>2, StreamInit, SpecTypeOK, PTL DEF Spec

\* A step that drops pulses.
Loses(b) == ~astray /\ data[b] = "fresh" /\ data'[b] # "fresh"

LEMMA LosesFacts ==
    ASSUME TypeOK, StreamInv, NEW b \in Bufs, Loses(b)
    PROVE  /\ Streams /\ sending # NULL
           /\ sending \in Bufs /\ Len(queue) < N
           /\ \A i \in 1 .. Len(queue) : queue[i] # b /\ next[queue[i]] # NULL
<1>1. Streams /\ sending # NULL
  BY DEF Loses, StreamInv, PulseInv, Streams
<1>2. sending \in Bufs
  BY <1>1 DEF TypeOK
<1> QED
  BY <1>1, <1>2, FreshFacts, QueueType, Numbers DEF Loses

LEMMA PulsesStep ==
    ASSUME TypeOK, StreamInv, [Next]_vars, NEW b \in Bufs, Loses(b)
    PROVE  data'[b] = "sent" \/ ClearSignals \/ InterruptGoIdle
<1>0. data'[b] # data[b]
  BY DEF Loses
<1>1. CASE i2s_out_intr_handler
  <2>1. Len(queue) < N /\ sending \in Bufs
    BY LosesFacts
  <2>2. data' = [data EXCEPT ![sending] = IF @ = "fresh" THEN "sent" ELSE @]
    BY <1>1, <2>1 DEF i2s_out_intr_handler, GivenUp, Transmitted
  <2> QED
    BY <2>1, <2>2 DEF TypeOK, Loses
<1>2. ASSUME NEW d \in Bufs, StartFill(d) \/ CutChain(d)
      PROVE  FALSE
  <2>1. d = queue[1] /\ 1 \in 1 .. Len(queue)
    BY <1>2, TakeFacts, QueueType DEF StartFill, CutChain
  <2>2. b = d
    BY <1>0, <1>2 DEF TypeOK, StartFill, CutChain
  <2> QED
    BY <2>1, <2>2, LosesFacts
<1>3. ASSUME NEW d \in Bufs, TailFound(d)
      PROVE  FALSE
  <2>1. d = queue[1] /\ 1 \in 1 .. Len(queue) /\ next[d] = NULL
    BY <1>3, TakeFacts, QueueType DEF TailFound
  <2> QED
    BY <2>1, LosesFacts
<1>4. ASSUME NEW d \in Bufs, ClearBuffer(d)
      PROVE  FALSE
  BY <1>4, LosesFacts DEF ClearBuffer, Streams
<1>5. CASE I2SStepperPulseStart
  BY <1>5 DEF TypeOK, I2SStepperPulseStart, Loses
<1>6. CASE I2SStepperGoIdle \/ PulseReturns \/ Filled
  BY <1>0, <1>6 DEF I2SStepperGoIdle, PulseReturns, Filled, dma
<1>7. ASSUME NEW a, NEW c, Stopped(a, c) \/ Settled(a, c)
      PROVE  FALSE
  BY <1>0, <1>7 DEF Stopped, Settled, dma
<1>8. CASE I2SStepperWakeUp \/ WakeUpGoesOn
  BY <1>0, <1>8, LosesFacts DEF I2SStepperWakeUp, WakeUpGoesOn, StartChain, AwaitChain, Streams, dma
<1>9. CASE GrblGoIdle \/ I2SReset \/ stepperWakeUp \/ WriteBit \/ WritePin
  BY <1>0, <1>9 DEF GrblGoIdle, I2SReset, stepperWakeUp, WriteBit, WritePin, dma
<1>10. ASSUME NEW stream \in BOOLEAN, SetMode(stream)
       PROVE  FALSE
  BY <1>0, <1>10 DEF SetMode, dma
<1>11. CASE Silence \/ stepperGoIdle \/ UNCHANGED vars
  BY <1>0, <1>11 DEF Silence, stepperGoIdle, vars, dma
<1> QED
  BY <1>1, <1>2, <1>3, <1>4, <1>5, <1>6, <1>7, <1>8, <1>9, <1>10, <1>11 DEF Next, i2sOutTask, Grbl

\* Unless i2sOutTask has gone astray, pulses in a buffer are sent before the buffer is used again and before the
\* chain is given up, however far the task is behind (i2s_out.c 463-513, 641-656): they lie ahead of the DMA and
\* before the end of the chain, and i2sOutTask and a full queue take the buffers behind it.
THEOREM SpecStepsNotLost == Spec => StepsNotLost
<1>1. TypeOK /\ StreamInv /\ [Next]_vars
        => [\A b \in Bufs : ~astray /\ data[b] = "fresh" /\ data'[b] # "fresh"
              => data'[b] = "sent" \/ ClearSignals \/ InterruptGoIdle]_vars
  BY PulsesStep DEF Loses
<1>2. TypeOK /\ StreamInv /\ [Next]_vars => StreamInv'
  BY StreamInvStep
<1> QED
  BY <1>1, <1>2, StreamInit, SpecTypeOK, PTL DEF Spec, StepsNotLost

-----------------------------------------------------------------------------
\* i2sOutTask meets the DMA while there is a chain.
StraysOnlyAsleep ==
    [][~astray /\ astray' /\ status # "PASSTHROUGH"
         => Asleep("task") \/ ClearSignals \/ InterruptGoIdle]_vars

\* The DMA does not come round to the buffer that an awake task is filling.
LEMMA TickKeepsClear ==
    ASSUME KeepsUp, TypeOK, StreamInv, Streams, i2s_out_intr_handler, ~Asleep("task")
    PROVE  astray' = astray
<1>1. SUFFICES ASSUME pc["task"] # "ready", after = cur
               PROVE  FALSE
  BY DEF i2s_out_intr_handler, TypeOK
<1>2. sending \in Bufs /\ sending # NULL /\ cur \in Bufs /\ cur # NULL
  BY Numbers DEF i2s_out_intr_handler, TypeOK
<1>3. PICK n \in Nat : n = Len(queue)
  BY QueueType
<1>4. n + 1 <= MaxBehind
  BY <1>1, <1>3 DEF i2s_out_intr_handler, InTime
<1>5. cur = Behind(sending, n + 1)
  BY <1>1, <1>2, <1>3 DEF StreamInv, ArcInv
<1>6. cur = IF sending + 1 < N THEN sending + 1 ELSE 0
  BY <1>1, <1>2, RingNext DEF StreamInv, LinkInv
<1> QED
  BY <1>2, <1>4, <1>5, <1>6, Numbers DEF Behind, KeepsUp

\* Nor does the task start with the buffer that the DMA is sending.
LEMMA FillKeepsClear ==
    ASSUME KeepsUp, TypeOK, StreamInv, Streams, NEW d \in Bufs, StartFill(d)
    PROVE  astray' = astray
<1>1. sending \in Bufs /\ sending # NULL
  BY Numbers DEF StartFill, StreamInv, LinkInv
<1>2. d = queue[1] /\ 1 \in 1 .. Len(queue)
  BY TakeFacts, QueueType DEF StartFill
<1>3. PICK n \in Nat : n = Len(queue) /\ 1 <= n
  BY <1>2, QueueType
<1>4. n <= N - 1 /\ queue[1] = Behind(sending, n + 1 - 1)
  BY <1>1, <1>2, <1>3 DEF StreamInv, ArcInv
<1>5. d # sending
  BY <1>1, <1>2, <1>3, <1>4, Numbers DEF Behind
<1> QED
  BY <1>5 DEF StartFill, TypeOK

\* As long as there is a chain, the DMA and i2sOutTask meet only while the task sleeps in the middle of a buffer,
\* in I2SStepperGoIdle, or when a reset starts the chain over: that, and nothing about the ring, is why
\* FillsForLaterDma is not true (i2s_out.c 361-362, 463-513, 585).
THEOREM SpecStraysOnlyAsleep ==
    ASSUME KeepsUp
    PROVE  Spec => StraysOnlyAsleep
<1>1. TypeOK /\ StreamInv /\ [Next]_vars
        => [~astray /\ astray' /\ status # "PASSTHROUGH"
              => Asleep("task") \/ ClearSignals \/ InterruptGoIdle]_vars
  <2> SUFFICES ASSUME TypeOK, StreamInv, [Next]_vars, Streams, ~Asleep("task"), ~ClearSignals, ~InterruptGoIdle
               PROVE  astray' = astray
    BY DEF Streams
  <2>1. CASE i2s_out_intr_handler
    BY <2>1, TickKeepsClear
  <2>2. ASSUME NEW d \in Bufs, StartFill(d)
        PROVE  astray' = astray
    BY <2>2, FillKeepsClear
  <2>3. ASSUME NEW d \in Bufs, CutChain(d) \/ TailFound(d) \/ ClearBuffer(d)
        PROVE  astray' = astray
    BY <2>3 DEF CutChain, TailFound, ClearBuffer
  <2>4. CASE I2SStepperPulseStart \/ I2SStepperGoIdle \/ PulseReturns \/ Filled
    BY <2>4 DEF I2SStepperPulseStart, I2SStepperGoIdle, PulseReturns, Filled, ghosts
  <2>5. ASSUME NEW a, NEW c, Stopped(a, c) \/ Settled(a, c)
        PROVE  astray' = astray
    BY <2>5 DEF Stopped, Settled, ghosts
  <2>6. CASE I2SStepperWakeUp \/ WakeUpGoesOn
    BY <2>6 DEF I2SStepperWakeUp, WakeUpGoesOn, StartChain, AwaitChain, Streams
  <2>7. CASE GrblGoIdle \/ I2SReset \/ stepperWakeUp \/ WriteBit \/ WritePin
    BY <2>7 DEF GrblGoIdle, I2SReset, stepperWakeUp, WriteBit, WritePin, ghosts
  <2>8. ASSUME NEW stream \in BOOLEAN, SetMode(stream)
        PROVE  astray' = astray
    BY <2>8 DEF SetMode
  <2>9. CASE Silence \/ stepperGoIdle \/ UNCHANGED vars
    BY <2>9 DEF Silence, stepperGoIdle, vars, ghosts
  <2> QED
    BY <2>1, <2>2, <2>3, <2>4, <2>5, <2>6, <2>7, <2>8, <2>9 DEF Next, i2sOutTask, Grbl
<1>2. TypeOK /\ StreamInv /\ [Next]_vars => StreamInv'
  BY StreamInvStep
<1> QED
  BY <1>1, <1>2, StreamInit, SpecTypeOK, PTL DEF Spec, StraysOnlyAsleep

-----------------------------------------------------------------------------
\* Descriptors whose chain ends there.
Cut == {b \in Bufs : next[b] = NULL}

\* The queue holds the end of the chain, or a buffer that will be the end when it comes up again.
EndsInQueue ==
    \/ \E i \in 1 .. Len(queue) : next[queue[i]] = NULL
    \/ \E i, j \in 1 .. Len(queue) : i # j /\ queue[i] = queue[j]

\* The chain is whole but while it runs out, and the DMA has stopped only when its end is in the queue.
ChainInv ==
    /\ status # "WAITING" \/ Asleep("task") => next = Ring /\ sending \in Bufs /\ after \in Bufs
    /\ sending # NULL /\ after = NULL => next[sending] = NULL
    /\ sending = NULL => EndsInQueue /\ Cut # {}

\* When i2sOutTask wakes up in the middle of a buffer, the queue is full.
SleepInv ==
    /\ pc["task"] \in {"ready", "fill", "pulsed", "stopping", "settling"}
    /\ pc["task"] = "stopping" => Len(queue) = N \/ Len(queue) + left["task"] > N
    /\ pc["task"] \in {"settling", "pulsed"} => Len(queue) = N

\* Buffers that are in the queue or were cut.
Returned == Len(queue) + Cardinality(Cut)

\* Why a chain that runs out has run out when the delays of the one who waits for it are over: the first
\* delay is long enough for every buffer to be cut, and then the next one that comes back is the end.
RunsOut == status = "WAITING" =>
    \/ Asleep("task") \/ pc["task"] = "pulsed"
    \/ EndsInQueue /\ (Cut # {} \/ pc["grbl"] = "stopping")
    \/ pc["grbl"] = "stopping" /\ (Returned >= N \/ Returned + left["grbl"] > N)
    \/ pc["grbl"] = "settling" /\ Cut = Bufs /\ left["grbl"] > 1

\* Out of streaming mode the pulser stays in PASSTHROUGH, and only then the step timer runs.
ModeInv ==
    /\ ~streaming => status = "PASSTHROUGH"
    /\ pc["grbl"] \in {"cleared", "restarting"} => streaming
    /\ direct => ~streaming
    /\ pc["grbl"] \in {"stopping", "settling"} /\ caller = "mode" => status # "STEPPING" /\ ~Asleep("task")

PassInv == ChainInv /\ SleepInv /\ RunsOut /\ ModeInv

LEMMA CutSize ==
    /\ IsFiniteSet(Cut) /\ Cardinality(Cut) \in Nat /\ Cardinality(Cut) <= N
    /\ Cardinality(Cut) = N <=> Cut = Bufs
<1>1. IsFiniteSet(0 .. N - 1) /\ Cardinality(0 .. N - 1) = N
  BY FS_Interval, Numbers
<1>2. Cut \in SUBSET (0 .. N - 1)
  BY DEF Cut, Bufs
<1>3. Bufs = 0 .. N - 1
  BY DEF Bufs
<1> QED
  BY <1>1, <1>2, <1>3, FS_Subset, FS_CardinalityType

\* A full queue holds every buffer, or one of them twice.
LEMMA FullQueue ==
    ASSUME NEW q \in Seq(Bufs), Len(q) = N, NEW b \in Bufs
    PROVE  \/ \E i \in 1 .. Len(q) : q[i] = b
           \/ \E i, j \in 1 .. Len(q) : i # j /\ q[i] = q[j]
<1> SUFFICES ASSUME \A i \in 1 .. Len(q) : q[i] # b
             PROVE  \E i, j \in 1 .. Len(q) : i # j /\ q[i] = q[j]
  OBVIOUS
<1>1. IsFiniteSet(1 .. N) /\ Cardinality(1 .. N) = N
  BY FS_Interval, Numbers
<1>2. IsFiniteSet(0 .. N - 1) /\ Cardinality(0 .. N - 1) = N
  BY FS_Interval, Numbers
<1>3. IsFiniteSet(Bufs \ {b}) /\ Cardinality(Bufs \ {b}) < Cardinality(1 .. N)
  <2>1. IsFiniteSet(Bufs) /\ Cardinality(Bufs) = N
    BY <1>2 DEF Bufs
  <2>2. IsFiniteSet(Bufs \ {b}) /\ Cardinality(Bufs \ {b}) = N - 1
    BY <2>1, FS_RemoveElement
  <2> QED
    BY <1>1, <2>2, Numbers
<1>4. PICK f \in [1 .. N -> Bufs \ {b}] : \A i \in 1 .. N : f[i] = q[i]
  <2>1. [i \in 1 .. N |-> q[i]] \in [1 .. N -> Bufs \ {b}]
    OBVIOUS
  <2> QED
    BY <2>1
<1>5. \E i, j \in 1 .. N : i # j /\ f[i] = f[j]
  BY <1>1, <1>3, FS_PigeonHole
<1> QED
  BY <1>4, <1>5

LEMMA EndsAppend ==
    ASSUME TypeOK, EndsInQueue, NEW d \in Bufs, Len(queue) < N, Enqueue(d), next' = next
    PROVE  EndsInQueue'
<1>1. PICK n \in Nat : n = Len(queue)
  BY QueueType
<1>2. Len(queue') = n + 1 /\ \A i \in 1 .. n : queue'[i] = queue[i]
  BY <1>1, QueueType DEF Enqueue
<1>3. 1 .. n \subseteq 1 .. n + 1
  BY <1>1
<1>4. CASE \E i \in 1 .. n : next[queue[i]] = NULL
  <2>1. \E i \in 1 .. n + 1 : next'[queue'[i]] = NULL
    BY <1>2, <1>3, <1>4
  <2> QED
    BY <1>2, <2>1 DEF EndsInQueue
<1>5. CASE \E i, j \in 1 .. n : i # j /\ queue[i] = queue[j]
  <2>1. \E i, j \in 1 .. n + 1 : i # j /\ queue'[i] = queue'[j]
    BY <1>2, <1>3, <1>5
  <2> QED
    BY <1>2, <2>1 DEF EndsInQueue
<1> QED
  BY <1>1, <1>4, <1>5 DEF EndsInQueue

LEMMA EndsFull ==
    ASSUME TypeOK, Cut # {}, NEW d \in Bufs, Len(queue) = N, Enqueue(d), next' = next
    PROVE  EndsInQueue'
<1>1. PICK q \in Seq(Bufs) : q = queue' /\ Len(q) = N
  BY EnqueueType, EnqueueFacts
<1>2. PICK b \in Bufs : next[b] = NULL
  BY DEF Cut
<1>3. \/ \E i \in 1 .. Len(q) : q[i] = b
      \/ \E i, j \in 1 .. Len(q) : i # j /\ q[i] = q[j]
  BY <1>1, FullQueue
<1> QED
  BY <1>1, <1>2, <1>3 DEF EndsInQueue

LEMMA EndsCut ==
    ASSUME TypeOK, EndsInQueue, NEW d \in Bufs, CutChain(d)
    PROVE  EndsInQueue'
<1>1. PICK n \in Nat : n = Len(queue)
  BY QueueType
<1>2. /\ n > 0 /\ d = queue[1] /\ Len(queue') = n - 1
      /\ \A i \in 1 .. n - 1 : queue'[i] = queue[i + 1]
      /\ next[d] # NULL
  BY <1>1, TakeFacts DEF CutChain
<1>3. \A i \in 1 .. n : i # 1 => i - 1 \in 1 .. n - 1 /\ queue'[i - 1] = queue[i]
  BY <1>2
<1>4. \A b \in Bufs : next[b] = NULL \/ b = d => next'[b] = NULL
  BY DEF TypeOK, CutChain
<1>5. \A i \in 1 .. n : queue[i] \in Bufs
  BY <1>1, QueueType
\* A later entry that is cut, or that is the buffer just cut, is still there.
<1>6. ASSUME NEW i \in 1 .. n, i # 1, next[queue[i]] = NULL \/ queue[i] = d
      PROVE  EndsInQueue'
  <2>1. i - 1 \in 1 .. n - 1 /\ next'[queue'[i - 1]] = NULL
    BY <1>3, <1>4, <1>5, <1>6
  <2> QED
    BY <1>2, <2>1 DEF EndsInQueue
<1>7. ASSUME NEW i \in 1 .. n, NEW j \in 1 .. n, i # j, queue[i] = queue[j], i # 1, j # 1
      PROVE  EndsInQueue'
  <2>1. /\ i - 1 \in 1 .. n - 1 /\ j - 1 \in 1 .. n - 1 /\ i - 1 # j - 1
        /\ queue'[i - 1] = queue'[j - 1]
    BY <1>3, <1>7
  <2> QED
    BY <1>2, <2>1 DEF EndsInQueue
<1>8. CASE \E i \in 1 .. n : next[queue[i]] = NULL
  BY <1>2, <1>6, <1>8
<1>9. CASE \E i, j \in 1 .. n : i # j /\ queue[i] = queue[j]
  <2>1. PICK i \in 1 .. n, j \in 1 .. n : i # j /\ queue[i] = queue[j]
    BY <1>9
  <2>2. CASE i = 1
    BY <1>2, <1>6, <2>1, <2>2
  <2>3. CASE j = 1
    BY <1>2, <1>6, <2>1, <2>3
  <2> QED
    BY <1>7, <2>1, <2>2, <2>3
<1> QED
  BY <1>1, <1>8, <1>9 DEF EndsInQueue

\* More ends only help.
LEMMA EndsMore ==
    ASSUME TypeOK, EndsInQueue, queue' = queue, \A b \in Bufs : next[b] = NULL => next'[b] = NULL
    PROVE  EndsInQueue'
<1>1. CASE \E i \in 1 .. Len(queue) : next[queue[i]] = NULL
  BY <1>1, QueueType DEF EndsInQueue
<1>2. CASE \E i, j \in 1 .. Len(queue) : i # j /\ queue[i] = queue[j]
  BY <1>2 DEF EndsInQueue
<1> QED
  BY <1>1, <1>2 DEF EndsInQueue

\* What the grbl task and interrupts leave to i2sOutTask.
TaskAlone == pc'["task"] = pc["task"] /\ left'["task"] = left["task"] /\ queue' = queue

LEMMA GrblAlone ==
    ASSUME TypeOK, Grbl \/ InterruptGoIdle \/ stepperGoIdle \/ UNCHANGED vars
    PROVE  TaskAlone
<1>a. ASSUME NEW l \in Steps, NEW d \in 0 .. DelayAll, Sleep("grbl", l, d)
      PROVE  pc'["task"] = pc["task"] /\ left'["task"] = left["task"]
  BY <1>a, GrblGoes DEF Sleep, TypeOK, Actors
<1>b. ASSUME NEW c, i2s_out_delay("grbl", c) \/ Return("grbl", c) \/ i2s_out_set_passthrough("grbl")
      PROVE  pc'["task"] = pc["task"] /\ left'["task"] = left["task"]
  BY <1>a, <1>b, GrblDelays, StepNames, Delays DEF i2s_out_delay, i2s_out_set_passthrough, Return
<1>c. ASSUME StartChain \/ AwaitChain
      PROVE  pc'["task"] = pc["task"] /\ left'["task"] = left["task"]
  BY <1>a, <1>c, GrblGoes, StepNames, Delays DEF StartChain, AwaitChain
<1>1. CASE I2SStepperWakeUp \/ WakeUpGoesOn
  BY <1>1, <1>c DEF I2SStepperWakeUp, WakeUpGoesOn, TaskAlone
<1>2. CASE ClearSignals \/ WriteBit \/ WritePin
  BY <1>2, GrblGoes, StepNames DEF ClearSignals, WriteBit, WritePin, TaskAlone
<1>3. CASE GrblGoIdle \/ I2SReset
  BY <1>3, <1>b DEF GrblGoIdle, I2SReset, GoIdle, TaskAlone
<1>4. ASSUME NEW stream \in BOOLEAN, SetMode(stream)
      PROVE  TaskAlone
  BY <1>4, <1>b DEF SetMode, TaskAlone
<1>5. CASE stepperWakeUp \/ InterruptGoIdle \/ stepperGoIdle \/ UNCHANGED vars
  BY <1>5 DEF stepperWakeUp, InterruptGoIdle, stepperGoIdle, vars, TaskAlone
<1>6. CASE Stopped("grbl", caller) \/ Settled("grbl", caller)
  BY <1>6, <1>b DEF Stopped, Settled, TaskAlone
<1> QED
  BY <1>1, <1>2, <1>3, <1>4, <1>5, <1>6 DEF Grbl

\* i2sOutTask in its delays.
LEMMA TaskDelays ==
    ASSUME TypeOK, NEW c, Stopped("task", c) \/ Settled("task", c)
    PROVE  /\ Asleep("task")
           /\ pc'["task"] = "pulsed" \/ (pc["task"] = "stopping" /\ pc'["task"] = "settling")
           /\ pc'["grbl"] = pc["grbl"] /\ left'["grbl"] = left["grbl"]
           /\ UNCHANGED <<status, next, sending, after, queue, caller, direct>>
<1>1. ASSUME Return("task", c)
      PROVE  pc'["task"] = "pulsed" /\ pc'["grbl"] = pc["grbl"] /\ left' = left
  BY <1>1, GotoType, StepNames DEF Return, Actors
<1>2. ASSUME Sleep("task", "settling", DelayAll)
      PROVE  pc'["task"] = "settling" /\ pc'["grbl"] = pc["grbl"] /\ left'["grbl"] = left["grbl"]
  BY <1>2, GotoType, StepNames DEF Sleep, TypeOK, Actors
<1> QED
  BY <1>1, <1>2 DEF Stopped, Settled, i2s_out_delay, Asleep, Sleeps, dma

LEMMA SleepInvStep ==
    ASSUME TypeOK, ChainInv, SleepInv, [Next]_vars
    PROVE  SleepInv'
<1>0. /\ pc \in [Actors -> Steps] /\ left \in [Actors -> 0 .. DelayAll] /\ DelayAll = N + 1
      /\ Len(queue) \in Nat /\ Len(queue) <= N
      /\ left["task"] \in Nat
  BY QueueType, StepNames, Numbers DEF TypeOK, DelayAll
<1>1. CASE i2s_out_intr_handler
  <2>1. sending \in Bufs /\ Enqueue(sending) /\ pc' = pc /\ InTime
    BY <1>1 DEF i2s_out_intr_handler, TypeOK
  <2>2. Len(queue') = IF Len(queue) < N THEN Len(queue) + 1 ELSE N
    BY <2>1, EnqueueFacts
  <2>3. left'["task"] = IF Asleep("task") THEN left["task"] - 1 ELSE left["task"]
    BY <1>1, StepNames DEF i2s_out_intr_handler, TimePasses
  <2>4. pc["task"] = "stopping" => Len(queue') = N \/ Len(queue') + left'["task"] > N
    BY <1>0, <2>2, <2>3, Numbers DEF SleepInv, Asleep, Sleeps
  <2>5. pc["task"] \in {"settling", "pulsed"} => Len(queue') = N
    BY <2>2, Numbers DEF SleepInv
  <2> QED
    BY <2>1, <2>4, <2>5 DEF SleepInv
<1>2. CASE Silence
  <2>1. ~Asleep("task")
    BY <1>2, Numbers DEF Silence, ChainInv
  <2>2. left'["task"] = left["task"] /\ queue' = queue /\ pc' = pc
    BY <1>2, <2>1, StepNames DEF Silence, TimePasses
  <2> QED
    BY <2>2 DEF SleepInv
<1>3. ASSUME NEW d \in Bufs, StartFill(d) \/ CutChain(d) \/ TailFound(d) \/ ClearBuffer(d)
      PROVE  SleepInv'
  <2>1. pc'["task"] \in {"ready", "fill"}
    BY <1>3, GotoType, StepNames DEF StartFill, CutChain, TailFound, ClearBuffer, TakeBuffer
  <2> QED
    BY <2>1 DEF SleepInv
<1>4. CASE I2SStepperPulseStart
  BY <1>4 DEF I2SStepperPulseStart, SleepInv
<1>5. CASE I2SStepperGoIdle
  <2>1. pc'["task"] = "stopping" /\ left'["task"] = DelayAll /\ queue' = queue
    BY <1>0, <1>5, GotoType, StepNames DEF I2SStepperGoIdle, i2s_out_set_passthrough, Sleep
  <2> QED
    BY <1>0, <2>1, Numbers DEF SleepInv
<1>6. CASE PulseReturns \/ Filled
  <2>1. pc'["task"] \in {"ready", "fill"}
    BY <1>6, GotoType, StepNames DEF PulseReturns, Filled
  <2> QED
    BY <2>1 DEF SleepInv
<1>7. CASE Stopped("task", "go_idle") \/ Settled("task", "go_idle")
  <2>1. Len(queue) = N
    BY <1>0, <1>7, Numbers DEF Stopped, Settled, SleepInv
  <2>2. queue' = queue /\ pc'["task"] \in {"pulsed", "settling"}
    BY <1>7, TaskDelays
  <2> QED
    BY <2>1, <2>2 DEF SleepInv
<1>8. CASE Grbl \/ InterruptGoIdle \/ stepperGoIdle \/ UNCHANGED vars
  BY <1>8, GrblAlone DEF TaskAlone, SleepInv
<1> QED
  BY <1>1, <1>2, <1>3, <1>4, <1>5, <1>6, <1>7, <1>8 DEF Next, i2sOutTask

-----------------------------------------------------------------------------
LEMMA RestartChain ==
    ASSUME NEW st, NEW v, Restart(st, v)
    PROVE  ChainInv' /\ status' = st
<1>1. status' = st /\ next' = Ring /\ sending' = 0 /\ after' = Ring[0]
  BY DEF Restart, i2s_clear_o_dma_buffers, i2s_out_start
<1> QED
  BY <1>1, RingType, Numbers DEF ChainInv

LEMMA ResetChain ==
    ASSUME TypeOK, ChainInv, i2s_out_reset
    PROVE  ChainInv' /\ (status' = status \/ status' = "PASSTHROUGH")
<1>1. CASE Restart("STEPPING", "port") \/ Restart("PASSTHROUGH", "zero")
  BY <1>1, RestartChain DEF i2s_out_reset
<1>2. CASE status = "PASSTHROUGH" /\ i2s_out_start(status, next) /\ UNCHANGED <<status, next, data, astray>>
  <2>1. next' = Ring /\ sending' = 0 /\ after' = Ring[0] /\ status' = status
    BY <1>2 DEF i2s_out_start, ChainInv
  <2> QED
    BY <2>1, RingType, Numbers DEF ChainInv
<1> QED
  BY <1>1, <1>2 DEF i2s_out_reset

LEMMA ChainStays ==
    ASSUME TypeOK, ChainInv, UNCHANGED <<next, sending, after, queue>>,
           status' = status \/ (status = "STEPPING" /\ status' = "WAITING"),
           Asleep("task")' => Asleep("task") \/ status = "STEPPING"
    PROVE  ChainInv'
<1>1. (EndsInQueue => EndsInQueue') /\ Cut' = Cut
  BY DEF EndsInQueue, Cut
<1> QED
  BY <1>1 DEF ChainInv

LEMMA ChainInvStep ==
    ASSUME TypeOK, ChainInv, SleepInv, [Next]_vars
    PROVE  ChainInv'
<1>0. status \in Statuses /\ next \in [Bufs -> Bufs \cup {NULL}] /\ pc \in [Actors -> Steps]
  BY DEF TypeOK
<1>1. CASE i2s_out_intr_handler
  <2>1. /\ sending \in Bufs /\ Enqueue(sending) /\ pc' = pc /\ status' = status /\ next' = next
        /\ sending' = after /\ after' = IF after = NULL THEN NULL ELSE next[after]
    BY <1>1 DEF i2s_out_intr_handler, TypeOK
  <2>2. status # "WAITING" \/ Asleep("task") => next = Ring /\ after \in Bufs /\ after' \in Bufs
    BY <2>1, RingType, Numbers DEF ChainInv
  <2>3. sending' # NULL /\ after' = NULL => next'[sending'] = NULL
    BY <2>1
  <2>4. ASSUME sending' = NULL
        PROVE  EndsInQueue' /\ Cut' # {}
    <3>1. next[sending] = NULL
      BY <2>1, <2>4, Numbers DEF ChainInv
    <3>2. PICK n \in Nat : n = Len(queue') /\ n > 0 /\ queue'[n] = sending
      BY <2>1, EnqueueFacts, EnqueueType
    <3>3. n \in 1 .. n
      BY <3>2
    <3> QED
      BY <2>1, <3>1, <3>2, <3>3 DEF EndsInQueue, Cut
  <2>5. Asleep("task")' <=> Asleep("task")
    BY <2>1 DEF Asleep
  <2> QED
    BY <2>1, <2>2, <2>3, <2>4, <2>5 DEF ChainInv
<1>2. CASE Silence \/ I2SStepperPulseStart
  BY <1>2, ChainStays DEF Silence, I2SStepperPulseStart, dma, Asleep
<1>3. ASSUME NEW d \in Bufs, StartFill(d) \/ ClearBuffer(d)
      PROVE  ChainInv'
  <2>1. /\ status # "WAITING" /\ status' = status /\ sending \in Bufs /\ after \in Bufs /\ next = Ring
        /\ UNCHANGED <<next, sending, after>>
    BY <1>3 DEF StartFill, ClearBuffer, ChainInv
  <2> QED
    BY <2>1, Numbers DEF ChainInv
<1>4. ASSUME NEW d \in Bufs, CutChain(d)
      PROVE  ChainInv'
  <2>1. /\ status = "WAITING" /\ UNCHANGED <<status, sending, after, pc>> /\ pc["task"] = "ready"
        /\ \A b \in Bufs : next[b] = NULL => next'[b] = NULL
        /\ sending \in Bufs \cup {NULL}
    BY <1>0, <1>4 DEF CutChain, TakeBuffer, TypeOK
  <2>2. sending = NULL => EndsInQueue' /\ Cut' # {}
    BY <1>4, <2>1, EndsCut DEF ChainInv, Cut
  <2>3. ~Asleep("task")'
    BY <2>1 DEF Asleep, Sleeps
  <2> QED
    BY <2>1, <2>2, <2>3 DEF ChainInv
<1>5. ASSUME NEW d \in Bufs, TailFound(d)
      PROVE  ChainInv'
  BY <1>5, RestartChain DEF TailFound
<1>6. CASE I2SStepperGoIdle
  BY <1>6, ChainStays DEF I2SStepperGoIdle, i2s_out_set_passthrough, dma
<1>7. CASE PulseReturns
  <2>1. /\ UNCHANGED <<status, sending, after, queue>>
        /\ \A b \in Bufs : next[b] = NULL => next'[b] = NULL
        /\ status # "WAITING" => next' = next
        /\ sending \in Bufs \cup {NULL}
    BY <1>0, <1>7 DEF PulseReturns, TypeOK
  <2>2. ~Asleep("task")'
    BY <1>7, GotoType, StepNames DEF PulseReturns, Asleep, Sleeps
  <2>3. sending = NULL => EndsInQueue' /\ Cut' # {}
    BY <2>1, EndsMore DEF ChainInv, Cut
  <2> QED
    BY <2>1, <2>2, <2>3 DEF ChainInv
<1>8. CASE Filled
  <2>1. ~Asleep("task")'
    BY <1>8, GotoType, StepNames DEF Filled, Asleep, Sleeps
  <2> QED
    BY <1>8, <2>1, ChainStays DEF Filled, dma
<1>9. CASE Stopped("task", "go_idle") \/ Settled("task", "go_idle")
  BY <1>9, TaskDelays, ChainStays
<1>10. CASE Grbl \/ InterruptGoIdle \/ stepperGoIdle \/ UNCHANGED vars
  <2>0. TaskAlone /\ (Asleep("task")' <=> Asleep("task"))
    BY <1>10, GrblAlone DEF TaskAlone, Asleep
  <2>1. CASE I2SStepperWakeUp \/ WakeUpGoesOn
    <3>1. CASE StartChain
      BY <3>1, RestartChain DEF StartChain
    <3>2. CASE AwaitChain
      BY <2>0, <3>2, ChainStays DEF AwaitChain, dma, TaskAlone
    <3> QED
      BY <2>1, <3>1, <3>2 DEF I2SStepperWakeUp, WakeUpGoesOn
  <2>2. CASE ClearSignals
    BY <2>2, ResetChain DEF ClearSignals
  <2>3. CASE GrblGoIdle \/ I2SReset
    BY <2>0, <2>3, ChainStays DEF GrblGoIdle, I2SReset, GoIdle, i2s_out_set_passthrough, dma, TaskAlone
  <2>4. ASSUME NEW stream \in BOOLEAN, SetMode(stream)
        PROVE  ChainInv'
    BY <2>0, <2>4, ChainStays DEF SetMode, i2s_out_set_passthrough, dma, TaskAlone
  <2>5. CASE stepperWakeUp \/ WriteBit \/ WritePin \/ stepperGoIdle \/ UNCHANGED vars
    BY <2>0, <2>5, ChainStays DEF stepperWakeUp, WriteBit, WritePin, stepperGoIdle, vars, dma, TaskAlone
  <2>6. CASE Stopped("grbl", caller) \/ Settled("grbl", caller)
    BY <2>0, <2>6, ChainStays DEF Stopped, Settled, dma, TaskAlone
  <2>7. CASE InterruptGoIdle
    BY <2>0, <2>7, ResetChain, ChainStays DEF InterruptGoIdle, dma, TaskAlone
  <2> QED
    BY <1>10, <2>1, <2>2, <2>3, <2>4, <2>5, <2>6, <2>7 DEF Grbl
<1> QED
  BY <1>1, <1>2, <1>3, <1>4, <1>5, <1>6, <1>7, <1>8, <1>9, <1>10 DEF Next, i2sOutTask

-----------------------------------------------------------------------------
\* What the grbl task knows of a chain that runs out, when it goes on and i2sOutTask does not sleep.
LEMMA BlockedOut ==
    ASSUME TypeOK, RunsOut, status = "WAITING", TaskBlocked, ~Asleep("task")
    PROVE  /\ Len(queue) = 0
           /\ \/ pc["grbl"] = "stopping" /\ (Cardinality(Cut) = N \/ Cardinality(Cut) + left["grbl"] > N)
              \/ pc["grbl"] = "settling" /\ left["grbl"] > 1
<1>1. pc["task"] = "ready" /\ Len(queue) = 0
  BY DEF TaskBlocked
<1>2. ~EndsInQueue
  BY <1>1 DEF EndsInQueue
<1>3. Returned = Cardinality(Cut)
  BY <1>1, CutSize DEF Returned
<1>4. Cardinality(Cut) >= N => Cardinality(Cut) = N
  BY CutSize, Numbers
<1> QED
  BY <1>1, <1>2, <1>3, <1>4 DEF RunsOut

LEMMA HasRunOut ==
    ASSUME TypeOK, RunsOut, TaskBlocked, ~Asleep("task"),
           pc["grbl"] \notin {"stopping", "settling"} \/ (pc["grbl"] = "settling" /\ left["grbl"] <= 1)
    PROVE  status # "WAITING"
<1>1. left["grbl"] \in Nat
  BY StepNames, Numbers DEF TypeOK, DelayAll
<1> QED
  BY <1>1, BlockedOut, CutSize, Numbers

LEMMA RunsStays ==
    ASSUME TypeOK, RunsOut, UNCHANGED <<status, next, queue>>,
           pc'["task"] = pc["task"] \/ (pc["task"] = "fill" /\ pc'["task"] = "ready"),
           \/ pc["grbl"] \notin {"stopping", "settling"}
           \/ pc'["grbl"] = pc["grbl"] /\ left'["grbl"] = left["grbl"]
    PROVE  RunsOut'
<1>1. EndsInQueue' = EndsInQueue /\ Cut' = Cut
  BY DEF EndsInQueue, Cut
<1>2. Asleep("task") => Asleep("task")'
  BY DEF Asleep, Sleeps
<1>3. CASE pc["grbl"] \notin {"stopping", "settling"}
  BY <1>1, <1>2, <1>3 DEF RunsOut
<1>4. CASE pc'["grbl"] = pc["grbl"] /\ left'["grbl"] = left["grbl"]
  BY <1>1, <1>2, <1>4 DEF RunsOut, Returned
<1> QED
  BY <1>3, <1>4

\* The grbl task gives the order to run out.
LEMMA RunsStart ==
    ASSUME TypeOK, i2s_out_set_passthrough("grbl"), TaskBlocked, UNCHANGED <<next, queue>>
    PROVE  RunsOut'
<1>1. pc'["grbl"] = "stopping" /\ left'["grbl"] = N + 1 /\ pc'["task"] = pc["task"]
  BY GrblGoes, GotoType, StepNames DEF i2s_out_set_passthrough, Sleep, TypeOK, DelayAll
<1>2. Cut' = Cut /\ Len(queue) \in Nat
  BY QueueType DEF Cut
<1> QED
  BY <1>1, <1>2, CutSize, Numbers DEF RunsOut, Returned

LEMMA RunsSettle ==
    ASSUME TypeOK, RunsOut, TaskBlocked, Stopped("grbl", caller) \/ Settled("grbl", caller)
    PROVE  RunsOut'
<1> SUFFICES ASSUME status = "WAITING"
             PROVE  RunsOut'
  BY DEF Stopped, Settled, RunsOut
<1>0. UNCHANGED <<status, next, queue>> /\ pc'["task"] = pc["task"]
  BY GrblDelays DEF Stopped, Settled, dma
<1>1. CASE Asleep("task")
  BY <1>0, <1>1 DEF RunsOut, Asleep
<1>2. CASE ~Asleep("task")
  <2>1. left["grbl"] \in Nat
    BY StepNames, Numbers DEF TypeOK, DelayAll
  <2>2. pc["grbl"] = "stopping" /\ (Cardinality(Cut) = N \/ Cardinality(Cut) + left["grbl"] > N)
    BY <1>2, <2>1, HasRunOut, BlockedOut DEF Stopped, Settled
  <2>3. Stopped("grbl", caller) /\ Sleep("grbl", "settling", DelayAll)
    BY <2>2 DEF Stopped, Settled, i2s_out_delay
  <2>4. pc'["grbl"] = "settling" /\ left'["grbl"] = N + 1
    BY <2>3, GotoType, StepNames DEF Sleep, TypeOK, DelayAll
  <2>5. Cut = Bufs
    BY <2>1, <2>2, <2>3, CutSize, Numbers DEF Stopped
  <2>6. Cut' = Bufs
    BY <1>0, <2>5 DEF Cut
  <2> QED
    BY <2>4, <2>6, Numbers DEF RunsOut
<1> QED
  BY <1>1, <1>2

LEMMA ResetRuns ==
    ASSUME i2s_out_reset
    PROVE  status' # "WAITING"
BY DEF i2s_out_reset, Restart

LEMMA RunsOutStep ==
    ASSUME TypeOK, ChainInv, SleepInv, RunsOut, [Next]_vars
    PROVE  RunsOut'
<1>0. /\ pc \in [Actors -> Steps] /\ left["grbl"] \in Nat
      /\ Len(queue) \in Nat /\ Len(queue) <= N /\ sending \in Bufs \cup {NULL}
  BY QueueType, StepNames, Numbers DEF TypeOK, DelayAll
<1>1. CASE i2s_out_intr_handler
  <2>1. /\ sending \in Bufs /\ Enqueue(sending) /\ InTime
        /\ UNCHANGED <<pc, status, next>>
    BY <1>0, <1>1 DEF i2s_out_intr_handler
  <2>2. SUFFICES ASSUME status = "WAITING", ~Asleep("task")
                 PROVE  RunsOut'
    BY <2>1 DEF RunsOut, Asleep
  <2>3. Cut' = Cut
    BY <2>1 DEF Cut
  <2>4. Asleep("grbl") => left'["grbl"] = left["grbl"] - 1
    BY <1>1, StepNames DEF i2s_out_intr_handler, TimePasses
  <2>5. pc["grbl"] \in {"stopping", "settling"} => Asleep("grbl")
    BY DEF Asleep, Sleeps
  <2>6. PICK n \in Nat, m \in Nat : n = Len(queue) /\ m = Len(queue')
    BY <1>0, <2>1, EnqueueType
  <2>7. m = (IF n < N THEN n + 1 ELSE N) /\ n <= N
    BY <1>0, <2>1, <2>6, EnqueueFacts
  <2>8. PICK c \in Nat : c = Cardinality(Cut)
    BY CutSize
  <2>9. Returned = n + c /\ Returned' = m + c
    BY <2>3, <2>6, <2>8 DEF Returned
  <2>10. EndsInQueue /\ n < N => EndsInQueue'
    BY <2>1, <2>6, EndsAppend
  <2>11. Cut # {} /\ n = N => EndsInQueue'
    BY <2>1, <2>6, EndsFull
  <2>12. CASE pc["task"] = "pulsed"
    BY <2>1, <2>12 DEF RunsOut
  <2>13. CASE EndsInQueue /\ Cut # {}
    BY <2>1, <2>3, <2>7, <2>10, <2>11, <2>13, Numbers DEF RunsOut
  <2>14. CASE pc["grbl"] = "stopping" /\ EndsInQueue
    <3>1. CASE n < N
      BY <2>1, <2>10, <2>14, <3>1 DEF RunsOut
    <3>2. CASE ~(n < N)
      <4>1. Returned' >= N
        BY <2>7, <2>9, <3>2, Numbers
      <4> QED
        BY <2>1, <2>14, <4>1 DEF RunsOut
    <3> QED
      BY <3>1, <3>2
  <2>15. CASE pc["grbl"] = "stopping" /\ (Returned >= N \/ Returned + left["grbl"] > N)
    <3>1. Returned' >= N \/ Returned' + left'["grbl"] > N
      BY <1>0, <2>4, <2>5, <2>7, <2>9, <2>15, Numbers
    <3> QED
      BY <2>1, <2>15, <3>1 DEF RunsOut
  <2>16. CASE pc["grbl"] = "settling" /\ Cut = Bufs
    <3>1. PICK q \in Seq(Bufs) : q = queue'
      BY <2>1, EnqueueType
    <3>2. Len(q) > 0 /\ q[1] \in Bufs /\ 1 \in 1 .. Len(q)
      BY <2>1, <3>1, EnqueueFacts
    <3>3. \A b \in Bufs : next[b] = NULL
      BY <2>16 DEF Cut
    <3>4. EndsInQueue'
      BY <2>1, <3>1, <3>2, <3>3 DEF EndsInQueue
    <3>5. Cut' # {}
      BY <2>3, <2>16, RingType
    <3> QED
      BY <3>4, <3>5 DEF RunsOut
  <2> QED
    BY <2>2, <2>12, <2>13, <2>14, <2>15, <2>16 DEF RunsOut
<1>2. CASE Silence
  <2>1. EndsInQueue /\ Cut # {} /\ UNCHANGED <<queue, next>>
    BY <1>2 DEF Silence, ChainInv, dma
  <2> QED
    BY <2>1 DEF RunsOut, EndsInQueue, Cut
<1>3. ASSUME NEW d \in Bufs, StartFill(d) \/ ClearBuffer(d) \/ TailFound(d)
      PROVE  RunsOut'
  BY <1>3 DEF StartFill, ClearBuffer, TailFound, Restart, RunsOut
<1>4. ASSUME NEW d \in Bufs, CutChain(d)
      PROVE  RunsOut'
  <2>1. /\ status = "WAITING" /\ pc["task"] = "ready" /\ UNCHANGED <<pc, left, status>>
        /\ TakeBuffer(d) /\ next[d] # NULL
    BY <1>4 DEF CutChain, TakeBuffer
  <2>2. Len(queue') = Len(queue) - 1
    BY <2>1, TakeFacts
  <2>3. Cut' = Cut \cup {d} /\ d \notin Cut
    BY <1>4, <2>1 DEF Cut, CutChain, TypeOK
  <2>4. Cardinality(Cut') = Cardinality(Cut) + 1
    BY <2>3, CutSize, FS_AddElement
  <2>5. EndsInQueue => EndsInQueue'
    BY <1>4, EndsCut
  <2>6. Returned' = Returned
    <3>1. PICK c \in Nat : c = Cardinality(Cut)
      BY CutSize
    <3>2. Returned = Len(queue) + c /\ Returned' = (Len(queue) - 1) + (c + 1)
      BY <2>2, <2>4, <3>1 DEF Returned
    <3> QED
      BY <1>0, <3>1, <3>2
  <2>7. ~Asleep("task")
    BY <2>1 DEF Asleep, Sleeps
  <2>8. Cut' # {} /\ Cut # Bufs
    BY <2>3
  <2> QED
    BY <2>1, <2>5, <2>6, <2>7, <2>8 DEF RunsOut
<1>5. CASE I2SStepperPulseStart
  BY <1>5 DEF I2SStepperPulseStart, RunsOut
<1>6. CASE I2SStepperGoIdle
  <2>1. Asleep("task")'
    BY <1>6, GotoType, StepNames DEF I2SStepperGoIdle, i2s_out_set_passthrough, Sleep, Asleep, Sleeps
  <2> QED
    BY <2>1 DEF RunsOut
<1>7. CASE PulseReturns
  <2>1. CASE status = "WAITING"
    <3>1. Len(queue) = N /\ cur \in Bufs /\ queue' = queue
      BY <1>7 DEF PulseReturns, SleepInv, TypeOK
    <3>2. next'[cur] = NULL
      BY <1>7, <2>1 DEF PulseReturns, TypeOK
    <3>3. EndsInQueue'
      <4>1. \/ \E i \in 1 .. Len(queue) : queue[i] = cur
            \/ \E i, j \in 1 .. Len(queue) : i # j /\ queue[i] = queue[j]
        BY <3>1, FullQueue, QueueType
      <4> QED
        BY <3>1, <3>2, <4>1 DEF EndsInQueue
    <3>4. Cut' # {}
      BY <3>1, <3>2 DEF Cut
    <3> QED
      BY <3>3, <3>4 DEF RunsOut
  <2>2. CASE status # "WAITING"
    BY <1>7, <2>2 DEF PulseReturns, RunsOut
  <2> QED
    BY <2>1, <2>2
<1>8. CASE Filled
  <2>1. pc["task"] = "fill" /\ pc'["task"] = "ready" /\ pc'["grbl"] = pc["grbl"]
    BY <1>8, GotoType, StepNames DEF Filled, Actors
  <2> QED
    BY <1>8, <2>1, RunsStays DEF Filled, dma
<1>9. CASE Stopped("task", "go_idle") \/ Settled("task", "go_idle")
  <2>1. pc'["task"] = "pulsed" \/ Asleep("task")'
    BY <1>9, TaskDelays DEF Asleep, Sleeps
  <2> QED
    BY <2>1 DEF RunsOut
<1>10. CASE Grbl \/ InterruptGoIdle \/ stepperGoIdle \/ UNCHANGED vars
  <2>0. TaskAlone
    BY <1>10, GrblAlone
  <2>1. CASE I2SStepperWakeUp \/ WakeUpGoesOn
    <3>1. CASE StartChain
      BY <3>1 DEF StartChain, Restart, RunsOut
    <3>2. CASE AwaitChain
      BY <2>0, <2>1, <3>2, RunsStays DEF I2SStepperWakeUp, WakeUpGoesOn, AwaitChain, dma, TaskAlone
    <3> QED
      BY <2>1, <3>1, <3>2 DEF I2SStepperWakeUp, WakeUpGoesOn
  <2>2. CASE ClearSignals
    BY <2>2, ResetRuns DEF ClearSignals, RunsOut
  <2>3. CASE GrblGoIdle \/ I2SReset
    <3>1. CASE i2s_out_set_passthrough("grbl")
      BY <2>3, <3>1, RunsStart DEF GrblGoIdle, I2SReset, dma
    <3>2. CASE UNCHANGED status
      BY <2>0, <2>3, <3>2, RunsStays DEF GrblGoIdle, I2SReset, dma, TaskAlone
    <3> QED
      BY <2>3, <3>1, <3>2 DEF GrblGoIdle, I2SReset, GoIdle
  <2>4. ASSUME NEW stream \in BOOLEAN, SetMode(stream)
        PROVE  RunsOut'
    <3>1. CASE i2s_out_set_passthrough("grbl")
      BY <2>4, <3>1, RunsStart DEF SetMode, dma
    <3>2. CASE UNCHANGED status
      BY <2>0, <2>4, <3>2, RunsStays DEF SetMode, dma, TaskAlone
    <3> QED
      BY <2>4, <3>1, <3>2 DEF SetMode
  <2>5. CASE stepperWakeUp \/ WriteBit \/ WritePin \/ stepperGoIdle \/ UNCHANGED vars
    BY <2>0, <2>5, RunsStays DEF stepperWakeUp, WriteBit, WritePin, stepperGoIdle, vars, dma, TaskAlone
  <2>6. CASE TaskBlocked /\ (Stopped("grbl", caller) \/ Settled("grbl", caller))
    BY <2>6, RunsSettle
  <2>7. CASE InterruptGoIdle
    <3>1. CASE i2s_out_reset
      BY <3>1, ResetRuns DEF RunsOut
    <3>2. CASE UNCHANGED <<status, dma, astray>>
      BY <2>7, <3>2, RunsStays DEF InterruptGoIdle, dma
    <3> QED
      BY <2>7, <3>1, <3>2 DEF InterruptGoIdle
  <2> QED
    BY <1>10, <2>1, <2>2, <2>3, <2>4, <2>5, <2>6, <2>7 DEF Grbl
<1> QED
  BY <1>1, <1>2, <1>3, <1>4, <1>5, <1>6, <1>7, <1>8, <1>9, <1>10 DEF Next, i2sOutTask

-----------------------------------------------------------------------------
LEMMA ModeStays ==
    ASSUME ModeInv, UNCHANGED <<streaming, direct, caller>>,
           pc'["grbl"] = pc["grbl"], Asleep("task")' => Asleep("task"),
           status' = status \/ status' = "PASSTHROUGH"
    PROVE  ModeInv'
BY DEF ModeInv

\* i2sOutTask, which never leaves streaming mode.
LEMMA TaskMode ==
    ASSUME TypeOK, SleepInv, ModeInv, i2sOutTask
    PROVE  ModeInv'
<1>1. ASSUME NEW d \in Bufs, StartFill(d) \/ CutChain(d) \/ TailFound(d) \/ ClearBuffer(d)
      PROVE  ModeInv'
  <2>1. pc'["grbl"] = pc["grbl"] /\ pc'["task"] \in {"ready", "fill"}
    BY <1>1, GotoType, StepNames DEF StartFill, CutChain, TailFound, ClearBuffer, TakeBuffer, Actors
  <2>2. status' = status \/ status' = "PASSTHROUGH"
    BY <1>1 DEF StartFill, CutChain, TailFound, ClearBuffer, Restart
  <2>3. UNCHANGED <<streaming, direct, caller>>
    BY <1>1 DEF StartFill, CutChain, TailFound, ClearBuffer, TakeBuffer
  <2>4. ~Asleep("task")'
    BY <2>1 DEF Asleep, Sleeps
  <2> QED
    BY <2>1, <2>2, <2>3, <2>4, ModeStays
<1>2. CASE I2SStepperPulseStart
  BY <1>2, ModeStays DEF I2SStepperPulseStart, Asleep
<1>3. CASE I2SStepperGoIdle
  <2>1. /\ status = "STEPPING" /\ status' = "WAITING" /\ streaming /\ UNCHANGED <<streaming, direct, caller>>
        /\ pc'["grbl"] = pc["grbl"]
    BY <1>3, GotoType, StepNames DEF I2SStepperGoIdle, i2s_out_set_passthrough, Sleep, Actors
  <2> QED
    BY <2>1 DEF ModeInv
<1>4. CASE PulseReturns \/ Filled
  <2>1. pc'["grbl"] = pc["grbl"] /\ pc'["task"] \in {"ready", "fill"}
    BY <1>4, GotoType, StepNames DEF PulseReturns, Filled, Actors
  <2>2. ~Asleep("task")'
    BY <2>1 DEF Asleep, Sleeps
  <2> QED
    BY <1>4, <2>1, <2>2, ModeStays DEF PulseReturns, Filled
<1>5. CASE Stopped("task", "go_idle") \/ Settled("task", "go_idle")
  <2>1. /\ Asleep("task") /\ pc'["grbl"] = pc["grbl"]
        /\ UNCHANGED <<status, caller, direct>>
    BY <1>5, TaskDelays
  <2>2. streaming' = streaming
    BY <1>5 DEF Stopped, Settled, i2s_out_delay, Return, TypeOK
  <2> QED
    BY <2>1, <2>2 DEF ModeInv
<1> QED
  BY <1>1, <1>2, <1>3, <1>4, <1>5 DEF i2sOutTask

\* The grbl task at the end of its delays.
LEMMA SettledMode ==
    ASSUME TypeOK, RunsOut, ModeInv, TaskBlocked, Stopped("grbl", caller) \/ Settled("grbl", caller)
    PROVE  ModeInv'
<1>0. /\ UNCHANGED <<status, direct, caller>> /\ pc'["task"] = pc["task"]
      /\ pc["grbl"] \in {"stopping", "settling"}
      /\ streaming \in BOOLEAN
  BY GrblDelays DEF Stopped, Settled, TypeOK
<1>1. CASE Return("grbl", caller)
  <2>1. pc'["grbl"] = "ready" /\ streaming' = (streaming /\ caller # "mode")
    BY <1>1, GotoType, StepNames DEF Return
  <2>2. ASSUME caller = "mode"
        PROVE  status = "PASSTHROUGH"
    <3>1. status # "STEPPING" /\ ~Asleep("task")
      BY <1>0, <2>2 DEF ModeInv
    <3>2. CASE Stopped("grbl", caller)
      BY <2>1, <3>2, GotoType, StepNames DEF Stopped, i2s_out_delay, Sleep
    <3>3. CASE Settled("grbl", caller)
      BY <3>1, <3>3, HasRunOut DEF Settled, TypeOK, Statuses
    <3> QED
      BY <3>2, <3>3
  <2> QED
    BY <1>0, <2>1, <2>2 DEF ModeInv
<1>2. CASE Sleep("grbl", "settling", DelayAll) /\ UNCHANGED streaming
  <2>1. pc'["grbl"] = "settling"
    BY <1>2, GotoType, StepNames DEF Sleep
  <2>2. Asleep("task")' <=> Asleep("task")
    BY <1>0 DEF Asleep
  <2> QED
    BY <1>0, <1>2, <2>1, <2>2 DEF ModeInv
<1> QED
  BY <1>1, <1>2 DEF Stopped, Settled, i2s_out_delay

\* The grbl task goes idle, or resets.
LEMMA IdleMode ==
    ASSUME TypeOK, ModeInv, NEW c \in {"go_idle", "reset"}, GoIdle(c), UNCHANGED direct
    PROVE  ModeInv'
<1>1. pc'["grbl"] \in {"stopping", "settling", "ready"}
  BY GotoType, StepNames DEF GoIdle, i2s_out_set_passthrough, i2s_out_delay, Return, Sleep
<1>2. caller' = c /\ (streaming' <=> streaming)
  <2>1. c # "mode" /\ streaming \in BOOLEAN
    BY DEF TypeOK
  <2>2. CASE Return("grbl", c)
    <3>1. streaming' = (streaming /\ c # "mode")
      BY <2>2 DEF Return
    <3> QED
      BY <2>1, <3>1 DEF GoIdle
  <2>3. CASE UNCHANGED streaming
    BY <2>3 DEF GoIdle
  <2> QED
    BY <2>2, <2>3 DEF GoIdle, i2s_out_delay
<1>3. status' = status \/ status = "STEPPING"
  BY DEF GoIdle, i2s_out_set_passthrough
<1> QED
  BY <1>1, <1>2, <1>3 DEF ModeInv

LEMMA ModeInvStep ==
    ASSUME TypeOK, ChainInv, SleepInv, RunsOut, ModeInv, [Next]_vars
    PROVE  ModeInv'
<1>0. streaming \in BOOLEAN /\ direct \in BOOLEAN /\ status \in Statuses
  BY DEF TypeOK
<1>1. CASE i2s_out_intr_handler \/ Silence
  BY <1>1, ModeStays DEF i2s_out_intr_handler, Silence, Asleep
<1>2. CASE I2SStepperWakeUp \/ WakeUpGoesOn
  <2>1. streaming /\ UNCHANGED <<streaming, direct, caller>>
    BY <1>2 DEF I2SStepperWakeUp, WakeUpGoesOn, ModeInv
  <2>2. pc'["grbl"] \in {"ready", "restarting"}
    BY <1>2, GotoType, StepNames DEF I2SStepperWakeUp, WakeUpGoesOn, StartChain, AwaitChain, Sleep
  <2> QED
    BY <2>1, <2>2 DEF ModeInv
<1>3. CASE ClearSignals
  <2>1. pc'["grbl"] = "cleared" /\ streaming /\ UNCHANGED <<streaming, direct, caller>>
    BY <1>3, GotoType, StepNames DEF ClearSignals
  <2> QED
    BY <2>1 DEF ModeInv
<1>4. CASE GrblGoIdle \/ I2SReset
  BY <1>4, IdleMode DEF GrblGoIdle, I2SReset
<1>5. ASSUME NEW stream \in BOOLEAN, SetMode(stream)
      PROVE  ModeInv'
  <2>0. TaskBlocked /\ pc["grbl"] = "ready" /\ ~Asleep("task") /\ ~direct' /\ stream # streaming
    BY <1>5 DEF SetMode
  <2>1. CASE ~stream /\ i2s_out_set_passthrough("grbl") /\ UNCHANGED streaming
    <3>1. pc'["grbl"] = "stopping" /\ pc'["task"] = pc["task"] /\ status' = "WAITING"
      BY <2>1, GotoType, GrblDelays, StepNames DEF i2s_out_set_passthrough, Sleep
    <3>2. ~Asleep("task")' /\ streaming'
      BY <1>0, <2>0, <2>1, <3>1 DEF Asleep
    <3> QED
      BY <2>0, <3>1, <3>2 DEF ModeInv
  <2>2. CASE (stream \/ status # "STEPPING") /\ streaming' = stream /\ UNCHANGED <<status, pc, left>>
    <3>1. ~stream => status = "PASSTHROUGH"
      BY <1>0, <2>0, <2>2, HasRunOut DEF Statuses
    <3> QED
      BY <2>0, <2>2, <3>1 DEF ModeInv
  <2> QED
    BY <1>5, <2>1, <2>2 DEF SetMode
<1>6. CASE stepperWakeUp
  BY <1>6 DEF stepperWakeUp, ModeInv, Asleep
<1>7. CASE stepperGoIdle
  BY <1>7 DEF stepperGoIdle, ModeInv, Asleep
<1>8. CASE WriteBit \/ WritePin
  <2>1. pc'["grbl"] \in {"ready", "write"} /\ UNCHANGED <<status, streaming, direct, caller>>
    BY <1>8, GotoType, StepNames DEF WriteBit, WritePin
  <2> QED
    BY <2>1 DEF ModeInv
<1>9. CASE TaskBlocked /\ (Stopped("grbl", caller) \/ Settled("grbl", caller))
  BY <1>9, SettledMode
<1>10. CASE InterruptGoIdle
  BY <1>10, ResetChain, ModeStays DEF InterruptGoIdle, Asleep
<1>11. CASE UNCHANGED vars
  BY <1>11, ModeStays DEF vars, Asleep
<1> QED
  BY <1>1, <1>2, <1>3, <1>4, <1>5, <1>6, <1>7, <1>8, <1>9, <1>10, <1>11, TaskMode DEF Next, Grbl

LEMMA PassInit == Init => PassInv
<1> SUFFICES ASSUME Init
             PROVE  PassInv
  OBVIOUS
<1>1. ChainInv
  BY RingType, Numbers DEF Init, ChainInv
<1>2. SleepInv /\ RunsOut /\ ModeInv
  BY StepNames DEF Init, SleepInv, RunsOut, ModeInv
<1> QED
  BY <1>1, <1>2 DEF PassInv

\* When the step timer writes the pins itself the pulser is in PASSTHROUGH (driver.c 1755-1783, 1802-1804),
\* whatever motions, resets and interrupts came before.  i2s_set_streaming_mode only waits, for two times the
\* length of the ring: in the first, every buffer comes back and is cut from the chain; in the second, a buffer
\* comes back that was cut, which ends the chain.
THEOREM SpecDirectInPassthrough == Spec => []DirectInPassthrough
<1>1. PassInv => DirectInPassthrough
  BY DEF PassInv, ModeInv, DirectInPassthrough
<1>2. TypeOK /\ PassInv /\ [Next]_vars => PassInv'
  BY ChainInvStep, SleepInvStep, RunsOutStep, ModeInvStep DEF PassInv
<1> QED
  BY <1>1, <1>2, PassInit, SpecTypeOK, PTL DEF Spec
=============================================================================
