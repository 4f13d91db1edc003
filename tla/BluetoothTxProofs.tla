-------------------------- MODULE BluetoothTxProofs --------------------------
(***************************************************************************)
(* Proofs about BluetoothTx: what holds for every size of the queue and of  *)
(* the buffers and for every number of connections.                         *)
(***************************************************************************)
EXTENDS BluetoothTx, SequenceTheorems, FiniteSetTheorems, TLAPS

\* What pollTX and the callback know about the semaphore and the write.
BusyInv ==
    /\ tx_busy \in {0, 1}
    /\ OneWriteAtATime

\* The links of the session and of the attempt that its flag is about.
LinkInv ==
    /\ opened \in Nat
    /\ \A h \in links : h \in 1 .. opened
    /\ dtr = TRUE \/ (dtr = FALSE /\ connection = NoLink)
    /\ dtr => links # {}
    /\ is_second_attempt =>
          dtr /\ \E h1, h2 \in links : h1 # h2

-----------------------------------------------------------------------------
LEMMA LinkInit == Init => LinkInv
BY DEF Init, LinkInv, NoLink

\* A new connection is none of the open ones.
LEMMA LinkOpens ==
    ASSUME LinkInv, opened' = opened + 1, links' = links \cup {opened'}
    PROVE  /\ opened' \in Nat
           /\ \A h \in links' : h \in 1 .. opened'
           /\ opened' \in links' /\ opened' \notin links
BY DEF LinkInv

LEMMA LinkOpen ==
    ASSUME LinkInv, OpenSession \/ SecondAttempt
    PROVE  LinkInv'
<1>1. CASE OpenSession
  <2>1. /\ opened' = opened + 1 /\ links' = links \cup {opened'}
        /\ dtr' = TRUE /\ is_second_attempt' = is_second_attempt /\ dtr = FALSE
    BY <1>1 DEF OpenSession, LinkInv
  <2>2. ~ is_second_attempt
    BY <2>1 DEF LinkInv
  <2> QED
    BY <2>1, <2>2, LinkOpens DEF LinkInv
<1>2. CASE SecondAttempt
  <2>1. /\ opened' = opened + 1 /\ links' = links \cup {opened'}
        /\ dtr /\ dtr' = dtr /\ is_second_attempt' = TRUE
    BY <1>2 DEF SecondAttempt
  <2>2. dtr' = TRUE /\ links # {}
    BY <2>1 DEF LinkInv
  <2>3. PICK h \in links : TRUE
    BY <2>2
  <2>4. h \in links' /\ opened' \in links' /\ h # opened'
    BY <2>1, <2>3, LinkOpens
  <2> QED
    BY <2>1, <2>2, <2>4, LinkOpens DEF LinkInv
<1> QED
  BY <1>1, <1>2

LEMMA LinkClose ==
    ASSUME LinkInv, CloseIgnored \/ CloseSession
    PROVE  LinkInv'
<1>1. PICK h \in links : links' = links \ {h} /\ opened' = opened
  BY DEF CloseIgnored, CloseSession, LinkCloses
<1>2. opened' \in Nat /\ \A k \in links' : k \in 1 .. opened'
  BY <1>1 DEF LinkInv
<1>3. CASE CloseIgnored
  <2>1. /\ is_second_attempt /\ is_second_attempt' = FALSE
        /\ dtr' = dtr /\ connection' = connection
    BY <1>3 DEF CloseIgnored
  <2>2. PICK h1 \in links : \E h2 \in links : h1 # h2
    BY <2>1 DEF LinkInv
  <2>3. PICK h2 \in links : h1 # h2
    BY <2>2
  <2>4. links' # {}
    BY <1>1, <2>3
  <2> QED
    BY <1>2, <2>1, <2>4 DEF LinkInv
<1>4. CASE CloseSession
  <2>1. /\ ~ is_second_attempt /\ is_second_attempt' = is_second_attempt
        /\ dtr' = FALSE /\ connection' = NoLink
    BY <1>4 DEF CloseSession
  <2> QED
    BY <1>2, <2>1 DEF LinkInv
<1> QED
  BY <1>3, <1>4

\* Nothing else touches the connections or the session.
LEMMA LinkKept ==
    ASSUME LinkInv,
           UNCHANGED <<links, opened, connection, dtr, is_second_attempt>>
    PROVE  LinkInv'
BY DEF LinkInv

LEMMA LinkUnchanged ==
    ASSUME \/ WriterMakes \/ WriterQueues \/ pollTX \/ CallbackGoesOn
           \/ Congestion \/ WriteDone \/ UNCHANGED vars
    PROVE  UNCHANGED <<links, opened, connection, dtr, is_second_attempt>>
<1>1. CASE WriterMakes
  BY <1>1 DEF WriterMakes, MakeChunk, external, session
<1>2. CASE WriterQueues
  BY <1>2 DEF WriterQueues, QueueChunk, external, session
<1>3. CASE pollTX
  BY <1>3 DEF pollTX, PollCheck, PollTake, PollReceive, PollGather, PollFull,
              PollWrite, PollWritesNothing, PollWait, PollSuspend, notPoller,
              session
<1>4. CASE CallbackGoesOn
  BY <1>4 DEF CallbackGoesOn, ResumePoller, Greet, GreetQueued, MakeChunk,
              QueueChunk, FlushOne, FlushEnd, external, session
<1>5. CASE Congestion
  BY <1>5 DEF Congestion, external, session
<1>6. CASE WriteDone
  BY <1>6 DEF WriteDone, session
<1>7. CASE UNCHANGED vars
  BY <1>7 DEF vars
<1> QED
  BY <1>1, <1>2, <1>3, <1>4, <1>5, <1>6, <1>7

LEMMA LinkStep == LinkInv /\ [Next]_vars => LinkInv'
<1> SUFFICES ASSUME LinkInv, [Next]_vars PROVE LinkInv'
  OBVIOUS
<1>1. CASE OpenSession \/ SecondAttempt
  BY <1>1, LinkOpen
<1>2. CASE CloseIgnored \/ CloseSession
  BY <1>2, LinkClose
<1>3. CASE \/ WriterMakes \/ WriterQueues \/ pollTX \/ CallbackGoesOn
           \/ Congestion \/ WriteDone \/ UNCHANGED vars
  BY <1>3, LinkUnchanged, LinkKept
<1> QED
  BY <1>1, <1>2, <1>3 DEF Next, Event

\* However many connections are opened and closed, in whatever order, the
\* session ends with the last of them: esp_spp_cb ignores a closing only while
\* a second attempt is under way, and then two connections are open.
THEOREM SpecSessionEnds == Spec => []SessionEnds
<1>1. LinkInv => SessionEnds
  BY DEF LinkInv, SessionEnds
<1> QED
  BY <1>1, LinkInit, LinkStep, PTL DEF Spec

-----------------------------------------------------------------------------
LEMMA BusyInit == Init => BusyInv
BY DEF Init, BusyInv, OneWriteAtATime, NoLink

LEMMA BusyPoll ==
    ASSUME BusyInv, pollTX
    PROVE  BusyInv'
<1>1. CASE PollCheck
  BY <1>1 DEF PollCheck, Polls, locals, notPoller, BusyInv, OneWriteAtATime
<1>2. CASE PollTake
  BY <1>2 DEF PollTake, Polls, BusyInv, OneWriteAtATime
<1>3. CASE PollReceive
  BY <1>3 DEF PollReceive, Polls, BusyInv, OneWriteAtATime
<1>4. CASE PollGather
  BY <1>4 DEF PollGather, Polls, BusyInv, OneWriteAtATime
<1>5. CASE PollFull
  BY <1>5 DEF PollFull, Polls, BusyInv, OneWriteAtATime
<1>6. CASE PollWrite
  BY <1>6 DEF PollWrite, Polls, BusyInv, OneWriteAtATime
<1>7. CASE PollWritesNothing
  BY <1>7 DEF PollWritesNothing, Polls, BusyInv, OneWriteAtATime
<1>8. CASE PollWait \/ PollSuspend
  BY <1>8 DEF PollWait, PollSuspend, Polls, BusyInv, OneWriteAtATime
<1> QED
  BY <1>1, <1>2, <1>3, <1>4, <1>5, <1>6, <1>7, <1>8 DEF pollTX

\* Closing a connection, and the report of a write, can only free the stack.
LEMMA BusyEvent ==
    ASSUME BusyInv, Event \/ WriteDone
    PROVE  BusyInv'
<1>1. CASE OpenSession \/ SecondAttempt
  BY <1>1 DEF OpenSession, SecondAttempt, poller, BusyInv, OneWriteAtATime
<1>2. CASE CloseIgnored \/ CloseSession
  <2>1. /\ UNCHANGED <<poll, tx_busy>>
        /\ air' = air \/ air' = NoLink
    BY <1>2 DEF CloseIgnored, CloseSession, LinkCloses, poller
  <2> QED
    BY <2>1 DEF BusyInv, OneWriteAtATime
<1>3. CASE Congestion
  BY <1>3 DEF Congestion, external, poller, BusyInv, OneWriteAtATime
<1>4. CASE WriteDone
  BY <1>4 DEF WriteDone, poller, BusyInv, OneWriteAtATime
<1> QED
  BY <1>1, <1>2, <1>3, <1>4 DEF Event

LEMMA BusyCallback ==
    ASSUME BusyInv,
           WriterMakes \/ WriterQueues \/ CallbackGoesOn \/ UNCHANGED vars
    PROVE  BusyInv'
<1>1. /\ UNCHANGED <<air, tx_busy>>
      /\ poll' = poll \/ (poll = "suspended" /\ poll' = "check")
  BY DEF WriterMakes, WriterQueues, CallbackGoesOn, ResumePoller, Greet,
         GreetQueued, MakeChunk, QueueChunk, FlushOne, FlushEnd, external, poller,
         vars
<1> QED
  BY <1>1 DEF BusyInv, OneWriteAtATime

\* The stack never holds two writes of pollTX, and pollTX fills its buffer only
\* while it holds none, whatever the callback does meanwhile.
THEOREM SpecOneWriteAtATime == Spec => []OneWriteAtATime
<1>1. BusyInv /\ [Next]_vars => BusyInv'
  BY BusyPoll, BusyEvent, BusyCallback DEF Next
<1>2. BusyInv => OneWriteAtATime
  BY DEF BusyInv
<1> QED
  BY <1>1, <1>2, BusyInit, PTL DEF Spec

-----------------------------------------------------------------------------
(* Where chunks go.  Every step is one of these.                            *)

Made ==
    \E w \in Writers, len \in 0 .. BT_TX_BUFFER_SIZE :
        /\ inHand[w] = NoChunk
        /\ chunks' = Append(chunks, [length |-> len, by |-> w, age |-> flushes])
        /\ inHand' = [inHand EXCEPT ![w] = Len(chunks) + 1]
        /\ UNCHANGED <<tx_queue, chunk, buffer, remaining, freed, sent, flushes, spared>>

Queued ==
    \E w \in Writers :
        /\ inHand[w] # NoChunk /\ Len(tx_queue) < BT_TX_QUEUE_ENTRIES
        /\ tx_queue' = Append(tx_queue, inHand[w])
        /\ inHand' = [inHand EXCEPT ![w] = NoChunk]
        /\ UNCHANGED <<chunks, chunk, buffer, remaining, freed, sent, flushes, spared>>

Flushed ==
    /\ tx_queue # << >>
    /\ tx_queue' = Tail(tx_queue)
    /\ freed' = freed \cup {Head(tx_queue)}
    /\ UNCHANGED <<chunks, inHand, chunk, buffer, remaining, sent, flushes, spared>>

FlushedAll ==
    /\ tx_queue = << >>
    /\ flushes' = flushes + 1
    /\ spared' = spared \cup InHands
    /\ UNCHANGED <<chunks, inHand, tx_queue, chunk, buffer, remaining, freed, sent>>

Received ==
    /\ chunk = NoChunk
    /\ ReceiveChunk
    /\ UNCHANGED <<chunks, inHand, buffer, remaining, freed, sent, flushes, spared>>

Gathered ==
    /\ Fits
    /\ buffer' = Append(buffer, chunk)
    /\ remaining' = remaining - chunks[chunk].length
    /\ freed' = freed \cup {chunk}
    /\ ReceiveChunk
    /\ UNCHANGED <<chunks, inHand, sent, flushes, spared>>

Written ==
    /\ sent' = sent \o buffer \/ UNCHANGED sent
    /\ buffer' = << >> /\ remaining' = BufferSize
    /\ UNCHANGED <<chunks, inHand, tx_queue, chunk, freed, flushes, spared>>

Aside ==
    UNCHANGED <<chunks, inHand, tx_queue, chunk, buffer, remaining, freed, sent, flushes, spared>>

LEMMA ChunksMove ==
    ASSUME [Next]_vars
    PROVE  \/ Made \/ Queued \/ Flushed \/ FlushedAll \/ Received \/ Gathered \/ Written \/ Aside
<1>1. ASSUME WriterMakes \/ Greet
      PROVE  Made \/ Aside
  <2>1. ASSUME NEW w \in Writers, NEW len \in 0 .. BT_TX_BUFFER_SIZE, MakeChunk(w, len)
        PROVE  Made
    BY <2>1 DEF MakeChunk, Made, poller
  <2>2. 1 \in 0 .. BT_TX_BUFFER_SIZE /\ "grbl" \in Writers /\ "callback" \in Writers
    BY BluetoothAssumption DEF Writers
  <2> QED
    BY <1>1, <2>1, <2>2 DEF WriterMakes, Greet, Aside, poller, history
<1>2. ASSUME WriterQueues \/ GreetQueued
      PROVE  Queued
  <2>1. ASSUME NEW w \in Writers, QueueChunk(w)
        PROVE  Queued
    BY <2>1 DEF QueueChunk, QueueHasRoom, Queued, poller, history
  <2>2. "grbl" \in Writers /\ "callback" \in Writers
    BY DEF Writers
  <2> QED
    BY <1>2, <2>1, <2>2 DEF WriterQueues, GreetQueued
<1>3. ASSUME FlushOne \/ FlushEnd
      PROVE  Flushed \/ FlushedAll
  BY <1>3 DEF FlushOne, FlushEnd, Flushed, FlushedAll, poller
<1>4. ASSUME PollReceive
      PROVE  Received \/ Aside
  BY <1>4 DEF PollReceive, Received, Aside, notPoller
<1>5. ASSUME PollGather
      PROVE  Gathered
  BY <1>5 DEF PollGather, Gathered, notPoller
<1>6. ASSUME PollWrite \/ PollWritesNothing
      PROVE  Written
  BY <1>6 DEF PollWrite, PollWritesNothing, Written, notPoller
<1>7. ASSUME PollCheck \/ PollTake \/ PollFull \/ PollWait \/ PollSuspend
      PROVE  Aside
  BY <1>7 DEF PollCheck, PollTake, PollFull, PollWait, PollSuspend, Aside, notPoller, locals
<1>8. ASSUME ResumePoller \/ Event \/ WriteDone \/ UNCHANGED vars
      PROVE  Aside
  BY <1>8 DEF ResumePoller, Event, OpenSession, SecondAttempt, CloseIgnored, CloseSession, Congestion, WriteDone,
              Aside, poller, history, vars
<1> QED
  BY <1>1, <1>2, <1>3, <1>4, <1>5, <1>6, <1>7, <1>8 DEF Next, pollTX, CallbackGoesOn

-----------------------------------------------------------------------------
(* Types.                                                                   *)

ChunkType ==
    /\ tx_queue \in Seq(Chunks) /\ Len(tx_queue) <= BT_TX_QUEUE_ENTRIES
    /\ inHand \in [Writers -> Chunks \cup {NoChunk}]
    /\ chunk \in Chunks \cup {NoChunk} /\ buffer \in Seq(Chunks)
    /\ remaining \in 1 .. BufferSize
    /\ chunks \in Seq([length : 0 .. BT_TX_BUFFER_SIZE, by : Writers, age : Nat])
    /\ freed \subseteq Chunks /\ sent \in Seq(Chunks)
    /\ flushes \in Nat /\ spared \subseteq Chunks

\* pollTX takes the first chunk of the queue, if there is one.
LEMMA ReceiveType ==
    ASSUME ChunkType, ReceiveChunk
    PROVE  /\ chunk' \in Chunks \cup {NoChunk}
           /\ tx_queue' \in Seq(Chunks) /\ Len(tx_queue') <= BT_TX_QUEUE_ENTRIES
<1>1. CASE tx_queue = << >>
  BY <1>1 DEF ChunkType, ReceiveChunk
<1>2. CASE tx_queue # << >>
  <2>1. /\ Head(tx_queue) \in Chunks /\ Tail(tx_queue) \in Seq(Chunks)
        /\ Len(Tail(tx_queue)) = Len(tx_queue) - 1 /\ Len(tx_queue) \in Nat
    BY <1>2 DEF ChunkType
  <2>2. chunk' = Head(tx_queue) /\ tx_queue' = Tail(tx_queue)
    BY <1>2 DEF ReceiveChunk
  <2>3. Len(tx_queue') <= BT_TX_QUEUE_ENTRIES
    BY <2>1, <2>2, BluetoothAssumption DEF ChunkType
  <2> QED
    BY <2>1, <2>2, <2>3
<1> QED
  BY <1>1, <1>2

LEMMA MadeType ==
    ASSUME ChunkType, NEW w \in Writers, NEW len \in 0 .. BT_TX_BUFFER_SIZE,
           chunks' = Append(chunks, [length |-> len, by |-> w, age |-> flushes])
    PROVE  /\ chunks' \in Seq([length : 0 .. BT_TX_BUFFER_SIZE, by : Writers, age : Nat])
           /\ Len(chunks) \in Nat /\ Len(chunks') = Len(chunks) + 1
           /\ Chunks' = Chunks \cup {Len(chunks) + 1} /\ Len(chunks) + 1 \notin Chunks
           /\ \A n \in Chunks : n \in Nat /\ n # NoChunk /\ n < Len(chunks) + 1 /\ chunks'[n] = chunks[n]
           /\ chunks'[Len(chunks) + 1] = [length |-> len, by |-> w, age |-> flushes]
           /\ Len(chunks) + 1 # NoChunk
<1>1. /\ [length |-> len, by |-> w, age |-> flushes] \in [length : 0 .. BT_TX_BUFFER_SIZE, by : Writers, age : Nat]
      /\ chunks \in Seq([length : 0 .. BT_TX_BUFFER_SIZE, by : Writers, age : Nat])
  BY DEF ChunkType
<1>2. /\ chunks' \in Seq([length : 0 .. BT_TX_BUFFER_SIZE, by : Writers, age : Nat])
      /\ Len(chunks) \in Nat /\ Len(chunks') = Len(chunks) + 1
      /\ chunks'[Len(chunks) + 1] = [length |-> len, by |-> w, age |-> flushes]
      /\ \A n \in 1 .. Len(chunks) : chunks'[n] = chunks[n]
  BY <1>1
<1> QED
  BY <1>2 DEF Chunks, NoChunk

LEMMA ChunkTypeStep ==
    ASSUME ChunkType, [Next]_vars
    PROVE  ChunkType'
<1>1. CASE Made
  <2>1. PICK w \in Writers, len \in 0 .. BT_TX_BUFFER_SIZE :
           /\ chunks' = Append(chunks, [length |-> len, by |-> w, age |-> flushes])
           /\ inHand' = [inHand EXCEPT ![w] = Len(chunks) + 1]
           /\ UNCHANGED <<tx_queue, chunk, buffer, remaining, freed, sent, flushes, spared>>
    BY <1>1 DEF Made
  <2>2. /\ chunks' \in Seq([length : 0 .. BT_TX_BUFFER_SIZE, by : Writers, age : Nat])
        /\ Chunks' = Chunks \cup {Len(chunks) + 1}
    BY <2>1, MadeType
  <2>3. tx_queue' \in Seq(Chunks') /\ buffer' \in Seq(Chunks') /\ sent' \in Seq(Chunks')
    BY <2>1, <2>2, SeqMonotonic DEF ChunkType
  <2> QED
    BY <2>1, <2>2, <2>3 DEF ChunkType
<1>2. CASE Queued
  <2>1. PICK w \in Writers :
           /\ inHand[w] # NoChunk /\ Len(tx_queue) < BT_TX_QUEUE_ENTRIES
           /\ tx_queue' = Append(tx_queue, inHand[w])
           /\ inHand' = [inHand EXCEPT ![w] = NoChunk]
           /\ UNCHANGED <<chunks, chunk, buffer, remaining, freed, sent, flushes, spared>>
    BY <1>2 DEF Queued
  <2>2. Chunks' = Chunks
    BY <2>1 DEF Chunks
  <2>3. tx_queue \in Seq(Chunks) /\ inHand[w] \in Chunks
    BY <2>1 DEF ChunkType
  <2>4. tx_queue' \in Seq(Chunks) /\ Len(tx_queue') = Len(tx_queue) + 1 /\ Len(tx_queue) \in Nat
    BY <2>1, <2>3
  <2>5. Len(tx_queue') <= BT_TX_QUEUE_ENTRIES
    BY <2>1, <2>4, BluetoothAssumption
  <2>6. inHand' \in [Writers -> Chunks \cup {NoChunk}]
    BY <2>1 DEF ChunkType
  <2> QED
    BY <2>1, <2>2, <2>4, <2>5, <2>6 DEF ChunkType
<1>3. CASE Flushed
  <2>1. /\ Head(tx_queue) \in Chunks /\ Tail(tx_queue) \in Seq(Chunks)
        /\ Len(Tail(tx_queue)) = Len(tx_queue) - 1 /\ Len(tx_queue) \in Nat
    BY <1>3 DEF Flushed, ChunkType
  <2>2. tx_queue' \in Seq(Chunks) /\ Len(tx_queue') <= BT_TX_QUEUE_ENTRIES /\ freed' \subseteq Chunks
    BY <1>3, <2>1, BluetoothAssumption DEF Flushed, ChunkType
  <2> QED
    BY <1>3, <2>2 DEF Flushed, ChunkType, Chunks
<1>4. CASE FlushedAll
  <2>1. InHands \subseteq Chunks
    BY DEF ChunkType, InHands
  <2> QED
    BY <1>4, <2>1 DEF FlushedAll, ChunkType, Chunks
<1>5. CASE Received
  BY <1>5, ReceiveType DEF Received, ChunkType, Chunks
<1>6. CASE Gathered
  <2>1. chunk \in Chunks /\ chunks[chunk].length < remaining
    BY <1>6 DEF Gathered, Fits, ChunkType
  <2>2. chunks[chunk] \in [length : 0 .. BT_TX_BUFFER_SIZE, by : Writers, age : Nat]
    <3>1. chunks \in Seq([length : 0 .. BT_TX_BUFFER_SIZE, by : Writers, age : Nat])
      BY DEF ChunkType
    <3> QED
      BY <2>1, <3>1, ElementOfSeq DEF Chunks
  <2>3. remaining' \in 1 .. BufferSize
    <3>1. PICK n \in 0 .. BT_TX_BUFFER_SIZE : n = chunks[chunk].length
      BY <2>2
    <3>2. n < remaining /\ remaining' = remaining - n
      BY <1>6, <2>1, <3>1 DEF Gathered
    <3>3. remaining \in 1 .. BufferSize /\ BufferSize \in Nat /\ BT_TX_BUFFER_SIZE \in Nat
      BY BluetoothAssumption DEF ChunkType
    <3> QED
      BY <3>2, <3>3
  <2>4. buffer' \in Seq(Chunks) /\ freed' \subseteq Chunks
    BY <1>6, <2>1 DEF Gathered, ChunkType
  <2> QED
    BY <1>6, <2>3, <2>4, ReceiveType DEF Gathered, ChunkType, Chunks
<1>7. CASE Written
  <2>1. sent' \in Seq(Chunks) /\ buffer' \in Seq(Chunks) /\ remaining' \in 1 .. BufferSize
    <3>1. sent \o buffer \in Seq(Chunks) /\ sent \in Seq(Chunks)
      BY DEF ChunkType
    <3>2. BufferSize \in 1 .. BufferSize /\ << >> \in Seq(Chunks)
      BY BluetoothAssumption
    <3> QED
      BY <1>7, <3>1, <3>2 DEF Written
  <2> QED
    BY <1>7, <2>1 DEF Written, ChunkType, Chunks
<1>8. CASE Aside
  BY <1>8 DEF Aside, ChunkType, Chunks
<1> QED
  BY <1>1, <1>2, <1>3, <1>4, <1>5, <1>6, <1>7, <1>8, ChunksMove

SessionType ==
    /\ links \subseteq Handles /\ opened \in 0 .. MaxHandles
    /\ air \in Handles \cup {NoLink} /\ connection \in Handles \cup {NoLink}
    /\ dtr \in BOOLEAN /\ is_second_attempt \in BOOLEAN /\ congested \in BOOLEAN
    /\ tx_busy \in {0, 1}
    /\ cb \in {"idle", "resume", "greet", "send", "flush"}
    /\ poll \in {"check", "take", "receive", "gather", "write", "wait", "suspending", "suspended"}
    /\ overlooked \in BOOLEAN /\ lostWrite \in BOOLEAN

LEMMA SessionTypePoll ==
    ASSUME SessionType, pollTX
    PROVE  SessionType'
<1>0. UNCHANGED notPoller /\ links' = links
  BY DEF pollTX, PollCheck, PollTake, PollReceive, PollGather, PollFull, PollWrite, PollWritesNothing, PollWait,
         PollSuspend, notPoller
<1>1. air' \in Handles \cup {NoLink} /\ tx_busy' \in {0, 1}
  BY DEF SessionType, pollTX, PollCheck, PollTake, PollReceive, PollGather, PollFull, PollWrite,
         PollWritesNothing, PollWait, PollSuspend
<1>2. poll' \in {"check", "take", "receive", "gather", "write", "wait", "suspending", "suspended"}
  BY DEF pollTX, PollCheck, PollTake, PollReceive, PollGather, PollFull, PollWrite, PollWritesNothing, PollWait,
         PollSuspend, Polls
<1> QED
  BY <1>0, <1>1, <1>2 DEF SessionType, notPoller, session

LEMMA SessionTypeStep ==
    ASSUME SessionType, [Next]_vars
    PROVE  SessionType'
<1>1. CASE pollTX
  BY <1>1, SessionTypePoll
<1>2. CASE WriterMakes \/ WriterQueues \/ UNCHANGED vars
  <2>1. UNCHANGED <<links, opened, air, connection, dtr, is_second_attempt, congested, tx_busy, cb, poll, overlooked,
                    lostWrite>>
    BY <1>2 DEF WriterMakes, WriterQueues, MakeChunk, QueueChunk, external, session, poller, history, vars
  <2> QED
    BY <2>1 DEF SessionType
<1>3. CASE CallbackGoesOn
  <2>1. UNCHANGED <<external, session, congested, tx_busy, lostWrite>>
    BY <1>3 DEF CallbackGoesOn, ResumePoller, Greet, GreetQueued, MakeChunk, QueueChunk, FlushOne, FlushEnd, history
  <2>2. /\ cb' \in {"idle", "resume", "greet", "send", "flush"}
        /\ poll' = poll \/ poll' = "check"
        /\ overlooked' = overlooked \/ overlooked' = (poll = "suspending")
    BY <1>3 DEF CallbackGoesOn, ResumePoller, Greet, GreetQueued, MakeChunk, QueueChunk, FlushOne, FlushEnd,
                Callback, history, poller
  <2>3. /\ UNCHANGED <<links, opened, air, connection, dtr, is_second_attempt, congested, tx_busy, lostWrite>>
        /\ overlooked' \in BOOLEAN
        /\ poll' \in {"check", "take", "receive", "gather", "write", "wait", "suspending", "suspended"}
    BY <2>1, <2>2 DEF SessionType, external, session
  <2> QED
    BY <2>2, <2>3 DEF SessionType
<1>4. CASE OpenSession \/ SecondAttempt
  <2>1. opened + 1 \in Handles /\ opened + 1 \in 0 .. MaxHandles
    BY <1>4, BluetoothAssumption DEF OpenSession, SecondAttempt, SessionType, Handles
  <2>2. opened' = opened + 1 /\ links' = links \cup {opened + 1} /\ (connection' = connection \/ connection' = opened + 1)
    BY <1>4 DEF OpenSession, SecondAttempt
  <2>3. /\ UNCHANGED <<air, congested, tx_busy, poll, overlooked, lostWrite>>
        /\ dtr' \in {dtr, TRUE} /\ is_second_attempt' \in {is_second_attempt, TRUE} /\ cb' \in {"idle", "resume"}
    BY <1>4 DEF OpenSession, SecondAttempt, Callback, poller, history
  <2>4. links' \subseteq Handles /\ opened' \in 0 .. MaxHandles /\ connection' \in Handles \cup {NoLink}
    BY <2>1, <2>2 DEF SessionType
  <2>5. dtr' \in BOOLEAN /\ is_second_attempt' \in BOOLEAN
    BY <2>3 DEF SessionType
  <2>6. cb' \in {"idle", "resume", "greet", "send", "flush"}
    BY <2>3
  <2>7. /\ air' \in Handles \cup {NoLink} /\ congested' \in BOOLEAN /\ tx_busy' \in {0, 1}
        /\ poll' \in {"check", "take", "receive", "gather", "write", "wait", "suspending", "suspended"}
        /\ overlooked' \in BOOLEAN /\ lostWrite' \in BOOLEAN
    BY <2>3 DEF SessionType
  <2> QED
    BY <2>4, <2>5, <2>6, <2>7 DEF SessionType
<1>5. CASE CloseIgnored \/ CloseSession
  <2>1. LinkCloses
    BY <1>5 DEF CloseIgnored, CloseSession
  <2>2. links' \subseteq links /\ opened' = opened /\ air' \in {air, NoLink} /\ lostWrite' \in {lostWrite, TRUE}
    BY <2>1 DEF LinkCloses
  <2>3. /\ UNCHANGED <<congested, tx_busy, poll, overlooked>>
        /\ connection' \in {connection, NoLink} /\ dtr' \in {dtr, FALSE}
        /\ is_second_attempt' \in {is_second_attempt, FALSE} /\ cb' \in {"idle", "flush"}
    BY <1>5 DEF CloseIgnored, CloseSession, Callback, poller
  <2>4. dtr' \in BOOLEAN /\ is_second_attempt' \in BOOLEAN /\ lostWrite' \in BOOLEAN
    BY <2>2, <2>3 DEF SessionType
  <2>5. links' \subseteq Handles /\ air' \in Handles \cup {NoLink} /\ connection' \in Handles \cup {NoLink}
    BY <2>2, <2>3 DEF SessionType
  <2> QED
    BY <2>2, <2>3, <2>4, <2>5 DEF SessionType
<1>6. CASE Congestion \/ WriteDone
  <2>1. /\ UNCHANGED <<links, opened, connection, dtr, is_second_attempt, poll, overlooked, lostWrite>>
        /\ air' \in {air, NoLink} /\ tx_busy' \in {tx_busy, 1} /\ cb' = "idle"
    BY <1>6 DEF Congestion, WriteDone, Callback, external, session, poller, history
  <2>2. congested \in BOOLEAN
    BY DEF SessionType
  <2>3. congested' \in BOOLEAN
    <3>1. CASE Congestion
      BY <3>1, <2>2 DEF Congestion
    <3>2. CASE WriteDone
      BY <3>2, <2>2 DEF WriteDone
    <3> QED
      BY <1>6, <3>1, <3>2
  <2> QED
    BY <2>1, <2>3 DEF SessionType
<1> QED
  BY <1>1, <1>2, <1>3, <1>4, <1>5, <1>6 DEF Next, Event

LEMMA TypeParts == TypeOK <=> SessionType /\ ChunkType
BY DEF TypeOK, SessionType, ChunkType

LEMMA TypeInit == Init => TypeOK
<1> SUFFICES ASSUME Init PROVE SessionType /\ ChunkType
  BY TypeParts
<1>1. SessionType
  <2>1. 0 \in 0 .. MaxHandles /\ {} \subseteq Handles /\ NoLink \in Handles \cup {NoLink}
    BY BluetoothAssumption
  <2>2. links = {} /\ opened = 0 /\ air = NoLink /\ connection = NoLink
    BY DEF Init
  <2>3. /\ dtr = FALSE /\ is_second_attempt = FALSE /\ congested = FALSE /\ tx_busy = 1
        /\ cb = "idle" /\ poll = "suspended" /\ overlooked = FALSE /\ lostWrite = FALSE
    BY DEF Init
  <2> QED
    BY <2>1, <2>2, <2>3 DEF SessionType
<1>2. /\ tx_queue \in Seq(Chunks) /\ Len(tx_queue) = 0 /\ buffer \in Seq(Chunks) /\ sent \in Seq(Chunks)
      /\ chunks \in Seq([length : 0 .. BT_TX_BUFFER_SIZE, by : Writers, age : Nat])
  BY DEF Init
<1>3. BufferSize \in 1 .. BufferSize /\ 0 <= BT_TX_QUEUE_ENTRIES
  BY BluetoothAssumption
<1> QED
  BY <1>1, <1>2, <1>3 DEF Init, ChunkType

LEMMA TypeStep == TypeOK /\ [Next]_vars => TypeOK'
<1>1. TypeOK' <=> SessionType' /\ ChunkType'
  BY DEF TypeOK, SessionType, ChunkType, Chunks, Handles
<1> QED
  BY <1>1, TypeParts, SessionTypeStep, ChunkTypeStep

\* The variables keep their types: the queue never holds more than it has room
\* for, and what pollTX has gathered always fits its buffer.
THEOREM SpecTypeOK == Spec => []TypeOK
BY TypeInit, TypeStep, PTL DEF Spec
-----------------------------------------------------------------------------
(* The memory of a chunk.                                                   *)

queued == {tx_queue[i] : i \in 1 .. Len(tx_queue)}

\* A chunk is in one place: in a writer's hand, in the queue, in pollTX's hand
\* or freed.
OwnInv ==
    /\ \A i, j \in 1 .. Len(tx_queue) : tx_queue[i] = tx_queue[j] => i = j
    /\ \A w1, w2 \in Writers : inHand[w1] = inHand[w2] => w1 = w2 \/ inHand[w1] = NoChunk
    /\ \A w \in Writers : inHand[w] # NoChunk => inHand[w] \notin queued \cup freed \cup {chunk}
    /\ queued \cap freed = {} /\ chunk \notin queued /\ chunk \notin freed
    /\ Chunks \subseteq freed \cup queued \cup {chunk} \cup {inHand[w] : w \in Writers}

LEMMA QueuedAreChunks ==
    ASSUME ChunkType
    PROVE  queued \subseteq Chunks /\ freed \subseteq Chunks /\ NoChunk \notin Chunks
<1>1. tx_queue \in Seq(Chunks)
  BY DEF ChunkType
<1>2. \A i \in 1 .. Len(tx_queue) : tx_queue[i] \in Chunks
  BY <1>1, ElementOfSeq
<1>3. queued \subseteq Chunks
  BY <1>2 DEF queued
<1>4. freed \subseteq Chunks
  BY DEF ChunkType
<1>5. NoChunk \notin Chunks
  <2>1. Len(chunks) \in Nat
    BY DEF ChunkType
  <2> QED
    BY <2>1 DEF Chunks, NoChunk
<1> QED
  BY <1>3, <1>4, <1>5

\* A chunk goes to the end of the queue ...
LEMMA QueueGrows ==
    ASSUME ChunkType, NEW n \in Chunks, tx_queue' = Append(tx_queue, n)
    PROVE  /\ Len(tx_queue') = Len(tx_queue) + 1 /\ Len(tx_queue) \in Nat
           /\ \A i \in 1 .. Len(tx_queue) : tx_queue'[i] = tx_queue[i]
           /\ tx_queue'[Len(tx_queue) + 1] = n
           /\ queued' = queued \cup {n}
<1>1. tx_queue \in Seq(Chunks)
  BY DEF ChunkType
<1>2. /\ Len(tx_queue') = Len(tx_queue) + 1 /\ Len(tx_queue) \in Nat
      /\ \A i \in 1 .. Len(tx_queue) : tx_queue'[i] = tx_queue[i]
      /\ tx_queue'[Len(tx_queue) + 1] = n
  BY <1>1
<1>3. 1 .. Len(tx_queue') = 1 .. Len(tx_queue) \cup {Len(tx_queue) + 1}
  BY <1>2
<1>4. queued' = queued \cup {n}
  BY <1>2, <1>3 DEF queued
<1> QED
  BY <1>2, <1>4

\* ... and leaves it at the front.
LEMMA QueueShrinks ==
    ASSUME ChunkType, tx_queue # << >>, tx_queue' = Tail(tx_queue)
    PROVE  /\ Len(tx_queue) \in Nat \ {0} /\ Len(tx_queue') = Len(tx_queue) - 1
           /\ Head(tx_queue) = tx_queue[1] /\ Head(tx_queue) \in queued
           /\ \A i \in 1 .. Len(tx_queue') : i + 1 \in 1 .. Len(tx_queue) /\ tx_queue'[i] = tx_queue[i + 1]
           /\ queued = queued' \cup {Head(tx_queue)}
<1>1. tx_queue \in Seq(Chunks)
  BY DEF ChunkType
<1>2. /\ Len(tx_queue) \in Nat \ {0} /\ Len(tx_queue') = Len(tx_queue) - 1
      /\ Head(tx_queue) = tx_queue[1]
      /\ \A i \in 1 .. Len(tx_queue') : i + 1 \in 1 .. Len(tx_queue) /\ tx_queue'[i] = tx_queue[i + 1]
  BY <1>1
<1>3. \A i \in 1 .. Len(tx_queue) : i = 1 \/ (i - 1 \in 1 .. Len(tx_queue') /\ tx_queue'[i - 1] = tx_queue[i])
  <2> SUFFICES ASSUME NEW i \in 1 .. Len(tx_queue), i # 1
               PROVE  i - 1 \in 1 .. Len(tx_queue') /\ tx_queue'[i - 1] = tx_queue[i]
    OBVIOUS
  <2>1. i - 1 \in 1 .. Len(tx_queue') /\ (i - 1) + 1 = i
    BY <1>2
  <2> QED
    BY <1>2, <2>1
<1>4. 1 \in 1 .. Len(tx_queue)
  BY <1>2
<1>5. queued = queued' \cup {Head(tx_queue)} /\ Head(tx_queue) \in queued
  BY <1>2, <1>3, <1>4 DEF queued
<1> QED
  BY <1>2, <1>5

\* A chunk that leaves the queue is in it no more.
LEMMA QueueLoses ==
    ASSUME ChunkType, OwnInv, tx_queue # << >>, tx_queue' = Tail(tx_queue)
    PROVE  /\ \A i, j \in 1 .. Len(tx_queue') : tx_queue'[i] = tx_queue'[j] => i = j
           /\ Head(tx_queue) \notin queued'
<1>0. /\ Len(tx_queue) \in Nat \ {0} /\ Len(tx_queue') = Len(tx_queue) - 1
      /\ Head(tx_queue) = tx_queue[1]
      /\ \A i \in 1 .. Len(tx_queue') : i + 1 \in 1 .. Len(tx_queue) /\ tx_queue'[i] = tx_queue[i + 1]
  BY QueueShrinks
<1>1. \A i, j \in 1 .. Len(tx_queue) : tx_queue[i] = tx_queue[j] => i = j
  BY DEF OwnInv
<1>2. ASSUME NEW i \in 1 .. Len(tx_queue'), NEW j \in 1 .. Len(tx_queue'), tx_queue'[i] = tx_queue'[j]
      PROVE  i = j
  <2>1. i + 1 = j + 1
    BY <1>0, <1>1, <1>2
  <2> QED
    BY <2>1
<1>3. ASSUME NEW i \in 1 .. Len(tx_queue')
      PROVE  tx_queue'[i] # Head(tx_queue)
  <2>1. 1 \in 1 .. Len(tx_queue) /\ i + 1 # 1
    BY <1>0
  <2> QED
    BY <1>0, <1>1, <2>1
<1> QED
  BY <1>2, <1>3 DEF queued

\* pollTX takes the first chunk into its hand, and does away with the one it had.
LEMMA OwnReceive ==
    ASSUME ChunkType, OwnInv, ReceiveChunk, UNCHANGED <<chunks, inHand>>,
           freed' = freed \cup ({chunk} \ {NoChunk})
    PROVE  OwnInv'
<1>0. queued \subseteq Chunks /\ freed \subseteq Chunks /\ NoChunk \notin Chunks /\ Chunks' = Chunks
  BY QueuedAreChunks DEF Chunks
<1>1. CASE tx_queue = << >>
  <2>1. chunk' = NoChunk /\ tx_queue' = tx_queue
    BY <1>1 DEF ReceiveChunk
  <2>2. queued' = queued
    BY <2>1 DEF queued
  <2> QED
    BY <1>0, <2>1, <2>2 DEF OwnInv
<1>2. CASE tx_queue # << >>
  <2>1. chunk' = Head(tx_queue) /\ tx_queue' = Tail(tx_queue)
    BY <1>2 DEF ReceiveChunk
  <2>2. queued = queued' \cup {chunk'} /\ chunk' \notin queued' /\ chunk' \in Chunks
    BY <1>0, <1>2, <2>1, QueueShrinks, QueueLoses
  <2>3. \A i, j \in 1 .. Len(tx_queue') : tx_queue'[i] = tx_queue'[j] => i = j
    BY <1>2, <2>1, QueueLoses
  <2>4. \A w \in Writers : inHand'[w] # NoChunk => inHand'[w] \notin queued' \cup freed' \cup {chunk'}
    BY <2>2 DEF OwnInv
  <2>5. queued' \cap freed' = {} /\ chunk' \notin queued' /\ chunk' \notin freed'
    BY <2>2 DEF OwnInv
  <2>6. Chunks' \subseteq freed' \cup queued' \cup {chunk'} \cup {inHand'[w] : w \in Writers}
    BY <1>0, <2>2 DEF OwnInv
  <2> QED
    BY <2>3, <2>4, <2>5, <2>6 DEF OwnInv
<1> QED
  BY <1>1, <1>2

LEMMA OwnMade ==
    ASSUME ChunkType, OwnInv, Made
    PROVE  OwnInv'
<1>1. PICK w \in Writers, len \in 0 .. BT_TX_BUFFER_SIZE :
         /\ inHand[w] = NoChunk
         /\ chunks' = Append(chunks, [length |-> len, by |-> w, age |-> flushes])
         /\ inHand' = [inHand EXCEPT ![w] = Len(chunks) + 1]
         /\ UNCHANGED <<tx_queue, chunk, freed>>
  BY DEF Made
<1>2. PICK n : n = Len(chunks) + 1
  OBVIOUS
<1>3. Chunks' = Chunks \cup {n} /\ n \notin Chunks /\ n # NoChunk
  BY <1>1, <1>2, MadeType
<1>4. /\ queued' = queued /\ queued \subseteq Chunks /\ freed \subseteq Chunks
      /\ chunk \in Chunks \cup {NoChunk} /\ inHand \in [Writers -> Chunks \cup {NoChunk}]
  BY <1>1, QueuedAreChunks DEF queued, ChunkType
<1>5. inHand'[w] = n /\ \A v \in Writers : v # w => inHand'[v] = inHand[v]
  BY <1>1, <1>2, <1>4
<1>6. \A w1, w2 \in Writers : inHand'[w1] = inHand'[w2] => w1 = w2 \/ inHand'[w1] = NoChunk
  BY <1>3, <1>4, <1>5 DEF OwnInv
<1>7. \A v \in Writers : inHand'[v] # NoChunk => inHand'[v] \notin queued \cup freed \cup {chunk}
  BY <1>3, <1>4, <1>5 DEF OwnInv
<1>8. Chunks' \subseteq freed \cup queued \cup {chunk} \cup {inHand'[v] : v \in Writers}
  <2> SUFFICES ASSUME NEW m \in Chunks', m \notin freed \cup queued \cup {chunk}
               PROVE  \E v \in Writers : inHand'[v] = m
    OBVIOUS
  <2>1. CASE m = n
    BY <2>1, <1>5
  <2>2. CASE m \in Chunks
    <3>1. PICK v \in Writers : inHand[v] = m
      BY <2>2 DEF OwnInv
    <3>2. v # w
      BY <1>1, <2>2, <3>1, QueuedAreChunks
    <3> QED
      BY <1>5, <3>1, <3>2
  <2> QED
    BY <1>3, <2>1, <2>2
<1> QED
  BY <1>1, <1>4, <1>6, <1>7, <1>8 DEF OwnInv

LEMMA OwnQueued ==
    ASSUME ChunkType, OwnInv, Queued
    PROVE  OwnInv'
<1>1. PICK w \in Writers :
         /\ inHand[w] # NoChunk
         /\ tx_queue' = Append(tx_queue, inHand[w])
         /\ inHand' = [inHand EXCEPT ![w] = NoChunk]
         /\ UNCHANGED <<chunks, chunk, freed>>
  BY DEF Queued
<1>2. PICK n : n = inHand[w]
  OBVIOUS
<1>3. inHand \in [Writers -> Chunks \cup {NoChunk}] /\ n \in Chunks /\ Chunks' = Chunks
  BY <1>1, <1>2 DEF ChunkType, Chunks
<1>4. /\ Len(tx_queue') = Len(tx_queue) + 1 /\ Len(tx_queue) \in Nat
      /\ \A i \in 1 .. Len(tx_queue) : tx_queue'[i] = tx_queue[i]
      /\ tx_queue'[Len(tx_queue) + 1] = n
      /\ queued' = queued \cup {n}
  BY <1>1, <1>2, <1>3, QueueGrows
<1>5. inHand'[w] = NoChunk /\ \A v \in Writers : v # w => inHand'[v] = inHand[v] /\ inHand[v] # n
  BY <1>1, <1>2, <1>3 DEF OwnInv
<1>6. n \notin queued /\ n \notin freed /\ n # chunk
  BY <1>1, <1>2 DEF OwnInv
<1>7. \A i, j \in 1 .. Len(tx_queue') : tx_queue'[i] = tx_queue'[j] => i = j
  <2>1. \A i \in 1 .. Len(tx_queue) : tx_queue[i] # n
    BY <1>6 DEF queued
  <2>2. \A i \in 1 .. Len(tx_queue') : i \in 1 .. Len(tx_queue) \/ i = Len(tx_queue) + 1
    BY <1>4
  <2> QED
    BY <1>4, <2>1, <2>2 DEF OwnInv
<1>8. \A w1, w2 \in Writers : inHand'[w1] = inHand'[w2] => w1 = w2 \/ inHand'[w1] = NoChunk
  BY <1>5 DEF OwnInv
<1>9. \A v \in Writers : inHand'[v] # NoChunk => inHand'[v] \notin queued' \cup freed \cup {chunk}
  BY <1>4, <1>5 DEF OwnInv
<1>10. queued' \cap freed = {} /\ chunk \notin queued' /\ chunk \notin freed
  BY <1>4, <1>6 DEF OwnInv
<1>11. Chunks \subseteq freed \cup queued' \cup {chunk} \cup {inHand'[v] : v \in Writers}
  BY <1>2, <1>4, <1>5 DEF OwnInv
<1> QED
  BY <1>1, <1>3, <1>7, <1>8, <1>9, <1>10, <1>11 DEF OwnInv

LEMMA OwnFlushed ==
    ASSUME ChunkType, OwnInv, Flushed
    PROVE  OwnInv'
<1>1. /\ tx_queue # << >> /\ tx_queue' = Tail(tx_queue)
      /\ freed' = freed \cup {Head(tx_queue)} /\ UNCHANGED <<chunks, inHand, chunk>>
  BY DEF Flushed
<1>2. queued = queued' \cup {Head(tx_queue)} /\ Head(tx_queue) \notin queued'
  BY <1>1, QueueShrinks, QueueLoses
<1>3. \A i, j \in 1 .. Len(tx_queue') : tx_queue'[i] = tx_queue'[j] => i = j
  BY <1>1, QueueLoses
<1>4. Chunks' = Chunks /\ queued' \cup freed' = queued \cup freed
  BY <1>1, <1>2 DEF Chunks
<1>5. \A w \in Writers : inHand'[w] # NoChunk => inHand'[w] \notin queued' \cup freed' \cup {chunk'}
  BY <1>1, <1>4 DEF OwnInv
<1>6. queued' \cap freed' = {} /\ chunk' \notin queued' /\ chunk' \notin freed'
  BY <1>1, <1>2 DEF OwnInv
<1>7. Chunks' \subseteq freed' \cup queued' \cup {chunk'} \cup {inHand'[w] : w \in Writers}
  BY <1>1, <1>4 DEF OwnInv
<1> QED
  BY <1>1, <1>3, <1>5, <1>6, <1>7 DEF OwnInv

LEMMA OwnStep ==
    ASSUME ChunkType, OwnInv, [Next]_vars
    PROVE  OwnInv'
<1>1. CASE Received
  BY <1>1, OwnReceive DEF Received
<1>2. CASE Gathered
  <2>1. {chunk} \ {NoChunk} = {chunk}
    BY <1>2 DEF Gathered, Fits
  <2> QED
    BY <1>2, <2>1, OwnReceive DEF Gathered
<1>3. CASE FlushedAll \/ Written \/ Aside
  <2>1. UNCHANGED <<chunks, inHand, tx_queue, chunk, freed>>
    BY <1>3 DEF FlushedAll, Written, Aside
  <2> QED
    BY <2>1 DEF OwnInv, queued, Chunks
<1> QED
  BY <1>1, <1>2, <1>3, ChunksMove, OwnMade, OwnQueued, OwnFlushed
LEMMA OwnInit == Init => OwnInv
<1> SUFFICES ASSUME Init PROVE OwnInv
  OBVIOUS
<1>1. /\ Len(tx_queue) = 0 /\ chunk = NoChunk /\ freed = {} /\ Len(chunks) = 0
      /\ \A w \in Writers : inHand[w] = NoChunk
  BY DEF Init
<1>2. queued = {} /\ Chunks = {}
  BY <1>1 DEF queued, Chunks
<1> QED
  BY <1>1, <1>2 DEF OwnInv

\* Holding is counted by one set for each kind of owner.
LEMMA AtMostOne ==
    ASSUME NEW S, NEW P, P \subseteq S, \A a, b \in P : a = b
    PROVE  Cardinality(P) = IF P = {} THEN 0 ELSE 1
<1>1. CASE P = {}
  BY <1>1, FS_EmptySet
<1>2. CASE P # {}
  <2>1. PICK a \in P : TRUE
    BY <1>2
  <2>2. P = {a}
    BY <2>1
  <2> QED
    BY <1>2, <2>2, FS_Singleton
<1> QED
  BY <1>1, <1>2

\* One place in terms of the counts of the owners.
LEMMA OwnersOfChunk == ChunkType /\ OwnInv => ChunkOwnership
<1> SUFFICES ASSUME ChunkType, OwnInv, NEW n \in Chunks
             PROVE  Owners(n) = IF n \in freed THEN 0 ELSE 1
  BY DEF ChunkOwnership
<1> DEFINE hands == {w \in Writers : inHand[w] = n}
           slots == {i \in 1 .. Len(tx_queue) : tx_queue[i] = n}
<1>0. n # NoChunk
  BY DEF Chunks, NoChunk
<1>1. Cardinality(hands) = IF hands = {} THEN 0 ELSE 1
  <2>1. \A a, b \in hands : a = b
    BY <1>0 DEF OwnInv
  <2> QED
    BY <2>1, AtMostOne
<1>2. Cardinality(slots) = IF slots = {} THEN 0 ELSE 1
  <2>1. \A a, b \in slots : a = b
    BY DEF OwnInv
  <2> QED
    BY <2>1, AtMostOne
<1>3. (slots = {}) <=> n \notin queued
  BY DEF queued
<1>4. n \in freed => hands = {} /\ n \notin queued /\ n # chunk
  BY <1>0 DEF OwnInv
<1>5. n \in queued => hands = {} /\ n # chunk
  BY <1>0 DEF OwnInv
<1>6. n = chunk => hands = {}
  BY <1>0 DEF OwnInv
<1>7. n \in freed \/ n \in queued \/ n = chunk \/ hands # {}
  BY DEF OwnInv
<1>8. Owners(n) = Cardinality(hands) + Cardinality(slots) + (IF chunk = n THEN 1 ELSE 0)
  BY DEF Owners
<1> HIDE DEF hands, slots
<1> QED
  BY <1>1, <1>2, <1>3, <1>4, <1>5, <1>6, <1>7, <1>8

\* The memory of a chunk is freed once, and until then has one owner, although
\* pollTX and the callback both take chunks from the queue.
THEOREM SpecChunkOwnership == Spec => []ChunkOwnership
<1> DEFINE Inv == TypeOK /\ OwnInv
<1>1. Init => Inv
  BY TypeInit, OwnInit
<1>2. Inv /\ [Next]_vars => Inv'
  BY TypeStep, TypeParts, OwnStep
<1>3. Inv => ChunkOwnership
  BY TypeParts, OwnersOfChunk
<1> HIDE DEF Inv
<1> QED
  BY <1>1, <1>2, <1>3, PTL DEF Spec
-----------------------------------------------------------------------------
(* The order of the lines.                                                  *)

\* A chunk that a writer holds is its own and the last it has made.
HandInv ==
    \A w \in Writers : inHand[w] # NoChunk =>
        /\ chunks[inHand[w]].by = w
        /\ \A n \in Chunks : chunks[n].by = w => n <= inHand[w]

\* a was made before b, or by somebody else.
Before(a, b) == a < b \/ chunks[a].by # chunks[b].by
InOrder(s) == \A i, j \in 1 .. Len(s) : i < j => Before(s[i], s[j])
Precede(A, B) == \A a \in A, b \in B : Before(a, b)

\* The chunks on their way: written, gathered, held over from the last turn of
\* pollTX, and queued.
InLine(written, gathered, held, waiting) ==
    /\ InOrder(written) /\ InOrder(gathered) /\ InOrder(waiting)
    /\ Precede(Range(written), Range(gathered) \cup held \cup Range(waiting))
    /\ Precede(Range(gathered), held \cup Range(waiting))
    /\ Precede(held, Range(waiting))

SendInv ==
    /\ InLine(sent, buffer, {chunk} \ {NoChunk}, tx_queue)
    /\ Range(sent) \cup Range(buffer) \subseteq freed

LEMMA HandInit == Init => HandInv
BY DEF Init, HandInv

LEMMA HandMade ==
    ASSUME ChunkType, HandInv, Made
    PROVE  HandInv'
<1>1. PICK w \in Writers, len \in 0 .. BT_TX_BUFFER_SIZE :
         /\ inHand[w] = NoChunk
         /\ chunks' = Append(chunks, [length |-> len, by |-> w, age |-> flushes])
         /\ inHand' = [inHand EXCEPT ![w] = Len(chunks) + 1]
  BY DEF Made
<1>2. PICK n : n = Len(chunks) + 1
  OBVIOUS
<1>3. /\ Chunks' = Chunks \cup {n} /\ n \notin Chunks /\ n \in Nat
      /\ \A m \in Chunks : m \in Nat /\ m < n /\ chunks'[m] = chunks[m]
      /\ chunks'[n].by = w
  <2>0. Len(chunks) \in Nat
    BY <1>1, MadeType
  <2>1. /\ Chunks' = Chunks \cup {n} /\ n \notin Chunks /\ n \in Nat
        /\ \A m \in Chunks : m \in Nat /\ m < n /\ chunks'[m] = chunks[m]
    <3>1. /\ Chunks' = Chunks \cup {Len(chunks) + 1} /\ Len(chunks) + 1 \notin Chunks
          /\ \A m \in Chunks : m \in Nat /\ m < Len(chunks) + 1 /\ chunks'[m] = chunks[m]
      BY <1>1, MadeType
    <3> QED
      BY <1>2, <2>0, <3>1
  <2>2. chunks'[n] = [length |-> len, by |-> w, age |-> flushes]
    BY <1>1, <1>2, MadeType
  <2> QED
    BY <2>1, <2>2
<1>4. /\ inHand'[w] = n /\ \A v \in Writers : v # w => inHand'[v] = inHand[v]
      /\ \A v \in Writers : inHand[v] # NoChunk => inHand[v] \in Chunks
  BY <1>1, <1>2 DEF ChunkType
<1> SUFFICES ASSUME NEW v \in Writers, inHand'[v] # NoChunk
             PROVE  /\ chunks'[inHand'[v]].by = v
                    /\ \A m \in Chunks' : chunks'[m].by = v => m <= inHand'[v]
  BY DEF HandInv
<1>5. CASE v = w
  BY <1>3, <1>4, <1>5
<1>6. CASE v # w
  BY <1>3, <1>4, <1>6 DEF HandInv
<1> QED
  BY <1>5, <1>6

LEMMA HandStep ==
    ASSUME ChunkType, HandInv, [Next]_vars
    PROVE  HandInv'
<1>1. CASE Made
  BY <1>1, HandMade
<1>2. CASE Queued
  BY <1>2 DEF Queued, ChunkType, HandInv, Chunks
<1>3. CASE Flushed \/ FlushedAll \/ Received \/ Gathered \/ Written \/ Aside
  <2>1. UNCHANGED <<chunks, inHand>>
    BY <1>3 DEF Flushed, FlushedAll, Received, Gathered, Written, Aside
  <2> QED
    BY <2>1 DEF HandInv, Chunks
<1> QED
  BY <1>1, <1>2, <1>3, ChunksMove

\* What a sequence of chunks keeps when it grows or shrinks.
LEMMA OrderOfConcat ==
    ASSUME NEW s \in Seq(Chunks), NEW t \in Seq(Chunks),
           InOrder(s), InOrder(t), Precede(Range(s), Range(t))
    PROVE  InOrder(s \o t) /\ Range(s \o t) = Range(s) \cup Range(t)
<1>1. /\ Len(s) \in Nat /\ Len(t) \in Nat /\ Len(s \o t) = Len(s) + Len(t)
      /\ \A i \in 1 .. Len(s \o t) : (s \o t)[i] = IF i <= Len(s) THEN s[i] ELSE t[i - Len(s)]
  OBVIOUS
<1>2. Range(s) = {s[i] : i \in 1 .. Len(s)} /\ Range(t) = {t[i] : i \in 1 .. Len(t)}
  BY RangeEquality
<1>3. ASSUME NEW i \in 1 .. Len(s \o t), NEW j \in 1 .. Len(s \o t), i < j
      PROVE  Before((s \o t)[i], (s \o t)[j])
  <2>1. CASE j <= Len(s)
    BY <1>1, <1>3, <2>1 DEF InOrder
  <2>2. CASE i > Len(s)
    <3>1. i - Len(s) \in 1 .. Len(t) /\ j - Len(s) \in 1 .. Len(t) /\ i - Len(s) < j - Len(s)
      BY <1>1, <1>3, <2>2
    <3>2. (s \o t)[i] = t[i - Len(s)] /\ (s \o t)[j] = t[j - Len(s)]
      BY <1>1, <1>3, <2>2
    <3> QED
      BY <3>1, <3>2 DEF InOrder
  <2>3. CASE i <= Len(s) /\ j > Len(s)
    <3>1. i \in 1 .. Len(s) /\ j - Len(s) \in 1 .. Len(t)
      BY <1>1, <2>3
    <3>2. (s \o t)[i] = s[i] /\ (s \o t)[j] = t[j - Len(s)]
      BY <1>1, <2>3
    <3>3. s[i] \in Range(s) /\ t[j - Len(s)] \in Range(t)
      BY <1>2, <3>1
    <3> QED
      BY <3>2, <3>3 DEF Precede
  <2> QED
    BY <1>1, <2>1, <2>2, <2>3
<1>4. Range(s \o t) = Range(s) \cup Range(t)
  BY RangeConcatenation
<1> QED
  BY <1>3, <1>4 DEF InOrder

LEMMA OrderOfAppend ==
    ASSUME NEW s \in Seq(Chunks), NEW n \in Chunks, InOrder(s), Precede(Range(s), {n})
    PROVE  InOrder(Append(s, n)) /\ Range(Append(s, n)) = Range(s) \cup {n}
<1>1. <<n>> \in Seq(Chunks) /\ Append(s, n) = s \o <<n>>
  OBVIOUS
<1>2. Range(<<n>>) = {n}
  <2>1. Range(<<n>>) = {<<n>>[i] : i \in 1 .. Len(<<n>>)}
    BY <1>1, RangeEquality
  <2> QED
    BY <2>1
<1>3. InOrder(<<n>>)
  BY DEF InOrder
<1>4. Precede(Range(s), Range(<<n>>))
  BY <1>2
<1>5. InOrder(s \o <<n>>) /\ Range(s \o <<n>>) = Range(s) \cup Range(<<n>>)
  BY <1>1, <1>3, <1>4, OrderOfConcat
<1> QED
  BY <1>1, <1>2, <1>5

LEMMA OrderOfTail ==
    ASSUME NEW s \in Seq(Chunks), s # << >>, InOrder(s)
    PROVE  /\ InOrder(Tail(s)) /\ Range(s) = {Head(s)} \cup Range(Tail(s))
           /\ Precede({Head(s)}, Range(Tail(s)))
<1>1. /\ Tail(s) \in Seq(Chunks) /\ Len(s) \in Nat \ {0} /\ Len(Tail(s)) = Len(s) - 1 /\ Head(s) = s[1]
      /\ \A i \in 1 .. Len(Tail(s)) : i + 1 \in 1 .. Len(s) /\ Tail(s)[i] = s[i + 1]
  OBVIOUS
<1>2. Range(s) = {s[i] : i \in 1 .. Len(s)} /\ Range(Tail(s)) = {Tail(s)[i] : i \in 1 .. Len(Tail(s))}
  <2>1. \A q \in Seq(Chunks) : Range(q) = {q[i] : i \in 1 .. Len(q)}
    BY RangeEquality
  <2>2. Tail(s) \in Seq(Chunks)
    BY <1>1
  <2> QED
    BY <2>1, <2>2
<1>3. InOrder(Tail(s))
  <2> SUFFICES ASSUME NEW i \in 1 .. Len(Tail(s)), NEW j \in 1 .. Len(Tail(s)), i < j
               PROVE  Before(Tail(s)[i], Tail(s)[j])
    BY DEF InOrder
  <2>1. i + 1 \in 1 .. Len(s) /\ j + 1 \in 1 .. Len(s) /\ i + 1 < j + 1
    BY <1>1
  <2> QED
    BY <1>1, <2>1 DEF InOrder
<1>4. Precede({Head(s)}, Range(Tail(s)))
  <2> SUFFICES ASSUME NEW i \in 1 .. Len(Tail(s))
               PROVE  Before(s[1], Tail(s)[i])
    BY <1>1, <1>2 DEF Precede
  <2>1. 1 \in 1 .. Len(s) /\ i + 1 \in 1 .. Len(s) /\ 1 < i + 1
    BY <1>1
  <2> QED
    BY <1>1, <2>1 DEF InOrder
<1>5. Range(s) = {Head(s)} \cup Range(Tail(s))
  <2>1. \A i \in 1 .. Len(s) : i = 1 \/ (i - 1 \in 1 .. Len(Tail(s)) /\ (i - 1) + 1 = i)
    BY <1>1
  <2>2. Range(s) \subseteq {Head(s)} \cup Range(Tail(s))
    <3> SUFFICES ASSUME NEW i \in 1 .. Len(s), i # 1
                 PROVE  s[i] \in Range(Tail(s))
      BY <1>1, <1>2
    <3>1. s[i] = Tail(s)[i - 1] /\ i - 1 \in 1 .. Len(Tail(s))
      BY <1>1, <2>1
    <3> QED
      BY <1>2, <3>1
  <2>3. 1 \in 1 .. Len(s)
    BY <1>1
  <2> QED
    BY <1>1, <1>2, <2>2, <2>3
<1> QED
  BY <1>3, <1>4, <1>5
LEMMA LineRanges ==
    ASSUME ChunkType
    PROVE  /\ sent \in Seq(Chunks) /\ buffer \in Seq(Chunks) /\ tx_queue \in Seq(Chunks)
           /\ Range(sent) \subseteq Chunks /\ Range(buffer) \subseteq Chunks /\ Range(tx_queue) = queued
           /\ chunk \in Chunks \cup {NoChunk} /\ NoChunk \notin Chunks
<1>1. sent \in Seq(Chunks) /\ buffer \in Seq(Chunks) /\ tx_queue \in Seq(Chunks)
  BY DEF ChunkType
<1>2. Range(sent) \subseteq Chunks /\ Range(buffer) \subseteq Chunks
  BY <1>1, RangeOfSeq
<1>3. Range(tx_queue) = queued
  BY <1>1, RangeEquality DEF queued
<1> QED
  BY <1>1, <1>2, <1>3 DEF ChunkType, Chunks, NoChunk

\* As long as no chunk is made the order of two chunks is what it was.
LEMMA SendKept ==
    ASSUME chunks' = chunks, InLine(sent', buffer', {chunk'} \ {NoChunk}, tx_queue'),
           Range(sent') \cup Range(buffer') \subseteq freed'
    PROVE  SendInv'
BY DEF SendInv, InLine, InOrder, Precede, Before, NoChunk, Range

LEMMA SendMade ==
    ASSUME ChunkType, SendInv, Made
    PROVE  SendInv'
<1>1. PICK w \in Writers, len \in 0 .. BT_TX_BUFFER_SIZE :
         /\ chunks' = Append(chunks, [length |-> len, by |-> w, age |-> flushes])
         /\ UNCHANGED <<tx_queue, chunk, buffer, freed, sent>>
  BY DEF Made
<1>2. \A m \in Chunks : chunks'[m] = chunks[m]
  BY <1>1, MadeType
<1>3. \A a, b \in Chunks : Before(a, b) => a < b \/ chunks'[a].by # chunks'[b].by
  BY <1>2 DEF Before
<1>4. /\ \A i \in 1 .. Len(sent) : sent[i] \in Chunks
      /\ \A i \in 1 .. Len(buffer) : buffer[i] \in Chunks
      /\ \A i \in 1 .. Len(tx_queue) : tx_queue[i] \in Chunks
  BY LineRanges, ElementOfSeq
<1>5. InOrder(sent)' /\ InOrder(buffer)' /\ InOrder(tx_queue)'
  <2>1. InOrder(sent) /\ InOrder(buffer) /\ InOrder(tx_queue)
    BY DEF SendInv, InLine
  <2>2. InOrder(sent)'
    <3>1. \A i, j \in 1 .. Len(sent) : i < j => sent[i] < sent[j] \/ chunks'[sent[i]].by # chunks'[sent[j]].by
      BY <1>3, <1>4, <2>1 DEF InOrder
    <3> QED
      BY <1>1, <3>1 DEF InOrder, Before
  <2>3. InOrder(buffer)'
    <3>1. \A i, j \in 1 .. Len(buffer) : i < j => buffer[i] < buffer[j] \/ chunks'[buffer[i]].by # chunks'[buffer[j]].by
      BY <1>3, <1>4, <2>1 DEF InOrder
    <3> QED
      BY <1>1, <3>1 DEF InOrder, Before
  <2>4. InOrder(tx_queue)'
    <3>1. \A i, j \in 1 .. Len(tx_queue) : i < j => tx_queue[i] < tx_queue[j] \/ chunks'[tx_queue[i]].by # chunks'[tx_queue[j]].by
      BY <1>3, <1>4, <2>1 DEF InOrder
    <3> QED
      BY <1>1, <3>1 DEF InOrder, Before
  <2> QED
    BY <2>2, <2>3, <2>4
<1>6. \A A, B : A \subseteq Chunks /\ B \subseteq Chunks /\ Precede(A, B)
                   => \A a \in A, b \in B : a < b \/ chunks'[a].by # chunks'[b].by
  BY <1>3 DEF Precede
<1>7. /\ Range(sent) \subseteq Chunks /\ Range(buffer) \subseteq Chunks /\ Range(tx_queue) \subseteq Chunks
      /\ {chunk} \ {NoChunk} \subseteq Chunks
  BY LineRanges, QueuedAreChunks
<1>8. /\ Precede(Range(sent), Range(buffer) \cup ({chunk} \ {NoChunk}) \cup Range(tx_queue))
      /\ Precede(Range(buffer), ({chunk} \ {NoChunk}) \cup Range(tx_queue))
      /\ Precede({chunk} \ {NoChunk}, Range(tx_queue))
  BY DEF SendInv, InLine
<1>9. /\ \A a \in Range(sent), b \in Range(buffer) \cup ({chunk} \ {NoChunk}) \cup Range(tx_queue) :
             a < b \/ chunks'[a].by # chunks'[b].by
      /\ \A a \in Range(buffer), b \in ({chunk} \ {NoChunk}) \cup Range(tx_queue) :
             a < b \/ chunks'[a].by # chunks'[b].by
      /\ \A a \in {chunk} \ {NoChunk}, b \in Range(tx_queue) : a < b \/ chunks'[a].by # chunks'[b].by
  <2>1. /\ Range(buffer) \cup ({chunk} \ {NoChunk}) \cup Range(tx_queue) \subseteq Chunks
        /\ ({chunk} \ {NoChunk}) \cup Range(tx_queue) \subseteq Chunks
    BY <1>7
  <2> QED
    BY <1>6, <1>7, <1>8, <2>1
<1>10. Range(sent)' = Range(sent) /\ Range(buffer)' = Range(buffer) /\ Range(tx_queue)' = Range(tx_queue)
  BY <1>1
<1>11. Range(sent) \cup Range(buffer) \subseteq freed
  BY DEF SendInv
<1> QED
  BY <1>1, <1>5, <1>9, <1>10, <1>11 DEF SendInv, InLine, Precede, Before, NoChunk

\* The last chunk its writer made comes after all the others on their way.
LEMMA SendQueued ==
    ASSUME ChunkType, OwnInv, HandInv, SendInv, Queued
    PROVE  SendInv'
<1>1. PICK w \in Writers :
         /\ inHand[w] # NoChunk
         /\ tx_queue' = Append(tx_queue, inHand[w])
         /\ UNCHANGED <<chunks, chunk, buffer, freed, sent>>
  BY DEF Queued
<1>2. PICK n : n = inHand[w]
  OBVIOUS
<1>3. n \in Chunks /\ n \in Nat
  BY <1>1, <1>2 DEF ChunkType, Chunks
<1>4. n \notin queued \cup freed \cup {chunk}
  BY <1>1, <1>2 DEF OwnInv
<1>5. \A m \in Chunks \ {n} : Before(m, n)
  <2> SUFFICES ASSUME NEW m \in Chunks, m # n, chunks[m].by = chunks[n].by
               PROVE  m < n
    BY DEF Before
  <2>1. chunks[n].by = w /\ m <= n
    BY <1>1, <1>2 DEF HandInv
  <2> QED
    BY <1>3, <2>1 DEF Chunks
<1> DEFINE held == {chunk} \ {NoChunk}
<1>6. Range(sent) \cup Range(buffer) \cup held \cup Range(tx_queue) \subseteq Chunks \ {n}
  BY <1>4, LineRanges, QueuedAreChunks DEF SendInv
<1>7. Precede(Range(sent), {n}) /\ Precede(Range(buffer), {n}) /\ Precede(held, {n}) /\ Precede(Range(tx_queue), {n})
  BY <1>5, <1>6 DEF Precede
<1>8. InOrder(tx_queue') /\ Range(tx_queue') = Range(tx_queue) \cup {n}
  BY <1>1, <1>2, <1>3, <1>7, LineRanges, OrderOfAppend DEF SendInv, InLine
<1>9. InLine(sent, buffer, held, tx_queue')
  <2>1. /\ Precede(Range(sent), Range(buffer) \cup held \cup Range(tx_queue))
        /\ Precede(Range(buffer), held \cup Range(tx_queue)) /\ Precede(held, Range(tx_queue))
        /\ InOrder(sent) /\ InOrder(buffer)
    BY DEF SendInv, InLine
  <2>2. /\ Precede(Range(sent), Range(buffer) \cup held \cup Range(tx_queue'))
        /\ Precede(Range(buffer), held \cup Range(tx_queue')) /\ Precede(held, Range(tx_queue'))
    BY <1>7, <1>8, <2>1 DEF Precede
  <2> QED
    BY <1>8, <2>1, <2>2 DEF InLine
<1> QED
  BY <1>1, <1>9, SendKept DEF SendInv

LEMMA SendFlushed ==
    ASSUME ChunkType, SendInv, Flushed
    PROVE  SendInv'
<1>1. /\ tx_queue # << >> /\ tx_queue' = Tail(tx_queue) /\ freed \subseteq freed'
      /\ UNCHANGED <<chunks, chunk, buffer, sent>>
  BY DEF Flushed
<1>2. InOrder(tx_queue') /\ Range(tx_queue') \subseteq Range(tx_queue)
  BY <1>1, LineRanges, OrderOfTail DEF SendInv, InLine
<1>3. InLine(sent, buffer, {chunk} \ {NoChunk}, tx_queue')
  BY <1>2 DEF SendInv, InLine, Precede
<1> QED
  BY <1>1, <1>3, SendKept DEF SendInv

\* What is held over comes before the queue, and the first chunk of the queue
\* before the others.
LEMMA LineReceived ==
    ASSUME ChunkType, ReceiveChunk, NEW s, NEW b, InOrder(s), InOrder(b), InOrder(tx_queue),
           Precede(Range(s), Range(b) \cup Range(tx_queue)), Precede(Range(b), Range(tx_queue))
    PROVE  InLine(s, b, {chunk'} \ {NoChunk}, tx_queue')
<1>1. CASE tx_queue = << >>
  <2>1. {chunk'} \ {NoChunk} = {} /\ tx_queue' = tx_queue
    BY <1>1 DEF ReceiveChunk
  <2> QED
    BY <2>1 DEF InLine, Precede
<1>2. CASE tx_queue # << >>
  <2>1. chunk' = Head(tx_queue) /\ tx_queue' = Tail(tx_queue)
    BY <1>2 DEF ReceiveChunk
  <2>2. /\ InOrder(tx_queue') /\ Range(tx_queue) = {chunk'} \cup Range(tx_queue')
        /\ Precede({chunk'}, Range(tx_queue'))
    BY <1>2, <2>1, LineRanges, OrderOfTail
  <2>3. /\ Precede(Range(s), Range(b) \cup ({chunk'} \ {NoChunk}) \cup Range(tx_queue'))
        /\ Precede(Range(b), ({chunk'} \ {NoChunk}) \cup Range(tx_queue'))
        /\ Precede({chunk'} \ {NoChunk}, Range(tx_queue'))
    BY <2>2 DEF Precede
  <2> QED
    BY <2>2, <2>3 DEF InLine
<1> QED
  BY <1>1, <1>2

LEMMA SendReceived ==
    ASSUME ChunkType, SendInv, Received
    PROVE  SendInv'
<1>1. ReceiveChunk /\ UNCHANGED <<chunks, buffer, freed, sent>>
  BY DEF Received
<1>2. /\ InOrder(sent) /\ InOrder(buffer) /\ InOrder(tx_queue)
      /\ Precede(Range(sent), Range(buffer) \cup Range(tx_queue)) /\ Precede(Range(buffer), Range(tx_queue))
  BY DEF SendInv, InLine, Precede
<1>3. InLine(sent, buffer, {chunk'} \ {NoChunk}, tx_queue')
  BY <1>1, <1>2, LineReceived
<1> QED
  BY <1>1, <1>3, SendKept DEF SendInv

LEMMA SendGathered ==
    ASSUME ChunkType, SendInv, Gathered
    PROVE  SendInv'
<1>1. /\ chunk # NoChunk /\ buffer' = Append(buffer, chunk) /\ freed' = freed \cup {chunk}
      /\ ReceiveChunk /\ UNCHANGED <<chunks, sent>>
  BY DEF Gathered, Fits
<1>2. /\ InOrder(sent) /\ InOrder(buffer) /\ InOrder(tx_queue)
      /\ Precede(Range(sent), Range(buffer) \cup {chunk} \cup Range(tx_queue))
      /\ Precede(Range(buffer), {chunk} \cup Range(tx_queue)) /\ Precede({chunk}, Range(tx_queue))
  <2>1. {chunk} \ {NoChunk} = {chunk}
    BY <1>1
  <2> QED
    BY <2>1 DEF SendInv, InLine
<1>3. InOrder(buffer') /\ Range(buffer') = Range(buffer) \cup {chunk}
  <2>1. Precede(Range(buffer), {chunk}) /\ chunk \in Chunks /\ buffer \in Seq(Chunks)
    BY <1>1, <1>2, LineRanges DEF Precede
  <2> QED
    BY <1>1, <1>2, <2>1, OrderOfAppend
<1>4. Precede(Range(sent), Range(buffer') \cup Range(tx_queue)) /\ Precede(Range(buffer'), Range(tx_queue))
  BY <1>2, <1>3 DEF Precede
<1>5. InLine(sent, buffer', {chunk'} \ {NoChunk}, tx_queue')
  BY <1>1, <1>2, <1>3, <1>4, LineReceived
<1>6. Range(sent) \cup Range(buffer') \subseteq freed'
  BY <1>1, <1>3 DEF SendInv
<1> QED
  BY <1>1, <1>5, <1>6, SendKept

LEMMA SendWritten ==
    ASSUME ChunkType, SendInv, Written
    PROVE  SendInv'
<1>1. /\ sent' = sent \o buffer \/ sent' = sent
      /\ buffer' = << >> /\ UNCHANGED <<chunks, tx_queue, chunk, freed>>
  BY DEF Written
<1>2. InOrder(buffer') /\ Range(buffer') = {}
  <2>1. << >> \in Seq(Chunks)
    OBVIOUS
  <2>2. Range(<< >>) = {<< >>[i] : i \in 1 .. Len(<< >>)}
    BY <2>1, RangeEquality
  <2> QED
    BY <1>1, <2>2 DEF InOrder
<1>3. InOrder(sent') /\ Range(sent') \subseteq Range(sent) \cup Range(buffer)
  <2>1. Precede(Range(sent), Range(buffer))
    BY DEF SendInv, InLine, Precede
  <2>2. InOrder(sent \o buffer) /\ Range(sent \o buffer) = Range(sent) \cup Range(buffer)
    BY <2>1, LineRanges, OrderOfConcat DEF SendInv, InLine
  <2>3. InOrder(sent)
    BY DEF SendInv, InLine
  <2>4. CASE sent' = sent \o buffer
    BY <2>2, <2>4
  <2>5. CASE sent' = sent
    BY <2>3, <2>5
  <2> QED
    BY <1>1, <2>4, <2>5
<1>4. InLine(sent', buffer', {chunk} \ {NoChunk}, tx_queue)
  BY <1>2, <1>3 DEF SendInv, InLine, Precede
<1>5. Range(sent') \cup Range(buffer') \subseteq freed'
  BY <1>1, <1>2, <1>3 DEF SendInv
<1> QED
  BY <1>1, <1>4, <1>5, SendKept

LEMMA SendStep ==
    ASSUME ChunkType, OwnInv, HandInv, SendInv, [Next]_vars
    PROVE  SendInv'
<1>1. CASE FlushedAll \/ Aside
  <2>1. UNCHANGED <<chunks, tx_queue, chunk, buffer, freed, sent>>
    BY <1>1 DEF FlushedAll, Aside
  <2> QED
    BY <2>1, SendKept DEF SendInv
<1> QED
  BY <1>1, ChunksMove, SendMade, SendQueued, SendFlushed, SendReceived, SendGathered, SendWritten

LEMMA SendInit == Init => SendInv
<1> SUFFICES ASSUME Init PROVE SendInv
  OBVIOUS
<1>1. sent = << >> /\ buffer = << >> /\ tx_queue = << >> /\ {chunk} \ {NoChunk} = {}
  BY DEF Init
<1>2. Range(<< >>) = {}
  <2>1. << >> \in Seq(Chunks)
    OBVIOUS
  <2>2. Range(<< >>) = {<< >>[i] : i \in 1 .. Len(<< >>)}
    BY <2>1, RangeEquality
  <2> QED
    BY <2>2
<1>3. InOrder(<< >>)
  BY DEF InOrder
<1> QED
  BY <1>1, <1>2, <1>3 DEF SendInv, InLine, Precede

\* Everything of one writer leaves in the order it was written, and nothing
\* twice: pollTX goes on with the chunk it holds over, and the chunks that
\* failed writes and flushes take out leave the others in order.
THEOREM SpecSentInOrder == Spec => []SentInOrder
<1> DEFINE Inv == TypeOK /\ OwnInv /\ HandInv /\ SendInv
<1>1. Init => Inv
  BY TypeInit, OwnInit, HandInit, SendInit
<1>2. Inv /\ [Next]_vars => Inv'
  BY TypeStep, TypeParts, OwnStep, HandStep, SendStep
<1>3. Inv => SentInOrder
  BY DEF SendInv, InLine, InOrder, Before, SentInOrder
<1> HIDE DEF Inv
<1> QED
  BY <1>1, <1>2, <1>3, PTL DEF Spec

-----------------------------------------------------------------------------
(* What a flush leaves.                                                     *)

\* A chunk older than the last flush is one that flush could not reach, also
\* while its writer waits for room in the queue.
SpareInv ==
    /\ \A n \in queued : chunks[n].age < flushes => n \in spared
    /\ \A w \in Writers : inHand[w] # NoChunk => (chunks[inHand[w]].age < flushes => inHand[w] \in spared)

LEMMA SpareStep ==
    ASSUME ChunkType, SpareInv, [Next]_vars
    PROVE  SpareInv'
<1>1. CASE Made
  <2>1. PICK w \in Writers, len \in 0 .. BT_TX_BUFFER_SIZE :
           /\ chunks' = Append(chunks, [length |-> len, by |-> w, age |-> flushes])
           /\ inHand' = [inHand EXCEPT ![w] = Len(chunks) + 1]
           /\ UNCHANGED <<tx_queue, flushes, spared>>
    BY <1>1 DEF Made
  <2>2. PICK n : n = Len(chunks) + 1
    OBVIOUS
  <2>3. (\A m \in Chunks : chunks'[m] = chunks[m]) /\ chunks'[n] = [length |-> len, by |-> w, age |-> flushes]
    BY <2>1, <2>2, MadeType
  <2>4. /\ inHand'[w] = n /\ \A v \in Writers : v # w => inHand'[v] = inHand[v]
        /\ \A v \in Writers : inHand[v] # NoChunk => inHand[v] \in Chunks
    BY <2>1, <2>2 DEF ChunkType
  <2>5. ~ (chunks'[n].age < flushes') /\ queued' = queued /\ queued \subseteq Chunks
    <3>1. chunks'[n].age = flushes
      BY <2>3
    <3>2. ~ (flushes < flushes)
      BY DEF ChunkType
    <3> QED
      BY <2>1, <3>1, <3>2, QueuedAreChunks DEF queued
  <2>6. \A m \in queued' : chunks'[m].age < flushes' => m \in spared'
    BY <2>1, <2>3, <2>5 DEF SpareInv
  <2>7. ASSUME NEW v \in Writers, inHand'[v] # NoChunk, chunks'[inHand'[v]].age < flushes'
        PROVE  inHand'[v] \in spared'
    <3>1. v # w
      BY <2>4, <2>5, <2>7
    <3>2. inHand'[v] = inHand[v] /\ inHand[v] \in Chunks /\ inHand[v] # NoChunk
      BY <2>4, <2>7, <3>1 DEF NoChunk
    <3>3. chunks[inHand[v]].age < flushes
      BY <2>1, <2>3, <2>7, <3>2
    <3> QED
      BY <2>1, <3>2, <3>3 DEF SpareInv
  <2> QED
    BY <2>6, <2>7 DEF SpareInv
<1>2. CASE Queued
  <2>1. PICK w \in Writers :
           /\ inHand[w] # NoChunk
           /\ tx_queue' = Append(tx_queue, inHand[w])
           /\ inHand' = [inHand EXCEPT ![w] = NoChunk]
           /\ UNCHANGED <<chunks, flushes, spared>>
    BY <1>2 DEF Queued
  <2>2. inHand[w] \in Chunks /\ inHand \in [Writers -> Chunks \cup {NoChunk}]
    BY <2>1 DEF ChunkType
  <2>3. queued' = queued \cup {inHand[w]}
    BY <2>1, <2>2, QueueGrows
  <2> QED
    BY <2>1, <2>2, <2>3 DEF SpareInv
<1>3. CASE Flushed \/ Received \/ Gathered
  <2>1. /\ UNCHANGED <<chunks, inHand, flushes, spared>>
        /\ tx_queue' = tx_queue \/ (tx_queue # << >> /\ tx_queue' = Tail(tx_queue))
    BY <1>3 DEF Flushed, Received, Gathered, ReceiveChunk
  <2>2. queued' \subseteq queued
    BY <2>1, QueueShrinks DEF queued
  <2> QED
    BY <2>1, <2>2 DEF SpareInv
<1>4. CASE FlushedAll
  <2>1. /\ tx_queue = << >> /\ tx_queue' = tx_queue /\ spared' = spared \cup InHands
        /\ UNCHANGED <<chunks, inHand>>
    BY <1>4 DEF FlushedAll
  <2>2. queued' = {}
    BY <2>1 DEF queued
  <2>3. \A w \in Writers : inHand[w] # NoChunk => inHand[w] \in InHands
    BY DEF InHands
  <2> QED
    BY <2>1, <2>2, <2>3 DEF SpareInv
<1>5. CASE Written \/ Aside
  <2>1. UNCHANGED <<chunks, inHand, tx_queue, flushes, spared>>
    BY <1>5 DEF Written, Aside
  <2> QED
    BY <2>1 DEF SpareInv, queued
<1> QED
  BY <1>1, <1>2, <1>3, <1>4, <1>5, ChunksMove

\* After a flush nothing of the old session is queued, but what was in a hand
\* when flush_tx_queue found the queue empty: a writer that was blocked by the
\* full queue puts its old chunk into the new session's.
THEOREM SpecOnlySparedSurvive == Spec => []OnlySparedSurvive
<1> DEFINE Inv == TypeOK /\ SpareInv
<1>1. Init => Inv
  <2> SUFFICES ASSUME Init PROVE SpareInv
    BY TypeInit
  <2>1. tx_queue = << >> /\ \A w \in Writers : inHand[w] = NoChunk
    BY DEF Init
  <2> QED
    BY <2>1 DEF SpareInv, queued
<1>2. Inv /\ [Next]_vars => Inv'
  BY TypeStep, TypeParts, SpareStep
<1>3. Inv => OnlySparedSurvive
  BY DEF SpareInv, queued, OnlySparedSurvive
<1> HIDE DEF Inv
<1> QED
  BY <1>1, <1>2, <1>3, PTL DEF Spec

-----------------------------------------------------------------------------
(* The buffer of pollTX, the chunk it holds over and the queue are one line. *)

HeldOver(n) == IF n = NoChunk THEN << >> ELSE <<n>>
LineOf(b, n, q) == (b \o HeldOver(n)) \o q

LEMMA LineNow == line = LineOf(buffer, chunk, tx_queue)
BY DEF line, LineOf, HeldOver

LEMMA LineNext == line' = LineOf(buffer', chunk', tx_queue')
BY DEF line, LineOf, HeldOver

LEMMA LineParts ==
    ASSUME ChunkType
    PROVE  /\ buffer \in Seq(Nat) /\ tx_queue \in Seq(Nat) /\ sent \in Seq(Nat)
           /\ chunk \in Nat /\ HeldOver(chunk) \in Seq(Nat)
           /\ buffer \o HeldOver(chunk) \in Seq(Nat) /\ line \in Seq(Nat)
<1>1. buffer \in Seq(Nat) /\ tx_queue \in Seq(Nat) /\ sent \in Seq(Nat) /\ chunk \in Nat
  BY DEF ChunkType, Chunks, NoChunk
<1>2. HeldOver(chunk) \in Seq(Nat)
  BY <1>1 DEF HeldOver
<1>3. buffer \o HeldOver(chunk) \in Seq(Nat)
  BY <1>1, <1>2, ConcatProperties
<1>4. (buffer \o HeldOver(chunk)) \o tx_queue \in Seq(Nat)
  BY <1>1, <1>3, ConcatProperties
<1> QED
  BY <1>1, <1>2, <1>3, <1>4, LineNow DEF LineOf

\* Taking a chunk out of the queue, to hold it over, does not move it.
LEMMA LineTaken ==
    ASSUME ChunkType, ReceiveChunk
    PROVE  /\ HeldOver(chunk') \in Seq(Nat) /\ tx_queue' \in Seq(Nat)
           /\ HeldOver(chunk') \o tx_queue' = tx_queue
<1>1. CASE tx_queue = << >>
  <2>1. HeldOver(chunk') = << >> /\ tx_queue' = << >>
    BY <1>1 DEF ReceiveChunk, HeldOver
  <2>2. << >> \in Seq(Nat)
    OBVIOUS
  <2> QED
    BY <1>1, <2>1, <2>2, ConcatEmptySeq
<1>2. CASE tx_queue # << >>
  <2>1. chunk' = Head(tx_queue) /\ tx_queue' = Tail(tx_queue)
    BY <1>2 DEF ReceiveChunk
  <2>2. Head(tx_queue) \in Chunks
    BY <1>2 DEF ChunkType
  <2>3. HeldOver(chunk') = <<Head(tx_queue)>> /\ Head(tx_queue) \in Nat
    BY <2>1, <2>2 DEF HeldOver, Chunks, NoChunk
  <2>4. tx_queue \in Seq(Nat) /\ Tail(tx_queue) \in Seq(Nat) /\ <<Head(tx_queue)>> \in Seq(Nat)
    BY <1>2, <2>3, LineParts
  <2>5. PICK q \in Seq(Nat) : q = tx_queue
    BY <2>4
  <2>6. /\ Len(q) \in Nat \ {0} /\ Len(Tail(q)) = Len(q) - 1 /\ Head(q) = q[1]
        /\ \A i \in 1 .. Len(Tail(q)) : Tail(q)[i] = q[i + 1]
    BY <1>2, <2>5
  <2>7. PICK r \in Seq(Nat) : r = <<Head(q)>> \o Tail(q)
    BY <2>4, <2>5, ConcatProperties
  <2>8. /\ Len(r) = 1 + Len(Tail(q))
        /\ \A i \in 1 .. 1 + Len(Tail(q)) : r[i] = IF i <= 1 THEN <<Head(q)>>[i] ELSE Tail(q)[i - 1]
    <3>1. Len(<<Head(q)>>) = 1
      OBVIOUS
    <3> QED
      BY <2>4, <2>5, <2>7, <3>1, ConcatProperties
  <2>9. \A i \in 1 .. Len(q) : r[i] = q[i]
    <3> SUFFICES ASSUME NEW i \in 1 .. Len(q) PROVE r[i] = q[i]
      OBVIOUS
    <3>1. CASE i = 1
      BY <2>6, <2>8, <3>1
    <3>2. CASE i # 1
      <4>1. i - 1 \in 1 .. Len(Tail(q)) /\ (i - 1) + 1 = i /\ i \in 1 .. 1 + Len(Tail(q)) /\ ~ i <= 1
        BY <2>6, <3>2
      <4> QED
        BY <2>6, <2>8, <4>1
    <3> QED
      BY <3>1, <3>2
  <2>10. r = q
    <3>1. Len(r) = Len(q)
      BY <2>6, <2>8
    <3> QED
      BY <2>9, <3>1, SeqEqual
  <2> QED
    BY <2>1, <2>3, <2>4, <2>5, <2>7, <2>10
<1> QED
  BY <1>1, <1>2

\* A chunk at the end of the queue is at the end of the line.
LEMMA LineJoined ==
    ASSUME NEW s \in Seq(Nat), NEW q \in Seq(Nat), NEW n \in Nat
    PROVE  s \o Append(q, n) = Append(s \o q, n)
<1>1. <<n>> \in Seq(Nat) /\ s \o q \in Seq(Nat)
  BY ConcatProperties
<1>2. Append(q, n) = q \o <<n>> /\ Append(s \o q, n) = (s \o q) \o <<n>>
  BY <1>1, AppendIsConcat
<1>3. (s \o q) \o <<n>> = s \o (q \o <<n>>)
  BY <1>1, ConcatAssociative
<1> QED
  BY <1>2, <1>3

\* A flush takes a chunk out of the middle of the line.
LEMMA LineWithout ==
    ASSUME NEW s \in Seq(Nat), NEW q \in Seq(Nat), q # << >>, NEW w \in Seq(Nat), w = s \o q
    PROVE  /\ Len(s) + 1 \in 1 .. Len(w)
           /\ s \o Tail(q) = [i \in 1 .. Len(w) - 1 |-> IF i < Len(s) + 1 THEN w[i] ELSE w[i + 1]]
<1>1. /\ Tail(q) \in Seq(Nat) /\ Len(q) \in Nat \ {0} /\ Len(Tail(q)) = Len(q) - 1 /\ Len(s) \in Nat
      /\ \A i \in 1 .. Len(Tail(q)) : Tail(q)[i] = q[i + 1]
  OBVIOUS
<1>2. /\ Len(w) = Len(s) + Len(q)
      /\ \A i \in 1 .. Len(s) + Len(q) : w[i] = IF i <= Len(s) THEN s[i] ELSE q[i - Len(s)]
  BY ConcatProperties
<1>3. PICK v \in Seq(Nat) : v = s \o Tail(q)
  BY <1>1, ConcatProperties
<1>4. /\ Len(v) = Len(s) + Len(Tail(q))
      /\ \A i \in 1 .. Len(s) + Len(Tail(q)) : v[i] = IF i <= Len(s) THEN s[i] ELSE Tail(q)[i - Len(s)]
  BY <1>1, <1>3, ConcatProperties
<1>5. ASSUME NEW i \in 1 .. Len(w) - 1
      PROVE  v[i] = IF i < Len(s) + 1 THEN w[i] ELSE w[i + 1]
  <2>1. i \in 1 .. Len(s) + Len(Tail(q)) /\ i \in 1 .. Len(s) + Len(q) /\ i + 1 \in 1 .. Len(s) + Len(q)
    BY <1>1, <1>2
  <2>2. CASE i <= Len(s)
    <3>1. i < Len(s) + 1
      BY <1>1, <2>2
    <3> QED
      BY <1>2, <1>4, <2>1, <2>2, <3>1
  <2>3. CASE ~ i <= Len(s)
    <3>1. /\ ~ i < Len(s) + 1 /\ ~ i + 1 <= Len(s) /\ i - Len(s) \in 1 .. Len(Tail(q))
          /\ (i - Len(s)) + 1 = (i + 1) - Len(s)
      BY <1>1, <2>1, <2>3
    <3>2. v[i] = Tail(q)[i - Len(s)] /\ w[i + 1] = q[(i + 1) - Len(s)]
      BY <1>2, <1>4, <2>1, <2>3, <3>1
    <3>3. Tail(q)[i - Len(s)] = q[(i - Len(s)) + 1]
      BY <1>1, <3>1
    <3> QED
      BY <3>1, <3>2, <3>3
  <2> QED
    BY <2>2, <2>3
<1>6. v = [i \in 1 .. Len(v) |-> v[i]] /\ Len(v) = Len(w) - 1
  BY <1>1, <1>2, <1>4
<1>7. v = [i \in 1 .. Len(w) - 1 |-> IF i < Len(s) + 1 THEN w[i] ELSE w[i + 1]]
  BY <1>5, <1>6
<1>8. Len(s) + 1 \in 1 .. Len(w)
  BY <1>1, <1>2
<1> QED
  BY <1>3, <1>7, <1>8

\* A write takes the front of the line.
LEMMA LineSplit ==
    ASSUME NEW s \in Seq(Nat), NEW q \in Seq(Nat), NEW w \in Seq(Nat), w = s \o q
    PROVE  /\ Len(s) \in 0 .. Len(w)
           /\ s = [i \in 1 .. Len(s) |-> w[i]]
           /\ q = [i \in 1 .. Len(w) - Len(s) |-> w[i + Len(s)]]
<1>1. Len(q) \in Nat /\ Len(s) \in Nat
  OBVIOUS
<1>2. /\ Len(w) = Len(s) + Len(q)
      /\ \A i \in 1 .. Len(s) + Len(q) : w[i] = IF i <= Len(s) THEN s[i] ELSE q[i - Len(s)]
  BY ConcatProperties
<1>3. \A i \in 1 .. Len(s) : w[i] = s[i]
  <2> SUFFICES ASSUME NEW i \in 1 .. Len(s) PROVE w[i] = s[i]
    OBVIOUS
  <2>1. i \in 1 .. Len(s) + Len(q) /\ i <= Len(s)
    BY <1>1
  <2> QED
    BY <1>2, <2>1
<1>4. \A i \in 1 .. Len(q) : w[i + Len(s)] = q[i]
  <2> SUFFICES ASSUME NEW i \in 1 .. Len(q) PROVE w[i + Len(s)] = q[i]
    OBVIOUS
  <2>1. i + Len(s) \in 1 .. Len(s) + Len(q) /\ ~ i + Len(s) <= Len(s) /\ (i + Len(s)) - Len(s) = i
    BY <1>1
  <2> QED
    BY <1>2, <2>1
<1>5. s = [i \in 1 .. Len(s) |-> s[i]] /\ q = [i \in 1 .. Len(q) |-> q[i]]
  OBVIOUS
<1>6. Len(w) - Len(s) = Len(q) /\ Len(s) \in 0 .. Len(w)
  BY <1>1, <1>2
<1> QED
  BY <1>3, <1>4, <1>5, <1>6

-----------------------------------------------------------------------------
(* Each move of chunks is a step of the line, or none.                      *)

LEMMA LineMade ==
    ASSUME ChunkType, Made
    PROVE  \E w \in Writers : Chunked!Make(w)
<1>1. PICK w \in Writers, len \in 0 .. BT_TX_BUFFER_SIZE :
         /\ inHand[w] = NoChunk
         /\ chunks' = Append(chunks, [length |-> len, by |-> w, age |-> flushes])
         /\ inHand' = [inHand EXCEPT ![w] = Len(chunks) + 1]
         /\ UNCHANGED <<tx_queue, chunk, buffer, sent>>
  BY DEF Made
<1>2. Len(chunks') = Len(chunks) + 1
  BY <1>1 DEF ChunkType
<1>3. UNCHANGED line
  BY <1>1, LineNow, LineNext
<1> QED
  BY <1>1, <1>2, <1>3 DEF Chunked!Make, NoChunk

LEMMA LineQueued ==
    ASSUME ChunkType, Queued
    PROVE  \E w \in Writers : Chunked!Join(w)
<1>1. PICK w \in Writers :
         /\ inHand[w] # NoChunk
         /\ tx_queue' = Append(tx_queue, inHand[w])
         /\ inHand' = [inHand EXCEPT ![w] = NoChunk]
         /\ UNCHANGED <<chunks, chunk, buffer, sent>>
  BY DEF Queued
<1>2. inHand[w] \in Nat
  BY DEF ChunkType, Chunks, NoChunk
<1>3. line' = (buffer \o HeldOver(chunk)) \o Append(tx_queue, inHand[w])
  BY <1>1, LineNext DEF LineOf
<1>4. line' = Append((buffer \o HeldOver(chunk)) \o tx_queue, inHand[w])
  BY <1>2, <1>3, LineParts, LineJoined
<1>5. line' = Append(line, inHand[w])
  BY <1>4, LineNow DEF LineOf
<1> QED
  BY <1>1, <1>5 DEF Chunked!Join, NoChunk

LEMMA LineFlushed ==
    ASSUME ChunkType, Flushed
    PROVE  \E k \in 1 .. Len(line) : Chunked!Discard(k)
<1>1. tx_queue # << >> /\ tx_queue' = Tail(tx_queue) /\ UNCHANGED <<chunks, inHand, chunk, buffer, sent>>
  BY DEF Flushed
<1>2. PICK s \in Seq(Nat) : s = buffer \o HeldOver(chunk)
  BY LineParts
<1>3. line = s \o tx_queue /\ line' = s \o Tail(tx_queue)
  BY <1>1, <1>2, LineNow, LineNext DEF LineOf
<1>4. /\ Len(s) + 1 \in 1 .. Len(line)
      /\ line' = [i \in 1 .. Len(line) - 1 |-> IF i < Len(s) + 1 THEN line[i] ELSE line[i + 1]]
  <2>1. line \in Seq(Nat) /\ tx_queue \in Seq(Nat)
    BY LineParts
  <2> QED
    BY <1>1, <1>3, <2>1, LineWithout
<1> QED
  BY <1>1, <1>4 DEF Chunked!Discard

LEMMA LineStays ==
    ASSUME ChunkType, Received \/ Gathered \/ FlushedAll \/ Aside
    PROVE  UNCHANGED Chunked!lineVars
<1>1. UNCHANGED <<chunks, inHand, sent>>
  BY DEF Received, Gathered, FlushedAll, Aside
<1>2. CASE FlushedAll \/ Aside
  <2>1. UNCHANGED <<tx_queue, chunk, buffer>>
    BY <1>2 DEF FlushedAll, Aside
  <2> QED
    BY <1>1, <2>1, LineNow, LineNext DEF Chunked!lineVars
<1>3. ASSUME NEW b \in Seq(Nat), ReceiveChunk, buffer' = b
      PROVE  line' = b \o tx_queue
  <2>1. line' = (b \o HeldOver(chunk')) \o tx_queue'
    BY <1>3, LineNext DEF LineOf
  <2>2. line' = b \o (HeldOver(chunk') \o tx_queue')
    BY <1>3, <2>1, LineTaken, ConcatAssociative
  <2> QED
    BY <1>3, <2>2, LineTaken
<1>4. CASE Received
  <2>1. chunk = NoChunk /\ ReceiveChunk /\ buffer' = buffer
    BY <1>4 DEF Received
  <2>2. line = (buffer \o << >>) \o tx_queue
    BY <2>1, LineNow DEF LineOf, HeldOver
  <2>3. line = buffer \o tx_queue
    BY <2>2, LineParts, ConcatEmptySeq
  <2>4. line' = buffer \o tx_queue
    BY <1>3, <2>1, LineParts
  <2> QED
    BY <1>1, <2>3, <2>4 DEF Chunked!lineVars
<1>5. CASE Gathered
  <2>1. chunk # NoChunk /\ ReceiveChunk /\ buffer' = Append(buffer, chunk)
    BY <1>5 DEF Gathered, Fits
  <2>2. line = (buffer \o <<chunk>>) \o tx_queue
    BY <2>1, LineNow DEF LineOf, HeldOver
  <2>3. Append(buffer, chunk) \in Seq(Nat) /\ Append(buffer, chunk) = buffer \o <<chunk>>
    BY LineParts, AppendIsConcat
  <2>4. line' = Append(buffer, chunk) \o tx_queue
    BY <1>3, <2>1, <2>3
  <2> QED
    BY <1>1, <2>2, <2>3, <2>4 DEF Chunked!lineVars
<1> QED
  BY <1>2, <1>4, <1>5

LEMMA LineWritten ==
    ASSUME ChunkType, Written
    PROVE  (\E k \in 1 .. Len(line) : Chunked!Leave(k)) \/ UNCHANGED Chunked!lineVars
<1>1. /\ sent' = sent \o buffer \/ sent' = sent
      /\ buffer' = << >> /\ UNCHANGED <<chunks, inHand, tx_queue, chunk>>
  BY DEF Written
<1>2. PICK q \in Seq(Nat) : q = HeldOver(chunk) \o tx_queue
  BY LineParts, ConcatProperties
<1>3. line = buffer \o q
  <2>1. line = (buffer \o HeldOver(chunk)) \o tx_queue
    BY LineNow DEF LineOf
  <2>2. buffer \in Seq(Nat) /\ HeldOver(chunk) \in Seq(Nat) /\ tx_queue \in Seq(Nat)
    BY LineParts
  <2>3. (buffer \o HeldOver(chunk)) \o tx_queue = buffer \o (HeldOver(chunk) \o tx_queue)
    BY <2>2, ConcatAssociative
  <2> QED
    BY <1>2, <2>1, <2>3
<1>4. line' = q
  <2>1. line' = (<< >> \o HeldOver(chunk)) \o tx_queue
    BY <1>1, LineNext DEF LineOf
  <2> QED
    BY <1>2, <2>1, LineParts, ConcatEmptySeq
<1>5. PICK k : k = Len(buffer)
  OBVIOUS
<1>6. /\ k \in 0 .. Len(line) /\ buffer = [i \in 1 .. k |-> line[i]]
      /\ line' = [i \in 1 .. Len(line) - k |-> line[i + k]]
  BY <1>3, <1>4, <1>5, LineParts, LineSplit
<1>7. CASE buffer # << >>
  <2>1. k \in 1 .. Len(line)
    <3>1. k \in Nat \ {0}
      BY <1>5, <1>7, LineParts
    <3> QED
      BY <1>6, <3>1
  <2>2. Chunked!Leave(k)
    BY <1>1, <1>6 DEF Chunked!Leave, Chunked!Behind, Chunked!Front
  <2> QED
    BY <2>1, <2>2
<1>8. CASE buffer = << >>
  <2>1. line = q /\ sent' = sent
    BY <1>1, <1>3, <1>8, LineParts, ConcatEmptySeq
  <2> QED
    BY <1>1, <1>4, <2>1 DEF Chunked!lineVars
<1> QED
  BY <1>7, <1>8

\* However pollTX gathers chunks, holds one over, fails to write and is flushed
\* from the other core: what it sends is the front of one line, which writers
\* join at its end, out of which a flush takes chunks, and which nobody
\* overtakes in.
THEOREM SpecImplementsLine == Spec => LineSpec
<1>1. Init => Chunked!Init
  <2> SUFFICES ASSUME Init PROVE Chunked!Init
    OBVIOUS
  <2>1. line = (<< >> \o << >>) \o << >>
    BY LineNow DEF Init, LineOf, HeldOver
  <2>2. << >> \in Seq(Nat)
    OBVIOUS
  <2>3. line = << >>
    BY <2>1, <2>2, ConcatEmptySeq
  <2> QED
    BY <2>3 DEF Init, Chunked!Init, NoChunk
<1>2. TypeOK /\ [Next]_vars => [Chunked!Next]_(Chunked!lineVars)
  BY ChunksMove, TypeParts, LineMade, LineQueued, LineFlushed, LineStays, LineWritten DEF Chunked!Next
<1> QED
  BY <1>1, <1>2, TypeInit, TypeStep, PTL DEF Spec, LineSpec, Chunked!Spec
=============================================================================
