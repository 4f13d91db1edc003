------------------------- MODULE SerialStreamProofs -------------------------
(***************************************************************************)
(* Theorems about SerialStream, for every size of the ring and of the FIFO  *)
(* and any number of characters.                                            *)
(***************************************************************************)
EXTENDS SerialStream, TLAPS

-----------------------------------------------------------------------------
(* The ring.  BUFCOUNT(s, t) is also how far slot s is behind the tail t.   *)

\* The slots between a tail and a head.
Held(h, t) == {s \in Slots : BUFCOUNT(s, t) < BUFCOUNT(h, t)}

LEMMA SlotRange ==
    /\ RX_BUFFER_SIZE \in Nat /\ RX_BUFFER_SIZE > 1 /\ 0 \in Slots
    /\ \A s \in Slots : s \in Nat /\ s < RX_BUFFER_SIZE
    /\ \A s \in Nat : s < RX_BUFFER_SIZE => s \in Slots
BY SerialAssumption DEF Slots

LEMMA Wrap ==
    ASSUME NEW s \in Slots, NEW i \in Nat, i < RX_BUFFER_SIZE
    PROVE  (s + i) % RX_BUFFER_SIZE =
               IF s + i < RX_BUFFER_SIZE THEN s + i ELSE s + i - RX_BUFFER_SIZE
<1>1. CASE s + i < RX_BUFFER_SIZE
  BY <1>1, SlotRange
<1>2. CASE s + i >= RX_BUFFER_SIZE
  BY <1>2, SlotRange
<1> QED
  BY <1>1, <1>2, SlotRange

LEMMA NextSlot ==
    ASSUME NEW s \in Slots
    PROVE  /\ next(s) \in Slots
           /\ next(s) = IF s + 1 = RX_BUFFER_SIZE THEN 0 ELSE s + 1
<1>1. next(s) = IF s + 1 < RX_BUFFER_SIZE THEN s + 1 ELSE s + 1 - RX_BUFFER_SIZE
  BY Wrap, SlotRange DEF next
<1> QED
  BY <1>1, SlotRange

LEMMA Distance ==
    ASSUME NEW s \in Slots, NEW t \in Slots
    PROVE  BUFCOUNT(s, t) \in Nat /\ BUFCOUNT(s, t) < RX_BUFFER_SIZE
BY SlotRange DEF BUFCOUNT

\* What is in the buffer is what its slots hold.
LEMMA BufferedHeld ==
    ASSUME NEW t \in Slots, head \in Slots
    PROVE  Buffered(t) = {data[s] : s \in Held(head, t)}
<1>1. ASSUME NEW i \in 0 .. BUFCOUNT(head, t) - 1
      PROVE  (t + i) % RX_BUFFER_SIZE \in Held(head, t)
  <2>1. i \in Nat /\ i < BUFCOUNT(head, t) /\ i < RX_BUFFER_SIZE
    <3>1. BUFCOUNT(head, t) \in Nat /\ BUFCOUNT(head, t) < RX_BUFFER_SIZE
      BY Distance
    <3> QED
      BY <3>1, SlotRange
  <2> DEFINE s == (t + i) % RX_BUFFER_SIZE
  <2>2. s = IF t + i < RX_BUFFER_SIZE THEN t + i ELSE t + i - RX_BUFFER_SIZE
    BY <2>1, Wrap
  <2>3. s \in Slots /\ BUFCOUNT(s, t) = i
    BY <2>1, <2>2, SlotRange DEF BUFCOUNT
  <2> QED
    BY <2>1, <2>3 DEF Held
<1>2. ASSUME NEW s \in Held(head, t)
      PROVE  /\ BUFCOUNT(s, t) \in 0 .. BUFCOUNT(head, t) - 1
             /\ s = (t + BUFCOUNT(s, t)) % RX_BUFFER_SIZE
  <2>1. s \in Slots /\ BUFCOUNT(s, t) < BUFCOUNT(head, t)
    BY DEF Held
  <2>2. BUFCOUNT(s, t) \in Nat /\ BUFCOUNT(s, t) < RX_BUFFER_SIZE /\ BUFCOUNT(head, t) \in Nat
    BY <2>1, Distance
  <2>3. s = (t + BUFCOUNT(s, t)) % RX_BUFFER_SIZE
    <3> DEFINE i == BUFCOUNT(s, t)
    <3>1. (t + i) % RX_BUFFER_SIZE =
             IF t + i < RX_BUFFER_SIZE THEN t + i ELSE t + i - RX_BUFFER_SIZE
      BY <2>2, Wrap
    <3>2. i = IF s >= t THEN s - t ELSE s + RX_BUFFER_SIZE - t
      BY DEF BUFCOUNT
    <3> HIDE DEF i
    <3>3. s = (t + i) % RX_BUFFER_SIZE
      BY <2>1, <3>1, <3>2, SlotRange
    <3> QED
      BY <3>3 DEF i
  <2> QED
    BY <2>1, <2>2, <2>3
<1> QED
  BY <1>1, <1>2 DEF Buffered

\* A character is put into the slot at the head.
LEMMA HeldInsert ==
    ASSUME NEW h \in Slots, NEW t \in Slots, next(h) # t
    PROVE  /\ Held(next(h), t) = Held(h, t) \cup {h}
           /\ h \notin Held(h, t)
           /\ \A s \in Held(h, t) : BUFCOUNT(s, t) < BUFCOUNT(h, t)
<1>1. \A s \in Slots : BUFCOUNT(s, t) < BUFCOUNT(next(h), t)
                          <=> BUFCOUNT(s, t) < BUFCOUNT(h, t) \/ s = h
  BY NextSlot, SlotRange DEF BUFCOUNT
<1>2. ~ BUFCOUNT(h, t) < BUFCOUNT(h, t)
  BY Distance
<1> QED
  BY <1>1, <1>2 DEF Held

\* The one at the tail is taken out.
LEMMA HeldAdvance ==
    ASSUME NEW h \in Slots, NEW t \in Slots, t # h
    PROVE  /\ t \in Held(h, t)
           /\ Held(h, next(t)) = Held(h, t) \ {t}
           /\ \A s \in Held(h, t) \ {t} : BUFCOUNT(t, t) < BUFCOUNT(s, t)
           /\ \A s1, s2 \in Held(h, t) \ {t} :
                 BUFCOUNT(s1, next(t)) < BUFCOUNT(s2, next(t))
                    => BUFCOUNT(s1, t) < BUFCOUNT(s2, t)
<1>1. BUFCOUNT(t, t) = 0 /\ BUFCOUNT(h, t) > 0
  BY SlotRange DEF BUFCOUNT
<1>2. \A s \in Slots \ {t} : BUFCOUNT(s, t) = BUFCOUNT(s, next(t)) + 1
  BY NextSlot, SlotRange DEF BUFCOUNT
<1>3. BUFCOUNT(t, next(t)) = RX_BUFFER_SIZE - 1
  BY NextSlot, SlotRange DEF BUFCOUNT
<1>4. \A s \in Slots : BUFCOUNT(s, next(t)) \in Nat /\ BUFCOUNT(s, next(t)) < RX_BUFFER_SIZE
  BY NextSlot, Distance
<1>5. \A s \in Slots \ {t} : BUFCOUNT(s, next(t)) < BUFCOUNT(h, next(t)) <=> BUFCOUNT(s, t) < BUFCOUNT(h, t)
  BY <1>2, <1>4
<1>6. ~ BUFCOUNT(t, next(t)) < BUFCOUNT(h, next(t))
  BY <1>3, <1>4, SlotRange
<1>7. Held(h, next(t)) = Held(h, t) \ {t}
  BY <1>5, <1>6 DEF Held
<1>8. \A s \in Held(h, t) \ {t} : s \in Slots \ {t}
  BY DEF Held
<1> QED
  BY <1>1, <1>2, <1>4, <1>7, <1>8, SlotRange DEF Held

LEMMA HeldEmpty ==
    ASSUME NEW h \in Slots
    PROVE  Held(h, h) = {} /\ Held(next(h), h) = {h}
<1>1. BUFCOUNT(h, h) = 0 /\ \A s \in Slots : BUFCOUNT(s, h) \in Nat
  BY Distance, SlotRange DEF BUFCOUNT
<1>2. Held(h, h) = {}
  BY <1>1 DEF Held
<1>3. next(h) # h
  BY NextSlot, SlotRange
<1> QED
  BY <1>2, <1>3, HeldInsert

\* A later tail leaves a part, in the same order.
LEMMA HeldLater ==
    ASSUME NEW h \in Slots, NEW t \in Slots, NEW b \in Slots,
           BUFCOUNT(b, t) <= BUFCOUNT(h, t)
    PROVE  /\ Held(h, b) \subseteq Held(h, t)
           /\ \A s1, s2 \in Held(h, b) :
                 BUFCOUNT(s1, b) < BUFCOUNT(s2, b) => BUFCOUNT(s1, t) < BUFCOUNT(s2, t)
<1>1. \A s \in Slots : BUFCOUNT(s, b) < BUFCOUNT(h, b)
                          => BUFCOUNT(s, t) = BUFCOUNT(s, b) + BUFCOUNT(b, t)
  BY SlotRange DEF BUFCOUNT
<1>2. BUFCOUNT(h, t) = BUFCOUNT(h, b) + BUFCOUNT(b, t)
  BY SlotRange DEF BUFCOUNT
<1>3. BUFCOUNT(h, b) \in Nat /\ BUFCOUNT(b, t) \in Nat /\ \A s \in Slots : BUFCOUNT(s, b) \in Nat
  BY Distance
<1>4. \A s \in Held(h, b) : s \in Slots /\ BUFCOUNT(s, t) = BUFCOUNT(s, b) + BUFCOUNT(b, t)
  BY <1>1 DEF Held
<1>5. \A s \in Held(h, b) : BUFCOUNT(s, b) < BUFCOUNT(h, b)
  BY DEF Held
<1> QED
  BY <1>2, <1>3, <1>4, <1>5 DEF Held
-----------------------------------------------------------------------------
(* The inductive invariants.                                                *)

Numbers == 1 .. Len(kind)

\* What the FIFO holds: characters in the order of their arrival, none of which
\* the interrupt has read.
FifoInv ==
    /\ inNvs \subseteq Numbers
    /\ \A i \in 1 .. Len(fifo) : fifo[i] \in Numbers /\ fifo[i] \notin inNvs
    /\ \A i, j \in 1 .. Len(fifo) : i < j => fifo[i] < fifo[j]

\* A character that may be in the line buffer, now or in the past.
Legal(n) == n # NoChar => n \in Numbers /\ (kind[n] = "hold" => n \in inNvs)

HandlerInv ==
    /\ enqueue_realtime_command = "nvs" <=> pc = "nvs"
    /\ Legal(ch)
    /\ \A s \in Slots : Legal(data[s])
    /\ \A i \in 1 .. Len(consumed) : Legal(consumed[i])

\* What a call of the task knows of the ring, as long as nothing has raced.
CallInv ==
    /\ pc \in {"read", "advance"} => bptr = tail /\ tail # head
    /\ pc = "advance" => ch = data[tail]
    /\ pc = "flush" => BUFCOUNT(bptr, tail) <= BUFCOUNT(head, tail)
    /\ pc \in {"cancel", "cancel_head"} =>
          /\ ch = data[head] /\ ch \in Numbers /\ kind[ch] = "stop"
          /\ \A i \in 1 .. Len(consumed) : consumed[i] < ch
    /\ pc = "cancel_head" => tail = head

\* A character that is not an ASCII_CAN is older than n.
Older(c, n) == kind[c] # "stop" => c < n

\* What was read is older than what is in the buffer, which is older than what
\* is in the FIFO; each of the three is in order.
OrderInv ==
    /\ \A i \in 1 .. Len(consumed) : consumed[i] \in Numbers
    /\ \A s \in Held(head, tail) : data[s] \in Numbers
    /\ \A i, j \in 1 .. Len(consumed) : i < j => Older(consumed[i], consumed[j])
    /\ \A i \in 1 .. Len(consumed) : \A s \in Held(head, tail) : Older(consumed[i], data[s])
    /\ \A i \in 1 .. Len(consumed) : \A j \in 1 .. Len(fifo) : Older(consumed[i], fifo[j])
    /\ \A s1, s2 \in Held(head, tail) :
          BUFCOUNT(s1, tail) < BUFCOUNT(s2, tail) => Older(data[s1], data[s2])
    /\ \A s \in Held(head, tail) : \A j \in 1 .. Len(fifo) : Older(data[s], fifo[j])

RingInv == ~ raced => CallInv /\ OrderInv

\* Where the characters that are not real-time commands are.
Accounted(n) ==
    \/ n \in discarded \cup cancelled
    \/ \E s \in Held(head, tail) : data[s] = n
    \/ \E i \in 1 .. Len(consumed) : consumed[i] = n
    \/ \E i \in 1 .. Len(fifo) : fifo[i] = n
    \/ pc \in {"cancel", "cancel_head"} /\ ch = n
    \/ kind[n] = "control"
    \/ kind[n] = "hold" /\ n \notin inNvs
    \/ kind[n] = "stop" /\ n \in inNvs

KeptInv == ~ raced => \A n \in Numbers : Accounted(n)

-----------------------------------------------------------------------------
(* Types.                                                                   *)

LEMMA TypeInit == Init => TypeOK
BY SlotRange DEF Init, TypeOK, NoChar

LEMMA BufferedType ==
    ASSUME TypeOK, NEW t \in Slots
    PROVE  Buffered(t) \subseteq Nat
<1>1. Buffered(t) = {data[s] : s \in Held(head, t)}
  BY BufferedHeld DEF TypeOK
<1> QED
  BY <1>1 DEF TypeOK, Held

LEMMA TypeArrive ==
    ASSUME TypeOK, NEW k \in CharKinds, Arrive(k)
    PROVE  TypeOK'
<1>1. Len(kind) + 1 \in Nat /\ kind' \in Seq(CharKinds)
  BY DEF TypeOK, Arrive
<1>2. fifo' \in Seq(Nat) /\ ovf_int' \in BOOLEAN /\ discarded' \subseteq Nat /\ unflagged' \subseteq Nat
  <2>1. CASE Len(fifo) < FifoLen
    <3>1. fifo' = Append(fifo, Len(kind) + 1) /\ UNCHANGED <<ovf_int, discarded, unflagged>>
      BY <2>1 DEF Arrive
    <3>2. fifo' \in Seq(Nat)
      BY <1>1, <3>1 DEF TypeOK
    <3> QED
      BY <3>1, <3>2 DEF TypeOK
  <2>2. CASE ~ Len(fifo) < FifoLen
    BY <1>1, <2>2 DEF TypeOK, Arrive
  <2> QED
    BY <2>1, <2>2
<1>3. UNCHANGED <<ring, task, int_enabled, enqueue_realtime_command, consumed, cancelled, inNvs, raced>>
  BY DEF Arrive
<1> QED
  BY <1>1, <1>2, <1>3 DEF TypeOK, ring, task

\* The character that the interrupt reads.
LEMMA TypeFifo ==
    ASSUME TypeOK, fifo # << >>
    PROVE  Head(fifo) \in Nat /\ Tail(fifo) \in Seq(Nat)
BY DEF TypeOK

LEMMA TypeIsr ==
    ASSUME TypeOK, uart_isr
    PROVE  TypeOK'
<1> DEFINE c == Head(fifo)
<1>1. /\ c \in Nat /\ fifo' \in Seq(Nat) /\ ovf_int' = FALSE
      /\ inNvs' \subseteq Nat
      /\ UNCHANGED <<task, int_enabled, enqueue_realtime_command, kind, consumed>>
  BY TypeFifo DEF uart_isr, TypeOK
<1>2. next(head) \in Slots /\ Buffered(tail) \subseteq Nat
  BY NextSlot, BufferedType DEF TypeOK
<1> HIDE DEF c
<1>3. ASSUME Insert(c), raced' = (raced \/ Cancelling), UNCHANGED <<tail, cancelled>>
      PROVE  TypeOK'
  BY <1>1, <1>2, <1>3 DEF TypeOK, Insert, task, Cancelling
<1>4. ASSUME CancelInIsr(c)
      PROVE  TypeOK'
  BY <1>1, <1>2, <1>4 DEF TypeOK, CancelInIsr, task
<1>5. ASSUME overflow' = (overflow \/ ovf_int),
             UNCHANGED <<data, head, tail, discarded, cancelled, unflagged, raced>>
      PROVE  TypeOK'
  BY <1>1, <1>5 DEF TypeOK, task
<1> QED
  BY <1>3, <1>4, <1>5 DEF uart_isr, c

LEMMA TypeRead ==
    ASSUME TypeOK, Read
    PROVE  TypeOK'
<1>1. CASE ReadTail
  BY <1>1 DEF ReadTail, TypeOK, Goto, hw, ring, history
<1>2. CASE ReadData
  BY <1>2 DEF ReadData, TypeOK, Goto, hw, ring, history
<1>3. CASE ReadAdvance
  <2>1. consumed' \in Seq(Nat) /\ tail' \in Slots /\ ch' = 0 /\ bptr' = 0
    BY <1>3, NextSlot DEF ReadAdvance, TypeOK, NoChar
  <2> QED
    BY <1>3, <2>1, SlotRange DEF ReadAdvance, TypeOK, Goto, hw
<1> QED
  BY <1>1, <1>2, <1>3 DEF Read

LEMMA TypeFlush ==
    ASSUME TypeOK, FlushFifo \/ FlushHead \/ FlushBuffer \/ Disable \/ Enable
    PROVE  TypeOK'
<1>0. /\ \A i \in 1 .. Len(fifo) : fifo[i] \in Nat
      /\ Buffered(tail) \subseteq Nat /\ 0 \in Slots /\ << >> \in Seq(Nat)
  <2>1. Buffered(tail) \subseteq Nat
    BY BufferedType DEF TypeOK
  <2>2. \A i \in 1 .. Len(fifo) : fifo[i] \in Nat
    BY DEF TypeOK
  <2> QED
    BY <2>1, <2>2, SlotRange
<1>1. CASE FlushFifo
  BY <1>0, <1>1 DEF FlushFifo, TypeOK, Goto, ring
<1>2. CASE FlushBuffer
  BY <1>0, <1>2 DEF FlushBuffer, TypeOK, Goto, hw
<1>3. CASE Disable
  BY <1>3 DEF Disable, TypeOK, ring, task, history
<1>4. CASE Enable
  BY <1>0, <1>4 DEF Enable, TypeOK, task
<1>5. CASE FlushHead
  BY <1>5 DEF FlushHead, TypeOK, Goto, hw, ring, history
<1> QED
  BY <1>1, <1>2, <1>3, <1>4, <1>5

LEMMA TypeCancel ==
    ASSUME TypeOK, CancelMark \/ CancelTail \/ CancelHead
    PROVE  TypeOK'
<1>0. Buffered(tail) \subseteq Nat /\ next(tail) \in Slots
  BY BufferedType, NextSlot DEF TypeOK
<1>1. CASE CancelMark
  <2>1. Len(kind) + 1 \in Nat /\ kind' \in Seq(CharKinds)
    BY <1>1 DEF CancelMark, TypeOK, CharKinds
  <2> QED
    BY <1>1, <2>1 DEF CancelMark, TypeOK, Goto, hw
<1>2. CASE CancelTail
  BY <1>0, <1>2 DEF CancelTail, TypeOK, Goto, hw
<1>3. CASE CancelHead
  BY <1>0, <1>3 DEF CancelHead, TypeOK, Goto, hw, history, NoChar
<1> QED
  BY <1>1, <1>2, <1>3

LEMMA TypeStep == TypeOK /\ [Next]_vars => TypeOK'
<1> SUFFICES ASSUME TypeOK, [Next]_vars PROVE TypeOK'
  OBVIOUS
<1>1. CASE NvsWriteBegin \/ NvsWriteEnd
  BY <1>1 DEF NvsWriteBegin, NvsWriteEnd, TypeOK, Goto, hw, ring, history
<1>2. CASE UNCHANGED vars
  BY <1>2 DEF TypeOK, vars
<1>3. CASE OverflowIsr
  BY <1>3 DEF OverflowIsr, TypeOK, task, history
<1> QED
  BY <1>1, <1>2, <1>3, TypeArrive, TypeIsr, TypeRead, TypeFlush, TypeCancel DEF Next, Task

\* The variables keep their types; in particular head, tail and the reader's
\* position stay inside the buffer.
THEOREM SpecTypeOK == Spec => []TypeOK
BY TypeInit, TypeStep, PTL DEF Spec

-----------------------------------------------------------------------------
(* A loss is announced.                                                     *)

LEMMA FlaggedIsr ==
    ASSUME TypeOK, LossIsFlagged, uart_isr
    PROVE  LossIsFlagged'
<1> DEFINE c == Head(fifo)
<1>1. CASE Insert(c)
  BY <1>1 DEF Insert, LossIsFlagged, TypeOK
<1>2. CASE overflow' = (overflow \/ ovf_int) /\ UNCHANGED unflagged
  BY <1>2 DEF LossIsFlagged, TypeOK
<1> QED
  BY <1>1, <1>2 DEF uart_isr, CancelInIsr

LEMMA FlaggedStep == TypeOK /\ LossIsFlagged /\ [Next]_vars => LossIsFlagged'
<1> SUFFICES ASSUME TypeOK, LossIsFlagged, [Next]_vars PROVE LossIsFlagged'
  OBVIOUS
<1>1. ASSUME NEW k \in CharKinds, Arrive(k)
      PROVE  LossIsFlagged'
  BY <1>1 DEF Arrive, LossIsFlagged, ring
<1>2. CASE FlushBuffer \/ Enable
  BY <1>2 DEF FlushBuffer, Enable, LossIsFlagged
<1>3. CASE UNCHANGED <<overflow, ovf_int, unflagged>>
  BY <1>3 DEF LossIsFlagged
<1>4. CASE OverflowIsr
  BY <1>4 DEF OverflowIsr, LossIsFlagged
<1> QED
  BY <1>1, <1>2, <1>3, <1>4, FlaggedIsr
     DEF Next, Task, Read, ReadTail, ReadData, ReadAdvance, FlushFifo, FlushHead, Disable, CancelMark,
         CancelTail, CancelHead, NvsWriteBegin, NvsWriteEnd, hw, ring, history, vars

\* However the interrupt, a flush and a cancel interleave: a character that was
\* lost to a full buffer or a full FIFO has the overflow flag set, or the
\* interrupt that sets it pending, until the next flush.
THEOREM SpecLossIsFlagged == Spec => []LossIsFlagged
<1>1. Init => LossIsFlagged
  BY DEF Init, LossIsFlagged
<1> QED
  BY <1>1, TypeInit, TypeStep, FlaggedStep, PTL DEF Spec

-----------------------------------------------------------------------------
(* What is in the FIFO.                                                     *)

LEMMA FifoArrive ==
    ASSUME TypeOK, FifoInv, NEW k \in CharKinds, Arrive(k)
    PROVE  FifoInv'
<1> DEFINE n == Len(kind) + 1
<1>1. /\ Len(kind) \in Nat /\ Len(kind') = n /\ UNCHANGED inNvs
      /\ fifo \in Seq(Nat) /\ (fifo' = fifo \/ fifo' = Append(fifo, n))
  BY DEF TypeOK, Arrive
<1>2. inNvs \subseteq 1 .. Len(kind) /\ n \notin inNvs
  BY <1>1 DEF FifoInv, Numbers
<1>3. \A i \in 1 .. Len(fifo) : fifo[i] \in 1 .. n /\ fifo[i] \notin inNvs /\ fifo[i] < n
  BY <1>1 DEF FifoInv, Numbers
<1>4. CASE fifo' = fifo
  BY <1>1, <1>2, <1>3, <1>4 DEF FifoInv, Numbers
<1>5. CASE fifo' = Append(fifo, n)
  <2>1. /\ n \in Nat /\ Len(fifo) \in Nat /\ Len(fifo') = Len(fifo) + 1
        /\ \A i \in 1 .. Len(fifo) : fifo'[i] = fifo[i]
        /\ fifo'[Len(fifo) + 1] = n
    BY <1>1, <1>5
  <2>2. \A i \in 1 .. Len(fifo') : fifo'[i] \in 1 .. n /\ fifo'[i] \notin inNvs
    BY <1>2, <1>3, <2>1
  <2>3. \A i, j \in 1 .. Len(fifo') : i < j => fifo'[i] < fifo'[j]
    <3> SUFFICES ASSUME NEW i \in 1 .. Len(fifo'), NEW j \in 1 .. Len(fifo'), i < j
                 PROVE  fifo'[i] < fifo'[j]
      OBVIOUS
    <3>1. i \in 1 .. Len(fifo) /\ fifo'[i] = fifo[i]
      BY <2>1
    <3>2. CASE j = Len(fifo) + 1
      BY <1>3, <2>1, <3>1, <3>2
    <3>3. CASE j # Len(fifo) + 1
      <4>1. j \in 1 .. Len(fifo) /\ fifo'[j] = fifo[j]
        BY <2>1, <3>3
      <4> QED
        BY <3>1, <4>1 DEF FifoInv
    <3> QED
      BY <3>2, <3>3
  <2>4. inNvs \subseteq 1 .. n
    BY <1>1, <1>2
  <2> QED
    BY <1>1, <2>2, <2>3, <2>4 DEF FifoInv, Numbers
<1> QED
  BY <1>1, <1>4, <1>5

\* The character the interrupt takes out, and the ones it leaves.
LEMMA FifoTake ==
    ASSUME TypeOK, FifoInv, fifo # << >>
    PROVE  /\ Head(fifo) \in Numbers /\ Head(fifo) \notin inNvs /\ Head(fifo) = fifo[1]
           /\ Len(fifo) \in Nat \ {0} /\ Len(Tail(fifo)) = Len(fifo) - 1
           /\ \A i \in 1 .. Len(Tail(fifo)) : /\ Tail(fifo)[i] = fifo[i + 1]
                                              /\ i + 1 \in 1 .. Len(fifo)
                                              /\ Head(fifo) < Tail(fifo)[i]
<1>1. /\ Len(fifo) \in Nat \ {0} /\ Len(Tail(fifo)) = Len(fifo) - 1 /\ Head(fifo) = fifo[1]
      /\ \A i \in 1 .. Len(Tail(fifo)) : Tail(fifo)[i] = fifo[i + 1]
  BY DEF TypeOK
<1>2. \A i \in 1 .. Len(Tail(fifo)) : i + 1 \in 1 .. Len(fifo) /\ 1 < i + 1
  BY <1>1
<1>3. 1 \in 1 .. Len(fifo)
  BY <1>1
<1> QED
  BY <1>1, <1>2, <1>3 DEF FifoInv

LEMMA FifoIsr ==
    ASSUME TypeOK, FifoInv, uart_isr
    PROVE  FifoInv'
<1>1. /\ fifo # << >> /\ fifo' = Tail(fifo) /\ UNCHANGED kind
      /\ inNvs' = inNvs \/ inNvs' = inNvs \cup {Head(fifo)}
  BY DEF uart_isr
<1>2. Numbers' = Numbers
  BY <1>1 DEF Numbers
<1>3. inNvs' \subseteq Numbers
  BY <1>1, FifoTake DEF FifoInv
<1>4. ASSUME NEW i \in 1 .. Len(fifo')
      PROVE  fifo'[i] \in Numbers /\ fifo'[i] \notin inNvs'
  <2>1. fifo'[i] = fifo[i + 1] /\ i + 1 \in 1 .. Len(fifo) /\ Head(fifo) < fifo'[i] /\ Head(fifo) \in Nat
    BY <1>1, FifoTake, TypeFifo
  <2> QED
    BY <1>1, <2>1 DEF FifoInv
<1>5. ASSUME NEW i \in 1 .. Len(fifo'), NEW j \in 1 .. Len(fifo'), i < j
      PROVE  fifo'[i] < fifo'[j]
  <2>1. /\ fifo'[i] = fifo[i + 1] /\ i + 1 \in 1 .. Len(fifo)
        /\ fifo'[j] = fifo[j + 1] /\ j + 1 \in 1 .. Len(fifo)
    BY <1>1, FifoTake
  <2>2. i + 1 < j + 1
    BY <1>5, <1>1, FifoTake
  <2> QED
    BY <2>1, <2>2 DEF FifoInv
<1> QED
  BY <1>2, <1>3, <1>4, <1>5 DEF FifoInv

LEMMA FifoStep == TypeOK /\ FifoInv /\ [Next]_vars => FifoInv'
<1> SUFFICES ASSUME TypeOK, FifoInv, [Next]_vars PROVE FifoInv'
  OBVIOUS
<1>1. CASE FlushFifo \/ Enable
  BY <1>1 DEF FlushFifo, Enable, FifoInv, Numbers
<1>2. CASE CancelMark
  <2>1. Len(kind) \in Nat /\ Len(kind') = Len(kind) + 1 /\ UNCHANGED <<fifo, inNvs>>
    BY <1>2 DEF CancelMark, TypeOK, hw
  <2>2. Numbers \subseteq Numbers'
    BY <2>1 DEF Numbers
  <2> QED
    BY <2>1, <2>2 DEF FifoInv
<1>3. CASE UNCHANGED <<fifo, kind, inNvs>>
  BY <1>3 DEF FifoInv, Numbers
<1> QED
  BY <1>1, <1>2, <1>3, FifoArrive, FifoIsr
     DEF Next, Task, Read, ReadTail, ReadData, ReadAdvance, FlushHead, FlushBuffer, Disable, CancelTail,
         CancelHead, OverflowIsr, NvsWriteBegin, NvsWriteEnd, hw, ring, history, vars

LEMMA FifoInit == Init => FifoInv
BY DEF Init, FifoInv

-----------------------------------------------------------------------------
(* Which characters get into the line buffer.                               *)

\* A character keeps its kind.
LEMMA KindKept ==
    ASSUME TypeOK, NEW k \in CharKinds, kind' = Append(kind, k)
    PROVE  /\ Len(kind) \in Nat /\ Len(kind') = Len(kind) + 1
           /\ Numbers' = Numbers \cup {Len(kind) + 1} /\ Len(kind) + 1 \notin Numbers
           /\ Len(kind) + 1 \in Nat \ {0}
           /\ kind'[Len(kind) + 1] = k
           /\ \A n \in Numbers : n \in Nat /\ n # 0 /\ kind'[n] = kind[n] /\ n < Len(kind) + 1
<1>1. /\ Len(kind) \in Nat /\ Len(kind') = Len(kind) + 1 /\ kind'[Len(kind) + 1] = k
      /\ \A n \in 1 .. Len(kind) : kind'[n] = kind[n]
  BY DEF TypeOK
<1> QED
  BY <1>1 DEF Numbers

LEMMA LegalKept ==
    ASSUME TypeOK, NEW n, Legal(n), inNvs \subseteq inNvs',
           UNCHANGED kind \/ \E k \in CharKinds : kind' = Append(kind, k)
    PROVE  Legal(n)'
<1>1. CASE UNCHANGED kind
  BY <1>1 DEF Legal, Numbers
<1>2. ASSUME NEW k \in CharKinds, kind' = Append(kind, k)
      PROVE  Legal(n)'
  BY <1>2, KindKept DEF Legal
<1> QED
  BY <1>1, <1>2

\* Whatever a step puts into the buffer is legal, or was there before.
LEMMA HandlerBy ==
    ASSUME TypeOK, HandlerInv, inNvs \subseteq inNvs',
           UNCHANGED kind \/ \E k \in CharKinds : kind' = Append(kind, k),
           (enqueue_realtime_command = "nvs" <=> pc = "nvs")',
           Legal(ch)',
           \A s \in Slots : data'[s] = data[s] \/ Legal(data[s])',
           UNCHANGED consumed \/ consumed' = Append(consumed, ch)
    PROVE  HandlerInv'
<1>1. \A n : Legal(n) => Legal(n)'
  BY LegalKept
<1>2. ASSUME NEW s \in Slots
      PROVE  Legal(data[s])'
  <2>1. Legal(data[s])
    BY DEF HandlerInv
  <2>2. CASE data'[s] = data[s]
    BY <1>1, <2>1, <2>2 DEF Legal
  <2> QED
    BY <2>2
<1>3. ASSUME NEW i \in 1 .. Len(consumed')
      PROVE  Legal(consumed[i])'
  <2>1. CASE UNCHANGED consumed
    BY <1>1, <1>3, <2>1 DEF HandlerInv, Legal
  <2>2. CASE consumed' = Append(consumed, ch)
    <3>1. /\ Len(consumed) \in Nat /\ Len(consumed') = Len(consumed) + 1
          /\ consumed'[Len(consumed) + 1] = ch
          /\ \A j \in 1 .. Len(consumed) : consumed'[j] = consumed[j]
      BY <2>2 DEF TypeOK
    <3>2. CASE i = Len(consumed) + 1
      BY <1>1, <3>1, <3>2 DEF HandlerInv, Legal
    <3>3. CASE i \in 1 .. Len(consumed)
      BY <1>1, <3>1, <3>3 DEF HandlerInv, Legal
    <3> QED
      BY <1>3, <3>1, <3>2, <3>3
  <2> QED
    BY <2>1, <2>2
<1> QED
  BY <1>2, <1>3 DEF HandlerInv

LEMMA HandlerIsr ==
    ASSUME TypeOK, FifoInv, HandlerInv, uart_isr
    PROVE  HandlerInv'
<1>0. PICK c : c = Head(fifo)
  OBVIOUS
<1>1. /\ c \in Numbers
      /\ UNCHANGED <<pc, ch, enqueue_realtime_command, kind, consumed>>
      /\ inNvs' = IF pc = "nvs" THEN inNvs \cup {c} ELSE inNvs
  BY <1>0, FifoTake DEF uart_isr, task
<1>2. data' = data \/ (data' = [data EXCEPT ![head] = c] /\ (kind[c] = "hold" => c \in inNvs'))
  <2>1. CASE ~ Taken(c) /\ Insert(c)
    <3>1. kind[c] = "hold" => enqueue_realtime_command = "nvs"
      BY <2>1 DEF Taken, TypeOK
    <3> QED
      BY <1>1, <2>1, <3>1 DEF Insert, HandlerInv
  <2>2. CASE kind[c] = "stop" /\ CancelInIsr(c)
    BY <2>2 DEF CancelInIsr
  <2>3. CASE UNCHANGED data
    BY <2>3
  <2> QED
    BY <1>0, <2>1, <2>2, <2>3 DEF uart_isr
<1>3. (kind[c] = "hold" => c \in inNvs') => Legal(c)'
  BY <1>1 DEF Legal, Numbers
<1>4. \A s \in Slots : data'[s] = data[s] \/ Legal(data[s])'
  <2>1. CASE data' = [data EXCEPT ![head] = c] /\ Legal(c)'
    <3>1. \A s \in Slots : data'[s] = data[s] \/ data'[s] = c
      BY <2>1 DEF TypeOK
    <3> QED
      BY <2>1, <3>1 DEF Legal
  <2> QED
    BY <1>2, <1>3, <2>1
<1>5. Legal(ch)'
  BY <1>1, LegalKept DEF HandlerInv, Legal, Numbers
<1> QED
  BY <1>1, <1>4, <1>5, HandlerBy DEF HandlerInv

LEMMA HandlerStep == TypeOK /\ FifoInv /\ HandlerInv /\ [Next]_vars => HandlerInv'
<1> SUFFICES ASSUME TypeOK, FifoInv, HandlerInv, [Next]_vars PROVE HandlerInv'
  OBVIOUS
<1>1. ASSUME NEW k \in CharKinds, Arrive(k)
      PROVE  HandlerInv'
  <2>1. kind' = Append(kind, k) /\ UNCHANGED <<inNvs, data, ch, pc, enqueue_realtime_command, consumed>>
    BY <1>1 DEF Arrive, ring, task
  <2>2. Legal(ch)'
    <3>1. \A n : Legal(n) => Legal(n)'
      BY <2>1, LegalKept
    <3> QED
      BY <2>1, <3>1 DEF HandlerInv, Legal
  <2> QED
    BY <2>1, <2>2, HandlerBy DEF HandlerInv
<1>2. CASE CancelMark
  <2>0. PICK n : n = Len(kind) + 1
    OBVIOUS
  <2>1. /\ kind' = Append(kind, "stop") /\ "stop" \in CharKinds
        /\ ch' = n /\ data' = [data EXCEPT ![head] = n] /\ pc = "idle" /\ pc' = "cancel"
        /\ UNCHANGED <<inNvs, enqueue_realtime_command, consumed>>
    BY <1>2, <2>0 DEF CancelMark, Goto, CharKinds
  <2>2. Legal(n)'
    BY <2>0, <2>1, KindKept DEF Legal
  <2>3. \A s \in Slots : data'[s] = data[s] \/ Legal(data[s])'
    <3>1. \A s \in Slots : data'[s] = data[s] \/ data'[s] = n
      BY <2>1 DEF TypeOK
    <3> QED
      BY <2>2, <3>1 DEF Legal
  <2>4. Legal(ch)'
    BY <2>1, <2>2 DEF Legal
  <2> QED
    BY <2>1, <2>3, <2>4, HandlerBy DEF HandlerInv
<1>3. CASE ReadData
  <2>1. /\ UNCHANGED <<kind, inNvs, data, enqueue_realtime_command, consumed>>
        /\ ch' = data[bptr] /\ bptr \in Slots /\ pc = "read" /\ pc' = "advance"
    BY <1>3 DEF ReadData, Goto, ring, history, TypeOK
  <2>2. Legal(ch)'
    BY <2>1 DEF HandlerInv, Legal, Numbers
  <2> QED
    BY <2>1, <2>2, HandlerBy DEF HandlerInv
<1>4. CASE ReadAdvance
  <2>1. /\ UNCHANGED <<kind, inNvs, data, enqueue_realtime_command>>
        /\ consumed' = Append(consumed, ch) /\ pc = "advance" /\ pc' = "idle" /\ ch' = NoChar
    BY <1>4 DEF ReadAdvance, Goto
  <2>2. Legal(ch)'
    BY <2>1 DEF Legal
  <2> QED
    BY <2>1, <2>2, HandlerBy DEF HandlerInv
<1>5. CASE CancelHead
  <2>1. /\ UNCHANGED <<kind, inNvs, data, enqueue_realtime_command, consumed>>
        /\ pc = "cancel_head" /\ pc' = "idle" /\ ch' = NoChar
    BY <1>5 DEF CancelHead, Goto, history
  <2>2. Legal(ch)'
    BY <2>1 DEF Legal
  <2> QED
    BY <2>1, <2>2, HandlerBy DEF HandlerInv
<1>6. CASE \/ ReadTail \/ FlushFifo \/ FlushHead \/ FlushBuffer \/ Disable \/ Enable \/ CancelTail
           \/ OverflowIsr \/ NvsWriteBegin \/ NvsWriteEnd \/ UNCHANGED vars
  <2>1. /\ UNCHANGED <<kind, inNvs, data, ch, consumed>>
        /\ \/ UNCHANGED <<pc, enqueue_realtime_command>>
           \/ pc # "nvs" /\ pc' # "nvs" /\ UNCHANGED enqueue_realtime_command
           \/ pc' = "nvs" /\ enqueue_realtime_command' = "nvs"
           \/ pc' = "idle" /\ enqueue_realtime_command' = "standard"
    BY <1>6 DEF ReadTail, FlushFifo, FlushHead, FlushBuffer, Disable, Enable, CancelTail, OverflowIsr,
                NvsWriteBegin, NvsWriteEnd, Goto, ring, task, history, vars
  <2>2. Legal(ch)'
    BY <2>1 DEF HandlerInv, Legal, Numbers
  <2> QED
    BY <2>1, <2>2, HandlerBy DEF HandlerInv
<1> QED
  BY <1>1, <1>2, <1>3, <1>4, <1>5, <1>6, HandlerIsr DEF Next, Task, Read

\* A feed hold or cycle start gets into the line buffer, or is read from it,
\* only if the interrupt took it while settings were being written: the handler
\* that nvsWrite installs is gone whenever nvsWrite is not running.
THEOREM SpecRealtimeNotBuffered == Spec => []RealtimeNotBuffered
<1>1. Init => HandlerInv
  BY DEF Init, HandlerInv, Legal
<1>2. ASSUME TypeOK, HandlerInv PROVE RealtimeNotBuffered
  <2>1. \A n \in Buffered(tail) : Legal(n)
    BY <1>2, BufferedHeld DEF TypeOK, HandlerInv, Held
  <2>2. \A i \in 1 .. Len(consumed) : Legal(consumed[i])
    BY <1>2 DEF HandlerInv
  <2> QED
    BY <2>1, <2>2 DEF RealtimeNotBuffered, Legal
<1> QED
  BY <1>1, <1>2, TypeInit, TypeStep, FifoInit, FifoStep, HandlerStep, PTL DEF Spec

-----------------------------------------------------------------------------
(* The order of what was read, what is in the buffer and what is in the     *)
(* FIFO.                                                                    *)

KindGrows == UNCHANGED kind \/ \E k \in CharKinds : kind' = Append(kind, k)

LEMMA OlderKept ==
    ASSUME TypeOK, KindGrows
    PROVE  /\ Numbers \subseteq Numbers'
           /\ \A c \in Numbers : kind'[c] = kind[c]
           /\ \A c \in Numbers : \A n : Older(c, n) => Older(c, n)'
           /\ \A c \in Numbers : Older(c, Len(kind) + 1)
<1>1. Len(kind) \in Nat
  BY DEF TypeOK
<1>2. \A c \in Numbers : Older(c, Len(kind) + 1)
  BY <1>1 DEF Numbers, Older
<1>3. CASE UNCHANGED kind
  BY <1>2, <1>3 DEF Numbers, Older
<1>4. ASSUME NEW k \in CharKinds, kind' = Append(kind, k)
      PROVE  /\ Numbers \subseteq Numbers'
             /\ \A c \in Numbers : kind'[c] = kind[c]
             /\ \A c \in Numbers : \A n : Older(c, n) => Older(c, n)'
  BY <1>4, KindKept DEF Older
<1> QED
  BY <1>2, <1>3, <1>4 DEF KindGrows

\* A step that only takes characters out of the buffer, and puts none into the
\* FIFO but a new one, keeps the order.
LEMMA OrderBy ==
    ASSUME TypeOK, FifoInv, OrderInv, KindGrows, UNCHANGED consumed,
           \A s \in Held(head, tail)' : s \in Held(head, tail) /\ data'[s] = data[s],
           \A s1, s2 \in Held(head, tail)' :
              BUFCOUNT(s1, tail') < BUFCOUNT(s2, tail') => BUFCOUNT(s1, tail) < BUFCOUNT(s2, tail),
           \A j \in 1 .. Len(fifo') :
              fifo'[j] = Len(kind) + 1 \/ \E i \in 1 .. Len(fifo) : fifo'[j] = fifo[i]
    PROVE  OrderInv'
<1>1. \A i \in 1 .. Len(consumed') : consumed'[i] = consumed[i] /\ consumed'[i] \in Numbers'
  BY OlderKept DEF OrderInv
<1>2. \A s \in Held(head, tail)' : data'[s] = data[s] /\ data'[s] \in Numbers' /\ s \in Held(head, tail)
  BY OlderKept DEF OrderInv
<1>3. \A i, j \in 1 .. Len(consumed') : i < j => Older(consumed[i], consumed[j])'
  <2>1. ASSUME NEW i \in 1 .. Len(consumed'), NEW j \in 1 .. Len(consumed'), i < j
        PROVE  Older(consumed[i], consumed[j])'
    <3>1. i \in 1 .. Len(consumed) /\ j \in 1 .. Len(consumed) /\ consumed'[i] = consumed[i] /\ consumed'[j] = consumed[j]
      OBVIOUS
    <3>2. Older(consumed[i], consumed[j]) /\ consumed[i] \in Numbers
      BY <2>1, <3>1 DEF OrderInv
    <3> QED
      BY <3>1, <3>2, OlderKept DEF Older
  <2> QED
    BY <2>1
<1>4. ASSUME NEW i \in 1 .. Len(consumed'), NEW s \in Held(head, tail)'
      PROVE  Older(consumed[i], data[s])'
  <2>1. Older(consumed[i], data[s]) /\ consumed[i] \in Numbers
    BY <1>2 DEF OrderInv
  <2> QED
    BY <1>1, <1>2, <2>1, OlderKept DEF Older
<1>5. ASSUME NEW i \in 1 .. Len(consumed'), NEW j \in 1 .. Len(fifo')
      PROVE  Older(consumed[i], fifo[j])'
  <2>1. consumed[i] \in Numbers /\ consumed'[i] = consumed[i]
    BY DEF OrderInv
  <2>2. Older(consumed[i], fifo'[j])
    BY <2>1, OlderKept DEF OrderInv
  <2> QED
    BY <2>1, <2>2, OlderKept DEF Older
<1>6. ASSUME NEW s1 \in Held(head, tail)', NEW s2 \in Held(head, tail)',
             BUFCOUNT(s1, tail') < BUFCOUNT(s2, tail')
      PROVE  Older(data[s1], data[s2])'
  <2>1. Older(data[s1], data[s2]) /\ data[s1] \in Numbers
    BY <1>2, <1>6 DEF OrderInv
  <2> QED
    BY <1>2, <2>1, OlderKept DEF Older
<1>7. ASSUME NEW s \in Held(head, tail)', NEW j \in 1 .. Len(fifo')
      PROVE  Older(data[s], fifo[j])'
  <2>1. data[s] \in Numbers /\ data'[s] = data[s]
    BY <1>2 DEF OrderInv
  <2>2. Older(data[s], fifo'[j])
    BY <1>2, <2>1, OlderKept DEF OrderInv
  <2> QED
    BY <2>1, <2>2, OlderKept DEF Older
<1>8. \A s1, s2 \in Held(head, tail)' :
         BUFCOUNT(s1, tail)' < BUFCOUNT(s2, tail)' => Older(data[s1], data[s2])'
  BY <1>6 DEF BUFCOUNT
<1> QED
  BY <1>1, <1>2, <1>3, <1>4, <1>5, <1>7, <1>8 DEF OrderInv

\* The interrupt puts the oldest character of the FIFO into the slot at the
\* head, behind what is still in the buffer.
LEMMA OrderPut ==
    ASSUME TypeOK, FifoInv, OrderInv, fifo # << >>, UNCHANGED <<kind, consumed>>,
           fifo' = Tail(fifo), data' = [data EXCEPT ![head] = Head(fifo)],
           head \notin Held(head, tail),
           \A s \in Held(head, tail)' : s = head \/ s \in Held(head, tail),
           \A s1, s2 \in Held(head, tail)' :
              BUFCOUNT(s1, tail') < BUFCOUNT(s2, tail') =>
                 /\ s1 # head
                 /\ s2 # head => BUFCOUNT(s1, tail) < BUFCOUNT(s2, tail)
    PROVE  OrderInv'
<1>0. PICK c : c = Head(fifo)
  OBVIOUS
<1>1. /\ c \in Numbers /\ c = fifo[1] /\ 1 \in 1 .. Len(fifo)
      /\ \A j \in 1 .. Len(fifo') : /\ fifo'[j] = fifo[j + 1] /\ j + 1 \in 1 .. Len(fifo)
                                    /\ c < fifo'[j]
  BY <1>0, FifoTake
<1>2. \A s \in Held(head, tail)' : /\ s = head => data'[s] = c
                                   /\ s # head => s \in Held(head, tail) /\ data'[s] = data[s]
  <2>1. head \in Slots /\ data \in [Slots -> Nat]
    BY DEF TypeOK
  <2>2. \A s \in Held(head, tail)' : s \in Slots
    BY DEF Held
  <2> QED
    BY <1>0, <2>1, <2>2
<1>3. KindGrows /\ Numbers' = Numbers
  BY DEF KindGrows, Numbers
<1>4. \A a \in Numbers : \A b : Older(a, b) => Older(a, b)'
  BY <1>3, OlderKept
<1>5. \A i \in 1 .. Len(consumed) : consumed[i] \in Numbers /\ Older(consumed[i], c)
  BY <1>1 DEF OrderInv
<1>6. \A s \in Held(head, tail) : data[s] \in Numbers /\ Older(data[s], c)
  BY <1>1 DEF OrderInv
<1>7. \A i \in 1 .. Len(consumed') : consumed'[i] \in Numbers'
  BY <1>3, <1>5
<1>8. \A s \in Held(head, tail)' : data'[s] \in Numbers'
  BY <1>1, <1>2, <1>3, <1>6
<1>9. ASSUME NEW i \in 1 .. Len(consumed'), NEW j \in 1 .. Len(consumed'), i < j
      PROVE  Older(consumed[i], consumed[j])'
  BY <1>9 DEF OrderInv, Older
<1>10. ASSUME NEW i \in 1 .. Len(consumed'), NEW s \in Held(head, tail)'
       PROVE  Older(consumed[i], data[s])'
  <2>1. CASE s = head
    BY <1>2, <1>5, <2>1 DEF Older
  <2>2. CASE s # head
    BY <1>2, <2>2 DEF Older, OrderInv
  <2> QED
    BY <2>1, <2>2
<1>11. ASSUME NEW i \in 1 .. Len(consumed'), NEW j \in 1 .. Len(fifo')
       PROVE  Older(consumed[i], fifo[j])'
  BY <1>1 DEF Older, OrderInv
<1>12. ASSUME NEW s1 \in Held(head, tail)', NEW s2 \in Held(head, tail)',
              BUFCOUNT(s1, tail') < BUFCOUNT(s2, tail')
       PROVE  Older(data[s1], data[s2])'
  <2>1. s1 # head /\ s1 \in Held(head, tail) /\ data'[s1] = data[s1]
    BY <1>2, <1>12
  <2>2. CASE s2 = head
    BY <1>2, <1>6, <2>1, <2>2 DEF Older
  <2>3. CASE s2 # head
    BY <1>2, <1>12, <2>1, <2>3 DEF Older, OrderInv
  <2> QED
    BY <2>2, <2>3
<1>13. ASSUME NEW s \in Held(head, tail)', NEW j \in 1 .. Len(fifo')
       PROVE  Older(data[s], fifo[j])'
  <2>1. CASE s = head
    BY <1>1, <1>2, <2>1 DEF Older
  <2>2. CASE s # head
    BY <1>1, <1>2, <2>2 DEF Older, OrderInv
  <2> QED
    BY <2>1, <2>2
<1>14. \A s1, s2 \in Held(head, tail)' :
          BUFCOUNT(s1, tail)' < BUFCOUNT(s2, tail)' => Older(data[s1], data[s2])'
  BY <1>12 DEF BUFCOUNT
<1> QED
  BY <1>7, <1>8, <1>9, <1>10, <1>11, <1>13, <1>14 DEF OrderInv

\* The reader takes the character at the tail, which is older than the others.
LEMMA OrderAdvance ==
    ASSUME TypeOK, FifoInv, OrderInv, CallInv, ReadAdvance
    PROVE  OrderInv'
<1>1. /\ tail \in Slots /\ head \in Slots /\ tail # head /\ ch = data[tail]
      /\ tail' = next(tail) /\ consumed' = Append(consumed, ch)
      /\ UNCHANGED <<head, data, fifo, kind>>
  BY DEF ReadAdvance, Goto, CallInv, TypeOK, hw
<1>2. /\ tail \in Held(head, tail)
      /\ Held(head, tail)' = Held(head, tail) \ {tail}
      /\ \A s \in Held(head, tail)' : BUFCOUNT(tail, tail) < BUFCOUNT(s, tail)
      /\ \A s1, s2 \in Held(head, tail)' :
            BUFCOUNT(s1, tail)' < BUFCOUNT(s2, tail)' => BUFCOUNT(s1, tail) < BUFCOUNT(s2, tail)
  BY <1>1, HeldAdvance DEF Held, BUFCOUNT
<1>3. /\ Len(consumed) \in Nat /\ Len(consumed') = Len(consumed) + 1
      /\ consumed'[Len(consumed) + 1] = ch
      /\ \A i \in 1 .. Len(consumed) : consumed'[i] = consumed[i]
  BY <1>1 DEF TypeOK
<1>4. Numbers' = Numbers /\ \A a, b : Older(a, b)' <=> Older(a, b)
  BY <1>1 DEF Numbers, Older
<1>5. ch \in Numbers
  BY <1>1, <1>2 DEF OrderInv
<1>6. \A i \in 1 .. Len(consumed') :
         (i = Len(consumed) + 1 /\ consumed'[i] = ch) \/ (i \in 1 .. Len(consumed) /\ consumed'[i] = consumed[i])
  BY <1>3
<1>7. \A i \in 1 .. Len(consumed') : consumed'[i] \in Numbers'
  BY <1>4, <1>5, <1>6 DEF OrderInv
<1>8. \A s \in Held(head, tail)' : s \in Held(head, tail) /\ data'[s] = data[s] /\ data'[s] \in Numbers'
  BY <1>1, <1>2, <1>4 DEF OrderInv
<1>9. ASSUME NEW i \in 1 .. Len(consumed'), NEW j \in 1 .. Len(consumed'), i < j
      PROVE  Older(consumed[i], consumed[j])'
  <2>1. i \in 1 .. Len(consumed) /\ consumed'[i] = consumed[i]
    BY <1>3, <1>9
  <2>2. CASE j = Len(consumed) + 1
    BY <1>1, <1>2, <1>3, <1>4, <2>1, <2>2 DEF OrderInv, Older
  <2>3. CASE j \in 1 .. Len(consumed)
    BY <1>3, <1>4, <1>9, <2>1, <2>3 DEF OrderInv, Older
  <2> QED
    BY <1>6, <2>2, <2>3
<1>10. ASSUME NEW i \in 1 .. Len(consumed'), NEW s \in Held(head, tail)'
       PROVE  Older(consumed[i], data[s])'
  <2>1. CASE i \in 1 .. Len(consumed)
    BY <1>3, <1>8, <2>1 DEF OrderInv, Older, ReadAdvance
  <2>2. CASE i = Len(consumed) + 1
    BY <1>1, <1>2, <1>3, <1>8, <2>2 DEF OrderInv, Older
  <2> QED
    BY <1>6, <2>1, <2>2
<1>11. ASSUME NEW i \in 1 .. Len(consumed'), NEW j \in 1 .. Len(fifo')
       PROVE  Older(consumed[i], fifo[j])'
  <2>1. CASE i \in 1 .. Len(consumed)
    BY <1>1, <1>3, <2>1 DEF OrderInv, Older
  <2>2. CASE i = Len(consumed) + 1
    BY <1>1, <1>2, <1>3, <2>2 DEF OrderInv, Older
  <2> QED
    BY <1>6, <2>1, <2>2
<1>12. \A s1, s2 \in Held(head, tail)' :
          BUFCOUNT(s1, tail)' < BUFCOUNT(s2, tail)' => Older(data[s1], data[s2])'
  BY <1>1, <1>2, <1>8 DEF OrderInv, Older
<1>13. \A s \in Held(head, tail)' : \A j \in 1 .. Len(fifo') : Older(data[s], fifo[j])'
  BY <1>1, <1>8 DEF OrderInv, Older
<1> QED
  BY <1>7, <1>8, <1>9, <1>10, <1>11, <1>12, <1>13 DEF OrderInv

\* A cancel of the task leaves its ASCII_CAN, the newest character.
LEMMA OrderCancelHead ==
    ASSUME TypeOK, FifoInv, OrderInv, CallInv, CancelHead
    PROVE  OrderInv'
<1>1. /\ tail \in Slots /\ tail = head /\ head' = next(tail)
      /\ UNCHANGED <<tail, data, fifo, kind, consumed>>
      /\ data[head] \in Numbers /\ kind[data[head]] = "stop"
      /\ \A i \in 1 .. Len(consumed) : consumed[i] < data[head]
  BY DEF CancelHead, Goto, CallInv, TypeOK, hw, history
<1>2. Held(head, tail)' = {head}
  BY <1>1, HeldEmpty
<1>3. Numbers' = Numbers /\ \A a, b : Older(a, b)' <=> Older(a, b)
  BY <1>1 DEF Numbers, Older
<1>4. \A s \in Held(head, tail)' : data'[s] \in Numbers' /\ kind'[data'[s]] = "stop"
  BY <1>1, <1>2, <1>3
<1>5. \A i \in 1 .. Len(consumed') : \A s \in Held(head, tail)' : Older(consumed[i], data[s])'
  BY <1>1, <1>2 DEF Older
<1>6. /\ \A i \in 1 .. Len(consumed') : consumed'[i] \in Numbers'
      /\ \A i, j \in 1 .. Len(consumed') : i < j => Older(consumed[i], consumed[j])'
      /\ \A i \in 1 .. Len(consumed') : \A j \in 1 .. Len(fifo') : Older(consumed[i], fifo[j])'
  BY <1>1, <1>3 DEF OrderInv, Older
<1>7. \A s1, s2 \in Held(head, tail)' :
         BUFCOUNT(s1, tail)' < BUFCOUNT(s2, tail)' => Older(data[s1], data[s2])'
  BY <1>4 DEF Older
<1>8. \A s \in Held(head, tail)' : \A j \in 1 .. Len(fifo') : Older(data[s], fifo[j])'
  BY <1>4 DEF Older
<1> QED
  BY <1>4, <1>5, <1>6, <1>7, <1>8 DEF OrderInv

\* Steps that leave the ring alone.
LEMMA OrderAside ==
    ASSUME TypeOK, FifoInv, OrderInv, KindGrows, UNCHANGED <<consumed, head, tail>>,
           \A s \in Slots : s = head \/ data'[s] = data[s],
           \A j \in 1 .. Len(fifo') :
              fifo'[j] = Len(kind) + 1 \/ \E i \in 1 .. Len(fifo) : fifo'[j] = fifo[i]
    PROVE  OrderInv'
<1>1. \A s \in Held(head, tail)' : s \in Held(head, tail) /\ s \in Slots
  BY DEF Held
<1>2. head \notin Held(head, tail)
  BY Distance DEF Held, TypeOK
<1>3. \A s \in Held(head, tail)' : s \in Held(head, tail) /\ data'[s] = data[s]
  BY <1>1, <1>2
<1> QED
  BY <1>3, OrderBy

\* Steps that move the tail to a later place.
LEMMA OrderLater ==
    ASSUME TypeOK, FifoInv, OrderInv, UNCHANGED <<kind, consumed, head, data>>,
           tail' \in Slots, BUFCOUNT(tail', tail) <= BUFCOUNT(head, tail),
           fifo' = fifo \/ fifo' = << >>
    PROVE  OrderInv'
<1>1. /\ Held(head, tail)' \subseteq Held(head, tail)
      /\ \A s1, s2 \in Held(head, tail)' :
            BUFCOUNT(s1, tail') < BUFCOUNT(s2, tail') => BUFCOUNT(s1, tail) < BUFCOUNT(s2, tail)
  <2>1. head \in Slots /\ tail \in Slots
    BY DEF TypeOK
  <2>2. /\ Held(head, tail') \subseteq Held(head, tail)
        /\ \A s1, s2 \in Held(head, tail') :
              BUFCOUNT(s1, tail') < BUFCOUNT(s2, tail') => BUFCOUNT(s1, tail) < BUFCOUNT(s2, tail)
    BY <2>1, HeldLater
  <2>3. Held(head, tail)' = Held(head, tail')
    BY DEF Held
  <2> QED
    BY <2>2, <2>3
<1>2. \A j \in 1 .. Len(fifo') : \E i \in 1 .. Len(fifo) : fifo'[j] = fifo[i]
  <2>1. CASE fifo' = fifo
    BY <2>1
  <2>2. CASE fifo' = << >>
    BY <2>2
  <2> QED
    BY <2>1, <2>2
<1> QED
  BY <1>1, <1>2, OrderBy DEF KindGrows

\* The interrupt, when it does not race with a call of the task.
LEMMA RingIsr ==
    ASSUME TypeOK, FifoInv, CallInv, OrderInv, uart_isr, ~ raced'
    PROVE  CallInv' /\ OrderInv'
<1>0. /\ head \in Slots /\ tail \in Slots /\ bptr \in Slots /\ next(head) \in Slots
      /\ data \in [Slots -> Nat] /\ raced \in BOOLEAN
  BY NextSlot DEF TypeOK
<1>1. /\ fifo # << >> /\ fifo' = Tail(fifo)
      /\ UNCHANGED <<pc, bptr, ch, kind, consumed>>
  BY DEF uart_isr, task
<1>2. head \notin Held(head, tail)
  BY <1>0, Distance DEF Held
<1>3. CASE Insert(Head(fifo)) /\ ~ Cancelling /\ next(head) # tail /\ tail' = tail
  <2>1. data' = [data EXCEPT ![head] = Head(fifo)] /\ head' = next(head)
    BY <1>3 DEF Insert
  <2>2. Held(head, tail)' = Held(head, tail) \cup {head}
    BY <1>0, <1>3, <2>1, HeldInsert
  <2>3. ASSUME NEW s1 \in Held(head, tail)', NEW s2 \in Held(head, tail)',
               BUFCOUNT(s1, tail') < BUFCOUNT(s2, tail')
        PROVE  s1 # head /\ (s2 # head => BUFCOUNT(s1, tail) < BUFCOUNT(s2, tail))
    <3>1. BUFCOUNT(s1, tail) < BUFCOUNT(s2, tail)
      BY <1>3, <2>3
    <3>2. \A s \in Held(head, tail)' : s \in Slots
      BY DEF Held
    <3>3. s1 # head
      <4>1. CASE s2 = head
        BY <1>0, <3>1, <4>1, Distance
      <4>2. CASE s2 # head
        BY <1>0, <1>3, <2>2, <3>1, <3>2, <4>2, HeldInsert, Distance
      <4> QED
        BY <4>1, <4>2
    <3> QED
      BY <3>1, <3>3
  <2>4. OrderInv'
    BY <1>1, <1>2, <2>1, <2>2, <2>3, OrderPut
  <2>5. data'[tail] = data[tail] \/ tail = head
    BY <1>0, <2>1
  <2>6. BUFCOUNT(bptr, tail) <= BUFCOUNT(head, tail) => BUFCOUNT(bptr, tail)' <= BUFCOUNT(head, tail)'
    <3>1. BUFCOUNT(next(head), tail) = BUFCOUNT(head, tail) + 1
      BY <1>0, <1>3, NextSlot, SlotRange DEF BUFCOUNT
    <3>2. BUFCOUNT(bptr, tail) \in Nat /\ BUFCOUNT(head, tail) \in Nat
      BY <1>0, Distance
    <3> QED
      BY <1>1, <1>3, <2>1, <3>1, <3>2 DEF BUFCOUNT
  <2>7. tail # head => tail' # head'
    BY <1>3, <2>1
  <2>8. CallInv'
    BY <1>1, <1>3, <2>5, <2>6, <2>7 DEF CallInv, Cancelling
  <2> QED
    BY <2>4, <2>8
<1>4. CASE CancelInIsr(Head(fifo)) /\ pc = "idle"
  <2>1. data' = [data EXCEPT ![head] = Head(fifo)] /\ head' = next(head) /\ tail' = head
    BY <1>4 DEF CancelInIsr
  <2>2. Held(head, tail)' = {head}
    BY <1>0, <2>1, HeldEmpty
  <2>3. \A s1, s2 \in Held(head, tail)' : ~ BUFCOUNT(s1, tail') < BUFCOUNT(s2, tail')
    BY <1>0, <2>1, <2>2, Distance
  <2>4. OrderInv'
    BY <1>1, <1>2, <2>1, <2>2, <2>3, OrderPut
  <2> QED
    BY <1>1, <1>4, <2>4 DEF CallInv
<1>5. CASE UNCHANGED <<data, head, tail>>
  <2>1. \A j \in 1 .. Len(fifo') : \E i \in 1 .. Len(fifo) : fifo'[j] = fifo[i]
    BY <1>1, FifoTake
  <2>2. OrderInv'
    BY <1>1, <1>5, <2>1, OrderAside DEF KindGrows
  <2>3. CallInv'
    BY <1>1, <1>5 DEF CallInv, Numbers, BUFCOUNT
  <2> QED
    BY <2>2, <2>3
<1>6. ASSUME Insert(Head(fifo)), raced' = (raced \/ Cancelling), tail' = tail
      PROVE  \/ Insert(Head(fifo)) /\ ~ Cancelling /\ next(head) # tail /\ tail' = tail
             \/ UNCHANGED <<data, head, tail>>
  BY <1>6 DEF Insert
<1>7. ASSUME CancelInIsr(Head(fifo))
      PROVE  pc = "idle"
  BY <1>7 DEF CancelInIsr
<1> QED
  BY <1>3, <1>4, <1>5, <1>6, <1>7 DEF uart_isr

LEMMA RingArrive ==
    ASSUME TypeOK, FifoInv, CallInv, OrderInv, NEW k \in CharKinds, Arrive(k)
    PROVE  CallInv' /\ OrderInv'
<1>1. /\ kind' = Append(kind, k) /\ UNCHANGED <<data, head, tail, pc, bptr, ch, consumed>>
      /\ fifo' = fifo \/ fifo' = Append(fifo, Len(kind) + 1)
  BY DEF Arrive, ring, task
<1>2. \A j \in 1 .. Len(fifo') :
         fifo'[j] = Len(kind) + 1 \/ \E i \in 1 .. Len(fifo) : fifo'[j] = fifo[i]
  <2>1. CASE fifo' = Append(fifo, Len(kind) + 1)
    BY <2>1 DEF TypeOK
  <2> QED
    BY <1>1, <2>1
<1>3. KindGrows
  BY <1>1 DEF KindGrows
<1>4. OrderInv'
  BY <1>1, <1>2, <1>3, OrderAside
<1>5. CallInv'
  BY <1>1, <1>3, OlderKept DEF CallInv, BUFCOUNT
<1> QED
  BY <1>4, <1>5

LEMMA RingTask ==
    ASSUME TypeOK, FifoInv, CallInv, OrderInv, Task \/ OverflowIsr \/ UNCHANGED vars
    PROVE  CallInv' /\ OrderInv'
<1>0. /\ head \in Slots /\ tail \in Slots /\ bptr \in Slots /\ data \in [Slots -> Nat]
      /\ BUFCOUNT(head, tail) \in Nat /\ BUFCOUNT(tail, tail) = 0
  <2>1. head \in Slots /\ tail \in Slots /\ bptr \in Slots /\ data \in [Slots -> Nat]
    BY DEF TypeOK
  <2> QED
    BY <2>1, Distance, SlotRange DEF BUFCOUNT
<1>1. ASSUME UNCHANGED <<kind, fifo, data, head, tail, consumed>>
      PROVE  OrderInv'
  BY <1>1, OrderAside DEF KindGrows
<1>2. CASE ReadTail
  <2>1. /\ UNCHANGED <<kind, fifo, data, head, tail, consumed>>
        /\ pc' = "read" /\ bptr' = tail /\ tail # head
    BY <1>2 DEF ReadTail, Goto, hw, ring, history
  <2> QED
    BY <1>1, <2>1 DEF CallInv
<1>3. CASE ReadData
  <2>1. /\ UNCHANGED <<kind, fifo, data, head, tail, consumed, bptr>>
        /\ pc = "read" /\ pc' = "advance" /\ ch' = data[bptr]
    BY <1>3 DEF ReadData, Goto, hw, ring, history
  <2> QED
    BY <1>1, <2>1 DEF CallInv
<1>4. CASE ReadAdvance
  <2>1. pc' = "idle"
    BY <1>4 DEF ReadAdvance, Goto
  <2> QED
    BY <1>4, <2>1, OrderAdvance DEF CallInv
<1>5. CASE FlushFifo
  <2>1. /\ UNCHANGED <<kind, data, head, tail, consumed>> /\ fifo' = << >>
        /\ pc' = "flush_head"
    BY <1>5 DEF FlushFifo, Goto, ring
  <2>2. OrderInv'
    BY <1>0, <2>1, OrderLater
  <2>3. CallInv'
    BY <2>1 DEF CallInv
  <2> QED
    BY <2>2, <2>3
<1>6. CASE FlushBuffer
  <2>1. /\ UNCHANGED <<kind, fifo, data, head, consumed>> /\ tail' = bptr
        /\ pc = "flush" /\ pc' = "idle"
    BY <1>6 DEF FlushBuffer, Goto, hw
  <2>2. OrderInv'
    BY <1>0, <2>1, OrderLater DEF CallInv
  <2> QED
    BY <2>1, <2>2 DEF CallInv
<1>7. CASE Disable
  <2>1. UNCHANGED <<kind, fifo, data, head, tail, consumed, pc>> /\ pc = "idle"
    BY <1>7 DEF Disable, ring, task, history
  <2> QED
    BY <1>1, <2>1 DEF CallInv
<1>8. CASE Enable
  <2>1. /\ UNCHANGED <<kind, data, head, consumed, pc>> /\ tail' = head /\ fifo' = << >> /\ pc = "idle"
    BY <1>8 DEF Enable, task
  <2>2. OrderInv'
    BY <1>0, <2>1, OrderLater
  <2> QED
    BY <2>1, <2>2 DEF CallInv
<1>9. CASE CancelMark
  <2>0. PICK n : n = Len(kind) + 1
    OBVIOUS
  <2>1. /\ kind' = Append(kind, "stop") /\ "stop" \in CharKinds /\ ch' = n
        /\ data' = [data EXCEPT ![head] = n] /\ pc' = "cancel"
        /\ UNCHANGED <<fifo, head, tail, consumed>>
    BY <1>9, <2>0 DEF CancelMark, Goto, hw, CharKinds
  <2>2. n \in Numbers' /\ kind'[n] = "stop" /\ \A i \in 1 .. Len(consumed) : consumed[i] < n
    BY <2>0, <2>1, KindKept DEF OrderInv
  <2>3. data'[head] = n /\ \A s \in Slots : s = head \/ data'[s] = data[s]
    BY <1>0, <2>1
  <2>4. OrderInv'
    BY <2>1, <2>3, OrderAside DEF KindGrows
  <2>5. CallInv'
    BY <2>1, <2>2, <2>3 DEF CallInv
  <2> QED
    BY <2>4, <2>5
<1>10. CASE CancelTail
  <2>1. /\ UNCHANGED <<kind, fifo, data, head, consumed, ch>> /\ tail' = head
        /\ pc = "cancel" /\ pc' = "cancel_head"
    BY <1>10 DEF CancelTail, Goto, hw
  <2>2. OrderInv'
    BY <1>0, <2>1, OrderLater
  <2>3. CallInv'
    BY <2>1 DEF CallInv, Numbers
  <2> QED
    BY <2>2, <2>3
<1>11. CASE CancelHead
  <2>1. pc' = "idle"
    BY <1>11 DEF CancelHead, Goto
  <2> QED
    BY <1>11, <2>1, OrderCancelHead DEF CallInv
<1>12. CASE NvsWriteBegin \/ NvsWriteEnd
  <2>1. UNCHANGED <<kind, fifo, data, head, tail, consumed>> /\ pc' \in {"nvs", "idle"}
    BY <1>12 DEF NvsWriteBegin, NvsWriteEnd, Goto, hw, ring, history
  <2> QED
    BY <1>1, <2>1 DEF CallInv
<1>13. CASE OverflowIsr \/ UNCHANGED vars
  <2>1. UNCHANGED <<kind, fifo, data, head, tail, consumed, pc, bptr, ch>>
    BY <1>13 DEF OverflowIsr, task, history, vars
  <2>2. CallInv'
    BY <2>1 DEF CallInv, BUFCOUNT, Numbers
  <2> QED
    BY <1>1, <2>1, <2>2
<1>14. CASE FlushHead
  <2>1. /\ UNCHANGED <<kind, fifo, data, head, tail, consumed>>
        /\ pc' = "flush" /\ bptr' = head
    BY <1>14 DEF FlushHead, Goto, hw, ring, history
  <2>2. CallInv'
    BY <1>0, <2>1 DEF CallInv
  <2> QED
    BY <1>1, <2>1, <2>2
<1> QED
  BY <1>2, <1>3, <1>4, <1>5, <1>6, <1>7, <1>8, <1>9, <1>10, <1>11, <1>12, <1>13, <1>14 DEF Task, Read

\* A race is remembered.
LEMMA RacedStays == TypeOK /\ [Next]_vars /\ raced => raced'
<1> SUFFICES ASSUME TypeOK, [Next]_vars, raced PROVE raced'
  OBVIOUS
<1>1. ASSUME NEW k \in CharKinds, Arrive(k)
      PROVE  raced'
  BY <1>1 DEF Arrive
<1>2. CASE uart_isr \/ OverflowIsr
  BY <1>2 DEF uart_isr, CancelInIsr, OverflowIsr, history
<1>3. CASE Task
  BY <1>3 DEF Task, Read, ReadTail, ReadData, ReadAdvance, FlushFifo, FlushHead, FlushBuffer, Disable, Enable, CancelMark,
              CancelTail, CancelHead, NvsWriteBegin, NvsWriteEnd, history
<1> QED
  BY <1>1, <1>2, <1>3 DEF Next, vars

LEMMA RingStep == TypeOK /\ FifoInv /\ RingInv /\ [Next]_vars => RingInv'
<1> SUFFICES ASSUME TypeOK, FifoInv, RingInv, [Next]_vars, ~ raced'
             PROVE  CallInv' /\ OrderInv'
  BY DEF RingInv
<1>1. CallInv /\ OrderInv
  BY RacedStays DEF RingInv
<1> QED
  BY <1>1, RingArrive, RingIsr, RingTask DEF Next

LEMMA RingInit == Init => RingInv
<1> SUFFICES ASSUME Init PROVE CallInv /\ OrderInv
  BY DEF RingInv
<1>1. Held(head, tail) = {}
  BY HeldEmpty, SlotRange DEF Init
<1> QED
  BY <1>1 DEF Init, CallInv, OrderInv

\* Interrupt and reader share head and tail without a lock, and yet characters
\* are read in the order of their arrival, each once, unless a cancel struck in
\* the middle of a call of the task.
THEOREM SpecReadInOrder == Spec => []ReadInOrder
<1>1. RingInv => ReadInOrder
  BY DEF RingInv, OrderInv, Older, ReadInOrder
<1> QED
  BY <1>1, TypeInit, TypeStep, FifoInit, FifoStep, RingInit, RingStep, PTL DEF Spec

-----------------------------------------------------------------------------
(* No character is lost in silence.                                         *)

\* Where a character is when it is not accounted for by its kind.
Placed(n) ==
    \/ n \in discarded \cup cancelled
    \/ \E s \in Held(head, tail) : data[s] = n
    \/ \E i \in 1 .. Len(consumed) : consumed[i] = n
    \/ \E i \in 1 .. Len(fifo) : fifo[i] = n
    \/ pc \in {"cancel", "cancel_head"} /\ ch = n

\* A step that keeps what is placed, and what the interrupt has read during
\* nvsWrite, keeps the account.
LEMMA KeptBy ==
    ASSUME TypeOK, NEW n \in Numbers, Accounted(n), KindGrows, UNCHANGED inNvs,
           Placed(n) => Accounted(n)'
    PROVE  Accounted(n)'
<1>1. kind'[n] = kind[n]
  BY OlderKept
<1> QED
  BY <1>1 DEF Accounted, Placed

LEMMA KeptArrive ==
    ASSUME TypeOK, FifoInv, KeptInv, NEW k \in CharKinds, Arrive(k), ~ raced'
    PROVE  \A n \in Numbers' : Accounted(n)'
<1>0. /\ kind' = Append(kind, k) /\ ~ raced
      /\ UNCHANGED <<data, head, tail, pc, ch, consumed, cancelled, inNvs>>
  BY DEF Arrive, ring, task
<1>1. KindGrows
  BY <1>0 DEF KindGrows
<1>2. PICK a : a = Len(kind) + 1
  OBVIOUS
<1>3. \/ fifo' = Append(fifo, a) /\ UNCHANGED discarded
      \/ fifo' = fifo /\ discarded' = discarded \cup {a}
  BY <1>2 DEF Arrive
<1>4. /\ Len(fifo) \in Nat
      /\ fifo' = Append(fifo, a) =>
            /\ Len(fifo') = Len(fifo) + 1 /\ fifo'[Len(fifo) + 1] = a
            /\ \A i \in 1 .. Len(fifo) : fifo'[i] = fifo[i]
  <2>1. fifo \in Seq(Nat)
    BY DEF TypeOK
  <2> QED
    BY <2>1
<1>5. a \in discarded' \/ \E i \in 1 .. Len(fifo') : fifo'[i] = a
  BY <1>3, <1>4
<1>6. \A i \in 1 .. Len(fifo) : i \in 1 .. Len(fifo') /\ fifo'[i] = fifo[i]
  BY <1>3, <1>4
<1>7. ASSUME NEW n \in Numbers
      PROVE  Accounted(n)'
  <2>1. Accounted(n)
    BY <1>0 DEF KeptInv
  <2>2. Placed(n) => Accounted(n)'
    BY <1>0, <1>3, <1>6 DEF Placed, Accounted
  <2> QED
    BY <1>0, <1>1, <2>1, <2>2, KeptBy
<1>8. Accounted(a)'
  BY <1>5 DEF Accounted
<1> QED
  BY <1>0, <1>2, <1>7, <1>8, KindKept

\* The character that the interrupt takes out of the FIFO is accounted for, and
\* so are the others.
LEMMA KeptIsr ==
    ASSUME TypeOK, FifoInv, HandlerInv, CallInv, KeptInv, uart_isr, ~ raced', ~ raced
    PROVE  \A n \in Numbers' : Accounted(n)'
<1>0. PICK c : c = Head(fifo)
  OBVIOUS
<1>1. /\ c \in Numbers /\ c \notin inNvs /\ fifo # << >> /\ fifo' = Tail(fifo)
      /\ UNCHANGED <<pc, ch, kind, consumed, enqueue_realtime_command>>
      /\ inNvs' = IF pc = "nvs" THEN inNvs \cup {c} ELSE inNvs
  BY <1>0, FifoTake DEF uart_isr, task
<1>2. /\ head \in Slots /\ tail \in Slots /\ data \in [Slots -> Nat] /\ kind \in Seq(CharKinds)
      /\ head \notin Held(head, tail) /\ Held(head, tail) \subseteq Slots
  <2>1. head \in Slots /\ tail \in Slots /\ data \in [Slots -> Nat] /\ kind \in Seq(CharKinds)
    BY DEF TypeOK
  <2> QED
    BY <2>1, Distance DEF Held
<1>3. kind[c] \in CharKinds
  BY <1>1, <1>2 DEF Numbers
\* What the three branches of the interrupt do to the buffer.
<1>4. \/ Placed(c)'
      \/ kind[c] = "control" \/ (kind[c] = "hold" /\ c \notin inNvs') \/ (kind[c] = "stop" /\ c \in inNvs')
  <2>1. CASE Insert(c) /\ tail' = tail
    <3>1. CASE next(head) = tail
      BY <2>1, <3>1 DEF Insert, Placed
    <3>2. CASE next(head) # tail
      <4>1. data'[head] = c /\ head' = next(head)
        BY <1>2, <2>1, <3>2 DEF Insert
      <4>2. head \in Held(head, tail)'
        BY <1>2, <2>1, <3>2, <4>1, HeldInsert
      <4> QED
        BY <4>1, <4>2 DEF Placed
    <3> QED
      BY <3>1, <3>2
  <2>2. CASE CancelInIsr(c)
    <3>1. data'[head] = c /\ head' = next(head) /\ tail' = head
      BY <1>2, <2>2 DEF CancelInIsr
    <3>2. head \in Held(head, tail)'
      BY <1>2, <3>1, HeldEmpty
    <3> QED
      BY <3>1, <3>2 DEF Placed
  <2>3. CASE Taken(c) /\ (kind[c] # "stop" \/ enqueue_realtime_command = "nvs")
    <3>1. CASE pc = "nvs"
      BY <1>1, <1>3, <2>3, <3>1 DEF HandlerInv, Taken
    <3>2. CASE pc # "nvs"
      BY <1>1, <1>3, <2>3, <3>2 DEF HandlerInv, Taken, TypeOK, CharKinds
    <3> QED
      BY <3>1, <3>2
  <2> QED
    BY <1>0, <2>1, <2>2, <2>3 DEF uart_isr
<1>5. \A n : (n \in discarded \cup cancelled \/ \E s \in Held(head, tail) : data[s] = n)
         => Placed(n)'
  <2>1. CASE Insert(c) /\ tail' = tail /\ UNCHANGED cancelled
    <3>1. CASE next(head) = tail
      BY <2>1, <3>1 DEF Insert, Placed
    <3>2. CASE next(head) # tail
      <4>1. data' = [data EXCEPT ![head] = c] /\ head' = next(head) /\ UNCHANGED discarded
        BY <2>1, <3>2 DEF Insert
      <4>2. Held(head, tail) \subseteq Held(head, tail)'
        BY <1>2, <2>1, <3>2, <4>1, HeldInsert
      <4>3. \A s \in Held(head, tail) : data'[s] = data[s]
        BY <1>2, <4>1
      <4> QED
        BY <2>1, <4>1, <4>2, <4>3 DEF Placed
    <3> QED
      BY <3>1, <3>2
  <2>2. CASE CancelInIsr(c)
    <3>1. UNCHANGED discarded /\ cancelled' = cancelled \cup {data[s] : s \in Held(head, tail)}
      BY <1>2, <2>2, BufferedHeld DEF CancelInIsr
    <3> QED
      BY <3>1 DEF Placed
  <2>3. CASE UNCHANGED <<data, head, tail, discarded, cancelled>>
    BY <2>3 DEF Placed
  <2> QED
    BY <1>0, <2>1, <2>2, <2>3 DEF uart_isr
<1>6. \A i \in 1 .. Len(fifo) : fifo[i] = c \/ \E j \in 1 .. Len(fifo') : fifo'[j] = fifo[i]
  <2>1. ASSUME NEW i \in 1 .. Len(fifo), i # 1
        PROVE  i - 1 \in 1 .. Len(fifo') /\ fifo'[i - 1] = fifo[i]
    <3>1. Len(fifo) \in Nat /\ Len(fifo') = Len(fifo) - 1
      BY <1>1, FifoTake
    <3>2. i - 1 \in 1 .. Len(fifo') /\ (i - 1) + 1 = i
      BY <2>1, <3>1
    <3> QED
      BY <1>1, <3>2, FifoTake
  <2> QED
    BY <1>0, <1>1, <2>1, FifoTake
<1>7. ASSUME NEW n \in Numbers
      PROVE  Accounted(n)'
  <2>1. Accounted(n)
    BY DEF KeptInv
  <2>2. CASE n = c
    BY <1>1, <1>4, <2>2 DEF Accounted, Placed
  <2>3. CASE n # c
    <3>1. n \in inNvs' <=> n \in inNvs
      BY <1>1, <2>3
    <3>2. Placed(n) => Placed(n)'
      BY <1>1, <1>5, <1>6, <2>3 DEF Placed
    <3> QED
      BY <1>1, <2>1, <3>1, <3>2 DEF Accounted, Placed
  <2> QED
    BY <2>2, <2>3
<1>8. Numbers' = Numbers
  BY <1>1 DEF Numbers
<1> QED
  BY <1>7, <1>8

\* What a call of the task takes out of one place it puts into another.
LEMMA PlacedTask ==
    ASSUME TypeOK, CallInv, Task \/ OverflowIsr \/ UNCHANGED vars, NEW n, Placed(n)
    PROVE  Placed(n)'
<1>0. /\ head \in Slots /\ tail \in Slots /\ bptr \in Slots /\ data \in [Slots -> Nat]
      /\ head \notin Held(head, tail) /\ Held(head, tail) \subseteq Slots
  <2>1. head \in Slots /\ tail \in Slots /\ bptr \in Slots /\ data \in [Slots -> Nat]
    BY DEF TypeOK
  <2> QED
    BY <2>1, Distance DEF Held
<1>1. CASE \/ ReadTail \/ ReadData \/ FlushHead \/ Disable \/ OverflowIsr
           \/ NvsWriteBegin \/ NvsWriteEnd \/ UNCHANGED vars
  <2>1. /\ UNCHANGED <<fifo, data, head, tail, consumed, discarded, cancelled>>
        /\ pc \in {"cancel", "cancel_head"} => UNCHANGED <<pc, ch>>
    BY <1>1 DEF ReadTail, ReadData, FlushHead, Disable, OverflowIsr, NvsWriteBegin, NvsWriteEnd, Goto, hw,
                ring, task, history, vars
  <2> QED
    BY <2>1 DEF Placed
<1>2. CASE ReadAdvance
  <2>1. /\ UNCHANGED <<fifo, data, head, discarded, cancelled>>
        /\ tail # head /\ tail' = next(tail) /\ ch = data[tail] /\ pc = "advance"
        /\ consumed' = Append(consumed, ch)
    BY <1>2 DEF ReadAdvance, Goto, CallInv, hw
  <2>2. Held(head, tail)' = Held(head, tail) \ {tail}
    BY <1>0, <2>1, HeldAdvance
  <2>3. /\ Len(consumed) + 1 \in 1 .. Len(consumed') /\ consumed'[Len(consumed) + 1] = data[tail]
        /\ \A i \in 1 .. Len(consumed) : i \in 1 .. Len(consumed') /\ consumed'[i] = consumed[i]
    BY <2>1 DEF TypeOK
  <2> QED
    BY <2>1, <2>2, <2>3 DEF Placed
<1>3. CASE FlushFifo
  <2>1. /\ UNCHANGED <<data, head, tail, consumed, cancelled>> /\ pc = "idle"
        /\ discarded' = discarded \cup {fifo[i] : i \in 1 .. Len(fifo)}
    BY <1>3 DEF FlushFifo, Goto, ring
  <2> QED
    BY <2>1 DEF Placed
<1>4. CASE FlushBuffer
  <2>1. /\ UNCHANGED <<fifo, data, head, consumed, cancelled>> /\ pc = "flush" /\ tail' = bptr
        /\ discarded' = discarded \cup ({data[s] : s \in Held(head, tail)} \ {data[s] : s \in Held(head, bptr)})
    BY <1>0, <1>4, BufferedHeld DEF FlushBuffer, Goto, hw
  <2> QED
    BY <2>1 DEF Placed
<1>5. CASE Enable
  <2>1. /\ UNCHANGED <<data, head, consumed, cancelled>> /\ pc = "idle"
        /\ discarded' = discarded \cup {data[s] : s \in Held(head, tail)} \cup {fifo[i] : i \in 1 .. Len(fifo)}
    BY <1>0, <1>5, BufferedHeld DEF Enable
  <2> QED
    BY <2>1 DEF Placed
<1>6. CASE CancelMark
  <2>1. /\ UNCHANGED <<fifo, head, tail, consumed, discarded, cancelled>> /\ pc = "idle"
        /\ \A s \in Held(head, tail) : data'[s] = data[s]
    BY <1>0, <1>6 DEF CancelMark, Goto, hw
  <2> QED
    BY <2>1 DEF Placed
<1>7. CASE CancelTail
  <2>1. /\ UNCHANGED <<fifo, head, data, ch, consumed, discarded>> /\ pc = "cancel" /\ pc' = "cancel_head"
        /\ cancelled' = cancelled \cup {data[s] : s \in Held(head, tail)}
    BY <1>0, <1>7, BufferedHeld DEF CancelTail, Goto, hw
  <2> QED
    BY <2>1 DEF Placed
<1>8. CASE CancelHead
  <2>1. /\ UNCHANGED <<fifo, data, tail, consumed, discarded, cancelled>> /\ pc = "cancel_head"
        /\ tail = head /\ head' = next(tail) /\ ch = data[head]
    BY <1>8 DEF CancelHead, Goto, CallInv, hw, history
  <2>2. Held(head, tail) = {} /\ Held(head, tail)' = {head}
    BY <1>0, <2>1, HeldEmpty
  <2> QED
    BY <2>1, <2>2 DEF Placed
<1> QED
  BY <1>1, <1>2, <1>3, <1>4, <1>5, <1>6, <1>7, <1>8 DEF Task, Read

LEMMA KeptTask ==
    ASSUME TypeOK, CallInv, KeptInv, Task \/ OverflowIsr \/ UNCHANGED vars, ~ raced
    PROVE  \A n \in Numbers' : Accounted(n)'
<1>1. UNCHANGED inNvs /\ (UNCHANGED kind \/ CancelMark)
  BY DEF Task, Read, ReadTail, ReadData, ReadAdvance, FlushFifo, FlushHead, FlushBuffer, Disable, Enable,
         CancelMark, CancelTail, CancelHead, OverflowIsr, NvsWriteBegin, NvsWriteEnd, history, vars
<1>2. KindGrows
  BY <1>1 DEF CancelMark, KindGrows, CharKinds
<1>3. ASSUME NEW n \in Numbers
      PROVE  Accounted(n)'
  <2>1. Accounted(n)
    BY DEF KeptInv
  <2>2. Placed(n) => Placed(n)'
    BY PlacedTask
  <2>3. Placed(n)' => Accounted(n)'
    BY DEF Placed, Accounted
  <2> QED
    BY <1>1, <1>2, <2>1, <2>2, <2>3, KeptBy
<1>4. CASE UNCHANGED kind
  BY <1>3, <1>4 DEF Numbers
<1>5. CASE CancelMark
  <2>1. PICK a : a = Len(kind) + 1
    OBVIOUS
  <2>2. kind' = Append(kind, "stop") /\ "stop" \in CharKinds /\ ch' = a /\ pc' = "cancel"
    BY <1>5, <2>1 DEF CancelMark, Goto, CharKinds
  <2>3. Accounted(a)'
    BY <2>2 DEF Accounted
  <2> QED
    BY <1>3, <2>1, <2>2, <2>3, KindKept
<1> QED
  BY <1>1, <1>4, <1>5

LEMMA KeptStep ==
    TypeOK /\ FifoInv /\ HandlerInv /\ RingInv /\ KeptInv /\ [Next]_vars => KeptInv'
<1> SUFFICES ASSUME TypeOK, FifoInv, HandlerInv, RingInv, KeptInv, [Next]_vars, ~ raced'
             PROVE  \A n \in Numbers' : Accounted(n)'
  BY DEF KeptInv
<1>1. ~ raced /\ CallInv
  BY RacedStays DEF RingInv
<1> QED
  BY <1>1, KeptArrive, KeptIsr, KeptTask DEF Next

\* Every character that is not a real-time command is in the buffer, in the
\* FIFO, in the hands of a call, was read, or was thrown away by something that
\* says so, unless a cancel struck in the middle of a call of the task.
THEOREM SpecNoSilentLoss == Spec => []NoSilentLoss
<1>1. Init => KeptInv
  BY DEF Init, KeptInv, Numbers
<1>2. Init => HandlerInv
  BY DEF Init, HandlerInv, Legal
<1>3. ASSUME TypeOK, KeptInv PROVE NoSilentLoss
  <2>1. Buffered(tail) = {data[s] : s \in Held(head, tail)}
    BY <1>3, BufferedHeld DEF TypeOK
  <2> SUFFICES ASSUME ~ raced, NEW n \in 1 .. Len(kind)
               PROVE  Kept(n) \/ kind[n] = "control" \/ (kind[n] = "hold" /\ n \notin inNvs)
                        \/ (kind[n] = "stop" /\ n \in inNvs)
    BY DEF NoSilentLoss
  <2>2. Accounted(n)
    BY <1>3 DEF KeptInv, Numbers
  <2> QED
    BY <2>1, <2>2 DEF Accounted, Kept
<1> QED
  BY <1>1, <1>2, <1>3, TypeInit, TypeStep, FifoInit, FifoStep, HandlerStep, RingInit, RingStep, KeptStep, PTL DEF Spec
-----------------------------------------------------------------------------
(* The ring as an atomic bounded queue.                                     *)

\* The slot of the i-th character from a tail, and the characters from a tail
\* to a head.
Slot(t, i) == (t + i - 1) % RX_BUFFER_SIZE
LineOf(d, h, t) == [i \in 1 .. BUFCOUNT(h, t) |-> d[Slot(t, i)]]

LEMMA SameSequence ==
    ASSUME NEW S, NEW s \in Seq(S), NEW t \in Seq(S), NEW n \in Nat, Len(s) = n, Len(t) = n,
           \A i \in 1 .. n : s[i] = t[i]
    PROVE  s = t
<1>1. s = [i \in 1 .. n |-> s[i]] /\ t = [i \in 1 .. n |-> t[i]]
  OBVIOUS
<1> QED
  BY <1>1

LEMMA SlotFacts ==
    ASSUME NEW t \in Slots, NEW i \in 1 .. RX_BUFFER_SIZE
    PROVE  /\ Slot(t, i) \in Slots /\ BUFCOUNT(Slot(t, i), t) = i - 1
           /\ Slot(t, i) = IF t + i <= RX_BUFFER_SIZE THEN t + i - 1 ELSE t + i - 1 - RX_BUFFER_SIZE
<1>1. PICK j \in Nat : j = i - 1 /\ j < RX_BUFFER_SIZE
  BY SlotRange
<1>2. Slot(t, i) = (t + j) % RX_BUFFER_SIZE
  BY <1>1, SlotRange DEF Slot
<1>3. Slot(t, i) = IF t + j < RX_BUFFER_SIZE THEN t + j ELSE t + j - RX_BUFFER_SIZE
  BY <1>1, <1>2, Wrap
<1> QED
  BY <1>1, <1>3, SlotRange DEF BUFCOUNT

LEMMA LineFacts ==
    ASSUME NEW d \in [Slots -> Nat], NEW h \in Slots, NEW t \in Slots
    PROVE  /\ LineOf(d, h, t) \in Seq(Nat) /\ Len(LineOf(d, h, t)) = BUFCOUNT(h, t)
           /\ BUFCOUNT(h, t) \in Nat /\ BUFCOUNT(h, t) < RX_BUFFER_SIZE
           /\ \A i \in 1 .. BUFCOUNT(h, t) :
                 /\ LineOf(d, h, t)[i] = d[Slot(t, i)]
                 /\ i \in 1 .. RX_BUFFER_SIZE /\ Slot(t, i) \in Slots /\ BUFCOUNT(Slot(t, i), t) = i - 1
<1>1. PICK n \in Nat : n = BUFCOUNT(h, t) /\ n < RX_BUFFER_SIZE
  BY Distance
<1>2. \A i \in 1 .. n : i \in 1 .. RX_BUFFER_SIZE
  BY <1>1, SlotRange
<1>3. \A i \in 1 .. n : Slot(t, i) \in Slots /\ BUFCOUNT(Slot(t, i), t) = i - 1
  BY <1>2, SlotFacts
<1>4. LineOf(d, h, t) = [i \in 1 .. n |-> d[Slot(t, i)]]
  BY <1>1 DEF LineOf
<1>5. \A i \in 1 .. n : d[Slot(t, i)] \in Nat
  BY <1>3
<1>6. /\ LineOf(d, h, t) \in Seq(Nat) /\ Len(LineOf(d, h, t)) = n
      /\ \A i \in 1 .. n : LineOf(d, h, t)[i] = d[Slot(t, i)]
  BY <1>4, <1>5
<1> QED
  BY <1>1, <1>2, <1>3, <1>6

\* What is written to a slot outside does not change the line.
LEMMA LineSame ==
    ASSUME NEW d \in [Slots -> Nat], NEW e \in [Slots -> Nat], NEW h \in Slots, NEW t \in Slots,
           \A s \in Held(h, t) : e[s] = d[s]
    PROVE  LineOf(e, h, t) = LineOf(d, h, t)
<1>1. PICK n \in Nat : n = BUFCOUNT(h, t)
  BY LineFacts
<1>2. \A i \in 1 .. n : Slot(t, i) \in Held(h, t)
  <2> SUFFICES ASSUME NEW i \in 1 .. n PROVE Slot(t, i) \in Held(h, t)
    OBVIOUS
  <2>1. Slot(t, i) \in Slots /\ BUFCOUNT(Slot(t, i), t) = i - 1
    BY <1>1, LineFacts
  <2> QED
    BY <1>1, <2>1 DEF Held
<1>3. \A i \in 1 .. n : LineOf(e, h, t)[i] = LineOf(d, h, t)[i]
  BY <1>1, <1>2, LineFacts
<1>4. PICK s \in Seq(Nat) : s = LineOf(e, h, t) /\ Len(s) = n
  BY <1>1, LineFacts
<1>5. PICK r \in Seq(Nat) : r = LineOf(d, h, t) /\ Len(r) = n
  BY <1>1, LineFacts
<1>6. s = r
  BY ONLY <1>3, <1>4, <1>5, SameSequence, n \in Nat
<1> QED
  BY <1>4, <1>5, <1>6

\* A character at the head is the last of the line.
LEMMA LinePut ==
    ASSUME NEW d \in [Slots -> Nat], NEW h \in Slots, NEW t \in Slots, next(h) # t, NEW c \in Nat
    PROVE  LineOf([d EXCEPT ![h] = c], next(h), t) = Append(LineOf(d, h, t), c)
<1> DEFINE e == [d EXCEPT ![h] = c]
<1>1. /\ e \in [Slots -> Nat] /\ next(h) \in Slots /\ e[h] = c
      /\ \A s \in Slots \ {h} : e[s] = d[s]
  BY NextSlot
<1>2. PICK n \in Nat : n = BUFCOUNT(h, t) /\ n < RX_BUFFER_SIZE
  BY LineFacts
<1>3. BUFCOUNT(next(h), t) = n + 1
  BY <1>2, NextSlot, SlotRange DEF BUFCOUNT
<1> HIDE DEF e
<1>4. LineOf(e, next(h), t) \in Seq(Nat) /\ Len(LineOf(e, next(h), t)) = n + 1
  BY <1>1, <1>3, LineFacts
<1>5. /\ LineOf(d, h, t) \in Seq(Nat) /\ Len(LineOf(d, h, t)) = n
  BY <1>2, LineFacts
<1>6. ASSUME NEW i \in 1 .. n
      PROVE  LineOf(e, next(h), t)[i] = LineOf(d, h, t)[i]
  <2>1. i \in 1 .. BUFCOUNT(h, t) /\ i \in 1 .. BUFCOUNT(next(h), t)
    BY <1>2, <1>3
  <2>2. Slot(t, i) \in Slots /\ BUFCOUNT(Slot(t, i), t) = i - 1
    BY <2>1, LineFacts
  <2>3. Slot(t, i) # h
    BY <1>2, <2>2
  <2>4. LineOf(e, next(h), t)[i] = e[Slot(t, i)] /\ LineOf(d, h, t)[i] = d[Slot(t, i)]
    BY <1>1, <2>1, LineFacts
  <2> QED
    BY <1>1, <2>2, <2>3, <2>4
<1>7. LineOf(e, next(h), t)[n + 1] = c
  <2>1. n + 1 \in 1 .. BUFCOUNT(next(h), t) /\ n + 1 \in 1 .. RX_BUFFER_SIZE
    BY <1>2, <1>3, SlotRange
  <2>2. Slot(t, n + 1) = h
    <3>1. Slot(t, n + 1) = IF t + (n + 1) <= RX_BUFFER_SIZE THEN t + (n + 1) - 1
                                                            ELSE t + (n + 1) - 1 - RX_BUFFER_SIZE
      BY <2>1, SlotFacts
    <3>2. n = IF h >= t THEN h - t ELSE h + RX_BUFFER_SIZE - t
      BY <1>2 DEF BUFCOUNT
    <3> QED
      BY <3>1, <3>2, SlotRange
  <2> QED
    BY <1>1, <2>1, <2>2, LineFacts
<1>8. PICK s \in Seq(Nat) : s = LineOf(d, h, t) /\ Len(s) = n
  BY <1>5
<1>9. PICK r \in Seq(Nat) : r = LineOf(e, next(h), t) /\ Len(r) = n + 1
  BY <1>4
<1>10. /\ Append(s, c) \in Seq(Nat) /\ Len(Append(s, c)) = n + 1
       /\ \A i \in 1 .. n + 1 : Append(s, c)[i] = IF i = n + 1 THEN c ELSE s[i]
  BY <1>8
<1>11. \A i \in 1 .. n + 1 : r[i] = Append(s, c)[i]
  <2> SUFFICES ASSUME NEW i \in 1 .. n + 1 PROVE r[i] = IF i = n + 1 THEN c ELSE s[i]
    BY <1>10
  <2>1. i = n + 1 \/ i \in 1 .. n
    OBVIOUS
  <2> QED
    BY <1>6, <1>7, <1>8, <1>9, <2>1
<1>12. r = Append(s, c)
  BY ONLY <1>9, <1>10, <1>11, SameSequence, n + 1 \in Nat
<1> QED
  BY <1>8, <1>9, <1>12 DEF e

\* A later tail leaves the end of the line.
LEMMA LineDrop ==
    ASSUME NEW d \in [Slots -> Nat], NEW h \in Slots, NEW t \in Slots, NEW b \in Slots,
           BUFCOUNT(b, t) <= BUFCOUNT(h, t)
    PROVE  /\ BUFCOUNT(b, t) \in 0 .. Len(LineOf(d, h, t))
           /\ LineOf(d, h, b) = [i \in 1 .. Len(LineOf(d, h, t)) - BUFCOUNT(b, t) |->
                                    LineOf(d, h, t)[i + BUFCOUNT(b, t)]]
<1>1. PICK k \in Nat, m \in Nat, n \in Nat :
         k = BUFCOUNT(b, t) /\ m = BUFCOUNT(h, b) /\ n = BUFCOUNT(h, t) /\ n < RX_BUFFER_SIZE
  BY LineFacts
<1>2. n = m + k
  BY <1>1, SlotRange DEF BUFCOUNT
<1>3. ASSUME NEW i \in 1 .. m
      PROVE  Slot(b, i) = Slot(t, i + k) /\ i + k \in 1 .. n
  <2>1. i + k \in 1 .. n /\ i + k \in 1 .. RX_BUFFER_SIZE /\ i \in 1 .. RX_BUFFER_SIZE
    BY <1>1, <1>2, SlotRange
  <2>2. /\ Slot(b, i) = IF b + i <= RX_BUFFER_SIZE THEN b + i - 1 ELSE b + i - 1 - RX_BUFFER_SIZE
        /\ Slot(t, i + k) = IF t + (i + k) <= RX_BUFFER_SIZE THEN t + (i + k) - 1
                                                            ELSE t + (i + k) - 1 - RX_BUFFER_SIZE
    BY <2>1, SlotFacts
  <2>3. k = IF b >= t THEN b - t ELSE b + RX_BUFFER_SIZE - t
    BY <1>1 DEF BUFCOUNT
  <2> QED
    BY <2>1, <2>2, <2>3, SlotRange
<1>4. \A i \in 1 .. m : LineOf(d, h, t)[i + k] = d[Slot(b, i)]
  <2>1. \A i \in 1 .. n : LineOf(d, h, t)[i] = d[Slot(t, i)]
    BY <1>1, LineFacts
  <2> QED
    BY <1>3, <2>1
<1>5. LineOf(d, h, b) = [i \in 1 .. m |-> d[Slot(b, i)]]
  BY <1>1 DEF LineOf
<1>6. LineOf(d, h, b) = [i \in 1 .. m |-> LineOf(d, h, t)[i + k]]
  BY <1>4, <1>5
<1>7. Len(LineOf(d, h, t)) = n
  BY <1>1, LineFacts
<1>8. m = n - k /\ k \in 0 .. n
  BY <1>2
<1> QED
  BY <1>1, <1>6, <1>7, <1>8

LEMMA LineEmpty ==
    ASSUME NEW d \in [Slots -> Nat], NEW h \in Slots
    PROVE  LineOf(d, h, h) = << >>
<1>1. BUFCOUNT(h, h) = 0
  BY SlotRange DEF BUFCOUNT
<1>2. LineOf(d, h, h) \in Seq(Nat) /\ Len(LineOf(d, h, h)) = 0
  BY <1>1, LineFacts
<1> QED
  BY <1>2

LEMMA LineNow == line = LineOf(data, head, tail)
BY DEF line, LineOf, Slot

LEMMA LineNext == line' = LineOf(data', head', tail')
BY DEF line, LineOf, Slot, BUFCOUNT

-----------------------------------------------------------------------------
(* Each step is one operation on the queue, or none.                        *)

\* Operations that take characters from the front of the line.
LEMMA FifoDrop ==
    ASSUME TypeOK, NEW b \in Slots, BUFCOUNT(b, tail) <= BUFCOUNT(head, tail),
           UNCHANGED <<data, head>>, tail' = b
    PROVE  /\ BUFCOUNT(b, tail) \in 0 .. Len(line)
           /\ line' = [i \in 1 .. Len(line) - BUFCOUNT(b, tail) |-> line[i + BUFCOUNT(b, tail)]]
<1>1. data \in [Slots -> Nat] /\ head \in Slots /\ tail \in Slots
  BY DEF TypeOK
<1>2. line' = LineOf(data, head, b)
  BY LineNext
<1> QED
  BY <1>1, <1>2, LineNow, LineDrop

\* A step that leaves what the queue is made of alone.
LEMMA FifoAside ==
    ASSUME UNCHANGED <<data, head, tail, kind, consumed, overflow, raced>>
    PROVE  UNCHANGED Fifo!fifoVars
<1>1. UNCHANGED line
  BY LineNow, LineNext
<1> QED
  BY <1>1 DEF Fifo!fifoVars

LEMMA FifoOfArrive ==
    ASSUME TypeOK, NEW k \in CharKinds, Arrive(k)
    PROVE  UNCHANGED raced /\ Fifo!Operation
<1>1. /\ kind' = Append(kind, k) /\ UNCHANGED <<data, head, tail, overflow, consumed, raced>>
  BY DEF Arrive, ring
<1>2. Len(kind') = Len(kind) + 1
  BY <1>1 DEF TypeOK
<1>3. UNCHANGED line
  BY <1>1, LineNow, LineNext
<1> QED
  BY <1>1, <1>2, <1>3 DEF Fifo!Operation, Fifo!Arrive

LEMMA FifoOfIsr ==
    ASSUME TypeOK, FifoInv, uart_isr, ~ raced, ~ raced'
    PROVE  UNCHANGED raced /\ (Fifo!Operation \/ UNCHANGED Fifo!fifoVars)
<1>0. PICK c : c = Head(fifo)
  OBVIOUS
<1>1. c \in 1 .. Len(kind) /\ c \in Nat /\ UNCHANGED <<kind, consumed, raced>>
  <2>1. c \in Numbers /\ c \in Nat /\ UNCHANGED <<kind, consumed>>
    BY <1>0, FifoTake, TypeFifo DEF uart_isr
  <2>2. raced = FALSE /\ raced' = FALSE
    BY TypeIsr DEF TypeOK
  <2> QED
    BY <2>1, <2>2 DEF Numbers
<1>2. data \in [Slots -> Nat] /\ head \in Slots /\ tail \in Slots /\ overflow \in BOOLEAN /\ ovf_int \in BOOLEAN
  BY DEF TypeOK
<1>3. line \in Seq(Nat) /\ Len(line) = BUFCOUNT(head, tail)
  BY <1>2, LineNow, LineFacts
<1>4. CASE Insert(c) /\ UNCHANGED tail
  <2>1. CASE next(head) = tail
    <3>1. UNCHANGED line /\ overflow' = TRUE
      BY <1>4, <2>1, LineNow, LineNext DEF Insert
    <3>2. BUFCOUNT(head, tail) = RX_BUFFER_SIZE - 1
      BY <1>2, <2>1, NextSlot, SlotRange DEF BUFCOUNT
    <3> QED
      BY <1>1, <1>3, <3>1, <3>2 DEF Fifo!Operation, Fifo!Refuse
  <2>2. CASE next(head) # tail
    <3>1. /\ data' = [data EXCEPT ![head] = c] /\ head' = next(head)
          /\ overflow' = (overflow \/ ovf_int)
      BY <1>4, <2>2 DEF Insert
    <3>2. line' = Append(line, c)
      BY <1>1, <1>2, <1>4, <2>2, <3>1, LinePut, LineNow, LineNext
    <3>3. BUFCOUNT(head, tail) < RX_BUFFER_SIZE - 1
      BY <1>2, <2>2, NextSlot, SlotRange DEF BUFCOUNT
    <3>4. overflow' \in {overflow, TRUE}
      BY <1>2, <3>1
    <3> QED
      BY <1>1, <1>3, <3>2, <3>3, <3>4 DEF Fifo!Operation, Fifo!Put
  <2> QED
    BY <2>1, <2>2
<1>5. CASE CancelInIsr(c)
  <2>1. /\ data' = [data EXCEPT ![head] = c] /\ head' = next(head) /\ tail' = head
        /\ overflow' = (overflow \/ ovf_int)
    BY <1>5 DEF CancelInIsr
  <2>2. next(head) # head
    BY <1>2, NextSlot, SlotRange
  <2>3. line' = Append(LineOf(data, head, head), c)
    BY <1>1, <1>2, <2>1, <2>2, LinePut, LineNext
  <2>4. line' = <<c>>
    <3>1. LineOf(data, head, head) = << >>
      BY <1>2, LineEmpty
    <3> QED
      BY <2>3, <3>1
  <2>5. overflow' \in {overflow, TRUE}
    BY <1>2, <2>1
  <2> QED
    BY <1>1, <2>4, <2>5 DEF Fifo!Operation, Fifo!Cancel
<1>6. CASE overflow' = (overflow \/ ovf_int) /\ UNCHANGED <<data, head, tail>>
  <2>1. UNCHANGED line
    BY <1>6, LineNow, LineNext
  <2>2. overflow' = overflow \/ overflow' = TRUE
    BY <1>2, <1>6
  <2> QED
    BY <1>1, <2>1, <2>2 DEF Fifo!Operation, Fifo!Flag, Fifo!fifoVars
<1> QED
  BY <1>0, <1>4, <1>5, <1>6 DEF uart_isr

LEMMA FifoOfRead ==
    ASSUME TypeOK, CallInv, Read
    PROVE  UNCHANGED raced /\ (Fifo!Operation \/ UNCHANGED Fifo!fifoVars)
<1>1. CASE ReadTail \/ ReadData
  <2>1. UNCHANGED <<data, head, tail, kind, consumed, overflow, raced>>
    BY <1>1 DEF ReadTail, ReadData, ring, history
  <2> QED
    BY <2>1, FifoAside
<1>2. CASE ReadAdvance
  <2>1. /\ tail' = next(tail) /\ tail # head /\ consumed' = Append(consumed, data[tail])
        /\ UNCHANGED <<data, head, overflow, kind, raced>>
    BY <1>2 DEF ReadAdvance, CallInv, Goto
  <2>2. data \in [Slots -> Nat] /\ head \in Slots /\ tail \in Slots /\ next(tail) \in Slots
    BY NextSlot DEF TypeOK
  <2>3. BUFCOUNT(next(tail), tail) = 1 /\ 1 <= BUFCOUNT(head, tail)
    <3>1. next(tail) = IF tail + 1 = RX_BUFFER_SIZE THEN 0 ELSE tail + 1
      BY <2>2, NextSlot
    <3>2. tail \in Nat /\ tail < RX_BUFFER_SIZE /\ head \in Nat /\ head < RX_BUFFER_SIZE
      BY <2>2, SlotRange
    <3>3. BUFCOUNT(next(tail), tail) = 1
      BY <3>1, <3>2, SlotRange DEF BUFCOUNT
    <3>4. 1 <= BUFCOUNT(head, tail)
      BY <2>1, <3>2, SlotRange DEF BUFCOUNT
    <3> QED
      BY <3>3, <3>4
  <2>4. 1 \in 0 .. Len(line) /\ line' = [i \in 1 .. Len(line) - 1 |-> line[i + 1]]
    BY <2>1, <2>2, <2>3, FifoDrop
  <2>5. line \in Seq(Nat) /\ Len(line) = BUFCOUNT(head, tail) /\ BUFCOUNT(head, tail) \in Nat
    BY <2>2, LineNow, LineFacts
  <2>6. line # << >>
    BY <2>3, <2>5
  <2>7. line[1] = data[tail]
    <3>1. 1 \in 1 .. BUFCOUNT(head, tail) /\ 1 \in 1 .. RX_BUFFER_SIZE
      BY <2>3, <2>5, SlotRange
    <3>2. line[1] = data[Slot(tail, 1)]
      BY <2>2, <3>1, LineNow, LineFacts
    <3>3. Slot(tail, 1) = tail
      <4>1. Slot(tail, 1) = IF tail + 1 <= RX_BUFFER_SIZE THEN tail + 1 - 1 ELSE tail + 1 - 1 - RX_BUFFER_SIZE
        BY <2>2, <3>1, SlotFacts
      <4> QED
        BY <2>2, <4>1, SlotRange
    <3> QED
      BY <3>2, <3>3
  <2> QED
    BY <2>1, <2>4, <2>6, <2>7 DEF Fifo!Operation, Fifo!Take
<1> QED
  BY <1>1, <1>2 DEF Read

LEMMA FifoOfFlush ==
    ASSUME TypeOK, CallInv, FlushFifo \/ FlushHead \/ FlushBuffer \/ Disable \/ Enable
    PROVE  UNCHANGED raced /\ (Fifo!Operation \/ UNCHANGED Fifo!fifoVars)
<1>0. head \in Slots /\ tail \in Slots /\ bptr \in Slots /\ BUFCOUNT(head, tail) \in Nat
  <2>1. head \in Slots /\ tail \in Slots /\ bptr \in Slots
    BY DEF TypeOK
  <2> QED
    BY <2>1, Distance
<1>1. CASE FlushFifo \/ FlushHead \/ Disable
  <2>1. UNCHANGED <<data, head, tail, kind, consumed, overflow, raced>>
    BY <1>1 DEF FlushFifo, FlushHead, Disable, ring, history
  <2> QED
    BY <2>1, FifoAside
<1>2. ASSUME NEW b \in Slots, BUFCOUNT(b, tail) <= BUFCOUNT(head, tail), tail' = b,
             overflow' \in {overflow, FALSE}, UNCHANGED <<data, head, kind, consumed, raced>>
      PROVE  Fifo!Operation
  <2>1. /\ BUFCOUNT(b, tail) \in 0 .. Len(line)
        /\ line' = [i \in 1 .. Len(line) - BUFCOUNT(b, tail) |-> line[i + BUFCOUNT(b, tail)]]
    BY <1>2, FifoDrop
  <2> QED
    BY <1>2, <2>1 DEF Fifo!Operation, Fifo!Drop
<1>3. CASE FlushBuffer
  <2>1. /\ BUFCOUNT(bptr, tail) <= BUFCOUNT(head, tail) /\ tail' = bptr /\ overflow' = FALSE
        /\ UNCHANGED <<data, head, kind, consumed, raced>>
    BY <1>3 DEF FlushBuffer, CallInv, Goto
  <2> QED
    BY <1>0, <1>2, <2>1
<1>4. CASE Enable
  <2>1. tail' = head /\ UNCHANGED <<data, head, overflow, kind, consumed, raced>>
    BY <1>4 DEF Enable
  <2>2. BUFCOUNT(head, tail) <= BUFCOUNT(head, tail)
    BY <1>0
  <2> QED
    BY <1>0, <1>2, <2>1, <2>2
<1> QED
  BY <1>1, <1>3, <1>4

\* The cancel of the task: its character arrives, the queue is emptied, and the
\* character is put into it.
LEMMA FifoOfCancel ==
    ASSUME TypeOK, CallInv, CancelMark \/ CancelTail \/ CancelHead
    PROVE  UNCHANGED raced /\ Fifo!Operation
<1>0. /\ data \in [Slots -> Nat] /\ head \in Slots /\ tail \in Slots
      /\ BUFCOUNT(head, tail) \in Nat /\ next(head) # head
  <2>1. data \in [Slots -> Nat] /\ head \in Slots /\ tail \in Slots
    BY DEF TypeOK
  <2>2. next(head) # head
    BY <2>1, NextSlot, SlotRange
  <2> QED
    BY <2>1, <2>2, Distance
<1>1. CASE CancelMark
  <2>1. /\ kind' = Append(kind, "stop") /\ data' = [data EXCEPT ![head] = Len(kind) + 1]
        /\ UNCHANGED <<head, tail, overflow, consumed, raced>>
    BY <1>1 DEF CancelMark
  <2>2. Len(kind') = Len(kind) + 1 /\ Len(kind) + 1 \in Nat
    BY <2>1 DEF TypeOK
  <2>3. data' \in [Slots -> Nat] /\ \A s \in Held(head, tail) : data'[s] = data[s]
    <3>1. head \notin Held(head, tail) /\ Held(head, tail) \subseteq Slots
      BY <1>0 DEF Held
    <3> QED
      BY <1>0, <2>1, <2>2, <3>1
  <2>4. UNCHANGED line
    BY <1>0, <2>1, <2>3, LineSame, LineNow, LineNext
  <2> QED
    BY <2>1, <2>2, <2>4 DEF Fifo!Operation, Fifo!Arrive
<1>2. CASE CancelTail
  <2>1. tail' = head /\ UNCHANGED <<data, head, overflow, kind, consumed, raced>>
    BY <1>2 DEF CancelTail
  <2>2. BUFCOUNT(head, tail) <= BUFCOUNT(head, tail)
    BY <1>0
  <2>3. /\ BUFCOUNT(head, tail) \in 0 .. Len(line)
        /\ line' = [i \in 1 .. Len(line) - BUFCOUNT(head, tail) |-> line[i + BUFCOUNT(head, tail)]]
    BY <1>0, <2>1, <2>2, FifoDrop
  <2> QED
    BY <2>1, <2>3 DEF Fifo!Operation, Fifo!Drop
<1>3. CASE CancelHead
  <2>1. /\ tail = head /\ head' = next(tail) /\ data[head] \in 1 .. Len(kind)
        /\ UNCHANGED <<data, tail, overflow, kind, consumed, raced>>
    BY <1>3 DEF CancelHead, CallInv, Goto, history, Numbers
  <2>2. line = << >>
    BY <1>0, <2>1, LineEmpty, LineNow
  <2>3. [data EXCEPT ![head] = data[head]] = data
    BY <1>0
  <2>4. data[head] \in Nat
    BY <1>0
  <2>5. line' = Append(line, data[head])
    <3>1. LineOf([data EXCEPT ![head] = data[head]], next(head), tail) = Append(LineOf(data, head, tail), data[head])
      BY <1>0, <2>1, <2>4, LinePut
    <3> QED
      BY <2>1, <2>3, <3>1, LineNow, LineNext
  <2>6. Len(line) < RX_BUFFER_SIZE - 1
    BY <2>2, SlotRange
  <2> QED
    BY <2>1, <2>5, <2>6 DEF Fifo!Operation, Fifo!Put
<1> QED
  BY <1>1, <1>2, <1>3

LEMMA FifoRefines ==
    TypeOK /\ FifoInv /\ RingInv /\ [Next]_vars => [Fifo!Next]_(Fifo!fifoVars)
<1> SUFFICES ASSUME TypeOK, FifoInv, RingInv, [Next]_vars, ~ raced'
             PROVE  UNCHANGED raced /\ (Fifo!Operation \/ UNCHANGED Fifo!fifoVars)
  BY DEF Fifo!Next
<1>1. ~ raced /\ CallInv
  BY RacedStays DEF RingInv
<1>2. CASE NvsWriteBegin \/ NvsWriteEnd \/ UNCHANGED vars
  <2>1. UNCHANGED <<data, head, tail, kind, consumed, overflow, raced>>
    BY <1>2 DEF NvsWriteBegin, NvsWriteEnd, ring, history, vars
  <2> QED
    BY <2>1, FifoAside
<1>3. CASE OverflowIsr
  <2>1. overflow' = TRUE /\ UNCHANGED <<data, head, tail, kind, consumed, raced>>
    BY <1>3 DEF OverflowIsr, history
  <2>2. UNCHANGED line
    BY <2>1, LineNow, LineNext
  <2> QED
    BY <2>1, <2>2 DEF Fifo!Operation, Fifo!Flag
<1> QED
  BY <1>1, <1>2, <1>3, FifoOfArrive, FifoOfIsr, FifoOfRead, FifoOfFlush, FifoOfCancel DEF Next, Task

\* The ring buffer that interrupt and task share without a lock behaves like a
\* bounded queue whose operations are atomic, until a cancel strikes in the
\* middle of a call: a character is refused only by a full buffer, which says
\* so, a read takes the oldest, and a flush the oldest ones.
THEOREM SpecImplementsFifo == Spec => FifoSpec
<1>1. Init => Fifo!Init
  <2> SUFFICES ASSUME Init PROVE Fifo!Init
    OBVIOUS
  <2>1. line = << >>
    <3>1. TypeOK /\ head = 0 /\ tail = 0
      BY TypeInit DEF Init
    <3> QED
      BY <3>1, LineNow, LineEmpty DEF TypeOK
  <2> QED
    BY <2>1 DEF Init, Fifo!Init
<1> QED
  BY <1>1, TypeInit, TypeStep, FifoInit, FifoStep, RingInit, RingStep, FifoRefines, PTL
     DEF Spec, FifoSpec, Fifo!Spec

-----------------------------------------------------------------------------
(* Nothing is read twice, and nothing is read that a cancel threw away.     *)

WasRead == {consumed[i] : i \in 1 .. Len(consumed)}
InRing == {data[s] : s \in Held(head, tail)}
InFifo == {fifo[i] : i \in 1 .. Len(fifo)}
InCall == IF pc \in {"cancel", "cancel_head"} THEN {ch} ELSE {}

\* Characters that were read, in the buffer, in the FIFO, in the hands of a
\* cancel and thrown away by one.
Apart(R, B, F, H, X) ==
    /\ R \cap B = {} /\ (R \cup B) \cap F = {} /\ (R \cup B \cup F) \cap H = {}
    /\ (R \cup B \cup F \cup H) \cap X = {}

InRingOnce == \A s1, s2 \in Held(head, tail) : data[s1] = data[s2] => s1 = s2

ReadOnce ==
    ~ raced =>
        /\ \A i, j \in 1 .. Len(consumed) : consumed[i] = consumed[j] => i = j
        /\ \A i \in 1 .. Len(consumed) : consumed[i] \notin cancelled

\* Where each character is, it is once.
Places ==
    /\ Apart(WasRead, InRing, InFifo, InCall, cancelled)
    /\ WasRead \cup InRing \cup InFifo \cup InCall \cup cancelled \subseteq Numbers
    /\ InRingOnce
    /\ \A i, j \in 1 .. Len(consumed) : consumed[i] = consumed[j] => i = j

ApartInv == ~ raced => Places

LEMMA RingUnchanged ==
    ASSUME UNCHANGED <<data, head, tail>>
    PROVE  InRing' = InRing /\ (InRingOnce => InRingOnce')
BY DEF InRing, InRingOnce, Held, BUFCOUNT

LEMMA InFifoTail ==
    ASSUME TypeOK, FifoInv, fifo # << >>, fifo' = Tail(fifo)
    PROVE  InFifo' = InFifo \ {Head(fifo)} /\ Head(fifo) \in InFifo
<1>1. /\ Head(fifo) = fifo[1] /\ Len(fifo) \in Nat \ {0} /\ Len(fifo') = Len(fifo) - 1
      /\ \A i \in 1 .. Len(fifo') : /\ fifo'[i] = fifo[i + 1]
                                    /\ i + 1 \in 1 .. Len(fifo) /\ Head(fifo) < fifo'[i]
  BY FifoTake
<1>2. \A i \in 1 .. Len(fifo') : fifo'[i] \in Numbers /\ Head(fifo) \in Numbers
  BY <1>1, FifoTake DEF FifoInv
<1>3. \A i \in 1 .. Len(fifo') : fifo'[i] # Head(fifo)
  BY <1>1, <1>2 DEF Numbers
<1>4. \A i \in 1 .. Len(fifo) : i = 1 \/ (i - 1 \in 1 .. Len(fifo') /\ fifo'[i - 1] = fifo[i])
  <2> SUFFICES ASSUME NEW i \in 1 .. Len(fifo), i # 1
               PROVE  i - 1 \in 1 .. Len(fifo') /\ fifo'[i - 1] = fifo[i]
    OBVIOUS
  <2>1. i - 1 \in 1 .. Len(fifo') /\ (i - 1) + 1 = i
    BY <1>1
  <2> QED
    BY <1>1, <2>1
<1>5. 1 \in 1 .. Len(fifo)
  BY <1>1
<1>6. InFifo' = {fifo'[i] : i \in 1 .. Len(fifo')}
  BY DEF InFifo
<1>7. Head(fifo) \in InFifo
  BY <1>1, <1>5 DEF InFifo
<1>8. \A i \in 1 .. Len(fifo') : fifo'[i] \in InFifo
  BY <1>1 DEF InFifo
<1>9. \A i \in 1 .. Len(fifo) : fifo[i] = Head(fifo) \/ fifo[i] \in InFifo'
  BY <1>1, <1>4, <1>6
<1> QED
  BY <1>3, <1>6, <1>7, <1>8, <1>9 DEF InFifo

\* A character put at the head.
LEMMA RingPut ==
    ASSUME TypeOK, NEW c, next(head) # tail, data' = [data EXCEPT ![head] = c],
           head' = next(head), tail' = tail
    PROVE  /\ InRing' = InRing \cup {c}
           /\ InRingOnce /\ c \notin InRing => InRingOnce'
<1>1. head \in Slots /\ tail \in Slots /\ data \in [Slots -> Nat]
  BY DEF TypeOK
<1>2. Held(head', tail') = Held(head, tail) \cup {head} /\ head \notin Held(head, tail)
  BY <1>1, HeldInsert
<1>3. data'[head] = c /\ \A s \in Held(head, tail) : data'[s] = data[s]
  BY <1>1, <1>2 DEF Held
<1>4. InRing' = {data'[s] : s \in Held(head', tail')}
  BY DEF InRing, Held, BUFCOUNT
<1>5. InRingOnce' <=> \A s1, s2 \in Held(head', tail') : data'[s1] = data'[s2] => s1 = s2
  BY DEF InRingOnce, Held, BUFCOUNT
<1> QED
  BY <1>2, <1>3, <1>4, <1>5 DEF InRing, InRingOnce

\* The one character a cancel leaves.
LEMMA RingOne ==
    ASSUME head \in Slots, NEW c, data'[head] = c, head' = next(head), tail' = head
    PROVE  InRing' = {c} /\ InRingOnce'
<1>1. Held(head', tail') = {head}
  BY HeldEmpty
<1>2. InRing' = {data'[s] : s \in Held(head', tail')}
  BY DEF InRing, Held, BUFCOUNT
<1>3. InRingOnce' <=> \A s1, s2 \in Held(head', tail') : data'[s1] = data'[s2] => s1 = s2
  BY DEF InRingOnce, Held, BUFCOUNT
<1> QED
  BY <1>1, <1>2, <1>3

\* What is left by a flush.
LEMMA RingLater ==
    ASSUME head \in Slots, tail \in Slots, NEW b \in Slots, BUFCOUNT(b, tail) <= BUFCOUNT(head, tail),
           UNCHANGED <<data, head>>, tail' = b
    PROVE  InRing' \subseteq InRing /\ (InRingOnce => InRingOnce')
<1>1. Held(head', tail') \subseteq Held(head, tail)
  BY HeldLater
<1>2. InRing' = {data[s] : s \in Held(head', tail')}
  BY DEF InRing, Held, BUFCOUNT
<1>3. InRingOnce' <=> \A s1, s2 \in Held(head', tail') : data[s1] = data[s2] => s1 = s2
  BY DEF InRingOnce, Held, BUFCOUNT
<1> QED
  BY <1>1, <1>2, <1>3 DEF InRing, InRingOnce

LEMMA NewNumber ==
    ASSUME TypeOK, NEW k, kind' = Append(kind, k)
    PROVE  Numbers' = Numbers \cup {Len(kind) + 1} /\ Len(kind) + 1 \notin Numbers
<1>1. Len(kind) \in Nat /\ Len(kind') = Len(kind) + 1
  BY DEF TypeOK
<1> QED
  BY <1>1 DEF Numbers

LEMMA PlacesArrive ==
    ASSUME TypeOK, Places, NEW k \in CharKinds, Arrive(k)
    PROVE  Places'
<1>1. kind' = Append(kind, k) /\ UNCHANGED <<data, head, tail, pc, ch, consumed, cancelled>>
  BY DEF Arrive, ring, task
<1>2. Numbers' = Numbers \cup {Len(kind) + 1} /\ Len(kind) + 1 \notin Numbers
  BY <1>1, NewNumber
<1>3. InFifo' \subseteq InFifo \cup {Len(kind) + 1}
  <2>1. CASE fifo' = fifo
    BY <2>1 DEF InFifo
  <2>2. CASE fifo' = Append(fifo, Len(kind) + 1)
    <3>1. /\ Len(fifo) \in Nat /\ Len(fifo') = Len(fifo) + 1
          /\ \A i \in 1 .. Len(fifo) + 1 : fifo'[i] = IF i = Len(fifo) + 1 THEN Len(kind) + 1 ELSE fifo[i]
      BY <2>2 DEF TypeOK
    <3>2. \A i \in 1 .. Len(fifo') : i \in 1 .. Len(fifo) \/ i = Len(fifo) + 1
      BY <3>1
    <3>3. \A i \in 1 .. Len(fifo') : fifo'[i] = Len(kind) + 1 \/ fifo'[i] \in InFifo
      BY <3>1, <3>2 DEF InFifo
    <3>4. InFifo' = {fifo'[i] : i \in 1 .. Len(fifo')}
      BY DEF InFifo
    <3> QED
      BY <3>3, <3>4
  <2> QED
    BY <2>1, <2>2 DEF Arrive
<1>4. InRing' = InRing /\ InRingOnce'
  BY <1>1, RingUnchanged DEF Places
<1>5. WasRead' = WasRead /\ InCall' = InCall
  BY <1>1 DEF WasRead, InCall
<1>6. Apart(WasRead, InRing, InFifo', InCall, cancelled)
  BY <1>2, <1>3 DEF Places, Apart
<1>7. WasRead \cup InRing \cup InFifo' \cup InCall \cup cancelled \subseteq Numbers'
  BY <1>2, <1>3 DEF Places
<1> QED
  BY <1>1, <1>4, <1>5, <1>6, <1>7 DEF Places

LEMMA PlacesIsr ==
    ASSUME TypeOK, FifoInv, Places, uart_isr, ~ raced'
    PROVE  Places'
<1>0. PICK c : c = Head(fifo)
  OBVIOUS
<1>1. fifo # << >> /\ fifo' = Tail(fifo) /\ UNCHANGED <<pc, ch, kind, consumed>>
  BY DEF uart_isr, task
<1>2. InFifo' = InFifo \ {c} /\ c \in InFifo
  BY <1>0, <1>1, InFifoTail
<1>3. WasRead' = WasRead /\ InCall' = InCall /\ Numbers' = Numbers
  BY <1>1 DEF WasRead, InCall, Numbers
<1>4. c \notin InRing /\ c \notin WasRead \cup InCall \cup cancelled /\ c \in Numbers
  BY <1>2 DEF Places, Apart
<1>5. head \in Slots /\ tail \in Slots /\ data \in [Slots -> Nat]
  BY DEF TypeOK
<1>6. \/ InRing' \subseteq InRing \cup {c} /\ InRingOnce' /\ cancelled' = cancelled
      \/ InRing' = {c} /\ InRingOnce' /\ cancelled' = cancelled \cup InRing
  <2>1. CASE Insert(c) /\ UNCHANGED <<tail, cancelled>>
    <3>1. CASE next(head) = tail
      BY <2>1, <3>1, RingUnchanged DEF Insert, Places
    <3>2. CASE next(head) # tail
      <4>1. data' = [data EXCEPT ![head] = c] /\ head' = next(head)
        BY <2>1, <3>2 DEF Insert
      <4> QED
        BY <1>4, <2>1, <3>2, <4>1, RingPut DEF Places
    <3> QED
      BY <3>1, <3>2
  <2>2. CASE CancelInIsr(c)
    <3>1. data' = [data EXCEPT ![head] = c] /\ head' = next(head) /\ tail' = head
      BY <2>2 DEF CancelInIsr
    <3>2. cancelled' = cancelled \cup InRing
      BY <1>5, <2>2, BufferedHeld DEF CancelInIsr, InRing
    <3>3. data'[head] = c
      BY <1>5, <3>1
    <3> QED
      BY <1>5, <3>1, <3>2, <3>3, RingOne
  <2>3. CASE UNCHANGED <<data, head, tail, cancelled>>
    BY <2>3, RingUnchanged DEF Places
  <2> QED
    BY <1>0, <2>1, <2>2, <2>3 DEF uart_isr
<1>7. Apart(WasRead, InRing', InFifo', InCall, cancelled')
  BY <1>2, <1>4, <1>6 DEF Places, Apart
<1>8. WasRead \cup InRing' \cup InFifo' \cup InCall \cup cancelled' \subseteq Numbers
  BY <1>2, <1>4, <1>6 DEF Places
<1> QED
  BY <1>1, <1>3, <1>6, <1>7, <1>8 DEF Places

LEMMA PlacesRead ==
    ASSUME TypeOK, CallInv, Places, ReadAdvance
    PROVE  Places'
<1>1. /\ tail' = next(tail) /\ tail # head /\ consumed' = Append(consumed, data[tail])
      /\ pc = "advance" /\ pc' = "idle" /\ UNCHANGED <<fifo, data, head, kind, cancelled>>
  BY DEF ReadAdvance, CallInv, Goto, hw
<1>2. head \in Slots /\ tail \in Slots
  BY DEF TypeOK
<1>3. tail \in Held(head, tail) /\ Held(head', tail') = Held(head, tail) \ {tail}
  BY <1>1, <1>2, HeldAdvance
<1>4. InRing' = InRing \ {data[tail]} /\ data[tail] \in InRing /\ InRingOnce'
  <2>1. InRing' = {data[s] : s \in Held(head', tail')}
    BY <1>1 DEF InRing, Held, BUFCOUNT
  <2>2. InRingOnce' <=> \A s1, s2 \in Held(head', tail') : data[s1] = data[s2] => s1 = s2
    BY <1>1 DEF InRingOnce, Held, BUFCOUNT
  <2>3. \A s1, s2 \in Held(head, tail) : data[s1] = data[s2] => s1 = s2
    BY DEF Places, InRingOnce
  <2>4. \A s \in Held(head, tail) : s # tail => data[s] # data[tail]
    BY <1>3, <2>3
  <2>5. InRing' = InRing \ {data[tail]} /\ data[tail] \in InRing
    BY <1>3, <2>1, <2>4 DEF InRing
  <2>6. InRingOnce'
    BY <1>3, <2>2, <2>3
  <2> QED
    BY <2>5, <2>6
<1>5. /\ Len(consumed) \in Nat /\ Len(consumed') = Len(consumed) + 1
      /\ \A i \in 1 .. Len(consumed') :
            consumed'[i] = IF i = Len(consumed) + 1 THEN data[tail] ELSE consumed[i]
  BY <1>1 DEF TypeOK
<1>6. \A i \in 1 .. Len(consumed') : i \in 1 .. Len(consumed) \/ i = Len(consumed) + 1
  BY <1>5
<1>7. \A i \in 1 .. Len(consumed) : consumed[i] \in WasRead /\ consumed[i] # data[tail]
  BY <1>4 DEF Places, Apart, WasRead
<1>8. \A i, j \in 1 .. Len(consumed') : consumed'[i] = consumed'[j] => i = j
  <2> SUFFICES ASSUME NEW i \in 1 .. Len(consumed'), NEW j \in 1 .. Len(consumed'), consumed'[i] = consumed'[j]
               PROVE  i = j
    OBVIOUS
  <2>1. CASE i = Len(consumed) + 1
    <3>1. consumed'[i] = data[tail]
      BY <1>5, <2>1
    <3>2. j \in 1 .. Len(consumed) => consumed'[j] = consumed[j]
      BY <1>5
    <3> QED
      BY <1>6, <1>7, <2>1, <3>1, <3>2
  <2>2. CASE j = Len(consumed) + 1
    <3>1. consumed'[j] = data[tail]
      BY <1>5, <2>2
    <3>2. i \in 1 .. Len(consumed) => consumed'[i] = consumed[i]
      BY <1>5
    <3> QED
      BY <1>6, <1>7, <2>2, <3>1, <3>2
  <2>3. CASE i \in 1 .. Len(consumed) /\ j \in 1 .. Len(consumed)
    BY <1>5, <2>3 DEF Places
  <2> QED
    BY <1>6, <2>1, <2>2, <2>3
<1>9. WasRead' \subseteq WasRead \cup {data[tail]}
  <2>1. WasRead' = {consumed'[i] : i \in 1 .. Len(consumed')}
    BY DEF WasRead
  <2>2. \A i \in 1 .. Len(consumed') : consumed'[i] = data[tail] \/ consumed'[i] \in WasRead
    BY <1>5, <1>6, <1>7
  <2> QED
    BY <2>1, <2>2
<1>10. InFifo' = InFifo /\ InCall' = {} /\ InCall = {} /\ Numbers' = Numbers
  BY <1>1 DEF InFifo, InCall, Numbers
<1>11. Apart(WasRead', InRing', InFifo, {}, cancelled)
  BY <1>4, <1>9 DEF Places, Apart
<1>12. WasRead' \cup InRing' \cup InFifo \cup {} \cup cancelled \subseteq Numbers
  BY <1>4, <1>9 DEF Places
<1> QED
  BY <1>1, <1>4, <1>8, <1>10, <1>11, <1>12 DEF Places

\* Throwing characters away, other than by a cancel, leaves the rest apart.
LEMMA PlacesLess ==
    ASSUME Places, InRing' \subseteq InRing, InRingOnce', InFifo' \subseteq InFifo, InCall' = InCall,
           UNCHANGED <<kind, consumed, cancelled>>
    PROVE  Places'
<1>1. WasRead' = WasRead /\ Numbers' = Numbers
  BY DEF WasRead, Numbers
<1>2. Apart(WasRead, InRing', InFifo', InCall, cancelled)
  BY DEF Places, Apart
<1>3. WasRead \cup InRing' \cup InFifo' \cup InCall \cup cancelled \subseteq Numbers
  BY DEF Places
<1> QED
  BY <1>1, <1>2, <1>3 DEF Places

LEMMA PlacesFlush ==
    ASSUME TypeOK, CallInv, Places, FlushFifo \/ FlushBuffer \/ Enable
    PROVE  Places'
<1>0. head \in Slots /\ tail \in Slots /\ bptr \in Slots /\ BUFCOUNT(head, tail) \in Nat
  <2>1. head \in Slots /\ tail \in Slots /\ bptr \in Slots
    BY DEF TypeOK
  <2> QED
    BY <2>1, Distance
<1>1. InFifo' \subseteq InFifo /\ InCall' = InCall /\ UNCHANGED <<kind, consumed, cancelled>>
  <2>1. (fifo' = fifo \/ fifo' = << >>) /\ UNCHANGED <<kind, consumed, cancelled>>
    BY DEF FlushFifo, FlushBuffer, Enable, hw
  <2>2. pc' \notin {"cancel", "cancel_head"} /\ pc \notin {"cancel", "cancel_head"}
    BY DEF FlushFifo, FlushBuffer, Enable, Goto, task
  <2> QED
    BY <2>1, <2>2 DEF InFifo, InCall
<1>2. CASE FlushFifo
  <2>1. UNCHANGED <<data, head, tail>>
    BY <1>2 DEF FlushFifo, ring
  <2>2. InRing' = InRing /\ InRingOnce'
    BY <2>1, RingUnchanged DEF Places
  <2> QED
    BY <1>1, <2>2, PlacesLess
<1>3. ASSUME NEW b \in Slots, BUFCOUNT(b, tail) <= BUFCOUNT(head, tail), tail' = b, UNCHANGED <<data, head>>
      PROVE  Places'
  <2>1. InRing' \subseteq InRing /\ InRingOnce'
    BY <1>0, <1>3, RingLater DEF Places
  <2> QED
    BY <1>1, <2>1, PlacesLess
<1>4. CASE FlushBuffer
  BY <1>0, <1>3, <1>4 DEF FlushBuffer, CallInv, Goto
<1>5. CASE Enable
  <2>1. BUFCOUNT(head, tail) <= BUFCOUNT(head, tail)
    BY <1>0
  <2> QED
    BY <1>0, <1>3, <1>5, <2>1 DEF Enable
<1> QED
  BY <1>2, <1>4, <1>5

LEMMA PlacesCancel ==
    ASSUME TypeOK, CallInv, Places, CancelMark \/ CancelTail \/ CancelHead
    PROVE  Places'
<1>0. /\ head \in Slots /\ tail \in Slots /\ data \in [Slots -> Nat]
      /\ head \notin Held(head, tail) /\ Held(head, tail) \subseteq Slots
  <2>1. head \in Slots /\ tail \in Slots /\ data \in [Slots -> Nat]
    BY DEF TypeOK
  <2> QED
    BY <2>1, Distance DEF Held
<1>1. InFifo' = InFifo /\ WasRead' = WasRead /\ UNCHANGED consumed
  BY DEF CancelMark, CancelTail, CancelHead, hw, history, InFifo, WasRead
<1>2. CASE CancelMark
  <2>1. /\ kind' = Append(kind, "stop") /\ data' = [data EXCEPT ![head] = Len(kind) + 1]
        /\ pc = "idle" /\ pc' = "cancel" /\ ch' = Len(kind) + 1 /\ UNCHANGED <<head, tail, cancelled>>
    BY <1>2 DEF CancelMark, Goto
  <2>2. Numbers' = Numbers \cup {Len(kind) + 1} /\ Len(kind) + 1 \notin Numbers
    BY <2>1, NewNumber
  <2>3. \A s \in Held(head, tail) : data'[s] = data[s]
    BY <1>0, <2>1
  <2>4. InRing' = {data'[s] : s \in Held(head, tail)}
    BY <2>1 DEF InRing, Held, BUFCOUNT
  <2>5. InRingOnce' <=> \A s1, s2 \in Held(head, tail) : data'[s1] = data'[s2] => s1 = s2
    BY <2>1 DEF InRingOnce, Held, BUFCOUNT
  <2>6. InRing' = InRing /\ InRingOnce'
    BY <2>3, <2>4, <2>5 DEF InRing, InRingOnce, Places
  <2>7. InCall = {} /\ InCall' = {Len(kind) + 1}
    BY <2>1 DEF InCall
  <2>8. Apart(WasRead, InRing, InFifo, InCall', cancelled)
    BY <2>2, <2>7 DEF Places, Apart
  <2>9. WasRead \cup InRing \cup InFifo \cup InCall' \cup cancelled \subseteq Numbers'
    BY <2>2, <2>7 DEF Places
  <2> QED
    BY <1>1, <2>1, <2>6, <2>8, <2>9 DEF Places
<1>3. CASE CancelTail
  <2>1. /\ tail' = head /\ pc = "cancel" /\ pc' = "cancel_head" /\ UNCHANGED <<data, head, ch, kind>>
        /\ cancelled' = cancelled \cup Buffered(tail)
    BY <1>3 DEF CancelTail, Goto
  <2>2. cancelled' = cancelled \cup InRing
    BY <1>0, <2>1, BufferedHeld DEF InRing
  <2>3. Held(head', tail') = {}
    BY <1>0, <2>1, HeldEmpty
  <2>4. InRing' = {} /\ InRingOnce'
    <3>1. InRing' = {data'[s] : s \in Held(head', tail')}
      BY DEF InRing, Held, BUFCOUNT
    <3>2. InRingOnce' <=> \A s1, s2 \in Held(head', tail') : data'[s1] = data'[s2] => s1 = s2
      BY DEF InRingOnce, Held, BUFCOUNT
    <3> QED
      BY <2>3, <3>1, <3>2
  <2>5. InCall' = InCall /\ Numbers' = Numbers
    BY <2>1 DEF InCall, Numbers
  <2>6. Apart(WasRead, {}, InFifo, InCall, cancelled')
    BY <2>2 DEF Places, Apart
  <2>7. WasRead \cup {} \cup InFifo \cup InCall \cup cancelled' \subseteq Numbers
    BY <2>2 DEF Places
  <2> QED
    BY <1>1, <2>4, <2>5, <2>6, <2>7 DEF Places
<1>4. CASE CancelHead
  <2>1. /\ head' = next(head) /\ tail' = head /\ pc = "cancel_head" /\ pc' = "idle"
        /\ data'[head] = ch /\ UNCHANGED <<kind, cancelled>>
    BY <1>4 DEF CancelHead, CallInv, Goto, history
  <2>2. InRing' = {ch} /\ InRingOnce'
    BY <1>0, <2>1, RingOne
  <2>3. InCall = {ch} /\ InCall' = {} /\ Numbers' = Numbers
    BY <2>1 DEF InCall, Numbers
  <2>4. Apart(WasRead, {ch}, InFifo, {}, cancelled)
    BY <2>3 DEF Places, Apart
  <2>5. WasRead \cup {ch} \cup InFifo \cup {} \cup cancelled \subseteq Numbers
    BY <2>3 DEF Places
  <2> QED
    BY <1>1, <2>1, <2>2, <2>3, <2>4, <2>5 DEF Places
<1> QED
  BY <1>2, <1>3, <1>4

LEMMA PlacesAside ==
    ASSUME Places, UNCHANGED <<fifo, data, head, tail, kind, consumed, cancelled>>,
           (pc \notin {"cancel", "cancel_head"} /\ pc' \notin {"cancel", "cancel_head"}) \/ UNCHANGED <<pc, ch>>
    PROVE  Places'
<1>1. InRing' = InRing /\ InRingOnce'
  BY RingUnchanged DEF Places
<1>2. InFifo' = InFifo /\ InCall' = InCall
  BY DEF InFifo, InCall
<1> QED
  BY <1>1, <1>2, PlacesLess

LEMMA ApartStep == TypeOK /\ FifoInv /\ RingInv /\ ApartInv /\ [Next]_vars => ApartInv'
<1> SUFFICES ASSUME TypeOK, FifoInv, RingInv, ApartInv, [Next]_vars, ~ raced'
             PROVE  Places'
  BY DEF ApartInv
<1>1. ~ raced /\ CallInv /\ Places
  BY RacedStays DEF RingInv, ApartInv
<1>2. CASE \/ ReadTail \/ ReadData \/ FlushHead \/ Disable \/ OverflowIsr
           \/ NvsWriteBegin \/ NvsWriteEnd \/ UNCHANGED vars
  <2>1. /\ UNCHANGED <<fifo, data, head, tail, kind, consumed, cancelled>>
        /\ \/ pc \notin {"cancel", "cancel_head"} /\ pc' \notin {"cancel", "cancel_head"}
           \/ UNCHANGED <<pc, ch>>
    BY <1>2 DEF ReadTail, ReadData, FlushHead, Disable, OverflowIsr, NvsWriteBegin, NvsWriteEnd, Goto, hw,
                ring, task, history, vars
  <2> QED
    BY <1>1, <2>1, PlacesAside
<1> QED
  BY <1>1, <1>2, PlacesArrive, PlacesIsr, PlacesRead, PlacesFlush, PlacesCancel DEF Next, Task, Read

\* Each character is read once, the ASCII_CAN of a cancel too, and none that a
\* cancel had thrown away: what CancelFlushes says of every cancel is lost only
\* when one strikes in the middle of a call of the task or is interrupted.
THEOREM SpecReadOnce == Spec => []ReadOnce
<1>1. Init => ApartInv
  <2> SUFFICES ASSUME Init PROVE Places
    BY DEF ApartInv
  <2>1. /\ Held(head, tail) = {} /\ consumed = << >> /\ fifo = << >> /\ cancelled = {} /\ pc = "idle"
    BY HeldEmpty, SlotRange DEF Init
  <2>2. WasRead = {} /\ InRing = {} /\ InFifo = {} /\ InCall = {} /\ InRingOnce
    BY <2>1 DEF WasRead, InRing, InFifo, InCall, InRingOnce
  <2>3. Apart({}, {}, {}, {}, {})
    BY DEF Apart
  <2> QED
    BY <2>1, <2>2, <2>3 DEF Places
<1>2. ApartInv => ReadOnce
  BY DEF ApartInv, Places, Apart, WasRead, ReadOnce
<1> QED
  BY <1>1, <1>2, TypeInit, TypeStep, FifoInit, FifoStep, RingInit, RingStep, ApartStep, PTL DEF Spec
=============================================================================
