--------------------------- MODULE CommandChannel ---------------------------
(***************************************************************************)
(* What the SPI command link of src/main/rahman/spi promises, without the   *)
(* packets, identifiers, acknowledgements and buffers it is built from.     *)
(*                                                                          *)
(* The master reads numbered lines from a source, one after the other.      *)
(* Some of them reach a bounded first-in first-out queue on the slave, each *)
(* at most once and in increasing order.  A consumer takes them out of the  *)
(* queue; a discard command removes queued lines without delivering them.   *)
(***************************************************************************)
EXTENDS Naturals, Sequences, TLAPS

CONSTANT Capacity        \* number of lines the slave can queue

VARIABLES
    source,              \* number of the line last read from the source
    accepted,            \* lines that have entered the queue
    queue,               \* accepted lines that were not yet taken out
    delivered            \* lines handed to the consumer, in order

chanVars == <<source, accepted, queue, delivered>>

Init ==
    /\ source = 0
    /\ accepted = {}
    /\ queue = << >>
    /\ delivered = << >>

\* The master moves on to the next line.
Offer ==
    /\ source' = source + 1
    /\ UNCHANGED <<accepted, queue, delivered>>

\* A line that was read from the source, newer than all accepted before it,
\* enters the queue.
Accept ==
    /\ Len(queue) < Capacity
    /\ \E n \in 1 .. source :
          /\ \A a \in accepted : a < n
          /\ queue' = Append(queue, n)
          /\ accepted' = accepted \cup {n}
    /\ UNCHANGED <<source, delivered>>

Deliver ==
    /\ queue # << >>
    /\ delivered' = Append(delivered, Head(queue))
    /\ queue' = Tail(queue)
    /\ UNCHANGED <<source, accepted>>

Discard ==
    /\ queue # << >>
    /\ queue' = Tail(queue)
    /\ UNCHANGED <<source, accepted, delivered>>

Next == Offer \/ Accept \/ Deliver \/ Discard

Spec == Init /\ [][Next]_chanVars

-----------------------------------------------------------------------------
TypeOK ==
    /\ source \in Nat
    /\ accepted \subseteq Nat
    /\ queue \in Seq(Nat)
    /\ delivered \in Seq(Nat)

Increasing(s) == \A i, j \in 1 .. Len(s) : i < j => s[i] < s[j]

\* The consumer sees each line at most once and never an older line after a
\* newer one, whatever was retransmitted or discarded in between.
InOrder == Increasing(delivered)

\* What makes InOrder inductive: the queue continues the delivered lines, and
\* both hold accepted lines only.
InOrderInv ==
    /\ TypeOK
    /\ InOrder
    /\ Increasing(queue)
    /\ \A i \in 1 .. Len(delivered), j \in 1 .. Len(queue) :
          delivered[i] < queue[j]
    /\ \A i \in 1 .. Len(delivered) : delivered[i] \in accepted
    /\ \A j \in 1 .. Len(queue) : queue[j] \in accepted

-----------------------------------------------------------------------------
LEMMA InOrderInit == Init => InOrderInv
BY DEF Init, InOrderInv, TypeOK, InOrder, Increasing

\* Appending a line above all others keeps a sequence increasing.
LEMMA AppendIncreasing ==
    ASSUME NEW s \in Seq(Nat), NEW n \in Nat, Increasing(s),
           \A i \in 1 .. Len(s) : s[i] < n
    PROVE  Append(s, n) \in Seq(Nat) /\ Increasing(Append(s, n))
BY DEF Increasing

LEMMA InOrderAccept ==
    ASSUME InOrderInv, Accept
    PROVE  InOrderInv'
<1>1. PICK n \in 1 .. source :
          /\ \A a \in accepted : a < n
          /\ queue' = Append(queue, n)
          /\ accepted' = accepted \cup {n}
  BY DEF Accept
<1>2. n \in Nat /\ UNCHANGED <<source, delivered>>
  BY DEF Accept, InOrderInv, TypeOK
<1>3. queue' \in Seq(Nat) /\ Increasing(queue')
  BY <1>1, <1>2, AppendIncreasing DEF InOrderInv, TypeOK
<1>4. TypeOK'
  BY <1>1, <1>2, <1>3 DEF InOrderInv, TypeOK
<1>5. \A j \in 1 .. Len(queue') :
          queue'[j] = n \/ (j \in 1 .. Len(queue) /\ queue'[j] = queue[j])
  BY <1>1, <1>2 DEF InOrderInv, TypeOK
<1>6. \A i \in 1 .. Len(delivered) : delivered[i] < n
  BY <1>1 DEF InOrderInv
<1> QED
  BY <1>1, <1>2, <1>3, <1>4, <1>5, <1>6 DEF InOrderInv, InOrder

\* What remains of the queue after its head is taken.
LEMMA TailOfQueue ==
    ASSUME InOrderInv, queue # << >>, queue' = Tail(queue)
    PROVE  /\ queue' \in Seq(Nat) /\ Increasing(queue')
           /\ Head(queue) \in Nat /\ Head(queue) \in accepted
           /\ \A i \in 1 .. Len(delivered) : delivered[i] < Head(queue)
           /\ \A j \in 1 .. Len(queue') :
                 /\ queue'[j] \in accepted
                 /\ Head(queue) < queue'[j]
                 /\ \A i \in 1 .. Len(delivered) : delivered[i] < queue'[j]
<1>1. /\ Len(queue) \in Nat /\ Len(queue) > 0 /\ Head(queue) = queue[1]
      /\ Len(queue') = Len(queue) - 1 /\ queue' \in Seq(Nat)
      /\ \A j \in 1 .. Len(queue') : queue'[j] = queue[j + 1]
  BY DEF InOrderInv, TypeOK
<1>2. \A j \in 1 .. Len(queue') : j + 1 \in 1 .. Len(queue) /\ 1 < j + 1
  BY <1>1
<1>3. 1 \in 1 .. Len(queue)
  BY <1>1
<1>4. queue[1] \in Nat
  BY <1>3 DEF InOrderInv, TypeOK
<1>5. Increasing(queue')
  BY <1>1, <1>2 DEF InOrderInv, Increasing
<1>6. \A j \in 1 .. Len(queue') : Head(queue) < queue'[j]
  BY <1>1, <1>2, <1>3 DEF InOrderInv, Increasing
<1> QED
  BY <1>1, <1>2, <1>3, <1>4, <1>5, <1>6 DEF InOrderInv

LEMMA InOrderDeliver ==
    ASSUME InOrderInv, Deliver
    PROVE  InOrderInv'
<1>1. /\ queue # << >> /\ queue' = Tail(queue)
      /\ delivered' = Append(delivered, Head(queue))
      /\ UNCHANGED <<source, accepted>>
  BY DEF Deliver
<1>2. delivered' \in Seq(Nat) /\ Increasing(delivered')
  BY <1>1, TailOfQueue, AppendIncreasing DEF InOrderInv, InOrder, TypeOK
<1>3. \A i \in 1 .. Len(delivered') :
          \/ delivered'[i] = Head(queue)
          \/ i \in 1 .. Len(delivered) /\ delivered'[i] = delivered[i]
  BY <1>1, TailOfQueue DEF InOrderInv, TypeOK
<1>4. TypeOK'
  BY <1>1, <1>2, TailOfQueue DEF InOrderInv, TypeOK
<1> QED
  BY <1>1, <1>2, <1>3, <1>4, TailOfQueue DEF InOrderInv, InOrder

LEMMA InOrderDiscard ==
    ASSUME InOrderInv, Discard
    PROVE  InOrderInv'
<1>1. /\ queue # << >> /\ queue' = Tail(queue)
      /\ UNCHANGED <<source, accepted, delivered>>
  BY DEF Discard
<1> QED
  BY <1>1, TailOfQueue DEF InOrderInv, TypeOK, InOrder

LEMMA InOrderStep == InOrderInv /\ [Next]_chanVars => InOrderInv'
<1> SUFFICES ASSUME InOrderInv, [Next]_chanVars PROVE InOrderInv'
  OBVIOUS
<1>1. CASE Offer
  BY <1>1 DEF Offer, InOrderInv, TypeOK, InOrder, Increasing
<1>2. CASE UNCHANGED chanVars
  BY <1>2 DEF chanVars, InOrderInv, TypeOK, InOrder, Increasing
<1> QED
  BY <1>1, <1>2, InOrderAccept, InOrderDeliver, InOrderDiscard DEF Next

\* Every system that implements this channel delivers each line at most once
\* and in the order of the source.
THEOREM SpecInOrder == Spec => []InOrder
<1>1. InOrderInv => InOrder
  BY DEF InOrderInv
<1> QED
  BY <1>1, InOrderInit, InOrderStep, PTL DEF Spec
=============================================================================
