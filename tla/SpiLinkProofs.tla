--------------------------- MODULE SpiLinkProofs ---------------------------
(***************************************************************************)
(* Theorems about the SPI command link, for every queue capacity, every     *)
(* number of lines and every set of faults.                                 *)
(***************************************************************************)
EXTENDS SpiLink, FiniteSetTheorems, TLAPS

(* A buffer is in the slave task's hands exactly in these states.            *)
PcOK == (current_rx_buf = NoBuffer) <=> spc \in {"prepare", "take"}

TypeInv == TypeOK /\ PcOK

\* The packet of a normal iteration is a packet.
LEMMA LinePacketType ==
    ASSUME TypeOK
    PROVE  LinePacket \in Packet /\ LineToSend \in Nat
BY DEF TypeOK, Packet, LinePacket, LineToSend

\* Recycling a buffer keeps the queue and the pool well typed.
LEMMA RecycleType ==
    ASSUME TypeOK, NEW b \in Buffers, Recycle(b)
    PROVE  free_queue' \in Seq(Buffers) /\ rx_pool' \in [Buffers -> Packet]
<1>1. NoPacket \in Packet
  BY DEF NoPacket, Packet
<1> QED
  BY <1>1 DEF TypeOK, Recycle, QueueSend

\* A completed transaction leaves the master's variables well typed.
LEMMA MasterReadsType ==
    ASSUME TypeOK, NEW p \in Packet, NEW r \in Reply, MasterReads(p, r)
    PROVE  /\ slave_free_slots' \in Nat
           /\ expected_ack' \in Nat \ {0}
           /\ fetch_new_line' \in BOOLEAN
           /\ acked' \in SUBSET Nat
<1>1. r.rx_free \in Nat /\ p.data \in Nat
  BY DEF Packet, Reply
<1>2. /\ slave_free_slots' = r.rx_free
      /\ \/ UNCHANGED <<expected_ack, fetch_new_line, acked>>
         \/ /\ expected_ack' = expected_ack + 1
            /\ fetch_new_line' = TRUE
            /\ acked' = acked \cup {p.data} \/ acked' = acked
         \/ fetch_new_line' = FALSE /\ UNCHANGED <<expected_ack, acked>>
  BY DEF MasterReads
<1>3. slave_free_slots' \in Nat
  BY <1>1, <1>2
<1>4. expected_ack' \in Nat \ {0}
  BY <1>2 DEF TypeOK
<1>5. fetch_new_line' \in BOOLEAN
  BY <1>2, Zenon DEF TypeOK
<1>6. acked' \in SUBSET Nat
  BY <1>1, <1>2 DEF TypeOK
<1> QED
  BY <1>3, <1>4, <1>5, <1>6

\* Receiving a packet keeps the slave's side well typed.
LEMMA WireType ==
    ASSUME TypeInv, NEW p \in Packet, WireExchange(p) \/ WireSilent,
           UNCHANGED current_rx_buf
    PROVE  /\ rx_pool' \in [Buffers -> Packet]
           /\ spc' \in SlavePc
           /\ purged' \in Nat
           /\ PcOK'
BY DEF TypeInv, TypeOK, PcOK, SlavePc, WireExchange, WireSilent

\* Every step of the master task keeps the types.
LEMMA MasterType ==
    ASSUME TypeInv, MasterLine \/ MasterFlush
    PROVE  TypeInv'
<1> USE DEF TypeInv
<1>1. LinePacket \in Packet /\ LineToSend \in Nat
  BY LinePacketType
<1>2. FlushPacket \in Packet
  BY DEF FlushPacket, Packet
<1>3. ASSUME SendsLine PROVE tx_msg' \in Packet /\ line' \in Nat
  BY <1>1, <1>3 DEF SendsLine
<1>4. IdleReads \subseteq Reply
  BY DEF IdleReads, Reply
<1>5. CASE LineExchanged
  <2>1. /\ SendsLine /\ WireExchange(LinePacket)
        /\ MasterReads(LinePacket, reply)
    BY <1>5 DEF LineExchanged
  <2>2. reply \in Reply
    BY DEF TypeOK
  <2> QED
    BY <2>1, <2>2, <1>1, <1>3, WireType, MasterReadsType
       DEF TypeOK, SendsLine, slaveRest
<1>6. CASE LineMissed
  <2>1. SendsLine /\ WireSilent
    BY <1>6 DEF LineMissed
  <2>2. PICK r \in IdleReads : MasterReads(LinePacket, r)
    BY <1>6 DEF LineMissed
  <2> QED
    BY <2>1, <2>2, <1>1, <1>3, <1>4, WireType, MasterReadsType
       DEF TypeOK, SendsLine, slaveRest
<1>7. CASE LineFailed
  <2>1. SendsLine /\ WireSilent /\ MasterFails
    BY <1>7 DEF LineFailed
  <2> QED
    BY <2>1, <1>1, <1>3, WireType DEF TypeOK, SendsLine, slaveRest, MasterFails
<1>8. CASE FlushExchanged
  <2>1. SendsFlush /\ WireExchange(FlushPacket) /\ FlushSent
        /\ UNCHANGED flushLost
    BY <1>8 DEF FlushExchanged
  <2> QED
    BY <2>1, <1>2, WireType DEF TypeOK, SendsFlush, slaveRest, FlushSent
<1>9. CASE FlushMissed
  <2>1. SendsFlush /\ WireSilent /\ FlushSent /\ flushLost' = TRUE
    BY <1>9 DEF FlushMissed
  <2> QED
    BY <2>1, <1>2, WireType DEF TypeOK, SendsFlush, slaveRest, FlushSent
<1>10. CASE FlushFailed
  <2>1. SendsFlush /\ WireSilent /\ flushLost' = TRUE
        /\ UNCHANGED <<expected_ack, fetch_new_line>>
    BY <1>10 DEF FlushFailed
  <2> QED
    BY <2>1, <1>2, WireType DEF TypeOK, SendsFlush, slaveRest
<1> QED
  BY <1>5, <1>6, <1>7, <1>8, <1>9, <1>10 DEF MasterLine, MasterFlush

\* Every step of the slave task keeps the types.
LEMMA SlaveType ==
    ASSUME TypeInv, Slave \/ SlaveFails
    PROVE  TypeInv'
<1> USE DEF TypeInv
<1>1. CASE SlavePrepare
  <2>1. reply' \in Reply
    BY <1>1, LinkAssumption DEF SlavePrepare, TypeOK, Reply
  <2> QED
    BY <1>1, <2>1 DEF SlavePrepare, TypeOK, PcOK, SlavePc, masterVars, idVars,
                      queueVars, history
<1>2. CASE SlaveTake
  <2>1. current_rx_buf' \in Buffers /\ free_queue' \in Seq(Buffers)
    BY <1>2 DEF SlaveTake, TypeOK
  <2>2. NoBuffer \notin Buffers
    BY DEF NoBuffer, Buffers
  <2> QED
    BY <1>2, <2>1, <2>2 DEF SlaveTake, TypeOK, PcOK, SlavePc, masterVars,
                            idVars, history
<1>3. ASSUME SlaveReleases, current_rx_buf \in Buffers
      PROVE  /\ free_queue' \in Seq(Buffers)
             /\ rx_pool' \in [Buffers -> Packet]
             /\ current_rx_buf' \in Buffers \cup {NoBuffer}
             /\ spc' \in SlavePc
             /\ PcOK'
  BY <1>3, RecycleType DEF SlaveReleases, PcOK, SlavePc
<1>4. ASSUME spc \in {"armed", "received", "flush"}
      PROVE  current_rx_buf \in Buffers
  BY <1>4 DEF TypeOK, PcOK
<1>5. CASE SlaveFails
  BY <1>5, <1>3, <1>4 DEF SlaveFails, TypeOK, masterVars, idVars, history
<1>6. CASE SlaveAccept
  <2>1. current_rx_buf \in Buffers
    BY <1>4, <1>6 DEF SlaveAccept
  <2>2. Received \in Packet
    BY <2>1 DEF TypeOK, Received
  <2>3. Received.id \in Nat /\ Received.data \in Nat
    BY <2>2 DEF Packet
  <2>4. work_queue' \in Seq(Buffers)
    BY <1>6, <2>1 DEF SlaveAccept, TypeOK
  <2>5. last_received_id' \in Nat /\ accepted' \in SUBSET Nat
    BY <1>6, <2>3 DEF SlaveAccept, TypeOK
  <2>6. current_rx_buf' = NoBuffer /\ spc' = "prepare"
    BY <1>6 DEF SlaveAccept
  <2>7. UNCHANGED <<tx_msg, expected_ack, slave_free_slots, fetch_new_line,
                    line, reply, rx_pool, free_queue, held,
                    last_completed_id, acked, delivered, purged, flushLost>>
    BY <1>6 DEF SlaveAccept, masterVars
  <2> QED
    BY <2>4, <2>5, <2>6, <2>7 DEF TypeOK, PcOK, SlavePc
<1>7. CASE SlaveReject
  BY <1>7, <1>3, <1>4 DEF SlaveReject, TypeOK, masterVars, idVars, history
<1>8. CASE SlaveFlush
  BY <1>8 DEF SlaveFlush, TypeOK, PcOK, SlavePc, masterVars, idVars,
              queueVars, history
<1>9. CASE FlushOne
  <2>1. Head(work_queue) \in Buffers /\ work_queue' \in Seq(Buffers)
    BY <1>9 DEF FlushOne, TypeOK
  <2>2. free_queue' \in Seq(Buffers) /\ rx_pool' \in [Buffers -> Packet]
    BY <1>9, <2>1, RecycleType DEF FlushOne
  <2> QED
    BY <1>9, <2>1, <2>2 DEF FlushOne, TypeOK, PcOK, masterVars, idVars, history
<1>10. CASE FlushEnd
  BY <1>10, <1>3, <1>4 DEF FlushEnd, TypeOK, masterVars, history
<1> QED
  BY <1>1, <1>2, <1>5, <1>6, <1>7, <1>8, <1>9, <1>10 DEF Slave

\* The consumer's calls keep the types.
LEMMA ConsumerType ==
    ASSUME TypeInv, spi_slave_receive_command \/ Acknowledge
    PROVE  TypeInv'
<1> USE DEF TypeInv
<1>1. CASE spi_slave_receive_command
  <2>1. Head(work_queue) \in Buffers /\ work_queue' \in Seq(Buffers)
    BY <1>1 DEF spi_slave_receive_command, TypeOK
  <2>2. rx_pool[Head(work_queue)].data \in Nat
    BY <2>1 DEF TypeOK, Packet
  <2> QED
    BY <1>1, <2>1, <2>2 DEF spi_slave_receive_command, TypeOK, PcOK,
                            masterVars, idVars
<1>2. CASE Acknowledge
  <2>1. PICK b \in held : spi_slave_acknowledge_done(b)
    BY <1>2 DEF Acknowledge
  <2>2. b \in Buffers /\ rx_pool[b].id \in Nat
    BY DEF TypeOK, Packet
  <2>3. free_queue' \in Seq(Buffers) /\ rx_pool' \in [Buffers -> Packet]
    BY <2>1, <2>2, RecycleType DEF spi_slave_acknowledge_done
  <2>4. last_completed_id' \in Nat
    BY <2>1, <2>2 DEF spi_slave_acknowledge_done
  <2>5. held' \in SUBSET Buffers
    BY <2>1 DEF spi_slave_acknowledge_done, TypeOK
  <2>6. UNCHANGED <<tx_msg, expected_ack, slave_free_slots, fetch_new_line,
                    line, spc, reply, current_rx_buf, work_queue,
                    last_received_id, accepted, acked, delivered, purged,
                    flushLost>>
    BY <2>1 DEF spi_slave_acknowledge_done, masterVars, history
  <2> QED
    BY <2>3, <2>4, <2>5, <2>6 DEF TypeOK, PcOK
<1> QED
  BY <1>1, <1>2

LEMMA TypeInit == Init => TypeInv
<1> SUFFICES ASSUME Init PROVE TypeInv
  OBVIOUS
<1>1. NoPacket \in Packet
  BY DEF NoPacket, Packet
<1>2. BUFFER_POOL_SIZE \in Nat
  BY LinkAssumption DEF BUFFER_POOL_SIZE
<1>3. AllFree \in Seq(Buffers)
  BY <1>2 DEF AllFree, Buffers
<1>4. reply \in Reply
  BY DEF Init, Reply
<1>5. << >> \in Seq(Buffers) /\ << >> \in Seq(Nat)
  OBVIOUS
<1>6. rx_pool \in [Buffers -> Packet] /\ tx_msg \in Packet
  BY <1>1 DEF Init
<1>7. /\ expected_ack \in Nat \ {0} /\ slave_free_slots \in Nat
      /\ line \in Nat /\ last_received_id \in Nat
      /\ last_completed_id \in Nat /\ purged \in Nat
  BY DEF Init
<1>8. fetch_new_line \in BOOLEAN /\ flushLost \in BOOLEAN
  BY Zenon DEF Init
<1>9. /\ held \in SUBSET Buffers /\ accepted \in SUBSET Nat
      /\ acked \in SUBSET Nat /\ delivered \in Seq(Nat)
      /\ work_queue \in Seq(Buffers) /\ free_queue \in Seq(Buffers)
  BY <1>3, <1>5 DEF Init
<1>10. spc \in SlavePc /\ current_rx_buf \in Buffers \cup {NoBuffer} /\ PcOK
  BY DEF Init, SlavePc, PcOK
<1> QED
  BY <1>4, <1>6, <1>7, <1>8, <1>9, <1>10 DEF TypeInv, TypeOK

\* A stuttering step changes none of the typed variables.
LEMMA TypeStutter ==
    ASSUME TypeInv, UNCHANGED vars
    PROVE  TypeInv'
BY DEF TypeInv, TypeOK, PcOK, vars

LEMMA TypeStep == TypeInv /\ [Next]_vars => TypeInv'
BY MasterType, SlaveType, ConsumerType, TypeStutter DEF Next

LEMMA SpecTypeInv == Spec => []TypeInv
BY TypeInit, TypeStep, PTL DEF Spec

\* The variables of the master, the slave task and the consumer keep their
\* types, and the slave task holds a buffer exactly while one is armed or being
\* handled.
THEOREM SpecTypeOK == Spec => []TypeOK
<1>1. TypeInv => TypeOK
  BY DEF TypeInv
<1> QED
  BY <1>1, SpecTypeInv, PTL

-----------------------------------------------------------------------------
(* Ownership of the buffers                                                  *)

\* Appending a new element keeps a queue free of repetitions.
LEMMA AppendFacts ==
    ASSUME NEW S, NEW q \in Seq(S), NEW b \in S,
           NoRepeats(q), ~ InQueue(b, q)
    PROVE  /\ NoRepeats(Append(q, b))
           /\ \A c : InQueue(c, Append(q, b)) <=> InQueue(c, q) \/ c = b
<1>1. /\ Len(Append(q, b)) = Len(q) + 1
      /\ \A i \in 1 .. Len(q) : Append(q, b)[i] = q[i]
      /\ Append(q, b)[Len(q) + 1] = b
      /\ Len(q) \in Nat
  OBVIOUS
<1>2. \A i \in 1 .. Len(q) + 1 : i \in 1 .. Len(q) \/ i = Len(q) + 1
  BY <1>1
<1>3. \A i \in 1 .. Len(q) : q[i] # b
  BY DEF InQueue
<1>4. NoRepeats(Append(q, b))
  BY <1>1, <1>2, <1>3 DEF NoRepeats
<1>5. \A c : InQueue(c, Append(q, b)) <=> InQueue(c, q) \/ c = b
  BY <1>1, <1>2 DEF InQueue
<1> QED
  BY <1>4, <1>5

\* Taking the head leaves the others, each still once.
LEMMA TailFacts ==
    ASSUME NEW S, NEW q \in Seq(S), q # << >>, NoRepeats(q)
    PROVE  /\ NoRepeats(Tail(q))
           /\ InQueue(Head(q), q)
           /\ \A c : InQueue(c, Tail(q)) <=> InQueue(c, q) /\ c # Head(q)
<1>1. /\ Len(q) \in Nat /\ Len(q) > 0
      /\ Len(Tail(q)) = Len(q) - 1
      /\ \A i \in 1 .. Len(q) - 1 : Tail(q)[i] = q[i + 1]
      /\ Head(q) = q[1]
  OBVIOUS
<1>2. NoRepeats(Tail(q))
  BY <1>1 DEF NoRepeats
<1>3. InQueue(Head(q), q)
  BY <1>1 DEF InQueue
<1>4. ASSUME NEW c, InQueue(c, Tail(q))
      PROVE  InQueue(c, q) /\ c # Head(q)
  <2>1. PICK i \in 1 .. Len(q) - 1 : Tail(q)[i] = c
    BY <1>1, <1>4 DEF InQueue
  <2>2. i + 1 \in 1 .. Len(q) /\ q[i + 1] = c /\ i + 1 # 1
    BY <1>1, <2>1
  <2> QED
    BY <1>1, <2>2 DEF InQueue, NoRepeats
<1>5. ASSUME NEW c, InQueue(c, q), c # Head(q)
      PROVE  InQueue(c, Tail(q))
  <2>1. PICK i \in 1 .. Len(q) : q[i] = c
    BY <1>5 DEF InQueue
  <2>2. i # 1
    BY <1>1, <1>5, <2>1
  <2>3. i - 1 \in 1 .. Len(q) - 1 /\ Tail(q)[i - 1] = q[(i - 1) + 1]
    BY <1>1, <2>1, <2>2
  <2>4. (i - 1) + 1 = i
    BY <2>1
  <2> QED
    BY <1>1, <2>1, <2>3, <2>4 DEF InQueue
<1> QED
  BY <1>2, <1>3, <1>4, <1>5

LEMMA CountOfRange ==
    ASSUME NEW n \in Nat
    PROVE  IsFiniteSet(1 .. n) /\ Cardinality(1 .. n) = n
<1>1. IsFiniteSet(1 .. n) /\ Cardinality(1 .. n) = IF 1 > n THEN 0 ELSE n - 1 + 1
  BY FS_Interval
<1> QED
  BY <1>1

\* A queue of distinct buffers that misses one is shorter than the pool, so the
\* zero-timeout send back to free_queue is never refused.
LEMMA RoomInPool ==
    ASSUME NEW q \in Seq(Buffers), NEW b \in Buffers,
           NoRepeats(q), ~ InQueue(b, q)
    PROVE  Len(q) < BUFFER_POOL_SIZE
<1>1. BUFFER_POOL_SIZE \in Nat /\ Len(q) \in Nat
  BY LinkAssumption DEF BUFFER_POOL_SIZE
<1>2. IsFiniteSet(Buffers) /\ Cardinality(Buffers) = BUFFER_POOL_SIZE
  BY <1>1, FS_Interval DEF Buffers
<1>3. /\ IsFiniteSet(Buffers \ {b})
      /\ Cardinality(Buffers \ {b}) = BUFFER_POOL_SIZE - 1
  BY <1>2, FS_RemoveElement
<1>4. IsFiniteSet(1 .. Len(q)) /\ Cardinality(1 .. Len(q)) = Len(q)
  BY <1>1, CountOfRange
<1>5. q \in [1 .. Len(q) -> Buffers \ {b}]
  BY DEF InQueue
<1>6. \A i, j \in 1 .. Len(q) : q[i] = q[j] => i = j
  BY DEF NoRepeats
<1>7. q \in Injection(1 .. Len(q), Buffers \ {b})
  BY <1>5, <1>6 DEF Injection, IsInjective
<1>8. Cardinality(1 .. Len(q)) <= Cardinality(Buffers \ {b})
  BY ONLY <1>3, <1>7, FS_Injection
<1> QED
  BY <1>1, <1>3, <1>4, <1>8

\* A recycled buffer is added to the free ones.
LEMMA RecycleAdds ==
    ASSUME TypeInv, NEW b \in Buffers, Recycle(b),
           NoRepeats(free_queue), ~ InQueue(b, free_queue)
    PROVE  /\ NoRepeats(free_queue')
           /\ \A c : InQueue(c, free_queue') <=> InQueue(c, free_queue) \/ c = b
<1>1. free_queue \in Seq(Buffers)
  BY DEF TypeInv, TypeOK
<1>2. Len(free_queue) < BUFFER_POOL_SIZE
  BY <1>1, RoomInPool
<1>3. free_queue' = Append(free_queue, b)
  BY <1>2 DEF Recycle, QueueSend
<1> QED
  BY <1>1, <1>3, AppendFacts

OwnInv == TypeInv /\ BufferOwnership

\* Ownership depends on four variables only.
LEMMA OwnStutter ==
    ASSUME BufferOwnership,
           UNCHANGED <<free_queue, work_queue, held, current_rx_buf>>
    PROVE  BufferOwnership'
BY DEF BufferOwnership, NoRepeats, InQueue

LEMMA OwnRelease ==
    ASSUME OwnInv, SlaveReleases, UNCHANGED <<work_queue, held>>,
           spc \in {"armed", "received", "flush"}
    PROVE  BufferOwnership'
<1>1. current_rx_buf \in Buffers
  BY DEF OwnInv, TypeInv, TypeOK, PcOK
<1>2. ~ InQueue(current_rx_buf, free_queue) /\ NoRepeats(free_queue)
  BY <1>1 DEF OwnInv, BufferOwnership
<1>3. /\ NoRepeats(free_queue')
      /\ \A c : InQueue(c, free_queue') <=>
                  InQueue(c, free_queue) \/ c = current_rx_buf
  BY <1>1, <1>2, RecycleAdds DEF OwnInv, SlaveReleases
<1>4. current_rx_buf' = NoBuffer /\ NoBuffer \notin Buffers
  BY DEF SlaveReleases, NoBuffer, Buffers
<1>5. /\ NoRepeats(work_queue')
      /\ \A c : InQueue(c, work_queue') <=> InQueue(c, work_queue)
  BY DEF OwnInv, BufferOwnership
<1> QED
  BY <1>1, <1>3, <1>4, <1>5 DEF OwnInv, BufferOwnership

LEMMA OwnSlave ==
    ASSUME OwnInv, Slave \/ SlaveFails
    PROVE  BufferOwnership'
<1> USE DEF OwnInv
<1>1. work_queue \in Seq(Buffers) /\ free_queue \in Seq(Buffers)
  BY DEF TypeInv, TypeOK
<1>2. CASE SlavePrepare \/ SlaveFlush
  BY <1>2, OwnStutter DEF SlavePrepare, SlaveFlush, queueVars
<1>3. CASE SlaveTake
  <2>1. /\ NoRepeats(free_queue')
        /\ InQueue(Head(free_queue), free_queue)
        /\ \A c : InQueue(c, free_queue') <=>
                    InQueue(c, free_queue) /\ c # current_rx_buf'
    BY <1>1, <1>3, TailFacts DEF SlaveTake, BufferOwnership
  <2>2. current_rx_buf = NoBuffer /\ NoBuffer \notin Buffers
    BY <1>3 DEF SlaveTake, TypeInv, PcOK, NoBuffer, Buffers
  <2>3. /\ current_rx_buf' \in Buffers
        /\ InQueue(current_rx_buf', free_queue)
    BY <1>1, <1>3, <2>1 DEF SlaveTake
  <2>4. UNCHANGED <<work_queue, held>>
    BY <1>3 DEF SlaveTake
  <2>5. /\ NoRepeats(work_queue')
        /\ \A c : InQueue(c, work_queue') <=> InQueue(c, work_queue)
    BY <2>4 DEF BufferOwnership
  <2> QED
    BY <2>1, <2>2, <2>3, <2>4, <2>5 DEF BufferOwnership
<1>4. CASE SlaveFails
  BY <1>4, OwnRelease DEF SlaveFails
<1>5. CASE SlaveReject
  BY <1>5, OwnRelease DEF SlaveReject
<1>6. CASE FlushEnd
  BY <1>6, OwnRelease DEF FlushEnd
<1>7. CASE SlaveAccept
  <2>1. current_rx_buf \in Buffers
    BY <1>7 DEF SlaveAccept, TypeInv, TypeOK, PcOK
  <2>2. ~ InQueue(current_rx_buf, work_queue) /\ NoRepeats(work_queue)
    BY <2>1 DEF BufferOwnership
  <2>3. /\ NoRepeats(work_queue')
        /\ \A c : InQueue(c, work_queue') <=>
                    InQueue(c, work_queue) \/ c = current_rx_buf
    BY <1>1, <1>7, <2>1, <2>2, AppendFacts DEF SlaveAccept
  <2>4. /\ UNCHANGED <<free_queue, held>>
        /\ current_rx_buf' = NoBuffer /\ NoBuffer \notin Buffers
    BY <1>7 DEF SlaveAccept, NoBuffer, Buffers
  <2>5. /\ NoRepeats(free_queue')
        /\ \A c : InQueue(c, free_queue') <=> InQueue(c, free_queue)
    BY <2>4 DEF BufferOwnership
  <2> QED
    BY <2>1, <2>3, <2>4, <2>5 DEF BufferOwnership
<1>8. CASE FlushOne
  <2>1. /\ NoRepeats(work_queue')
        /\ InQueue(Head(work_queue), work_queue)
        /\ \A c : InQueue(c, work_queue') <=>
                    InQueue(c, work_queue) /\ c # Head(work_queue)
    BY <1>1, <1>8, TailFacts DEF FlushOne, BufferOwnership
  <2>2. Head(work_queue) \in Buffers
    BY <1>1, <1>8 DEF FlushOne
  <2>3. ~ InQueue(Head(work_queue), free_queue) /\ NoRepeats(free_queue)
    BY <2>1, <2>2 DEF BufferOwnership
  <2>4. /\ NoRepeats(free_queue')
        /\ \A c : InQueue(c, free_queue') <=>
                    InQueue(c, free_queue) \/ c = Head(work_queue)
    BY <1>8, <2>2, <2>3, RecycleAdds DEF FlushOne
  <2>5. UNCHANGED <<held, current_rx_buf>>
    BY <1>8 DEF FlushOne
  <2> QED
    BY <2>1, <2>2, <2>4, <2>5 DEF BufferOwnership
<1> QED
  BY <1>2, <1>3, <1>4, <1>5, <1>6, <1>7, <1>8 DEF Slave

LEMMA OwnConsumer ==
    ASSUME OwnInv, spi_slave_receive_command \/ Acknowledge
    PROVE  BufferOwnership'
<1> USE DEF OwnInv
<1>1. work_queue \in Seq(Buffers) /\ free_queue \in Seq(Buffers)
  BY DEF TypeInv, TypeOK
<1>2. CASE spi_slave_receive_command
  <2>1. /\ NoRepeats(work_queue')
        /\ InQueue(Head(work_queue), work_queue)
        /\ \A c : InQueue(c, work_queue') <=>
                    InQueue(c, work_queue) /\ c # Head(work_queue)
    BY <1>1, <1>2, TailFacts DEF spi_slave_receive_command, BufferOwnership
  <2>2. Head(work_queue) \in Buffers
    BY <1>1, <1>2 DEF spi_slave_receive_command
  <2>3. /\ held' = held \cup {Head(work_queue)}
        /\ UNCHANGED <<free_queue, current_rx_buf>>
    BY <1>2 DEF spi_slave_receive_command
  <2>4. /\ NoRepeats(free_queue')
        /\ \A c : InQueue(c, free_queue') <=> InQueue(c, free_queue)
    BY <2>3 DEF BufferOwnership
  <2> QED
    BY <2>1, <2>2, <2>3, <2>4 DEF BufferOwnership
<1>3. CASE Acknowledge
  <2>1. PICK b \in held : spi_slave_acknowledge_done(b)
    BY <1>3 DEF Acknowledge
  <2>2. b \in Buffers
    BY DEF TypeInv, TypeOK
  <2>3. ~ InQueue(b, free_queue) /\ NoRepeats(free_queue)
    BY <2>2 DEF BufferOwnership
  <2>4. /\ NoRepeats(free_queue')
        /\ \A c : InQueue(c, free_queue') <=> InQueue(c, free_queue) \/ c = b
    BY <2>1, <2>2, <2>3, RecycleAdds DEF spi_slave_acknowledge_done
  <2>5. /\ held' = held \ {b}
        /\ UNCHANGED <<work_queue, current_rx_buf>>
    BY <2>1 DEF spi_slave_acknowledge_done
  <2>6. /\ NoRepeats(work_queue')
        /\ \A c : InQueue(c, work_queue') <=> InQueue(c, work_queue)
    BY <2>5 DEF BufferOwnership
  <2> QED
    BY <2>2, <2>4, <2>5, <2>6 DEF BufferOwnership
<1> QED
  BY <1>2, <1>3

LEMMA OwnMaster ==
    ASSUME OwnInv, MasterLine \/ MasterFlush
    PROVE  BufferOwnership'
BY OwnStutter DEF OwnInv, MasterLine, MasterFlush, LineExchanged, LineMissed,
   LineFailed, FlushExchanged, FlushMissed, FlushFailed, SendsLine, SendsFlush,
   slaveRest

LEMMA OwnInit == Init => OwnInv
<1> SUFFICES ASSUME Init PROVE BufferOwnership
  BY TypeInit DEF OwnInv
<1>1. BUFFER_POOL_SIZE \in Nat
  BY LinkAssumption DEF BUFFER_POOL_SIZE
<1>2. NoRepeats(free_queue) /\ \A b \in Buffers : InQueue(b, free_queue)
  BY <1>1 DEF Init, AllFree, NoRepeats, InQueue, Buffers
<1>3. NoRepeats(work_queue) /\ \A b : ~ InQueue(b, work_queue)
  BY DEF Init, NoRepeats, InQueue
<1>4. held = {} /\ current_rx_buf \notin Buffers
  BY DEF Init, NoBuffer, Buffers
<1> QED
  BY <1>2, <1>3, <1>4 DEF BufferOwnership

LEMMA OwnStep == OwnInv /\ [Next]_vars => OwnInv'
<1> SUFFICES ASSUME OwnInv, [Next]_vars PROVE BufferOwnership'
  BY TypeStep DEF OwnInv
<1>1. CASE UNCHANGED vars
  BY <1>1, OwnStutter DEF OwnInv, vars
<1> QED
  BY <1>1, OwnMaster, OwnSlave, OwnConsumer DEF Next

LEMMA SpecOwnInv == Spec => []OwnInv
BY OwnInit, OwnStep, PTL DEF Spec

\* No buffer of rx_pool is ever lost or owned twice, whatever the order of the
\* receive task, the consumer and the flush loop.
THEOREM SpecBufferOwnership == Spec => []BufferOwnership
<1>1. OwnInv => BufferOwnership
  BY DEF OwnInv
<1> QED
  BY <1>1, SpecOwnInv, PTL

-----------------------------------------------------------------------------
(* Freshness of the lines, and the abstract channel                          *)

LinkInv == OwnInv /\ LineInv

\* Sequences of the same length and elements are equal.
LEMMA SameSequence ==
    ASSUME NEW s \in Seq(Nat), NEW t \in Seq(Nat), NEW n \in Nat,
           Len(s) = n, Len(t) = n, \A i \in 1 .. n : s[i] = t[i]
    PROVE  s = t
<1>1. s = [i \in 1 .. n |-> s[i]] /\ t = [i \in 1 .. n |-> t[i]]
  OBVIOUS
<1> QED
  BY <1>1

LEMMA QueuedType ==
    ASSUME TypeOK
    PROVE  /\ queued \in Seq(Nat) /\ Len(queued) = Len(work_queue)
           /\ \A i \in 1 .. Len(work_queue) :
                 queued[i] = rx_pool[work_queue[i]].data
<1>1. Len(work_queue) \in Nat
  BY DEF TypeOK
<1>2. \A i \in 1 .. Len(work_queue) : rx_pool[work_queue[i]].data \in Nat
  BY DEF TypeOK, Packet
<1> QED
  BY <1>1, <1>2 DEF queued

\* The queued lines change only with the queue or the contents of its buffers.
LEMMA QueuedSame ==
    ASSUME TypeOK, UNCHANGED work_queue,
           \A i \in 1 .. Len(work_queue) :
               rx_pool'[work_queue[i]] = rx_pool[work_queue[i]]
    PROVE  UNCHANGED queued
BY DEF queued

\* Taking the first buffer out of the queue takes the first line out.
LEMMA QueuedTail ==
    ASSUME TypeInv, TypeInv', work_queue # << >>,
           work_queue' = Tail(work_queue),
           \A i \in 1 .. Len(work_queue') :
               rx_pool'[work_queue'[i]] = rx_pool[work_queue'[i]]
    PROVE  /\ queued' = Tail(queued) /\ queued # << >>
           /\ Head(queued) = rx_pool[Head(work_queue)].data
<1>1. /\ queued \in Seq(Nat) /\ Len(queued) = Len(work_queue)
      /\ \A i \in 1 .. Len(work_queue) :
            queued[i] = rx_pool[work_queue[i]].data
  BY QueuedType DEF TypeInv
<1>2. /\ Len(work_queue) \in Nat /\ Len(work_queue) > 0
      /\ Len(work_queue') = Len(work_queue) - 1
      /\ \A i \in 1 .. Len(work_queue') : work_queue'[i] = work_queue[i + 1]
      /\ Head(work_queue) = work_queue[1]
  BY DEF TypeInv, TypeOK
<1>3. /\ Tail(queued) \in Seq(Nat) /\ Len(Tail(queued)) = Len(work_queue')
      /\ \A i \in 1 .. Len(work_queue') : Tail(queued)[i] = queued[i + 1]
      /\ Head(queued) = queued[1] /\ queued # << >>
  BY <1>1, <1>2
<1>4. queued' \in Seq(Nat) /\ Len(queued') = Len(work_queue')
  <2>1. TypeOK'
    BY DEF TypeInv
  <2>2. Len(work_queue') \in Nat
    BY <2>1 DEF TypeOK
  <2>3. \A i \in 1 .. Len(work_queue') : rx_pool'[work_queue'[i]] \in Packet
    <3>1. /\ work_queue' \in Seq(Buffers)
          /\ rx_pool' \in [Buffers -> Packet]
      BY <2>1 DEF TypeOK
    <3>2. \A i \in 1 .. Len(work_queue') : work_queue'[i] \in Buffers
      BY <3>1
    <3> QED
      BY <3>1, <3>2
  <2>4. \A i \in 1 .. Len(work_queue') : rx_pool'[work_queue'[i]].data \in Nat
    BY <2>3 DEF Packet
  <2> QED
    BY <2>2, <2>4 DEF queued
<1>5. \A i \in 1 .. Len(work_queue') : queued'[i] = queued[i + 1]
  <2> SUFFICES ASSUME NEW i \in 1 .. Len(work_queue')
               PROVE  queued'[i] = queued[i + 1]
    OBVIOUS
  <2>1. queued'[i] = rx_pool'[work_queue'[i]].data
    BY DEF queued
  <2>2. i + 1 \in 1 .. Len(work_queue)
    BY <1>2
  <2>3. rx_pool'[work_queue'[i]] = rx_pool[work_queue[i + 1]]
    BY <1>2, <2>2
  <2>4. queued[i + 1] = rx_pool[work_queue[i + 1]].data
    BY <1>1, <2>2
  <2> QED
    BY <2>1, <2>3, <2>4
<1>6. queued' = Tail(queued)
  <2>1. \A i \in 1 .. Len(work_queue') : queued'[i] = Tail(queued)[i]
    BY <1>3, <1>5
  <2>2. Len(work_queue') \in Nat
    BY <1>2
  <2> QED
    BY ONLY <1>3, <1>4, <2>1, <2>2, SameSequence, Zenon
<1> QED
  BY <1>1, <1>2, <1>3, <1>6

\* Queueing the received buffer queues its line.
LEMMA QueuedAppend ==
    ASSUME TypeInv, current_rx_buf \in Buffers, UNCHANGED rx_pool,
           work_queue' = Append(work_queue, current_rx_buf)
    PROVE  queued' = Append(queued, Received.data)
<1>1. /\ queued \in Seq(Nat) /\ Len(queued) = Len(work_queue)
      /\ \A i \in 1 .. Len(work_queue) :
            queued[i] = rx_pool[work_queue[i]].data
      /\ Received.data \in Nat
  BY QueuedType DEF TypeInv, TypeOK, Received, Packet
<1>2. /\ Len(work_queue) \in Nat /\ Len(work_queue') = Len(work_queue) + 1
      /\ \A i \in 1 .. Len(work_queue) : work_queue'[i] = work_queue[i]
      /\ work_queue'[Len(work_queue) + 1] = current_rx_buf
  BY DEF TypeInv, TypeOK
<1>3. \A i \in 1 .. Len(work_queue') :
          rx_pool[work_queue'[i]].data = Append(queued, Received.data)[i]
  <2> SUFFICES ASSUME NEW i \in 1 .. Len(work_queue')
               PROVE  rx_pool[work_queue'[i]].data
                        = Append(queued, Received.data)[i]
    OBVIOUS
  <2>1. CASE i = Len(work_queue) + 1
    BY <1>1, <1>2, <2>1 DEF Received
  <2>2. CASE i \in 1 .. Len(work_queue)
    BY <1>1, <1>2, <2>2
  <2>3. i \in 1 .. Len(work_queue) \/ i = Len(work_queue) + 1
    BY <1>2
  <2> QED
    BY <2>1, <2>2, <2>3
<1>4. /\ Append(queued, Received.data) \in Seq(Nat)
      /\ Len(Append(queued, Received.data)) = Len(work_queue')
  BY <1>1, <1>2
<1>5. queued' = [i \in 1 .. Len(work_queue') |-> rx_pool[work_queue'[i]].data]
  BY DEF queued
<1>6. queued' = [i \in 1 .. Len(work_queue') |-> Append(queued, Received.data)[i]]
  BY <1>3, <1>5
<1>7. Append(queued, Received.data)
        = [i \in 1 .. Len(work_queue') |-> Append(queued, Received.data)[i]]
  BY <1>4
<1> QED
  BY <1>6, <1>7

\* Receiving a packet disturbs no queued line.
LEMMA WireQueued ==
    ASSUME OwnInv, NEW p \in Packet, WireExchange(p) \/ WireSilent,
           UNCHANGED <<work_queue, current_rx_buf>>
    PROVE  /\ UNCHANGED queued
           /\ WireExchange(p) => Received' = p
           /\ WireSilent => Received' = Received
<1>1. CASE WireSilent
  <2>1. UNCHANGED queued
    BY <1>1 DEF WireSilent, queued
  <2>2. Received' = Received
    BY <1>1 DEF WireSilent, Received
  <2>3. WireExchange(p) => Received' = p
    BY <1>1 DEF WireSilent, WireExchange
  <2> QED
    BY <2>1, <2>2, <2>3
<1>2. CASE WireExchange(p)
  <2>1. current_rx_buf \in Buffers
    BY <1>2 DEF WireExchange, OwnInv, TypeInv, TypeOK, PcOK
  <2>2. \A i \in 1 .. Len(work_queue) : work_queue[i] # current_rx_buf
    BY <2>1 DEF OwnInv, BufferOwnership, InQueue
  <2>3. /\ rx_pool \in [Buffers -> Packet]
        /\ rx_pool' = [rx_pool EXCEPT ![current_rx_buf] = p]
        /\ \A i \in 1 .. Len(work_queue) : work_queue[i] \in Buffers
    BY <1>2 DEF WireExchange, OwnInv, TypeInv, TypeOK
  <2>4. \A i \in 1 .. Len(work_queue) :
            rx_pool'[work_queue[i]] = rx_pool[work_queue[i]]
    BY <2>2, <2>3
  <2>5. UNCHANGED queued
    BY <2>4, QueuedSame DEF OwnInv, TypeInv
  <2>6. Received' = p
    BY <2>1, <2>3 DEF Received
  <2>7. ~ WireSilent
    BY <1>2 DEF WireSilent, WireExchange
  <2> QED
    BY <2>5, <2>6, <2>7
<1> QED
  BY <1>1, <1>2

\* The packet of a normal iteration: a command is about the line the source is
\* at, and a repeated command is the one sent before.
LEMMA LinePacketFacts ==
    ASSUME TypeInv, LineInv, SendsLine
    PROVE  /\ tx_msg' = LinePacket /\ line \in Nat
           /\ line' = line \/ line' = line + 1
           /\ LinePacket.type = 1 => LinePacket.data = line' /\ purged < line'
           /\ (LinePacket.type = 1 /\ line' = line) =>
                  tx_msg.type = 1 /\ LinePacket.id = tx_msg.id
           /\ LinePacket.type = 2 => line' = line
           /\ line' = line + 1 => NewToSlave(line')
<1>1. line \in Nat /\ purged \in Nat /\ accepted \subseteq Nat
  BY DEF TypeInv, TypeOK
<1>2. /\ tx_msg' = LinePacket /\ line' = LineToSend
  BY DEF SendsLine
<1>3. line' = line \/ line' = line + 1
  BY <1>2 DEF LineToSend
<1>4. line' = line + 1 => NewToSlave(line')
  BY <1>1 DEF LineInv, SourceBound, NewToSlave
<1>5. CASE fetch_new_line
  <2>1. line' = line + 1
    BY <1>2, <1>5 DEF LineToSend
  <2>2. LinePacket.type = 1 => LinePacket.data = line'
    BY <1>2, <1>5 DEF LinePacket
  <2>3. LinePacket.type # 2
    BY <1>5 DEF LinePacket
  <2>4. purged < line'
    BY <1>1, <2>1 DEF LineInv, SourceBound
  <2>5. line' # line
    BY <1>1, <2>1
  <2> QED
    BY <1>1, <1>2, <1>3, <1>4, <2>2, <2>3, <2>4, <2>5
<1>6. CASE ~ fetch_new_line
  <2>1. line' = line
    BY <1>2, <1>6 DEF LineToSend
  <2>2. LinePacket.type = 1 =>
            /\ LinePacket.data = line
            /\ tx_msg.type = 1 /\ LinePacket.id = tx_msg.id
    BY <1>6 DEF LinePacket, LineToSend
  <2>3. tx_msg.type = 1 => purged < line
    BY DEF LineInv, MasterFresh
  <2> QED
    BY <1>1, <1>2, <1>3, <1>4, <2>1, <2>2, <2>3
<1> QED
  BY <1>5, <1>6

\* A master step whose transaction moved nothing keeps the lines fresh.
LEMMA SilentLine ==
    ASSUME OwnInv, LineInv, SendsLine, WireSilent
    PROVE  LineInv'
<1>1. /\ tx_msg' = LinePacket /\ line \in Nat
      /\ line' = line \/ line' = line + 1
      /\ LinePacket.type = 1 => LinePacket.data = line' /\ purged < line'
      /\ (LinePacket.type = 1 /\ line' = line) =>
             tx_msg.type = 1 /\ LinePacket.id = tx_msg.id
      /\ line' = line + 1 => NewToSlave(line')
  BY LinePacketFacts DEF OwnInv
<1>2. /\ UNCHANGED <<spc, purged, accepted, last_received_id, work_queue,
                     current_rx_buf, rx_pool>>
  BY DEF SendsLine, WireSilent, slaveRest
<1>3. UNCHANGED <<queued, Received>>
  BY <1>2 DEF queued, Received
<1>4. UNCHANGED Flushing
  BY <1>2, <1>3 DEF Flushing
<1>5. accepted \subseteq Nat /\ purged \in Nat
  BY DEF OwnInv, TypeInv, TypeOK
<1>6. SourceBound'
  BY <1>1, <1>2, <1>5 DEF LineInv, SourceBound
<1>7. MasterFresh'
  BY <1>1, <1>2, <1>4 DEF LineInv, MasterFresh, NewToSlave
<1>8. ReceivedFresh'
  <2> SUFFICES ASSUME spc = "received", Received.type = 1
               PROVE  /\ purged < Received.data /\ Received.data <= line'
                      /\ Received.id = last_received_id + 1 =>
                             NewToSlave(Received.data)
                      /\ (tx_msg'.type = 1 /\ line' = Received.data) =>
                             tx_msg'.id = Received.id
    BY <1>2, <1>3 DEF ReceivedFresh, NewToSlave
  <2>1. Received.data \in Nat
    BY DEF OwnInv, TypeInv, TypeOK, PcOK, Received, Packet
  <2>2. /\ purged < Received.data /\ Received.data <= line
        /\ Received.id = last_received_id + 1 => NewToSlave(Received.data)
        /\ (tx_msg.type = 1 /\ line = Received.data) => tx_msg.id = Received.id
    BY DEF LineInv, ReceivedFresh
  <2>3. Received.data <= line'
    BY <1>1, <2>1, <2>2
  <2>4. line' = Received.data => line' = line
    BY <1>1, <2>1, <2>2
  <2> QED
    BY <1>1, <2>2, <2>3, <2>4
<1>9. QueueFresh'
  BY <1>2, <1>3, <1>4 DEF LineInv, QueueFresh
<1> QED
  BY <1>6, <1>7, <1>8, <1>9 DEF LineInv

\* An exchanged packet is as fresh as the master's.
LEMMA ExchangedLine ==
    ASSUME OwnInv, LineInv, LineExchanged
    PROVE  LineInv' /\ UNCHANGED queued
<1>1. /\ tx_msg' = LinePacket /\ line \in Nat
      /\ line' = line \/ line' = line + 1
      /\ LinePacket.type = 1 => LinePacket.data = line' /\ purged < line'
      /\ (LinePacket.type = 1 /\ line' = line) =>
             tx_msg.type = 1 /\ LinePacket.id = tx_msg.id
      /\ LinePacket.type = 2 => line' = line
      /\ line' = line + 1 => NewToSlave(line')
  BY LinePacketFacts DEF OwnInv, LineExchanged
<1>2. /\ UNCHANGED <<accepted, last_received_id, work_queue, current_rx_buf>>
      /\ WireExchange(LinePacket)
      /\ spc = "armed" /\ spc' = "received"
      /\ purged' = IF LinePacket.type = 2 THEN line ELSE purged
  BY DEF LineExchanged, SendsLine, WireExchange, slaveRest
<1>3. Received' = LinePacket /\ UNCHANGED queued
  BY <1>2, LinePacketType, WireQueued DEF OwnInv, TypeInv
<1>4. ~ Flushing /\ (Flushing' <=> LinePacket.type = 2)
  BY <1>2, <1>3 DEF Flushing
<1>5. accepted \subseteq Nat /\ purged \in Nat
  BY DEF OwnInv, TypeInv, TypeOK
<1>6. SourceBound'
  BY <1>1, <1>2, <1>5 DEF LineInv, SourceBound
<1>7. LinePacket.type = 1 => purged' = purged
  BY <1>2
<1>8. MasterFresh'
  BY <1>1, <1>2, <1>4, <1>7 DEF LineInv, MasterFresh, NewToSlave
<1>9. ReceivedFresh'
  BY <1>1, <1>2, <1>3, <1>7, <1>8, <1>4
     DEF ReceivedFresh, MasterFresh, NewToSlave
<1>10. QueueFresh'
  BY <1>2, <1>3, <1>4 DEF LineInv, QueueFresh
<1> QED
  BY <1>3, <1>6, <1>8, <1>9, <1>10 DEF LineInv

LEMMA FlushLine ==
    ASSUME OwnInv, LineInv, MasterFlush
    PROVE  LineInv' /\ UNCHANGED queued
<1>1. /\ tx_msg' = FlushPacket
      /\ UNCHANGED <<line, accepted, last_received_id, work_queue,
                     current_rx_buf>>
      /\ WireExchange(FlushPacket) \/ WireSilent
  BY DEF MasterFlush, FlushExchanged, FlushMissed, FlushFailed, SendsFlush,
         slaveRest
<1>2. FlushPacket \in Packet /\ FlushPacket.type = 2
  BY DEF FlushPacket, Packet
<1>3. /\ UNCHANGED queued
      /\ WireExchange(FlushPacket) => Received' = FlushPacket
      /\ WireSilent => Received' = Received
  BY <1>1, <1>2, WireQueued
<1>4. MasterFresh'
  BY <1>1, <1>2 DEF MasterFresh
<1>5. line \in Nat /\ purged \in Nat
  BY DEF OwnInv, TypeInv, TypeOK
<1>6. CASE WireSilent
  <2>1. UNCHANGED <<spc, purged>> /\ UNCHANGED Received
    BY <1>3, <1>6 DEF WireSilent
  <2>2. UNCHANGED Flushing
    BY <2>1 DEF Flushing
  <2>3. SourceBound'
    BY <1>1, <2>1 DEF LineInv, SourceBound
  <2>4. ReceivedFresh'
    BY <1>1, <1>2, <2>1 DEF LineInv, ReceivedFresh, NewToSlave
  <2>5. QueueFresh'
    BY <1>3, <2>1, <2>2 DEF LineInv, QueueFresh
  <2> QED
    BY <1>3, <1>4, <2>3, <2>4, <2>5 DEF LineInv
<1>7. CASE WireExchange(FlushPacket)
  <2>1. spc' = "received" /\ Received' = FlushPacket /\ purged' = line
    BY <1>2, <1>3, <1>7 DEF WireExchange
  <2>2. Flushing'
    BY <1>2, <2>1 DEF Flushing
  <2>3. SourceBound'
    BY <1>1, <1>5, <2>1 DEF LineInv, SourceBound
  <2>4. ReceivedFresh'
    BY <1>2, <2>1 DEF ReceivedFresh
  <2>5. QueueFresh'
    BY <2>2 DEF QueueFresh
  <2> QED
    BY <1>3, <1>4, <2>3, <2>4, <2>5 DEF LineInv
<1> QED
  BY <1>1, <1>6, <1>7

\* Master steps move the source by at most one line and are otherwise
\* invisible to the channel.
LEMMA MasterChannel ==
    ASSUME OwnInv, LineInv, MasterLine \/ MasterFlush
    PROVE  LineInv' /\ [Channel!Next]_(Channel!chanVars)
<1>1. CASE LineExchanged
  <2>1. UNCHANGED <<accepted, delivered>> /\ SendsLine
    BY <1>1 DEF LineExchanged, SendsLine, slaveRest
  <2>2. line' = line \/ line' = line + 1
    BY <2>1, LinePacketFacts DEF OwnInv
  <2> QED
    BY <1>1, <2>1, <2>2, ExchangedLine
       DEF Channel!Next, Channel!Offer, Channel!chanVars
<1>2. CASE LineMissed \/ LineFailed
  <2>1. /\ UNCHANGED <<accepted, delivered, work_queue, rx_pool>>
        /\ SendsLine /\ WireSilent
    BY <1>2 DEF LineMissed, LineFailed, SendsLine, WireSilent, slaveRest
  <2>2. line' = line \/ line' = line + 1
    BY <2>1, LinePacketFacts DEF OwnInv
  <2>3. UNCHANGED queued
    BY <2>1 DEF queued
  <2> QED
    BY <2>1, <2>2, <2>3, SilentLine
       DEF Channel!Next, Channel!Offer, Channel!chanVars
<1>3. CASE MasterFlush
  <2>1. UNCHANGED <<line, accepted, delivered>>
    BY <1>3 DEF MasterFlush, FlushExchanged, FlushMissed, FlushFailed,
                SendsFlush, slaveRest
  <2> QED
    BY <1>3, <2>1, FlushLine DEF Channel!chanVars
<1> QED
  BY <1>1, <1>2, <1>3 DEF MasterLine

\* A step that leaves the lines, the queue and the packets alone.
LEMMA LineStutter ==
    ASSUME LineInv, UNCHANGED <<tx_msg, line, accepted, purged,
                                last_received_id, work_queue, queued>>,
           Flushing <=> Flushing',
           spc' = "received" => spc = "received" /\ UNCHANGED Received
    PROVE  LineInv'
<1>1. SourceBound' /\ MasterFresh'
  BY DEF LineInv, SourceBound, MasterFresh, NewToSlave
<1>2. ReceivedFresh'
  BY DEF LineInv, ReceivedFresh, NewToSlave
<1>3. QueueFresh'
  BY DEF LineInv, QueueFresh
<1> QED
  BY <1>1, <1>2, <1>3 DEF LineInv

\* Recycling a buffer that is not queued leaves the queued lines alone.
LEMMA RecycleQueued ==
    ASSUME TypeInv, NEW b \in Buffers, Recycle(b), UNCHANGED work_queue,
           ~ InQueue(b, work_queue)
    PROVE  UNCHANGED queued
<1>1. \A i \in 1 .. Len(work_queue) :
          work_queue[i] \in Buffers /\ work_queue[i] # b
  BY DEF TypeInv, TypeOK, InQueue
<1>2. \A i \in 1 .. Len(work_queue) :
          rx_pool'[work_queue[i]] = rx_pool[work_queue[i]]
  BY <1>1 DEF Recycle, TypeInv, TypeOK
<1> QED
  BY <1>2, QueuedSame DEF TypeInv

\* Giving the receive buffer back after a packet that was not queued.
LEMMA ReleaseQueued ==
    ASSUME OwnInv, SlaveReleases, UNCHANGED work_queue,
           spc \in {"armed", "received", "flush"}
    PROVE  UNCHANGED queued
<1>1. current_rx_buf \in Buffers
  BY DEF OwnInv, TypeInv, TypeOK, PcOK
<1>2. ~ InQueue(current_rx_buf, work_queue)
  BY <1>1 DEF OwnInv, BufferOwnership
<1> QED
  BY <1>1, <1>2, RecycleQueued DEF OwnInv, SlaveReleases

\* Accepting a packet appends a line that is newer than all accepted before.
LEMMA AcceptChannel ==
    ASSUME OwnInv, LineInv, SlaveAccept
    PROVE  LineInv' /\ Channel!Accept
<1>1. /\ spc = "received" /\ spc' = "prepare"
      /\ Received.type = 1 /\ Received.id = last_received_id + 1
      /\ Len(work_queue) < QUEUE_CAPACITY
      /\ work_queue' = Append(work_queue, current_rx_buf)
      /\ last_received_id' = Received.id
      /\ accepted' = accepted \cup {Received.data}
      /\ UNCHANGED <<tx_msg, line, purged, delivered, rx_pool>>
  BY DEF SlaveAccept, InSequence, masterVars
<1>2. current_rx_buf \in Buffers
  BY <1>1 DEF OwnInv, TypeInv, TypeOK, PcOK
<1>3. /\ Received.data \in Nat /\ Received.id \in Nat
      /\ line \in Nat /\ purged \in Nat /\ last_received_id \in Nat
      /\ accepted \subseteq Nat
  BY <1>2 DEF OwnInv, TypeInv, TypeOK, Received, Packet
<1>4. queued' = Append(queued, Received.data)
  BY <1>1, <1>2, QueuedAppend DEF OwnInv
<1>5. queued \in Seq(Nat) /\ Len(queued) = Len(work_queue)
  BY QueuedType DEF OwnInv, TypeInv
<1>6. /\ purged < Received.data /\ Received.data <= line
      /\ NewToSlave(Received.data)
      /\ (tx_msg.type = 1 /\ line = Received.data) => tx_msg.id = Received.id
  BY <1>1 DEF LineInv, ReceivedFresh
<1>7. ~ Flushing /\ ~ Flushing'
  BY <1>1 DEF Flushing
<1>8. SourceBound'
  BY <1>1, <1>3, <1>6 DEF LineInv, SourceBound
<1>9. MasterFresh'
  <2> SUFFICES ASSUME tx_msg.type = 1
               PROVE  /\ tx_msg.data = line /\ purged < line
                      /\ tx_msg.id = Received.id + 1 =>
                             \A a \in accepted \cup {Received.data} : a < line
    BY <1>1, <1>7 DEF MasterFresh, NewToSlave
  <2>1. tx_msg.data = line /\ purged < line
    BY DEF LineInv, MasterFresh
  <2>2. ASSUME tx_msg.id = Received.id + 1 PROVE Received.data < line
    BY <1>3, <1>6, <2>2
  <2>3. ASSUME Received.data < line
        PROVE  \A a \in accepted \cup {Received.data} : a < line
    BY <1>3, <1>6, <2>3 DEF NewToSlave
  <2> QED
    BY <2>1, <2>2, <2>3
<1>10. ReceivedFresh'
  BY <1>1 DEF ReceivedFresh
<1>11. QueueFresh'
  <2>1. \A i \in 1 .. Len(queued) : queued[i] > purged
    BY <1>7 DEF LineInv, QueueFresh
  <2>2. \A i \in 1 .. Len(queued') :
            queued'[i] = Received.data
            \/ (i \in 1 .. Len(queued) /\ queued'[i] = queued[i])
    BY <1>3, <1>4, <1>5
  <2> QED
    BY <1>1, <1>3, <1>6, <2>1, <2>2 DEF QueueFresh
<1>12. Received.data \in 1 .. line
  BY <1>3, <1>6
<1>13. Channel!Accept
  BY <1>1, <1>4, <1>5, <1>6, <1>12 DEF Channel!Accept, NewToSlave
<1> QED
  BY <1>8, <1>9, <1>10, <1>11, <1>13 DEF LineInv

\* Each turn of the flush loop discards the oldest queued line.
LEMMA FlushOneChannel ==
    ASSUME OwnInv, OwnInv', LineInv, FlushOne
    PROVE  LineInv' /\ Channel!Discard
<1>1. /\ spc = "flush" /\ work_queue # << >>
      /\ work_queue' = Tail(work_queue)
      /\ Recycle(Head(work_queue))
      /\ UNCHANGED <<tx_msg, line, spc, accepted, delivered, purged,
                     last_received_id, current_rx_buf>>
  BY DEF FlushOne, masterVars, idVars, history
<1>2. /\ work_queue \in Seq(Buffers) /\ NoRepeats(work_queue)
      /\ rx_pool \in [Buffers -> Packet]
      /\ work_queue' \in Seq(Buffers)
  BY DEF OwnInv, TypeInv, TypeOK, BufferOwnership
<1>3. \A c : InQueue(c, work_queue') => c # Head(work_queue)
  BY <1>1, <1>2, TailFacts
<1>4. \A i \in 1 .. Len(work_queue') :
          work_queue'[i] \in Buffers /\ work_queue'[i] # Head(work_queue)
  BY <1>2, <1>3 DEF InQueue
<1>5. \A i \in 1 .. Len(work_queue') :
          rx_pool'[work_queue'[i]] = rx_pool[work_queue'[i]]
  BY <1>1, <1>2, <1>4 DEF Recycle
<1>6. queued' = Tail(queued) /\ queued # << >>
  BY <1>1, <1>5, QueuedTail DEF OwnInv
<1>7. Flushing /\ Flushing'
  BY <1>1 DEF Flushing
<1>8. SourceBound' /\ MasterFresh' /\ ReceivedFresh' /\ QueueFresh'
  BY <1>1, <1>7 DEF LineInv, SourceBound, MasterFresh, ReceivedFresh,
                    QueueFresh, NewToSlave
<1> QED
  BY <1>1, <1>6, <1>8 DEF LineInv, Channel!Discard

LEMMA FlushEndLine ==
    ASSUME OwnInv, LineInv, FlushEnd
    PROVE  LineInv' /\ UNCHANGED <<line, accepted, queued, delivered>>
<1>1. /\ spc = "flush" /\ spc' = "prepare" /\ SlaveReleases
      /\ work_queue = << >> /\ last_received_id' = 0
      /\ UNCHANGED <<tx_msg, line, accepted, delivered, purged, work_queue>>
  BY DEF FlushEnd, SlaveReleases, masterVars, history
<1>2. UNCHANGED queued
  BY <1>1, ReleaseQueued
<1>3. Flushing /\ ~ Flushing'
  BY <1>1 DEF Flushing
<1>4. Len(queued') = 0
  BY <1>1, <1>2, QueuedType DEF OwnInv, TypeInv
<1>5. SourceBound' /\ ReceivedFresh'
  BY <1>1 DEF LineInv, SourceBound, ReceivedFresh
<1>6. MasterFresh'
  BY <1>1, <1>3 DEF LineInv, MasterFresh, NewToSlave
<1>7. QueueFresh'
  BY <1>4 DEF QueueFresh
<1> QED
  BY <1>1, <1>2, <1>5, <1>6, <1>7 DEF LineInv

LEMMA SlaveChannel ==
    ASSUME OwnInv, OwnInv', LineInv, Slave \/ SlaveFails
    PROVE  LineInv' /\ [Channel!Next]_(Channel!chanVars)
<1>1. CASE SlavePrepare \/ SlaveTake \/ SlaveFlush
  <2>1. /\ UNCHANGED <<tx_msg, line, accepted, delivered, purged,
                       last_received_id, work_queue, rx_pool>>
        /\ spc' # "received"
        /\ UNCHANGED current_rx_buf \/ (spc = "take" /\ spc' = "armed")
    BY <1>1 DEF SlavePrepare, SlaveTake, SlaveFlush, masterVars, idVars,
                queueVars, history
  <2>2. UNCHANGED queued
    BY <2>1 DEF queued
  <2>3. Flushing <=> Flushing'
    BY <1>1 DEF SlavePrepare, SlaveTake, SlaveFlush, Flushing
  <2> QED
    BY <2>1, <2>2, <2>3, LineStutter DEF Channel!chanVars
<1>2. CASE SlaveFails \/ SlaveReject
  <2>1. /\ UNCHANGED <<tx_msg, line, accepted, delivered, purged,
                       last_received_id, work_queue>>
        /\ SlaveReleases /\ spc' = "prepare"
        /\ spc \in {"armed", "received", "flush"}
        /\ ~ Flushing
    BY <1>2 DEF SlaveFails, SlaveReject, SlaveReleases, masterVars, idVars,
                history, Flushing
  <2>2. UNCHANGED queued
    BY <2>1, ReleaseQueued
  <2>3. ~ Flushing'
    BY <2>1 DEF Flushing
  <2> QED
    BY <2>1, <2>2, <2>3, LineStutter DEF Channel!chanVars
<1>3. CASE SlaveAccept
  BY <1>3, AcceptChannel DEF Channel!Next
<1>4. CASE FlushOne
  BY <1>4, FlushOneChannel DEF Channel!Next
<1>5. CASE FlushEnd
  BY <1>5, FlushEndLine DEF Channel!chanVars
<1> QED
  BY <1>1, <1>2, <1>3, <1>4, <1>5 DEF Slave

LEMMA ConsumerChannel ==
    ASSUME OwnInv, OwnInv', LineInv, spi_slave_receive_command \/ Acknowledge
    PROVE  LineInv' /\ [Channel!Next]_(Channel!chanVars)
<1>1. CASE spi_slave_receive_command
  <2>1. /\ work_queue # << >> /\ work_queue' = Tail(work_queue)
        /\ delivered' = Append(delivered, rx_pool[Head(work_queue)].data)
        /\ UNCHANGED <<tx_msg, line, spc, accepted, purged, rx_pool,
                       last_received_id, current_rx_buf>>
    BY <1>1 DEF spi_slave_receive_command, masterVars, idVars
  <2>2. /\ queued' = Tail(queued) /\ queued # << >>
        /\ Head(queued) = rx_pool[Head(work_queue)].data
    BY <2>1, QueuedTail DEF OwnInv
  <2>3. Channel!Deliver
    BY <2>1, <2>2 DEF Channel!Deliver
  <2>4. UNCHANGED <<Received, Flushing>>
    BY <2>1 DEF Received, Flushing
  <2>5. SourceBound' /\ MasterFresh' /\ ReceivedFresh'
    BY <2>1, <2>4 DEF LineInv, SourceBound, MasterFresh, ReceivedFresh,
                      NewToSlave
  <2>6. QueueFresh'
    <3>1. queued \in Seq(Nat)
      BY QueuedType DEF OwnInv, TypeInv
    <3>2. \A i \in 1 .. Len(queued') :
              i + 1 \in 1 .. Len(queued) /\ queued'[i] = queued[i + 1]
      BY <2>2, <3>1
    <3> QED
      BY <2>1, <2>4, <3>2 DEF LineInv, QueueFresh
  <2> QED
    BY <2>3, <2>5, <2>6 DEF LineInv, Channel!Next
<1>2. CASE Acknowledge
  <2>1. PICK b \in held : spi_slave_acknowledge_done(b)
    BY <1>2 DEF Acknowledge
  <2>2. /\ b \in Buffers /\ Recycle(b)
        /\ UNCHANGED <<tx_msg, line, spc, accepted, delivered, purged,
                       last_received_id, current_rx_buf, work_queue>>
    BY <2>1 DEF spi_slave_acknowledge_done, masterVars, history, OwnInv,
                TypeInv, TypeOK
  <2>3. ~ InQueue(b, work_queue) /\ b # current_rx_buf
    BY <2>2 DEF OwnInv, BufferOwnership
  <2>4. UNCHANGED queued
    BY <2>2, <2>3, RecycleQueued DEF OwnInv
  <2>5. spc = "received" => UNCHANGED Received
    <3>1. spc = "received" => current_rx_buf \in Buffers
      BY DEF OwnInv, TypeInv, TypeOK, PcOK
    <3> QED
      BY <2>2, <2>3, <3>1 DEF Recycle, Received, OwnInv, TypeInv, TypeOK
  <2>6. Flushing <=> Flushing'
    BY <2>2, <2>5 DEF Flushing
  <2> QED
    BY <2>2, <2>4, <2>5, <2>6, LineStutter DEF Channel!chanVars
<1> QED
  BY <1>1, <1>2

LEMMA LinkInit == Init => LinkInv /\ Channel!Init
<1> SUFFICES ASSUME Init PROVE LineInv /\ Channel!Init
  BY OwnInit DEF LinkInv
<1>1. queued = << >>
  BY DEF Init, queued
<1>2. ~ Flushing /\ tx_msg.type = 0 /\ spc = "prepare"
  BY DEF Init, Flushing, NoPacket
<1>3. SourceBound /\ MasterFresh /\ ReceivedFresh /\ QueueFresh
  BY <1>1, <1>2 DEF Init, SourceBound, MasterFresh, ReceivedFresh, QueueFresh
<1>4. Channel!Init
  BY <1>1 DEF Init, Channel!Init
<1> QED
  BY <1>3, <1>4 DEF LineInv

\* One step of the link preserves the invariant and is a step of the channel.
LEMMA LinkStep ==
    LinkInv /\ [Next]_vars => LinkInv' /\ [Channel!Next]_(Channel!chanVars)
<1> SUFFICES ASSUME LinkInv, [Next]_vars
             PROVE  LinkInv' /\ [Channel!Next]_(Channel!chanVars)
  OBVIOUS
<1>1. OwnInv /\ LineInv /\ OwnInv'
  BY OwnStep DEF LinkInv
<1>2. CASE UNCHANGED vars
  <2>1. UNCHANGED <<queued, Received, Flushing>>
    BY <1>2 DEF vars, queued, Received, Flushing
  <2>2. LineInv'
    BY <1>1, <1>2, <2>1, LineStutter DEF vars
  <2> QED
    BY <1>1, <1>2, <2>1, <2>2 DEF vars, LinkInv, Channel!chanVars
<1>3. CASE MasterLine \/ MasterFlush
  BY <1>1, <1>3, MasterChannel DEF LinkInv
<1>4. CASE Slave \/ SlaveFails
  BY <1>1, <1>4, SlaveChannel DEF LinkInv
<1>5. CASE spi_slave_receive_command \/ Acknowledge
  BY <1>1, <1>5, ConsumerChannel DEF LinkInv
<1> QED
  BY <1>2, <1>3, <1>4, <1>5 DEF Next

LEMMA SpecLinkInv == Spec => []LinkInv
BY LinkInit, LinkStep, PTL DEF Spec

\* The SPI link implements the abstract command channel: what the consumer can
\* observe of it is a bounded queue that takes some of the source's lines, in
\* order, and may be emptied.
THEOREM SpecImplementsChannel == Spec => ChannelSpec
BY LinkInit, LinkStep, PTL DEF Spec, ChannelSpec, Channel!Spec

\* A completed flush leaves no line queued that was sent before it.
THEOREM SpecFlushDiscards == Spec => []FlushDiscards
<1>1. LinkInv => FlushDiscards
  BY DEF LinkInv, LineInv, QueueFresh, Flushing, FlushDiscards
<1> QED
  BY <1>1, SpecLinkInv, PTL

\* The consumer receives every line at most once and in order, for every
\* capacity, whatever transactions are missed or fail.
THEOREM SpecDeliveredInOrder == Spec => []DeliveredInOrder
<1>1. Channel!InOrder => DeliveredInOrder
  BY DEF Channel!InOrder, Channel!Increasing, DeliveredInOrder
<1>2. Channel!Spec => []Channel!InOrder
  BY Channel!SpecInOrder
<1> QED
  BY <1>1, <1>2, SpecImplementsChannel, PTL DEF ChannelSpec
-----------------------------------------------------------------------------
(* How many buffers are away from the pool                                   *)

\* Every buffer that is not free is queued, with the consumer or with the
\* driver, and each of these has its limit.
CountInv ==
    /\ Len(work_queue) <= QUEUE_CAPACITY
    /\ IsFiniteSet(held) /\ Cardinality(held) <= MaxHeld

LEMMA CountInit == Init => CountInv
BY LinkAssumption, FS_EmptySet DEF Init, CountInv

LEMMA CountStep ==
    ASSUME OwnInv, CountInv, [Next]_vars
    PROVE  CountInv'
<1>1. work_queue \in Seq(Buffers) /\ QUEUE_CAPACITY \in Nat
  BY LinkAssumption DEF OwnInv, TypeInv, TypeOK
<1>2. ASSUME work_queue # << >>
      PROVE  Len(Tail(work_queue)) <= QUEUE_CAPACITY
  BY <1>1, <1>2 DEF CountInv
<1>3. CASE UNCHANGED <<work_queue, held>>
  BY <1>3 DEF CountInv
<1>4. CASE SlaveAccept
  <2>1. Len(work_queue) < QUEUE_CAPACITY /\ held' = held
        /\ work_queue' = Append(work_queue, current_rx_buf)
    BY <1>4 DEF SlaveAccept
  <2>2. Len(work_queue') = Len(work_queue) + 1 /\ Len(work_queue) \in Nat
    BY <1>1, <2>1
  <2> QED
    BY <1>1, <2>1, <2>2 DEF CountInv
<1>5. CASE FlushOne
  BY <1>2, <1>5 DEF FlushOne, CountInv
<1>6. CASE spi_slave_receive_command
  <2>1. /\ work_queue # << >> /\ work_queue' = Tail(work_queue)
        /\ Cardinality(held) < MaxHeld
        /\ held' = held \cup {Head(work_queue)}
    BY <1>6 DEF spi_slave_receive_command
  <2>2. /\ IsFiniteSet(held') /\ Cardinality(held) \in Nat
        /\ \/ Cardinality(held') = Cardinality(held)
           \/ Cardinality(held') = Cardinality(held) + 1
    BY <2>1, FS_AddElement, FS_CardinalityType DEF CountInv
  <2>3. Cardinality(held') <= MaxHeld
    BY <2>1, <2>2, LinkAssumption
  <2> QED
    BY <1>2, <2>1, <2>2, <2>3 DEF CountInv
<1>7. CASE Acknowledge
  <2>1. PICK b \in held : spi_slave_acknowledge_done(b)
    BY <1>7 DEF Acknowledge
  <2>2. held' = held \ {b} /\ work_queue' = work_queue
    BY <2>1 DEF spi_slave_acknowledge_done
  <2>3. /\ IsFiniteSet(held') /\ Cardinality(held) \in Nat
        /\ Cardinality(held') = Cardinality(held) - 1
    BY <2>2, FS_RemoveElement, FS_CardinalityType DEF CountInv
  <2>4. Cardinality(held') <= MaxHeld
    BY <2>3, LinkAssumption DEF CountInv
  <2> QED
    BY <2>2, <2>3, <2>4 DEF CountInv
<1>8. CASE MasterLine \/ MasterFlush
  BY <1>3, <1>8 DEF MasterLine, MasterFlush, LineExchanged, LineMissed,
     LineFailed, FlushExchanged, FlushMissed, FlushFailed, SendsLine,
     SendsFlush, slaveRest
<1>9. CASE SlavePrepare \/ SlaveTake \/ SlaveReject \/ SlaveFlush \/ FlushEnd
           \/ SlaveFails \/ UNCHANGED vars
  BY <1>3, <1>9 DEF SlavePrepare, SlaveTake, SlaveReject, SlaveFlush, FlushEnd,
     SlaveFails, queueVars, vars
<1> QED
  BY <1>4, <1>5, <1>6, <1>7, <1>8, <1>9 DEF Next, Slave

\* The two spare buffers are one for the consumer and one for the driver.
LEMMA SpareBuffers == OwnInv /\ CountInv => AlwaysABuffer
<1> SUFFICES ASSUME OwnInv, CountInv, MaxHeld = 1, spc = "take",
                    free_queue = << >>
             PROVE  FALSE
  BY DEF AlwaysABuffer
<1> DEFINE waiting == {work_queue[i] : i \in 1 .. Len(work_queue)}
<1>1. /\ work_queue \in Seq(Buffers) /\ Len(work_queue) \in Nat
      /\ QUEUE_CAPACITY \in Nat /\ current_rx_buf = NoBuffer
      /\ NoBuffer \notin Buffers /\ held \subseteq Buffers
  BY LinkAssumption DEF OwnInv, TypeInv, TypeOK, PcOK, NoBuffer, Buffers
<1>2. \A b : ~ InQueue(b, free_queue)
  BY DEF InQueue
<1>3. Buffers \subseteq waiting \cup held
  <2> SUFFICES ASSUME NEW b \in Buffers, b \notin held
               PROVE  b \in waiting
    OBVIOUS
  <2>1. InQueue(b, work_queue)
    BY <1>1, <1>2 DEF OwnInv, BufferOwnership
  <2> QED
    BY <2>1 DEF InQueue
<1>4. IsFiniteSet(waiting) /\ Cardinality(waiting) <= Len(work_queue)
  <2>1. IsFiniteSet(1 .. Len(work_queue))
        /\ Cardinality(1 .. Len(work_queue)) = Len(work_queue)
    BY <1>1, CountOfRange
  <2>2. work_queue \in Surjection(1 .. Len(work_queue), waiting)
    BY <1>1 DEF Surjection
  <2> HIDE DEF waiting
  <2> QED
    BY <2>1, <2>2, FS_Surjection
<1>5. IsFiniteSet(waiting \cup held)
      /\ Cardinality(waiting \cup held) <= Cardinality(waiting) + Cardinality(held)
      /\ Cardinality(waiting) \in Nat /\ Cardinality(held) \in Nat
  <2>1. IsFiniteSet(held)
    BY DEF CountInv
  <2>2. /\ IsFiniteSet(waiting \cap held) /\ Cardinality(waiting \cap held) \in Nat
        /\ Cardinality(waiting) \in Nat /\ Cardinality(held) \in Nat
    BY <1>4, <2>1, FS_Intersection, FS_CardinalityType
  <2>3. /\ IsFiniteSet(waiting \cup held)
        /\ Cardinality(waiting \cup held)
             = Cardinality(waiting) + Cardinality(held) - Cardinality(waiting \cap held)
    BY <1>4, <2>1, FS_Union
  <2> HIDE DEF waiting
  <2> QED
    BY <2>2, <2>3
<1>6. Cardinality(Buffers) = QUEUE_CAPACITY + 2
  BY <1>1, FS_Interval DEF Buffers, BUFFER_POOL_SIZE
<1>7. Cardinality(Buffers) <= Cardinality(waiting \cup held)
  BY <1>3, <1>5, FS_Subset
<1>8. Len(work_queue) <= QUEUE_CAPACITY /\ Cardinality(held) <= 1
  BY DEF CountInv
<1>9. Cardinality(waiting \cup held) \in Nat
  BY <1>5, FS_CardinalityType
<1> HIDE DEF waiting
<1> QED
  BY <1>1, <1>4, <1>5, <1>6, <1>7, <1>8, <1>9

\* With a consumer that holds one command at a time the receive task never
\* waits for a buffer, however full the work queue and whatever is flushed.
THEOREM SpecAlwaysABuffer == Spec => []AlwaysABuffer
<1> DEFINE Inv == OwnInv /\ CountInv
<1>1. Init => Inv
  BY OwnInit, CountInit
<1>2. Inv /\ [Next]_vars => Inv'
  BY OwnStep, CountStep
<1>3. Inv => AlwaysABuffer
  BY SpareBuffers
<1> HIDE DEF Inv
<1> QED
  BY <1>1, <1>2, <1>3, PTL DEF Spec
-----------------------------------------------------------------------------
(* What an acknowledgement is about                                          *)

\* The reply on its way was prepared after the last packet was handled.
ReplyCurrent == spc \in {"take", "armed"} => reply.packet_ack = last_received_id

\* The slave has accepted the master's line, or all lines before it.  Until a
\* flush has been handled the master's numbers are new and the slave's are old.
IdsMeet ==
    IF Flushing THEN expected_ack = 1
    ELSE \/ last_received_id = expected_ack - 1
         \/ last_received_id = expected_ack /\ ~ fetch_new_line /\ line \in accepted

RepeatsLine == ~ fetch_new_line => tx_msg.id = expected_ack /\ tx_msg.type \in {0, 1}

ArrivedLine ==
    (spc = "received" /\ Received.type = 1) =>
        /\ Received.id <= expected_ack
        /\ Received.id = expected_ack => ~ fetch_new_line /\ Received.data = line

AckInv ==
    /\ acked \subseteq accepted
    /\ ReplyCurrent /\ IdsMeet /\ RepeatsLine /\ ArrivedLine

\* A packet carries the identifier of the line it is about.
LEMMA AckPacket ==
    ASSUME TypeInv, AckInv, SendsLine
    PROVE  /\ tx_msg' = LinePacket /\ LinePacket \in Packet
           /\ LinePacket.id = expected_ack /\ LinePacket.type \in {0, 1}
           /\ LinePacket.type = 1 => LinePacket.data = line'
           /\ ~ fetch_new_line => line' = line
<1>1. tx_msg' = LinePacket /\ line' = LineToSend /\ LinePacket \in Packet
  BY LinePacketType DEF SendsLine, TypeInv
<1>2. ~ fetch_new_line => tx_msg.id = expected_ack /\ tx_msg.type \in {0, 1}
  BY DEF AckInv, RepeatsLine
<1>3. LinePacket.id = expected_ack /\ LinePacket.type \in {0, 1}
  BY <1>2 DEF LinePacket
<1>4. LinePacket.type = 1 => LinePacket.data = line'
  BY <1>1 DEF LinePacket
<1>5. ~ fetch_new_line => line' = line
  BY <1>1 DEF LineToSend
<1> QED
  BY <1>1, <1>3, <1>4, <1>5

\* The reply acknowledges the line that the packet repeats, or an older one.
LEMMA AckExchanged ==
    ASSUME TypeInv, AckInv, LineExchanged
    PROVE  AckInv'
<1>1. /\ tx_msg' = LinePacket /\ LinePacket \in Packet
      /\ LinePacket.id = expected_ack /\ LinePacket.type \in {0, 1}
      /\ LinePacket.type = 1 => LinePacket.data = line'
      /\ ~ fetch_new_line => line' = line
  BY AckPacket DEF LineExchanged
<1>2. /\ spc = "armed" /\ spc' = "received"
      /\ rx_pool' = [rx_pool EXCEPT ![current_rx_buf] = LinePacket]
      /\ UNCHANGED <<accepted, last_received_id, current_rx_buf>>
      /\ MasterReads(LinePacket, reply)
  BY DEF LineExchanged, SendsLine, WireExchange, slaveRest
<1>3. Received' = LinePacket
  <2>1. current_rx_buf \in Buffers /\ rx_pool \in [Buffers -> Packet]
    BY <1>2 DEF TypeInv, TypeOK, PcOK
  <2> QED
    BY <1>2, <2>1 DEF Received
<1>4. ~ Flushing /\ ~ Flushing'
  BY <1>1, <1>2, <1>3 DEF Flushing
<1>5. ReplyCurrent'
  BY <1>2 DEF ReplyCurrent
<1>6. /\ reply.packet_ack = last_received_id /\ acked \subseteq accepted
      /\ \/ last_received_id = expected_ack - 1
         \/ last_received_id = expected_ack /\ ~ fetch_new_line /\ line \in accepted
  BY <1>2, <1>4 DEF AckInv, ReplyCurrent, IdsMeet
<1>7. expected_ack \in Nat \ {0} /\ last_received_id \in Nat /\ fetch_new_line \in BOOLEAN
  BY DEF TypeInv, TypeOK
<1>8. CASE LinePacket.type = 0
  <2>1. UNCHANGED <<expected_ack, fetch_new_line, acked>>
    BY <1>2, <1>8 DEF MasterReads
  <2>2. IdsMeet'
    BY <1>1, <1>2, <1>4, <1>6, <2>1 DEF IdsMeet
  <2>3. RepeatsLine'
    BY <1>1, <2>1 DEF RepeatsLine
  <2>4. ArrivedLine'
    BY <1>3, <1>8 DEF ArrivedLine
  <2> QED
    BY <1>2, <1>5, <1>6, <2>1, <2>2, <2>3, <2>4 DEF AckInv
<1>9. CASE LinePacket.type = 1 /\ last_received_id = expected_ack
  <2>1. /\ expected_ack' = expected_ack + 1 /\ fetch_new_line' = TRUE
        /\ acked' = acked \cup {LinePacket.data}
    BY <1>2, <1>6, <1>9 DEF MasterReads
  <2>2. ~ fetch_new_line /\ line \in accepted
    BY <1>6, <1>7, <1>9
  <2>3. acked' \subseteq accepted'
    BY <1>1, <1>2, <1>6, <1>9, <2>1, <2>2
  <2>4. IdsMeet'
    BY <1>2, <1>4, <1>7, <1>9, <2>1 DEF IdsMeet
  <2>5. RepeatsLine'
    BY <2>1 DEF RepeatsLine
  <2>6. ArrivedLine'
    BY <1>1, <1>3, <1>7, <2>1 DEF ArrivedLine
  <2> QED
    BY <1>5, <2>3, <2>4, <2>5, <2>6 DEF AckInv
<1>10. CASE LinePacket.type = 1 /\ last_received_id = expected_ack - 1
  <2>1. /\ fetch_new_line' = FALSE /\ UNCHANGED <<expected_ack, acked>>
    BY <1>2, <1>6, <1>7, <1>10 DEF MasterReads
  <2>2. IdsMeet'
    BY <1>2, <1>4, <1>10, <2>1 DEF IdsMeet
  <2>3. RepeatsLine'
    BY <1>1, <2>1 DEF RepeatsLine
  <2>4. ArrivedLine'
    BY <1>1, <1>3, <1>7, <1>10, <2>1 DEF ArrivedLine
  <2> QED
    BY <1>2, <1>5, <1>6, <2>1, <2>2, <2>3, <2>4 DEF AckInv
<1> QED
  BY <1>1, <1>6, <1>8, <1>9, <1>10

\* A transaction that moves nothing acknowledges nothing.
LEMMA AckSilent ==
    ASSUME TypeInv, AckInv, LineMissed \/ LineFailed
    PROVE  AckInv'
<1>1. SendsLine /\ WireSilent
  BY DEF LineMissed, LineFailed
<1>2. /\ tx_msg' = LinePacket
      /\ LinePacket.id = expected_ack /\ LinePacket.type \in {0, 1}
      /\ ~ fetch_new_line => line' = line
  BY <1>1, AckPacket
<1>3. expected_ack \in Nat \ {0} /\ fetch_new_line \in BOOLEAN
  BY DEF TypeInv, TypeOK
<1>4. UNCHANGED <<expected_ack, acked>> /\ fetch_new_line' \in {fetch_new_line, FALSE}
  <2>1. CASE LineMissed
    <3>1. PICK r \in IdleReads : MasterReads(LinePacket, r)
      BY <2>1 DEF LineMissed
    <3>2. r.packet_ack # expected_ack
      BY <1>3, <3>1 DEF IdleReads
    <3> QED
      BY <3>1, <3>2 DEF MasterReads
  <2>2. CASE LineFailed
    BY <2>2 DEF LineFailed, MasterFails
  <2> QED
    BY <2>1, <2>2
<1>5. UNCHANGED <<reply, accepted, last_received_id, spc, Received, Flushing>>
  BY <1>1 DEF SendsLine, WireSilent, slaveRest, Received, Flushing
<1>6. IdsMeet'
  <2>1. CASE Flushing
    <3>1. Flushing' /\ expected_ack' = 1
      BY <1>4, <1>5, <2>1 DEF AckInv, IdsMeet
    <3> QED
      BY <3>1 DEF IdsMeet
  <2>2. CASE ~ Flushing
    <3>1. ~ Flushing'
      BY <1>5, <2>2
    <3>2. last_received_id = expected_ack - 1
            \/ (last_received_id = expected_ack /\ ~ fetch_new_line /\ line \in accepted)
      BY <2>2 DEF AckInv, IdsMeet
    <3>3. ~ fetch_new_line => ~ fetch_new_line'
      BY <1>4
    <3> QED
      BY <1>2, <1>4, <1>5, <3>1, <3>2, <3>3 DEF IdsMeet
  <2> QED
    BY <2>1, <2>2
<1>7. RepeatsLine'
  BY <1>2, <1>4 DEF RepeatsLine
<1>8. ArrivedLine'
  BY <1>2, <1>3, <1>4, <1>5 DEF AckInv, ArrivedLine
<1>9. ReplyCurrent'
  BY <1>5 DEF AckInv, ReplyCurrent
<1> QED
  BY <1>4, <1>5, <1>6, <1>7, <1>8, <1>9 DEF AckInv

\* A flush that arrives numbers the lines from 1 again, on both sides.
LEMMA AckFlush ==
    ASSUME TypeInv, AckInv, FlushExchanged
    PROVE  AckInv'
<1>1. /\ expected_ack' = 1 /\ fetch_new_line' = TRUE
      /\ spc = "armed" /\ spc' = "received"
      /\ rx_pool' = [rx_pool EXCEPT ![current_rx_buf] = FlushPacket]
      /\ UNCHANGED <<acked, accepted, current_rx_buf>>
  BY DEF FlushExchanged, SendsFlush, FlushSent, WireExchange, slaveRest
<1>2. Received' = FlushPacket
  <2>1. current_rx_buf \in Buffers /\ rx_pool \in [Buffers -> Packet]
    BY <1>1 DEF TypeInv, TypeOK, PcOK
  <2> QED
    BY <1>1, <2>1 DEF Received
<1>3. FlushPacket.type = 2
  BY DEF FlushPacket
<1>4. Flushing'
  BY <1>1, <1>2, <1>3 DEF Flushing
<1>5. IdsMeet' /\ RepeatsLine' /\ ReplyCurrent'
  BY <1>1, <1>4 DEF IdsMeet, RepeatsLine, ReplyCurrent
<1>6. ArrivedLine'
  BY <1>2, <1>3 DEF ArrivedLine
<1> QED
  BY <1>1, <1>5, <1>6 DEF AckInv

LEMMA AckSlave ==
    ASSUME TypeInv, AckInv, Slave \/ SlaveFails
    PROVE  AckInv'
<1>0. /\ UNCHANGED <<tx_msg, expected_ack, fetch_new_line, line, acked>>
      /\ acked \subseteq accepted /\ RepeatsLine'
  BY DEF Slave, SlavePrepare, SlaveTake, SlaveAccept, SlaveReject, SlaveFlush,
         FlushOne, FlushEnd, SlaveFails, masterVars, history, AckInv,
         RepeatsLine
<1>1. CASE SlavePrepare
  <2>1. /\ reply'.packet_ack = last_received_id /\ spc = "prepare" /\ spc' = "take"
        /\ UNCHANGED <<last_received_id, accepted>>
    BY <1>1 DEF SlavePrepare, idVars, history
  <2> QED
    BY <1>0, <2>1 DEF AckInv, ReplyCurrent, IdsMeet, ArrivedLine, Flushing
<1>2. CASE SlaveTake
  <2>1. /\ spc = "take" /\ spc' = "armed"
        /\ UNCHANGED <<reply, last_received_id, accepted>>
    BY <1>2 DEF SlaveTake, idVars, history
  <2> QED
    BY <1>0, <2>1 DEF AckInv, ReplyCurrent, IdsMeet, ArrivedLine, Flushing
<1>3. CASE SlaveFails \/ SlaveReject
  <2>1. /\ ~ Flushing /\ spc' = "prepare"
        /\ UNCHANGED <<last_received_id, accepted>>
    BY <1>3 DEF SlaveFails, SlaveReject, SlaveReleases, Flushing, idVars,
                history
  <2> QED
    BY <1>0, <2>1 DEF AckInv, ReplyCurrent, IdsMeet, ArrivedLine, Flushing
<1>4. CASE SlaveAccept
  <2>1. /\ spc = "received" /\ spc' = "prepare"
        /\ Received.type = 1 /\ Received.id = last_received_id + 1
        /\ last_received_id' = Received.id
        /\ accepted' = accepted \cup {Received.data}
    BY <1>4 DEF SlaveAccept, InSequence
  <2>2. last_received_id \in Nat /\ expected_ack \in Nat
    BY DEF TypeInv, TypeOK
  <2>3. ~ Flushing /\ ~ Flushing'
    BY <2>1 DEF Flushing
  <2>4. /\ last_received_id + 1 <= expected_ack
        /\ last_received_id + 1 = expected_ack => ~ fetch_new_line /\ Received.data = line
    BY <2>1 DEF AckInv, ArrivedLine
  <2>5. last_received_id = expected_ack - 1
    BY <2>2, <2>3, <2>4 DEF AckInv, IdsMeet
  <2>6. last_received_id + 1 = expected_ack
    BY <2>2, <2>5
  <2>7. IdsMeet'
    BY <1>0, <2>1, <2>3, <2>4, <2>6 DEF IdsMeet
  <2> QED
    BY <1>0, <2>1, <2>7 DEF AckInv, ReplyCurrent, ArrivedLine
<1>5. CASE SlaveFlush \/ FlushOne
  <2>1. /\ Flushing /\ spc' = "flush"
        /\ UNCHANGED <<last_received_id, accepted>>
    BY <1>5 DEF SlaveFlush, FlushOne, Flushing, idVars, history
  <2> QED
    BY <1>0, <2>1 DEF AckInv, ReplyCurrent, IdsMeet, ArrivedLine, Flushing
<1>6. CASE FlushEnd
  <2>1. /\ Flushing /\ spc' = "prepare" /\ last_received_id' = 0
        /\ UNCHANGED accepted
    BY <1>6 DEF FlushEnd, SlaveReleases, Flushing, history
  <2> QED
    BY <1>0, <2>1 DEF AckInv, ReplyCurrent, IdsMeet, ArrivedLine, Flushing
<1> QED
  BY <1>1, <1>2, <1>3, <1>4, <1>5, <1>6 DEF Slave

\* The consumer never touches the packet that the slave task is handling.
LEMMA AckConsumer ==
    ASSUME OwnInv, AckInv, spi_slave_receive_command \/ Acknowledge
    PROVE  AckInv'
<1>1. /\ UNCHANGED <<tx_msg, expected_ack, fetch_new_line, line, acked, spc,
                     reply, last_received_id, accepted, current_rx_buf>>
      /\ \/ rx_pool' = rx_pool
         \/ \E b \in held : rx_pool' = [rx_pool EXCEPT ![b] = NoPacket]
  BY DEF spi_slave_receive_command, Acknowledge, spi_slave_acknowledge_done,
         Recycle, masterVars, idVars, history
<1>2. spc = "received" => Received' = Received
  <2> SUFFICES ASSUME spc = "received", NEW b \in held,
                      rx_pool' = [rx_pool EXCEPT ![b] = NoPacket]
               PROVE  Received' = Received
    BY <1>1 DEF Received
  <2>1. current_rx_buf \in Buffers /\ b \in Buffers /\ rx_pool \in [Buffers -> Packet]
    BY DEF OwnInv, TypeInv, TypeOK, PcOK
  <2>2. b # current_rx_buf
    BY <2>1 DEF OwnInv, BufferOwnership
  <2> QED
    BY <1>1, <2>1, <2>2 DEF Received
<1>3. Flushing' <=> Flushing
  BY <1>1, <1>2 DEF Flushing
<1>4. ReplyCurrent' /\ RepeatsLine' /\ acked' \subseteq accepted'
  BY <1>1 DEF AckInv, ReplyCurrent, RepeatsLine
<1>5. IdsMeet'
  BY <1>1, <1>3 DEF AckInv, IdsMeet
<1>6. ArrivedLine'
  BY <1>1, <1>2 DEF AckInv, ArrivedLine
<1> QED
  BY <1>4, <1>5, <1>6 DEF AckInv

LEMMA AckStutter ==
    ASSUME AckInv, UNCHANGED vars
    PROVE  AckInv'
<1>1. UNCHANGED <<Received, Flushing>>
  BY DEF vars, Received, Flushing
<1> QED
  BY <1>1 DEF vars, AckInv, ReplyCurrent, IdsMeet, RepeatsLine, ArrivedLine

LEMMA AckStep ==
    ASSUME OwnInv, ~ flushLost => AckInv, [Next]_vars, ~ flushLost'
    PROVE  AckInv'
<1>1. ~ flushLost /\ ~ FlushMissed /\ ~ FlushFailed
  <2>1. flushLost' = flushLost \/ flushLost' = TRUE
    BY DEF Next, MasterLine, MasterFlush, LineExchanged, LineMissed, LineFailed,
       FlushExchanged, FlushMissed, FlushFailed, SendsLine, Slave, SlavePrepare,
       SlaveTake, SlaveAccept, SlaveReject, SlaveFlush, FlushOne, FlushEnd,
       SlaveFails, spi_slave_receive_command, Acknowledge,
       spi_slave_acknowledge_done, history, vars
  <2> QED
    BY <2>1 DEF FlushMissed, FlushFailed
<1>2. TypeInv /\ AckInv
  BY <1>1 DEF OwnInv
<1> QED
  BY <1>1, <1>2, AckExchanged, AckSilent, AckFlush, AckSlave, AckConsumer,
     AckStutter DEF Next, MasterLine, MasterFlush

LEMMA AckInit == Init => AckInv
<1> SUFFICES ASSUME Init PROVE AckInv
  OBVIOUS
<1>1. ~ Flushing
  BY DEF Init, Flushing
<1> QED
  BY <1>1 DEF Init, AckInv, ReplyCurrent, IdsMeet, RepeatsLine, ArrivedLine

\* A line that the master takes for acknowledged did enter the slave's queue,
\* unless a flush got lost before: a reply is about the packets before it, and
\* identifiers start from 1 again on both sides.
THEOREM SpecAckedLinesAccepted == Spec => []AckedLinesAccepted
<1> DEFINE Inv == OwnInv /\ (~ flushLost => AckInv)
<1>1. Init => Inv
  BY OwnInit, AckInit
<1>2. Inv /\ [Next]_vars => Inv'
  BY OwnStep, AckStep
<1>3. Inv => AckedLinesAccepted
  BY DEF AckInv, AckedLinesAccepted
<1> HIDE DEF Inv
<1> QED
  BY <1>1, <1>2, <1>3, PTL DEF Spec
=============================================================================
