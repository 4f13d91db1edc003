------------------------------ MODULE SpiLink ------------------------------
(***************************************************************************)
(* The command link between two ESP32 boards, src/main/rahman/spi:          *)
(* spi_master_task (spi_m.c) sends numbered lines over SPI; spi_slave_task  *)
(* (spi_s.c) receives each into a buffer of a fixed pool and queues the     *)
(* ones that are in sequence; a consumer takes them with                    *)
(* spi_slave_receive_command and returns the buffer with                    *)
(* spi_slave_acknowledge_done.                                              *)
(*                                                                          *)
(* SPI is full duplex: while the slave receives a packet the master reads   *)
(* the reply that the slave prepared BEFORE that packet arrived.  Nothing   *)
(* tells the master whether the slave is ready: a transaction clocked while *)
(* no receive buffer is armed returns ESP_OK on the master and moves        *)
(* nothing.                                                                 *)
(*                                                                          *)
(* One iteration of the master's loop touches only the master's variables   *)
(* and the wire, so it is one action, at the instant of its transaction.    *)
(***************************************************************************)
EXTENDS Naturals, Sequences, FiniteSets

CONSTANTS
    QUEUE_CAPACITY,      \* spi_c.h: 10 in the build
    Faults,              \* which of the kinds below happen
    MayFlush,            \* whether check_flush_condition() ever returns true
    MaxLines,            \* bound: number of calls of nextLine
    MaxHeld              \* bound: buffers the consumer holds at once

\* "missed": the master transmits while the slave is not armed.
\* "master_error", "slave_error": spi_device_transmit, spi_slave_transmit
\* return an error and no packet was exchanged.
FaultKinds == {"missed", "master_error", "slave_error"}

ASSUME LinkAssumption ==
    /\ QUEUE_CAPACITY \in Nat \ {0}
    /\ Faults \subseteq FaultKinds
    /\ MayFlush \in BOOLEAN
    /\ MaxLines \in Nat
    /\ MaxHeld \in Nat \ {0}

\* Variants named Bug... are plausible mistakes in the definition that follows
\* them; no specification uses them.
BugOneSpare == QUEUE_CAPACITY + 1
BUFFER_POOL_SIZE == QUEUE_CAPACITY + 2

Buffers == 1 .. BUFFER_POOL_SIZE
NoBuffer == 0

\* The fields of spi_payload_t that the master fills in, and those the slave
\* does.  A line is its number in the source; 0 is cleared data.
NoPacket == [id |-> 0, type |-> 0, data |-> 0]
Packet == [id : Nat, type : {0, 1, 2}, data : Nat]
Reply == [packet_ack : Nat, rx_free : Nat]

VARIABLES
    \* spi_master_task
    tx_msg, expected_ack, slave_free_slots, fetch_new_line,
    line,                \* external: the line the source is at
    \* spi_slave_task and the consumer
    spc,                 \* where the slave task is
    reply,               \* the slave's tx_msg
    rx_pool,             \* contents of the buffers
    current_rx_buf,
    work_queue, free_queue,
    last_received_id, last_completed_id,
    held,                \* buffers the consumer has not acknowledged
    \* history
    accepted,            \* lines that entered work_queue
    acked,               \* lines the master took for acknowledged
    delivered,           \* lines the consumer received, in order
    purged,              \* source position when the last flush was exchanged
    flushLost            \* a flush was transmitted that the slave never saw

masterVars == <<tx_msg, expected_ack, slave_free_slots, fetch_new_line, line>>
idVars == <<last_received_id, last_completed_id>>
queueVars == <<rx_pool, work_queue, free_queue, held>>
history == <<accepted, acked, delivered, purged, flushLost>>
vars == <<tx_msg, expected_ack, slave_free_slots, fetch_new_line, line,
          spc, reply, rx_pool, current_rx_buf, work_queue, free_queue,
          last_received_id, last_completed_id, held,
          accepted, acked, delivered, purged, flushLost>>

SlavePc == {"prepare", "take", "armed", "received", "flush"}

\* xQueueSend with a zero timeout: a full queue refuses the buffer.
QueueSend(q, b, size) == IF Len(q) < size THEN Append(q, b) ELSE q

\* A buffer goes back to the pool.  Nothing reads a free buffer before the next
\* packet overwrites it, so its contents are forgotten here.
Recycle(b) ==
    /\ free_queue' = QueueSend(free_queue, b, BUFFER_POOL_SIZE)
    /\ rx_pool' = [rx_pool EXCEPT ![b] = NoPacket]

\* The loop that fills free_queue.
BugPoolOverrun == [i \in 1 .. BUFFER_POOL_SIZE + 1 |-> i]
AllFree == [i \in 1 .. BUFFER_POOL_SIZE |-> i]

Init ==
    /\ tx_msg = NoPacket
    /\ expected_ack = 1
    /\ slave_free_slots = 0
    /\ fetch_new_line = TRUE
    /\ line = 0
    /\ spc = "prepare"
    /\ reply = [packet_ack |-> 0, rx_free |-> 0]
    /\ rx_pool = [b \in Buffers |-> NoPacket]
    /\ current_rx_buf = NoBuffer
    /\ work_queue = << >>
    /\ free_queue = AllFree
    /\ last_received_id = 0
    /\ last_completed_id = 0
    /\ held = {}
    /\ accepted = {}
    /\ acked = {}
    /\ delivered = << >>
    /\ purged = 0
    /\ flushLost = FALSE

-----------------------------------------------------------------------------
(* One SPI transaction, as the two sides see it.                            *)

\* The packet lands in the armed buffer.
WireExchange(p) ==
    /\ spc = "armed"
    /\ rx_pool' = [rx_pool EXCEPT ![current_rx_buf] = p]
    /\ spc' = "received"
    /\ purged' = IF p.type = 2 THEN line ELSE purged

\* No buffer is armed, or the driver fails: nothing moves.
WireSilent ==
    UNCHANGED <<rx_pool, spc, purged>>

\* What the master reads from a slave that drives nothing: all zeros or all
\* ones, neither of which is an expected identifier.
IdleReads ==
    {[packet_ack |-> 0, rx_free |-> n] : n \in {0, 255}}

slaveRest == <<reply, current_rx_buf, work_queue, free_queue, held,
               last_received_id, last_completed_id, accepted, delivered>>

-----------------------------------------------------------------------------
(* spi_master_task                                                          *)

\* The line the next packet is about: nextLine() moves the source, line()
\* reads it again.
LineToSend == IF fetch_new_line THEN line + 1 ELSE line

\* The packet of a normal iteration.  Identifier and type are written only
\* with a new line; with no free slot the packet becomes a poll.
LinePacket ==
    IF slave_free_slots = 0 /\ expected_ack > 1
    THEN [id   |-> IF fetch_new_line THEN expected_ack ELSE tx_msg.id,
          type |-> 0,
          data |-> 0]
    ELSE [id   |-> IF fetch_new_line THEN expected_ack ELSE tx_msg.id,
          type |-> IF fetch_new_line THEN 1 ELSE tx_msg.type,
          data |-> LineToSend]

FlushPacket == [id |-> 0, type |-> 2, data |-> 0]

\* After a transaction that returned ESP_OK with reply r.
MasterReads(p, r) ==
    /\ slave_free_slots' = r.rx_free
    /\ IF p.type = 0
       THEN UNCHANGED <<expected_ack, fetch_new_line, acked>>
       ELSE IF r.packet_ack = expected_ack
       THEN /\ expected_ack' = expected_ack + 1
            /\ fetch_new_line' = TRUE
            /\ acked' = IF p.type = 1 THEN acked \cup {p.data} ELSE acked
       ELSE /\ fetch_new_line' = FALSE
            /\ UNCHANGED <<expected_ack, acked>>

BugFailureFetchesNext ==
    /\ fetch_new_line' = TRUE
    /\ UNCHANGED <<slave_free_slots, expected_ack, acked>>

MasterFails ==
    /\ fetch_new_line' = FALSE
    /\ UNCHANGED <<slave_free_slots, expected_ack, acked>>

\* A normal iteration of the loop, up to its transaction.
SendsLine ==
    /\ LineToSend <= MaxLines
    /\ line' = LineToSend
    /\ tx_msg' = LinePacket
    /\ UNCHANGED <<slaveRest, flushLost>>

LineExchanged ==
    /\ SendsLine
    /\ WireExchange(LinePacket)
    /\ MasterReads(LinePacket, reply)

LineMissed ==
    /\ "missed" \in Faults
    /\ spc # "armed"
    /\ SendsLine
    /\ WireSilent
    /\ \E r \in IdleReads : MasterReads(LinePacket, r)

LineFailed ==
    /\ "master_error" \in Faults
    /\ SendsLine
    /\ WireSilent
    /\ MasterFails

\* An iteration in which check_flush_condition() returned true.  The reply is
\* not looked at.
SendsFlush ==
    /\ MayFlush
    /\ tx_msg' = FlushPacket
    /\ UNCHANGED <<line, slave_free_slots, acked>>
    /\ UNCHANGED slaveRest

FlushSent ==
    /\ expected_ack' = 1
    /\ fetch_new_line' = TRUE

FlushExchanged ==
    /\ SendsFlush
    /\ WireExchange(FlushPacket)
    /\ FlushSent
    /\ UNCHANGED flushLost

FlushMissed ==
    /\ "missed" \in Faults
    /\ spc # "armed"
    /\ SendsFlush
    /\ WireSilent
    /\ FlushSent
    /\ flushLost' = TRUE

FlushFailed ==
    /\ "master_error" \in Faults
    /\ SendsFlush
    /\ WireSilent
    /\ flushLost' = TRUE
    /\ UNCHANGED <<expected_ack, fetch_new_line>>

MasterLine == LineExchanged \/ LineMissed \/ LineFailed
MasterFlush == FlushExchanged \/ FlushMissed \/ FlushFailed

-----------------------------------------------------------------------------
(* spi_slave_task                                                           *)

\* The reply of the coming transaction.
SlavePrepare ==
    /\ spc = "prepare"
    /\ reply' = [packet_ack |-> last_received_id,
                 rx_free |-> IF Len(work_queue) >= QUEUE_CAPACITY THEN 0
                             ELSE QUEUE_CAPACITY - Len(work_queue)]
    /\ spc' = "take"
    /\ UNCHANGED <<masterVars, idVars, queueVars, history, current_rx_buf>>

\* Blocks until a buffer is free, then hands it to the SPI driver.
SlaveTake ==
    /\ spc = "take"
    /\ free_queue # << >>
    /\ current_rx_buf' = Head(free_queue)
    /\ free_queue' = Tail(free_queue)
    /\ spc' = "armed"
    /\ UNCHANGED <<masterVars, idVars, history, reply, rx_pool, work_queue,
                   held>>

SlaveReleases ==
    /\ Recycle(current_rx_buf)
    /\ current_rx_buf' = NoBuffer
    /\ spc' = "prepare"

BugErrorLeaksBuffer ==
    /\ "slave_error" \in Faults
    /\ spc = "armed"
    /\ current_rx_buf' = NoBuffer
    /\ spc' = "prepare"
    /\ UNCHANGED <<masterVars, idVars, history, reply, queueVars>>

SlaveFails ==
    /\ "slave_error" \in Faults
    /\ spc = "armed"
    /\ SlaveReleases
    /\ UNCHANGED <<masterVars, idVars, history, reply, work_queue, held>>

Received == rx_pool[current_rx_buf]

BugAnyCommand(p) == p.type = 1
InSequence(p) == p.type = 1 /\ p.id = last_received_id + 1

\* A packet in sequence is queued if there is room; a full queue and any other
\* packet but a flush give the buffer back.
SlaveAccept ==
    /\ spc = "received"
    /\ InSequence(Received)
    /\ Len(work_queue) < QUEUE_CAPACITY
    /\ work_queue' = Append(work_queue, current_rx_buf)
    /\ last_received_id' = Received.id
    /\ accepted' = accepted \cup {Received.data}
    /\ current_rx_buf' = NoBuffer
    /\ spc' = "prepare"
    /\ UNCHANGED <<masterVars, reply, rx_pool, free_queue, held,
                   last_completed_id, acked, delivered, purged, flushLost>>

SlaveReject ==
    /\ spc = "received"
    /\ Received.type # 2
    /\ InSequence(Received) => Len(work_queue) >= QUEUE_CAPACITY
    /\ SlaveReleases
    /\ UNCHANGED <<masterVars, idVars, history, reply, work_queue, held>>

SlaveFlush ==
    /\ spc = "received"
    /\ Received.type = 2
    /\ spc' = "flush"
    /\ UNCHANGED <<masterVars, idVars, queueVars, history, reply,
                   current_rx_buf>>

\* flush_work_queue: one buffer per turn of its loop, while the consumer runs.
FlushOne ==
    /\ spc = "flush"
    /\ work_queue # << >>
    /\ work_queue' = Tail(work_queue)
    /\ Recycle(Head(work_queue))
    /\ UNCHANGED <<masterVars, idVars, history, spc, reply, current_rx_buf,
                   held>>

BugFlushesOnce ==
    /\ spc = "flush"
    /\ last_received_id' = 0
    /\ last_completed_id' = 0
    /\ SlaveReleases
    /\ UNCHANGED <<masterVars, history, reply, work_queue, held>>

BugFlushKeepsId ==
    /\ spc = "flush"
    /\ work_queue = << >>
    /\ last_completed_id' = 0
    /\ SlaveReleases
    /\ UNCHANGED <<masterVars, history, reply, work_queue, held,
                   last_received_id>>

FlushEnd ==
    /\ spc = "flush"
    /\ work_queue = << >>
    /\ last_received_id' = 0
    /\ last_completed_id' = 0
    /\ SlaveReleases
    /\ UNCHANGED <<masterVars, history, reply, work_queue, held>>

Slave == SlavePrepare \/ SlaveTake \/ SlaveAccept \/ SlaveReject
            \/ SlaveFlush \/ FlushOne \/ FlushEnd

-----------------------------------------------------------------------------
(* The consumer's two calls                                                 *)

spi_slave_receive_command ==
    /\ work_queue # << >>
    /\ Cardinality(held) < MaxHeld
    /\ held' = held \cup {Head(work_queue)}
    /\ work_queue' = Tail(work_queue)
    /\ delivered' = Append(delivered, rx_pool[Head(work_queue)].data)
    /\ UNCHANGED <<masterVars, idVars, spc, reply, rx_pool, current_rx_buf,
                   free_queue, accepted, acked, purged, flushLost>>

spi_slave_acknowledge_done(b) ==
    /\ b \in held
    /\ Len(free_queue) < BUFFER_POOL_SIZE
    /\ last_completed_id' = rx_pool[b].id
    /\ Recycle(b)
    /\ held' = held \ {b}
    /\ UNCHANGED <<masterVars, history, spc, reply, current_rx_buf, work_queue,
                   last_received_id>>

Acknowledge == \E b \in held : spi_slave_acknowledge_done(b)

Next ==
    \/ MasterLine \/ MasterFlush
    \/ Slave \/ SlaveFails
    \/ spi_slave_receive_command \/ Acknowledge

\* The three tasks run; a flush request or a fault is never owed.  The master
\* loops without waiting, so its transactions meet an armed slave again and
\* again: strong fairness of the exchange.
Fairness ==
    /\ WF_vars(MasterLine)
    /\ SF_vars(LineExchanged)
    /\ WF_vars(Slave)
    /\ WF_vars(spi_slave_receive_command)
    /\ WF_vars(Acknowledge)

Spec == Init /\ [][Next]_vars

FairSpec == Spec /\ Fairness

-----------------------------------------------------------------------------
(* Properties                                                               *)

TypeOK ==
    /\ tx_msg \in Packet
    /\ expected_ack \in Nat \ {0}
    /\ slave_free_slots \in Nat
    /\ fetch_new_line \in BOOLEAN
    /\ line \in Nat
    /\ spc \in SlavePc
    /\ reply \in Reply
    /\ rx_pool \in [Buffers -> Packet]
    /\ current_rx_buf \in Buffers \cup {NoBuffer}
    /\ work_queue \in Seq(Buffers)
    /\ free_queue \in Seq(Buffers)
    /\ last_received_id \in Nat
    /\ last_completed_id \in Nat
    /\ held \in SUBSET Buffers
    /\ accepted \in SUBSET Nat
    /\ acked \in SUBSET Nat
    /\ delivered \in Seq(Nat)
    /\ purged \in Nat
    /\ flushLost \in BOOLEAN

InQueue(b, q) == \E i \in 1 .. Len(q) : q[i] = b
NoRepeats(q) == \A i, j \in 1 .. Len(q) : q[i] = q[j] => i = j

\* Every buffer of rx_pool is in exactly one place: free, queued, with the
\* consumer, or in the SPI driver's hands.  The zero-timeout sends of
\* spi_s.c ignore their result, so a buffer that found its queue full would
\* be lost for good, and one returned twice would be overwritten by DMA while
\* the consumer reads it.
BufferOwnership ==
    /\ NoRepeats(free_queue)
    /\ NoRepeats(work_queue)
    /\ \A b \in Buffers :
          /\ InQueue(b, free_queue) \/ InQueue(b, work_queue)
                \/ b \in held \/ b = current_rx_buf
          /\ InQueue(b, free_queue) =>
                ~ InQueue(b, work_queue) /\ b \notin held /\ b # current_rx_buf
          /\ InQueue(b, work_queue) => b \notin held /\ b # current_rx_buf
          /\ b \in held => b # current_rx_buf

\* The two spare buffers of BUFFER_POOL_SIZE suffice for a consumer that holds
\* one command at a time: the receive task never waits for a buffer, so the
\* link answers even while the work queue is full.
AlwaysABuffer == (MaxHeld = 1 /\ spc = "take") => free_queue # << >>

\* The consumer sees every line at most once and in the order of the source,
\* across retransmissions, missed transactions, errors and flushes.
DeliveredInOrder ==
    \A i, j \in 1 .. Len(delivered) : i < j => delivered[i] < delivered[j]

\* The lines in work_queue.
queued == [i \in 1 .. Len(work_queue) |-> rx_pool[work_queue[i]].data]

\* A flush is complete when the slave prepares its next reply: no line sent
\* before the flush is still queued, although the consumer takes lines while
\* the queue is being emptied.
FlushDiscards ==
    spc \in {"prepare", "take", "armed"} =>
        \A i \in 1 .. Len(queued) : queued[i] > purged

\* A line the master takes for acknowledged did enter the slave's queue:
\* replies are prepared one transaction ahead, so an acknowledgement is always
\* about the past, and both sides number the lines from 1 again after a flush.
\* A flush that the slave never saw leaves them apart, and is excluded.
AckedLinesAccepted == ~ flushLost => acked \subseteq accepted

\* Lines reach the queue without gaps: the k-th line accepted is line k.
NoLineSkipped ==
    \A n \in accepted : \A m \in 1 .. n : m \in accepted

\* A line that was put on the wire as a command is accepted in the end, however
\* often the driver of either side fails first.  (A transaction that finds no
\* armed slave is excluded: it may turn the line into a poll for good.)
SentLinesArrive ==
    \A n \in 1 .. MaxLines :
        (tx_msg.type = 1 /\ tx_msg.data = n) ~> (n \in accepted)

\* The link implements the abstract channel: retransmissions, rejected packets
\* and polls are stuttering steps, and a flush discards line by line.
Channel ==
    INSTANCE CommandChannel WITH
        Capacity <- QUEUE_CAPACITY,
        source <- line,
        accepted <- accepted,
        queue <- queued,
        delivered <- delivered

ChannelSpec == Channel!Spec

(* Why lines cannot be accepted twice or out of order.  A line has one       *)
(* identifier, given when it was fetched; the packet on its way and the one  *)
(* the master would repeat are both about lines that are new to the slave    *)
(* whenever the slave would find them in sequence, and a flush, which makes  *)
(* old identifiers come back into sequence, also makes the master fetch a    *)
(* new line.                                                                 *)

Flushing == spc = "flush" \/ (spc = "received" /\ Received.type = 2)

NewToSlave(n) == \A a \in accepted : a < n

SourceBound ==
    /\ \A a \in accepted : 1 <= a /\ a <= line
    /\ purged <= line

MasterFresh ==
    tx_msg.type = 1 =>
        /\ tx_msg.data = line
        /\ purged < line
        /\ (tx_msg.id = last_received_id + 1 \/ Flushing) => NewToSlave(line)

ReceivedFresh ==
    (spc = "received" /\ Received.type = 1) =>
        /\ purged < Received.data /\ Received.data <= line
        /\ Received.id = last_received_id + 1 => NewToSlave(Received.data)
        /\ (tx_msg.type = 1 /\ line = Received.data) => tx_msg.id = Received.id

QueueFresh ==
    ~ Flushing => \A i \in 1 .. Len(queued) : queued[i] > purged

LineInv == SourceBound /\ MasterFresh /\ ReceivedFresh /\ QueueFresh

=============================================================================
