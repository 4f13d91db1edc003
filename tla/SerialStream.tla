---------------------------- MODULE SerialStream ----------------------------
(***************************************************************************)
(* Input side of a serial port: the hardware FIFO, the receive interrupt,   *)
(* the ring buffer it shares with the grbl task, and the calls the grbl     *)
(* task makes (uart_serial.c; the three ports run the same code, and        *)
(* usb_serial.c the same buffer protocol).  nvs.c diverts the real-time     *)
(* character handler while settings are written to flash.                   *)
(*                                                                          *)
(* The interrupt runs on the core of the grbl task: it preempts the task    *)
(* between any two accesses to the buffer and is not preempted by it.  The  *)
(* mutex macros of uart_serial.c are empty in the build.                    *)
(***************************************************************************)
EXTENDS Naturals, Sequences, FiniteSets

CONSTANTS
    RX_BUFFER_SIZE,      \* a power of two
    FifoLen,             \* depth of the hardware FIFO
    MaxChars             \* bound: characters that arrive

ASSUME SerialAssumption ==
    /\ RX_BUFFER_SIZE \in Nat /\ RX_BUFFER_SIZE > 1
    /\ FifoLen \in Nat \ {0}
    /\ MaxChars \in Nat

\* What the handlers tell apart.  "text" is for the line buffer; "control" is
\* a real-time command that both handlers take out (a control character, a top
\* bit set character or '?'); "hold" is one that only the standard handler
\* knows ('!' or '~'); "stop" is the control character CMD_STOP, for which the
\* standard handler calls cancel_read_buffer.
CharKinds == {"text", "control", "hold", "stop"}

Slots == 0 .. RX_BUFFER_SIZE - 1
\* Characters are numbered as they arrive.  The ASCII_CAN put into the buffer
\* by a cancel carries the number of the command that caused it.
NoChar == 0

VARIABLES
    fifo,                \* hardware: characters not yet read
    ovf_int,             \* hardware: UART_INTR_RXFIFO_OVF pending
    int_enabled,         \* hardware: receive interrupts enabled
    data, head, tail, overflow,              \* rxbuffer
    enqueue_realtime_command,                \* which handler is installed
    pc, bptr, ch,        \* grbl task: step, and locals of the call it is in
    \* history
    kind,                \* kinds of the characters so far
    consumed,            \* numbers returned by serialRead, in order
    discarded,           \* thrown away by a full buffer, a flush or a disable
    cancelled,           \* thrown away by a cancel
    unflagged,           \* lost to a full buffer or FIFO since the last flush
    inNvs,               \* read by the interrupt during nvsWrite
    raced                \* a cancel met a read, a flush or an insertion half way

ring == <<data, head, tail, overflow>>
hw == <<fifo, ovf_int, int_enabled>>
task == <<pc, bptr, ch>>
history == <<kind, consumed, discarded, cancelled, unflagged, inNvs, raced>>
vars == <<fifo, ovf_int, int_enabled, data, head, tail, overflow,
          enqueue_realtime_command, pc, bptr, ch, kind, consumed, discarded,
          cancelled, unflagged, inNvs, raced>>

\* Variants named Bug... are plausible mistakes in the definition that follows
\* them; no specification uses them.
BugNoMask(i) == i + 1
next(i) == (i + 1) % RX_BUFFER_SIZE

\* BUFCOUNT(head, tail, size).
BUFCOUNT(h, t) == IF h >= t THEN h - t ELSE h + RX_BUFFER_SIZE - t

\* The characters in the buffer, from a given tail.
Buffered(t) == {data[(t + i) % RX_BUFFER_SIZE] : i \in 0 .. BUFCOUNT(head, t) - 1}

Init ==
    /\ fifo = << >>
    /\ ovf_int = FALSE
    /\ int_enabled = TRUE
    /\ data = [i \in Slots |-> NoChar]
    /\ head = 0
    /\ tail = 0
    /\ overflow = FALSE
    /\ enqueue_realtime_command = "standard"
    /\ pc = "idle"
    /\ bptr = 0
    /\ ch = NoChar
    /\ kind = << >>
    /\ consumed = << >>
    /\ discarded = {}
    /\ cancelled = {}
    /\ unflagged = {}
    /\ inNvs = {}
    /\ raced = FALSE

-----------------------------------------------------------------------------
(* Hardware                                                                 *)

\* A character arrives; a full FIFO loses it and raises the overflow interrupt.
Arrive(k) ==
    /\ Len(kind) < MaxChars
    /\ kind' = Append(kind, k)
    /\ IF Len(fifo) < FifoLen
       THEN /\ fifo' = Append(fifo, Len(kind) + 1)
            /\ UNCHANGED <<ovf_int, discarded, unflagged>>
       ELSE /\ ovf_int' = TRUE
            /\ discarded' = discarded \cup {Len(kind) + 1}
            /\ unflagged' = unflagged \cup {Len(kind) + 1}
            /\ UNCHANGED fifo
    /\ UNCHANGED <<ring, task, int_enabled, enqueue_realtime_command, consumed,
                   cancelled, inNvs, raced>>

-----------------------------------------------------------------------------
(* The interrupt                                                            *)

\* What the installed handler takes out of the stream.
Taken(c) ==
    IF enqueue_realtime_command = "standard"
    THEN kind[c] # "text"
    ELSE kind[c] \in {"control", "stop"}

BugNoFullTest(c) ==
    /\ data' = [data EXCEPT ![head] = c]
    /\ head' = next(head)
    /\ UNCHANGED <<discarded, unflagged>>
    /\ overflow' = (overflow \/ ovf_int)

BugFullNotFlagged(c) ==
    IF next(head) = tail
    THEN /\ overflow' = (overflow \/ ovf_int)
         /\ discarded' = discarded \cup {c}
         /\ unflagged' = unflagged \cup {c}
         /\ UNCHANGED <<data, head>>
    ELSE /\ data' = [data EXCEPT ![head] = c]
         /\ head' = next(head)
         /\ overflow' = (overflow \/ ovf_int)
         /\ UNCHANGED <<discarded, unflagged>>

\* Adds a character to the buffer, or flags the overflow.
Insert(c) ==
    IF next(head) = tail
    THEN /\ overflow' = TRUE
         /\ discarded' = discarded \cup {c}
         /\ unflagged' = unflagged \cup {c}
         /\ UNCHANGED <<data, head>>
    ELSE /\ data' = [data EXCEPT ![head] = c]
         /\ head' = next(head)
         /\ overflow' = (overflow \/ ovf_int)
         /\ UNCHANGED <<discarded, unflagged>>

\* serialCancel, called by the standard handler from within the interrupt.
Cancelling == pc \in {"cancel", "cancel_head"}

CancelInIsr(c) ==
    /\ data' = [data EXCEPT ![head] = c]
    /\ tail' = head
    /\ head' = next(head)
    /\ cancelled' = cancelled \cup Buffered(tail)
    /\ overflow' = (overflow \/ ovf_int)
    /\ raced' = (raced \/ pc # "idle")
    /\ UNCHANGED <<discarded, unflagged>>

\* The interrupt service routine, for one character of the FIFO.  With several
\* characters waiting its loop is several of these steps in a row.
uart_isr ==
    /\ int_enabled
    /\ fifo # << >>
    /\ LET c == Head(fifo) IN
         /\ fifo' = Tail(fifo)
         /\ ovf_int' = FALSE
         /\ inNvs' = IF pc = "nvs" THEN inNvs \cup {c} ELSE inNvs
         /\ \/ /\ ~ Taken(c)
               /\ Insert(c)
               /\ raced' = (raced \/ Cancelling)
               /\ UNCHANGED <<tail, cancelled>>
            \/ /\ Taken(c)
               /\ kind[c] = "stop" /\ enqueue_realtime_command = "standard"
               /\ CancelInIsr(c)
            \/ /\ Taken(c)
               /\ kind[c] # "stop" \/ enqueue_realtime_command = "nvs"
               /\ overflow' = (overflow \/ ovf_int)
               /\ UNCHANGED <<data, head, tail, discarded, cancelled, unflagged,
                              raced>>
    /\ UNCHANGED <<task, int_enabled, enqueue_realtime_command, kind, consumed>>

\* A run of it that finds the FIFO empty: a flush came between an overflow and its interrupt.
OverflowIsr ==
    /\ int_enabled /\ ovf_int
    /\ fifo = << >>
    /\ ovf_int' = FALSE
    /\ overflow' = TRUE
    /\ UNCHANGED <<fifo, int_enabled, data, head, tail, task, history, enqueue_realtime_command>>

-----------------------------------------------------------------------------
(* Calls of the grbl task; pc is where the interrupt may strike.            *)

Goto(from, to) == pc = from /\ pc' = to

\* serialRead: the tail is read and compared with the head ...
ReadTail ==
    /\ Goto("idle", "read")
    /\ tail # head
    /\ bptr' = tail
    /\ UNCHANGED <<hw, ring, history, enqueue_realtime_command, ch>>

\* ... the character is fetched ...
ReadData ==
    /\ Goto("read", "advance")
    /\ ch' = data[bptr]
    /\ UNCHANGED <<hw, ring, history, enqueue_realtime_command, bptr>>

\* ... and the tail is set from the value read at the start.
BugRereads ==
    /\ Goto("advance", "idle")
    /\ tail' = bptr
    /\ consumed' = Append(consumed, ch)
    /\ ch' = NoChar
    /\ bptr' = 0
    /\ UNCHANGED <<hw, data, head, overflow, enqueue_realtime_command, kind,
                   discarded, cancelled, unflagged, inNvs, raced>>
ReadAdvance ==
    /\ Goto("advance", "idle")
    /\ tail' = next(bptr)
    /\ consumed' = Append(consumed, ch)
    /\ ch' = NoChar
    /\ bptr' = 0
    /\ UNCHANGED <<hw, data, head, overflow, enqueue_realtime_command, kind,
                   discarded, cancelled, unflagged, inNvs, raced>>

\* serialFlush: the FIFO is reset ...
FlushFifo ==
    /\ Goto("idle", "flush_head")
    /\ fifo' = << >>
    /\ discarded' = discarded \cup {fifo[i] : i \in 1 .. Len(fifo)}
    /\ UNCHANGED <<ring, ovf_int, int_enabled, bptr, ch, kind, consumed, cancelled,
                   unflagged, inNvs, raced, enqueue_realtime_command>>

\* ... then the head is read ...
FlushHead ==
    /\ Goto("flush_head", "flush")
    /\ bptr' = head
    /\ UNCHANGED <<hw, ring, history, enqueue_realtime_command, ch>>

\* ... and stored to the tail.
FlushBuffer ==
    /\ Goto("flush", "idle")
    /\ tail' = bptr
    /\ discarded' = discarded \cup (Buffered(tail) \ Buffered(bptr))
    /\ overflow' = FALSE
    /\ unflagged' = {}
    /\ bptr' = 0
    /\ UNCHANGED <<hw, data, head, ch, kind, consumed, cancelled, inNvs,
                   raced, enqueue_realtime_command>>

\* serialDisable(true) masks the interrupts; serialDisable(false) throws away
\* what came meanwhile and takes the interrupts back.  Masked, nothing can
\* interleave.
Disable ==
    /\ pc = "idle"
    /\ int_enabled' = FALSE
    /\ UNCHANGED <<fifo, ovf_int, ring, task, history, enqueue_realtime_command>>

Enable ==
    /\ pc = "idle"
    /\ int_enabled' = TRUE
    /\ fifo' = << >>
    /\ ovf_int' = FALSE
    /\ tail' = head
    /\ discarded' = discarded \cup Buffered(tail)
                       \cup {fifo[i] : i \in 1 .. Len(fifo)}
    /\ unflagged' = {}
    /\ UNCHANGED <<data, head, overflow, task, kind, consumed, cancelled, inNvs,
                   raced, enqueue_realtime_command>>

\* serialCancel called by the task itself, for a command such as M-code or
\* "$ABORT" that enqueues CMD_STOP: three stores.
CancelMark ==
    /\ Goto("idle", "cancel")
    /\ Len(kind) < MaxChars
    /\ kind' = Append(kind, "stop")
    /\ ch' = Len(kind) + 1
    /\ data' = [data EXCEPT ![head] = Len(kind) + 1]
    /\ UNCHANGED <<hw, head, tail, overflow, bptr, consumed, discarded,
                   cancelled, unflagged, inNvs, raced, enqueue_realtime_command>>

CancelTail ==
    /\ Goto("cancel", "cancel_head")
    /\ tail' = head
    /\ cancelled' = cancelled \cup Buffered(tail)
    /\ UNCHANGED <<hw, data, head, overflow, bptr, ch, kind, consumed,
                   discarded, unflagged, inNvs, raced, enqueue_realtime_command>>

CancelHead ==
    /\ Goto("cancel_head", "idle")
    /\ head' = next(tail)
    /\ ch' = NoChar
    /\ UNCHANGED <<hw, data, tail, overflow, bptr, history,
                   enqueue_realtime_command>>

\* nvsWrite: the handler is replaced around the flash erase and write, and put
\* back.
NvsWriteBegin ==
    /\ Goto("idle", "nvs")
    /\ enqueue_realtime_command' = "nvs"
    /\ UNCHANGED <<hw, ring, history, bptr, ch>>

BugHandlerKept ==
    /\ Goto("nvs", "idle")
    /\ UNCHANGED <<hw, ring, history, bptr, ch, enqueue_realtime_command>>
NvsWriteEnd ==
    /\ Goto("nvs", "idle")
    /\ enqueue_realtime_command' = "standard"
    /\ UNCHANGED <<hw, ring, history, bptr, ch>>

Read == ReadTail \/ ReadData \/ ReadAdvance

Task == Read \/ FlushFifo \/ FlushHead \/ FlushBuffer \/ Disable \/ Enable
          \/ CancelMark \/ CancelTail \/ CancelHead
          \/ NvsWriteBegin \/ NvsWriteEnd

Next == (\E k \in CharKinds : Arrive(k)) \/ uart_isr \/ OverflowIsr \/ Task

Spec == Init /\ [][Next]_vars

-----------------------------------------------------------------------------
(* Properties                                                               *)

TypeOK ==
    /\ fifo \in Seq(Nat) /\ ovf_int \in BOOLEAN /\ int_enabled \in BOOLEAN
    /\ data \in [Slots -> Nat] /\ head \in Slots /\ tail \in Slots
    /\ overflow \in BOOLEAN
    /\ enqueue_realtime_command \in {"standard", "nvs"}
    /\ pc \in {"idle", "read", "advance", "flush_head", "flush", "cancel", "cancel_head", "nvs"}
    /\ bptr \in Slots /\ ch \in Nat
    /\ kind \in Seq(CharKinds) /\ consumed \in Seq(Nat)
    /\ discarded \subseteq Nat /\ cancelled \subseteq Nat
    /\ unflagged \subseteq Nat /\ inNvs \subseteq Nat /\ raced \in BOOLEAN

\* The task reads characters in the order of their arrival, each once, although
\* interrupt and reader share head and tail without a lock.  (An ASCII_CAN is
\* put in by the cancel, before what still waits in the FIFO.)
ReadInOrder ==
    ~ raced => \A i, j \in 1 .. Len(consumed) :
        i < j /\ kind[consumed[i]] # "stop" => consumed[i] < consumed[j]

\* Every character taken from the FIFO for the line buffer, and every ASCII_CAN
\* of a cancel, is in the buffer, was read, is in the reader's hands, or was
\* thrown away by an operation that says so, as long as no cancel struck in the
\* middle of a call of the task or was interrupted itself.
Kept(n) ==
    \/ n \in Buffered(tail)
    \/ \E i \in 1 .. Len(consumed) : consumed[i] = n
    \/ pc = "read" /\ data[bptr] = n
    \/ pc = "advance" /\ ch = n
    \/ n \in discarded \cup cancelled
    \/ \E i \in 1 .. Len(fifo) : fifo[i] = n
    \/ pc \in {"cancel", "cancel_head"} /\ ch = n

NoSilentLoss ==
    ~ raced => \A n \in 1 .. Len(kind) :
        Kept(n) \/ kind[n] = "control" \/ (kind[n] = "hold" /\ n \notin inNvs)
          \/ (kind[n] = "stop" /\ n \in inNvs)

\* A character lost to a full buffer or a full FIFO is announced: the overflow
\* flag is set, or the interrupt that sets it is pending, until the next flush.
LossIsFlagged == unflagged # {} => overflow \/ ovf_int

\* A feed hold or cycle start gets into the line buffer only if it came while
\* settings were being written.
RealtimeNotBuffered ==
    \A n \in Buffered(tail) \cup {consumed[i] : i \in 1 .. Len(consumed)} :
        n # NoChar /\ kind[n] = "hold" => n \in inNvs

\* The ring without locks is an atomic bounded queue: what the interrupt inserts
\* between the steps of a read or a flush is as if it came before or after it.
line == [i \in 1 .. BUFCOUNT(head, tail) |-> data[(tail + i - 1) % RX_BUFFER_SIZE]]

Fifo ==
    INSTANCE BoundedFifo WITH
        Capacity <- RX_BUFFER_SIZE - 1,
        arrived <- Len(kind),
        queue <- line,
        taken <- consumed,
        broken <- raced

\* The ring buffer (uart_serial.c 491-549, 583-613) implements the atomic bounded queue.
FifoSpec == Fifo!Spec

\* A cancel empties the buffer: except for the character the reader had already
\* begun to take, nothing that was in it is read afterwards.
CancelFlushes ==
    \A i \in 1 .. Len(consumed) :
        consumed[i] \in cancelled =>
            \A j \in 1 .. i - 1 : consumed[j] \notin cancelled
=============================================================================
