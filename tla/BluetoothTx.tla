----------------------------- MODULE BluetoothTx -----------------------------
(***************************************************************************)
(* Output of the Bluetooth stream, bluetooth.c.  Writers make chunks of     *)
(* lines and queue them (btStreamPutC, enqueue_tx_chunk); the task pollTX,  *)
(* on another core, gathers chunks into a buffer and hands it to the        *)
(* Bluetooth stack; esp_spp_cb, called by the stack's own task, opens and   *)
(* closes the session, resumes pollTX, flushes the queue, and gives tx_busy *)
(* back when a write is done.                                               *)
(*                                                                          *)
(* The characters of a line are abstracted to the length of its chunk,      *)
(* which may be 0: opening a session clears txbuffer under the writer.      *)
(* BT_MUTEX_LOCK is empty in the code.  pollTX's branch for a chunk longer  *)
(* than its buffer is never taken: BT_TX_BUFFER_SIZE is 250, the buffer 256. *)
(***************************************************************************)
EXTENDS Naturals, Sequences, FiniteSets

CONSTANTS
    BT_TX_QUEUE_ENTRIES,
    BT_TX_BUFFER_SIZE,   \* longest chunk
    BufferSize,          \* size of the buffer of pollTX
    MaxChunks,           \* bound: chunks made
    MaxHandles           \* bound: connections accepted by the stack

ASSUME BluetoothAssumption ==
    /\ BT_TX_QUEUE_ENTRIES \in Nat \ {0}
    /\ BT_TX_BUFFER_SIZE \in Nat \ {0} /\ BufferSize \in Nat
    /\ BT_TX_BUFFER_SIZE < BufferSize
    /\ MaxChunks \in Nat
    /\ MaxHandles \in Nat

VARIABLES
    links,               \* external: handles of the open connections
    opened,              \* external: number of handles given so far
    air,                 \* external: handle whose write is not reported yet
    connection, dtr,     \* session
    is_second_attempt,
    congested,           \* event bit SPP_CONGESTED is cleared
    tx_busy,             \* count of the binary semaphore
    tx_queue,
    inHand,              \* the chunk each writer is about to queue
    cb,                  \* where esp_spp_cb is
    poll, chunk, buffer, remaining,          \* pollTX: step and locals
    \* history
    chunks,              \* length, writer and age of every chunk
    freed,
    sent,                \* chunks written, in order
    flushes,             \* number of sessions closed
    spared,              \* chunks a flush could not reach
    overlooked,          \* an opening found pollTX not suspended yet
    lostWrite            \* a connection closed and its write was not reported

session == <<connection, dtr, is_second_attempt>>
poller == <<poll, chunk, buffer, remaining>>
external == <<links, opened, air>>
history == <<chunks, freed, sent, flushes, spared, overlooked, lostWrite>>
vars == <<links, opened, air, connection, dtr, is_second_attempt, congested,
          tx_busy, tx_queue, inHand, cb, poll, chunk, buffer, remaining, chunks,
          freed, sent, flushes, spared, overlooked, lostWrite>>

Writers == {"grbl", "callback"}
Chunks == 1 .. Len(chunks)
NoChunk == 0
NoLink == 0
Handles == 1 .. MaxHandles

Init ==
    /\ links = {} /\ opened = 0 /\ air = NoLink
    /\ connection = NoLink /\ dtr = FALSE /\ is_second_attempt = FALSE
    /\ congested = FALSE
    /\ tx_busy = 1
    /\ tx_queue = << >>
    /\ inHand = [w \in Writers |-> NoChunk]
    /\ cb = "idle"
    /\ poll = "suspended" /\ chunk = NoChunk
    /\ buffer = << >> /\ remaining = BufferSize
    /\ chunks = << >> /\ freed = {} /\ sent = << >>
    /\ flushes = 0 /\ spared = {}
    /\ overlooked = FALSE /\ lostWrite = FALSE

-----------------------------------------------------------------------------
(* Writers: enqueue_tx_chunk                                                *)

\* Memory is found for the chunk and it is filled.  (Without memory the line is
\* dropped and nothing changes.)
MakeChunk(w, len) ==
    /\ inHand[w] = NoChunk
    /\ Len(chunks) < MaxChunks
    /\ chunks' = Append(chunks, [length |-> len, by |-> w, age |-> flushes])
    /\ inHand' = [inHand EXCEPT ![w] = Len(chunks) + 1]
    /\ UNCHANGED <<external, session, congested, tx_busy, tx_queue, poller,
                   freed, sent, flushes, spared, overlooked, lostWrite>>

\* Variants named Bug... are plausible mistakes in the definition that follows
\* them; no specification uses them.
BugAlwaysRoom == TRUE
QueueHasRoom == Len(tx_queue) < BT_TX_QUEUE_ENTRIES

\* A full queue blocks the writer for as long as it takes.
BugSendToFront(w) ==
    /\ inHand[w] # NoChunk
    /\ QueueHasRoom
    /\ tx_queue' = <<inHand[w]>> \o tx_queue
    /\ inHand' = [inHand EXCEPT ![w] = NoChunk]
    /\ UNCHANGED <<external, session, congested, tx_busy, poller, history>>
QueueChunk(w) ==
    /\ inHand[w] # NoChunk
    /\ QueueHasRoom
    /\ tx_queue' = Append(tx_queue, inHand[w])
    /\ inHand' = [inHand EXCEPT ![w] = NoChunk]
    /\ UNCHANGED <<external, session, congested, tx_busy, poller, history>>

\* The grbl task writes a line, or 250 characters of one.
WriterMakes ==
    /\ \E len \in 0 .. BT_TX_BUFFER_SIZE : MakeChunk("grbl", len)
    /\ UNCHANGED cb

WriterQueues == QueueChunk("grbl") /\ UNCHANGED cb

-----------------------------------------------------------------------------
(* esp_spp_cb: one event at a time                                          *)

Callback(from, to) == cb = from /\ cb' = to

\* A connection is opened: the first one starts a session ...
OpenSession ==
    /\ Callback("idle", "resume")
    /\ opened < MaxHandles
    /\ ~ dtr
    /\ opened' = opened + 1
    /\ links' = links \cup {opened'}
    /\ dtr' = TRUE
    /\ connection' = opened'
    /\ UNCHANGED <<air, is_second_attempt, congested, tx_busy, tx_queue, inHand,
                   poller, history>>

\* ... another one is asked to go.
SecondAttempt ==
    /\ Callback("idle", "idle")
    /\ opened < MaxHandles
    /\ dtr
    /\ opened' = opened + 1
    /\ links' = links \cup {opened'}
    /\ is_second_attempt' = TRUE
    /\ UNCHANGED <<air, connection, dtr, congested, tx_busy, tx_queue, inHand,
                   poller, history>>

\* pollTX is resumed if it is suspended at this moment.
BugNeverResumes ==
    /\ Callback("resume", "greet")
    /\ UNCHANGED <<external, session, congested, tx_busy, tx_queue, inHand,
                   poller, history>>
ResumePoller ==
    /\ Callback("resume", "greet")
    /\ poll' = IF poll = "suspended" THEN "check" ELSE poll
    /\ overlooked' = (poll = "suspending")
    /\ UNCHANGED <<external, session, congested, tx_busy, tx_queue, inHand,
                   chunk, buffer, remaining, chunks, freed, sent, flushes,
                   spared, lostWrite>>

\* The greeting goes through the queue like any line.
Greet ==
    \/ /\ Callback("greet", "send")
       /\ MakeChunk("callback", 1)
    \/ /\ Callback("greet", "idle")
       /\ UNCHANGED <<external, session, congested, tx_busy, tx_queue, inHand,
                      poller, history>>

GreetQueued == Callback("send", "idle") /\ QueueChunk("callback")

\* A connection is gone, and possibly the report of its write with it.
LinkCloses ==
    \E h \in links :
        /\ links' = links \ {h}
        /\ \/ UNCHANGED <<air, lostWrite>>
           \/ air = h /\ air' = NoLink /\ lostWrite' = TRUE
        /\ UNCHANGED opened

\* After a second attempt the next closing is not the session's ...
BugFlagStays ==
    /\ Callback("idle", "idle")
    /\ is_second_attempt
    /\ LinkCloses
    /\ UNCHANGED <<session, congested, tx_busy, tx_queue, inHand, poller, chunks,
                   freed, sent, flushes, spared, overlooked>>
CloseIgnored ==
    /\ Callback("idle", "idle")
    /\ is_second_attempt
    /\ LinkCloses
    /\ is_second_attempt' = FALSE
    /\ UNCHANGED <<connection, dtr, congested, tx_busy, tx_queue, inHand, poller,
                   chunks, freed, sent, flushes, spared, overlooked>>

\* ... any other ends it.
CloseSession ==
    /\ Callback("idle", "flush")
    /\ ~ is_second_attempt
    /\ LinkCloses
    /\ connection' = NoLink
    /\ dtr' = FALSE
    /\ UNCHANGED <<is_second_attempt, congested, tx_busy, tx_queue, inHand,
                   poller, chunks, freed, sent, flushes, spared, overlooked>>

\* flush_tx_queue, one chunk per turn of its loop.
FlushOne ==
    /\ Callback("flush", "flush")
    /\ tx_queue # << >>
    /\ tx_queue' = Tail(tx_queue)
    /\ freed' = freed \cup {Head(tx_queue)}
    /\ UNCHANGED <<external, session, congested, tx_busy, inHand, poller, chunks,
                   sent, flushes, spared, overlooked, lostWrite>>

\* The chunks that are in a task's hands, not in the queue.
InHands == ({inHand[w] : w \in Writers} \cup {chunk}
              \cup {buffer[i] : i \in 1 .. Len(buffer)}) \ {NoChunk}

BugFlushStops ==
    /\ Callback("flush", "idle")
    /\ flushes' = flushes + 1
    /\ spared' = spared \cup InHands
    /\ UNCHANGED <<external, session, congested, tx_busy, tx_queue, inHand,
                   poller, chunks, freed, sent, overlooked, lostWrite>>
FlushEnd ==
    /\ Callback("flush", "idle")
    /\ tx_queue = << >>
    /\ flushes' = flushes + 1
    /\ spared' = spared \cup InHands
    /\ UNCHANGED <<external, session, congested, tx_busy, tx_queue, inHand,
                   poller, chunks, freed, sent, overlooked, lostWrite>>

Congestion ==
    /\ Callback("idle", "idle")
    /\ congested' = ~ congested
    /\ UNCHANGED <<external, session, tx_busy, tx_queue, inHand, poller, history>>

\* A write is done, and may leave the connection congested.
WriteDone ==
    /\ Callback("idle", "idle")
    /\ air # NoLink
    /\ air' = NoLink
    /\ tx_busy' = 1
    /\ congested' \in {congested, TRUE}
    /\ UNCHANGED <<links, opened, session, tx_queue, inHand, poller, history>>

-----------------------------------------------------------------------------
(* pollTX                                                                   *)

Polls(from, to) == poll = from /\ poll' = to

locals == <<chunk, buffer, remaining>>
notPoller == <<links, opened, session, congested, inHand, cb, chunks, flushes,
               spared, overlooked, lostWrite>>

PollCheck ==
    /\ Polls("check",
             IF connection # NoLink /\ ~ congested /\ tx_queue # << >>
             THEN "take" ELSE "wait")
    /\ UNCHANGED <<notPoller, air, tx_busy, tx_queue, locals, freed, sent>>

PollTake ==
    /\ Polls("take", IF tx_busy = 1 THEN "receive" ELSE "wait")
    /\ tx_busy' = 0
    /\ UNCHANGED <<notPoller, air, tx_queue, locals, freed, sent>>

\* xQueueReceive into chunk; an empty queue leaves none.
ReceiveChunk ==
    IF tx_queue = << >>
    THEN chunk' = NoChunk /\ UNCHANGED tx_queue
    ELSE chunk' = Head(tx_queue) /\ tx_queue' = Tail(tx_queue)

BugDropsLeftover ==
    /\ Polls("receive", IF tx_queue # << >> THEN "gather" ELSE "wait")
    /\ ReceiveChunk
    /\ tx_busy' = IF tx_queue # << >> THEN tx_busy ELSE 1
    /\ UNCHANGED <<notPoller, air, buffer, remaining, freed, sent>>

\* A chunk left over from the last turn comes first.
PollReceive ==
    /\ Polls("receive",
             IF chunk # NoChunk \/ tx_queue # << >> THEN "gather" ELSE "wait")
    /\ IF chunk # NoChunk THEN UNCHANGED <<tx_queue, chunk>> ELSE ReceiveChunk
    /\ tx_busy' = IF chunk # NoChunk \/ tx_queue # << >> THEN tx_busy ELSE 1
    /\ UNCHANGED <<notPoller, air, buffer, remaining, freed, sent>>

Fits == chunk # NoChunk /\ chunks[chunk].length < remaining

PollGather ==
    /\ Polls("gather", "gather")
    /\ Fits
    /\ buffer' = Append(buffer, chunk)
    /\ remaining' = remaining - chunks[chunk].length
    /\ freed' = freed \cup {chunk}
    /\ ReceiveChunk
    /\ UNCHANGED <<notPoller, air, tx_busy, sent>>

PollFull ==
    /\ Polls("gather", "write")
    /\ ~ Fits
    /\ UNCHANGED <<notPoller, air, tx_busy, tx_queue, locals, freed, sent>>

\* esp_spp_write takes the buffer ...
BugGivesBack ==
    /\ Polls("write", "wait")
    /\ remaining # BufferSize
    /\ connection \in links
    /\ air' = connection
    /\ tx_busy' = 1
    /\ sent' = sent \o buffer
    /\ buffer' = << >> /\ remaining' = BufferSize
    /\ UNCHANGED <<notPoller, tx_queue, chunk, freed>>
PollWrite ==
    /\ Polls("write", "wait")
    /\ remaining # BufferSize
    /\ connection \in links
    /\ air' = connection
    /\ sent' = sent \o buffer
    /\ buffer' = << >> /\ remaining' = BufferSize
    /\ UNCHANGED <<notPoller, tx_busy, tx_queue, chunk, freed>>

\* ... or refuses it and the lines are lost; or there was nothing to write.
PollWritesNothing ==
    /\ Polls("write", "wait")
    /\ tx_busy' = 1
    /\ buffer' = << >> /\ remaining' = BufferSize
    /\ UNCHANGED <<notPoller, air, tx_queue, chunk, freed, sent>>

\* Connected, it sleeps for 5 ms; otherwise it is about to suspend itself ...
PollWait ==
    /\ Polls("wait", IF connection # NoLink THEN "check" ELSE "suspending")
    /\ UNCHANGED <<notPoller, air, tx_busy, tx_queue, locals, freed, sent>>

\* ... and does.
PollSuspend ==
    /\ Polls("suspending", "suspended")
    /\ UNCHANGED <<notPoller, air, tx_busy, tx_queue, locals, freed, sent>>

-----------------------------------------------------------------------------
pollTX == PollCheck \/ PollTake \/ PollReceive \/ PollGather \/ PollFull
            \/ PollWrite \/ PollWritesNothing \/ PollWait \/ PollSuspend

\* What esp_spp_cb still has to do for the event it is handling.
CallbackGoesOn == ResumePoller \/ Greet \/ GreetQueued \/ FlushOne \/ FlushEnd

Event == OpenSession \/ SecondAttempt \/ CloseIgnored \/ CloseSession
           \/ Congestion

Next == WriterMakes \/ WriterQueues \/ pollTX \/ CallbackGoesOn \/ Event
          \/ WriteDone

\* The tasks run and the stack reports its writes, unless their connection is
\* closed first.
Fairness == WF_vars(pollTX) /\ WF_vars(CallbackGoesOn) /\ WF_vars(WriteDone)

Spec == Init /\ [][Next]_vars /\ Fairness

-----------------------------------------------------------------------------
(* Properties                                                               *)

TypeOK ==
    /\ links \subseteq Handles /\ opened \in 0 .. MaxHandles
    /\ air \in Handles \cup {NoLink} /\ connection \in Handles \cup {NoLink}
    /\ dtr \in BOOLEAN /\ is_second_attempt \in BOOLEAN /\ congested \in BOOLEAN
    /\ tx_busy \in {0, 1}
    /\ tx_queue \in Seq(Chunks) /\ Len(tx_queue) <= BT_TX_QUEUE_ENTRIES
    /\ inHand \in [Writers -> Chunks \cup {NoChunk}]
    /\ cb \in {"idle", "resume", "greet", "send", "flush"}
    /\ poll \in {"check", "take", "receive", "gather", "write", "wait",
                 "suspending", "suspended"}
    /\ chunk \in Chunks \cup {NoChunk} /\ buffer \in Seq(Chunks)
    /\ remaining \in 1 .. BufferSize
    /\ chunks \in Seq([length : 0 .. BT_TX_BUFFER_SIZE, by : Writers, age : Nat])
    /\ freed \subseteq Chunks /\ sent \in Seq(Chunks)
    /\ flushes \in Nat /\ spared \subseteq Chunks
    /\ overlooked \in BOOLEAN /\ lostWrite \in BOOLEAN

\* A chunk's memory has one owner until it is freed, once: a writer, the queue
\* or pollTX.  The queue is emptied by pollTX and by the callback, on two
\* cores, while writers wait for room in it.
Owners(n) ==
    Cardinality({w \in Writers : inHand[w] = n})
      + Cardinality({i \in 1 .. Len(tx_queue) : tx_queue[i] = n})
      + (IF chunk = n THEN 1 ELSE 0)

ChunkOwnership ==
    \A n \in Chunks : Owners(n) = IF n \in freed THEN 0 ELSE 1

\* tx_busy is taken for as long as pollTX fills its buffer or a write is not
\* reported: the stack never holds two, also when the report of a closed
\* connection comes in the next session.
OneWriteAtATime ==
    /\ air # NoLink => tx_busy = 0
    /\ poll \in {"receive", "gather", "write"} => tx_busy = 0 /\ air = NoLink

\* The lines of a writer leave in the order they were written, each at most once, across leftovers, failed writes, flushes and sessions.
SentInOrder ==
    \A i, j \in 1 .. Len(sent) : i < j =>
        \/ sent[i] < sent[j]
        \/ chunks[sent[i]].by # chunks[sent[j]].by

\* What pollTX has gathered, the chunk it holds over and the queue are one line:
\* taking a chunk out of the queue and gathering it do not move it in the line,
\* a write takes the front of the line, and a flush throws chunks out of it.
line == buffer \o (IF chunk = NoChunk THEN << >> ELSE <<chunk>>) \o tx_queue

Chunked ==
    INSTANCE ChunkLine WITH
        made <- Len(chunks),
        hands <- inHand

\* Writers, pollTX and esp_spp_cb (bluetooth.c 171-204, 331-346, 494-526) implement the line of chunks.
LineSpec == Chunked!Spec

\* A flush leaves no chunk behind but the ones in a task's hands.
OnlySparedSurvive ==
    \A i \in 1 .. Len(tx_queue) :
        chunks[tx_queue[i]].age < flushes => tx_queue[i] \in spared

\* When the last connection is gone so is the session, although a single flag
\* tells which closings to ignore.
SessionEnds == links = {} => ~ dtr /\ connection = NoLink

\* A session that stays open without congestion sends what is queued: every
\* writer that waits for room gets it.  Left out are the two ways in which
\* the code can lose this: an opening that looks at pollTX just before it
\* suspends itself, and a closed connection that keeps tx_busy for ever.
Serving == /\ connection \in links /\ ~ congested /\ cb = "idle"
           /\ ~ overlooked /\ ~ lostWrite
QueueDrains == <>[]Serving => []<>(tx_queue = << >>)
=============================================================================
