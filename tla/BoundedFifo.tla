----------------------------- MODULE BoundedFifo -----------------------------
(***************************************************************************)
(* What the receive buffer of a serial port promises the grbl task          *)
(* (stream_rx_buffer_t, uart_serial.c), without head, tail and slots: a     *)
(* bounded queue that the interrupt and the calls of the task use one       *)
(* atomic operation at a time, although nothing locks it.                   *)
(*                                                                          *)
(* The promise ends when a cancel strikes in the middle of a call.          *)
(***************************************************************************)
EXTENDS Naturals, Sequences

CONSTANT Capacity

VARIABLES
    arrived,             \* number of characters so far
    queue,               \* characters to be read
    taken,               \* characters that were read, in order
    overflow,            \* the flag that a full buffer sets
    broken               \* a cancel struck in the middle of a call

fifoVars == <<arrived, queue, taken, overflow, broken>>

Init ==
    /\ arrived = 0
    /\ queue = << >>
    /\ taken = << >>
    /\ overflow = FALSE
    /\ broken = FALSE

Arrive == arrived' = arrived + 1 /\ UNCHANGED <<queue, taken, overflow>>

\* The flag is also set when the hardware lost a character.
Flag == overflow' = TRUE /\ UNCHANGED <<arrived, queue, taken>>

Put ==
    /\ Len(queue) < Capacity
    /\ \E c \in 1 .. arrived : queue' = Append(queue, c)
    /\ overflow' \in {overflow, TRUE}
    /\ UNCHANGED <<arrived, taken>>

\* Only a full queue refuses a character, and says so.
Refuse ==
    /\ Len(queue) = Capacity
    /\ overflow' = TRUE
    /\ UNCHANGED <<arrived, queue, taken>>

Take ==
    /\ queue # << >>
    /\ taken' = Append(taken, queue[1])
    /\ queue' = [i \in 1 .. Len(queue) - 1 |-> queue[i + 1]]
    /\ UNCHANGED <<arrived, overflow>>

\* A flush throws away the oldest characters, and what came since stays.
Drop ==
    /\ \E k \in 0 .. Len(queue) :
          queue' = [i \in 1 .. Len(queue) - k |-> queue[i + k]]
    /\ overflow' \in {overflow, FALSE}
    /\ UNCHANGED <<arrived, taken>>

\* A cancel leaves its own character only.
Cancel ==
    /\ \E c \in 1 .. arrived : queue' = <<c>>
    /\ overflow' \in {overflow, TRUE}
    /\ UNCHANGED <<arrived, taken>>

Operation == Arrive \/ Flag \/ Put \/ Refuse \/ Take \/ Drop \/ Cancel

Next == broken' \/ (UNCHANGED broken /\ Operation)

Spec == Init /\ [][Next]_fifoVars
=============================================================================
