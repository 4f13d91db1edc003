------------------------------ MODULE ChunkLine ------------------------------
(***************************************************************************)
(* What the output of the Bluetooth stream promises its writers             *)
(* (bluetooth.c), without the buffer of pollTX, the chunk that did not fit  *)
(* into it, tx_busy and the session: one line of chunks, which are sent     *)
(* from its front, several at a time, or thrown away, but never overtake    *)
(* each other and are never sent twice.                                     *)
(***************************************************************************)
EXTENDS Naturals, Sequences

CONSTANT Writers

VARIABLES
    made,                \* number of chunks made
    hands,               \* the chunk each writer is about to queue, or 0
    line,                \* chunks on their way
    sent                 \* chunks handed to the Bluetooth stack, in order

lineVars == <<made, hands, line, sent>>

Init ==
    /\ made = 0
    /\ hands = [w \in Writers |-> 0]
    /\ line = << >>
    /\ sent = << >>

Make(w) ==
    /\ hands[w] = 0
    /\ made' = made + 1
    /\ hands' = [hands EXCEPT ![w] = made + 1]
    /\ UNCHANGED <<line, sent>>

Join(w) ==
    /\ hands[w] # 0
    /\ line' = Append(line, hands[w])
    /\ hands' = [hands EXCEPT ![w] = 0]
    /\ UNCHANGED <<made, sent>>

Front(k) == [i \in 1 .. k |-> line[i]]
Behind(k) == [i \in 1 .. Len(line) - k |-> line[i + k]]

\* The first k chunks leave together: they are sent, or all of them are lost.
Leave(k) ==
    /\ line' = Behind(k)
    /\ sent' \in {sent, sent \o Front(k)}
    /\ UNCHANGED <<made, hands>>

\* One chunk is thrown away, as one of the many that the end of a session finds.
Discard(k) ==
    /\ line' = [i \in 1 .. Len(line) - 1 |-> IF i < k THEN line[i] ELSE line[i + 1]]
    /\ UNCHANGED <<made, hands, sent>>

Next ==
    \/ \E w \in Writers : Make(w) \/ Join(w)
    \/ \E k \in 1 .. Len(line) : Leave(k) \/ Discard(k)

Spec == Init /\ [][Next]_lineVars
=============================================================================
