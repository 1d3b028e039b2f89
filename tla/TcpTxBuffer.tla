----------------------------- MODULE TcpTxBuffer -----------------------------
(***************************************************************************)
(* The transmission buffer a TcpSocketBase keeps its unacknowledged data   *)
(* in, without SACK.  TcpTxBuffer is a class of the simulator, not of this *)
(* repository: its operations are described as tcp-socket-base.cc uses     *)
(* them and as its assertions fix their effect.                            *)
(*                                                                         *)
(* Data is counted in segments.  A buffer is a record: head is the first   *)
(* segment not acknowledged, next the first never sent, tail the first the *)
(* application has not written; sacked, lost and retrans are the flags of  *)
(* the sent list.                                                          *)
(***************************************************************************)
EXTENDS Integers, FiniteSets

EmptyTxBuffer == [head |-> 1, next |-> 1, tail |-> 1,
                  sacked |-> {}, lost |-> {}, retrans |-> {}]

Outstanding(b) == b.head .. b.next - 1
BufferSize(b) == b.tail - b.head

\* Sent, minus what is thought received or lost, plus what was sent again.
BytesInFlight(b) ==
    Cardinality(Outstanding(b)) - Cardinality(b.sacked)
        - Cardinality(b.lost) + Cardinality(b.retrans)

\* The k lowest members of a set of segments, and all of them in order.
Rank(S, x) == Cardinality({y \in S : y <= x})
Lowest(S, k) == {x \in S : Rank(S, x) <= k}
Ascending(S) == [k \in 1 .. Cardinality(S) |-> CHOOSE x \in S : Rank(S, x) = k]

\* Segments thought lost and not sent again: the first rule of NextSeg.
Missing(b) == b.lost \ (b.retrans \cup b.sacked)

\* IsLost: the first flag from segment seq on, below the highest one thought
\* received, says lost.
IsLost(b, seq) ==
    \E x \in b.lost :
        /\ x >= seq /\ (seq .. x) \cap b.sacked = {}
        /\ \E y \in b.sacked : y > x

\* Send the segments R again, then the first n segments never sent.
MarkSent(b, R, n) == [b EXCEPT !.retrans = @ \cup R, !.next = @ + n]

\* A duplicate ACK stands for one segment received: the first one after the
\* head that is not marked already.
AddRenoSack(b) ==
    [b EXCEPT !.sacked = @ \cup Lowest((b.head + 1 .. b.next - 1) \ @, 1)]

ResetRenoSack(b) == [b EXCEPT !.sacked = {}]

MarkHeadAsLost(b) ==
    IF Outstanding(b) = {} THEN b
    ELSE [b EXCEPT !.sacked = @ \ {b.head}, !.retrans = @ \ {b.head},
                   !.lost = @ \cup {b.head}]

\* SetSentListLost, forgetting the (guessed) received segments.
SetSentListLost(b) ==
    [b EXCEPT !.sacked = {}, !.retrans = {}, !.lost = Outstanding(b)]

\* Drop what is acknowledged.  A head that was guessed to be received was not:
\* the guess moves on to another segment and the head is lost.
DiscardUpTo(b, ack) ==
    LET kept == ack .. b.next - 1
        c == [b EXCEPT !.head = ack, !.sacked = @ \cap kept,
                       !.lost = @ \cap kept, !.retrans = @ \cap kept]
    IN  IF ack \in c.sacked
        THEN MarkHeadAsLost(AddRenoSack([c EXCEPT !.sacked = @ \ {ack}]))
        ELSE c
=============================================================================
