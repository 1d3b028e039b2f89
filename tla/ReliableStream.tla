---------------------------- MODULE ReliableStream ----------------------------
(***************************************************************************)
(* What an established TcpSocketBase promises its application: the         *)
(* segments written are delivered to the peer in order and once, Send,     *)
(* ReceivedAck and NotifyErrorClose being all it sees of it.  An           *)
(* acknowledgement comes only for what was delivered, and none comes after *)
(* the connection has failed.                                              *)
(***************************************************************************)
EXTENDS Naturals

CONSTANT N          \* bound: segments the application writes

VARIABLES
    written,    \* segments given to Send
    delivered,  \* segments the peer can read
    acked,      \* segments dropped from the sender's buffer
    failed      \* the connection was given up

vars == <<written, delivered, acked, failed>>

Init == written = 0 /\ delivered = 0 /\ acked = 0 /\ failed = FALSE

Write ==
    /\ written < N
    /\ written' = written + 1
    /\ UNCHANGED <<delivered, acked, failed>>

Deliver ==
    /\ delivered' \in delivered + 1 .. written
    /\ UNCHANGED <<written, acked, failed>>

Acknowledge ==
    /\ ~failed
    /\ acked' \in acked + 1 .. delivered
    /\ UNCHANGED <<written, delivered, failed>>

Fail ==
    /\ ~failed /\ acked < written
    /\ failed' = TRUE
    /\ UNCHANGED <<written, delivered, acked>>

Next == Write \/ Deliver \/ Acknowledge \/ Fail

Spec == Init /\ [][Next]_vars

\* Until it fails, the connection goes on delivering and acknowledging.
FairSpec == Spec /\ WF_vars(~failed /\ Deliver) /\ WF_vars(Acknowledge)
=============================================================================
