------------------------------ MODULE TcpSender ------------------------------
(***************************************************************************)
(* The sending half of an established TcpSocketBase without SACK, as the   *)
(* simulations run it, over a path that loses packets, and the receiving   *)
(* half it talks to: duplicate ACKs and fast retransmit, NewReno recovery  *)
(* with partial ACKs, the retransmission timer, the RTT history, the       *)
(* delayed ACK and, where it is negotiated, explicit congestion            *)
(* notification: marks of the path, their echo and the window reduction    *)
(* of CA_CWR.                                                              *)
(*                                                                         *)
(* Data is counted in segments and windows in segments; the window values  *)
(* of the congestion control, a class of the simulator, are chosen freely  *)
(* within what the socket relies on.  The advertised window is never the   *)
(* limit here.  How long the retransmission timer runs is the concern of   *)
(* PeakHopperRto; here it expires when it is Due.                          *)
(***************************************************************************)
EXTENDS TcpTxBuffer, Sequences, SequencesExt

CONSTANTS
    N,              \* bound: segments the application writes
    MaxWindow,      \* bound: largest congestion window
    InitialCwnd,    \* m_initialCwnd
    RetxThresh,     \* m_retxThresh, three duplicate ACKs
    LimitedTx,      \* m_limitedTx
    DataRetries,    \* m_dataRetries
    DelAckMax,      \* m_delAckMaxCount of the receiver
    MaxLoss,        \* bound: packets the path loses
    UseEcn,         \* ECN was negotiated: m_ecnState is not ECN_DISABLED
    MaxMarks,       \* bound: packets the path marks
    Displace,       \* a packet overtakes at most this many others
    Patience        \* what a running retransmission timer waits for, see Due

ASSUME BoundsAssumption ==
    /\ N \in Nat \ {0} /\ MaxWindow \in Nat /\ MaxWindow >= 2
    /\ InitialCwnd \in 1 .. MaxWindow
    /\ MaxLoss \in Nat /\ MaxMarks \in Nat /\ Displace \in Nat
ASSUME SocketAssumption ==
    /\ RetxThresh \in Nat \ {0} /\ DataRetries \in Nat
    /\ DelAckMax \in Nat \ {0}
    /\ {LimitedTx, UseEcn} \subseteq BOOLEAN /\ Patience \in {"none", "path", "peer"}

VARIABLES
    buf,            \* m_txBuffer, with m_highTxMark as its field next
    congState,      \* m_tcb->m_congState
    dupAckCount,    \* m_dupAckCount
    recover,        \* m_recover
    recoverActive,  \* m_recoverActive
    firstPartial,   \* m_isFirstPartialAck
    cwnd, ssThresh, \* m_tcb->m_cWnd, m_tcb->m_ssThresh
    retxRunning,    \* m_retxEvent is pending
    sendEvent,      \* m_sendPendingDataEvent is pending
    dataRetrCount,  \* m_dataRetrCount
    dropped,        \* the endpoint is deallocated: no more retries
    history,        \* m_history
    ecn,            \* m_tcb->m_ecnState, m_ecnEchoSeq, m_ecnCWRSeq
    copies,         \* (ghost) how often each segment was sent
    data, acks,     \* packets under way, oldest first, see Packet and AckNow
    losses, marks,  \* packets lost and packets marked so far
    rcvNext,        \* receiver: m_rxBuffer->NextRxSequence ()
    rcvBuf,         \* receiver: segments above a gap
    delAckCount,    \* receiver: m_delAckCount
    rcvEcn          \* receiver: m_tcb->m_ecnState and m_ecnCESeq

congestion == <<congState, dupAckCount, recover, recoverActive, firstPartial>>
window == <<cwnd, ssThresh>>
receiver == <<rcvNext, rcvBuf, delAckCount, rcvEcn>>
path == <<losses, marks>>
sender == <<buf, congestion, window, retxRunning, sendEvent, dataRetrCount,
            dropped, history, ecn, copies>>
vars == <<sender, data, acks, path, receiver>>

----------------------------------------------------------------------------
(* RTT history *)

\* UpdateRttHistory for new segments, and for those sent again.
LogSent(h, new) == h \o [k \in DOMAIN new |-> [seq |-> new[k], retx |-> FALSE]]
MarkRetxNever(h, R) == h  \* deviation for a mutation run
MarkRetx(h, R) ==
    [i \in DOMAIN h |-> IF h[i].seq \in R THEN [h[i] EXCEPT !.retx = TRUE] ELSE h[i]]

\* The head of EstimateRtt: entries the ACK covers are removed.
ForgetAcked(h, ack) ==
    SubSeq(h, 1 + Cardinality({i \in DOMAIN h : h[i].seq < ack}), Len(h))

----------------------------------------------------------------------------
(* Transmission *)

\* SendPendingData: while the window allows, NextSeg gives first the segments
\* thought lost, then new data.  Both the retransmissions and the number of
\* new segments follow from the room there is.
Room(b, w) == IF BytesInFlight(b) > w THEN 0 ELSE w - BytesInFlight(b)
ToResendNothing(b, w) == {}  \* deviation for a mutation run: new data only
ToResend(b, w) == Lowest(Missing(b), Room(b, w))
ToSend(b, w) ==
    LET left == Room(b, w) - Cardinality(ToResend(b, w))
        unsent == b.tail - b.next
    IN  IF left < unsent THEN left ELSE unsent

\* A data packet as it leaves the sender: ce is the mark of the path, cwr the
\* flag that says the window was reduced.
Packet(seg, cwr) == [seg |-> seg, ce |-> FALSE, cwr |-> cwr]

\* Whether the next new segment carries the flag, as the echo e was not answered.
AnswersEcho(e) == e.state = "ECE_RCVD" /\ e.echoSeq > e.cwrSeq
EchoAnswered(e, seg) == [e EXCEPT !.state = "CWR_SENT", !.cwrSeq = seg]

\* What SendDataPacket changes when the segments R are sent again and n new
\* ones follow, from the buffer b, the history h and the state e of ECN.
Transmit(b, h, e, R, n) ==
    LET new == [k \in 1 .. n |-> b.next + k - 1]
        again == Ascending(R)
        answers == n > 0 /\ AnswersEcho(e)
    IN  /\ buf' = MarkSent(b, R, n)
        /\ history' = LogSent(MarkRetx(h, R), new)
        /\ ecn' = IF answers THEN EchoAnswered(e, b.next) ELSE e
        /\ data' = data \o [k \in DOMAIN again |-> Packet(again[k], FALSE)]
                        \o [k \in DOMAIN new |-> Packet(new[k], answers /\ k = 1)]
        /\ copies' = [seg \in 1 .. N |-> copies[seg] + IF seg \in R \cup ToSet(new) THEN 1 ELSE 0]

\* Deviation for a mutation run: the timer is not armed by a transmission.
SendPendingDataUnarmed(b, w, h, e, armed) ==
    Transmit(b, h, e, ToResend(b, w), ToSend(b, w)) /\ retxRunning' = armed

\* SendPendingData from the buffer b with window w; the timer, armed or not by
\* then, is armed by a transmission.
SendPendingData(b, w, h, e, armed) ==
    \E R \in {ToResend(b, w)}, n \in {ToSend(b, w)} :
        /\ Transmit(b, h, e, R, n)
        /\ retxRunning' = (armed \/ R # {} \/ n > 0)

----------------------------------------------------------------------------
Init ==
    /\ buf = EmptyTxBuffer
    /\ congState = "OPEN" /\ dupAckCount = 0
    /\ recover = 0 /\ recoverActive = FALSE /\ firstPartial = TRUE
    /\ cwnd = InitialCwnd /\ ssThresh = MaxWindow
    /\ retxRunning = FALSE /\ sendEvent = FALSE
    /\ dataRetrCount = DataRetries /\ dropped = FALSE
    /\ history = <<>> /\ copies = [seg \in 1 .. N |-> 0]
    /\ ecn = [state |-> IF UseEcn THEN "IDLE" ELSE "DISABLED", echoSeq |-> 0, cwrSeq |-> 0]
    /\ data = <<>> /\ acks = <<>> /\ losses = 0 /\ marks = 0
    /\ rcvNext = 1 /\ rcvBuf = {} /\ delAckCount = DelAckMax
    /\ rcvEcn = [state |-> ecn.state, ceSeq |-> 0]

\* Send: the segment joins the buffer; if the window is open, SendPendingData
\* is scheduled for the next tick.
Send ==
    /\ buf.tail <= N
    /\ buf' = [buf EXCEPT !.tail = @ + 1]
    /\ sendEvent' = (sendEvent \/ Room(buf', cwnd) > 0)
    /\ UNCHANGED <<congestion, window, retxRunning, dataRetrCount, dropped,
                   history, ecn, copies, data, acks, path, receiver>>

\* m_sendPendingDataEvent.
SendPendingDataEvent ==
    /\ sendEvent
    /\ sendEvent' = FALSE
    /\ IF dropped \/ BufferSize(buf) = 0
       THEN UNCHANGED <<buf, history, ecn, data, copies, retxRunning>>
       ELSE SendPendingData(buf, cwnd, history, ecn, retxRunning)
    /\ UNCHANGED <<congestion, window, dataRetrCount, dropped, acks, path, receiver>>

----------------------------------------------------------------------------
(* ACKs.  Each disjunct of ReceivedAck is one path of ProcessAck, from the  *)
(* buffer b that DiscardUpTo leaves, the history h that EstimateRtt leaves, *)
(* the state e of ECN and, if new data is acknowledged, the congestion      *)
(* state k that the echo leaves, to the SendPendingData at the end.         *)

\* DupAck in CA_LOSS: ignored.
DupAckInLoss(b, h, e) ==
    /\ congState = "LOSS"
    /\ SendPendingData(b, cwnd, h, e, retxRunning)
    /\ UNCHANGED <<congestion, window>>

\* DupAck in CA_CWR: counted, and nothing else.
DupAckInCwr(b, h, e) ==
    /\ congState = "CWR"
    /\ dupAckCount' = dupAckCount + 1
    /\ SendPendingData(b, cwnd, h, e, retxRunning)
    /\ UNCHANGED <<congState, recover, recoverActive, firstPartial, window>>

\* DupAck in CA_RECOVERY: one more segment has left the network.
DupAckInRecovery(b, h, e) ==
    /\ congState = "RECOVERY"
    /\ SendPendingData(AddRenoSack(b), cwnd, h, e, retxRunning)
    /\ UNCHANGED <<congestion, window>>

\* Whether this duplicate ACK starts a recovery, count being m_dupAckCount.
StartsRecovery(b, count) ==
    \/ count = RetxThresh /\ (b.head >= recover \/ ~recoverActive)
    \/ IsLost(b, b.head + 1)

\* DupAck in CA_OPEN or CA_DISORDER, below the threshold.
DupAckInDisorder(b, h, e) ==
    /\ congState \in {"OPEN", "DISORDER"}
    /\ ~StartsRecovery(b, dupAckCount + 1)
    /\ congState' = "DISORDER"
    /\ dupAckCount' = dupAckCount + 1
    /\ SendPendingData(IF LimitedTx THEN AddRenoSack(b) ELSE b, cwnd, h, e, retxRunning)
    /\ UNCHANGED <<recover, recoverActive, firstPartial, window>>

\* DoRetransmit: the segment NextSeg finds missing, or else the head again.
DoRetransmit(b) == IF Missing(b) = {} THEN b.head ELSE Min(Missing(b))

\* DoRetransmit from the buffer b, and the SendPendingData that follows.
RetransmitAndSend(b, w, h, e) ==
    LET first == {DoRetransmit(b)}
        c == MarkSent(b, first, 0)
    IN  /\ Transmit(b, h, e, first \cup ToResend(c, w), ToSend(c, w))
        /\ retxRunning' = TRUE

LoseHeadOnlySacked(b) == AddRenoSack(b)  \* deviation for a mutation run
LoseHead(b) == MarkHeadAsLost(AddRenoSack(b))

\* EnterRecovery: the head is lost and is sent again at once.
EnterRecovery(b, h, e) ==
    /\ congState \in {"OPEN", "DISORDER"}
    /\ StartsRecovery(b, dupAckCount + 1)
    /\ congState' = "RECOVERY"
    /\ dupAckCount' = dupAckCount + 1
    /\ recover' = b.next
    /\ recoverActive' = TRUE
    /\ \E t \in 2 .. MaxWindow :
           ssThresh' = t /\ cwnd' = t /\ RetransmitAndSend(LoseHead(b), t, h, e)
    /\ UNCHANGED firstPartial

\* NewAck: the retransmission count starts over; the timer is started again if
\* asked to, and stopped when the buffer is empty.
ArmedByNewAckAlways(b, reset) == reset \/ retxRunning  \* deviation for a mutation run
ArmedByNewAck(b, reset) == BufferSize(b) > 0 /\ (reset \/ retxRunning)

KeepRetries == UNCHANGED dataRetrCount  \* deviation for a mutation run
ResetRetries == dataRetrCount' = DataRetries

\* The ACK of new data that leaves the buffer b ends the duplicates.
KeepDupAcks == UNCHANGED dupAckCount  \* deviation for a mutation run
ResetDupAcks == dupAckCount' = 0

\* Whether the ACK that leaves the buffer b is below the recovery point r.
BelowRecoverNever(b, r) == FALSE  \* deviation for a mutation run: Reno, not NewReno
BelowRecover(b, r) == b.head < r

\* The part of ReceivedAck before ProcessAck: an ACK above the recovery point
\* ends CA_CWR with the window at ssThresh, and the echo of a mark on an ACK of
\* new data starts it (EnterCwr), possibly again; the window then comes down to
\* ssThresh as the recovery of the congestion control likes.
Echoed(a) == a.ece /\ a.ack > buf.head /\ ecn.state # "DISABLED" /\ ecn.echoSeq < a.ack

AfterEcho(a) ==
    IF Echoed(a) THEN [ecn EXCEPT !.state = "ECE_RCVD", !.echoSeq = a.ack]
    ELSE IF ecn.state = "ECE_RCVD" /\ ~a.ece THEN [ecn EXCEPT !.state = "IDLE"]
    ELSE ecn

\* Deviation for a mutation run: CA_CWR ends with the next ACK.
CwrEndsAtOnce(a) == congState = "CWR"
CwrEnds(a) == congState = "CWR" /\ a.ack > recover

Congestion(a) ==
    LET state == IF CwrEnds(a) THEN "OPEN" ELSE congState
        w == IF CwrEnds(a) THEN ssThresh ELSE cwnd
    IN  IF Echoed(a) /\ state # "CWR"
        THEN UNION {{[state |-> "CWR", recover |-> buf.next, cwnd |-> c, ssThresh |-> t] :
                        c \in {w, t}} : t \in 2 .. MaxWindow}
        ELSE {[state |-> state, recover |-> recover, cwnd |-> w, ssThresh |-> ssThresh]}

\* A partial ACK in CA_RECOVERY: the next segment is thought lost and is sent
\* again (MarkHeadAsLost has just cleared the flag that would prevent it);
\* only the first partial ACK restarts the timer, but it runs anyway.
PartialAckInRecovery(b, h, e, k) ==
    /\ k.state = "RECOVERY" /\ BelowRecover(b, k.recover)
    /\ congState' = k.state
    /\ ResetDupAcks
    /\ firstPartial' = FALSE
    /\ RetransmitAndSend(MarkHeadAsLost(b), k.cwnd, h, e)
    /\ UNCHANGED <<recoverActive, window>>

\* IncreaseWindow of the congestion control.
IncreaseWindow(w, segs) == {w} \cup {c \in w .. MaxWindow : c <= w + segs}

\* A partial ACK in CA_LOSS.
PartialAckInLoss(b, h, e, k, segs) ==
    /\ k.state = "LOSS" /\ BelowRecover(b, k.recover)
    /\ congState' = k.state
    /\ ResetDupAcks
    /\ \E c \in IncreaseWindow(k.cwnd, segs) :
           cwnd' = c /\ SendPendingData(b, c, h, e, ArmedByNewAck(b, TRUE))
    /\ UNCHANGED <<recoverActive, firstPartial, ssThresh>>

\* An ACK of new data in CA_CWR, whatever it finds lost: the window comes down.
AckInCwr(b, h, e, k) ==
    /\ k.state = "CWR"
    /\ congState' = k.state
    /\ ResetDupAcks
    /\ ssThresh' = k.ssThresh
    /\ \E c \in {k.cwnd, k.ssThresh} :
           cwnd' = c /\ SendPendingData(b, c, h, e, ArmedByNewAck(b, TRUE))
    /\ UNCHANGED <<recoverActive, firstPartial>>

\* Any other ACK of new data ends in CA_OPEN.
FullAck(b, h, e, k, segs) ==
    /\ k.state # "CWR" /\ ~(k.state \in {"RECOVERY", "LOSS"} /\ BelowRecover(b, k.recover))
    /\ congState' = "OPEN"
    /\ ResetDupAcks
    /\ recoverActive' = (recoverActive /\ BelowRecover(b, k.recover))
    /\ firstPartial' = (firstPartial \/ k.state \in {"RECOVERY", "LOSS"})
    /\ \E c \in IncreaseWindow(IF k.state = "RECOVERY" THEN ssThresh ELSE k.cwnd, segs) :
           cwnd' = c /\ SendPendingData(b, c, h, e, ArmedByNewAck(b, TRUE))
    /\ UNCHANGED ssThresh

\* DoForwardUp, ProcessEstablished, ReceivedAck and ProcessAck.  (b, h and e
\* are bound, and not defined, for TLC to compute them once.)
ReceivedAck(a) ==
    \E b \in {DiscardUpTo(buf, a.ack)}, h \in {ForgetAcked(history, a.ack)}, e \in {AfterEcho(a)} :
        \/ /\ a.ack < buf.head
           /\ history' = h
           /\ UNCHANGED <<buf, congestion, window, retxRunning, dataRetrCount, ecn, data, copies>>
        \/ /\ a.ack = buf.head /\ a.ack = buf.next
           /\ SendPendingData(b, cwnd, h, e, retxRunning)
           /\ UNCHANGED <<congestion, window, dataRetrCount>>
        \/ /\ a.ack = buf.head /\ a.ack < buf.next
           /\ \/ DupAckInLoss(b, h, e) \/ DupAckInCwr(b, h, e) \/ DupAckInRecovery(b, h, e)
              \/ DupAckInDisorder(b, h, e) \/ EnterRecovery(b, h, e)
           /\ UNCHANGED dataRetrCount
        \/ /\ a.ack > buf.head
           /\ \E k \in Congestion(a) :
                  /\ recover' = k.recover
                  /\ \/ PartialAckInRecovery(b, h, e, k)
                     \/ PartialAckInLoss(b, h, e, k, a.ack - buf.head)
                     \/ AckInCwr(b, h, e, k)
                     \/ FullAck(b, h, e, k, IF k.state = "LOSS" THEN a.ack - recover
                                            ELSE a.ack - buf.head)
           /\ ResetRetries

\* The packet at place i of a queue arrives, overtaking those before it.
Arrives(i) == i <= Displace + 1

RecvAck(i) ==
    /\ Arrives(i)
    /\ acks' = RemoveAt(acks, i)
    /\ IF dropped
       THEN UNCHANGED <<buf, congestion, window, retxRunning, dataRetrCount,
                        history, ecn, data, copies>>
       ELSE ReceivedAck(acks[i])
    /\ UNCHANGED <<sendEvent, dropped, path, receiver>>

\* When a running timer may expire: at any time; only when nothing is under way
\* (an RTO above the round trip); or only when, besides, the receiver owes no
\* delayed ACK (an RTO above the round trip and m_delAckTimeout, as the
\* default minimum RTO of 1 s makes it and PeakHopper does not).
Due ==
    \/ Patience = "none"
    \/ data = <<>> /\ acks = <<>>
       /\ (Patience = "peer" => delAckCount \notin 1 .. DelAckMax - 1)

RetriesLeftOffByOne == dataRetrCount >= 0  \* deviation for a mutation run
RetriesLeft == dataRetrCount > 0

\* ReTxTimeout with data in the buffer and retries left: everything sent is
\* thought lost and the first segment goes out again.
ReTxTimeout ==
    /\ retxRunning /\ ~dropped
    /\ Due
    /\ BufferSize(buf) > 0
    /\ RetriesLeft
    /\ dataRetrCount' = dataRetrCount - 1
    /\ dupAckCount' = 0
    /\ recover' = buf.next
    /\ recoverActive' = TRUE
    /\ ssThresh' \in 2 .. MaxWindow
    /\ congState' = "LOSS"
    /\ cwnd' = 1
    /\ SendPendingData(SetSentListLost(ResetRenoSack(buf)), 1, <<>>, ecn, FALSE)
    /\ UNCHANGED <<firstPartial, sendEvent, dropped, acks, path, receiver>>

\* ReTxTimeout with no retries left: the endpoint is deallocated, which
\* cancels the timers.
ReTxGiveUp ==
    /\ retxRunning /\ ~dropped
    /\ Due
    /\ BufferSize(buf) > 0 /\ ~RetriesLeft
    /\ dropped' = TRUE
    /\ retxRunning' = FALSE
    /\ sendEvent' = FALSE
    /\ UNCHANGED <<buf, congestion, window, dataRetrCount, history, ecn, copies,
                   data, acks, path, receiver>>

----------------------------------------------------------------------------
(* The receiver *)

\* The first segment missing once S has arrived.
NextMissing(S) == CHOOSE n \in 1 .. N + 1 : n \notin S /\ 1 .. n - 1 \subseteq S

\* Deviations for mutation runs: the highest segment is acknowledged over the
\* gap; the ACK is not sent.
AckHighest(e) ==
    /\ delAckCount' = 0 /\ rcvEcn' = e
    /\ acks' = Append(acks, [ack |-> IF rcvBuf' = {} THEN rcvNext' ELSE Max(rcvBuf') + 1,
                             ece |-> FALSE])
AckNever(e) == delAckCount' = 0 /\ rcvEcn' = e /\ UNCHANGED acks

\* SendEmptyPacket (ACK), with the echo in the states e of ECN that ask for it,
\* clears the delayed ACK.
AckNow(e) ==
    LET echo == e.state \in {"CE_RCVD", "SENDING_ECE"}
    IN  /\ delAckCount' = 0
        /\ rcvEcn' = IF echo THEN [e EXCEPT !.state = "SENDING_ECE"] ELSE e
        /\ acks' = Append(acks, [ack |-> rcvNext', ece |-> echo])

\* Deviation for a mutation run: the answer to an echo hides a newer mark.
HeadersReadCwrWins(p) ==
    LET marked == p.ce /\ rcvEcn.ceSeq < p.seg
    IN  [rcvEcn EXCEPT !.state = IF p.cwr THEN "IDLE" ELSE IF marked THEN "CE_RCVD" ELSE @,
                       !.ceSeq = IF marked THEN p.seg ELSE @]

\* ForwardUp and the head of DoForwardUp: a mark on a segment above the last
\* one marked is to be echoed until an answer comes, unless it is newer.
HeadersRead(p) ==
    LET marked == p.ce /\ rcvEcn.ceSeq < p.seg
        state == IF marked THEN "CE_RCVD" ELSE rcvEcn.state
    IN  [state |-> IF p.cwr /\ state # "CE_RCVD" THEN "IDLE" ELSE state,
         ceSeq |-> IF marked THEN p.seg ELSE rcvEcn.ceSeq]

\* ReceivedData: a segment out of order, a duplicate, or one that meets or
\* fills a gap is acknowledged at once; one in sequence is counted.
ReceivedData(seg, e) ==
    LET all == 1 .. rcvNext - 1 \cup rcvBuf \cup {seg}
        next == NextMissing(all)
        gap == all # 1 .. next - 1
    IN  /\ rcvNext' = next
        /\ rcvBuf' = {n \in all : n > next}
        /\ IF seg = rcvNext /\ next = rcvNext + 1 /\ ~gap /\ delAckCount + 1 < DelAckMax
           THEN delAckCount' = delAckCount + 1 /\ rcvEcn' = e /\ UNCHANGED acks
           ELSE AckNow(e)

\* IsValidTcpSegment: a segment that lies below the window altogether.
OutOfRange(seg) == seg + 1 < rcvNext

\* Such a segment is answered by a bare ACK, and neither its mark nor its
\* answer to an echo is seen.
RefuseData ==
    /\ delAckCount' = 0
    /\ acks' = Append(acks, [ack |-> rcvNext, ece |-> FALSE])
    /\ UNCHANGED <<rcvNext, rcvBuf, rcvEcn>>

RecvData(i) ==
    /\ Arrives(i)
    /\ data' = RemoveAt(data, i)
    /\ IF OutOfRange(data[i].seg) THEN RefuseData
       ELSE ReceivedData(data[i].seg, HeadersRead(data[i]))
    /\ UNCHANGED <<sender, path>>

\* DelAckTimeout.
DelAckTimeout ==
    /\ delAckCount \in 1 .. DelAckMax - 1
    /\ UNCHANGED <<rcvNext, rcvBuf>>
    /\ AckNow(rcvEcn)
    /\ UNCHANGED <<sender, data, path>>

----------------------------------------------------------------------------
(* The path *)

LoseData(i) ==
    /\ losses < MaxLoss
    /\ losses' = losses + 1
    /\ data' = RemoveAt(data, i)
    /\ UNCHANGED <<sender, acks, marks, receiver>>

LoseAck(i) ==
    /\ losses < MaxLoss
    /\ losses' = losses + 1
    /\ acks' = RemoveAt(acks, i)
    /\ UNCHANGED <<sender, data, marks, receiver>>

\* A congested router marks a data packet instead of dropping it.
MarkData(i) ==
    /\ UseEcn /\ marks < MaxMarks
    /\ ~data[i].ce
    /\ marks' = marks + 1
    /\ data' = [data EXCEPT ![i].ce = TRUE]
    /\ UNCHANGED <<sender, acks, losses, receiver>>

Next ==
    \/ Send \/ SendPendingDataEvent
    \/ ReTxTimeout \/ ReTxGiveUp \/ DelAckTimeout
    \/ \E i \in DOMAIN acks : RecvAck(i)
    \/ \E i \in DOMAIN data : RecvData(i)
    \/ \E i \in DOMAIN data : LoseData(i)
    \/ \E i \in DOMAIN acks : LoseAck(i)
    \/ \E i \in DOMAIN data : MarkData(i)

Spec == Init /\ [][Next]_vars

\* The scheduler of the simulator runs every event it holds: a packet under
\* way arrives unless it is lost, and a pending timer expires.
Fairness ==
    /\ WF_vars(Send) /\ WF_vars(SendPendingDataEvent)
    /\ WF_vars(ReTxTimeout) /\ WF_vars(ReTxGiveUp)
    /\ WF_vars(DelAckTimeout)
    /\ WF_vars(\E i \in DOMAIN acks : RecvAck(i))
    /\ WF_vars(\E i \in DOMAIN data : RecvData(i))

FairSpec == Spec /\ Fairness

----------------------------------------------------------------------------
(* Properties *)

\* Types: the retries left never pass m_dataRetries, nothing beyond what was
\* written is sent, acknowledged or received.
TypeOK ==
    /\ buf.head \in 1 .. N + 1 /\ buf.next \in 1 .. N + 1 /\ buf.tail \in 1 .. N + 1
    /\ buf.head <= buf.next /\ buf.next <= buf.tail
    /\ congState \in {"OPEN", "DISORDER", "CWR", "RECOVERY", "LOSS"}
    /\ dupAckCount \in Nat
    /\ recover \in 0 .. N + 1
    /\ {recoverActive, firstPartial, retxRunning, sendEvent, dropped} \subseteq BOOLEAN
    /\ cwnd \in 1 .. MaxWindow /\ ssThresh \in 2 .. MaxWindow
    /\ dataRetrCount \in 0 .. DataRetries
    /\ history \in Seq([seq : 1 .. N, retx : BOOLEAN])
    /\ copies \in [1 .. N -> Nat]
    /\ ecn.state \in {"DISABLED", "IDLE", "ECE_RCVD", "CWR_SENT"}
    /\ ecn.echoSeq \in 0 .. N + 1 /\ ecn.cwrSeq \in 0 .. N
    /\ data \in Seq([seg : 1 .. N, ce : BOOLEAN, cwr : BOOLEAN])
    /\ acks \in Seq([ack : 1 .. N + 1, ece : BOOLEAN])
    /\ losses \in 0 .. MaxLoss /\ marks \in 0 .. MaxMarks
    /\ rcvNext \in 1 .. N + 1 /\ rcvBuf \subseteq 1 .. N
    /\ delAckCount \in 0 .. DelAckMax
    /\ rcvEcn.state \in {"DISABLED", "IDLE", "CE_RCVD", "SENDING_ECE"}
    /\ rcvEcn.ceSeq \in 0 .. N

\* The flags of the sent list stay consistent through guesses, partial ACKs
\* and timeouts, so that the unsigned count of bytes in flight cannot wrap.
PipeConsistent ==
    /\ buf.sacked \subseteq Outstanding(buf) \ {buf.head}
    /\ buf.lost \subseteq Outstanding(buf)
    /\ buf.retrans \subseteq buf.lost
    /\ buf.sacked \cap buf.lost = {}

\* The retransmission timer runs exactly while data is unacknowledged,
\* whichever of NewAck, SendDataPacket and ReTxTimeout handled it last.
TimerArmed == ~dropped => (retxRunning <=> Outstanding(buf) # {})

\* The assertions of DupAck and ProcessAck: from CA_OPEN the first duplicate
\* ACK is the first, CA_DISORDER counts past the threshold only while an
\* earlier recovery point is active, CA_LOSS guesses no segment received.
AssertionsHold ==
    /\ congState = "OPEN" => dupAckCount = 0
    /\ congState = "DISORDER" => dupAckCount < RetxThresh \/ recoverActive
    /\ congState = "LOSS" => buf.sacked = {}

\* While a loss is being repaired the first missing segment has always been
\* sent again, by DoRetransmit (as its assertion says) or SendPendingData: no
\* partial ACK leaves the hole to the retransmission timer.
HoleResent ==
    congState \in {"RECOVERY", "LOSS"} => buf.head \in buf.lost \cap buf.retrans

\* Karn: an entry of the RTT history that is not marked, which EstimateRtt may
\* measure, belongs to a segment that was sent once.
SamplesUnambiguous ==
    \A i \in DOMAIN history : ~history[i].retx => copies[history[i].seq] = 1

\* The congestion window is cut by duplicate ACKs at most once for the data
\* that was outstanding at the last cut or timeout.
OneReductionPerWindow ==
    [][congState # "RECOVERY" /\ congState' = "RECOVERY" => buf.head >= recover]_vars

\* The congestion window is cut for an echo at most once for the data that was
\* outstanding at the last cut, unless that cut was for a loss that is still
\* being repaired.
OneEchoReductionPerWindow ==
    [][congState' = "CWR" /\ (congState # "CWR" \/ recover' # recover)
          => buf'.head > recover \/ congState \in {"RECOVERY", "LOSS"}]_vars

\* Every mark the receiver saw is answered by such a reduction in the end,
\* whatever echo or answer was lost, unless the connection is given up; all data
\* was acknowledged without an echo that was heard (on a duplicate ACK, or by the
\* bare ACK of a refused segment), so that the echo waits for data that never
\* comes; or the mark was hidden by the answer to an earlier echo, sent later and
\* without a reduction of its own, in CA_CWR.
MarksAnswered ==
    <>[](\/ rcvEcn.ceSeq = 0 \/ recover > rcvEcn.ceSeq \/ dropped
         \/ rcvEcn.state \in {"CE_RCVD", "SENDING_ECE"} /\ buf.head = N + 1
         \/ rcvEcn.state = "IDLE" /\ ecn.cwrSeq > rcvEcn.ceSeq)

\* As long as the path loses nothing and keeps order, with a timer above the
\* round trip and the peer's delayed ACK, nothing is sent twice: no duplicate
\* ACK, delayed ACK or timer makes the sender repeat itself.
NothingResent ==
    losses = 0 /\ Displace = 0 /\ Patience = "peer" => \A seg \in 1 .. N : copies[seg] <= 1

\* The connection is given up only after the segment it is stuck on was sent
\* once and again for every retry.
GivenUpAfterRetries == dropped => copies[buf.head] >= 1 + DataRetries

\* Whatever is lost, the data is delivered and acknowledged and the socket ends
\* in CA_OPEN with its timer stopped, unless the connection is given up.
Settles ==
    <>[](dropped \/ (buf.head = N + 1 /\ congState = "OPEN" /\ ~retxRunning))

\* The sender and its peer implement a reliable stream: what is discarded was
\* delivered, what is delivered was written, and neither goes back.
Stream == INSTANCE ReliableStream WITH
    written <- buf.tail - 1, delivered <- rcvNext - 1, acked <- buf.head - 1,
    failed <- dropped

\* Every step of the socket, the path and the peer is a step of the stream, or
\* invisible to the applications.
ImplementsStream == Stream!Spec

\* And the stream keeps going until it fails.
ImplementsFairStream == Stream!FairSpec
=============================================================================
