----------------------------- MODULE FlowControl -----------------------------
(***************************************************************************)
(* The advertised window of an established connection that carries data    *)
(* one way: what the receiver offers as its application reads, what the    *)
(* sender believes it may send, silly window avoidance and Nagle's         *)
(* algorithm in SendPendingData, and the two timers that must not both be  *)
(* missing: the retransmission timer and the persist timer with its probe  *)
(* of one byte.                                                            *)
(*                                                                         *)
(* Data is counted in bytes.  The path keeps order and loses ACKs and      *)
(* probes; lost and overtaking data, and with them duplicate ACKs, are the *)
(* concern of TcpSender.  Without duplicate ACKs the congestion state      *)
(* decides nothing here, and only the congestion window is kept.           *)
(***************************************************************************)
EXTENDS TcpTxBuffer, Sequences, SequencesExt

CONSTANTS
    N,              \* bound: bytes the application writes
    Chunks,         \* bound: bytes the application writes in one call
    SegmentSize,    \* m_tcb->m_segmentSize
    MaxWindow,      \* bound: largest congestion window
    RcvBufSize,     \* capacity of the receiver's m_rxBuffer
    DelAckMax,      \* m_delAckMaxCount of the receiver
    DataRetries,    \* m_dataRetries
    NoDelays,       \* values of m_noDelay the application may set
    MaxLoss         \* bound: packets the path loses

ASSUME BoundsAssumption ==
    /\ N \in Nat \ {0} /\ Chunks \subseteq 1 .. N
    /\ MaxWindow \in Nat /\ MaxWindow >= SegmentSize /\ MaxLoss \in Nat
ASSUME SocketAssumption ==
    /\ SegmentSize \in Nat \ {0} /\ RcvBufSize \in Nat \ {0}
    /\ DelAckMax \in Nat \ {0} /\ DataRetries \in Nat
    /\ NoDelays \subseteq BOOLEAN

VARIABLES
    buf,            \* m_txBuffer, with m_highTxMark as its field next
    cwnd,           \* m_tcb->m_cWnd
    rWnd,           \* m_rWnd
    highRxAckMark,  \* m_highRxAckMark
    noDelay,        \* m_noDelay, set once by the application
    retxRunning,    \* m_retxEvent is pending
    persistRunning, \* m_persistEvent is pending
    sendEvent,      \* m_sendPendingDataEvent is pending
    dataRetrCount,  \* m_dataRetrCount
    status,         \* "up"; "dropped": no more retries; "aborted": see PersistTimeout
    data,           \* data and probes under way: [seq |-> first byte, size |-> bytes, ...]
    acks,           \* ACKs under way: [ack |-> next byte, wnd |-> window]
    losses,         \* packets lost so far
    rcvNext,        \* receiver: m_rxBuffer->NextRxSequence ()
    rcvRead,        \* receiver: first byte the application has not read
    delAckCount     \* receiver: m_delAckCount

timers == <<retxRunning, persistRunning, sendEvent>>
peerWindow == <<rWnd, highRxAckMark>>
sender == <<buf, cwnd, peerWindow, noDelay, timers, dataRetrCount, status>>
receiver == <<rcvNext, rcvRead, delAckCount>>
vars == <<sender, data, acks, losses, receiver>>

----------------------------------------------------------------------------
(* Transmission *)

\* AvailableWindow, from the advertised window w and the congestion window c.
AvailableWindow(b, w, c) ==
    LET win == Min({w, c})
    IN  IF BytesInFlight(b) > win THEN 0 ELSE win - BytesInFlight(b)

\* NextSeg: first bytes thought lost, then, if the advertised window lets it,
\* new ones.
NextSeq(b) == IF Missing(b) # {} THEN Min(Missing(b)) ELSE b.next
HasNextSeg(b, w) ==
    Missing(b) # {} \/ (b.next < b.tail /\ Cardinality(Outstanding(b)) < w)
NextSegEnd(b, w) ==
    IF Missing(b) # {} THEN Min((NextSeq(b) .. b.next) \ Missing(b))
    ELSE Min({b.tail, b.head + w})

\* The silly window test and Nagle's algorithm, in the loop of SendPendingData
\* and so before a retransmission too.
AvailableData(b) == b.tail - NextSeq(b)
SillyWindow(b, avail) == avail < SegmentSize /\ AvailableData(b) > avail
NagleWaits(b) == ~noDelay /\ Outstanding(b) # {} /\ AvailableData(b) < SegmentSize

\* One turn of that loop on s, the buffer and the segments sent so far.
MaySend(s, w, c) ==
    LET avail == AvailableWindow(s.buf, w, c)
    IN  avail > 0 /\ HasNextSeg(s.buf, w) /\ ~SillyWindow(s.buf, avail) /\ ~NagleWaits(s.buf)
SendDataPacket(s, w, c) ==
    LET first == NextSeq(s.buf)
        size == Min({AvailableWindow(s.buf, w, c), SegmentSize, NextSegEnd(s.buf, w) - first})
        again == first .. first + size - 1
    IN  [buf |-> IF Missing(s.buf) # {} THEN MarkSent(s.buf, again, 0)
                 ELSE MarkSent(s.buf, {}, size),
         sent |-> Append(s.sent, [seq |-> first, size |-> size, probe |-> FALSE])]

\* The whole loop: the set of its outcomes after n turns, of which there is one.
\* Each turn sends a byte at least, so N turns are enough.
Loop(b, w, c) ==
    LET after[n \in 0 .. N] ==
            IF n = 0 THEN {[buf |-> b, sent |-> <<>>]}
            ELSE {IF MaySend(s, w, c) THEN SendDataPacket(s, w, c) ELSE s : s \in after[n - 1]}
    IN  after[N]

\* SendPendingData; a transmission arms the retransmission timer.
SendPendingData(b, w, c, armed) ==
    \E s \in Loop(b, w, c) :
        /\ buf' = s.buf
        /\ data' = data \o s.sent
        /\ retxRunning' = (armed \/ s.sent # <<>>)

----------------------------------------------------------------------------
Init ==
    /\ buf = EmptyTxBuffer
    /\ cwnd = SegmentSize
    /\ rWnd = RcvBufSize /\ highRxAckMark = 1
    /\ noDelay \in NoDelays
    /\ retxRunning = FALSE /\ persistRunning = FALSE /\ sendEvent = FALSE
    /\ dataRetrCount = DataRetries /\ status = "up"
    /\ data = <<>> /\ acks = <<>> /\ losses = 0
    /\ rcvNext = 1 /\ rcvRead = 1 /\ delAckCount = 0

\* Send: n bytes join the buffer; if the window is open, SendPendingData is
\* scheduled for the next tick.
Send(n) ==
    /\ status = "up" /\ buf.tail + n <= N + 1
    /\ buf' = [buf EXCEPT !.tail = @ + n]
    /\ sendEvent' = (sendEvent \/ AvailableWindow(buf', rWnd, cwnd) > 0)
    /\ UNCHANGED <<cwnd, peerWindow, noDelay, retxRunning, persistRunning,
                   dataRetrCount, status, data, acks, losses, receiver>>

\* m_sendPendingDataEvent.
SendPendingDataEvent ==
    /\ status = "up" /\ sendEvent
    /\ sendEvent' = FALSE
    /\ SendPendingData(buf, rWnd, cwnd, retxRunning)
    /\ UNCHANGED <<cwnd, peerWindow, noDelay, persistRunning, dataRetrCount,
                   status, acks, losses, receiver>>

----------------------------------------------------------------------------
(* ACKs *)

\* Deviation for a mutation run: an ACK overtaken by a later one counts too.
UpdateWindowSizeAlways(a) == a.wnd

\* UpdateWindowSize: an ACK of new data sets the window, one that repeats the
\* highest ACK can only enlarge it.  The peer sends no data, so its sequence
\* number never advances.
UpdateWindowSize(a) ==
    IF a.ack > highRxAckMark \/ (a.ack = highRxAckMark /\ a.wnd > rWnd)
    THEN a.wnd ELSE rWnd

\* DoForwardUp, before and after the segment is processed: a zero window
\* cancels the retransmission timer and starts the persist timer, an open one
\* cancels the persist timer and calls SendPendingData.
EntersPersist(w) == w = 0 /\ ~persistRunning
LeavesPersist(w) == w # 0 /\ persistRunning
PersistAfter(w) == (persistRunning \/ EntersPersist(w)) /\ ~LeavesPersist(w)
RetxAfterEntry(w) == retxRunning /\ ~EntersPersist(w)

\* Deviation for a mutation run: the transmission at the end is forgotten.
IgnoredAckSilent(a, w) ==
    /\ a.ack < buf.head \/ a.ack > buf.next
    /\ retxRunning' = RetxAfterEntry(w)
    /\ UNCHANGED <<buf, cwnd, dataRetrCount, data>>

\* ProcessEstablished with an ACK below the first byte sent, or above the last
\* one: the ACK of a probe that was accepted, for the probe is sent without
\* entering the sent list.  (The latter is answered by an empty ACK, which
\* changes nothing at a peer that sends no data.)
IgnoredAck(a, w) ==
    /\ a.ack < buf.head \/ a.ack > buf.next
    /\ IF LeavesPersist(w)
       THEN SendPendingData(buf, w, cwnd, RetxAfterEntry(w))
       ELSE retxRunning' = RetxAfterEntry(w) /\ UNCHANGED <<buf, data>>
    /\ UNCHANGED <<cwnd, dataRetrCount>>

\* ReceivedAck when nothing is outstanding and nothing new is acknowledged: the
\* answer to a probe that was refused.
RepeatedAck(a, w) ==
    /\ a.ack = buf.head /\ a.ack = buf.next
    /\ SendPendingData(buf, w, cwnd, RetxAfterEntry(w))
    /\ UNCHANGED <<cwnd, dataRetrCount>>

\* IncreaseWindow of the congestion control: a segment at most.
IncreaseWindow(c) == c .. Min({c + SegmentSize, MaxWindow})

RetriesKept == UNCHANGED dataRetrCount  \* deviation for a mutation run
ResetRetries == dataRetrCount' = DataRetries

\* NewAck starts the timer again as long as the buffer holds data, sent or not.
ArmedByNewAckNever(b) == FALSE  \* deviation for a mutation run
ArmedByNewAck(b) == BufferSize(b) > 0

\* ReceivedAck with new data acknowledged: DiscardUpTo, NewAck and the
\* SendPendingData at the end (where the one of LeavesPersist finds nothing
\* left to do).
NewAck(a, w) ==
    /\ buf.head < a.ack /\ a.ack <= buf.next
    /\ \E c \in IncreaseWindow(cwnd) :
           LET b == DiscardUpTo(buf, a.ack)
           IN  cwnd' = c /\ SendPendingData(b, w, c, ArmedByNewAck(b))
    /\ ResetRetries

RecvAck(i) ==
    /\ acks' = RemoveAt(acks, i)
    /\ IF status # "up"
       THEN UNCHANGED sender /\ UNCHANGED data
       ELSE LET a == acks[i]
                w == UpdateWindowSize(a)
            IN  /\ rWnd' = w
                /\ highRxAckMark' = Max({a.ack, highRxAckMark})
                /\ IgnoredAck(a, w) \/ RepeatedAck(a, w) \/ NewAck(a, w)
                /\ persistRunning' = PersistAfter(w)
                /\ UNCHANGED <<sendEvent, noDelay, status>>
    /\ UNCHANGED <<losses, receiver>>

----------------------------------------------------------------------------
(* Timers *)

\* The persist timeout (6 s and more) and, with the default minimum RTO, the
\* retransmission timeout are longer than the round trip and the peer's
\* m_delAckTimeout: a timer expires when nothing is under way or owed.
Due == data = <<>> /\ acks = <<>> /\ delAckCount = 0

RetriesLeft == dataRetrCount > 0

\* ReTxTimeout: everything sent is thought lost and the window is a segment.
\* SendPendingData arms the timer again only if it sends.
ReTxTimeout ==
    /\ status = "up" /\ retxRunning /\ Due
    /\ BufferSize(buf) > 0 /\ RetriesLeft
    /\ dataRetrCount' = dataRetrCount - 1
    /\ cwnd' = SegmentSize
    /\ SendPendingData(SetSentListLost(buf), rWnd, SegmentSize, FALSE)
    /\ UNCHANGED <<peerWindow, noDelay, persistRunning, sendEvent, status,
                   acks, losses, receiver>>

\* ReTxTimeout with no retries left: the endpoint is deallocated, which
\* cancels the timers.
ReTxGiveUp ==
    /\ status = "up" /\ retxRunning /\ Due
    /\ BufferSize(buf) > 0 /\ ~RetriesLeft
    /\ status' = "dropped"
    /\ retxRunning' = FALSE /\ persistRunning' = FALSE /\ sendEvent' = FALSE
    /\ UNCHANGED <<buf, cwnd, peerWindow, noDelay, dataRetrCount, data, acks,
                   losses, receiver>>

ProbeAgainNever == persistRunning' = FALSE  \* deviation for a mutation run
ProbeAgain == UNCHANGED persistRunning

\* PersistTimeout: the first byte never sent goes out alone and the timer is
\* started again.
PersistTimeout ==
    /\ status = "up" /\ persistRunning /\ Due
    /\ buf.next < buf.tail
    /\ data' = Append(data, [seq |-> buf.next, size |-> 1, probe |-> TRUE])
    /\ ProbeAgain
    /\ UNCHANGED <<buf, cwnd, peerWindow, noDelay, retxRunning, sendEvent,
                   dataRetrCount, status, acks, losses, receiver>>

\* PersistTimeout with everything sent: CopyFromSequence has no byte to return,
\* its result is used all the same, and the program is aborted.
PersistWithoutData ==
    /\ status = "up" /\ persistRunning /\ Due
    /\ buf.next = buf.tail
    /\ status' = "aborted"
    /\ retxRunning' = FALSE /\ persistRunning' = FALSE /\ sendEvent' = FALSE
    /\ UNCHANGED <<buf, cwnd, peerWindow, noDelay, dataRetrCount, data, acks,
                   losses, receiver>>

----------------------------------------------------------------------------
(* The receiver *)

\* m_rxBuffer->MaxRxSequence (): one past the last byte there is room for.
MaxRxSequence == rcvRead + RcvBufSize

\* AdvertisedWindowSize.
AdvertisedWindowSize == MaxRxSequence - rcvNext'

\* SendEmptyPacket (ACK) clears the delayed ACK.
AckNow ==
    /\ delAckCount' = 0
    /\ acks' = Append(acks, [ack |-> rcvNext', wnd |-> AdvertisedWindowSize])

\* Deviation for a mutation run: the buffer takes what lies beyond its end.
TakenUncut(d) == (d.seq .. d.seq + d.size - 1) \ (1 .. rcvNext - 1)

\* TcpRxBuffer::Add: what of the segment d is in sequence and fits.
Taken(d) == (d.seq .. d.seq + d.size - 1) \cap (rcvNext .. MaxRxSequence - 1)

\* IsValidTcpSegment and ReceivedData: a segment that is out of range, or of
\* which the buffer takes nothing, is acknowledged at once; one in sequence is
\* cut to the room there is and counted.
RecvData ==
    /\ data # <<>>
    /\ data' = Tail(data)
    /\ LET d == Head(data)
           taken == Taken(d)
       IN  /\ rcvNext' = rcvNext + Cardinality(taken)
           /\ IF taken # {} /\ delAckCount + 1 < DelAckMax
              THEN delAckCount' = delAckCount + 1 /\ UNCHANGED acks
              ELSE AckNow
    /\ UNCHANGED <<sender, losses, rcvRead>>

\* DelAckTimeout.
DelAckTimeout ==
    /\ delAckCount > 0
    /\ UNCHANGED rcvNext
    /\ AckNow
    /\ UNCHANGED <<sender, data, losses, rcvRead>>

\* Recv of n bytes: no window update is sent.
Recv(n) ==
    /\ n <= rcvNext - rcvRead
    /\ rcvRead' = rcvRead + n
    /\ UNCHANGED <<sender, data, acks, losses, rcvNext, delAckCount>>

----------------------------------------------------------------------------
(* The path *)

LoseAck(i) ==
    /\ losses < MaxLoss
    /\ losses' = losses + 1
    /\ acks' = RemoveAt(acks, i)
    /\ UNCHANGED <<sender, data, receiver>>

LoseProbe(i) ==
    /\ losses < MaxLoss
    /\ data[i].probe
    /\ losses' = losses + 1
    /\ data' = RemoveAt(data, i)
    /\ UNCHANGED <<sender, acks, receiver>>

Running == status # "aborted"

Next ==
    /\ Running
    /\ \/ \E n \in Chunks : Send(n)
       \/ SendPendingDataEvent
       \/ \E i \in DOMAIN acks : RecvAck(i)
       \/ ReTxTimeout \/ ReTxGiveUp \/ PersistTimeout \/ PersistWithoutData
       \/ RecvData \/ DelAckTimeout
       \/ \E n \in 1 .. RcvBufSize : Recv(n)
       \/ \E i \in DOMAIN acks : LoseAck(i)
       \/ \E i \in DOMAIN data : LoseProbe(i)

Spec == Init /\ [][Next]_vars

\* Every event the simulator holds is run; the applications write all their
\* data and read what is delivered.
Fairness ==
    /\ WF_vars(Running /\ \E n \in Chunks : Send(n))
    /\ WF_vars(Running /\ SendPendingDataEvent)
    /\ WF_vars(Running /\ \E i \in DOMAIN acks : RecvAck(i))
    /\ WF_vars(ReTxTimeout) /\ WF_vars(ReTxGiveUp)
    /\ WF_vars(PersistTimeout) /\ WF_vars(PersistWithoutData)
    /\ WF_vars(Running /\ RecvData) /\ WF_vars(Running /\ DelAckTimeout)
    /\ WF_vars(Running /\ \E n \in 1 .. RcvBufSize : Recv(n))

FairSpec == Spec /\ Fairness

----------------------------------------------------------------------------
(* Properties *)

\* Types; besides, as the scope of the model demands, data reaches the receiver
\* in sequence and no ACK repeats an earlier one while data is outstanding.
TypeOK ==
    /\ buf.head \in 1 .. N + 1 /\ buf.next \in buf.head .. N + 1
    /\ buf.tail \in buf.next .. N + 1
    /\ buf.sacked = {} /\ buf.retrans \subseteq buf.lost /\ buf.lost \subseteq Outstanding(buf)
    /\ cwnd \in SegmentSize .. MaxWindow
    /\ rWnd \in 0 .. RcvBufSize /\ highRxAckMark \in 1 .. N + 1
    /\ {retxRunning, persistRunning, sendEvent} \subseteq BOOLEAN
    /\ noDelay \in NoDelays
    /\ dataRetrCount \in 0 .. DataRetries
    /\ status \in {"up", "dropped", "aborted"}
    /\ \A i \in DOMAIN data : data[i].size \in 1 .. SegmentSize
    /\ data # <<>> => Head(data).seq <= rcvNext
    /\ \A i \in DOMAIN acks : acks[i].ack = buf.head => buf.head = buf.next
    /\ losses \in 0 .. MaxLoss
    /\ rcvNext \in 1 .. N + 1 /\ rcvRead \in 1 .. rcvNext
    /\ delAckCount \in 0 .. DelAckMax - 1

\* The sender never believes in more room than the receiver has, whatever ACKs
\* were lost or overtaken, and never sends a byte (a probe apart) the receiver
\* has no room for.
RoomBelieved == highRxAckMark + rWnd <= MaxRxSequence
WithinOffer == RoomBelieved /\ buf.next <= MaxRxSequence

\* A closed window is always being probed, and only a closed one, whichever of
\* the probe, the answer to it or an ACK under way comes first.
ZeroWindowProbed == status = "up" => (rWnd = 0 <=> persistRunning)

\* SendPendingData refuses what is left of the data, and nothing is on its way
\* that would make it try again: less than a segment of window for more than
\* that of data, or Nagle's algorithm waiting for the ACK of data it does not
\* send again.
Stalled ==
    \/ rWnd \in 1 .. SegmentSize - 1 /\ buf.tail > buf.head + rWnd
    \/ ~noDelay /\ Outstanding(buf) # {} /\ buf.tail - buf.head < SegmentSize

\* Data that is outstanding is covered by the retransmission timer, unless the
\* transmission is stalled or about to be tried again; and the window is never
\* closed over it, so that entering the persist state, which cancels that
\* timer, takes it from no data.
OutstandingTimed ==
    status = "up" /\ Outstanding(buf) # {} =>
        rWnd # 0 /\ (retxRunning \/ Stalled \/ sendEvent)

\* The connection is given up only after the path lost a packet for every
\* retry: timeouts that find nothing to send use up one retry at most.
GivenUpAfterLosses == status = "dropped" => losses >= DataRetries

\* However slowly the peer reads and whatever ACK or probe is lost, all data is
\* delivered, unless the transmission stalls, the connection is given up or the
\* persist timer finds nothing to send.
Delivered ==
    <>[](rcvNext = N + 1 \/ status # "up" \/ Stalled)
=============================================================================
