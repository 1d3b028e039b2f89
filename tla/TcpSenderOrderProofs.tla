------------------------- MODULE TcpSenderOrderProofs -------------------------
(***************************************************************************)
(* What holds of TcpSender, for all of its constants, as long as the path  *)
(* loses nothing and keeps order and the timer waits for the peer's        *)
(* delayed ACK: nothing is sent twice.                                     *)
(***************************************************************************)
EXTENDS TcpSenderProofs

Orderly == losses = 0 /\ Displace = 0 /\ Patience = "peer"

\* The delayed ACK is owed.
OwesAck == delAckCount \in 1 .. DelAckMax - 1

\* Nothing was lost and nothing is thought lost.
Calm ==
    /\ ~dropped /\ congState \in {"OPEN", "CWR"}
    /\ buf.lost = {} /\ buf.sacked = {}
    /\ \A s \in 1 .. N : copies[s] <= 1

\* What is under way is what the peer misses, in order.
DataInOrder ==
    /\ rcvBuf = {}
    /\ Len(data) = buf.next - rcvNext
    /\ \A i \in 1 .. Len(data) : data[i].seg = rcvNext + i - 1

\* Every ACK acknowledges more than the one before.
AcksRise ==
    /\ \A i \in 1 .. Len(acks) : buf.head < acks[i].ack
    /\ \A i, j \in 1 .. Len(acks) : i < j => acks[i].ack < acks[j].ack

\* The last ACK acknowledges everything, unless one is owed.
AcksCurrent ==
    /\ OwesAck => buf.head < rcvNext /\ \A i \in 1 .. Len(acks) : acks[i].ack < rcvNext
    /\ ~OwesAck => IF Len(acks) = 0 THEN buf.head = rcvNext ELSE acks[Len(acks)].ack = rcvNext

OrderInv == Calm /\ DataInOrder /\ AcksRise /\ AcksCurrent

----------------------------------------------------------------------------
(* Transmissions *)

\* SendPendingData sends only new segments when nothing is thought lost.
LEMMA NothingToResend ==
    ASSUME NEW b, Sound(b), b.lost = {}, NEW w \in 1 .. MaxWindow, NEW h, NEW e, NEW armed,
           SendPendingData(b, w, h, e, armed)
    PROVE  \E n \in 0 .. b.tail - b.next : Transmit(b, h, e, {}, n)
<1>1. PICK R, n : Chosen(b, R, n) /\ Transmit(b, h, e, R, n)
  BY PendingSent
<1>2. R = {}
  BY <1>1 DEF Chosen, Missing
<1> QED
  BY <1>1, <1>2 DEF Chosen

\* The new segments join those under way, in order.
LEMMA TransmitOrder ==
    ASSUME BufferInv, data \in Seq(DataBelow(buf.next)),
           NEW b, NEW h, NEW e, NEW n, Fits(b, h, e, {}, n), Transmit(b, h, e, {}, n)
    PROVE  /\ Len(data') = Len(data) + n
           /\ \A i \in 1 .. Len(data) : data'[i] = data[i]
           /\ \A k \in 1 .. n : data'[Len(data) + k].seg = buf.next + k - 1
<1> DEFINE m == b.next + n
           D == DataBelow(m)
           new == Fresh(b.next, n)
           again == Ascending({})
           answers == n > 0 /\ AnswersEcho(e)
           first == [k \in DOMAIN again |-> Packet(again[k], FALSE)]
           second == [k \in DOMAIN new |-> Packet(new[k], answers /\ k = 1)]
<1>1. b.next \in Nat \ {0} /\ b.next = buf.next /\ n \in Nat
  <2>1. b.head \in Nat \ {0} /\ b.next \in Nat /\ b.tail \in Nat /\ b.head <= b.next
    BY SoundFinite DEF Fits, Sound
  <2>2. n \in 0 .. b.tail - b.next /\ b.next = buf.next
    BY DEF Fits
  <2> QED
    BY <2>1, <2>2
<1>2. m \in Nat /\ answers \in BOOLEAN
  BY <1>1
<1>3. first \in Seq(D) /\ Len(first) = 0
  <2>1. IsFiniteSet({}) /\ Cardinality({}) = 0
    BY FS_EmptySet
  <2>2. DOMAIN again = 1 .. 0
    BY <2>1, AscendingRange
  <2> HIDE DEF again, D
  <2>3. first \in [1 .. 0 -> D]
    BY <2>2
  <2> QED
    BY <2>3, SeqOfFunction
<1>4. /\ second \in Seq(D) /\ Len(second) = n
      /\ \A k \in 1 .. n : second[k].seg = b.next + k - 1
  <2>1. DOMAIN new = 1 .. n /\ \A k \in 1 .. n : new[k] = b.next + k - 1
    BY DEF Fresh
  <2>2. \A k \in 1 .. n : new[k] \in 1 .. m - 1
    BY <1>1, <2>1
  <2> HIDE DEF new, answers, m
  <2>3. second \in [1 .. n -> D]
    BY <1>2, <2>1, <2>2 DEF Packet, DataBelow
  <2>4. \A k \in 1 .. n : second[k].seg = new[k]
    BY <2>1 DEF Packet
  <2> QED
    BY <1>1, <2>1, <2>3, <2>4, SeqOfFunction
<1>5. data \in Seq(D)
  <2>1. buf.next \in Nat /\ b.next + n \in Nat /\ buf.next <= b.next + n
    BY <1>1
  <2> QED
    BY <2>1, DataBelowGrows
<1>6. data' = data \o first \o second
  BY DEF Transmit, Fresh
<1> HIDE DEF first, second, D
<1> DEFINE s == data \o first
<1>7. /\ s \in Seq(D) /\ Len(s) = Len(data) + 0
      /\ \A i \in 1 .. Len(data) + 0 : s[i] = IF i <= Len(data) THEN data[i]
                                               ELSE first[i - Len(data)]
  BY <1>3, <1>5, ConcatProperties
<1> DEFINE l == Len(data)
<1>8. l \in Nat
  BY <1>5, LenProperties
<1> HIDE DEF l
<1>9. Len(s) = l /\ \A i \in 1 .. l : s[i] = data[i]
  <2>1. l + 0 = l
    BY <1>8
  <2> QED
    BY <1>7, <1>8, <2>1 DEF l
<1> HIDE DEF s
<1>10. /\ Len(s \o second) = l + n
       /\ \A i \in 1 .. l + n : (s \o second)[i] = IF i <= l THEN s[i] ELSE second[i - l]
  BY <1>4, <1>7, <1>9, ConcatProperties, ZenonT(60)
<1>11. data' = s \o second
  BY <1>6 DEF s
<1>12. \A i \in 1 .. l : data'[i] = data[i]
  BY <1>1, <1>8, <1>9, <1>10, <1>11
<1>13. ASSUME NEW k \in 1 .. n PROVE data'[l + k].seg = buf.next + k - 1
  <2> DEFINE j == l + k
  <2>1. j \in 1 .. l + n /\ ~(j <= l) /\ j - l = k
    BY <1>1, <1>8
  <2> HIDE DEF j
  <2>2. data'[j] = second[k]
    BY <1>10, <1>11, <2>1
  <2>3. data'[l + k] = second[k]
    BY <2>2 DEF j
  <2> QED
    BY <1>1, <1>4, <2>3
<1> QED
  BY <1>10, <1>11, <1>12, <1>13 DEF l

\* The l packets of s are of the segments from r on, in order.
Consecutive(s, l, r) == \A i \in 1 .. l : s[i].seg = r + i - 1

\* n packets, of the segments from p on, were added to s to give t.
Extends(t, s, l, n, p) ==
    /\ \A i \in 1 .. l : t[i] = s[i]
    /\ \A k \in 1 .. n : t[l + k].seg = p + k - 1

\* Packets added where the others end leave them all in order.
LEMMA OrderGrows ==
    ASSUME NEW l \in Nat, NEW n \in Nat, NEW p \in Nat, NEW r \in Nat, l = p - r,
           NEW s, Consecutive(s, l, r), NEW t, Extends(t, s, l, n, p)
    PROVE  Consecutive(t, l + n, r)
<1>1. ASSUME NEW i \in 1 .. l + n, i <= l PROVE t[i].seg = r + i - 1
  <2>1. i \in 1 .. l
    BY <1>1
  <2> QED
    BY <2>1 DEF Consecutive, Extends
<1>2. ASSUME NEW i \in 1 .. l + n, ~(i <= l) PROVE t[i].seg = r + i - 1
  <2> DEFINE k == i - l
  <2>1. k \in 1 .. n /\ l + k = i /\ p + k - 1 = r + i - 1
    BY <1>2
  <2> HIDE DEF k
  <2>2. t[l + k].seg = p + k - 1
    BY <2>1 DEF Extends
  <2> QED
    BY <2>1, <2>2
<1> QED
  BY <1>1, <1>2 DEF Consecutive

\* So the order stays, and nothing was sent twice.
LEMMA CalmSend ==
    ASSUME BufferInv, LogInv, data \in Seq(DataBelow(buf.next)),
           \A s \in 1 .. N : copies[s] <= 1, DataInOrder, rcvNext \in Nat, rcvNext <= buf.next,
           NEW b, Sound(b), b.next = buf.next, b.tail = buf.tail, b.lost = {}, b.sacked = {},
           NEW w \in 1 .. MaxWindow, NEW h, NEW e, NEW armed, Logs(h, e),
           SendPendingData(b, w, h, e, armed), rcvBuf' = rcvBuf, rcvNext' = rcvNext
    PROVE  /\ buf'.head = b.head /\ buf'.lost = {} /\ buf'.sacked = {}
           /\ \A s \in 1 .. N : copies'[s] <= 1
           /\ DataInOrder'
<1>1. PICK n \in 0 .. b.tail - b.next : Transmit(b, h, e, {}, n)
  BY NothingToResend
<1>2. Fits(b, h, e, {}, n)
  BY DEF Fits
<1>3. /\ buf'.head = b.head /\ buf'.next = b.next + n
      /\ buf'.lost = {} /\ buf'.sacked = {}
  BY <1>1, <1>2, TransmitBuffer
<1>4. b.next \in Nat /\ b.tail \in Nat /\ n \in Nat
  BY SoundFinite
<1>5. \A s \in 1 .. N : copies'[s] <= 1
  <2>1. \A s \in 1 .. N :
           copies'[s] = copies[s] + IF s \in {} \cup b.next .. b.next + n - 1 THEN 1 ELSE 0
    BY <1>1, <1>2, TransmitLog
  <2>2. ASSUME NEW s \in 1 .. N PROVE copies'[s] <= 1
    <3>1. copies[s] \in Nat /\ copies[s] <= 1
      BY DEF LogInv
    <3>2. CASE s \in b.next .. b.next + n - 1
      <4>1. ~(s < buf.next)
        BY <1>4, <3>2
      <4>2. copies[s] = 0
        BY <4>1 DEF LogInv
      <4> QED
        BY <2>1, <3>2, <4>2
    <3>3. CASE s \notin b.next .. b.next + n - 1
      BY <2>1, <3>1, <3>3
    <3> QED
      BY <3>2, <3>3
  <2> QED
    BY <2>2
<1> DEFINE l == Len(data)
<1>6. /\ Len(data') = l + n
      /\ \A i \in 1 .. l : data'[i] = data[i]
      /\ \A k \in 1 .. n : data'[l + k].seg = buf.next + k - 1
  BY <1>1, <1>2, TransmitOrder, ZenonT(60)
<1>7. l \in Nat /\ l = buf.next - rcvNext /\ \A i \in 1 .. l : data[i].seg = rcvNext + i - 1
  BY LenProperties DEF DataInOrder
<1> HIDE DEF l
<1>8. Len(data') = buf'.next - rcvNext
  BY <1>3, <1>4, <1>6, <1>7
<1>9. \A i \in 1 .. l + n : data'[i].seg = rcvNext + i - 1
  <2> DEFINE p == buf.next
             r == rcvNext
             t == data'
  <2>1. /\ l \in Nat /\ n \in Nat /\ p \in Nat /\ r \in Nat /\ l = p - r
    BY <1>4, <1>7
  <2>2. Consecutive(data, l, r) /\ Extends(t, data, l, n, p)
    BY <1>6, <1>7 DEF Consecutive, Extends
  <2> HIDE DEF p, r, t
  <2>3. Consecutive(t, l + n, r)
    BY <2>1, <2>2, OrderGrows
  <2> QED
    BY <2>3 DEF Consecutive, t, r
<1>10. DataInOrder'
  BY <1>6, <1>8, <1>9 DEF DataInOrder
<1> QED
  BY <1>3, <1>5, <1>10

----------------------------------------------------------------------------
(* The steps *)

\* The oldest ACK arrives: the others rise above it.
LEMMA AcksShift ==
    ASSUME acks \in Seq(AckBelow(rcvNext)), rcvNext \in Nat, Len(acks) # 0, AcksRise, AcksCurrent,
           acks' = RemoveAt(acks, 1), buf'.head = acks[1].ack,
           rcvNext' = rcvNext, delAckCount' = delAckCount
    PROVE  AcksRise' /\ AcksCurrent'
<1> DEFINE l == Len(acks)
           rest == RemoveAt(acks, 1)
<1>1. l \in Nat /\ l >= 1 /\ Len(rest) = l - 1 /\ \A j \in 1 .. l - 1 : rest[j] = acks[j + 1]
  <2>1. l \in Nat /\ l # 0
    BY LenProperties
  <2>2. Len(rest) = l - 1 /\ \A j \in 1 .. l - 1 : rest[j] = acks[j + 1]
    BY RemoveAtOne
  <2> QED
    BY <2>1, <2>2
<1>2. /\ \A i, j \in 1 .. l : i < j => acks[i].ack < acks[j].ack
      /\ OwesAck => \A i \in 1 .. l : acks[i].ack < rcvNext
      /\ ~OwesAck => acks[l].ack = rcvNext
  BY DEF AcksRise, AcksCurrent
<1>3. OwesAck' <=> OwesAck
  BY DEF OwesAck
<1>4. acks' = rest /\ buf'.head = acks[1].ack /\ rcvNext' = rcvNext
  OBVIOUS
<1> HIDE DEF l, rest
<1>5. 1 \in 1 .. l /\ \A j \in 1 .. l - 1 : j + 1 \in 1 .. l
  BY <1>1
<1>6. ASSUME NEW j \in 1 .. l - 1 PROVE acks[1].ack < rest[j].ack
  <2>1. j + 1 \in 1 .. l /\ 1 < j + 1
    BY <1>1
  <2>2. acks[1].ack < acks[j + 1].ack
    BY <1>2, <1>5, <2>1
  <2> QED
    BY <1>1, <2>2
<1>7. ASSUME NEW i \in 1 .. l - 1, NEW j \in 1 .. l - 1, i < j PROVE rest[i].ack < rest[j].ack
  <2>1. i + 1 \in 1 .. l /\ j + 1 \in 1 .. l /\ i + 1 < j + 1
    BY <1>1, <1>7
  <2>2. acks[i + 1].ack < acks[j + 1].ack
    BY <1>2, <2>1
  <2> QED
    BY <1>1, <2>2
<1>8. AcksRise'
  BY <1>1, <1>4, <1>6, <1>7 DEF AcksRise
<1>9. CASE OwesAck
  <2>1. \A j \in 1 .. l - 1 : rest[j].ack < rcvNext
    BY <1>1, <1>2, <1>5, <1>9
  <2>2. acks[1].ack < rcvNext
    BY <1>2, <1>5, <1>9
  <2>3. AcksCurrent'
    BY <1>1, <1>3, <1>4, <1>9, <2>1, <2>2 DEF AcksCurrent
  <2> QED
    BY <1>8, <2>3
<1>10. CASE ~OwesAck
  <2>1. CASE l = 1
    <3>1. Len(acks') = 0 /\ buf'.head = rcvNext'
      BY <1>1, <1>2, <1>4, <1>10, <2>1
    <3>2. AcksCurrent'
      BY <1>3, <1>10, <3>1 DEF AcksCurrent
    <3> QED
      BY <1>8, <3>2
  <2>2. CASE l # 1
    <3> DEFINE m == l - 1
    <3>1. m \in 1 .. l - 1 /\ m + 1 = l /\ m # 0
      BY <1>1, <2>2
    <3>2. Len(acks') = m
      BY <1>1, <1>4
    <3> HIDE DEF m
    <3>3. acks'[m].ack = rcvNext'
      BY <1>1, <1>2, <1>4, <1>10, <3>1
    <3>4. AcksCurrent'
      BY <1>3, <1>10, <3>1, <3>2, <3>3 DEF AcksCurrent
    <3> QED
      BY <1>8, <3>4
  <2> QED
    BY <2>1, <2>2
<1> QED
  BY <1>9, <1>10

\* An ACK is sent that acknowledges more than those before, which makes up for
\* one that was owed.
LEMMA AcksAppend ==
    ASSUME acks \in Seq(AckBelow(rcvNext)), rcvNext \in Nat, rcvNext' \in Nat, rcvNext <= rcvNext',
           AcksRise, buf' = buf, buf.head \in Nat, buf.head < rcvNext',
           \A i \in 1 .. Len(acks) : acks[i].ack < rcvNext',
           NEW e, AckNow(e)
    PROVE  AcksRise' /\ AcksCurrent'
<1> DEFINE l == Len(acks)
           new == [ack |-> rcvNext', ece |-> e.state \in {"CE_RCVD", "SENDING_ECE"}]
           more == Append(acks, new)
           m == l + 1
<1>1. l \in Nat /\ m \in Nat /\ m # 0
  BY LenProperties
<1>2. /\ Len(more) = m /\ more[m].ack = rcvNext'
      /\ \A i \in 1 .. l : more[i] = acks[i]
  <2>1. acks \in Seq(AckBelow(rcvNext) \cup {new})
    <3>1. AckBelow(rcvNext) \subseteq AckBelow(rcvNext) \cup {new}
      OBVIOUS
    <3> HIDE DEF new
    <3> QED
      BY <3>1, SeqMonotonic
  <2>2. new.ack = rcvNext'
    OBVIOUS
  <2> HIDE DEF new
  <2>3. Len(more) = m /\ more[m] = new /\ \A i \in 1 .. l : more[i] = acks[i]
    BY <2>1, AppendProperties
  <2> QED
    BY <2>2, <2>3
<1>3. acks' = more /\ delAckCount' = 0
  BY DEF AckNow
<1>4. /\ \A i \in 1 .. l : buf.head < acks[i].ack
      /\ \A i, j \in 1 .. l : i < j => acks[i].ack < acks[j].ack
  BY DEF AcksRise
<1>5. ~OwesAck'
  BY <1>3 DEF OwesAck
<1>6. \A i \in 1 .. l : acks[i].ack < rcvNext'
  OBVIOUS
<1> HIDE DEF l, new, more
<1>7. \A i \in 1 .. m : i \in 1 .. l \/ i = m
  BY <1>1
<1>8. \A i \in 1 .. m : buf.head < more[i].ack
  BY <1>2, <1>4, <1>7
<1>9. ASSUME NEW i \in 1 .. m, NEW j \in 1 .. m, i < j PROVE more[i].ack < more[j].ack
  <2>1. i \in 1 .. l
    BY <1>1, <1>9
  <2>2. CASE j \in 1 .. l
    BY <1>2, <1>4, <1>9, <2>1, <2>2
  <2>3. CASE j = m
    BY <1>2, <1>6, <2>1, <2>3
  <2> QED
    BY <1>7, <2>2, <2>3
<1> HIDE DEF m
<1>10. AcksRise'
  BY <1>2, <1>3, <1>8, <1>9 DEF AcksRise
<1>11. AcksCurrent'
  BY <1>1, <1>2, <1>3, <1>5 DEF AcksCurrent
<1> QED
  BY <1>10, <1>11

\* An ACK arrives: it is one of new data, and only new data is sent.
LEMMA RecvAckOrder ==
    ASSUME IInv, OrderInv, Displace = 0, NEW i \in DOMAIN acks, RecvAck(i)
    PROVE  OrderInv'
<1> DEFINE a == acks[1]
<1>1. acks \in Seq(AckBelow(rcvNext)) /\ rcvNext \in Nat /\ data \in Seq(DataBelow(buf.next))
  BY DEF IInv, PathInv
<1>2. i = 1 /\ Len(acks) # 0 /\ 1 \in DOMAIN acks
  <2>1. i \in 1 .. Len(acks) /\ Len(acks) \in Nat /\ DOMAIN acks = 1 .. Len(acks)
    BY <1>1, LenProperties
  <2>2. i <= Displace + 1
    BY DEF RecvAck, Arrives
  <2> QED
    BY <2>1, <2>2
<1>3. a \in AckBelow(rcvNext) /\ a.ack > buf.head
  <2>1. 1 \in 1 .. Len(acks)
    BY <1>1, <1>2, LenProperties
  <2>2. buf.head < a.ack
    BY <2>1 DEF OrderInv, AcksRise
  <2>3. a \in AckBelow(rcvNext)
    BY <1>1, <2>1, ElementOfSeq
  <2>4. a.ack \in Nat /\ buf.head \in Nat
    BY <1>1, <2>3, BufferNumbers DEF AckBelow, IInv, Steady
  <2> QED
    BY <2>2, <2>3, <2>4
<1>4. /\ acks' = RemoveAt(acks, 1) /\ dropped' = dropped /\ ~dropped /\ ReceivedAck(a)
      /\ UNCHANGED receiver
  BY <1>2 DEF RecvAck, OrderInv, Calm
<1>5. Steady /\ buf.sacked = {} /\ buf.lost = {} /\ congState \in {"OPEN", "CWR"}
  BY DEF IInv, OrderInv, Calm
<1> DEFINE b == DiscardUpTo(buf, a.ack)
           h == ForgetAcked(history, a.ack)
           e == AfterEcho(a)
<1>6. Logs(h, e)
  BY <1>3, AckLogs
<1>7. a.ack \in Nat /\ buf.head < a.ack /\ a.ack <= buf.next /\ buf.head \in Nat
  <2>1. a.ack \in 1 .. rcvNext /\ rcvNext <= buf.next
    BY <1>3 DEF AckBelow, IInv, PathInv
  <2> QED
    BY <1>1, <1>3, <2>1, BufferNumbers DEF IInv, Steady
<1> HIDE DEF a
<1>8. Sound(b) /\ b.head = a.ack /\ b.next = buf.next /\ b.tail = buf.tail
      /\ b.lost = {} /\ b.sacked = {}
  BY <1>5, <1>7, AckedBuffer
<1>9. PICK k \in Congestion(a), segs \in {a.ack - recover, a.ack - buf.head} :
        \/ PartialAckInRecovery(b, h, e, k)
        \/ PartialAckInLoss(b, h, e, k, a.ack - buf.head)
        \/ AckInCwr(b, h, e, k)
        \/ FullAck(b, h, e, k, segs)
  <2>1. ~(a.ack < buf.head) /\ a.ack # buf.head
    BY <1>7
  <2>2. PICK c \in {b}, g \in {h}, f \in {e}, k \in Congestion(a) :
          \/ PartialAckInRecovery(c, g, f, k)
          \/ PartialAckInLoss(c, g, f, k, a.ack - buf.head)
          \/ AckInCwr(c, g, f, k)
          \/ FullAck(c, g, f, k, IF k.state = "LOSS" THEN a.ack - recover ELSE a.ack - buf.head)
    BY <1>4, <2>1 DEF ReceivedAck
  <2>3. c = b /\ g = h /\ f = e
    OBVIOUS
  <2> HIDE DEF b, h, e
  <2> QED
    BY <2>2, <2>3
<1> HIDE DEF b, h, e
<1>10. /\ k.state \in {"OPEN", "CWR"}
       /\ k.cwnd \in 1 .. MaxWindow /\ k.ssThresh \in 1 .. MaxWindow
       /\ ssThresh \in 1 .. MaxWindow
  <2>1. CongestionTypes
    BY <1>5 DEF Steady
  <2>2. k.cwnd \in 1 .. MaxWindow /\ k.ssThresh \in 2 .. MaxWindow
        /\ k.state \in {"CWR", "OPEN", congState}
    BY <2>1, CongestionRange
  <2>3. ssThresh \in 2 .. MaxWindow /\ MaxWindow \in Nat
    BY <2>1, BoundsAssumption DEF CongestionTypes
  <2> QED
    BY <1>5, <2>2, <2>3
<1>11. PICK w \in 1 .. MaxWindow, armed \in {ArmedByNewAck(b, TRUE)} :
          SendPendingData(b, w, h, e, armed) /\ congState' \in {"OPEN", "CWR"}
  <2>1. CASE AckInCwr(b, h, e, k)
    <3>1. PICK w \in {k.cwnd, k.ssThresh} : SendPendingData(b, w, h, e, ArmedByNewAck(b, TRUE))
      BY <2>1 DEF AckInCwr
    <3>2. congState' \in {"OPEN", "CWR"} /\ w \in 1 .. MaxWindow
      BY <1>10, <2>1 DEF AckInCwr
    <3> QED
      BY <3>1, <3>2
  <2>2. CASE FullAck(b, h, e, k, segs)
    <3> DEFINE v == IF k.state = "RECOVERY" THEN ssThresh ELSE k.cwnd
    <3>1. PICK w \in IncreaseWindow(v, segs) :
             SendPendingData(b, w, h, e, ArmedByNewAck(b, TRUE))
      BY <2>2 DEF FullAck
    <3>2. v \in 1 .. MaxWindow
      BY <1>10
    <3>3. w \in 1 .. MaxWindow
      BY <3>2, BoundsAssumption DEF IncreaseWindow
    <3>4. congState' \in {"OPEN", "CWR"}
      BY <2>2 DEF FullAck
    <3> QED
      BY <3>1, <3>3, <3>4
  <2>3. ~PartialAckInRecovery(b, h, e, k) /\ ~PartialAckInLoss(b, h, e, k, a.ack - buf.head)
    BY <1>10 DEF PartialAckInRecovery, PartialAckInLoss
  <2> QED
    BY <1>9, <2>1, <2>2, <2>3
<1>12. rcvBuf' = rcvBuf /\ rcvNext' = rcvNext /\ delAckCount' = delAckCount
  BY <1>4 DEF receiver
<1>13. /\ buf'.head = b.head /\ buf'.lost = {} /\ buf'.sacked = {}
       /\ \A s \in 1 .. N : copies'[s] <= 1
       /\ DataInOrder'
  <2>1. /\ BufferInv /\ LogInv /\ rcvNext <= buf.next
        /\ \A s \in 1 .. N : copies[s] <= 1
        /\ DataInOrder
    BY DEF IInv, Steady, PathInv, OrderInv, Calm
  <2> QED
    BY <1>1, <1>6, <1>8, <1>11, <1>12, <2>1, CalmSend
<1>14. AcksRise' /\ AcksCurrent'
  <2>1. buf'.head = acks[1].ack
    BY <1>8, <1>13 DEF a
  <2> QED
    BY <1>1, <1>2, <1>4, <1>12, <2>1, AcksShift DEF OrderInv
<1> QED
  BY <1>4, <1>11, <1>13, <1>14 DEF OrderInv, Calm

\* Steps that leave the sender, but perhaps for what is still to be sent, alone.
SenderCalm ==
    /\ buf'.head = buf.head /\ buf'.next = buf.next
    /\ buf'.lost = buf.lost /\ buf'.sacked = buf.sacked
    /\ UNCHANGED <<dropped, congState, copies>>

\* The application writes a segment.
LEMMA SendOrder ==
    ASSUME IInv, OrderInv, Send
    PROVE  OrderInv'
<1>1. buf \in TxBuffers
  BY DEF IInv, Steady, BufferInv, Sound
<1>2. SenderCalm /\ UNCHANGED <<data, acks, receiver>>
  BY <1>1 DEF Send, SenderCalm, TxBuffers, congestion
<1> QED
  BY <1>2 DEF OrderInv, Calm, SenderCalm, DataInOrder, AcksRise, AcksCurrent, OwesAck, receiver

\* The scheduled SendPendingData sends new segments.
LEMMA SendEventOrder ==
    ASSUME IInv, OrderInv, SendPendingDataEvent
    PROVE  OrderInv'
<1>1. UNCHANGED <<congestion, dropped, acks, receiver>>
  BY DEF SendPendingDataEvent
<1>2. CASE dropped \/ BufferSize(buf) = 0
  <2>1. UNCHANGED <<buf, data, copies>>
    BY <1>2 DEF SendPendingDataEvent
  <2> QED
    BY <1>1, <2>1
    DEF OrderInv, Calm, DataInOrder, AcksRise, AcksCurrent, OwesAck, receiver, congestion
<1>3. CASE ~(dropped \/ BufferSize(buf) = 0)
  <2>1. SendPendingData(buf, cwnd, history, ecn, retxRunning)
    BY <1>3 DEF SendPendingDataEvent
  <2>2. /\ BufferInv /\ Sound(buf) /\ LogInv /\ Logs(history, ecn) /\ cwnd \in 1 .. MaxWindow
        /\ data \in Seq(DataBelow(buf.next)) /\ rcvNext \in Nat /\ rcvNext <= buf.next
    BY DEF IInv, Steady, BufferInv, CongestionTypes, LogInv, OtherTypes, Logs, PathInv
  <2>3. /\ buf.lost = {} /\ buf.sacked = {} /\ DataInOrder
        /\ \A s \in 1 .. N : copies[s] <= 1
    BY DEF OrderInv, Calm
  <2>4. rcvBuf' = rcvBuf /\ rcvNext' = rcvNext /\ delAckCount' = delAckCount
    BY <1>1 DEF receiver
  <2>5. /\ buf'.head = buf.head /\ buf'.lost = {} /\ buf'.sacked = {}
        /\ \A s \in 1 .. N : copies'[s] <= 1
        /\ DataInOrder'
    BY <2>1, <2>2, <2>3, <2>4, CalmSend
  <2> QED
    BY <1>1, <2>4, <2>5 DEF OrderInv, Calm, AcksRise, AcksCurrent, OwesAck, congestion
<1> QED
  BY <1>2, <1>3

\* The timer cannot expire: with nothing under way and no ACK owed, everything
\* sent was acknowledged, and the timer does not run.
LEMMA NoTimeout ==
    ASSUME IInv, OrderInv, Patience = "peer"
    PROVE  ~ReTxTimeout /\ ~ReTxGiveUp
<1>1. SUFFICES ASSUME retxRunning, ~dropped, Due PROVE FALSE
  BY DEF ReTxTimeout, ReTxGiveUp
<1>2. data = <<>> /\ acks = <<>> /\ ~OwesAck
  BY <1>1 DEF Due, OwesAck
<1>3. Len(data) = 0 /\ Len(acks) = 0
  BY <1>2
<1>4. buf.next \in Nat /\ rcvNext \in Nat /\ buf.head \in Nat
  BY BufferNumbers DEF IInv, Steady, PathInv
<1>5. buf.next = rcvNext /\ buf.head = rcvNext
  BY <1>2, <1>3, <1>4 DEF OrderInv, DataInOrder, AcksCurrent
<1>6. Outstanding(buf) = {}
  BY <1>4, <1>5 DEF Outstanding
<1> QED
  BY <1>1, <1>6 DEF IInv, Steady, TimerArmed

\* The delayed ACK is sent.
LEMMA DelAckOrder ==
    ASSUME IInv, OrderInv, DelAckTimeout
    PROVE  OrderInv'
<1>1. /\ OwesAck /\ AckNow(rcvEcn)
      /\ UNCHANGED <<rcvNext, rcvBuf, buf, dropped, congState, copies, data>>
  BY DEF DelAckTimeout, OwesAck, sender, congestion
<1>2. acks \in Seq(AckBelow(rcvNext)) /\ rcvNext \in Nat /\ buf.head \in Nat
  BY BufferNumbers DEF IInv, Steady, PathInv
<1>3. AcksRise /\ buf.head < rcvNext /\ \A i \in 1 .. Len(acks) : acks[i].ack < rcvNext
  BY <1>1 DEF OrderInv, AcksCurrent
<1>4. AcksRise' /\ AcksCurrent'
  <2>1. rcvNext' \in Nat /\ rcvNext <= rcvNext' /\ buf.head < rcvNext' /\ buf' = buf
        /\ \A i \in 1 .. Len(acks) : acks[i].ack < rcvNext'
    BY <1>1, <1>2, <1>3
  <2> QED
    BY <1>1, <1>2, <1>3, <2>1, AcksAppend
<1> QED
  BY <1>1, <1>4 DEF OrderInv, Calm, DataInOrder

\* The segment in sequence arrives; nothing waits above it.
LEMMA InSequence ==
    ASSUME rcvNext \in Nat \ {0}, rcvBuf = {}, rcvNext <= N, NEW e, ReceivedData(rcvNext, e)
    PROVE  /\ rcvNext' = rcvNext + 1 /\ rcvBuf' = {}
           /\ \/ delAckCount' = delAckCount + 1 /\ delAckCount + 1 < DelAckMax /\ acks' = acks
              \/ AckNow(e)
<1> DEFINE all == 1 .. rcvNext - 1 \cup rcvBuf \cup {rcvNext}
           next == NextMissing(all)
           t == rcvNext + 1
<1>1. N \in Nat /\ t \in 1 .. N + 1 /\ t \in 1 .. t /\ t \in Nat
  BY BoundsAssumption
<1>2. all = 1 .. t - 1
  <2>1. \A x \in all : x \in 1 .. t - 1
    OBVIOUS
  <2>2. \A x \in 1 .. t - 1 : x \in all
    OBVIOUS
  <2> QED
    BY <2>1, <2>2
<1>3. rcvNext' = next /\ rcvBuf' = {n \in all : n > next}
  BY DEF ReceivedData
<1>4. \/ delAckCount' = delAckCount + 1 /\ delAckCount + 1 < DelAckMax /\ acks' = acks
      \/ AckNow(e)
  BY DEF ReceivedData
<1> HIDE DEF all, t
<1>5. next \in t .. t
  BY <1>1, <1>2, NextMissingRange
<1> HIDE DEF next
<1>6. next = t
  BY <1>1, <1>5
<1>7. rcvBuf' = {}
  <2>1. \A x \in 1 .. t - 1 : ~(x > t)
    BY <1>1
  <2> QED
    BY <1>2, <1>3, <1>6, <2>1
<1> QED
  BY <1>3, <1>4, <1>6, <1>7 DEF t

\* The oldest segment arrives: the others follow it.
LEMMA DataShift ==
    ASSUME data \in Seq(DataBelow(buf.next)), buf.next \in Nat, rcvNext \in Nat, Len(data) # 0,
           DataInOrder, data' = RemoveAt(data, 1), buf'.next = buf.next,
           rcvNext' = rcvNext + 1, rcvBuf' = {}
    PROVE  DataInOrder'
<1> DEFINE l == Len(data)
           rest == RemoveAt(data, 1)
           p == buf.next
<1>1. l \in Nat /\ Len(rest) = l - 1 /\ \A j \in 1 .. l - 1 : rest[j] = data[j + 1]
  BY RemoveAtOne, LenProperties
<1>2. l = p - rcvNext /\ \A i \in 1 .. l : data[i].seg = rcvNext + i - 1
  BY DEF DataInOrder
<1>3. p \in Nat
  OBVIOUS
<1> HIDE DEF l, rest, p
<1>4. l - 1 = p - (rcvNext + 1)
  BY <1>1, <1>2, <1>3
<1>5. ASSUME NEW j \in 1 .. l - 1 PROVE rest[j].seg = rcvNext + 1 + j - 1
  <2> DEFINE k == j + 1
  <2>1. k \in 1 .. l /\ rcvNext + k - 1 = rcvNext + 1 + j - 1
    BY <1>1
  <2>2. rest[j] = data[k]
    BY <1>1
  <2> HIDE DEF k
  <2> QED
    BY <1>2, <2>1, <2>2
<1> DEFINE q == rcvNext'
<1>6. q = rcvNext + 1
  OBVIOUS
<1> HIDE DEF q
<1>7. Len(rest) = p - q /\ \A j \in 1 .. Len(rest) : rest[j].seg = q + j - 1
  BY <1>1, <1>4, <1>5, <1>6
<1> QED
  BY <1>7 DEF DataInOrder, rest, p, q

\* A segment arrives: it is the next one in sequence.
LEMMA RecvDataOrder ==
    ASSUME IInv, OrderInv, Displace = 0, NEW i \in DOMAIN data, RecvData(i)
    PROVE  OrderInv'
<1> DEFINE p == data[1]
<1>1. /\ acks \in Seq(AckBelow(rcvNext)) /\ rcvNext \in Nat /\ data \in Seq(DataBelow(buf.next))
      /\ delAckCount \in Nat /\ buf.head \in Nat /\ buf.head <= rcvNext
      /\ buf.head \in 1 .. N + 1 /\ buf.next \in 1 .. N + 1
  BY BufferNumbers, SocketAssumption DEF IInv, PathInv, Steady
<1>2. i = 1 /\ Len(data) # 0 /\ 1 \in 1 .. Len(data)
  <2>1. i \in 1 .. Len(data) /\ Len(data) \in Nat
    BY <1>1, LenProperties
  <2>2. i <= Displace + 1
    BY DEF RecvData, Arrives
  <2> QED
    BY <2>1, <2>2
<1>3. p.seg = rcvNext /\ rcvBuf = {}
  BY <1>1, <1>2 DEF OrderInv, DataInOrder
<1>4. p.seg \in 1 .. buf.next - 1
  <2>1. p \in DataBelow(buf.next)
    BY <1>1, <1>2, ElementOfSeq
  <2> QED
    BY <2>1 DEF DataBelow
<1>5. /\ data' = RemoveAt(data, 1) /\ UNCHANGED <<buf, dropped, congState, copies>>
      /\ ReceivedData(rcvNext, HeadersRead(p))
  <2>1. ~OutOfRange(p.seg)
    BY <1>1, <1>3 DEF OutOfRange
  <2> QED
    BY <1>2, <1>3, <2>1 DEF RecvData, sender, congestion
<1> HIDE DEF p
<1>6. rcvNext \in Nat \ {0} /\ rcvNext <= N
  BY <1>1, <1>3, <1>4, BoundsAssumption
<1> DEFINE e == HeadersRead(p)
<1> HIDE DEF e
<1>7. /\ rcvNext' = rcvNext + 1 /\ rcvBuf' = {}
      /\ \/ delAckCount' = delAckCount + 1 /\ delAckCount + 1 < DelAckMax /\ acks' = acks
         \/ AckNow(e)
  BY <1>3, <1>5, <1>6, InSequence DEF e
<1>8. DataInOrder'
  <2>1. buf'.next = buf.next /\ buf.next \in Nat
    BY <1>1, <1>5
  <2> QED
    BY <1>1, <1>2, <1>5, <1>7, <2>1, DataShift DEF OrderInv
<1>9. /\ AcksRise /\ rcvNext' \in Nat /\ rcvNext <= rcvNext' /\ buf.head < rcvNext'
      /\ \A j \in 1 .. Len(acks) : acks[j].ack < rcvNext'
  <2>1. \A j \in 1 .. Len(acks) : acks[j].ack \in 1 .. rcvNext
    <3>1. \A j \in 1 .. Len(acks) : acks[j] \in AckBelow(rcvNext)
      BY <1>1, ElementOfSeq
    <3> QED
      BY <3>1 DEF AckBelow
  <2>2. \A j \in 1 .. Len(acks) : acks[j].ack < rcvNext + 1
    BY <1>1, <2>1
  <2> QED
    BY <1>1, <1>7, <2>2 DEF OrderInv
<1>10. AcksRise' /\ AcksCurrent'
  <2>1. CASE delAckCount' = delAckCount + 1 /\ delAckCount + 1 < DelAckMax /\ acks' = acks
    <3>1. OwesAck'
      BY <1>1, <2>1, SocketAssumption DEF OwesAck
    <3> QED
      BY <1>5, <1>9, <2>1, <3>1 DEF AcksRise, AcksCurrent
  <2>2. CASE AckNow(e)
    BY <1>1, <1>5, <1>9, <2>2, AcksAppend
  <2> QED
    BY <1>7, <2>1, <2>2
<1> QED
  BY <1>5, <1>8, <1>10 DEF OrderInv, Calm

\* A mark of the path changes no segment.
LEMMA MarkOrder ==
    ASSUME IInv, OrderInv, NEW i \in DOMAIN data, MarkData(i)
    PROVE  OrderInv'
<1>1. data \in Seq(DataBelow(buf.next)) /\ Len(data) \in Nat /\ DOMAIN data = 1 .. Len(data)
  BY LenProperties DEF IInv, PathInv
<1>2. /\ data' = [data EXCEPT ![i] = [data[i] EXCEPT !.ce = TRUE]]
      /\ UNCHANGED <<buf, dropped, congState, copies, acks, receiver>>
  BY DEF MarkData, sender, congestion
<1>3. \A j \in 1 .. Len(data) : data[j] \in DataBelow(buf.next)
  BY <1>1, ElementOfSeq
<1>4. DOMAIN data' = 1 .. Len(data) /\ \A j \in 1 .. Len(data) : data'[j].seg = data[j].seg
  BY <1>1, <1>2, <1>3 DEF DataBelow
<1>5. Len(data') = Len(data)
  <2>1. [data[i] EXCEPT !.ce = TRUE] \in DataBelow(buf.next)
    BY <1>1, <1>3 DEF DataBelow
  <2> QED
    BY <1>1, <1>2, <2>1, ExceptSeq
<1> QED
  BY <1>2, <1>4, <1>5
  DEF OrderInv, Calm, DataInOrder, AcksRise, AcksCurrent, OwesAck, receiver

----------------------------------------------------------------------------
(* The theorem *)

\* Nothing was sent yet.
LEMMA InitOrder ==
    ASSUME Init
    PROVE  OrderInv
<1>1. /\ buf = EmptyTxBuffer /\ congState = "OPEN" /\ ~dropped
      /\ copies = [seg \in 1 .. N |-> 0] /\ data = <<>> /\ acks = <<>>
      /\ rcvNext = 1 /\ rcvBuf = {} /\ delAckCount = DelAckMax
  BY DEF Init
<1>2. /\ buf.head = 1 /\ buf.next = 1 /\ buf.lost = {} /\ buf.sacked = {}
      /\ Len(data) = 0 /\ Len(acks) = 0
  BY <1>1 DEF EmptyTxBuffer
<1>3. ~OwesAck
  BY <1>1, SocketAssumption DEF OwesAck
<1>4. Calm
  BY <1>1, <1>2 DEF Calm
<1>5. DataInOrder /\ AcksRise /\ AcksCurrent
  BY <1>1, <1>2, <1>3 DEF DataInOrder, AcksRise, AcksCurrent
<1> QED
  BY <1>4, <1>5 DEF OrderInv

\* Every step keeps the order while nothing is lost.
LEMMA StepOrder ==
    ASSUME IInv, Orderly => OrderInv, [Next]_vars, Orderly'
    PROVE  OrderInv'
<1>1. losses' = 0 /\ Displace = 0 /\ Patience = "peer"
  BY DEF Orderly
<1>2. losses \in Nat
  BY BoundsAssumption DEF IInv, OtherTypes
<1>3. CASE \/ \E i \in DOMAIN data : LoseData(i)
           \/ \E i \in DOMAIN acks : LoseAck(i)
  BY <1>1, <1>2, <1>3 DEF LoseData, LoseAck
<1>4. ASSUME UNCHANGED losses PROVE OrderInv
  BY <1>1, <1>4 DEF Orderly
<1>5. CASE Send
  BY <1>4, <1>5, SendOrder DEF Send, path
<1>6. CASE SendPendingDataEvent
  BY <1>4, <1>6, SendEventOrder DEF SendPendingDataEvent, path
<1>7. CASE ReTxTimeout \/ ReTxGiveUp
  BY <1>1, <1>4, <1>7, NoTimeout DEF ReTxTimeout, ReTxGiveUp, path
<1>8. CASE DelAckTimeout
  BY <1>4, <1>8, DelAckOrder DEF DelAckTimeout, path
<1>9. ASSUME NEW i \in DOMAIN acks, RecvAck(i) PROVE OrderInv'
  BY <1>1, <1>4, <1>9, RecvAckOrder DEF RecvAck, path
<1>10. ASSUME NEW i \in DOMAIN data, RecvData(i) PROVE OrderInv'
  BY <1>1, <1>4, <1>10, RecvDataOrder DEF RecvData, path
<1>11. ASSUME NEW i \in DOMAIN data, MarkData(i) PROVE OrderInv'
  BY <1>4, <1>11, MarkOrder DEF MarkData
<1>12. CASE UNCHANGED vars
  BY <1>4, <1>12 DEF vars, sender, congestion, path, receiver,
     OrderInv, Calm, DataInOrder, AcksRise, AcksCurrent, OwesAck
<1> QED
  BY <1>3, <1>5, <1>6, <1>7, <1>8, <1>9, <1>10, <1>11, <1>12 DEF Next

\* As long as the path loses nothing and keeps order, with a timer above the
\* round trip and the peer's delayed ACK, no segment is sent twice, whatever the
\* window, the number of segments and the marks of the path.
THEOREM NothingResentKept == Spec => []NothingResent
<1>1. Init => (Orderly => OrderInv)
  BY InitOrder
<1>2. IInv /\ (Orderly => OrderInv) /\ [Next]_vars => (Orderly => OrderInv)'
  BY StepOrder DEF Orderly
<1>3. (Orderly => OrderInv) => NothingResent
  BY DEF Orderly, OrderInv, Calm, NothingResent
<1> QED
  BY <1>1, <1>2, <1>3, Invariance, PTL DEF Spec
=============================================================================
