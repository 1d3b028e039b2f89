--------------------------- MODULE TcpSenderProofs ---------------------------
(***************************************************************************)
(* What holds of the sender and the receiver of TcpSender for every        *)
(* number of segments, every window, threshold, number of retries and of   *)
(* losses, every reordering, and with ECN or without.                      *)
(***************************************************************************)
EXTENDS TcpSender, TcpTxBufferProofs

Entries == [seq : 1 .. N, retx : BOOLEAN]
DataPackets == [seg : 1 .. N, ce : BOOLEAN, cwr : BOOLEAN]
AckPackets == [ack : 1 .. N + 1, ece : BOOLEAN]
EcnStates ==
    [state : {"DISABLED", "IDLE", "ECE_RCVD", "CWR_SENT"}, echoSeq : 0 .. N + 1, cwrSeq : 0 .. N]
RcvEcnStates == [state : {"DISABLED", "IDLE", "CE_RCVD", "SENDING_ECE"}, ceSeq : 0 .. N]

----------------------------------------------------------------------------
(* The RTT history *)

\* What ForgetAcked leaves is part of the history.
LEMMA ForgetAckedRange ==
    ASSUME NEW h \in Seq(Entries), NEW ack
    PROVE  /\ ForgetAcked(h, ack) \in Seq(Entries)
           /\ \A i \in DOMAIN ForgetAcked(h, ack) :
                  \E j \in DOMAIN h : ForgetAcked(h, ack)[i] = h[j]
<1> DEFINE old == {i \in DOMAIN h : h[i].seq < ack}
           m == 1 + Cardinality(old)
           f == ForgetAcked(h, ack)
<1>1. Len(h) \in Nat /\ DOMAIN h = 1 .. Len(h) /\ \A i \in 1 .. Len(h) : h[i] \in Entries
  BY LenProperties, ElementOfSeq
<1>2. m \in Nat /\ m >= 1
  <2>1. old \in SUBSET (1 .. Len(h)) /\ IsFiniteSet(1 .. Len(h))
    BY <1>1, IntervalOfNaturals
  <2>2. Cardinality(old) \in Nat
    BY <2>1, FS_Subset, FS_CardinalityType
  <2> HIDE DEF old
  <2> QED
    BY <2>2
<1>3. f = SubSeq(h, m, Len(h))
  BY DEF ForgetAcked
<1> HIDE DEF m, f
<1>4. \A i \in m .. Len(h) : h[i] \in Entries
  BY <1>1, <1>2
<1>5. /\ f \in Seq(Entries) /\ Len(f) = IF m <= Len(h) THEN Len(h) - m + 1 ELSE 0
      /\ \A i \in 1 .. Len(h) - m + 1 : f[i] = h[m + i - 1]
  <2>1. m \in Int /\ Len(h) \in Int
    BY <1>1, <1>2
  <2> QED
    BY <1>3, <1>4, <2>1, SubSeqProperties
<1>6. DOMAIN f = 1 .. Len(f)
  BY <1>5, LenProperties
<1>7. ASSUME NEW i \in DOMAIN f PROVE \E j \in DOMAIN h : f[i] = h[j]
  <2>1. i \in 1 .. Len(h) - m + 1
    BY <1>1, <1>2, <1>5, <1>6
  <2>2. m + i - 1 \in 1 .. Len(h)
    BY <1>1, <1>2, <2>1
  <2> QED
    BY <1>1, <1>5, <2>1, <2>2
<1> QED
  BY <1>5, <1>7 DEF f

\* MarkRetx marks the entries of the segments R and changes nothing else.
LEMMA MarkRetxRange ==
    ASSUME NEW h \in Seq(Entries), NEW R
    PROVE  /\ MarkRetx(h, R) \in Seq(Entries)
           /\ DOMAIN MarkRetx(h, R) = DOMAIN h
           /\ \A i \in DOMAIN h :
                  /\ MarkRetx(h, R)[i].seq = h[i].seq
                  /\ ~MarkRetx(h, R)[i].retx => ~h[i].retx /\ h[i].seq \notin R
<1> DEFINE g == MarkRetx(h, R)
<1>1. Len(h) \in Nat /\ DOMAIN h = 1 .. Len(h) /\ \A i \in 1 .. Len(h) : h[i] \in Entries
  BY LenProperties, ElementOfSeq
<1>2. DOMAIN g = 1 .. Len(h)
  BY <1>1 DEF MarkRetx
<1>3. ASSUME NEW i \in 1 .. Len(h)
      PROVE  /\ g[i] \in Entries /\ g[i].seq = h[i].seq
             /\ ~g[i].retx => ~h[i].retx /\ h[i].seq \notin R
  <2>1. g[i] = IF h[i].seq \in R THEN [h[i] EXCEPT !.retx = TRUE] ELSE h[i]
    BY <1>1 DEF MarkRetx
  <2>2. h[i] \in Entries
    BY <1>1
  <2> QED
    BY <2>1, <2>2 DEF Entries
<1>4. g \in [1 .. Len(h) -> Entries]
  BY <1>1, <1>2, <1>3 DEF MarkRetx
<1> HIDE DEF g
<1>5. g \in Seq(Entries)
  BY <1>1, <1>4, SeqOfFunction
<1> QED
  BY <1>1, <1>2, <1>3, <1>5 DEF g

\* The n segments from first on, in order.
Fresh(first, n) == [k \in 1 .. n |-> first + k - 1]

\* They are segments of the application, each once.
LEMMA FreshRange ==
    ASSUME NEW first \in Nat \ {0}, NEW n \in Nat, first + n - 1 <= N
    PROVE  /\ Fresh(first, n) \in Seq(1 .. N)
           /\ DOMAIN Fresh(first, n) = 1 .. n /\ Len(Fresh(first, n)) = n
           /\ ToSet(Fresh(first, n)) = first .. first + n - 1
<1> DEFINE f == Fresh(first, n)
<1>1. N \in Nat
  BY BoundsAssumption
<1>2. \A k \in 1 .. n : first + k - 1 \in 1 .. N
  BY <1>1
<1>3. f \in [1 .. n -> 1 .. N] /\ DOMAIN f = 1 .. n
  BY ONLY <1>2 DEF Fresh
<1>4. \A k \in 1 .. n : f[k] = first + k - 1
  BY DEF Fresh
<1> HIDE DEF f
<1>5. f \in Seq(1 .. N) /\ Len(f) = n
  BY <1>3, SeqOfFunction
<1>6. ToSet(f) = first .. first + n - 1
  <2>1. ASSUME NEW x \in first .. first + n - 1 PROVE x \in ToSet(f)
    <3>1. x - first + 1 \in 1 .. n /\ first + (x - first + 1) - 1 = x
      OBVIOUS
    <3>2. f[x - first + 1] = x
      BY <1>4, <3>1
    <3> QED
      BY <1>3, <3>1, <3>2 DEF ToSet
  <2>2. ASSUME NEW x \in ToSet(f) PROVE x \in first .. first + n - 1
    <3>1. PICK k \in 1 .. n : x = f[k]
      BY <1>3 DEF ToSet
    <3> QED
      BY <1>4, <3>1
  <2> QED
    BY <2>1, <2>2
<1> QED
  BY <1>3, <1>5, <1>6 DEF f

\* LogSent adds an unmarked entry for each new segment.
LEMMA LogSentRange ==
    ASSUME NEW h \in Seq(Entries), NEW first \in Nat \ {0}, NEW n \in Nat, first + n - 1 <= N
    PROVE  LET g == LogSent(h, Fresh(first, n))
           IN  /\ g \in Seq(Entries)
               /\ \A i \in DOMAIN g :
                      \/ \E j \in DOMAIN h : g[i] = h[j]
                      \/ g[i].seq \in first .. first + n - 1
<1> DEFINE new == Fresh(first, n)
           tl == [k \in DOMAIN new |-> [seq |-> new[k], retx |-> FALSE]]
           g == h \o tl
<1>1. DOMAIN new = 1 .. n /\ \A k \in 1 .. n : new[k] = first + k - 1
  BY DEF Fresh
<1>2. N \in Nat
  BY BoundsAssumption
<1>3. \A k \in 1 .. n : new[k] \in 1 .. N /\ new[k] \in first .. first + n - 1
  BY <1>1, <1>2
<1> HIDE DEF new
<1>4. tl \in [1 .. n -> Entries] /\ \A k \in 1 .. n : tl[k].seq = new[k]
  BY <1>1, <1>3 DEF Entries
<1> HIDE DEF tl
<1>5. tl \in Seq(Entries) /\ Len(tl) = n
  BY <1>4, SeqOfFunction
<1>6. Len(h) \in Nat /\ DOMAIN h = 1 .. Len(h)
  BY LenProperties
<1>7. /\ g \in Seq(Entries) /\ Len(g) = Len(h) + n
      /\ \A i \in 1 .. Len(h) + n : g[i] = IF i <= Len(h) THEN h[i] ELSE tl[i - Len(h)]
  BY <1>5, ConcatProperties
<1> HIDE DEF g
<1>8. DOMAIN g = 1 .. Len(h) + n
  BY <1>7, LenProperties
<1>9. ASSUME NEW i \in 1 .. Len(h) + n
      PROVE  \/ \E j \in DOMAIN h : g[i] = h[j]
             \/ g[i].seq \in first .. first + n - 1
  <2>1. CASE i <= Len(h)
    BY <1>6, <1>7, <2>1
  <2>2. CASE ~(i <= Len(h))
    <3>1. i - Len(h) \in 1 .. n /\ g[i] = tl[i - Len(h)]
      BY <1>6, <1>7, <2>2
    <3> QED
      BY <1>3, <1>4, <3>1
  <2> QED
    BY <2>1, <2>2
<1>10. LogSent(h, new) = g
  BY DEF LogSent, g, tl
<1> QED
  BY <1>7, <1>8, <1>9, <1>10 DEF new

----------------------------------------------------------------------------
(* The parts of the inductive invariant *)

\* Data packets of segments below m.
DataBelow(m) == [seg : 1 .. m - 1, ce : BOOLEAN, cwr : BOOLEAN]

\* ACKs of at most m.
AckBelow(m) == [ack : 1 .. m, ece : BOOLEAN]

\* The variables have their types.
CongestionTypes ==
    /\ congState \in {"OPEN", "DISORDER", "CWR", "RECOVERY", "LOSS"}
    /\ dupAckCount \in Nat
    /\ recoverActive \in BOOLEAN /\ firstPartial \in BOOLEAN
    /\ retxRunning \in BOOLEAN
    /\ cwnd \in 1 .. MaxWindow /\ ssThresh \in 2 .. MaxWindow

OtherTypes ==
    /\ sendEvent \in BOOLEAN /\ dropped \in BOOLEAN
    /\ dataRetrCount \in 0 .. DataRetries
    /\ ecn \in EcnStates
    /\ losses \in 0 .. MaxLoss /\ marks \in 0 .. MaxMarks

\* The flags of the buffer are consistent.
BufferInv == Sound(buf) /\ buf.tail <= N + 1

\* Whatever is outstanding was sent, nothing else was, and an entry of the
\* history that is not marked is of a segment sent once.
LogInv ==
    /\ history \in Seq(Entries)
    /\ \A i \in DOMAIN history : history[i].seq < buf.next
    /\ copies \in [1 .. N -> Nat]
    /\ \A s \in 1 .. N : IF s < buf.next THEN copies[s] >= 1 ELSE copies[s] = 0
    /\ SamplesUnambiguous

\* At most the head is thought lost.
HeadLost(b) == b.lost \subseteq {b.head}

\* Everything below r is thought lost and was sent again from the head on; new
\* data follows only when all of it was.
LossRepair(b, r) ==
    /\ b.sacked = {} /\ b.lost = b.head .. r - 1
    /\ b.head \in b.retrans
    /\ \A x \in b.retrans, y \in b.lost : y <= x => y \in b.retrans
    /\ Missing(b) # {} => b.next = r

\* What a loss whose repair was cut short may leave.
LossLeft(b, r) == b.sacked = {} /\ b.lost \subseteq b.head .. r - 1

\* How the flags of the buffer go with the congestion state.
RepairInv ==
    /\ recover \in 0 .. buf.next
    /\ congState \in {"OPEN", "DISORDER"} => recover <= buf.head /\ ~recoverActive
    /\ congState = "OPEN" => dupAckCount = 0
    /\ congState = "DISORDER" => dupAckCount < RetxThresh
    /\ congState \in {"OPEN", "DISORDER"} => HeadLost(buf)
    /\ congState = "RECOVERY" => buf.lost = {buf.head} /\ buf.retrans = {buf.head}
    /\ congState = "LOSS" => LossRepair(buf, recover)
    /\ congState = "CWR" => HeadLost(buf) \/ LossLeft(buf, recover)

\* How often the segment at the head was sent, as the retries left say.
RetryInv ==
    /\ dropped => copies[buf.head] >= 1 + DataRetries
    /\ ~dropped => IF buf.head = buf.next THEN dataRetrCount = DataRetries
                   ELSE copies[buf.head] >= 1 + DataRetries - dataRetrCount

\* What is under way was sent, and what is acknowledged was received.
PathInv ==
    /\ rcvNext \in Nat /\ buf.head <= rcvNext /\ rcvNext <= buf.next
    /\ rcvBuf \subseteq rcvNext + 1 .. buf.next - 1
    /\ data \in Seq(DataBelow(buf.next))
    /\ acks \in Seq(AckBelow(rcvNext))
    /\ delAckCount \in 0 .. DelAckMax
    /\ rcvEcn \in RcvEcnStates

----------------------------------------------------------------------------
(* What a transmission does *)

\* A history h and a state e of ECN that Transmit is given.
Logs(h, e) ==
    /\ h \in Seq(Entries)
    /\ \A i \in DOMAIN h : \E j \in DOMAIN history : h[i] = history[j]
    /\ e \in EcnStates

\* A buffer b, segments R of it and a number n of new ones besides.
Fits(b, h, e, R, n) ==
    /\ Sound(b) /\ b.next = buf.next /\ b.tail = buf.tail
    /\ R \subseteq b.lost /\ n \in 0 .. b.tail - b.next
    /\ Logs(h, e)

\* The history and the number of copies stay in step.
LEMMA TransmitLog ==
    ASSUME BufferInv, LogInv,
           NEW b, NEW h, NEW e, NEW R, NEW n, Fits(b, h, e, R, n), Transmit(b, h, e, R, n)
    PROVE  /\ LogInv'
           /\ \A s \in 1 .. N :
                  copies'[s] = copies[s] + IF s \in R \cup b.next .. b.next + n - 1 THEN 1 ELSE 0
<1> DEFINE new == Fresh(b.next, n)
           g == MarkRetx(h, R)
           sent == b.next .. b.next + n - 1
<1>1. /\ b.head \in Nat \ {0} /\ b.next \in Nat \ {0} /\ n \in Nat /\ b.next + n - 1 <= N
      /\ N \in Nat /\ b.next + n <= b.tail
  <2>1. /\ b.head \in Nat \ {0} /\ b.next \in Nat /\ b.tail \in Nat
        /\ b.head <= b.next /\ b.tail <= N + 1
    BY SoundFinite DEF Fits, Sound, BufferInv
  <2>2. n \in 0 .. b.tail - b.next
    BY DEF Fits
  <2>3. N \in Nat
    BY BoundsAssumption
  <2> QED
    BY <2>1, <2>2, <2>3
<1>2. buf'.next = b.next + n /\ b.next = buf.next
  <2>1. Sound(b) /\ R \in SUBSET b.lost /\ n \in 0 .. b.tail - b.next /\ b.next = buf.next
    BY DEF Fits
  <2>2. buf' = MarkSent(b, R, n)
    BY DEF Transmit
  <2> QED
    BY <2>1, <2>2, MarkSentSound
<1>3. \A s \in R : s < b.next
  <2>1. R \subseteq b.head .. b.next - 1
    BY DEF Fits, Sound, Outstanding
  <2> QED
    BY <1>1, <2>1
<1>4. history' = LogSent(g, new) /\ ToSet(new) = sent
  <2>1. history' = LogSent(g, [k \in 1 .. n |-> b.next + k - 1])
    BY DEF Transmit
  <2>2. ToSet(new) = sent
    BY <1>1, FreshRange
  <2> QED
    BY <2>1, <2>2 DEF Fresh
<1>5. copies' = [s \in 1 .. N |-> copies[s] + IF s \in R \cup sent THEN 1 ELSE 0]
  <2>1. copies' = [s \in 1 .. N |-> copies[s] + IF s \in R \cup ToSet(new) THEN 1 ELSE 0]
    BY DEF Transmit, Fresh
  <2> QED
    BY <1>4, <2>1
<1> HIDE DEF new, g
<1>6. /\ g \in Seq(Entries) /\ DOMAIN g = DOMAIN h
      /\ \A i \in DOMAIN h :
             /\ g[i].seq = h[i].seq
             /\ ~g[i].retx => ~h[i].retx /\ h[i].seq \notin R
  BY MarkRetxRange DEF g, Fits, Logs
<1>7. /\ history' \in Seq(Entries)
      /\ \A i \in DOMAIN history' :
             (\E j \in DOMAIN g : history'[i] = g[j]) \/ history'[i].seq \in sent
  BY <1>1, <1>4, <1>6, LogSentRange DEF new
<1>8. copies \in [1 .. N -> Nat]
  BY DEF LogInv
<1>9. \A s \in 1 .. N : copies'[s] = copies[s] + IF s \in R \cup sent THEN 1 ELSE 0
  BY <1>5
<1>10. copies' \in [1 .. N -> Nat]
  <2>1. \A s \in 1 .. N : copies[s] + (IF s \in R \cup sent THEN 1 ELSE 0) \in Nat
    BY <1>8
  <2> QED
    BY <1>5, <2>1
<1>11. \A s \in 1 .. N : IF s < buf'.next THEN copies'[s] >= 1 ELSE copies'[s] = 0
  <2> SUFFICES ASSUME NEW s \in 1 .. N
               PROVE  IF s < buf'.next THEN copies'[s] >= 1 ELSE copies'[s] = 0
    OBVIOUS
  <2>1. copies[s] \in Nat /\ IF s < b.next THEN copies[s] >= 1 ELSE copies[s] = 0
    BY <1>2, <1>8 DEF LogInv
  <2>2. CASE s < b.next
    BY <1>1, <1>2, <1>9, <2>1, <2>2
  <2>3. CASE s \in sent
    BY <1>1, <1>2, <1>9, <2>1, <2>3
  <2>4. CASE ~(s < b.next) /\ s \notin sent
    <3>1. ~(s < b.next + n) /\ s \notin R
      BY <1>1, <1>3, <2>4
    <3> QED
      BY <1>2, <1>9, <2>1, <2>4, <3>1
  <2> QED
    BY <2>2, <2>3, <2>4
<1>12. ASSUME NEW i \in DOMAIN history'
       PROVE  /\ history'[i].seq < buf'.next
              /\ ~history'[i].retx => copies'[history'[i].seq] = 1
  <2>1. CASE history'[i].seq \in sent
    <3>1. history'[i].seq \in 1 .. N
      BY <1>1, <2>1
    <3>2. copies[history'[i].seq] = 0
      BY <1>1, <1>2, <2>1, <3>1 DEF LogInv
    <3>3. copies'[history'[i].seq] = 1
      BY <1>9, <2>1, <3>1, <3>2
    <3> QED
      BY <1>1, <1>2, <2>1, <3>3
  <2>2. CASE history'[i].seq \notin sent
    <3>1. PICK j \in DOMAIN g : history'[i] = g[j]
      BY <1>7, <2>2
    <3>2. PICK k \in DOMAIN history : h[j] = history[k]
      BY <1>6, <3>1 DEF Fits, Logs
    <3>3. /\ history'[i].seq = history[k].seq
          /\ ~history'[i].retx => ~history[k].retx /\ history[k].seq \notin R
      BY <1>6, <3>1, <3>2
    <3>4. history[k].seq < b.next /\ history[k].seq \in 1 .. N
      <4>1. history[k] \in Entries
        BY LenProperties, ElementOfSeq DEF LogInv
      <4> QED
        BY <1>2, <4>1 DEF LogInv, Entries
    <3>5. history[k].seq < b.next + n
      BY <1>1, <3>4
    <3>6. ASSUME ~history'[i].retx PROVE copies'[history'[i].seq] = 1
      <4>1. copies[history[k].seq] = 1
        BY <3>3, <3>6 DEF LogInv, SamplesUnambiguous
      <4>2. history[k].seq \notin R \cup sent
        BY <2>2, <3>3, <3>6
      <4> QED
        BY <1>9, <3>3, <3>4, <4>1, <4>2
    <3> QED
      BY <1>2, <3>3, <3>5, <3>6
  <2> QED
    BY <2>1, <2>2
<1> QED
  BY <1>7, <1>9, <1>10, <1>11, <1>12 DEF LogInv, SamplesUnambiguous

\* Packets made of segments below m.
LEMMA PacketsBelow ==
    ASSUME NEW m \in Nat, NEW s \in Seq(1 .. m - 1), NEW flag \in BOOLEAN
    PROVE  /\ [k \in DOMAIN s |-> Packet(s[k], FALSE)] \in Seq(DataBelow(m))
           /\ [k \in DOMAIN s |-> Packet(s[k], flag /\ k = 1)] \in Seq(DataBelow(m))
<1>1. Len(s) \in Nat /\ DOMAIN s = 1 .. Len(s) /\ \A k \in 1 .. Len(s) : s[k] \in 1 .. m - 1
  BY LenProperties, ElementOfSeq
<1>2. \A k \in 1 .. Len(s) :
          Packet(s[k], FALSE) \in DataBelow(m) /\ Packet(s[k], flag /\ k = 1) \in DataBelow(m)
  BY <1>1 DEF Packet, DataBelow
<1>3. [k \in DOMAIN s |-> Packet(s[k], FALSE)] \in [1 .. Len(s) -> DataBelow(m)]
  BY <1>1, <1>2
<1>4. [k \in DOMAIN s |-> Packet(s[k], flag /\ k = 1)] \in [1 .. Len(s) -> DataBelow(m)]
  BY <1>1, <1>2
<1> QED
  BY <1>1, <1>3, <1>4, SeqOfFunction

\* What is below m is below what is above m.
LEMMA DataBelowGrows ==
    ASSUME NEW m \in Nat, NEW p \in Nat, m <= p, NEW s \in Seq(DataBelow(m))
    PROVE  s \in Seq(DataBelow(p))
<1>1. 1 .. m - 1 \subseteq 1 .. p - 1
  OBVIOUS
<1>2. DataBelow(m) \subseteq DataBelow(p)
  BY <1>1 DEF DataBelow
<1> QED
  BY <1>2, SeqMonotonic

\* The segments sent join the packets under way.
LEMMA TransmitData ==
    ASSUME BufferInv, data \in Seq(DataBelow(buf.next)),
           NEW b, NEW h, NEW e, NEW R, NEW n, Fits(b, h, e, R, n), Transmit(b, h, e, R, n)
    PROVE  data' \in Seq(DataBelow(b.next + n))
<1> DEFINE m == b.next + n
           D == DataBelow(m)
           new == Fresh(b.next, n)
           again == Ascending(R)
           answers == n > 0 /\ AnswersEcho(e)
           first == [k \in DOMAIN again |-> Packet(again[k], FALSE)]
           second == [k \in DOMAIN new |-> Packet(new[k], answers /\ k = 1)]
<1>1. /\ b.head \in Nat \ {0} /\ b.next \in Nat \ {0} /\ b.next = buf.next /\ n \in Nat
      /\ R \in SUBSET Nat /\ IsFiniteSet(R) /\ R \subseteq b.head .. b.next - 1
  <2>1. /\ b.head \in Nat \ {0} /\ b.next \in Nat /\ b.tail \in Nat
        /\ b.head <= b.next /\ b.lost \in SUBSET Nat /\ IsFiniteSet(b.lost)
    BY SoundFinite DEF Fits, Sound
  <2>2. R \in SUBSET b.lost /\ b.lost \subseteq b.head .. b.next - 1
    BY DEF Fits, Sound, Outstanding
  <2>3. IsFiniteSet(R)
    BY <2>1, <2>2, FS_Subset
  <2>4. n \in Nat /\ b.next = buf.next
    BY DEF Fits
  <2> QED
    BY <2>1, <2>2, <2>3, <2>4
<1>2. m \in Nat /\ answers \in BOOLEAN
  BY <1>1
<1>3. first \in Seq(D) /\ second \in Seq(D)
  <2>1. again \in Seq(1 .. m - 1)
    <3>1. b.head .. b.next - 1 \subseteq 1 .. m - 1
      BY <1>1
    <3> QED
      BY <1>1, <3>1, AscendingRange, SeqMonotonic, ZenonT(60)
  <2>2. new \in Seq(1 .. m - 1)
    <3>1. DOMAIN new = 1 .. n /\ \A k \in 1 .. n : new[k] = b.next + k - 1
      BY DEF Fresh
    <3>2. \A k \in 1 .. n : new[k] \in 1 .. m - 1
      BY <1>1, <3>1
    <3>3. new \in [1 .. n -> 1 .. m - 1]
      BY <3>1, <3>2 DEF Fresh
    <3> QED
      BY <1>1, <3>3, SeqOfFunction
  <2> HIDE DEF m, again, new, answers
  <2> QED
    BY <1>2, <2>1, <2>2, PacketsBelow
<1>4. data \in Seq(D)
  <2>1. buf.next \in Nat /\ b.next + n \in Nat /\ buf.next <= b.next + n
    BY <1>1
  <2> QED
    BY <2>1, DataBelowGrows
<1>5. data' = data \o first \o second
  BY DEF Transmit, Fresh
<1> HIDE DEF first, second, D
<1>6. data \o first \in Seq(D)
  BY <1>3, <1>4, ConcatProperties
<1>7. (data \o first) \o second \in Seq(D)
  BY <1>3, <1>6, ConcatProperties
<1> QED
  BY <1>5, <1>7 DEF D

\* What a transmission leaves in the buffer and in the state of ECN.
LEMMA TransmitBuffer ==
    ASSUME BufferInv,
           NEW b, NEW h, NEW e, NEW R, NEW n, Fits(b, h, e, R, n), Transmit(b, h, e, R, n)
    PROVE  /\ BufferInv'
           /\ buf'.head = b.head /\ buf'.next = b.next + n /\ buf'.tail = b.tail
           /\ buf'.sacked = b.sacked /\ buf'.lost = b.lost /\ buf'.retrans = b.retrans \cup R
           /\ ecn' \in EcnStates
<1>1. /\ Sound(buf')
      /\ buf'.head = b.head /\ buf'.next = b.next + n /\ buf'.tail = b.tail
      /\ buf'.sacked = b.sacked /\ buf'.lost = b.lost /\ buf'.retrans = b.retrans \cup R
  <2>1. Sound(b) /\ R \in SUBSET b.lost /\ n \in 0 .. b.tail - b.next
    BY DEF Fits
  <2> DEFINE c == MarkSent(b, R, n)
  <2>2. /\ Sound(c) /\ c.head = b.head /\ c.next = b.next + n /\ c.tail = b.tail
        /\ c.sacked = b.sacked /\ c.lost = b.lost /\ c.retrans = b.retrans \cup R
    BY <2>1, MarkSentSound
  <2>3. buf' = c
    BY DEF Transmit
  <2> HIDE DEF c
  <2> QED
    BY <2>2, <2>3
<1>2. BufferInv'
  BY <1>1 DEF BufferInv, Fits
<1>3. ecn' \in EcnStates
  <2>1. ecn' = IF n > 0 /\ AnswersEcho(e) THEN EchoAnswered(e, b.next) ELSE e
    BY DEF Transmit
  <2>2. e \in EcnStates
    BY DEF Fits, Logs
  <2>3. n > 0 => b.next \in 0 .. N
    <3>1. /\ b.next \in Nat /\ b.tail \in Nat /\ b.tail <= N + 1 /\ n \in 0 .. b.tail - b.next
      BY SoundFinite DEF Fits, BufferInv
    <3>2. N \in Nat
      BY BoundsAssumption
    <3> QED
      BY <3>1, <3>2
  <2> QED
    BY <2>1, <2>2, <2>3 DEF EchoAnswered, EcnStates
<1> QED
  BY <1>1, <1>2, <1>3

----------------------------------------------------------------------------
(* What SendPendingData chooses to send *)

\* What the invariant needs of the segments R and the number n of new ones that
\* SendPendingData sends from b with a window of at least one segment.
Chosen(b, R, n) ==
    /\ R \subseteq Missing(b) /\ n \in 0 .. b.tail - b.next
    /\ \A x \in R, y \in Missing(b) : y <= x => y \in R
    /\ n > 0 => R = Missing(b)
    /\ Outstanding(b) = {} /\ b.tail > b.next => n > 0
    /\ BytesInFlight(b) = 0 /\ Missing(b) # {} => Min(Missing(b)) \in R

\* What SendPendingData chooses is such a choice.
LEMMA SendChoice ==
    ASSUME NEW b, Sound(b), NEW w \in Nat, w >= 1
    PROVE  Chosen(b, ToResend(b, w), ToSend(b, w))
<1> DEFINE S == Missing(b)
           k == Room(b, w)
           R == ToResend(b, w)
           u == b.tail - b.next
<1>1. /\ S \in SUBSET Nat /\ IsFiniteSet(S) /\ BytesInFlight(b) \in Nat
      /\ b.next \in Nat /\ b.tail \in Nat /\ b.next <= b.tail
  BY SoundFinite, InFlight DEF Sound
<1>2. k \in Nat /\ (BytesInFlight(b) = 0 => k >= 1)
  BY <1>1 DEF Room
<1>3. R = Lowest(S, k)
  BY DEF ToResend
<1>4. ToSend(b, w) = IF k - Cardinality(R) < u THEN k - Cardinality(R) ELSE u
  BY DEF ToSend
<1> HIDE DEF S, k, R
<1>5. /\ R \subseteq S /\ Cardinality(R) \in Nat
      /\ \A x \in R, y \in S : y <= x => y \in R
  BY <1>1, <1>2, <1>3, LowestBelow
<1>6. Cardinality(R) <= k
  BY <1>1, <1>2, <1>3, LowestAtMost
<1>7. u \in Nat
  BY <1>1
<1> HIDE DEF u
<1>8. ToSend(b, w) \in 0 .. u
  BY <1>2, <1>4, <1>5, <1>6, <1>7
<1>9. ASSUME ToSend(b, w) > 0 PROVE R = S
  <2>1. Cardinality(R) < k
    BY <1>2, <1>4, <1>5, <1>7, <1>9
  <2> QED
    BY <1>1, <1>2, <1>3, <2>1, LowestFewer
<1>10. ASSUME Outstanding(b) = {}, b.tail > b.next PROVE ToSend(b, w) > 0
  <2>1. S = {}
    BY <1>10 DEF S, Missing, Sound
  <2>2. Cardinality(R) = 0
    BY <1>5, <2>1, FS_EmptySet
  <2>3. k >= 1 /\ u >= 1
    BY <1>1, <1>2, <1>10, InFlight DEF u
  <2> QED
    BY <1>2, <1>4, <1>7, <2>2, <2>3
<1>11. ASSUME BytesInFlight(b) = 0, S # {} PROVE Min(S) \in R
  BY <1>1, <1>2, <1>3, <1>11, LowestLeast
<1> QED
  BY <1>5, <1>8, <1>9, <1>10, <1>11 DEF Chosen, S, R, u

\* A head that alone is lost and was not sent again is all that DoRetransmit and
\* SendPendingData send again.
LEMMA RetransmitChoice ==
    ASSUME NEW b, Sound(b), b.lost = {b.head}, b.retrans = {}, NEW w \in Nat, w >= 1
    PROVE  LET first == {DoRetransmit(b)}
               c == MarkSent(b, first, 0)
           IN  /\ first \cup ToResend(c, w) = {b.head}
               /\ ToSend(c, w) \in 0 .. b.tail - b.next
<1> DEFINE first == {DoRetransmit(b)}
           c == MarkSent(b, first, 0)
<1>1. Missing(b) = {b.head} /\ b.head \in Nat
  BY SoundFinite
<1>2. DoRetransmit(b) = b.head
  <2>1. Min(Missing(b)) \in Missing(b)
    BY <1>1, SoundFinite, MinOfNaturals
  <2> QED
    BY <1>1, <2>1 DEF DoRetransmit
<1>3. first \in SUBSET b.lost /\ 0 \in 0 .. b.tail - b.next
  <2>1. b.next \in Nat /\ b.tail \in Nat /\ b.next <= b.tail
    BY SoundFinite DEF Sound
  <2> QED
    BY <1>2, <2>1
<1>4. /\ Sound(c) /\ c.next = b.next + 0 /\ c.tail = b.tail
      /\ c.lost = {b.head} /\ c.retrans = {b.head}
  BY <1>2, <1>3, MarkSentSound
<1> HIDE DEF c
<1>5. Missing(c) = {}
  BY <1>4, SoundFinite
<1>6. Chosen(c, ToResend(c, w), ToSend(c, w))
  BY <1>4, SendChoice
<1>7. ToResend(c, w) = {} /\ ToSend(c, w) \in 0 .. c.tail - c.next
  BY <1>5, <1>6 DEF Chosen
<1>8. c.next = b.next
  BY <1>4, SoundFinite
<1> QED
  BY <1>2, <1>4, <1>7, <1>8 DEF c

\* SendPendingData in one step.
LEMMA PendingSent ==
    ASSUME NEW b, Sound(b), NEW w \in 1 .. MaxWindow, NEW h, NEW e, NEW armed,
           SendPendingData(b, w, h, e, armed)
    PROVE  \E R, n : /\ Chosen(b, R, n) /\ Transmit(b, h, e, R, n)
                     /\ retxRunning' = (armed \/ R # {} \/ n > 0)
<1>1. w \in Nat /\ w >= 1
  BY BoundsAssumption
<1>2. Chosen(b, ToResend(b, w), ToSend(b, w))
  BY <1>1, SendChoice
<1>3. /\ Transmit(b, h, e, ToResend(b, w), ToSend(b, w))
      /\ retxRunning' = (armed \/ ToResend(b, w) # {} \/ ToSend(b, w) > 0)
  BY DEF SendPendingData
<1> QED
  BY <1>2, <1>3

\* RetransmitAndSend in one step, when the head alone is lost and was not sent again.
LEMMA HeadResent ==
    ASSUME NEW b, Sound(b), b.lost = {b.head}, b.retrans = {},
           NEW w \in 1 .. MaxWindow, NEW h, NEW e, RetransmitAndSend(b, w, h, e)
    PROVE  \E n \in 0 .. b.tail - b.next : Transmit(b, h, e, {b.head}, n) /\ retxRunning' = TRUE
<1>1. w \in Nat /\ w >= 1
  BY BoundsAssumption
<1> DEFINE first == {DoRetransmit(b)}
           c == MarkSent(b, first, 0)
<1>2. first \cup ToResend(c, w) = {b.head} /\ ToSend(c, w) \in 0 .. b.tail - b.next
  BY <1>1, RetransmitChoice
<1>3. Transmit(b, h, e, first \cup ToResend(c, w), ToSend(c, w)) /\ retxRunning' = TRUE
  BY DEF RetransmitAndSend
<1> HIDE DEF first, c
<1> QED
  BY <1>2, <1>3

\* The timer runs after SendPendingData while there is data outstanding.
LEMMA TimerAfterSend ==
    ASSUME BufferInv,
           NEW b, NEW h, NEW e, NEW R, NEW n, Fits(b, h, e, R, n), Chosen(b, R, n),
           Transmit(b, h, e, R, n), NEW armed \in BOOLEAN,
           b.head < b.next => armed, armed => b.head < b.tail,
           retxRunning' = (armed \/ R # {} \/ n > 0)
    PROVE  TimerArmed' /\ retxRunning' \in BOOLEAN
<1>1. /\ b.head \in Nat /\ b.next \in Nat /\ b.tail \in Nat
      /\ b.head <= b.next /\ n \in 0 .. b.tail - b.next
  BY SoundFinite DEF Fits, Sound
<1>2. buf'.head = b.head /\ buf'.next = b.next + n
  BY TransmitBuffer
<1>3. Outstanding(buf)' # {} <=> b.head < b.next + n
  <2>1. Outstanding(buf)' = buf'.head .. buf'.next - 1
    BY DEF Outstanding
  <2>2. buf'.head \in Nat /\ buf'.next \in Nat
    BY <1>1, <1>2
  <2>3. Outstanding(buf)' # {} <=> buf'.head < buf'.next
    BY <2>1, <2>2
  <2> QED
    BY <1>2, <2>3
<1>4. R # {} => b.head < b.next
  <2>1. R \subseteq b.head .. b.next - 1
    BY DEF Fits, Sound, Outstanding
  <2>2. ASSUME NEW x \in R PROVE b.head < b.next
    <3>1. x \in b.head .. b.next - 1
      BY <2>1
    <3> QED
      BY <1>1, <3>1
  <2> QED
    BY <2>2
<1>5. b.head = b.next /\ b.head < b.tail => n > 0
  <2>1. b.head = b.next => Outstanding(b) = {}
    BY <1>1 DEF Outstanding
  <2> QED
    BY <1>1, <2>1 DEF Chosen
<1>6. (armed \/ R # {} \/ n > 0) <=> b.head < b.next + n
  <2>1. CASE b.head < b.next
    BY <1>1, <2>1
  <2>2. CASE ~(b.head < b.next)
    <3>1. b.head = b.next /\ R = {}
      BY <1>1, <1>4, <2>2
    <3>2. b.head < b.next + n <=> n > 0
      BY <1>1, <3>1
    <3> QED
      BY <1>5, <3>1, <3>2
  <2> QED
    BY <2>1, <2>2
<1>7. retxRunning' \in BOOLEAN
  OBVIOUS
<1>8. retxRunning' <=> b.head < b.next + n
  BY <1>6
<1> QED
  BY <1>3, <1>7, <1>8 DEF TimerArmed

----------------------------------------------------------------------------
(* The congestion state and the flags, case by case *)

\* What the paths of ReceivedAck and the timer keep between them.
Steady == BufferInv /\ CongestionTypes /\ RepairInv /\ TimerArmed

\* One transmission from a buffer with this head.
Sent(head) ==
    \E b, h, e, R, n : Fits(b, h, e, R, n) /\ b.head = head /\ Transmit(b, h, e, R, n)

\* One in which that head is sent again.
SentAgain(head) ==
    \E b, h, e, R, n : /\ Fits(b, h, e, R, n) /\ b.head = head /\ head \in R
                       /\ Transmit(b, h, e, R, n)

\* The repair after a timeout goes on, from a buffer b whose head was sent again
\* or of which nothing was.
LEMMA RepairGoesOn ==
    ASSUME NEW b, Sound(b), NEW r \in Nat, b.head < r,
           b.sacked = {}, b.lost = b.head .. r - 1,
           b.head \in b.retrans \/ b.retrans = {},
           \A x \in b.retrans, y \in b.lost : y <= x => y \in b.retrans,
           Missing(b) # {} => b.next = r,
           NEW R, NEW n, Chosen(b, R, n), NEW c,
           c.head = b.head, c.next = b.next + n, c.sacked = b.sacked,
           c.lost = b.lost, c.retrans = b.retrans \cup R
    PROVE  LossRepair(c, r)
<1>1. /\ b.head \in Nat /\ b.next \in Nat /\ b.tail \in Nat /\ b.next <= b.tail
      /\ Missing(b) = b.lost \ b.retrans /\ n \in 0 .. b.tail - b.next
      /\ Missing(b) \in SUBSET Nat
  BY SoundFinite DEF Sound, Chosen
<1>2. Missing(c) = Missing(b) \ R
  BY <1>1 DEF Missing
<1>3. c.head \in c.retrans
  <2>1. CASE b.head \in b.retrans
    BY <2>1
  <2>2. CASE b.retrans = {}
    <3>1. b.head \in Missing(b) /\ b.next = r
      BY <1>1, <2>2
    <3>2. b.lost = Outstanding(b)
      BY <3>1 DEF Outstanding
    <3>3. BytesInFlight(b) = 0
      BY <2>2, <3>2, InFlight
    <3>4. Min(Missing(b)) \in R
      BY <3>1, <3>3 DEF Chosen
    <3>5. R \subseteq Missing(b) /\ \A x \in R, y \in Missing(b) : y <= x => y \in R
      BY DEF Chosen
    <3>6. Min(Missing(b)) \in Missing(b)
      BY <3>4, <3>5
    <3>7. b.head <= Min(Missing(b))
      BY <1>1, <3>6
    <3> QED
      BY <3>1, <3>4, <3>5, <3>7
  <2> QED
    BY <2>1, <2>2
<1>4. ASSUME NEW x \in c.retrans, NEW y \in c.lost, y <= x PROVE y \in c.retrans
  <2>1. CASE x \in b.retrans
    BY <1>4, <2>1
  <2>2. CASE x \in R
    <3>1. y \in Missing(b) => y \in R
      BY <1>4, <2>2 DEF Chosen
    <3> QED
      BY <1>1, <3>1
  <2> QED
    BY <2>1, <2>2
<1>5. ASSUME Missing(c) # {} PROVE c.next = r
  <2>1. Missing(b) # {} /\ R # Missing(b)
    BY <1>2, <1>5
  <2>2. ~(n > 0)
    BY <2>1 DEF Chosen
  <2> QED
    BY <1>1, <2>1, <2>2
<1> QED
  BY <1>3, <1>4, <1>5 DEF LossRepair

\* The same buffer, as DiscardUpTo leaves it when nothing new is acknowledged.
Same(b) ==
    /\ Sound(b) /\ b.head = buf.head /\ b.next = buf.next /\ b.tail = buf.tail
    /\ b.sacked = buf.sacked /\ b.lost = buf.lost /\ b.retrans = buf.retrans

\* What is outstanding, said of the fields.
LEMMA OutstandingIff ==
    ASSUME NEW b, Sound(b)
    PROVE  Outstanding(b) # {} <=> b.head < b.next
BY SoundFinite DEF Outstanding

\* SendPendingData on its own, and after an ACK that changes at most the count
\* of CA_CWR.
LEMMA QuietSend ==
    ASSUME Steady, ~dropped, NEW b, NEW h, NEW e, Same(b), Logs(h, e),
           SendPendingData(b, cwnd, h, e, retxRunning),
           UNCHANGED <<congState, recover, recoverActive, firstPartial, window>>,
           \/ dupAckCount' = dupAckCount
           \/ congState = "CWR" /\ dupAckCount' = dupAckCount + 1
    PROVE  Sent(buf.head) /\ Steady'
<1>1. cwnd \in 1 .. MaxWindow /\ Sound(b)
  BY DEF Steady, CongestionTypes, Same
<1>2. PICK R, n : /\ Chosen(b, R, n) /\ Transmit(b, h, e, R, n)
                  /\ retxRunning' = (retxRunning \/ R # {} \/ n > 0)
  BY <1>1, PendingSent
<1>3. R \subseteq Missing(b) /\ Missing(b) = b.lost \ b.retrans /\ n \in 0 .. b.tail - b.next
  BY <1>1, <1>2, SoundFinite DEF Chosen
<1>4. Fits(b, h, e, R, n)
  BY <1>3 DEF Fits, Same
<1>5. BufferInv
  BY DEF Steady
<1>6. /\ BufferInv'
      /\ buf'.head = b.head /\ buf'.next = b.next + n /\ buf'.tail = b.tail
      /\ buf'.sacked = b.sacked /\ buf'.lost = b.lost /\ buf'.retrans = b.retrans \cup R
  BY <1>2, <1>4, <1>5, TransmitBuffer
<1>7. /\ b.head \in Nat /\ b.next \in Nat /\ b.tail \in Nat /\ n \in Nat
      /\ b.head <= b.next /\ b.next <= b.tail
  BY <1>1, <1>3, SoundFinite DEF Sound
<1>8. TimerArmed' /\ retxRunning' \in BOOLEAN
  <2>1. retxRunning \in BOOLEAN /\ (retxRunning <=> Outstanding(buf) # {})
    BY DEF Steady, CongestionTypes, TimerArmed
  <2>2. retxRunning <=> b.head < b.next
    BY <1>1, <2>1, OutstandingIff DEF Same, Steady, BufferInv
  <2>3. (b.head < b.next => retxRunning) /\ (retxRunning => b.head < b.tail)
    BY <1>7, <2>2
  <2> QED
    BY <1>2, <1>4, <1>5, <2>1, <2>3, TimerAfterSend
<1>9. CongestionTypes'
  BY <1>8 DEF Steady, CongestionTypes, window
<1>10. RepairInv'
  <2>1. recover' \in 0 .. buf'.next
    BY <1>6, <1>7 DEF Same, Steady, RepairInv
  <2>2. ASSUME congState = "LOSS" PROVE LossRepair(buf', recover)
    <3>1. LossRepair(b, recover) /\ recover \in Nat
      BY <2>2 DEF Steady, RepairInv, LossRepair, Same, Missing
    <3>2. b.head < recover
      <4>1. b.head \in b.head .. recover - 1
        BY <1>1, <3>1 DEF LossRepair, Sound
      <4> QED
        BY <1>7, <3>1, <4>1
    <3>3. /\ b.sacked = {} /\ b.lost = b.head .. recover - 1 /\ b.head \in b.retrans
          /\ \A x \in b.retrans, y \in b.lost : y <= x => y \in b.retrans
          /\ Missing(b) # {} => b.next = recover
      BY <3>1 DEF LossRepair
    <3> DEFINE c == buf'
    <3>4. /\ c.head = b.head /\ c.next = b.next + n /\ c.sacked = b.sacked
          /\ c.lost = b.lost /\ c.retrans = b.retrans \cup R
      BY <1>6
    <3> HIDE DEF c
    <3>5. LossRepair(c, recover)
      BY <1>1, <1>2, <3>1, <3>2, <3>3, <3>4, RepairGoesOn
    <3> QED
      BY <3>5 DEF c
  <2>3. ASSUME congState = "RECOVERY" PROVE buf'.lost = {buf'.head} /\ buf'.retrans = {buf'.head}
    <3>1. b.lost = {b.head} /\ b.retrans = {b.head}
      BY <2>3 DEF Steady, RepairInv, Same
    <3> QED
      BY <1>3, <1>6, <3>1
  <2>4. congState \in {"OPEN", "DISORDER"} =>
            recover <= buf'.head /\ ~recoverActive /\ HeadLost(buf')
    BY <1>6 DEF Steady, RepairInv, Same, HeadLost
  <2>5. congState = "CWR" => HeadLost(buf') \/ LossLeft(buf', recover)
    BY <1>6 DEF Steady, RepairInv, Same, HeadLost, LossLeft
  <2>6. /\ congState = "OPEN" => dupAckCount' = 0
        /\ congState = "DISORDER" => dupAckCount' < RetxThresh
    BY DEF Steady, RepairInv
  <2> QED
    BY <2>1, <2>2, <2>3, <2>4, <2>5, <2>6 DEF RepairInv
<1>11. Sent(buf.head)
  BY <1>2, <1>4 DEF Sent, Same
<1> QED
  BY <1>6, <1>8, <1>9, <1>10, <1>11 DEF Steady

\* What SendPendingData leaves, whatever the congestion state is then.
LEMMA SendEffect ==
    ASSUME BufferInv, NEW b, Sound(b), b.next = buf.next, b.tail = buf.tail,
           NEW h, NEW e, Logs(h, e), NEW w \in 1 .. MaxWindow, NEW armed \in BOOLEAN,
           SendPendingData(b, w, h, e, armed)
    PROVE  /\ Sent(b.head) /\ BufferInv'
           /\ \E R, n : /\ Chosen(b, R, n) /\ R \subseteq b.lost /\ n \in Nat
                        /\ buf'.head = b.head /\ buf'.next = b.next + n /\ buf'.tail = b.tail
                        /\ buf'.sacked = b.sacked /\ buf'.lost = b.lost
                        /\ buf'.retrans = b.retrans \cup R
                        /\ retxRunning' = (armed \/ R # {} \/ n > 0)
<1>1. PICK R, n : /\ Chosen(b, R, n) /\ Transmit(b, h, e, R, n)
                  /\ retxRunning' = (armed \/ R # {} \/ n > 0)
  BY PendingSent
<1>2. R \subseteq b.lost /\ n \in 0 .. b.tail - b.next
  BY <1>1, SoundFinite DEF Chosen
<1>3. Fits(b, h, e, R, n)
  BY <1>2 DEF Fits
<1>4. /\ BufferInv'
      /\ buf'.head = b.head /\ buf'.next = b.next + n /\ buf'.tail = b.tail
      /\ buf'.sacked = b.sacked /\ buf'.lost = b.lost /\ buf'.retrans = b.retrans \cup R
  BY <1>1, <1>3, TransmitBuffer
<1>5. Sent(b.head)
  BY <1>1, <1>3 DEF Sent
<1> QED
  BY <1>1, <1>2, <1>4, <1>5

\* And the timer, when it was armed before for data that was outstanding, or for
\* any data in the buffer.
LEMMA SendTimer ==
    ASSUME BufferInv, NEW b, Sound(b), b.next = buf.next, b.tail = buf.tail,
           NEW h, NEW e, Logs(h, e), NEW w \in 1 .. MaxWindow, NEW armed \in BOOLEAN,
           SendPendingData(b, w, h, e, armed),
           b.head < b.next => armed, armed => b.head < b.tail
    PROVE  TimerArmed' /\ retxRunning' \in BOOLEAN
<1>1. PICK R, n : /\ Chosen(b, R, n) /\ Transmit(b, h, e, R, n)
                  /\ retxRunning' = (armed \/ R # {} \/ n > 0)
  BY PendingSent
<1>2. R \subseteq b.lost /\ n \in 0 .. b.tail - b.next
  BY <1>1, SoundFinite DEF Chosen
<1>3. Fits(b, h, e, R, n)
  BY <1>2 DEF Fits
<1> QED
  BY <1>1, <1>3, TimerAfterSend

\* What RetransmitAndSend leaves when the head alone is lost.
LEMMA ResendEffect ==
    ASSUME BufferInv, NEW b, Sound(b), b.next = buf.next, b.tail = buf.tail,
           b.lost = {b.head}, b.retrans = {},
           NEW h, NEW e, Logs(h, e), NEW w \in 1 .. MaxWindow,
           RetransmitAndSend(b, w, h, e)
    PROVE  /\ Sent(b.head) /\ BufferInv' /\ TimerArmed' /\ retxRunning' = TRUE
           /\ \E n \in Nat : buf'.next = b.next + n
           /\ buf'.head = b.head /\ buf'.tail = b.tail
           /\ buf'.sacked = b.sacked /\ buf'.lost = {b.head} /\ buf'.retrans = {b.head}
<1>1. PICK n \in 0 .. b.tail - b.next : Transmit(b, h, e, {b.head}, n) /\ retxRunning' = TRUE
  BY HeadResent
<1>2. Fits(b, h, e, {b.head}, n)
  BY DEF Fits
<1>3. /\ BufferInv'
      /\ buf'.head = b.head /\ buf'.next = b.next + n /\ buf'.tail = b.tail
      /\ buf'.sacked = b.sacked /\ buf'.lost = b.lost
      /\ buf'.retrans = b.retrans \cup {b.head}
  BY <1>1, <1>2, TransmitBuffer
<1>4. Sent(b.head)
  BY <1>1, <1>2 DEF Sent
<1>5. TimerArmed'
  <2>1. b.head \in buf'.head .. buf'.next - 1
    <3>1. b.head \in Outstanding(b) /\ b.head \in Nat /\ b.next \in Nat /\ n \in Nat
      BY SoundFinite DEF Sound
    <3>2. b.head <= b.next + n - 1
      BY <3>1 DEF Outstanding
    <3> QED
      BY <1>3, <3>1, <3>2
  <2> QED
    BY <1>1, <2>1 DEF TimerArmed, Outstanding
<1> QED
  BY <1>1, <1>3, <1>4, <1>5

\* A duplicate ACK in CA_RECOVERY.
LEMMA RecoverySend ==
    ASSUME Steady, ~dropped, NEW b, NEW h, NEW e, Same(b), Logs(h, e),
           buf.head < buf.next, DupAckInRecovery(b, h, e)
    PROVE  Sent(buf.head) /\ Steady'
<1> DEFINE c == AddRenoSack(b)
<1>1. /\ congState = "RECOVERY" /\ UNCHANGED <<congestion, window>>
      /\ SendPendingData(c, cwnd, h, e, retxRunning)
  BY DEF DupAckInRecovery
<1>2. b.lost = {b.head} /\ b.retrans = {b.head} /\ Sound(b)
  BY <1>1 DEF Steady, RepairInv, Same
<1>3. /\ Sound(c) /\ c.head = buf.head /\ c.next = buf.next /\ c.tail = buf.tail
      /\ c.lost = {c.head} /\ c.retrans = {c.head}
  BY <1>2, AddRenoSackSound DEF Same
<1> HIDE DEF c
<1>4. /\ BufferInv /\ cwnd \in 1 .. MaxWindow /\ retxRunning \in BOOLEAN
      /\ (retxRunning <=> Outstanding(buf) # {})
  BY DEF Steady, CongestionTypes, TimerArmed
<1>5. retxRunning /\ c.head < c.next /\ c.head < c.tail
  <2>1. buf.next <= buf.tail /\ buf.head \in Nat /\ buf.next \in Nat /\ buf.tail \in Nat
    BY <1>4, SoundFinite DEF BufferInv, Sound
  <2> QED
    BY <1>3, <1>4, <2>1, OutstandingIff DEF BufferInv
<1>6. Sent(c.head) /\ BufferInv' /\ TimerArmed' /\ retxRunning' \in BOOLEAN
  <2>1. Sent(c.head) /\ BufferInv'
    BY <1>1, <1>3, <1>4, SendEffect
  <2>2. (c.head < c.next => retxRunning) /\ (retxRunning => c.head < c.tail)
    BY <1>5
  <2>3. /\ Sound(c) /\ c.next = buf.next /\ c.tail = buf.tail
        /\ SendPendingData(c, cwnd, h, e, retxRunning)
    BY <1>1, <1>3
  <2>4. TimerArmed' /\ retxRunning' \in BOOLEAN
    BY <1>4, <2>2, <2>3, SendTimer
  <2> QED
    BY <2>1, <2>4
<1>7. PICK R, n : /\ R \subseteq c.lost /\ n \in Nat
                  /\ buf'.head = c.head /\ buf'.next = c.next + n
                  /\ buf'.lost = c.lost /\ buf'.retrans = c.retrans \cup R
  BY <1>1, <1>3, <1>4, SendEffect
<1>8. RepairInv'
  <2>1. recover' \in 0 .. buf'.next
    <3>1. recover \in 0 .. buf.next /\ recover' = recover /\ buf.next \in Nat
      BY <1>1, <1>4, SoundFinite DEF Steady, RepairInv, congestion, BufferInv
    <3> QED
      BY <1>3, <1>7, <3>1
  <2>2. congState' = "RECOVERY" /\ buf'.lost = {buf'.head} /\ buf'.retrans = {buf'.head}
    BY <1>1, <1>3, <1>7 DEF congestion
  <2> QED
    BY <2>1, <2>2 DEF RepairInv
<1>9. CongestionTypes'
  BY <1>1, <1>6 DEF Steady, CongestionTypes, congestion, window
<1> QED
  BY <1>3, <1>6, <1>8, <1>9 DEF Steady

\* A duplicate ACK in CA_OPEN or CA_DISORDER, below the threshold.
LEMMA DisorderSend ==
    ASSUME Steady, ~dropped, NEW b, NEW h, NEW e, Same(b), Logs(h, e),
           buf.head < buf.next, DupAckInDisorder(b, h, e)
    PROVE  Sent(buf.head) /\ Steady'
<1> DEFINE c == IF LimitedTx THEN AddRenoSack(b) ELSE b
<1>1. /\ congState \in {"OPEN", "DISORDER"} /\ ~StartsRecovery(b, dupAckCount + 1)
      /\ congState' = "DISORDER" /\ dupAckCount' = dupAckCount + 1
      /\ UNCHANGED <<recover, recoverActive, firstPartial, window>>
      /\ SendPendingData(c, cwnd, h, e, retxRunning)
  BY DEF DupAckInDisorder
<1>2. /\ b.lost \subseteq {b.head} /\ Sound(b) /\ recover <= b.head /\ ~recoverActive
      /\ recover \in 0 .. buf.next
  BY <1>1 DEF Steady, RepairInv, Same, HeadLost
<1>3. /\ Sound(c) /\ c.head = buf.head /\ c.next = buf.next /\ c.tail = buf.tail
      /\ c.lost \subseteq {c.head}
  BY <1>2, AddRenoSackSound DEF Same
<1> HIDE DEF c
<1>4. /\ BufferInv /\ cwnd \in 1 .. MaxWindow /\ retxRunning \in BOOLEAN
      /\ (retxRunning <=> Outstanding(buf) # {})
  BY DEF Steady, CongestionTypes, TimerArmed
<1>5. /\ retxRunning /\ c.head < c.next /\ c.head < c.tail
      /\ buf.head \in Nat /\ buf.next \in Nat
  <2>1. buf.next <= buf.tail /\ buf.head \in Nat /\ buf.next \in Nat /\ buf.tail \in Nat
    BY <1>4, SoundFinite DEF BufferInv, Sound
  <2> QED
    BY <1>3, <1>4, <2>1, OutstandingIff DEF BufferInv
<1>6. Sent(c.head) /\ BufferInv' /\ TimerArmed' /\ retxRunning' \in BOOLEAN
  <2>1. Sent(c.head) /\ BufferInv'
    BY <1>1, <1>3, <1>4, SendEffect
  <2>2. (c.head < c.next => retxRunning) /\ (retxRunning => c.head < c.tail)
    BY <1>5
  <2>3. TimerArmed' /\ retxRunning' \in BOOLEAN
    BY <1>1, <1>3, <1>4, <2>2, SendTimer, ZenonT(60)
  <2> QED
    BY <2>1, <2>3
<1>7. PICK R, n : /\ n \in Nat /\ buf'.head = c.head /\ buf'.next = c.next + n
                  /\ buf'.lost = c.lost
  BY <1>1, <1>3, <1>4, SendEffect
<1>8. dupAckCount + 1 < RetxThresh /\ dupAckCount \in Nat
  <2>1. dupAckCount \in Nat /\ dupAckCount < RetxThresh /\ RetxThresh \in Nat
    BY <1>1, SocketAssumption DEF Steady, CongestionTypes, RepairInv
  <2>2. dupAckCount + 1 # RetxThresh
    BY <1>1, <1>2 DEF StartsRecovery
  <2> QED
    BY <2>1, <2>2
<1>9. RepairInv'
  <2>1. recover' \in 0 .. buf'.next
    BY <1>1, <1>2, <1>3, <1>5, <1>7
  <2>2. recover' <= buf'.head /\ ~recoverActive' /\ HeadLost(buf')
    BY <1>1, <1>2, <1>3, <1>7 DEF HeadLost, Same
  <2> QED
    BY <1>1, <1>8, <2>1, <2>2 DEF RepairInv
<1>10. CongestionTypes'
  BY <1>1, <1>6, <1>8 DEF Steady, CongestionTypes, window
<1> QED
  BY <1>3, <1>6, <1>9, <1>10 DEF Steady

\* The duplicate ACK that starts a recovery.
LEMMA EnterRecoverySend ==
    ASSUME Steady, ~dropped, NEW b, NEW h, NEW e, Same(b), Logs(h, e),
           buf.head < buf.next, EnterRecovery(b, h, e)
    PROVE  Sent(buf.head) /\ Steady' /\ recover <= buf.head
<1> DEFINE d == AddRenoSack(b)
           c == MarkHeadAsLost(d)
<1>1. /\ congState \in {"OPEN", "DISORDER"} /\ congState' = "RECOVERY"
      /\ dupAckCount' = dupAckCount + 1 /\ recover' = b.next /\ recoverActive' = TRUE
      /\ UNCHANGED firstPartial
  BY DEF EnterRecovery
<1>2. PICK t \in 2 .. MaxWindow : ssThresh' = t /\ cwnd' = t /\ RetransmitAndSend(c, t, h, e)
  BY DEF EnterRecovery, LoseHead
<1>3. b.lost \subseteq {b.head} /\ Sound(b) /\ recover <= b.head
  BY <1>1 DEF Steady, RepairInv, Same, HeadLost
<1>4. /\ Sound(d) /\ d.head = buf.head /\ d.next = buf.next /\ d.tail = buf.tail
      /\ d.lost \subseteq {d.head}
  BY <1>3, AddRenoSackSound DEF Same
<1> HIDE DEF d
<1>5. Outstanding(d) # {}
  BY <1>4, OutstandingIff
<1>6. /\ Sound(c) /\ c.head = buf.head /\ c.next = buf.next /\ c.tail = buf.tail
      /\ c.lost = {c.head} /\ c.retrans = {}
  <2>1. d.lost \cup {d.head} = {d.head} /\ d.retrans \ {d.head} = {}
    BY <1>4 DEF Sound
  <2> QED
    BY <1>4, <1>5, <2>1, MarkHeadAsLostSound
<1> HIDE DEF c
<1>7. BufferInv /\ t \in 1 .. MaxWindow /\ MaxWindow \in Nat
  BY BoundsAssumption DEF Steady
<1>8. /\ Sent(c.head) /\ BufferInv' /\ TimerArmed' /\ retxRunning' = TRUE
      /\ \E n \in Nat : buf'.next = c.next + n
      /\ buf'.head = c.head /\ buf'.lost = {c.head} /\ buf'.retrans = {c.head}
  BY <1>2, <1>6, <1>7, ResendEffect
<1>9. RepairInv'
  <2>1. recover' \in 0 .. buf'.next
    <3>1. recover' = buf.next /\ buf.next \in Nat
      BY <1>1, <1>7, SoundFinite DEF Same, BufferInv
    <3> QED
      BY <1>6, <1>8, <3>1
  <2> QED
    BY <1>1, <1>8, <2>1 DEF RepairInv
<1>10. CongestionTypes'
  BY <1>1, <1>2, <1>7, <1>8 DEF Steady, CongestionTypes
<1> QED
  BY <1>3, <1>6, <1>8, <1>9, <1>10 DEF Steady, Same

\* What the echo on an ACK of new data makes of the congestion state.
LEMMA CongestionRange ==
    ASSUME CongestionTypes, NEW a, NEW k \in Congestion(a)
    PROVE  /\ k.cwnd \in 1 .. MaxWindow /\ k.ssThresh \in 2 .. MaxWindow
           /\ \/ /\ k.state = "CWR" /\ k.recover = buf.next
                 /\ congState = "CWR" => a.ack > recover
              \/ k.state = congState /\ k.recover = recover
              \/ k.state = "OPEN" /\ k.recover = recover /\ congState = "CWR" /\ a.ack > recover
<1> DEFINE state == IF CwrEnds(a) THEN "OPEN" ELSE congState
           w == IF CwrEnds(a) THEN ssThresh ELSE cwnd
<1>1. MaxWindow \in Nat /\ w \in 1 .. MaxWindow /\ ssThresh \in 2 .. MaxWindow
  BY BoundsAssumption DEF CongestionTypes
<1>2. CASE Echoed(a) /\ state # "CWR"
  <2>1. PICK t \in 2 .. MaxWindow :
            k \in {[state |-> "CWR", recover |-> buf.next, cwnd |-> c, ssThresh |-> t] :
                      c \in {w, t}}
    BY <1>2 DEF Congestion
  <2>2. PICK c \in {w, t} :
            k = [state |-> "CWR", recover |-> buf.next, cwnd |-> c, ssThresh |-> t]
    BY <2>1
  <2>3. c \in 1 .. MaxWindow
    BY <1>1
  <2>4. congState = "CWR" => a.ack > recover
    BY <1>2 DEF CwrEnds
  <2> QED
    BY <2>2, <2>3, <2>4
<1>3. CASE ~(Echoed(a) /\ state # "CWR")
  <2>1. k = [state |-> state, recover |-> recover, cwnd |-> w, ssThresh |-> ssThresh]
    BY <1>3 DEF Congestion
  <2>2. \/ state = congState
        \/ state = "OPEN" /\ congState = "CWR" /\ a.ack > recover
    BY DEF CwrEnds
  <2> HIDE DEF state, w
  <2> QED
    BY <1>1, <2>1, <2>2
<1> QED
  BY <1>2, <1>3

\* The buffer that an ACK of new data leaves.
LEMMA AckedBuffer ==
    ASSUME Steady, NEW ack, buf.head < ack, ack <= buf.next, ack \in Nat,
           NEW b, b = DiscardUpTo(buf, ack)
    PROVE  /\ Sound(b) /\ b.head = ack /\ b.next = buf.next /\ b.tail = buf.tail
           /\ HeadLost(buf) => HeadLost(b) /\ b.retrans = {}
           /\ buf.sacked = {} =>
                  /\ b.sacked = {} /\ b.lost = buf.lost \cap (ack .. buf.next - 1)
                  /\ b.retrans = buf.retrans \cap (ack .. buf.next - 1)
           /\ buf.head \in Nat /\ buf.next \in Nat /\ buf.tail \in Nat /\ buf.next <= buf.tail
           /\ recover \in 0 .. buf.next
<1>1. /\ Sound(buf) /\ buf.head \in Nat /\ buf.next \in Nat /\ buf.tail \in Nat
      /\ buf.next <= buf.tail
  BY SoundFinite DEF Steady, BufferInv, Sound
<1>2. ack \in buf.head + 1 .. buf.next
  BY <1>1
<1>3. HeadLost(buf) \/ buf.sacked = {}
  BY DEF Steady, RepairInv, CongestionTypes, HeadLost, LossRepair, LossLeft
<1>4. ASSUME HeadLost(buf)
      PROVE  /\ Sound(b) /\ b.head = ack /\ b.next = buf.next /\ b.tail = buf.tail
             /\ HeadLost(b) /\ b.retrans = {}
  BY <1>1, <1>2, <1>4, DiscardSound DEF HeadLost
<1>5. ASSUME buf.sacked = {}
      PROVE  /\ Sound(b) /\ b.head = ack /\ b.next = buf.next /\ b.tail = buf.tail
             /\ b.sacked = {} /\ b.lost = buf.lost \cap (ack .. buf.next - 1)
             /\ b.retrans = buf.retrans \cap (ack .. buf.next - 1)
  BY <1>1, <1>2, <1>5, DiscardUnguessed
<1> QED
  BY <1>1, <1>3, <1>4, <1>5 DEF Steady, RepairInv

\* A partial ACK in CA_RECOVERY.
LEMMA PartialRecoverySend ==
    ASSUME Steady, ~dropped, NEW a, a.ack \in Nat, buf.head < a.ack, a.ack <= buf.next,
           NEW b, b = DiscardUpTo(buf, a.ack), NEW h, NEW e, Logs(h, e),
           NEW k \in Congestion(a), recover' = k.recover, PartialAckInRecovery(b, h, e, k)
    PROVE  Sent(a.ack) /\ Steady'
<1> DEFINE c == MarkHeadAsLost(b)
<1>1. /\ k.state = "RECOVERY" /\ b.head < k.recover
      /\ congState' = "RECOVERY" /\ dupAckCount' = 0 /\ firstPartial' = FALSE
      /\ RetransmitAndSend(c, k.cwnd, h, e) /\ UNCHANGED <<recoverActive, window>>
  BY DEF PartialAckInRecovery, BelowRecover, ResetDupAcks
<1>2. BufferInv /\ CongestionTypes
  BY DEF Steady
<1>3. congState = "RECOVERY" /\ k.recover = recover /\ k.cwnd \in 1 .. MaxWindow
  BY <1>1, <1>2, CongestionRange
<1>4. HeadLost(buf)
  BY <1>3 DEF Steady, RepairInv, HeadLost
<1>5. /\ Sound(b) /\ b.head = a.ack /\ b.next = buf.next /\ b.tail = buf.tail
      /\ b.lost \subseteq {b.head} /\ b.retrans = {}
      /\ buf.next \in Nat /\ recover \in 0 .. buf.next
  BY <1>4, AckedBuffer DEF HeadLost
<1>6. Outstanding(b) # {}
  <2>1. b.head < b.next
    BY <1>1, <1>3, <1>5
  <2> QED
    BY <1>5, <2>1, OutstandingIff
<1>7. /\ Sound(c) /\ c.head = a.ack /\ c.next = buf.next /\ c.tail = buf.tail
      /\ c.lost = {c.head} /\ c.retrans = {}
  <2>1. b.lost \cup {b.head} = {b.head} /\ b.retrans \ {b.head} = {}
    BY <1>5
  <2> QED
    BY <1>5, <1>6, <2>1, MarkHeadAsLostSound
<1> HIDE DEF c
<1>8. /\ Sent(c.head) /\ BufferInv' /\ TimerArmed' /\ retxRunning' = TRUE
      /\ \E n \in Nat : buf'.next = c.next + n
      /\ buf'.head = c.head /\ buf'.lost = {c.head} /\ buf'.retrans = {c.head}
  BY <1>1, <1>2, <1>3, <1>7, ResendEffect
<1>9. RepairInv'
  <2>1. recover' \in 0 .. buf'.next
    BY <1>3, <1>5, <1>7, <1>8
  <2> QED
    BY <1>1, <1>8, <2>1 DEF RepairInv
<1>10. CongestionTypes'
  BY <1>1, <1>2, <1>8 DEF CongestionTypes, window
<1> QED
  BY <1>7, <1>8, <1>9, <1>10 DEF Steady

\* NewAck arms the timer for any data in the buffer.
LEMMA NewAckTimer ==
    ASSUME NEW b, Sound(b)
    PROVE  /\ ArmedByNewAck(b, TRUE) \in BOOLEAN
           /\ b.head < b.next => ArmedByNewAck(b, TRUE)
           /\ ArmedByNewAck(b, TRUE) => b.head < b.tail
<1>1. b.head \in Nat /\ b.next \in Nat /\ b.tail \in Nat /\ b.next <= b.tail
  BY SoundFinite DEF Sound
<1> QED
  BY <1>1 DEF ArmedByNewAck, BufferSize

\* A partial ACK in CA_LOSS.
LEMMA PartialLossSend ==
    ASSUME Steady, ~dropped, NEW a, a.ack \in Nat, buf.head < a.ack, a.ack <= buf.next,
           NEW b, b = DiscardUpTo(buf, a.ack), NEW h, NEW e, Logs(h, e),
           NEW k \in Congestion(a), recover' = k.recover, NEW segs,
           PartialAckInLoss(b, h, e, k, segs)
    PROVE  Sent(a.ack) /\ Steady'
<1>1. /\ k.state = "LOSS" /\ b.head < k.recover
      /\ congState' = "LOSS" /\ dupAckCount' = 0
      /\ UNCHANGED <<recoverActive, firstPartial, ssThresh>>
  BY DEF PartialAckInLoss, BelowRecover, ResetDupAcks
<1>2. BufferInv /\ CongestionTypes
  BY DEF Steady
<1>3. congState = "LOSS" /\ k.recover = recover /\ k.cwnd \in 1 .. MaxWindow
  BY <1>1, <1>2, CongestionRange
<1> DEFINE armed == ArmedByNewAck(b, TRUE)
<1>4. PICK w \in IncreaseWindow(k.cwnd, segs) :
          cwnd' = w /\ SendPendingData(b, w, h, e, armed)
  BY DEF PartialAckInLoss
<1>5. w \in 1 .. MaxWindow
  <2>1. MaxWindow \in Nat
    BY BoundsAssumption
  <2> QED
    BY <1>3, <2>1 DEF IncreaseWindow
<1>6. LossRepair(buf, recover)
  BY <1>3 DEF Steady, RepairInv
<1>7. /\ Sound(b) /\ b.head = a.ack /\ b.next = buf.next /\ b.tail = buf.tail
      /\ b.sacked = {} /\ b.lost = buf.lost \cap (a.ack .. buf.next - 1)
      /\ b.retrans = buf.retrans \cap (a.ack .. buf.next - 1)
      /\ buf.head \in Nat /\ buf.next \in Nat /\ recover \in 0 .. buf.next
  BY <1>6, AckedBuffer DEF LossRepair
<1>8. b.lost = b.head .. recover - 1 /\ b.head < recover /\ recover \in Nat
  <2>1. buf.lost = buf.head .. recover - 1
    BY <1>6 DEF LossRepair
  <2> QED
    BY <1>1, <1>3, <1>7, <2>1
<1>9. \A x \in b.retrans, y \in b.lost : y <= x => y \in b.retrans
  BY <1>6, <1>7 DEF LossRepair
<1>10. b.head \in b.retrans \/ b.retrans = {}
  <2>1. ASSUME NEW x \in b.retrans PROVE b.head \in b.retrans
    <3>1. b.head \in b.lost /\ b.head <= x
      BY <1>7, <1>8
    <3> QED
      BY <1>9, <3>1
  <2> QED
    BY <2>1
<1>11. Missing(b) # {} => b.next = recover
  <2>1. Missing(b) \subseteq Missing(buf)
    BY <1>6, <1>7 DEF Missing, LossRepair
  <2> QED
    BY <1>6, <1>7, <2>1 DEF LossRepair
<1>12. /\ armed \in BOOLEAN /\ (b.head < b.next => armed) /\ (armed => b.head < b.tail)
  BY <1>7, NewAckTimer
<1> HIDE DEF armed
<1>13. Sent(b.head) /\ BufferInv'
  BY <1>2, <1>4, <1>5, <1>7, <1>12, SendEffect
<1>14. TimerArmed' /\ retxRunning' \in BOOLEAN
  BY <1>2, <1>4, <1>5, <1>7, <1>12, SendTimer
<1>15. PICK R, n : /\ Chosen(b, R, n) /\ n \in Nat
                   /\ buf'.head = b.head /\ buf'.next = b.next + n
                   /\ buf'.sacked = b.sacked /\ buf'.lost = b.lost
                   /\ buf'.retrans = b.retrans \cup R
  BY <1>2, <1>4, <1>5, <1>7, <1>12, SendEffect
<1>16. LossRepair(buf', recover)
  <2> DEFINE c == buf'
  <2>1. /\ c.head = b.head /\ c.next = b.next + n /\ c.sacked = b.sacked
        /\ c.lost = b.lost /\ c.retrans = b.retrans \cup R
    BY <1>15
  <2> HIDE DEF c
  <2>2. LossRepair(c, recover)
    BY <1>7, <1>8, <1>9, <1>10, <1>11, <1>15, <2>1, RepairGoesOn, ZenonT(60)
  <2> QED
    BY <2>2 DEF c
<1>17. RepairInv'
  <2>1. recover' = recover /\ recover' \in 0 .. buf'.next
    BY <1>3, <1>7, <1>15
  <2> QED
    BY <1>1, <1>16, <2>1 DEF RepairInv
<1>18. CongestionTypes'
  BY <1>1, <1>2, <1>4, <1>5, <1>14 DEF CongestionTypes
<1> QED
  BY <1>7, <1>13, <1>14, <1>17, <1>18 DEF Steady

\* An ACK of new data that ends in CA_CWR.
LEMMA CwrSend ==
    ASSUME Steady, ~dropped, NEW a, a.ack \in Nat, buf.head < a.ack, a.ack <= buf.next,
           NEW b, b = DiscardUpTo(buf, a.ack), NEW h, NEW e, Logs(h, e),
           NEW k \in Congestion(a), recover' = k.recover, AckInCwr(b, h, e, k)
    PROVE  Sent(a.ack) /\ Steady'
<1> DEFINE armed == ArmedByNewAck(b, TRUE)
<1>1. /\ k.state = "CWR" /\ congState' = "CWR" /\ dupAckCount' = 0 /\ ssThresh' = k.ssThresh
      /\ UNCHANGED <<recoverActive, firstPartial>>
  BY DEF AckInCwr, ResetDupAcks
<1>2. PICK w \in {k.cwnd, k.ssThresh} :
          cwnd' = w /\ SendPendingData(b, w, h, e, armed)
  BY DEF AckInCwr
<1>3. BufferInv /\ CongestionTypes
  BY DEF Steady
<1>4. /\ w \in 1 .. MaxWindow /\ k.ssThresh \in 2 .. MaxWindow
      /\ recover' = buf.next \/ (recover' = recover /\ congState = "CWR")
  <2>1. MaxWindow \in Nat
    BY BoundsAssumption
  <2> QED
    BY <1>1, <1>3, <2>1, CongestionRange
<1>5. /\ Sound(b) /\ b.head = a.ack /\ b.next = buf.next /\ b.tail = buf.tail
      /\ HeadLost(buf) => HeadLost(b)
      /\ buf.sacked = {} =>
             b.sacked = {} /\ b.lost = buf.lost \cap (a.ack .. buf.next - 1)
      /\ buf.head \in Nat /\ buf.next \in Nat /\ recover \in 0 .. buf.next
  BY AckedBuffer
<1>6. HeadLost(b) \/ LossLeft(b, recover')
  <2>1. CASE HeadLost(buf)
    BY <1>5, <2>1
  <2>2. CASE ~HeadLost(buf)
    <3>1. LossLeft(buf, recover)
      BY <1>3, <2>2 DEF Steady, RepairInv, CongestionTypes, HeadLost, LossRepair, LossLeft
    <3>2. b.sacked = {} /\ b.lost \subseteq a.ack .. buf.next - 1 /\ b.lost \subseteq buf.lost
      BY <1>5, <3>1 DEF LossLeft
    <3>3. b.lost \subseteq a.ack .. recover' - 1
      <4>1. ASSUME NEW x \in b.lost PROVE x \in a.ack .. recover' - 1
        <5>1. x \in a.ack .. buf.next - 1 /\ x \in buf.head .. recover - 1
          BY <3>1, <3>2 DEF LossLeft
        <5>2. recover' \in Nat /\ recover <= recover'
          BY <1>4, <1>5
        <5> QED
          BY <1>5, <5>1, <5>2
      <4> QED
        BY <4>1
    <3> QED
      BY <1>5, <3>2, <3>3 DEF LossLeft
  <2> QED
    BY <2>1, <2>2
<1>7. /\ armed \in BOOLEAN /\ (b.head < b.next => armed) /\ (armed => b.head < b.tail)
  BY <1>5, NewAckTimer
<1> HIDE DEF armed
<1>8. Sent(b.head) /\ BufferInv'
  BY <1>2, <1>3, <1>4, <1>5, <1>7, SendEffect
<1>9. TimerArmed' /\ retxRunning' \in BOOLEAN
  BY <1>2, <1>3, <1>4, <1>5, <1>7, SendTimer
<1>10. PICK R, n : /\ n \in Nat /\ buf'.head = b.head /\ buf'.next = b.next + n
                   /\ buf'.sacked = b.sacked /\ buf'.lost = b.lost
  BY <1>2, <1>3, <1>4, <1>5, <1>7, SendEffect
<1>11. RepairInv'
  <2>1. recover' \in 0 .. buf'.next
    BY <1>4, <1>5, <1>10
  <2>2. HeadLost(buf') \/ LossLeft(buf', recover')
    BY <1>6, <1>10 DEF HeadLost, LossLeft
  <2> QED
    BY <1>1, <2>1, <2>2 DEF RepairInv
<1>12. CongestionTypes'
  BY <1>1, <1>2, <1>3, <1>4, <1>9 DEF CongestionTypes
<1> QED
  BY <1>5, <1>8, <1>9, <1>11, <1>12 DEF Steady

\* An ACK of new data that ends in CA_OPEN.
LEMMA FullAckSend ==
    ASSUME Steady, ~dropped, NEW a, a.ack \in Nat, buf.head < a.ack, a.ack <= buf.next,
           NEW b, b = DiscardUpTo(buf, a.ack), NEW h, NEW e, Logs(h, e),
           NEW k \in Congestion(a), recover' = k.recover, NEW segs,
           FullAck(b, h, e, k, segs)
    PROVE  Sent(a.ack) /\ Steady'
<1> DEFINE armed == ArmedByNewAck(b, TRUE)
           from == IF k.state = "RECOVERY" THEN ssThresh ELSE k.cwnd
<1>1. /\ k.state # "CWR" /\ ~(k.state \in {"RECOVERY", "LOSS"} /\ b.head < k.recover)
      /\ congState' = "OPEN" /\ dupAckCount' = 0
      /\ recoverActive' = (recoverActive /\ b.head < k.recover)
      /\ firstPartial' = (firstPartial \/ k.state \in {"RECOVERY", "LOSS"})
      /\ UNCHANGED ssThresh
  BY DEF FullAck, BelowRecover, ResetDupAcks
<1>2. PICK w \in IncreaseWindow(from, segs) :
          cwnd' = w /\ SendPendingData(b, w, h, e, armed)
  BY DEF FullAck
<1>3. BufferInv /\ CongestionTypes
  BY DEF Steady
<1>4. /\ k.cwnd \in 1 .. MaxWindow /\ ssThresh \in 1 .. MaxWindow /\ MaxWindow \in Nat
      /\ k.recover = recover
      /\ k.state = congState \/ (congState = "CWR" /\ a.ack > recover)
  <2>1. MaxWindow \in Nat /\ ssThresh \in 2 .. MaxWindow
    BY <1>3, BoundsAssumption DEF CongestionTypes
  <2>2. ssThresh \in 1 .. MaxWindow
    BY <2>1
  <2> QED
    BY <1>1, <1>3, <2>1, <2>2, CongestionRange
<1>5. w \in 1 .. MaxWindow
  <2>1. from \in 1 .. MaxWindow
    BY <1>4
  <2> HIDE DEF from
  <2> QED
    BY <1>4, <2>1 DEF IncreaseWindow
<1>6. /\ Sound(b) /\ b.head = a.ack /\ b.next = buf.next /\ b.tail = buf.tail
      /\ HeadLost(buf) => HeadLost(b)
      /\ buf.sacked = {} => b.lost = buf.lost \cap (a.ack .. buf.next - 1)
      /\ buf.head \in Nat /\ buf.next \in Nat /\ recover \in 0 .. buf.next
  BY AckedBuffer
<1>7. recover <= b.head
  <2>1. CASE congState \in {"OPEN", "DISORDER"}
    <3>1. recover <= buf.head
      BY <2>1 DEF Steady, RepairInv
    <3> QED
      BY <1>6, <3>1
  <2>2. CASE congState \in {"RECOVERY", "LOSS"}
    BY <1>1, <1>4, <1>6, <2>2
  <2>3. CASE congState = "CWR"
    BY <1>1, <1>4, <1>6, <2>3
  <2> QED
    BY <1>3, <2>1, <2>2, <2>3 DEF CongestionTypes
<1>8. ~recoverActive'
  <2>1. ~(b.head < k.recover)
    BY <1>4, <1>6, <1>7
  <2>2. recoverActive' = FALSE
    BY <1>1, <2>1
  <2> QED
    BY <2>2
<1>9. HeadLost(b)
  <2>1. CASE HeadLost(buf)
    BY <1>6, <2>1
  <2>2. CASE ~HeadLost(buf)
    <3>1. LossLeft(buf, recover)
      BY <1>3, <2>2 DEF Steady, RepairInv, CongestionTypes, HeadLost, LossRepair, LossLeft
    <3>2. b.lost \subseteq (a.ack .. buf.next - 1) \cap (buf.head .. recover - 1)
      BY <1>6, <3>1 DEF LossLeft
    <3>3. b.lost = {}
      <4>1. ASSUME NEW x \in b.lost PROVE FALSE
        BY <1>6, <1>7, <3>2
      <4> QED
        BY <4>1
    <3> QED
      BY <3>3 DEF HeadLost
  <2> QED
    BY <2>1, <2>2
<1>10. /\ armed \in BOOLEAN /\ (b.head < b.next => armed) /\ (armed => b.head < b.tail)
  BY <1>6, NewAckTimer
<1> HIDE DEF armed, from
<1>11. Sent(b.head) /\ BufferInv'
  BY <1>2, <1>3, <1>5, <1>6, <1>10, SendEffect
<1>12. TimerArmed' /\ retxRunning' \in BOOLEAN
  BY <1>2, <1>3, <1>5, <1>6, <1>10, SendTimer
<1>13. PICK R, n : /\ n \in Nat /\ buf'.head = b.head /\ buf'.next = b.next + n
                   /\ buf'.lost = b.lost
  BY <1>2, <1>3, <1>5, <1>6, <1>10, SendEffect
<1>14. RepairInv'
  <2>1. recover' = recover /\ recover' \in 0 .. buf'.next
    BY <1>4, <1>6, <1>13
  <2>2. recover' <= buf'.head /\ HeadLost(buf')
    BY <1>7, <1>9, <1>13, <2>1 DEF HeadLost
  <2> QED
    BY <1>1, <1>8, <2>1, <2>2 DEF RepairInv
<1>15. CongestionTypes'
  <2>1. firstPartial' \in BOOLEAN /\ recoverActive' \in BOOLEAN
    BY <1>1
  <2> QED
    BY <1>1, <1>2, <1>3, <1>5, <1>12, <2>1 DEF CongestionTypes
<1> QED
  BY <1>6, <1>11, <1>12, <1>14, <1>15 DEF Steady

\* The retransmission timer expires.
LEMMA TimeoutSend ==
    ASSUME Steady, history \in Seq(Entries), ecn \in EcnStates, ReTxTimeout
    PROVE  SentAgain(buf.head) /\ Steady'
<1> DEFINE b == SetSentListLost(ResetRenoSack(buf))
<1>1. /\ retxRunning /\ ~dropped /\ dropped' = dropped /\ dupAckCount' = 0 /\ recover' = buf.next
      /\ recoverActive' = TRUE /\ ssThresh' \in 2 .. MaxWindow /\ congState' = "LOSS"
      /\ cwnd' = 1 /\ UNCHANGED firstPartial /\ SendPendingData(b, 1, <<>>, ecn, FALSE)
  BY DEF ReTxTimeout
<1>2. BufferInv /\ CongestionTypes /\ Sound(buf) /\ Outstanding(buf) # {}
  BY <1>1 DEF Steady, TimerArmed, BufferInv
<1>3. /\ Sound(b) /\ b.head = buf.head /\ b.next = buf.next /\ b.tail = buf.tail
      /\ b.sacked = {} /\ b.lost = Outstanding(buf) /\ b.retrans = {}
  BY <1>2, SetSentListLostSound
<1> HIDE DEF b
<1>4. /\ buf.head \in Nat /\ buf.next \in Nat /\ buf.head < buf.next
  BY <1>2, SoundFinite, OutstandingIff
<1>5. Logs(<<>>, ecn)
  <2>1. <<>> \in Seq(Entries) /\ DOMAIN <<>> = {}
    OBVIOUS
  <2> QED
    BY <2>1 DEF Logs
<1>6. 1 \in 1 .. MaxWindow
  BY BoundsAssumption
<1>7. PICK R, n : /\ Chosen(b, R, n) /\ Transmit(b, <<>>, ecn, R, n)
                  /\ retxRunning' = (FALSE \/ R # {} \/ n > 0)
  BY <1>1, <1>3, <1>6, PendingSent
<1>8. /\ Fits(b, <<>>, ecn, R, n) /\ BufferInv' /\ n \in Nat
      /\ buf'.head = b.head /\ buf'.next = b.next + n
      /\ buf'.sacked = b.sacked /\ buf'.lost = b.lost /\ buf'.retrans = b.retrans \cup R
  <2>1. R \subseteq b.lost /\ n \in 0 .. b.tail - b.next
    BY <1>3, <1>7, SoundFinite DEF Chosen
  <2>2. Fits(b, <<>>, ecn, R, n)
    BY <1>3, <1>5, <2>1 DEF Fits
  <2> QED
    BY <1>2, <1>7, <2>1, <2>2, TransmitBuffer
<1>9. LossRepair(buf', buf.next)
  <2> DEFINE c == buf'
             r == buf.next
  <2>1. /\ c.head = b.head /\ c.next = b.next + n /\ c.sacked = b.sacked
        /\ c.lost = b.lost /\ c.retrans = b.retrans \cup R
    BY <1>8
  <2>2. /\ b.head < r /\ b.sacked = {} /\ b.lost = b.head .. r - 1 /\ b.retrans = {}
        /\ b.next = r /\ r \in Nat
    BY <1>3, <1>4 DEF Outstanding
  <2> HIDE DEF c, r
  <2>3. LossRepair(c, r)
    BY <1>3, <1>7, <2>1, <2>2, RepairGoesOn
  <2> QED
    BY <2>3 DEF c, r
<1>10. buf.head \in R
  BY <1>3, <1>8, <1>9 DEF LossRepair
<1>11. TimerArmed' /\ retxRunning' \in BOOLEAN
  <2>1. retxRunning' = TRUE
    BY <1>7, <1>10
  <2>2. Outstanding(buf') # {}
    <3>1. buf'.head < buf'.next
      BY <1>3, <1>4, <1>8
    <3> QED
      BY <1>8, <3>1, OutstandingIff DEF BufferInv
  <2>3. Outstanding(buf)' = Outstanding(buf')
    BY DEF Outstanding
  <2> QED
    BY <2>1, <2>2, <2>3 DEF TimerArmed
<1>12. RepairInv'
  <2>1. recover' \in 0 .. buf'.next
    BY <1>1, <1>3, <1>4, <1>8
  <2>2. LossRepair(buf', recover')
    BY <1>1, <1>9
  <2> QED
    BY <1>1, <2>1, <2>2 DEF RepairInv
<1>13. CongestionTypes'
  BY <1>1, <1>2, <1>6, <1>11 DEF CongestionTypes
<1> QED
  BY <1>3, <1>7, <1>8, <1>10, <1>11, <1>12, <1>13 DEF Steady, SentAgain

----------------------------------------------------------------------------
(* The inductive invariant *)

IInv == Steady /\ OtherTypes /\ LogInv /\ RetryInv /\ PathInv

\* What a transmission keeps of the history, the retries and the path, when the
\* retries left start over as the head moves.
LEMMA SentKeeps ==
    ASSUME IInv, ~dropped, NEW head, Sent(head), Steady', dropped' = dropped,
           \/ head = buf.head /\ dataRetrCount' = dataRetrCount
           \/ buf.head < head /\ dataRetrCount' = DataRetries
    PROVE  /\ LogInv' /\ RetryInv' /\ ecn' \in EcnStates
           /\ buf'.head = head /\ buf.next <= buf'.next /\ buf'.tail = buf.tail
           /\ data' \in Seq(DataBelow(buf'.next))
<1>1. PICK b, h, e, R, n : Fits(b, h, e, R, n) /\ b.head = head /\ Transmit(b, h, e, R, n)
  BY DEF Sent
<1>2. BufferInv /\ LogInv /\ data \in Seq(DataBelow(buf.next))
  BY DEF IInv, Steady, PathInv
<1>3. /\ buf'.head = head /\ buf'.next = buf.next + n /\ buf'.tail = buf.tail
      /\ ecn' \in EcnStates
  BY <1>1, <1>2, TransmitBuffer DEF Fits
<1>4. /\ LogInv'
      /\ \A s \in 1 .. N :
             copies'[s] = copies[s] + IF s \in R \cup b.next .. b.next + n - 1 THEN 1 ELSE 0
  BY <1>1, <1>2, TransmitLog
<1>5. data' \in Seq(DataBelow(buf'.next))
  BY <1>1, <1>2, <1>3, TransmitData DEF Fits
<1>6. /\ buf.head \in Nat \ {0} /\ buf.next \in Nat /\ n \in Nat /\ N \in Nat
      /\ buf.head <= buf.next
      /\ head \in Nat \ {0} /\ head <= buf.next /\ buf'.next <= N + 1 /\ buf'.next \in Nat
  <2>1. Sound(b) /\ Sound(buf) /\ b.next = buf.next /\ n \in 0 .. b.tail - b.next
    BY <1>1, <1>2 DEF Fits, BufferInv
  <2>2. /\ b.head <= b.next /\ b.head \in Nat \ {0} /\ b.next \in Nat /\ b.tail \in Nat
        /\ buf.head \in Nat \ {0} /\ buf.head <= buf.next
    BY <2>1, SoundFinite DEF Sound
  <2>3. b.tail <= N + 1 /\ N \in Nat
    BY <1>1, <1>2, BoundsAssumption DEF Fits, BufferInv
  <2> QED
    BY <1>1, <1>3, <2>1, <2>2, <2>3
<1>7. RetryInv'
  <2>1. SUFFICES ASSUME head # buf'.next
                 PROVE  copies'[head] >= 1 + DataRetries - dataRetrCount'
    <3>1. head = buf'.next => dataRetrCount' = DataRetries
      <4>1. CASE buf.head < head
        BY <1>6, <4>1
      <4>2. CASE ~(buf.head < head)
        <5>1. head = buf.head /\ dataRetrCount' = dataRetrCount
          BY <4>2
        <5>2. head = buf'.next => buf.head = buf.next
          BY <1>3, <1>6, <5>1
        <5> QED
          BY <5>1, <5>2 DEF IInv, RetryInv
      <4> QED
        BY <4>1, <4>2
    <3> QED
      BY <1>3, <3>1 DEF RetryInv
  <2>2. head \in 1 .. N /\ head < buf'.next
    BY <1>3, <1>6, <2>1
  <2>3. copies'[head] >= 1 /\ copies'[head] \in Nat
    BY <1>4, <2>2 DEF LogInv
  <2>4. DataRetries \in Nat
    BY SocketAssumption
  <2>5. CASE buf.head < head
    BY <1>6, <2>3, <2>4, <2>5
  <2>6. CASE ~(buf.head < head)
    <3>1. head = buf.head /\ dataRetrCount' = dataRetrCount
      BY <2>6
    <3>2. CASE buf.head = buf.next
      <4>1. dataRetrCount = DataRetries
        BY <3>2 DEF IInv, RetryInv
      <4> QED
        BY <2>3, <2>4, <3>1, <4>1
    <3>3. CASE buf.head # buf.next
      <4>1. /\ copies[head] >= 1 + DataRetries - dataRetrCount
            /\ copies[head] \in Nat /\ dataRetrCount \in Nat
        BY <2>2, <3>1, <3>3 DEF IInv, RetryInv, LogInv, OtherTypes
      <4>2. copies'[head] >= copies[head]
        BY <1>4, <2>2, <4>1
      <4> QED
        BY <2>3, <2>4, <3>1, <4>1, <4>2
    <3> QED
      BY <3>2, <3>3
  <2> QED
    BY <2>5, <2>6
<1>8. buf.next <= buf'.next
  BY <1>3, <1>6
<1> QED
  BY <1>3, <1>4, <1>5, <1>7, <1>8

\* The timeout sends the head again for the retry it takes.
LEMMA TimeoutKeeps ==
    ASSUME IInv, ReTxTimeout
    PROVE  IInv' /\ buf'.head = buf.head /\ buf'.tail = buf.tail
<1>1. /\ retxRunning /\ ~dropped /\ dropped' = dropped /\ dataRetrCount > 0
      /\ dataRetrCount' = dataRetrCount - 1
      /\ UNCHANGED <<firstPartial, sendEvent, dropped, acks, path, receiver>>
  BY DEF ReTxTimeout, RetriesLeft
<1>2. SentAgain(buf.head) /\ Steady'
  BY TimeoutSend DEF IInv, LogInv, OtherTypes
<1>3. PICK b, h, e, R, n : /\ Fits(b, h, e, R, n) /\ b.head = buf.head /\ buf.head \in R
                           /\ Transmit(b, h, e, R, n)
  BY <1>2 DEF SentAgain
<1>4. BufferInv /\ LogInv /\ data \in Seq(DataBelow(buf.next))
  BY DEF IInv, Steady, PathInv
<1>5. /\ buf'.head = buf.head /\ buf'.next = buf.next + n /\ ecn' \in EcnStates
      /\ buf'.tail = buf.tail
      /\ b.lost \subseteq Outstanding(b) /\ R \subseteq b.lost
  BY <1>3, <1>4, TransmitBuffer DEF Fits, Sound
<1>6. /\ LogInv'
      /\ \A s \in 1 .. N :
             copies'[s] = copies[s] + IF s \in R \cup b.next .. b.next + n - 1 THEN 1 ELSE 0
  BY <1>3, <1>4, TransmitLog
<1>7. data' \in Seq(DataBelow(buf'.next))
  BY <1>3, <1>4, <1>5, TransmitData DEF Fits
<1>8. /\ buf.head \in 1 .. N /\ buf.head < buf.next /\ buf.next \in Nat /\ n \in Nat
  <2>1. /\ buf.head \in Nat \ {0} /\ buf.next \in Nat /\ buf.tail \in Nat /\ buf.next <= buf.tail
        /\ buf.tail <= N + 1 /\ N \in Nat
    BY <1>4, SoundFinite, BoundsAssumption DEF BufferInv, Sound
  <2>2. buf.head \in b.head .. b.next - 1 /\ b.next = buf.next /\ n \in 0 .. b.tail - b.next
    BY <1>3, <1>5 DEF Outstanding, Fits
  <2>3. buf.head < buf.next
    BY <1>3, <2>1, <2>2
  <2> QED
    BY <2>1, <2>2, <2>3
<1>9. dataRetrCount \in 0 .. DataRetries /\ DataRetries \in Nat
  BY SocketAssumption DEF IInv, OtherTypes
<1>10. RetryInv'
  <2>1. copies[buf.head] >= 1 + DataRetries - dataRetrCount /\ copies[buf.head] \in Nat
    <3>1. buf.head # buf.next
      BY <1>8
    <3> QED
      BY <1>1, <1>4, <1>8, <3>1 DEF IInv, RetryInv, LogInv
  <2>2. copies'[buf.head] = copies[buf.head] + 1
    BY <1>3, <1>6, <1>8
  <2>3. buf'.head # buf'.next
    BY <1>5, <1>8
  <2>4. copies'[buf'.head] >= 1 + DataRetries - dataRetrCount'
    BY <1>1, <1>5, <1>9, <2>1, <2>2
  <2> QED
    BY <1>1, <2>3, <2>4 DEF RetryInv
<1>11. OtherTypes'
  <2>1. dataRetrCount' \in 0 .. DataRetries
    BY <1>1, <1>9
  <2> QED
    BY <1>1, <1>5, <2>1 DEF IInv, OtherTypes, path
<1>12. PathInv'
  <2>1. buf.next <= buf'.next /\ buf'.next \in Nat
    BY <1>5, <1>8
  <2>2. rcvNext' <= buf'.next /\ rcvBuf' \subseteq rcvNext' + 1 .. buf'.next - 1
    <3>1. /\ rcvNext \in Nat /\ rcvNext <= buf.next
          /\ rcvBuf \subseteq rcvNext + 1 .. buf.next - 1
      BY DEF IInv, PathInv
    <3>2. rcvNext + 1 .. buf.next - 1 \subseteq rcvNext + 1 .. buf'.next - 1
      BY <1>8, <2>1, <3>1
    <3> QED
      BY <1>1, <1>8, <2>1, <3>1, <3>2 DEF receiver
  <2> QED
    BY <1>1, <1>5, <1>7, <2>2 DEF IInv, PathInv, receiver
<1> QED
  BY <1>2, <1>5, <1>6, <1>10, <1>11, <1>12 DEF IInv

----------------------------------------------------------------------------
(* The steps that keep the invariant *)

\* The initial states.
LEMMA InitKeeps ==
    ASSUME Init
    PROVE  IInv
<1>1. N \in Nat \ {0} /\ DataRetries \in Nat /\ DelAckMax \in Nat /\ RetxThresh \in Nat \ {0}
      /\ MaxWindow \in Nat /\ MaxWindow >= 2 /\ InitialCwnd \in 1 .. MaxWindow
      /\ MaxLoss \in Nat /\ MaxMarks \in Nat
  BY BoundsAssumption, SocketAssumption
<1>2. /\ buf.head = 1 /\ buf.next = 1 /\ buf.tail = 1 /\ buf \in TxBuffers
      /\ buf.sacked = {} /\ buf.lost = {} /\ buf.retrans = {}
  BY DEF Init, EmptyTxBuffer, TxBuffers
<1>3. BufferInv /\ Outstanding(buf) = {}
  <2>1. Outstanding(buf) = {}
    BY <1>2 DEF Outstanding
  <2> QED
    BY <1>1, <1>2, <2>1 DEF BufferInv, Sound
<1>4. CongestionTypes /\ TimerArmed
  <2>1. /\ congState = "OPEN" /\ dupAckCount = 0 /\ recoverActive = FALSE
        /\ firstPartial = TRUE /\ retxRunning = FALSE
        /\ cwnd = InitialCwnd /\ ssThresh = MaxWindow
    BY DEF Init
  <2>2. MaxWindow \in 2 .. MaxWindow
    BY <1>1
  <2> QED
    BY <1>1, <1>3, <2>1, <2>2 DEF CongestionTypes, TimerArmed
<1>5. RepairInv
  BY <1>1, <1>2 DEF Init, RepairInv, HeadLost
<1>6. ecn \in EcnStates /\ rcvEcn \in RcvEcnStates
  BY <1>1 DEF Init, EcnStates, RcvEcnStates
<1>7. OtherTypes
  <2>1. /\ sendEvent = FALSE /\ dropped = FALSE /\ dataRetrCount = DataRetries
        /\ losses = 0 /\ marks = 0
    BY DEF Init
  <2>2. /\ DataRetries \in 0 .. DataRetries
        /\ 0 \in 0 .. MaxLoss /\ 0 \in 0 .. MaxMarks
    BY <1>1
  <2> QED
    BY <1>6, <2>1, <2>2, Zenon DEF OtherTypes
<1>8. LogInv
  <2>1. history \in Seq(Entries) /\ DOMAIN history = {}
    BY DEF Init
  <2>2. copies \in [1 .. N -> Nat] /\ \A s \in 1 .. N : copies[s] = 0 /\ s >= buf.next
    BY <1>1, <1>2 DEF Init
  <2>3. \A s \in 1 .. N : ~(s < buf.next)
    BY <1>2, <2>2
  <2> QED
    BY <2>1, <2>2, <2>3 DEF LogInv, SamplesUnambiguous
<1>9. RetryInv
  BY <1>2 DEF Init, RetryInv
<1>10. PathInv
  <2>1. data \in Seq(DataBelow(buf.next)) /\ acks \in Seq(AckBelow(rcvNext))
    BY DEF Init
  <2> QED
    BY <1>1, <1>2, <1>6, <2>1 DEF Init, PathInv
<1> QED
  BY <1>3, <1>4, <1>5, <1>7, <1>8, <1>9, <1>10 DEF IInv, Steady

\* A step that leaves the buffer, the congestion state and the timer alone.
LEMMA SteadyStays ==
    ASSUME Steady, UNCHANGED <<buf, congestion, window, retxRunning, dropped>>
    PROVE  Steady'
<1>1. BufferInv'
  BY DEF Steady, BufferInv
<1>2. CongestionTypes'
  BY DEF Steady, CongestionTypes, congestion, window
<1>3. RepairInv'
  BY DEF Steady, RepairInv, congestion
<1>4. TimerArmed'
  BY DEF Steady, TimerArmed
<1> QED
  BY <1>1, <1>2, <1>3, <1>4 DEF Steady

\* The numbers that the buffer consists of.
LEMMA BufferNumbers ==
    ASSUME BufferInv
    PROVE  /\ buf.head \in 1 .. N + 1 /\ buf.next \in 1 .. N + 1 /\ buf.tail \in 1 .. N + 1
           /\ buf.head <= buf.next /\ buf.next <= buf.tail /\ N \in Nat
BY SoundFinite, BoundsAssumption DEF BufferInv, Sound

\* What EstimateRtt leaves of the history and the echo of the state of ECN.
LEMMA AckLogs ==
    ASSUME IInv, NEW a \in AckBelow(rcvNext)
    PROVE  Logs(ForgetAcked(history, a.ack), AfterEcho(a))
<1>1. history \in Seq(Entries) /\ ecn \in EcnStates
  BY DEF IInv, LogInv, OtherTypes
<1>2. a.ack \in 0 .. N + 1
  <2>1. rcvNext \in Nat /\ rcvNext <= buf.next /\ a.ack \in 1 .. rcvNext
    BY DEF IInv, PathInv, AckBelow
  <2> QED
    BY <2>1, BufferNumbers DEF IInv, Steady
<1>3. AfterEcho(a) \in EcnStates
  BY <1>1, <1>2 DEF AfterEcho, EcnStates
<1> QED
  BY <1>1, <1>3, ForgetAckedRange DEF Logs

\* What an ACK does to the state of the sender, and that the head it leaves was
\* delivered.
AckKept ==
    /\ Steady' /\ LogInv' /\ RetryInv' /\ ecn' \in EcnStates
    /\ dataRetrCount' \in 0 .. DataRetries
    /\ buf.next <= buf'.next /\ buf'.tail = buf.tail
    /\ data' \in Seq(DataBelow(buf'.next))
    /\ buf.head <= buf'.head /\ buf'.head <= rcvNext

\* A stale ACK only removes entries of the history.
LEMMA StaleAckKeeps ==
    ASSUME IInv, NEW a, NEW h, NEW e, Logs(h, e), history' = h, dropped' = dropped,
           UNCHANGED <<buf, congestion, window, retxRunning, dataRetrCount, ecn, data, copies>>
    PROVE  AckKept
<1>1. Steady'
  BY SteadyStays DEF IInv
<1>2. LogInv'
  <2>1. /\ history' \in Seq(Entries)
        /\ \A i \in DOMAIN history' : \E j \in DOMAIN history : history'[i] = history[j]
    BY DEF Logs
  <2>2. /\ \A i \in DOMAIN history : history[i].seq < buf.next
        /\ \A i \in DOMAIN history : ~history[i].retx => copies[history[i].seq] = 1
    BY DEF IInv, LogInv, SamplesUnambiguous
  <2>3. /\ \A i \in DOMAIN history' : history'[i].seq < buf.next
        /\ \A i \in DOMAIN history' : ~history'[i].retx => copies[history'[i].seq] = 1
    BY <2>1, <2>2
  <2> QED
    BY <2>1, <2>3 DEF IInv, LogInv, SamplesUnambiguous
<1>3. RetryInv'
  BY DEF IInv, RetryInv
<1>4. /\ buf'.next = buf.next /\ buf'.tail = buf.tail /\ buf'.head = buf.head
      /\ buf.next \in Nat /\ buf.head \in Nat /\ buf.head <= rcvNext
      /\ data' \in Seq(DataBelow(buf'.next)) /\ ecn' \in EcnStates
      /\ dataRetrCount' \in 0 .. DataRetries
  BY BufferNumbers DEF IInv, Steady, PathInv, OtherTypes
<1> QED
  BY <1>1, <1>2, <1>3, <1>4 DEF AckKept

\* One transmission from the head the ACK leaves.
LEMMA SentAckKeeps ==
    ASSUME IInv, ~dropped, dropped' = dropped, NEW ack \in Nat, ack <= rcvNext,
           \/ ack = buf.head /\ dataRetrCount' = dataRetrCount
           \/ buf.head < ack /\ dataRetrCount' = DataRetries,
           Sent(ack), Steady'
    PROVE  AckKept /\ buf'.head = ack
<1>1. /\ LogInv' /\ RetryInv' /\ ecn' \in EcnStates
      /\ buf'.head = ack /\ buf.next <= buf'.next /\ buf'.tail = buf.tail
      /\ data' \in Seq(DataBelow(buf'.next))
  <2>1. \/ ack = buf.head /\ dataRetrCount' = dataRetrCount
        \/ buf.head < ack /\ dataRetrCount' = DataRetries
    OBVIOUS
  <2> QED
    BY <2>1, SentKeeps
<1>2. dataRetrCount' \in 0 .. DataRetries
  BY SocketAssumption DEF IInv, OtherTypes
<1>3. buf.head <= ack
  <2>1. buf.head \in Nat
    BY BufferNumbers DEF IInv, Steady
  <2> QED
    BY <2>1
<1> QED
  BY <1>1, <1>2, <1>3 DEF AckKept

\* Every ACK that arrives.
LEMMA ReceivedAckKeeps ==
    ASSUME IInv, ~dropped, dropped' = dropped, NEW a \in AckBelow(rcvNext), ReceivedAck(a)
    PROVE  AckKept /\ buf'.head = IF buf.head < a.ack THEN a.ack ELSE buf.head
<1>1. /\ a.ack \in Nat /\ a.ack <= rcvNext /\ a.ack <= buf.next
      /\ buf.head \in Nat /\ buf.next \in Nat /\ buf.head <= buf.next
  <2>1. rcvNext \in Nat /\ rcvNext <= buf.next /\ a.ack \in 1 .. rcvNext
    BY DEF IInv, PathInv, AckBelow
  <2> QED
    BY <2>1, BufferNumbers DEF IInv, Steady
<1> DEFINE b == DiscardUpTo(buf, a.ack)
           h == ForgetAcked(history, a.ack)
           e == AfterEcho(a)
<1>2. Logs(h, e)
  BY AckLogs
<1>3. Steady
  BY DEF IInv
<1>4. a.ack = buf.head => Same(b)
  BY <1>3, DiscardNothing DEF Steady, BufferInv, Same
<1> DEFINE Stale ==
             /\ a.ack < buf.head
             /\ history' = h
             /\ UNCHANGED <<buf, congestion, window, retxRunning, dataRetrCount, ecn, data, copies>>
           Nothing ==
             /\ a.ack = buf.head /\ a.ack = buf.next
             /\ SendPendingData(b, cwnd, h, e, retxRunning)
             /\ UNCHANGED <<congestion, window, dataRetrCount>>
           Duplicate ==
             /\ a.ack = buf.head /\ a.ack < buf.next
             /\ \/ DupAckInLoss(b, h, e) \/ DupAckInCwr(b, h, e) \/ DupAckInRecovery(b, h, e)
                \/ DupAckInDisorder(b, h, e) \/ EnterRecovery(b, h, e)
             /\ UNCHANGED dataRetrCount
           New ==
             /\ a.ack > buf.head
             /\ \E k \in Congestion(a) :
                    /\ recover' = k.recover
                    /\ \/ PartialAckInRecovery(b, h, e, k)
                       \/ PartialAckInLoss(b, h, e, k, a.ack - buf.head)
                       \/ AckInCwr(b, h, e, k)
                       \/ FullAck(b, h, e, k, IF k.state = "LOSS" THEN a.ack - recover
                                              ELSE a.ack - buf.head)
             /\ ResetRetries
<1>5. Stale \/ Nothing \/ Duplicate \/ New
  <2>1. PICK c \in {b}, g \in {h}, f \in {e} :
          \/ /\ a.ack < buf.head
             /\ history' = g
             /\ UNCHANGED <<buf, congestion, window, retxRunning, dataRetrCount, ecn, data, copies>>
          \/ /\ a.ack = buf.head /\ a.ack = buf.next
             /\ SendPendingData(c, cwnd, g, f, retxRunning)
             /\ UNCHANGED <<congestion, window, dataRetrCount>>
          \/ /\ a.ack = buf.head /\ a.ack < buf.next
             /\ \/ DupAckInLoss(c, g, f) \/ DupAckInCwr(c, g, f) \/ DupAckInRecovery(c, g, f)
                \/ DupAckInDisorder(c, g, f) \/ EnterRecovery(c, g, f)
             /\ UNCHANGED dataRetrCount
          \/ /\ a.ack > buf.head
             /\ \E k \in Congestion(a) :
                    /\ recover' = k.recover
                    /\ \/ PartialAckInRecovery(c, g, f, k)
                       \/ PartialAckInLoss(c, g, f, k, a.ack - buf.head)
                       \/ AckInCwr(c, g, f, k)
                       \/ FullAck(c, g, f, k, IF k.state = "LOSS" THEN a.ack - recover
                                              ELSE a.ack - buf.head)
             /\ ResetRetries
    BY DEF ReceivedAck
  <2>2. c = b /\ g = h /\ f = e
    OBVIOUS
  <2> HIDE DEF b, h, e
  <2> QED
    BY <2>1, <2>2
<1>6. CASE Stale
  <2>1. AckKept
    BY <1>2, <1>6, StaleAckKeeps
  <2>2. buf'.head = buf.head /\ ~(buf.head < a.ack)
    BY <1>1, <1>6
  <2> QED
    BY <2>1, <2>2
<1>7. CASE Nothing
  <2>1. Same(b) /\ ~dropped /\ SendPendingData(b, cwnd, h, e, retxRunning)
        /\ UNCHANGED <<congState, recover, recoverActive, firstPartial, window>>
        /\ dupAckCount' = dupAckCount
    BY <1>4, <1>7 DEF congestion
  <2> HIDE DEF b, h, e
  <2>2. Sent(buf.head) /\ Steady'
    BY <1>2, <1>3, <2>1, QuietSend
  <2> QED
    BY <1>1, <1>7, <2>2, SentAckKeeps
<1>8. CASE Duplicate
  <2>1. Same(b) /\ buf.head < buf.next /\ dataRetrCount' = dataRetrCount
    BY <1>4, <1>8
  <2>2. \/ DupAckInLoss(b, h, e) \/ DupAckInCwr(b, h, e) \/ DupAckInRecovery(b, h, e)
        \/ DupAckInDisorder(b, h, e) \/ EnterRecovery(b, h, e)
    BY <1>8
  <2> HIDE DEF b, h, e
  <2>3. Sent(buf.head) /\ Steady'
    <3>1. CASE DupAckInLoss(b, h, e)
      BY <1>2, <1>3, <2>1, <3>1, QuietSend DEF DupAckInLoss, congestion
    <3>2. CASE DupAckInCwr(b, h, e)
      BY <1>2, <1>3, <2>1, <3>2, QuietSend DEF DupAckInCwr
    <3>3. CASE DupAckInRecovery(b, h, e)
      BY <1>2, <1>3, <2>1, <3>3, RecoverySend
    <3>4. CASE DupAckInDisorder(b, h, e)
      BY <1>2, <1>3, <2>1, <3>4, DisorderSend
    <3>5. CASE EnterRecovery(b, h, e)
      BY <1>2, <1>3, <2>1, <3>5, EnterRecoverySend
    <3> QED
      BY <2>2, <3>1, <3>2, <3>3, <3>4, <3>5
  <2> QED
    BY <1>1, <1>8, <2>1, <2>3, SentAckKeeps
<1>9. CASE New
  <2>1. buf.head < a.ack /\ dataRetrCount' = DataRetries /\ b = DiscardUpTo(buf, a.ack)
    BY <1>1, <1>9 DEF ResetRetries
  <2>2. PICK k \in Congestion(a) :
          /\ recover' = k.recover
          /\ \/ PartialAckInRecovery(b, h, e, k)
             \/ PartialAckInLoss(b, h, e, k, a.ack - buf.head)
             \/ AckInCwr(b, h, e, k)
             \/ FullAck(b, h, e, k, IF k.state = "LOSS" THEN a.ack - recover
                                    ELSE a.ack - buf.head)
    BY <1>9
  <2> DEFINE news == a.ack - buf.head
             segs == IF k.state = "LOSS" THEN a.ack - recover ELSE a.ack - buf.head
  <2>3. \/ PartialAckInRecovery(b, h, e, k) \/ PartialAckInLoss(b, h, e, k, news)
        \/ AckInCwr(b, h, e, k) \/ FullAck(b, h, e, k, segs)
    BY <2>2
  <2> HIDE DEF b, h, e, news, segs
  <2>4. Sent(a.ack) /\ Steady'
    <3>1. CASE PartialAckInRecovery(b, h, e, k)
      BY <1>1, <1>2, <1>3, <2>1, <2>2, <3>1, PartialRecoverySend
    <3>2. CASE PartialAckInLoss(b, h, e, k, news)
      BY <1>1, <1>2, <1>3, <2>1, <2>2, <3>2, PartialLossSend
    <3>3. CASE AckInCwr(b, h, e, k)
      BY <1>1, <1>2, <1>3, <2>1, <2>2, <3>3, CwrSend
    <3>4. CASE FullAck(b, h, e, k, segs)
      BY <1>1, <1>2, <1>3, <2>1, <2>2, <3>4, FullAckSend
    <3> QED
      BY <2>3, <3>1, <3>2, <3>3, <3>4
  <2> QED
    BY <1>1, <2>1, <2>4, SentAckKeeps
<1> QED
  BY <1>5, <1>6, <1>7, <1>8, <1>9

\* ACKs acknowledge no more later than they did.
LEMMA AckBelowGrows ==
    ASSUME NEW m \in Nat, NEW p \in Nat, m <= p, NEW s \in Seq(AckBelow(m))
    PROVE  s \in Seq(AckBelow(p))
<1>1. AckBelow(m) \subseteq AckBelow(p)
  BY DEF AckBelow
<1> QED
  BY <1>1

\* What is sent later keeps the state of the peer within what was sent.
LEMMA PathStays ==
    ASSUME IInv, buf'.next \in Nat, buf.next <= buf'.next, buf'.head <= rcvNext,
           data' \in Seq(DataBelow(buf'.next)), acks' \in Seq(AckBelow(rcvNext)),
           UNCHANGED receiver
    PROVE  PathInv'
<1>1. /\ rcvNext \in Nat /\ rcvNext <= buf.next /\ buf.next \in Nat
      /\ rcvBuf \subseteq rcvNext + 1 .. buf.next - 1
      /\ rcvNext' = rcvNext /\ rcvBuf' = rcvBuf
  BY BufferNumbers DEF IInv, PathInv, receiver, Steady
<1>2. rcvNext + 1 .. buf.next - 1 \subseteq rcvNext + 1 .. buf'.next - 1
  BY <1>1
<1>3. rcvNext <= buf'.next
  BY <1>1
<1> QED
  BY <1>1, <1>2, <1>3 DEF IInv, PathInv, receiver

\* An ACK arrives.
LEMMA RecvAckKeeps ==
    ASSUME IInv, NEW i \in DOMAIN acks, RecvAck(i)
    PROVE  IInv'
<1>1. /\ acks \in Seq(AckBelow(rcvNext)) /\ acks[i] \in AckBelow(rcvNext)
      /\ acks' \in Seq(AckBelow(rcvNext))
  <2>1. acks \in Seq(AckBelow(rcvNext))
    BY DEF IInv, PathInv
  <2>2. acks[i] \in AckBelow(rcvNext)
    BY <2>1, ElementOfSeq, LenProperties
  <2>3. acks' = RemoveAt(acks, i)
    BY DEF RecvAck
  <2> QED
    BY <2>1, <2>2, <2>3, RemoveAtRange
<1>2. dropped' = dropped /\ UNCHANGED receiver /\ UNCHANGED <<sendEvent, losses, marks>>
  BY DEF RecvAck, path
<1>3. CASE dropped
  <2>1. UNCHANGED <<buf, congestion, window, retxRunning, dataRetrCount,
                    history, ecn, data, copies>>
    BY <1>3 DEF RecvAck
  <2>2. Steady'
    BY <1>2, <2>1, SteadyStays DEF IInv
  <2>3. LogInv' /\ RetryInv' /\ OtherTypes'
    BY <1>2, <2>1 DEF IInv, LogInv, SamplesUnambiguous, RetryInv, OtherTypes
  <2>4. buf'.next \in Nat /\ buf.next <= buf'.next /\ buf'.head <= rcvNext
        /\ data' \in Seq(DataBelow(buf'.next))
    BY <2>1, BufferNumbers DEF IInv, Steady, PathInv
  <2> QED
    BY <1>1, <1>2, <2>2, <2>3, <2>4, PathStays DEF IInv
<1>4. CASE ~dropped
  <2>1. ReceivedAck(acks[i])
    BY <1>4 DEF RecvAck
  <2>2. AckKept
    BY <1>1, <1>2, <1>4, <2>1, ReceivedAckKeeps
  <2>3. OtherTypes'
    BY <1>2, <2>2 DEF AckKept, IInv, OtherTypes
  <2>4. buf'.next \in Nat
    <3>1. Sound(buf')
      BY <2>2 DEF AckKept, Steady, BufferInv
    <3> QED
      BY <3>1 DEF Sound, TxBuffers
  <2>5. PathInv'
    BY <1>1, <1>2, <2>2, <2>4, PathStays DEF AckKept
  <2> QED
    BY <2>2, <2>3, <2>5 DEF AckKept, IInv
<1> QED
  BY <1>3, <1>4

\* The application writes a segment.
LEMMA SendKeeps ==
    ASSUME IInv, Send
    PROVE  IInv'
<1> DEFINE t == buf.tail + 1
           c == [buf EXCEPT !.tail = t]
<1>1. /\ buf.tail <= N /\ buf' = c
      /\ sendEvent' = (sendEvent \/ Room(c, cwnd) > 0)
      /\ UNCHANGED <<congestion, window, retxRunning, dataRetrCount, dropped,
                     history, ecn, copies, data, acks, path, receiver>>
  BY DEF Send
<1>2. Sound(buf) /\ buf \in TxBuffers /\ N \in Nat
  BY BoundsAssumption DEF IInv, Steady, BufferInv, Sound
<1>3. t \in Nat /\ buf.tail <= t /\ t <= N + 1
  BY <1>1, <1>2 DEF TxBuffers
<1> HIDE DEF t
<1>4. /\ c.head = buf.head /\ c.next = buf.next /\ c.tail = t
      /\ c.sacked = buf.sacked /\ c.lost = buf.lost /\ c.retrans = buf.retrans
      /\ c \in TxBuffers
  BY <1>2, <1>3 DEF TxBuffers
<1> HIDE DEF c
<1>5. Outstanding(c) = Outstanding(buf) /\ Missing(c) = Missing(buf)
  BY <1>4 DEF Outstanding, Missing
<1>6. BufferInv'
  <2>1. c.next <= t
    BY <1>2, <1>3, <1>4 DEF Sound, TxBuffers
  <2>2. Sound(c)
    BY <1>2, <1>4, <1>5, <2>1 DEF Sound
  <2>3. Sound(buf') /\ buf'.tail <= N + 1
    BY <1>1, <1>3, <1>4, <2>2
  <2> QED
    BY <2>3 DEF BufferInv
<1>7. CongestionTypes' /\ TimerArmed'
  BY <1>1, <1>5 DEF IInv, Steady, CongestionTypes, TimerArmed, congestion, window
<1>8. RepairInv'
  <2>1. /\ HeadLost(buf) => HeadLost(c)
        /\ LossRepair(buf, recover) => LossRepair(c, recover)
        /\ LossLeft(buf, recover) => LossLeft(c, recover)
    BY <1>4, <1>5 DEF HeadLost, LossRepair, LossLeft
  <2> QED
    BY <1>1, <1>4, <2>1 DEF IInv, Steady, RepairInv, congestion
<1>9. OtherTypes'
  BY <1>1 DEF IInv, OtherTypes, path
<1>10. LogInv' /\ RetryInv'
  BY <1>1, <1>4 DEF IInv, LogInv, SamplesUnambiguous, RetryInv
<1>11. PathInv'
  BY <1>1, <1>4 DEF IInv, PathInv, receiver
<1> QED
  BY <1>6, <1>7, <1>8, <1>9, <1>10, <1>11 DEF IInv, Steady

\* m_sendPendingDataEvent.
LEMMA SendEventKeeps ==
    ASSUME IInv, SendPendingDataEvent
    PROVE  IInv' /\ buf'.head = buf.head /\ buf'.tail = buf.tail
<1>1. /\ sendEvent' = FALSE
      /\ UNCHANGED <<congestion, window, dataRetrCount, dropped, acks, path, receiver>>
  BY DEF SendPendingDataEvent
<1>2. Sound(buf) /\ Steady
  BY DEF IInv, Steady, BufferInv
<1>3. CASE dropped \/ BufferSize(buf) = 0
  <2>1. UNCHANGED <<buf, history, ecn, data, copies, retxRunning>>
    BY <1>3 DEF SendPendingDataEvent
  <2>2. Steady'
    BY <1>1, <1>2, <2>1, SteadyStays
  <2>3. LogInv' /\ RetryInv' /\ OtherTypes' /\ PathInv'
    BY <1>1, <2>1 DEF IInv, LogInv, SamplesUnambiguous, RetryInv, OtherTypes, PathInv, path, receiver
  <2> QED
    BY <2>1, <2>2, <2>3 DEF IInv
<1>4. CASE ~(dropped \/ BufferSize(buf) = 0)
  <2>1. ~dropped /\ SendPendingData(buf, cwnd, history, ecn, retxRunning)
    BY <1>4 DEF SendPendingDataEvent
  <2>2. Same(buf)
    BY <1>2 DEF Same
  <2>3. Logs(history, ecn)
    BY DEF IInv, LogInv, OtherTypes, Logs
  <2>4. /\ UNCHANGED <<congState, recover, recoverActive, firstPartial, window>>
        /\ dupAckCount' = dupAckCount
    BY <1>1 DEF congestion
  <2>5. Sent(buf.head) /\ Steady'
    BY <1>2, <2>1, <2>2, <2>3, <2>4, QuietSend
  <2>6. AckKept /\ buf'.head = buf.head
    <3>1. buf.head \in Nat /\ buf.head <= rcvNext
      BY BufferNumbers DEF IInv, Steady, PathInv
    <3> QED
      BY <1>1, <2>1, <2>5, <3>1, SentAckKeeps
  <2>7. OtherTypes'
    BY <1>1, <2>6 DEF AckKept, IInv, OtherTypes, path
  <2>8. buf'.next \in Nat
    <3>1. Sound(buf')
      BY <2>5 DEF Steady, BufferInv
    <3> QED
      BY <3>1 DEF Sound, TxBuffers
  <2>9. PathInv'
    <3>1. acks' \in Seq(AckBelow(rcvNext))
      BY <1>1 DEF IInv, PathInv
    <3> QED
      BY <1>1, <2>6, <2>8, <3>1, PathStays DEF AckKept
  <2> QED
    BY <2>6, <2>7, <2>9 DEF AckKept, IInv
<1> QED
  BY <1>3, <1>4

\* With the last retry spent, the connection is given up.
LEMMA GiveUpKeeps ==
    ASSUME IInv, ReTxGiveUp
    PROVE  IInv'
<1>1. /\ retxRunning /\ ~dropped /\ dropped' = TRUE /\ retxRunning' = FALSE /\ sendEvent' = FALSE
      /\ ~(dataRetrCount > 0)
      /\ UNCHANGED <<buf, congestion, window, dataRetrCount, history, ecn, copies,
                     data, acks, path, receiver>>
  BY DEF ReTxGiveUp, RetriesLeft
<1>2. BufferInv' /\ RepairInv'
  BY <1>1 DEF IInv, Steady, BufferInv, RepairInv, congestion
<1>3. CongestionTypes' /\ TimerArmed'
  BY <1>1 DEF IInv, Steady, CongestionTypes, TimerArmed, congestion, window
<1>4. OtherTypes' /\ LogInv' /\ PathInv'
  BY <1>1 DEF IInv, OtherTypes, LogInv, SamplesUnambiguous, PathInv, path, receiver
<1>5. RetryInv'
  <2>1. buf.head # buf.next
    <3>1. Outstanding(buf) # {} /\ Sound(buf)
      BY <1>1 DEF IInv, Steady, TimerArmed, BufferInv
    <3>2. buf.head < buf.next
      BY <3>1, OutstandingIff
    <3> QED
      BY <3>2, BufferNumbers DEF IInv, Steady
  <2>2. dataRetrCount = 0
    BY <1>1, SocketAssumption DEF IInv, OtherTypes
  <2>3. copies[buf.head] >= 1 + DataRetries
    <3>1. copies[buf.head] >= 1 + DataRetries - 0
      BY <1>1, <2>1, <2>2 DEF IInv, RetryInv
    <3> QED
      BY <3>1, SocketAssumption
  <2> QED
    BY <1>1, <2>3 DEF RetryInv
<1> QED
  BY <1>2, <1>3, <1>4, <1>5 DEF IInv, Steady

----------------------------------------------------------------------------
(* The receiver and the path *)

\* The first segment missing lies between the first not yet delivered, m, and
\* the first not yet sent, t.
LEMMA NextMissingRange ==
    ASSUME NEW t \in 1 .. N + 1, NEW m \in 1 .. t, NEW S,
           1 .. m - 1 \subseteq S, S \subseteq 1 .. t - 1
    PROVE  NextMissing(S) \in m .. t
<1> DEFINE U == {n \in Nat : n >= 1 /\ n \notin S}
<1>1. N \in Nat /\ t \in Nat /\ m \in Nat
  BY BoundsAssumption
<1>2. t \in U
  <2>1. t \notin 1 .. t - 1 /\ t >= 1
    BY <1>1
  <2> QED
    BY <1>1, <2>1
<1>3. PICK u \in U : \A v \in U : u <= v
  <2>1. U \in SUBSET Nat /\ U # {}
    BY <1>2
  <2> HIDE DEF U
  <2> QED
    BY <2>1, LeastNatural
<1>4. u \in 1 .. N + 1 /\ u \notin S
  BY <1>1, <1>2, <1>3
<1>5. ASSUME NEW x \in 1 .. u - 1 PROVE x \in S
  <2>1. x \in Nat /\ x >= 1 /\ ~(u <= x)
    BY <1>1, <1>4
  <2> QED
    BY <1>3, <2>1
<1> DEFINE r == NextMissing(S)
<1>6. r \in 1 .. N + 1 /\ r \notin S /\ 1 .. r - 1 \subseteq S
  BY <1>4, <1>5 DEF NextMissing
<1> HIDE DEF r
<1>7. ~(r < m)
  <2>1. r < m => r \in 1 .. m - 1
    BY <1>1, <1>6
  <2> QED
    BY <1>6, <2>1
<1>8. ~(t < r)
  <2>1. t < r => t \in 1 .. r - 1
    BY <1>1, <1>6
  <2>2. t \notin S
    BY <1>2
  <2> QED
    BY <1>6, <2>1, <2>2
<1>9. r \in m .. t
  BY <1>1, <1>6, <1>7, <1>8
<1> QED
  BY <1>9 DEF r

\* What the headers of a segment make of the state of ECN of the peer.
LEMMA HeadersReadRange ==
    ASSUME rcvEcn \in RcvEcnStates, NEW p \in DataPackets
    PROVE  HeadersRead(p) \in RcvEcnStates
<1>1. p.seg \in 0 .. N
  BY BoundsAssumption DEF DataPackets
<1> QED
  BY <1>1 DEF HeadersRead, RcvEcnStates

\* An ACK acknowledges what the peer has by then.
LEMMA AckNowKeeps ==
    ASSUME NEW e \in RcvEcnStates, rcvNext \in Nat, rcvNext >= 1, rcvNext' \in Nat,
           rcvNext <= rcvNext', acks \in Seq(AckBelow(rcvNext)), AckNow(e)
    PROVE  /\ acks' \in Seq(AckBelow(rcvNext')) /\ delAckCount' = 0
           /\ rcvEcn' \in RcvEcnStates
<1> DEFINE echo == e.state \in {"CE_RCVD", "SENDING_ECE"}
           new == [ack |-> rcvNext', ece |-> echo]
<1>1. /\ delAckCount' = 0 /\ acks' = Append(acks, new)
      /\ rcvEcn' = IF echo THEN [e EXCEPT !.state = "SENDING_ECE"] ELSE e
  BY DEF AckNow
<1>2. new \in AckBelow(rcvNext')
  BY DEF AckBelow
<1> DEFINE n == rcvNext'
<1>3. acks \in Seq(AckBelow(n))
  <2>1. n \in Nat /\ rcvNext <= n
    OBVIOUS
  <2> HIDE DEF n
  <2> QED
    BY <2>1, AckBelowGrows
<1>4. acks' \in Seq(AckBelow(n))
  <2> HIDE DEF new
  <2> QED
    BY <1>1, <1>2, <1>3, AppendProperties
<1>5. rcvEcn' \in RcvEcnStates
  BY <1>1 DEF RcvEcnStates
<1> QED
  BY <1>1, <1>4, <1>5

\* A step of the peer or of the path.
LEMMA PeerKeeps ==
    ASSUME IInv, UNCHANGED sender, losses' \in 0 .. MaxLoss, marks' \in 0 .. MaxMarks, PathInv'
    PROVE  IInv'
<1>1. Steady'
  BY SteadyStays DEF IInv, sender
<1>2. LogInv' /\ RetryInv' /\ OtherTypes'
  BY DEF IInv, LogInv, SamplesUnambiguous, RetryInv, OtherTypes, sender
<1> QED
  BY <1>1, <1>2 DEF IInv

\* A segment that is not refused.
LEMMA ReceivedDataKeeps ==
    ASSUME IInv, NEW seg \in 1 .. buf.next - 1, NEW e \in RcvEcnStates,
           ReceivedData(seg, e), buf' = buf, data' \in Seq(DataBelow(buf.next))
    PROVE  PathInv' /\ rcvNext <= rcvNext'
<1>1. /\ rcvNext \in Nat /\ buf.head <= rcvNext /\ rcvNext <= buf.next
      /\ rcvBuf \subseteq rcvNext + 1 .. buf.next - 1
      /\ acks \in Seq(AckBelow(rcvNext))
      /\ delAckCount \in 0 .. DelAckMax /\ DelAckMax \in Nat
      /\ buf.next \in 1 .. N + 1 /\ buf.head \in 1 .. N + 1 /\ N \in Nat
  BY BufferNumbers, SocketAssumption DEF IInv, PathInv, Steady
<1> DEFINE all == 1 .. rcvNext - 1 \cup rcvBuf \cup {seg}
           next == NextMissing(all)
           gap == all # 1 .. next - 1
<1>2. /\ rcvNext' = next
      /\ rcvBuf' = {n \in all : n > next}
      /\ IF seg = rcvNext /\ next = rcvNext + 1 /\ ~gap /\ delAckCount + 1 < DelAckMax
         THEN delAckCount' = delAckCount + 1 /\ rcvEcn' = e /\ UNCHANGED acks
         ELSE AckNow(e)
  BY DEF ReceivedData
<1>3. rcvNext \in 1 .. buf.next
  BY <1>1
<1>4. 1 .. rcvNext - 1 \subseteq all /\ all \subseteq 1 .. buf.next - 1
  <2>1. rcvNext + 1 .. buf.next - 1 \subseteq 1 .. buf.next - 1
    BY <1>1
  <2>2. 1 .. rcvNext - 1 \subseteq 1 .. buf.next - 1
    BY <1>1
  <2> QED
    BY <1>1, <2>1, <2>2
<1> HIDE DEF all
<1>5. next \in rcvNext .. buf.next
  BY <1>1, <1>3, <1>4, NextMissingRange
<1> HIDE DEF next
<1>6. next \in Nat /\ rcvNext <= next /\ next <= buf.next /\ buf.head <= next
  BY <1>1, <1>5
<1>7. rcvBuf' \subseteq next + 1 .. buf.next - 1
  <2>1. ASSUME NEW x \in rcvBuf' PROVE x \in next + 1 .. buf.next - 1
    <3>1. x \in 1 .. buf.next - 1 /\ x > next
      BY <1>2, <1>4, <2>1
    <3> QED
      BY <1>1, <1>6, <3>1
  <2> QED
    BY <2>1
<1>8. acks' \in Seq(AckBelow(rcvNext')) /\ delAckCount' \in 0 .. DelAckMax /\ rcvEcn' \in RcvEcnStates
  <2>1. CASE delAckCount' = delAckCount + 1 /\ rcvEcn' = e /\ UNCHANGED acks
               /\ delAckCount + 1 < DelAckMax
    <3>1. acks \in Seq(AckBelow(next))
      BY <1>1, <1>6, AckBelowGrows
    <3>2. delAckCount' \in 0 .. DelAckMax
      BY <1>1, <2>1
    <3> QED
      BY <1>2, <2>1, <3>1, <3>2
  <2>2. CASE AckNow(e)
    <3>1. rcvNext >= 1 /\ rcvNext' \in Nat /\ rcvNext <= rcvNext'
      BY <1>1, <1>2, <1>3, <1>6
    <3>2. /\ acks' \in Seq(AckBelow(rcvNext')) /\ delAckCount' = 0 /\ rcvEcn' \in RcvEcnStates
      BY <1>1, <2>2, <3>1, AckNowKeeps
    <3> QED
      BY <1>1, <3>2
  <2> QED
    BY <1>2, <2>1, <2>2
<1> QED
  BY <1>1, <1>2, <1>6, <1>7, <1>8 DEF PathInv

\* A segment arrives.
LEMMA RecvDataKeeps ==
    ASSUME IInv, NEW i \in DOMAIN data, RecvData(i)
    PROVE  IInv' /\ rcvNext <= rcvNext'
<1>1. data \in Seq(DataBelow(buf.next)) /\ rcvEcn \in RcvEcnStates
  BY DEF IInv, PathInv
<1>2. data[i] \in DataBelow(buf.next)
  BY <1>1, ElementOfSeq, LenProperties
<1>3. data' \in Seq(DataBelow(buf.next))
  BY <1>1, RemoveAtRange DEF RecvData
<1>4. UNCHANGED sender /\ buf' = buf /\ losses' = losses /\ marks' = marks
  BY DEF RecvData, sender, path
<1>5. PathInv' /\ rcvNext <= rcvNext'
  <2>1. CASE OutOfRange(data[i].seg)
    <3>1. RefuseData
      BY <2>1 DEF RecvData
    <3>2. rcvNext \in Nat /\ acks \in Seq(AckBelow(rcvNext)) /\ rcvNext >= 1
      BY BufferNumbers DEF IInv, PathInv, Steady
    <3>3. [ack |-> rcvNext, ece |-> FALSE] \in AckBelow(rcvNext)
      BY <3>2 DEF AckBelow
    <3>4. acks' \in Seq(AckBelow(rcvNext)) /\ delAckCount' \in 0 .. DelAckMax
      BY <3>1, <3>2, <3>3, AppendProperties, SocketAssumption DEF RefuseData
    <3> QED
      BY <1>3, <1>4, <3>1, <3>2, <3>4 DEF RefuseData, IInv, PathInv
  <2>2. CASE ~OutOfRange(data[i].seg)
    <3> DEFINE e == HeadersRead(data[i])
    <3>1. ReceivedData(data[i].seg, e)
      BY <2>2 DEF RecvData
    <3>2. data[i].seg \in 1 .. buf.next - 1 /\ data[i] \in DataPackets
      BY <1>2, BufferNumbers DEF DataBelow, DataPackets, IInv, Steady
    <3>3. e \in RcvEcnStates
      BY <1>1, <3>2, HeadersReadRange
    <3> HIDE DEF e
    <3> QED
      BY <1>3, <1>4, <3>1, <3>2, <3>3, ReceivedDataKeeps
  <2> QED
    BY <2>1, <2>2
<1>6. losses' \in 0 .. MaxLoss /\ marks' \in 0 .. MaxMarks
  BY <1>4 DEF IInv, OtherTypes
<1> QED
  BY <1>4, <1>5, <1>6, PeerKeeps

\* The delayed ACK is due.
LEMMA DelAckKeeps ==
    ASSUME IInv, DelAckTimeout
    PROVE  IInv' /\ rcvNext' = rcvNext
<1>1. /\ UNCHANGED <<rcvNext, rcvBuf>> /\ AckNow(rcvEcn) /\ UNCHANGED <<sender, data, path>>
  BY DEF DelAckTimeout
<1>2. rcvNext \in Nat /\ acks \in Seq(AckBelow(rcvNext)) /\ rcvNext >= 1 /\ rcvEcn \in RcvEcnStates
  BY BufferNumbers DEF IInv, PathInv, Steady
<1>3. acks' \in Seq(AckBelow(rcvNext')) /\ delAckCount' = 0 /\ rcvEcn' \in RcvEcnStates
  BY <1>1, <1>2, AckNowKeeps
<1>4. delAckCount' \in 0 .. DelAckMax
  BY <1>3, SocketAssumption
<1>5. PathInv'
  BY <1>1, <1>3, <1>4 DEF IInv, PathInv, sender
<1>6. losses' \in 0 .. MaxLoss /\ marks' \in 0 .. MaxMarks
  BY <1>1 DEF IInv, OtherTypes, path
<1> QED
  BY <1>1, <1>5, <1>6, PeerKeeps

\* The path loses a segment or an ACK, or marks a segment.
LEMMA PathKeeps ==
    ASSUME IInv,
           \/ \E i \in DOMAIN data : LoseData(i) \/ MarkData(i)
           \/ \E i \in DOMAIN acks : LoseAck(i)
    PROVE  IInv' /\ rcvNext' = rcvNext
<1>1. data \in Seq(DataBelow(buf.next)) /\ acks \in Seq(AckBelow(rcvNext))
  BY DEF IInv, PathInv
<1>2. losses \in 0 .. MaxLoss /\ marks \in 0 .. MaxMarks /\ MaxLoss \in Nat /\ MaxMarks \in Nat
  BY BoundsAssumption DEF IInv, OtherTypes
<1>3. /\ UNCHANGED <<sender, receiver>>
      /\ data' \in Seq(DataBelow(buf.next)) /\ acks' \in Seq(AckBelow(rcvNext))
      /\ losses' \in 0 .. MaxLoss /\ marks' \in 0 .. MaxMarks
  <2>1. ASSUME NEW i \in DOMAIN data, LoseData(i) PROVE <1>3
    <3>1. data' \in Seq(DataBelow(buf.next))
      BY <1>1, <2>1, RemoveAtRange DEF LoseData
    <3> QED
      BY <1>1, <1>2, <2>1, <3>1 DEF LoseData
  <2>2. ASSUME NEW i \in DOMAIN acks, LoseAck(i) PROVE <1>3
    <3>1. acks' \in Seq(AckBelow(rcvNext))
      BY <1>1, <2>2, RemoveAtRange DEF LoseAck
    <3> QED
      BY <1>1, <1>2, <2>2, <3>1 DEF LoseAck
  <2>3. ASSUME NEW i \in DOMAIN data, MarkData(i) PROVE <1>3
    <3>1. data' \in Seq(DataBelow(buf.next))
      <4>1. data[i] \in DataBelow(buf.next)
        BY <1>1, ElementOfSeq, LenProperties
      <4>2. [data[i] EXCEPT !.ce = TRUE] \in DataBelow(buf.next)
        BY <4>1 DEF DataBelow
      <4>3. data' = [data EXCEPT ![i] = [data[i] EXCEPT !.ce = TRUE]]
        BY <2>3 DEF MarkData
      <4> QED
        BY <1>1, <4>2, <4>3, ExceptSeq
    <3> QED
      BY <1>1, <1>2, <2>3, <3>1 DEF MarkData
  <2> QED
    BY <2>1, <2>2, <2>3
<1>4. PathInv'
  BY <1>3 DEF IInv, PathInv, sender, receiver
<1> QED
  BY <1>3, <1>4, PeerKeeps DEF receiver

----------------------------------------------------------------------------
(* The theorems *)

\* Every step keeps the invariant.
LEMMA StepKeeps ==
    ASSUME IInv, [Next]_vars
    PROVE  IInv'
<1>1. CASE Send
  BY <1>1, SendKeeps
<1>2. CASE SendPendingDataEvent
  BY <1>2, SendEventKeeps
<1>3. CASE ReTxTimeout
  BY <1>3, TimeoutKeeps
<1>4. CASE ReTxGiveUp
  BY <1>4, GiveUpKeeps
<1>5. CASE DelAckTimeout
  BY <1>5, DelAckKeeps
<1>6. ASSUME NEW i \in DOMAIN acks, RecvAck(i) PROVE IInv'
  BY <1>6, RecvAckKeeps
<1>7. ASSUME NEW i \in DOMAIN data, RecvData(i) PROVE IInv'
  BY <1>7, RecvDataKeeps
<1>8. CASE \/ \E i \in DOMAIN data : LoseData(i) \/ MarkData(i)
           \/ \E i \in DOMAIN acks : LoseAck(i)
  BY <1>8, PathKeeps
<1>9. CASE UNCHANGED vars
  <2>1. /\ UNCHANGED sender /\ UNCHANGED <<data, acks, losses, marks, rcvNext, rcvBuf,
                                           delAckCount, rcvEcn>>
    BY <1>9 DEF vars, path, receiver
  <2>2. PathInv'
    BY <2>1 DEF IInv, PathInv, sender
  <2> QED
    BY <2>1, <2>2, PeerKeeps DEF IInv, OtherTypes
<1> QED
  BY <1>1, <1>2, <1>3, <1>4, <1>5, <1>6, <1>7, <1>8, <1>9 DEF Next

\* The invariant holds in every state the socket, the path and the peer reach.
THEOREM Invariance == Spec => []IInv
<1>1. Init => IInv
  BY InitKeeps
<1>2. IInv /\ [Next]_vars => IInv'
  BY StepKeeps
<1> QED
  BY <1>1, <1>2, PTL DEF Spec

\* The variables keep their types: no retry count passes m_dataRetries, and
\* nothing that was not written is sent, nothing that was not sent acknowledged.
THEOREM TypesKept == Spec => []TypeOK
<1>1. ASSUME IInv PROVE TypeOK
  <2>1. /\ buf.head \in 1 .. N + 1 /\ buf.next \in 1 .. N + 1 /\ buf.tail \in 1 .. N + 1
        /\ buf.head <= buf.next /\ buf.next <= buf.tail /\ N \in Nat
    BY <1>1, BufferNumbers DEF IInv, Steady
  <2>2. CongestionTypes /\ OtherTypes /\ LogInv /\ PathInv /\ recover \in 0 .. buf.next
    BY <1>1 DEF IInv, Steady, RepairInv
  <2>3. recover \in 0 .. N + 1 /\ rcvNext \in 1 .. N + 1 /\ rcvBuf \subseteq 1 .. N
    <3>1. /\ rcvNext \in Nat /\ buf.head <= rcvNext /\ rcvNext <= buf.next
          /\ rcvBuf \subseteq rcvNext + 1 .. buf.next - 1
      BY <2>2 DEF PathInv
    <3>2. rcvNext + 1 .. buf.next - 1 \subseteq 1 .. N
      BY <2>1, <3>1
    <3> QED
      BY <2>1, <2>2, <3>1, <3>2
  <2>4. data \in Seq(DataPackets) /\ acks \in Seq(AckPackets)
    <3>1. DataBelow(buf.next) \subseteq DataPackets
      <4>1. 1 .. buf.next - 1 \subseteq 1 .. N
        BY <2>1
      <4> QED
        BY <4>1 DEF DataBelow, DataPackets
    <3>2. AckBelow(rcvNext) \subseteq AckPackets
      <4>1. 1 .. rcvNext \subseteq 1 .. N + 1
        BY <2>1, <2>3
      <4> QED
        BY <4>1 DEF AckBelow, AckPackets
    <3> QED
      BY <2>2, <3>1, <3>2 DEF PathInv
  <2>5. /\ ecn.state \in {"DISABLED", "IDLE", "ECE_RCVD", "CWR_SENT"}
        /\ ecn.echoSeq \in 0 .. N + 1 /\ ecn.cwrSeq \in 0 .. N
        /\ rcvEcn.state \in {"DISABLED", "IDLE", "CE_RCVD", "SENDING_ECE"}
        /\ rcvEcn.ceSeq \in 0 .. N
    BY <2>2 DEF OtherTypes, PathInv, EcnStates, RcvEcnStates
  <2>6. history \in Seq([seq : 1 .. N, retx : BOOLEAN]) /\ copies \in [1 .. N -> Nat]
    BY <2>2 DEF LogInv, Entries
  <2>7. /\ {recoverActive, firstPartial, retxRunning, sendEvent, dropped} \subseteq BOOLEAN
        /\ delAckCount \in 0 .. DelAckMax
    BY <2>2 DEF CongestionTypes, OtherTypes, PathInv
  <2>8. /\ data \in Seq([seg : 1 .. N, ce : BOOLEAN, cwr : BOOLEAN])
        /\ acks \in Seq([ack : 1 .. N + 1, ece : BOOLEAN])
    BY <2>4 DEF DataPackets, AckPackets
  <2>9. /\ congState \in {"OPEN", "DISORDER", "CWR", "RECOVERY", "LOSS"}
        /\ dupAckCount \in Nat
        /\ cwnd \in 1 .. MaxWindow /\ ssThresh \in 2 .. MaxWindow
        /\ dataRetrCount \in 0 .. DataRetries
        /\ losses \in 0 .. MaxLoss /\ marks \in 0 .. MaxMarks
    BY <2>2 DEF CongestionTypes, OtherTypes
  <2> QED
    BY <2>1, <2>3, <2>5, <2>6, <2>7, <2>8, <2>9, Zenon DEF TypeOK
<1> QED
  BY <1>1, Invariance, PTL

\* Guesses, partial ACKs and timeouts leave flags that do not contradict each
\* other, so that the unsigned count of the bytes in flight cannot wrap.
THEOREM PipeKept == Spec => [](PipeConsistent /\ BytesInFlight(buf) \in Nat)
<1>1. ASSUME IInv PROVE PipeConsistent /\ BytesInFlight(buf) \in Nat
  <2>1. Sound(buf)
    BY <1>1 DEF IInv, Steady, BufferInv
  <2> QED
    BY <2>1, InFlight DEF Sound, PipeConsistent
<1> QED
  BY <1>1, Invariance, PTL

\* The retransmission timer runs exactly while data is unacknowledged.
THEOREM TimerKept == Spec => []TimerArmed
<1>1. IInv => TimerArmed
  BY DEF IInv, Steady
<1> QED
  BY <1>1, Invariance, PTL

\* The assertions of DupAck and ProcessAck never fail; CA_DISORDER counts below
\* the threshold even without the exception the second one makes.
THEOREM AssertionsKept ==
    Spec => [](AssertionsHold /\ (congState = "DISORDER" => dupAckCount < RetxThresh))
<1>1. IInv => AssertionsHold /\ (congState = "DISORDER" => dupAckCount < RetxThresh)
  BY DEF IInv, Steady, RepairInv, LossRepair, AssertionsHold
<1> QED
  BY <1>1, Invariance, PTL

\* While a loss is repaired the first missing segment was sent again: a partial
\* ACK never leaves the hole to the timer.
THEOREM HoleKept == Spec => []HoleResent
<1>1. ASSUME IInv PROVE HoleResent
  <2>1. CASE congState = "RECOVERY"
    BY <1>1, <2>1 DEF IInv, Steady, RepairInv, HoleResent
  <2>2. CASE congState = "LOSS"
    BY <1>1, <2>2 DEF IInv, Steady, RepairInv, LossRepair, BufferInv, Sound, HoleResent
  <2> QED
    BY <2>1, <2>2 DEF HoleResent
<1> QED
  BY <1>1, Invariance, PTL

\* Karn: what EstimateRtt may measure was sent once.
THEOREM SamplesKept == Spec => []SamplesUnambiguous
<1>1. IInv => SamplesUnambiguous
  BY DEF IInv, LogInv
<1> QED
  BY <1>1, Invariance, PTL

\* The endpoint is deallocated only after the segment at the head was sent once
\* and once more for each of m_dataRetries.
THEOREM GivenUpKept == Spec => []GivenUpAfterRetries
<1>1. IInv => GivenUpAfterRetries
  BY DEF IInv, RetryInv, GivenUpAfterRetries
<1> QED
  BY <1>1, Invariance, PTL

\* What an ACK does to the congestion state and the recovery point.
LEMMA AckCongestion ==
    ASSUME IInv, ~dropped, NEW a \in AckBelow(rcvNext), ReceivedAck(a)
    PROVE  \/ congState' = congState /\ recover' = recover
           \/ /\ congState \in {"OPEN", "DISORDER"} /\ recover <= buf.head
              /\ congState' \in {"DISORDER", "RECOVERY"}
           \/ /\ buf.head < a.ack
              /\ \E k \in Congestion(a) :
                     recover' = k.recover /\ congState' \in {k.state, "OPEN"}
<1>1. congState \in {"OPEN", "DISORDER"} => recover <= buf.head
  BY DEF IInv, Steady, RepairInv
<1>2. buf.head \in Nat /\ a.ack \in Nat
  BY BufferNumbers DEF IInv, Steady, PathInv, AckBelow
<1>3. PICK b \in {DiscardUpTo(buf, a.ack)}, h \in {ForgetAcked(history, a.ack)}, e \in {AfterEcho(a)} :
        \/ UNCHANGED congestion
        \/ UNCHANGED congestion
        \/ \/ DupAckInLoss(b, h, e) \/ DupAckInCwr(b, h, e) \/ DupAckInRecovery(b, h, e)
           \/ DupAckInDisorder(b, h, e) \/ EnterRecovery(b, h, e)
        \/ /\ a.ack > buf.head
           /\ \E k \in Congestion(a) :
                  /\ recover' = k.recover
                  /\ \/ PartialAckInRecovery(b, h, e, k)
                     \/ PartialAckInLoss(b, h, e, k, a.ack - buf.head)
                     \/ AckInCwr(b, h, e, k)
                     \/ FullAck(b, h, e, k, IF k.state = "LOSS" THEN a.ack - recover
                                            ELSE a.ack - buf.head)
  BY DEF ReceivedAck
<1>4. CASE UNCHANGED congestion
  BY <1>4 DEF congestion
<1>5. CASE DupAckInLoss(b, h, e) \/ DupAckInCwr(b, h, e) \/ DupAckInRecovery(b, h, e)
  BY <1>5 DEF DupAckInLoss, DupAckInCwr, DupAckInRecovery, congestion
<1>6. CASE DupAckInDisorder(b, h, e) \/ EnterRecovery(b, h, e)
  <2>1. congState \in {"OPEN", "DISORDER"} /\ congState' \in {"DISORDER", "RECOVERY"}
    BY <1>6 DEF DupAckInDisorder, EnterRecovery
  <2> QED
    BY <1>1, <2>1
<1>7. ASSUME a.ack > buf.head, NEW k \in Congestion(a), recover' = k.recover,
             \/ PartialAckInRecovery(b, h, e, k)
             \/ PartialAckInLoss(b, h, e, k, a.ack - buf.head)
             \/ AckInCwr(b, h, e, k)
             \/ FullAck(b, h, e, k, IF k.state = "LOSS" THEN a.ack - recover
                                    ELSE a.ack - buf.head)
      PROVE  buf.head < a.ack /\ congState' \in {k.state, "OPEN"}
  <2>1. congState' \in {k.state, "OPEN"}
    BY <1>7 DEF PartialAckInRecovery, PartialAckInLoss, AckInCwr, FullAck
  <2> QED
    BY <1>2, <1>7, <2>1
<1> QED
  BY <1>3, <1>4, <1>5, <1>6, <1>7

\* Only an ACK that arrives, or a timeout, changes the congestion state.
LEMMA CongestionSteps ==
    ASSUME IInv, [Next]_vars
    PROVE  \/ congState' = congState /\ recover' = recover
           \/ congState' = "LOSS"
           \/ ~dropped /\ \E i \in DOMAIN acks : RecvAck(i) /\ ReceivedAck(acks[i])
<1>1. CASE Send \/ SendPendingDataEvent \/ ReTxGiveUp \/ DelAckTimeout
  BY <1>1 DEF Send, SendPendingDataEvent, ReTxGiveUp, DelAckTimeout, sender, congestion
<1>2. CASE ReTxTimeout
  BY <1>2 DEF ReTxTimeout
<1>3. ASSUME NEW i \in DOMAIN acks, RecvAck(i)
      PROVE  \/ congState' = congState /\ recover' = recover
             \/ ~dropped /\ ReceivedAck(acks[i])
  BY <1>3 DEF RecvAck, congestion
<1>4. ASSUME NEW i \in DOMAIN data, RecvData(i) \/ LoseData(i) \/ MarkData(i)
      PROVE  congState' = congState /\ recover' = recover
  BY <1>4 DEF RecvData, LoseData, MarkData, sender, congestion
<1>5. ASSUME NEW i \in DOMAIN acks, LoseAck(i)
      PROVE  congState' = congState /\ recover' = recover
  BY <1>5 DEF LoseAck, sender, congestion
<1>6. CASE UNCHANGED vars
  BY <1>6 DEF vars, sender, congestion
<1> QED
  BY <1>1, <1>2, <1>3, <1>4, <1>5, <1>6 DEF Next

\* A recovery starts only once the data outstanding at the last reduction or
\* timeout is acknowledged.
THEOREM OneReduction == Spec => OneReductionPerWindow
<1>1. ASSUME IInv, [Next]_vars, congState # "RECOVERY", congState' = "RECOVERY"
      PROVE  buf.head >= recover
  <2>1. PICK i \in DOMAIN acks : ~dropped /\ RecvAck(i) /\ ReceivedAck(acks[i])
    BY <1>1, CongestionSteps
  <2> DEFINE a == acks[i]
  <2>2. a \in AckBelow(rcvNext)
    BY <1>1, ElementOfSeq, LenProperties DEF IInv, PathInv
  <2>3. ReceivedAck(a)
    BY <2>1
  <2> HIDE DEF a
  <2>4. CASE congState \in {"OPEN", "DISORDER"} /\ recover <= buf.head
    BY <1>1, <2>4, BufferNumbers DEF IInv, Steady, RepairInv
  <2>5. ASSUME NEW k \in Congestion(a), congState' \in {k.state, "OPEN"} PROVE FALSE
    <3>1. CongestionTypes
      BY <1>1 DEF IInv, Steady
    <3>2. k.state \in {"CWR", "OPEN", congState}
      BY <3>1, CongestionRange
    <3> QED
      BY <1>1, <2>5, <3>2
  <2> QED
    BY <1>1, <2>1, <2>2, <2>3, <2>4, <2>5, AckCongestion
<1>2. IInv /\ [Next]_vars
        => [congState # "RECOVERY" /\ congState' = "RECOVERY" => buf.head >= recover]_vars
  BY <1>1
<1> QED
  BY <1>2, Invariance, PTL DEF Spec, OneReductionPerWindow

\* The window is reduced for an echo only once the data outstanding at the last
\* reduction is acknowledged, or while a loss is repaired.
THEOREM OneEchoReduction == Spec => OneEchoReductionPerWindow
<1>1. ASSUME IInv, [Next]_vars, congState' = "CWR", congState # "CWR" \/ recover' # recover
      PROVE  buf'.head > recover \/ congState \in {"RECOVERY", "LOSS"}
  <2>1. PICK i \in DOMAIN acks : ~dropped /\ RecvAck(i) /\ ReceivedAck(acks[i])
    BY <1>1, CongestionSteps
  <2> DEFINE a == acks[i]
  <2>2. a \in AckBelow(rcvNext)
    BY <1>1, ElementOfSeq, LenProperties DEF IInv, PathInv
  <2>3. ReceivedAck(a) /\ dropped' = dropped
    BY <2>1 DEF RecvAck
  <2> HIDE DEF a
  <2>4. PICK k \in Congestion(a) : /\ buf.head < a.ack
                                   /\ recover' = k.recover /\ congState' \in {k.state, "OPEN"}
    BY <1>1, <2>1, <2>2, <2>3, AckCongestion
  <2>5. buf'.head = a.ack
    BY <1>1, <2>1, <2>2, <2>3, <2>4, ReceivedAckKeeps
  <2>6. /\ buf.head \in Nat /\ a.ack \in Nat /\ recover \in Nat /\ CongestionTypes
        /\ congState \in {"OPEN", "DISORDER"} => recover <= buf.head
    BY <1>1, <2>2, BufferNumbers, SMTT(30) DEF IInv, Steady, RepairInv, PathInv, AckBelow
  <2>7. k.state = "CWR" /\ (congState = "CWR" => a.ack > recover)
    BY <1>1, <2>4, <2>6, CongestionRange
  <2>8. CASE congState \in {"OPEN", "DISORDER"}
    BY <2>4, <2>5, <2>6, <2>8
  <2>9. CASE congState = "CWR"
    BY <2>5, <2>7, <2>9
  <2> QED
    BY <2>6, <2>8, <2>9 DEF CongestionTypes
<1>2. IInv /\ [Next]_vars
        => [congState' = "CWR" /\ (congState # "CWR" \/ recover' # recover)
              => buf'.head > recover \/ congState \in {"RECOVERY", "LOSS"}]_vars
  BY <1>1
<1> QED
  BY <1>2, Invariance, PTL DEF Spec, OneEchoReductionPerWindow

----------------------------------------------------------------------------
(* Refinement *)

\* What the stream sees of the sender and the peer, in the invariant.
LEMMA StreamNumbers ==
    ASSUME IInv
    PROVE  /\ buf.head \in Nat /\ buf.tail \in Nat /\ rcvNext \in Nat
           /\ buf.head <= rcvNext /\ rcvNext <= buf.tail /\ buf.tail <= N + 1 /\ N \in Nat
BY BufferNumbers DEF IInv, Steady, PathInv

\* The initial states are initial states of the stream.
LEMMA StreamInit ==
    ASSUME Init
    PROVE  Stream!Init
BY DEF Init, EmptyTxBuffer, Stream!Init

\* A new segment in the buffer is a segment written to the stream.
LEMMA SendWrites ==
    ASSUME IInv, Send
    PROVE  Stream!Write
<1>1. /\ buf.tail <= N /\ buf' = [buf EXCEPT !.tail = @ + 1]
      /\ rcvNext' = rcvNext /\ dropped' = dropped
  BY DEF Send, receiver
<1>2. buf \in TxBuffers /\ N \in Nat
  BY StreamNumbers DEF IInv, Steady, BufferInv, Sound
<1>3. buf'.head = buf.head /\ buf'.tail = buf.tail + 1
  BY <1>1, <1>2 DEF TxBuffers
<1>4. buf.tail - 1 < N /\ buf'.tail - 1 = buf.tail - 1 + 1
  BY <1>1, <1>2, <1>3 DEF TxBuffers
<1> QED
  BY <1>1, <1>3, <1>4 DEF Stream!Write

\* A segment that fills the gap delivers what it meets, and only that.
LEMMA RecvDataDelivers ==
    ASSUME IInv, NEW i \in DOMAIN data, RecvData(i)
    PROVE  Stream!Deliver \/ UNCHANGED Stream!vars
<1>1. IInv' /\ rcvNext <= rcvNext'
  BY RecvDataKeeps
<1>2. buf' = buf /\ dropped' = dropped
  BY DEF RecvData, sender
<1>3. rcvNext' \in Nat /\ rcvNext' <= buf.tail
  <2>1. rcvNext' \in Nat /\ rcvNext' <= buf'.next
    BY <1>1 DEF IInv, PathInv
  <2> QED
    BY <1>2, <2>1, BufferNumbers DEF IInv, Steady
<1>4. buf.tail \in Nat /\ rcvNext \in Nat
  BY StreamNumbers
<1>5. CASE rcvNext' = rcvNext
  BY <1>2, <1>5 DEF Stream!vars
<1>6. CASE rcvNext' # rcvNext
  <2> DEFINE n == rcvNext'
  <2>1. n \in Nat /\ rcvNext <= n /\ n # rcvNext /\ n <= buf.tail
    BY <1>1, <1>3, <1>6
  <2> HIDE DEF n
  <2>2. n - 1 \in rcvNext - 1 + 1 .. buf.tail - 1
    BY <1>4, <2>1
  <2>3. rcvNext' - 1 \in rcvNext - 1 + 1 .. buf.tail - 1
    BY <2>2 DEF n
  <2> QED
    BY <1>2, <2>3 DEF Stream!Deliver
<1> QED
  BY <1>5, <1>6

\* An ACK drops from the buffer only what was delivered.
LEMMA RecvAckAcknowledges ==
    ASSUME IInv, NEW i \in DOMAIN acks, RecvAck(i)
    PROVE  Stream!Acknowledge \/ UNCHANGED Stream!vars
<1>1. dropped' = dropped /\ rcvNext' = rcvNext
  BY DEF RecvAck, receiver
<1>2. CASE dropped
  <2>1. buf' = buf
    BY <1>2 DEF RecvAck
  <2> QED
    BY <1>1, <2>1 DEF Stream!vars
<1>3. CASE ~dropped
  <2>1. acks[i] \in AckBelow(rcvNext)
    BY ElementOfSeq, LenProperties DEF IInv, PathInv
  <2>2. ReceivedAck(acks[i])
    BY <1>3 DEF RecvAck
  <2>3. AckKept
    BY <1>1, <1>3, <2>1, <2>2, ReceivedAckKeeps
  <2>4. /\ buf'.tail = buf.tail /\ buf.head <= buf'.head /\ buf'.head <= rcvNext
        /\ buf'.head \in Nat
    <3>1. Sound(buf')
      BY <2>3 DEF AckKept, Steady, BufferInv
    <3>2. buf'.head \in Nat
      BY <3>1 DEF Sound, TxBuffers
    <3> QED
      BY <2>3, <3>2 DEF AckKept
  <2>5. buf.head \in Nat /\ rcvNext \in Nat
    BY StreamNumbers
  <2>6. CASE buf'.head = buf.head
    BY <1>1, <2>4, <2>6 DEF Stream!vars
  <2>7. CASE buf'.head # buf.head
    <3>1. buf'.head - 1 \in buf.head - 1 + 1 .. rcvNext - 1
      BY <2>4, <2>5, <2>7
    <3> QED
      BY <1>1, <1>3, <2>4, <3>1 DEF Stream!Acknowledge
  <2> QED
    BY <2>6, <2>7
<1> QED
  BY <1>2, <1>3

\* Every step is a step of the stream, or one it does not see.
LEMMA StreamStep ==
    ASSUME IInv, [Next]_vars
    PROVE  [Stream!Next]_(Stream!vars)
<1>1. CASE Send
  BY <1>1, SendWrites DEF Stream!Next
<1>2. ASSUME NEW i \in DOMAIN data, RecvData(i) PROVE [Stream!Next]_(Stream!vars)
  BY <1>2, RecvDataDelivers DEF Stream!Next
<1>3. ASSUME NEW i \in DOMAIN acks, RecvAck(i) PROVE [Stream!Next]_(Stream!vars)
  BY <1>3, RecvAckAcknowledges DEF Stream!Next
<1>4. CASE ReTxGiveUp
  <2>1. /\ ~dropped /\ dropped' = TRUE /\ buf' = buf /\ rcvNext' = rcvNext /\ BufferSize(buf) > 0
    BY <1>4 DEF ReTxGiveUp, receiver
  <2>2. buf.head - 1 < buf.tail - 1
    BY <2>1, StreamNumbers DEF BufferSize
  <2>3. Stream!Fail
    BY <2>1, <2>2 DEF Stream!Fail
  <2> QED
    BY <2>3 DEF Stream!Next
<1>5. CASE SendPendingDataEvent
  BY <1>5, SendEventKeeps DEF SendPendingDataEvent, receiver, Stream!vars
<1>6. CASE ReTxTimeout
  BY <1>6, TimeoutKeeps DEF ReTxTimeout, receiver, Stream!vars
<1>7. CASE DelAckTimeout
  BY <1>7 DEF DelAckTimeout, sender, Stream!vars
<1>8. ASSUME NEW i \in DOMAIN data, LoseData(i) \/ MarkData(i) PROVE [Stream!Next]_(Stream!vars)
  BY <1>8 DEF LoseData, MarkData, sender, receiver, Stream!vars
<1>9. ASSUME NEW i \in DOMAIN acks, LoseAck(i) PROVE [Stream!Next]_(Stream!vars)
  BY <1>9 DEF LoseAck, sender, receiver, Stream!vars
<1>10. CASE UNCHANGED vars
  BY <1>10 DEF vars, sender, receiver, Stream!vars
<1> QED
  BY <1>1, <1>2, <1>3, <1>4, <1>5, <1>6, <1>7, <1>8, <1>9, <1>10 DEF Next

\* The sender and its peer implement a reliable stream: whatever the path loses,
\* marks or reorders, what the sender discards was delivered, what is delivered
\* was written, neither goes back, and nothing is acknowledged after a failure.
THEOREM StreamImplemented == Spec => ImplementsStream
<1>1. Init => Stream!Init
  BY StreamInit
<1>2. IInv /\ [Next]_vars => [Stream!Next]_(Stream!vars)
  BY StreamStep
<1> QED
  BY <1>1, <1>2, Invariance, PTL DEF Spec, ImplementsStream, Stream!Spec
=============================================================================
