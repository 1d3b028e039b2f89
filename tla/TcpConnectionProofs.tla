------------------------- MODULE TcpConnectionProofs -------------------------
(***************************************************************************)
(* What holds of TcpConnection for all of its constants, however many      *)
(* packets are lost and repeated: where FinGuarded says so an event that   *)
(* repeats the FIN is pending, what was acknowledged was delivered, a FIN  *)
(* ends no stream before its data, and repeated FINs move a sequence       *)
(* number by one at most.                                                  *)
(***************************************************************************)
EXTENDS TcpConnection, TLAPS

Flags == {"SYN", "SYNACK", "ACK", "FIN", "RST"}
Packets == [flags : Flags, seq : Nat, ack : Nat, len : 0 .. 1]

----------------------------------------------------------------------------
(* The handlers keep a socket a socket, and its FIN guarded.  Each of them  *)
(* has a lemma; those that call others cite theirs.                         *)

Socket(s) ==
    {"state", "bound", "next", "high", "head", "tail", "rx", "got", "slow", "unread", "fin",
     "synCount", "dataRetrCount", "retx", "lastAck", "sendEvent", "delAck", "closeOnEmpty",
     "shutdownSend", "wrote", "closed", "out"} \subseteq DOMAIN s

Typed(s) ==
    /\ s.state \in States /\ s.bound \in BOOLEAN
    /\ s.next \in Nat /\ s.high \in Nat /\ s.head \in Nat /\ s.tail \in Nat /\ s.rx \in Nat
    /\ s.fin \in Nat
    /\ s.synCount \in 0 .. SynRetries /\ s.dataRetrCount \in 0 .. DataRetries
    /\ s.retx \in {"none", "SYN", "SYNACK", "FIN", "DATA"}
    /\ s.delAck \in 0 .. DelAckMax
    /\ s.out \in Seq(Packets)

Guarded(s) == s.bound /\ s.state \in {"FIN_WAIT_1", "CLOSING"} => s.retx # "none"

Good(s) == Socket(s) /\ Typed(s) /\ Guarded(s)

\* A socket that was just made.
LEMMA NewSocketGood == ASSUME NEW e PROVE Good(NewSocket(e))
<1>1. Socket(NewSocket(e))
  BY DEF NewSocket, Socket
<1>2. Typed(NewSocket(e)) /\ Guarded(NewSocket(e))
  BY ConnectionAssumption DEF NewSocket, Typed, Guarded, States
<1> QED
  BY <1>1, <1>2 DEF Good

\* DeallocateEndPoint and CloseAndNotify leave no endpoint to guard.
LEMMA DeallocateGood ==
    ASSUME NEW s, Socket(s), Typed(s)
    PROVE  Good(DeallocateEndPoint(s))
BY ConnectionAssumption DEF DeallocateEndPoint, Socket, Typed, Guarded, Good

LEMMA CloseGood ==
    ASSUME NEW s, Socket(s), Typed(s)
    PROVE  Good(CloseAndNotify(s))
<1> DEFINE t == [s EXCEPT !.state = "CLOSED"]
<1>1. Socket(t) /\ Typed(t)
  BY DEF Socket, Typed, States
<1> HIDE DEF t
<1> QED
  BY <1>1, DeallocateGood DEF CloseAndNotify, t

\* An empty packet leaves a timer running, and one of SYN or FIN starts it.
LEMMA EmitGood ==
    ASSUME NEW s, Socket(s), Typed(s), NEW f \in Flags
    PROVE  /\ Socket(Emit(s, f)) /\ Typed(Emit(s, f))
           /\ Emit(s, f).state = s.state /\ Emit(s, f).bound = s.bound
           /\ s.retx # "none" \/ f \in {"SYN", "SYNACK", "FIN"} => Emit(s, f).retx # "none"
BY ConnectionAssumption, SMTT(30) DEF Emit, Socket, Typed, Packet, Packets, Flags

LEMMA EmptyPacketGood ==
    ASSUME NEW s, Socket(s), Typed(s), NEW f \in Flags,
           Guarded(s) \/ f \in {"SYN", "SYNACK", "FIN"}
    PROVE  /\ Good(SendEmptyPacket(s, f))
           /\ f \notin {"SYN", "SYNACK"} => SendEmptyPacket(s, f).state = s.state
           /\ f = "FIN" /\ SendEmptyPacket(s, f).bound => SendEmptyPacket(s, f).retx # "none"
<1> DEFINE r == SendEmptyPacket(s, f)
           t == [s EXCEPT !.synCount = @ - 1]
<1>1. CASE ~s.bound
  BY <1>1 DEF SendEmptyPacket, Good, Guarded
<1>2. CASE s.bound /\ f \notin {"SYN", "SYNACK"}
  <2>1. r = Emit(s, f)
    BY <1>2 DEF SendEmptyPacket
  <2> HIDE DEF r
  <2>2. /\ Socket(r) /\ Typed(r) /\ r.state = s.state
        /\ s.retx # "none" \/ f = "FIN" => r.retx # "none"
    BY <2>1, EmitGood
  <2> QED
    BY <1>2, <2>2 DEF Good, Guarded, r
<1>3. CASE s.bound /\ f \in {"SYN", "SYNACK"} /\ s.synCount = 0
  <2>1. r = CloseAndNotify(s)
    BY <1>3 DEF SendEmptyPacket
  <2> QED
    BY <1>3, <2>1, CloseGood
<1>4. CASE s.bound /\ f \in {"SYN", "SYNACK"} /\ s.synCount # 0
  <2>1. Socket(t) /\ Typed(t)
    <3> DEFINE k == s.synCount - 1
    <3>1. k \in 0 .. SynRetries
      BY <1>4, ConnectionAssumption, SMTT(30) DEF Typed
    <3>2. t = [s EXCEPT !.synCount = k]
      BY DEF Socket
    <3> HIDE DEF k, t
    <3>3. Socket(t)
      BY <3>2 DEF Socket
    <3>4. Typed(t)
      BY <3>1, <3>2 DEF Socket, Typed
    <3> QED
      BY <3>3, <3>4
  <2>2. r = Emit(t, f)
    BY <1>4 DEF SendEmptyPacket
  <2> HIDE DEF r, t
  <2>3. Socket(r) /\ Typed(r) /\ r.retx # "none"
    BY <1>4, <2>1, <2>2, EmitGood
  <2> QED
    BY <1>4, <2>3 DEF Good, Guarded, r
<1> QED
  BY <1>1, <1>2, <1>3, <1>4

LEMMA RstGood ==
    ASSUME NEW s, Good(s)
    PROVE  Good(SendRST(s))
<1> DEFINE t == SendEmptyPacket(s, "RST")
<1>1. Good(t)
  BY EmptyPacketGood DEF Good, Flags
<1> HIDE DEF t
<1> QED
  BY <1>1, DeallocateGood DEF SendRST, Good, t

\* SendDataPacket: data that takes the FIN with it is timed.
LEMMA DataPacketGood ==
    ASSUME NEW s, Socket(s), Typed(s), NEW seq \in Nat
    PROVE  Good(SendDataPacket(s, seq))
<1>1. Socket(SendDataPacket(s, seq))
  BY DEF SendDataPacket, Socket
<1>2. Typed(SendDataPacket(s, seq))
  BY ConnectionAssumption, SMTT(30) DEF SendDataPacket, Socket, Typed, Packet, Packets, Flags, States
<1>3. SendDataPacket(s, seq).retx # "none"
  BY DEF SendDataPacket, Socket
<1> QED
  BY <1>1, <1>2, <1>3 DEF Good, Guarded

LEMMA PendingDataGood ==
    ASSUME NEW s, Good(s)
    PROVE  Good(SendPendingData(s))
<1>1. s.next \in Nat
  BY DEF Good, Typed
<1> QED
  BY <1>1, DataPacketGood DEF SendPendingData, Good

LEMMA TimeWaitGood ==
    ASSUME NEW s, Good(s)
    PROVE  Good(TimeWait(s))
BY ConnectionAssumption DEF TimeWait, Good, Socket, Typed, Guarded, States

\* DoClose: where the FIN goes out a timer runs.
LEMMA DoCloseGood ==
    ASSUME NEW s, Good(s)
    PROVE  Good(DoClose(s))
<1> DEFINE t == SendEmptyPacket(s, "FIN")
<1>1. Good(t) /\ (t.bound => t.retx # "none")
  BY EmptyPacketGood DEF Good, Flags
<1> HIDE DEF t
<1>2. Good([t EXCEPT !.state = "FIN_WAIT_1"]) /\ Good([t EXCEPT !.state = "LAST_ACK"])
  BY <1>1 DEF Good, Socket, Typed, Guarded, States
<1>3. Good(CloseAndNotify(SendRST(s)))
  BY RstGood, CloseGood DEF Good
<1> QED
  BY <1>2, <1>3 DEF DoClose, t

LEMMA CloseSocketGood ==
    ASSUME NEW s, Good(s)
    PROVE  Good(CloseSocket(s))
<1>1. Good([s EXCEPT !.closeOnEmpty = TRUE])
  BY DEF Good, Socket, Typed, Guarded
<1> QED
  BY <1>1, RstGood, DoCloseGood DEF CloseSocket

LEMMA SetFinGood ==
    ASSUME NEW s, Good(s), NEW seq \in Nat
    PROVE  Good(SetFinSequence(s, seq))
BY DEF SetFinSequence, Good, Socket, Typed, Guarded

LEMMA DoPeerCloseGood ==
    ASSUME NEW s, Socket(s), Typed(s)
    PROVE  Good(DoPeerClose(s))
<1> DEFINE t == [s EXCEPT !.state = "CLOSE_WAIT"]
           u == IF s.shutdownSend THEN CloseSocket(t) ELSE SendEmptyPacket(t, "ACK")
<1>1. Good(t)
  BY DEF Good, Socket, Typed, Guarded, States
<1> HIDE DEF t
<1>2. Good(u)
  BY <1>1, CloseSocketGood, EmptyPacketGood DEF Good, Flags
<1> HIDE DEF u
<1>3. u.state = "LAST_ACK" => Good([u EXCEPT !.dataRetrCount = DataRetries, !.lastAck = TRUE])
  <2>1. DataRetries \in 0 .. DataRetries
    BY ConnectionAssumption
  <2> QED
    BY <1>2, <2>1 DEF Good, Socket, Typed, Guarded
<1> QED
  BY <1>2, <1>3 DEF DoPeerClose, t, u

LEMMA AddGood ==
    ASSUME NEW s, Good(s), NEW p \in Packets
    PROVE  Good(Add(s, p)) /\ Add(s, p).delAck = s.delAck
<1> DEFINE end == p.seq + p.len
           rx == IF s.fin = end THEN end + 1 ELSE end
<1>1. end \in Nat /\ rx \in Nat
  BY DEF Packets
<1>2. Add(s, p) = IF end <= s.rx THEN s
                  ELSE [s EXCEPT !.rx = rx, !.got = TRUE, !.unread = s.slow]
  BY DEF Add
<1> HIDE DEF end, rx
<1> QED
  BY <1>1, <1>2 DEF Good, Socket, Typed, Guarded

LEMMA ReceivedDataGood ==
    ASSUME NEW s, Good(s), NEW p \in Packets
    PROVE  Good(ReceivedData(s, p))
<1> DEFINE t == Add(s, p)
<1>1. Good(t) /\ t.delAck = s.delAck
  BY AddGood
<1>2. Good(SendEmptyPacket(s, "ACK")) /\ Good(SendEmptyPacket(t, "ACK"))
  BY <1>1, EmptyPacketGood DEF Good, Flags
<1>3. Good(DoPeerClose(t))
  BY <1>1, DoPeerCloseGood DEF Good
<1>4. ASSUME ~(s.delAck + 1 >= DelAckMax)
      PROVE  Good([t EXCEPT !.delAck = @ + 1])
  <2> DEFINE k == t.delAck + 1
  <2>1. k \in 0 .. DelAckMax
    <3>1. s.delAck \in Nat /\ t.delAck = s.delAck /\ DelAckMax \in Nat
      BY <1>1, ConnectionAssumption DEF Good, Typed
    <3> HIDE DEF t
    <3> QED
      BY <3>1, <1>4
  <2>2. [t EXCEPT !.delAck = @ + 1] = [t EXCEPT !.delAck = k]
    BY <1>1 DEF Good, Socket
  <2> HIDE DEF k, t
  <2> QED
    BY <1>1, <2>1, <2>2 DEF Good, Socket, Typed, Guarded
<1> HIDE DEF t
<1> QED
  BY <1>2, <1>3, <1>4 DEF ReceivedData, t

LEMMA PeerCloseGood ==
    ASSUME NEW s, Good(s), NEW p \in Packets
    PROVE  Good(PeerClose(s, p))
<1> DEFINE n == p.seq + p.len
           t == SetFinSequence(s, n)
           u == IF p.len > 0 THEN ReceivedData(t, p) ELSE t
<1>1. n \in Nat
  BY DEF Packets
<1> HIDE DEF n
<1>2. Good(t)
  BY <1>1, SetFinGood
<1> HIDE DEF t
<1>3. Good(u)
  BY <1>2, ReceivedDataGood
<1>4. Good(DoPeerClose(u))
  BY <1>3, DoPeerCloseGood DEF Good
<1>5. u.state = "FIN_WAIT_1" => Good([u EXCEPT !.state = "CLOSING"])
  <2> HIDE DEF u
  <2> QED
    BY <1>3 DEF Good, Socket, Typed, Guarded, States
<1> QED
  BY <1>3, <1>4, <1>5 DEF PeerClose, t, n

LEMMA NewAckGood ==
    ASSUME NEW s, Good(s), NEW ack \in Nat
    PROVE  Good(NewAck(s, ack))
<1>1. Socket(NewAck(s, ack))
  BY DEF NewAck, Good, Socket
<1>2. Typed(NewAck(s, ack))
  BY ConnectionAssumption DEF NewAck, Good, Socket, Typed
<1>3. Guarded(NewAck(s, ack))
  BY DEF NewAck, Good, Socket, Guarded
<1> QED
  BY <1>1, <1>2, <1>3 DEF Good

LEMMA ProcessAckGood ==
    ASSUME NEW s, Good(s), NEW ack \in Nat
    PROVE  Good(ProcessAck(s, ack))
<1>1. Good(DiscardUpTo(s, ack))
  BY DEF DiscardUpTo, Good, Socket, Typed, Guarded
<1>2. Good([s EXCEPT !.next = ack])
  BY DEF Good, Socket, Typed, Guarded
<1> QED
  BY <1>1, <1>2, NewAckGood DEF ProcessAck

LEMMA ReceivedAckGood ==
    ASSUME NEW s, Good(s), NEW p \in Packets
    PROVE  Good(ReceivedAck(s, p))
<1> DEFINE t == ProcessAck(s, p.ack)
           u == IF p.len > 0 THEN ReceivedData(t, p) ELSE t
<1>1. Good(t)
  BY ProcessAckGood DEF Packets
<1> HIDE DEF t
<1>2. Good(u)
  BY <1>1, ReceivedDataGood
<1> QED
  BY <1>2, PendingDataGood DEF ReceivedAck, t

LEMMA ConnectedGood ==
    ASSUME NEW s, Good(s)
    PROVE  Good(Connected(s))
BY DEF Connected, Good, Socket, Typed, Guarded, States

LEMMA SynSentGood ==
    ASSUME NEW s, Good(s), NEW p \in Packets
    PROVE  Good(ProcessSynSent(s, p))
<1> DEFINE r == [s EXCEPT !.rx = p.seq + 1]
           t == SendPendingData(SendEmptyPacket(Connected(r), "ACK"))
<1>1. Good(r)
  BY DEF Good, Socket, Typed, Guarded, Packets
<1> HIDE DEF r
<1>2. Good(SendEmptyPacket(Connected(r), "ACK"))
  BY <1>1, ConnectedGood, EmptyPacketGood DEF Good, Flags
<1>3. Good(t)
  BY <1>2, PendingDataGood
<1> HIDE DEF t
<1>4. Good([t EXCEPT !.delAck = DelAckMax])
  BY <1>3, ConnectionAssumption DEF Good, Socket, Typed, Guarded
<1>5. Good(CloseAndNotify(s))
  BY CloseGood DEF Good
<1> QED
  BY <1>4, <1>5 DEF ProcessSynSent, t, r

LEMMA SynRcvdGood ==
    ASSUME NEW s, Good(s), NEW p \in Packets
    PROVE  Good(ProcessSynRcvd(s, p))
<1> DEFINE c == Connected(s)
           r == [s EXCEPT !.rx = p.seq + 1]
<1>1. Good(c)
  BY ConnectedGood
<1> HIDE DEF c
<1>2. Good([c EXCEPT !.delAck = DelAckMax])
  BY <1>1, ConnectionAssumption DEF Good, Socket, Typed, Guarded
<1>3. Good([c EXCEPT !.state = "SYN_RCVD"])
  BY <1>1 DEF Good, Socket, Typed, Guarded, States
<1>4. Good(r)
  BY DEF Good, Socket, Typed, Guarded, Packets
<1> HIDE DEF r
<1>5. Good(SendEmptyPacket(r, "SYNACK"))
  BY <1>4, EmptyPacketGood DEF Good, Flags
<1>6. Good(CloseAndNotify(s)) /\ Good(CloseAndNotify(SendRST(s)))
  BY CloseGood, RstGood DEF Good
<1>7. Good(ReceivedAck([c EXCEPT !.delAck = DelAckMax], p))
  BY <1>2, ReceivedAckGood
<1>8. Good(PeerClose([c EXCEPT !.state = "SYN_RCVD"], p))
  BY <1>3, PeerCloseGood
<1> QED
  BY <1>5, <1>6, <1>7, <1>8 DEF ProcessSynRcvd, c, r

LEMMA EstablishedGood ==
    ASSUME NEW s, Good(s), NEW p \in Packets
    PROVE  Good(ProcessEstablished(s, p))
<1>1. Good(CloseAndNotify(s))
  BY CloseGood DEF Good
<1>2. Good(SendEmptyPacket(s, "ACK"))
  BY EmptyPacketGood DEF Good, Flags
<1> QED
  BY <1>1, <1>2, ReceivedAckGood, PeerCloseGood DEF ProcessEstablished

LEMMA WaitForFinGood ==
    ASSUME NEW s, Good(s), NEW p \in Packets
    PROVE  Good(WaitForFin(s, p))
<1> DEFINE t == ReceivedAck(s, p)
<1>1. Good(t)
  BY ReceivedAckGood
<1> HIDE DEF t
<1>2. Good(SetFinSequence(t, p.seq))
  BY <1>1, SetFinGood DEF Packets
<1>3. Good([t EXCEPT !.state = "FIN_WAIT_2"])
  BY <1>1 DEF Good, Socket, Typed, Guarded, States
<1> QED
  BY <1>1, <1>2, <1>3 DEF WaitForFin, FinWhileWaiting, t

LEMMA WaitGood ==
    ASSUME NEW s, Good(s), NEW p \in Packets
    PROVE  Good(ProcessWait(s, p))
<1> DEFINE t == WaitForFin(s, p)
           c == [t EXCEPT !.state = "CLOSING"]
<1>1. Good(t)
  BY WaitForFinGood
<1> HIDE DEF t
<1>2. Good(SendEmptyPacket(TimeWait(t), "ACK"))
  BY <1>1, TimeWaitGood, EmptyPacketGood DEF Good, Flags
<1>3. ASSUME t.state = "FIN_WAIT_1" PROVE Good(SendEmptyPacket(c, "ACK"))
  <2>1. Good(c)
    BY <1>1, <1>3 DEF Good, Socket, Typed, Guarded, States
  <2> HIDE DEF c
  <2> QED
    BY <2>1, EmptyPacketGood DEF Good, Flags
<1>4. Good(CloseAndNotify(s))
  BY CloseGood DEF Good
<1> QED
  BY <1>1, <1>2, <1>3, <1>4 DEF ProcessWait, t

LEMMA ClosingGood ==
    ASSUME NEW s, Good(s), NEW p
    PROVE  Good(ProcessClosing(s, p)) /\ Good(ProcessLastAck(s, p))
<1>1. Good(CloseAndNotify(s)) /\ Good(CloseAndNotify(SendRST(s)))
  BY CloseGood, RstGood DEF Good
<1>2. Good(SendEmptyPacket(s, "ACK"))
  BY EmptyPacketGood DEF Good, Flags
<1>3. Good(CloseAndNotify(SendEmptyPacket(s, "ACK")))
  BY <1>2, CloseGood DEF Good
<1> QED
  BY <1>1, <1>3, TimeWaitGood DEF ProcessClosing, ProcessLastAck

LEMMA DoForwardUpGood ==
    ASSUME NEW s, Good(s), NEW p \in Packets
    PROVE  Good(DoForwardUp(s, p))
BY SynSentGood, SynRcvdGood, EstablishedGood, WaitGood, ClosingGood DEF DoForwardUp

----------------------------------------------------------------------------
(* The actions keep both sockets so                                         *)

AllGood ==
    /\ sock = [e \in Ends |-> sock[e]]
    /\ \A e \in Ends : Good(sock[e])
    /\ sink \in BOOLEAN /\ forking \in BOOLEAN
    /\ losses \in 0 .. MaxLoss

LEMMA PeerInEnds == ASSUME NEW e \in Ends PROVE Peer(e) \in Ends /\ Peer(e) # e
BY DEF Ends, Peer

\* A step that changes one socket.
LEMMA BecomesGood ==
    ASSUME AllGood, NEW e \in Ends, NEW s, Good(s), Becomes(e, s)
    PROVE  /\ sock' = [x \in Ends |-> sock'[x]]
           /\ \A x \in Ends : Good(sock'[x])
BY DEF AllGood, Becomes

\* The packet that arrives is a packet.
LEMMA ArrivedPacket ==
    ASSUME AllGood, NEW e \in Ends, Arriving(e)
    PROVE  Arrived(e) \in Packets
<1>1. sock[Peer(e)].out \in Seq(Packets)
  BY PeerInEnds DEF AllGood, Good, Typed
<1> QED
  BY <1>1 DEF Arriving, Arrived

LEMMA TakesGood ==
    ASSUME AllGood, NEW e \in Ends, NEW s, Good(s), Arriving(e), TakesPacket(e, s)
    PROVE  /\ sock' = [x \in Ends |-> sock'[x]]
           /\ \A x \in Ends : Good(sock'[x])
<1> DEFINE q == sock[Peer(e)]
           r == [q EXCEPT !.out = Tail(@)]
<1>1. Good(q) /\ Tail(q.out) \in Seq(Packets)
  BY PeerInEnds, SMTT(30) DEF AllGood, Good, Typed, Arriving
<1>2. Good(r)
  <2> HIDE DEF q
  <2> QED
    BY <1>1 DEF Good, Socket, Typed, Guarded
<1>3. sock' = [x \in Ends |-> IF x = Peer(e) THEN r ELSE IF x = e THEN s ELSE sock[x]]
  BY PeerInEnds DEF TakesPacket, AllGood
<1> HIDE DEF q, r
<1> QED
  BY <1>2, <1>3 DEF AllGood

LEMMA InitGood == Init => AllGood
<1> SUFFICES ASSUME Init PROVE AllGood
  OBVIOUS
<1>1. \A e \in Ends : sock[e] = NewSocket(e)
  BY DEF Init
<1>2. sock = [e \in Ends |-> sock[e]]
  BY DEF Init
<1>3. \A e \in Ends : Good(sock[e])
  BY <1>1, NewSocketGood
<1>4. sink \in BOOLEAN /\ forking \in BOOLEAN
  BY DEF Init
<1>5. losses \in 0 .. MaxLoss
  <2>1. losses = 0 /\ MaxLoss \in Nat
    BY ConnectionAssumption DEF Init
  <2> QED
    BY <2>1
<1> QED
  BY <1>2, <1>3, <1>4, <1>5 DEF AllGood

LEMMA ConnectGood == ASSUME AllGood, Connect PROVE AllGood'
<1> DEFINE s == sock["client"]
           t == [s EXCEPT !.bound = TRUE, !.synCount = SynRetries,
                          !.dataRetrCount = DataRetries]
           u == SendEmptyPacket(t, "SYN")
           r == [u EXCEPT !.state = "SYN_SENT"]
<1>1. "client" \in Ends /\ Good(s)
  BY DEF AllGood, Ends
<1> HIDE DEF s
<1>2. SynRetries \in 0 .. SynRetries /\ DataRetries \in 0 .. DataRetries
  BY ConnectionAssumption
<1>3. Socket(t) /\ Typed(t)
  BY <1>1, <1>2 DEF Good, Socket, Typed
<1> HIDE DEF t
<1>4. Good(u)
  BY <1>3, EmptyPacketGood DEF Flags
<1> HIDE DEF u
<1>5. Good(r)
  BY <1>4 DEF Good, Socket, Typed, Guarded, States
<1>6. Becomes("client", r) /\ UNCHANGED <<sink, forking, losses>>
  BY DEF Connect, r, u, t, s
<1> HIDE DEF r
<1> QED
  BY <1>1, <1>5, <1>6, BecomesGood DEF AllGood

LEMMA CompleteForkGood == ASSUME AllGood, CompleteFork PROVE AllGood'
<1> DEFINE s == sock["server"]
           n == NewSocket("server")
           t == [n EXCEPT !.state = "SYN_RCVD", !.bound = TRUE, !.rx = 1,
                          !.synCount = SynRetries, !.dataRetrCount = DataRetries,
                          !.shutdownSend = sink, !.closeOnEmpty = sink, !.out = s.out]
           r == IF s.bound THEN s ELSE SendEmptyPacket(t, "SYNACK")
<1>1. "server" \in Ends /\ Good(s) /\ Good(n)
  BY NewSocketGood DEF AllGood, Ends
<1>2. Becomes("server", r) /\ UNCHANGED <<sink, losses>> /\ forking' = FALSE
  BY DEF CompleteFork
<1> HIDE DEF s, n
<1>3. SynRetries \in 0 .. SynRetries /\ DataRetries \in 0 .. DataRetries
  BY ConnectionAssumption
<1>4. Socket(t) /\ Typed(t)
  BY <1>1, <1>3 DEF Good, Socket, Typed, States
<1> HIDE DEF t
<1>5. Good(SendEmptyPacket(t, "SYNACK"))
  BY <1>4, EmptyPacketGood DEF Flags
<1>6. Good(r)
  BY <1>1, <1>5
<1> HIDE DEF r
<1> QED
  BY <1>1, <1>2, <1>6, BecomesGood DEF AllGood

LEMMA ListenGood == ASSUME AllGood, ProcessListen PROVE AllGood'
<1> DEFINE s == sock["server"]
<1>1. "server" \in Ends /\ Good(s)
  BY DEF AllGood, Ends
<1>2. Arriving("server") /\ TakesPacket("server", s) /\ UNCHANGED <<sink, losses>>
      /\ forking' \in BOOLEAN
  BY DEF ProcessListen, AllGood
<1> HIDE DEF s
<1> QED
  BY <1>1, <1>2, TakesGood DEF AllGood

LEMMA NoEndPointGood == ASSUME AllGood, NoEndPoint PROVE AllGood'
<1> DEFINE s == sock["client"]
           a == Append(s.out, Packet("RST", 0, 0, 0))
           t == [s EXCEPT !.out = a]
           r == IF Arrived("client").flags = "RST" THEN s ELSE t
<1>1. "client" \in Ends /\ Good(s)
  BY DEF AllGood, Ends
<1>2. Arriving("client") /\ TakesPacket("client", r) /\ UNCHANGED <<sink, forking, losses>>
  BY <1>1 DEF NoEndPoint, Good, Socket
<1> HIDE DEF s
<1>3. Packet("RST", 0, 0, 0) \in Packets
  BY DEF Packet, Packets, Flags
<1>4. a \in Seq(Packets)
  BY <1>1, <1>3 DEF Good, Typed
<1> HIDE DEF a
<1>5. Good(t)
  BY <1>1, <1>4 DEF Good, Socket, Typed, Guarded
<1>6. Good(r)
  BY <1>1, <1>5
<1> HIDE DEF r
<1> QED
  BY <1>1, <1>2, <1>6, TakesGood DEF AllGood

LEMMA LoseGood == ASSUME AllGood, NEW e \in Ends, Lose(e) PROVE AllGood'
<1>1. Good(sock[e])
  BY DEF AllGood
<1>2. losses' \in 0 .. MaxLoss
  BY ConnectionAssumption DEF Lose, AllGood
<1> QED
  BY <1>1, <1>2, TakesGood DEF Lose, AllGood

LEMMA ForwardUpGood == ASSUME AllGood, NEW e \in Ends, ForwardUp(e) PROVE AllGood'
<1> DEFINE s == sock[e]
           p == Arrived(e)
           r == IF p.len > 0 /\ OutOfRange(s, p) THEN SendEmptyPacket(s, "ACK")
                ELSE DoForwardUp(s, p)
<1>1. Arriving(e) /\ TakesPacket(e, r) /\ UNCHANGED <<sink, forking, losses>>
  BY DEF ForwardUp
<1>2. Good(s) /\ p \in Packets
  BY <1>1, ArrivedPacket DEF AllGood
<1> HIDE DEF s, p
<1>3. Good(r)
  BY <1>2, EmptyPacketGood, DoForwardUpGood DEF Good, Flags
<1> HIDE DEF r
<1> QED
  BY <1>1, <1>3, TakesGood DEF AllGood

LEMMA ApplicationGood ==
    ASSUME AllGood, NEW e \in Ends, Send(e) \/ Recv(e) \/ ShutdownSend(e) \/ Close(e)
    PROVE  AllGood'
<1> DEFINE s == sock[e]
<1>1. Good(s)
  BY DEF AllGood
<1>2. CASE Send(e)
  <2> DEFINE v == s.sendEvent \/ (~s.shutdownSend /\ s.bound
                                  /\ s.state \in {"ESTABLISHED", "CLOSE_WAIT"})
             r == [s EXCEPT !.tail = 2, !.wrote = ~s.shutdownSend, !.sendEvent = v]
  <2>1. Becomes(e, r) /\ UNCHANGED <<sink, forking, losses>>
    BY <1>1, <1>2 DEF Send, Good, Socket
  <2> HIDE DEF s, v
  <2>2. Good(r)
    BY <1>1 DEF Good, Socket, Typed, Guarded
  <2> HIDE DEF r
  <2> QED
    BY <2>1, <2>2, BecomesGood DEF AllGood
<1>3. CASE Recv(e)
  <2> DEFINE r == [s EXCEPT !.unread = FALSE]
  <2>1. Becomes(e, r) /\ UNCHANGED <<sink, forking, losses>>
    BY <1>3 DEF Recv
  <2> HIDE DEF s
  <2>2. Good(r)
    BY <1>1 DEF Good, Socket, Typed, Guarded
  <2> HIDE DEF r
  <2> QED
    BY <2>1, <2>2, BecomesGood DEF AllGood
<1>4. CASE ShutdownSend(e)
  <2> DEFINE t == [s EXCEPT !.shutdownSend = TRUE, !.closeOnEmpty = TRUE]
             u == SendEmptyPacket(t, "FIN")
             f == IF t.state = "ESTABLISHED" THEN "FIN_WAIT_1" ELSE "LAST_ACK"
             r == IF Size(t) = 0 /\ t.state \in {"ESTABLISHED", "CLOSE_WAIT"}
                  THEN [u EXCEPT !.state = f] ELSE t
  <2>1. Becomes(e, r) /\ UNCHANGED <<sink, forking, losses>>
    BY <1>4 DEF ShutdownSend
  <2> HIDE DEF s
  <2>2. Good(t)
    BY <1>1 DEF Good, Socket, Typed, Guarded
  <2> HIDE DEF t
  <2>3. Good(u) /\ (u.bound => u.retx # "none")
    BY <2>2, EmptyPacketGood DEF Good, Flags
  <2> HIDE DEF u
  <2>4. Good([u EXCEPT !.state = f])
    BY <2>3 DEF Good, Socket, Typed, Guarded, States
  <2>5. Good(r)
    BY <2>2, <2>4
  <2> HIDE DEF r
  <2> QED
    BY <2>1, <2>5, BecomesGood DEF AllGood
<1>5. CASE Close(e)
  <2> DEFINE u == CloseSocket(s)
             r == [u EXCEPT !.closed = TRUE]
  <2>1. Becomes(e, r) /\ UNCHANGED <<sink, forking, losses>>
    BY <1>5 DEF Close
  <2>2. Good(u)
    BY <1>1, CloseSocketGood
  <2> HIDE DEF u
  <2>3. Good(r)
    BY <2>2 DEF Good, Socket, Typed, Guarded
  <2> HIDE DEF r
  <2> QED
    BY <2>1, <2>3, BecomesGood DEF AllGood
<1> QED
  BY <1>2, <1>3, <1>4, <1>5

LEMMA TimerGood ==
    ASSUME AllGood, NEW e \in Ends,
           \/ SendPendingDataEvent(e) \/ RepeatEmptyPacket(e) \/ ReTxTimeoutEmpty(e)
           \/ DelAckTimeout(e) \/ TimeWaitOver(e)
    PROVE  AllGood'
<1> DEFINE s == sock[e]
           n == [s EXCEPT !.retx = "none"]
<1>1. Good(s)
  BY DEF AllGood
<1>2. /\ Socket(n) /\ Typed(n) /\ n.state = s.state
      /\ n.state \notin {"FIN_WAIT_1", "CLOSING"} => Guarded(n)
  <2> HIDE DEF s
  <2> QED
    BY <1>1 DEF Good, Socket, Typed, Guarded
<1>3. CASE SendPendingDataEvent(e)
  <2> DEFINE t == [s EXCEPT !.sendEvent = FALSE]
             r == SendPendingData(t)
  <2>1. Becomes(e, r) /\ UNCHANGED <<sink, forking, losses>>
    BY <1>3 DEF SendPendingDataEvent
  <2> HIDE DEF s
  <2>2. Good(t)
    BY <1>1 DEF Good, Socket, Typed, Guarded
  <2> HIDE DEF t
  <2>3. Good(r)
    BY <2>2, PendingDataGood
  <2> HIDE DEF r
  <2> QED
    BY <2>1, <2>3, BecomesGood DEF AllGood
<1>4. CASE RepeatEmptyPacket(e)
  <2> DEFINE r == SendEmptyPacket(n, s.retx)
  <2>1. Becomes(e, r) /\ UNCHANGED <<sink, forking, losses>>
        /\ s.retx \in {"SYN", "SYNACK", "FIN"}
    BY <1>4 DEF RepeatEmptyPacket
  <2> HIDE DEF n, s
  <2>2. Good(r)
    BY <1>2, <2>1, EmptyPacketGood DEF Flags
  <2> HIDE DEF r
  <2> QED
    BY <2>1, <2>2, BecomesGood DEF AllGood
<1>5. CASE ReTxTimeoutEmpty(e)
  <2> DEFINE r == IF n.state \in {"FIN_WAIT_1", "CLOSING"} THEN SendEmptyPacket(n, "FIN")
                  ELSE n
  <2>1. Becomes(e, r) /\ UNCHANGED <<sink, forking, losses>>
    BY <1>5 DEF ReTxTimeoutEmpty
  <2> HIDE DEF n, s
  <2>2. Good(SendEmptyPacket(n, "FIN"))
    BY <1>2, EmptyPacketGood DEF Flags
  <2>3. Good(r)
    BY <1>2, <2>2 DEF Good
  <2> HIDE DEF r
  <2> QED
    BY <2>1, <2>3, BecomesGood DEF AllGood
<1>6. CASE DelAckTimeout(e)
  <2>1. Good(SendEmptyPacket(s, "ACK"))
    BY <1>1, EmptyPacketGood DEF Good, Flags
  <2> QED
    BY <1>6, <2>1, BecomesGood DEF DelAckTimeout, AllGood
<1>7. CASE TimeWaitOver(e)
  <2>1. Good(CloseAndNotify(s))
    BY <1>1, CloseGood DEF Good
  <2> QED
    BY <1>7, <2>1, BecomesGood DEF TimeWaitOver, AllGood
<1> QED
  BY <1>3, <1>4, <1>5, <1>6, <1>7

\* A retry that is counted down stays in range.
LEMMA RetryCounted ==
    ASSUME NEW s, Socket(s), Typed(s), s.dataRetrCount # 0
    PROVE  /\ Socket([s EXCEPT !.dataRetrCount = @ - 1])
           /\ Typed([s EXCEPT !.dataRetrCount = @ - 1])
           /\ [s EXCEPT !.dataRetrCount = @ - 1].state = s.state
<1> DEFINE k == s.dataRetrCount - 1
           t == [s EXCEPT !.dataRetrCount = @ - 1]
<1>1. k \in 0 .. DataRetries
  BY ConnectionAssumption, SMTT(30) DEF Typed
<1>2. t = [s EXCEPT !.dataRetrCount = k]
  BY DEF Socket
<1> HIDE DEF k, t
<1>3. Socket(t) /\ Typed(t) /\ t.state = s.state
  BY <1>1, <1>2 DEF Socket, Typed
<1> QED
  BY <1>3 DEF t

LEMMA RetryGood ==
    ASSUME AllGood, NEW e \in Ends, ReTxTimeout(e) \/ LastAckTimeout(e)
    PROVE  AllGood'
<1>1. CASE ReTxTimeout(e)
  <2> DEFINE s == [sock[e] EXCEPT !.retx = "none"]
             t == [s EXCEPT !.dataRetrCount = @ - 1]
             r == IF s.dataRetrCount = 0 THEN DeallocateEndPoint(s)
                  ELSE SendDataPacket(t, s.head)
  <2>1. Becomes(e, r) /\ UNCHANGED <<sink, forking, losses>>
    BY <1>1 DEF ReTxTimeout
  <2>2. Socket(s) /\ Typed(s) /\ s.head \in Nat
    BY DEF AllGood, Good, Socket, Typed
  <2> HIDE DEF s
  <2>3. s.dataRetrCount # 0 => Socket(t) /\ Typed(t)
    BY <2>2, RetryCounted
  <2> HIDE DEF t
  <2>4. Good(r)
    BY <2>2, <2>3, DeallocateGood, DataPacketGood
  <2> HIDE DEF r
  <2> QED
    BY <2>1, <2>4, BecomesGood DEF AllGood
<1>2. CASE LastAckTimeout(e)
  <2> DEFINE s == [sock[e] EXCEPT !.lastAck = FALSE]
             t == [s EXCEPT !.dataRetrCount = @ - 1]
             u == SendEmptyPacket(t, "FIN")
             r == CASE s.state # "LAST_ACK" -> s
                    [] s.state = "LAST_ACK" /\ s.dataRetrCount = 0 -> DeallocateEndPoint(s)
                    [] OTHER -> [u EXCEPT !.lastAck = TRUE]
  <2>1. Becomes(e, r) /\ UNCHANGED <<sink, forking, losses>>
    BY <1>2 DEF LastAckTimeout
  <2>2. Good(s)
    BY DEF AllGood, Good, Socket, Typed, Guarded
  <2> HIDE DEF s
  <2>3. s.dataRetrCount # 0 => Socket(t) /\ Typed(t)
    BY <2>2, RetryCounted DEF Good
  <2> HIDE DEF t
  <2>4. s.dataRetrCount # 0 => Good(u)
    BY <2>3, EmptyPacketGood DEF Flags
  <2> HIDE DEF u
  <2>5. Good(u) => Good([u EXCEPT !.lastAck = TRUE])
    BY DEF Good, Socket, Typed, Guarded
  <2>6. Good(DeallocateEndPoint(s))
    BY <2>2, DeallocateGood DEF Good
  <2>7. Good(r)
    BY <2>2, <2>4, <2>5, <2>6
  <2> HIDE DEF r
  <2> QED
    BY <2>1, <2>7, BecomesGood DEF AllGood
<1> QED
  BY <1>1, <1>2

LEMMA StepGood == AllGood /\ [Next]_vars => AllGood'
<1> SUFFICES ASSUME AllGood, [Next]_vars PROVE AllGood'
  OBVIOUS
<1>1. CASE UNCHANGED vars
  BY <1>1 DEF vars, AllGood
<1>2. CASE Next
  BY <1>2, ConnectGood, ListenGood, CompleteForkGood, NoEndPointGood, ApplicationGood,
     TimerGood, RetryGood, ForwardUpGood, LoseGood DEF Next
<1> QED
  BY <1>1, <1>2

----------------------------------------------------------------------------
(* Delivery.  What a socket may hold and send by itself; the parameter c of *)
(* the predicates says that Close is under way, which records only at its   *)
(* end that the application closed.                                         *)

\* The application has ended its data: what Send takes from now is refused.
Ended(s) == s.closed \/ s.shutdownSend

FinStates == {"FIN_WAIT_1", "FIN_WAIT_2", "CLOSING", "LAST_ACK", "TIME_WAIT"}

\* A FIN may go out: the data went before it.
FinDue(s, c) == (c \/ Ended(s)) /\ s.high >= 1 /\ (s.wrote => s.next >= 2)

\* A socket before its handshake is over.
Opening(s) ==
    /\ s.state \in {"CLOSED", "SYN_SENT", "SYN_RCVD"} /\ s.retx \in {"none", "SYN", "SYNACK"}
    /\ ~s.sendEvent /\ ~s.lastAck /\ s.delAck = 0
    /\ s.rx <= 1 /\ s.head = 1 /\ s.next = 0

Fields(s, c) ==
    /\ \/ s.head = 1 /\ s.tail \in {1, 2}
       \/ s.head = s.tail /\ s.head >= 2
    /\ s.wrote => s.tail >= 2
    /\ s.high = 0 => Opening(s)
    /\ s.high >= 1 => s.next >= s.head /\ s.retx \notin {"SYN", "SYNACK"}
    /\ s.closeOnEmpty => c \/ Ended(s)
    /\ s.state \in FinStates \/ s.retx = "FIN" => FinDue(s, c)

\* A packet the socket has under way.
PacketOwn(s, c, p) ==
    /\ p.ack <= s.rx
    /\ p.len = 1 => p.seq = 1
    /\ p.flags = "FIN" /\ p.len = 0 =>
          p.seq >= 1 /\ (p.seq = 1 => ~s.wrote /\ (c \/ Ended(s)))
    /\ p.flags \in {"SYN", "SYNACK"} => p.seq = 0 /\ p.len = 0
    /\ p.flags = "RST" => p.len = 0
    /\ p.flags \in {"ACK", "FIN"} => s.high >= 1

Sent(s, c) == \A i \in DOMAIN s.out : PacketOwn(s, c, s.out[i])

\* A SYN is never behind what only a connected socket sends.
Ordered(s) ==
    \A i, j \in DOMAIN s.out :
        i < j /\ s.out[j].flags = "SYN" => s.out[i].flags \notin {"ACK", "FIN"}

Own(s, c) == Fields(s, c) /\ Sent(s, c) /\ Ordered(s)

HasSyn(s) == \E i \in DOMAIN s.out : s.out[i].flags = "SYN"

\* What a handler without a packet leaves of s in the u it makes of it.
Same(s, u) ==
    /\ u.wrote = s.wrote /\ u.closed = s.closed /\ u.shutdownSend = s.shutdownSend
    /\ u.got = s.got /\ u.rx = s.rx /\ u.fin = s.fin /\ u.head = s.head
    /\ s.high <= u.high
    /\ u.bound => s.bound
    /\ u.state \in {"SYN_SENT", "SYN_RCVD"} => u.state = s.state
    /\ HasSyn(u) => s.high = 0 \/ HasSyn(s)

LEMMA SameItself == ASSUME NEW s, Typed(s) PROVE Same(s, s)
BY DEF Same, Typed

LEMMA SameTrans ==
    ASSUME NEW s, NEW t, NEW u, Typed(s), Typed(t), Typed(u), Same(s, t), Same(t, u)
    PROVE  Same(s, u)
<1>1. s.high <= u.high /\ (t.high = 0 => s.high = 0)
  <2>1. s.high \in Nat /\ t.high \in Nat /\ u.high \in Nat
    BY DEF Typed
  <2>2. s.high <= t.high /\ t.high <= u.high
    BY DEF Same
  <2> QED
    BY <2>1, <2>2
<1> QED
  BY <1>1, Zenon DEF Same

\* The packets under way stay what they are,
LEMMA OutKept ==
    ASSUME NEW s, NEW u, NEW c \in BOOLEAN, NEW d \in BOOLEAN, Typed(s), Typed(u),
           Sent(s, c), Ordered(s), u.out = s.out, s.rx <= u.rx, s.high <= u.high,
           u.wrote => s.wrote \/ ~(c \/ Ended(s)), c \/ Ended(s) => d \/ Ended(u)
    PROVE  Sent(u, d) /\ Ordered(u)
<1>1. ASSUME NEW i \in DOMAIN u.out PROVE PacketOwn(u, d, u.out[i])
  <2>1. u.out[i] \in Packets /\ PacketOwn(s, c, u.out[i])
    BY DEF Typed, Sent
  <2>2. u.out[i].ack <= u.rx /\ (u.out[i].flags \in {"ACK", "FIN"} => u.high >= 1)
    BY <2>1, SMTT(30) DEF PacketOwn, Packets, Typed
  <2> QED
    BY <2>1, <2>2, Zenon DEF PacketOwn
<1> QED
  BY <1>1 DEF Sent, Ordered

LEMMA OutSame ==
    ASSUME NEW s, NEW u, NEW c \in BOOLEAN, Typed(s), Typed(u), Own(s, c), Same(s, u),
           u.out = s.out
    PROVE  Sent(u, c) /\ Ordered(u)
<1>1. s.rx <= u.rx /\ s.high <= u.high
  BY DEF Same, Typed
<1>2. u.wrote = s.wrote /\ (c \/ Ended(s) => c \/ Ended(u))
  BY Zenon DEF Same, Ended
<1>3. Sent(s, c) /\ Ordered(s)
  BY DEF Own
<1> QED
  BY <1>1, <1>2, <1>3, OutKept, ZenonT(60)

\* also when one more is sent.
LEMMA OutGrows ==
    ASSUME NEW s, NEW u, NEW c \in BOOLEAN, NEW q \in Packets, Typed(s), Typed(u),
           Sent(s, c), Ordered(s), u.out = Append(s.out, q), u.rx = s.rx, s.high <= u.high,
           u.wrote = s.wrote, Ended(u) = Ended(s),
           PacketOwn(u, c, q), q.flags = "SYN" => s.high = 0
    PROVE  Sent(u, c) /\ Ordered(u)
<1>1. /\ DOMAIN u.out = 1 .. Len(s.out) + 1 /\ DOMAIN s.out = 1 .. Len(s.out)
      /\ u.out[Len(s.out) + 1] = q
      /\ \A i \in 1 .. Len(s.out) : u.out[i] = s.out[i]
      /\ Len(s.out) \in Nat
  <2>1. s.out \in Seq(Packets)
    BY DEF Typed
  <2> QED
    BY <2>1
<1>2. ASSUME NEW i \in 1 .. Len(s.out)
      PROVE  /\ PacketOwn(u, c, u.out[i])
             /\ s.high = 0 => u.out[i].flags \notin {"ACK", "FIN"}
  <2>1. s.out[i] \in Packets /\ PacketOwn(s, c, s.out[i]) /\ u.out[i] = s.out[i]
    <3>1. s.out \in Seq(Packets)
      BY DEF Typed
    <3>2. s.out[i] \in Packets
      BY <3>1
    <3> QED
      BY <1>1, <3>2 DEF Sent
  <2>2. s.out[i].ack <= u.rx /\ (s.out[i].flags \in {"ACK", "FIN"} => u.high >= 1)
    BY <2>1 DEF PacketOwn, Packets, Typed
  <2>3. s.high = 0 => s.out[i].flags \notin {"ACK", "FIN"}
    BY <2>1 DEF PacketOwn
  <2> QED
    BY <2>1, <2>2, <2>3, Zenon DEF PacketOwn
<1>3. Sent(u, c)
  <2> SUFFICES ASSUME NEW i \in DOMAIN u.out PROVE PacketOwn(u, c, u.out[i])
    BY DEF Sent
  <2>1. i \in 1 .. Len(s.out) \/ i = Len(s.out) + 1
    BY <1>1
  <2> QED
    BY <1>1, <1>2, <2>1
<1>4. Ordered(u)
  <2> SUFFICES ASSUME NEW i \in DOMAIN u.out, NEW j \in DOMAIN u.out, i < j,
                      u.out[j].flags = "SYN"
               PROVE  u.out[i].flags \notin {"ACK", "FIN"}
    BY DEF Ordered
  <2>1. i \in 1 .. Len(s.out) /\ (j \in 1 .. Len(s.out) \/ j = Len(s.out) + 1)
    BY <1>1
  <2>2. CASE j \in 1 .. Len(s.out)
    BY <1>1, <2>1, <2>2 DEF Ordered
  <2>3. CASE j = Len(s.out) + 1
    BY <1>1, <1>2, <2>1, <2>3
  <2> QED
    BY <2>1, <2>2, <2>3
<1> QED
  BY <1>3, <1>4

LEMMA SynGrows ==
    ASSUME NEW s, NEW u, NEW q \in Packets, Typed(s), u.out = Append(s.out, q)
    PROVE  HasSyn(u) => q.flags = "SYN" \/ HasSyn(s)
<1>1. s.out \in Seq(Packets)
  BY DEF Typed
<1>2. /\ DOMAIN u.out = 1 .. Len(s.out) + 1 /\ DOMAIN s.out = 1 .. Len(s.out)
      /\ u.out[Len(s.out) + 1] = q
      /\ \A i \in 1 .. Len(s.out) : u.out[i] = s.out[i]
      /\ Len(s.out) \in Nat
  BY <1>1
<1> SUFFICES ASSUME NEW i \in DOMAIN u.out, u.out[i].flags = "SYN"
             PROVE  q.flags = "SYN" \/ HasSyn(s)
  BY DEF HasSyn
<1>3. i \in 1 .. Len(s.out) \/ i = Len(s.out) + 1
  BY <1>2
<1> QED
  BY <1>2, <1>3 DEF HasSyn

LEMMA NewSocketOwn == ASSUME NEW e PROVE Own(NewSocket(e), FALSE)
BY DEF NewSocket, Own, Fields, Opening, Ended, FinStates, Sent, Ordered

LEMMA DeallocateOwn ==
    ASSUME NEW s, NEW c \in BOOLEAN, Socket(s), Typed(s), Own(s, c)
    PROVE  Own(DeallocateEndPoint(s), c) /\ Same(s, DeallocateEndPoint(s))
<1> DEFINE u == DeallocateEndPoint(s)
<1>1. Typed(u)
  BY DeallocateGood DEF Good
<1>2. u.out = s.out /\ Same(s, u)
  BY DEF DeallocateEndPoint, Socket, Same, Typed, HasSyn
<1>3. Fields(u, c)
  BY DEF DeallocateEndPoint, Socket, Own, Fields, Opening, FinDue, Ended, FinStates
<1> HIDE DEF u
<1>4. Sent(u, c) /\ Ordered(u)
  BY <1>1, <1>2, OutSame
<1> QED
  BY <1>2, <1>3, <1>4 DEF Own, u

LEMMA CloseOwn ==
    ASSUME NEW s, NEW c \in BOOLEAN, Socket(s), Typed(s), Own(s, c)
    PROVE  Own(CloseAndNotify(s), c) /\ Same(s, CloseAndNotify(s))
<1> DEFINE t == [s EXCEPT !.state = "CLOSED"]
<1>1. Socket(t) /\ Typed(t) /\ t.out = s.out /\ Same(s, t)
  BY DEF Socket, Typed, States, Same, HasSyn
<1>2. Fields(t, c)
  BY DEF Socket, Own, Fields, Opening, FinDue, Ended, FinStates
<1> HIDE DEF t
<1>3. Sent(t, c) /\ Ordered(t)
  BY <1>1, OutSame
<1>4. Own(DeallocateEndPoint(t), c) /\ Same(t, DeallocateEndPoint(t))
  BY <1>1, <1>2, <1>3, DeallocateOwn DEF Own
<1>5. Typed(DeallocateEndPoint(t))
  BY <1>1, DeallocateGood DEF Good
<1> QED
  BY <1>1, <1>4, <1>5, SameTrans DEF CloseAndNotify, t

\* What may be sent empty, and when.
MayEmit(s, c, f) ==
    /\ f \in {"SYN", "SYNACK"} => s.high = 0
    /\ f = "ACK" => s.high >= 1
    /\ f = "FIN" => FinDue(s, c)

LEMMA EmitOwn ==
    ASSUME NEW s, NEW c \in BOOLEAN, Socket(s), Typed(s), Own(s, c), NEW f \in Flags,
           MayEmit(s, c, f)
    PROVE  /\ Own(Emit(s, f), c) /\ Same(s, Emit(s, f))
           /\ Emit(s, f).next = s.next /\ Emit(s, f).bound = s.bound
<1> DEFINE u == Emit(s, f)
           seq == IF f # "FIN" /\ s.state \in {"FIN_WAIT_1", "LAST_ACK", "CLOSING"}
                  THEN s.next + 1 ELSE s.next
           q == Packet(f, seq, s.rx, 0)
<1>1. Socket(u) /\ Typed(u)
  BY EmitGood
<1>2. seq \in Nat
  BY DEF Typed
<1>3. q \in Packets /\ q.flags = f /\ q.seq = seq /\ q.ack = s.rx /\ q.len = 0
  <2> HIDE DEF seq
  <2> QED
    BY <1>2 DEF Packet, Packets, Flags, Typed
<1>4. u.out = Append(s.out, q) /\ Same(s, u) /\ u.next = s.next /\ u.bound = s.bound
      /\ u.high = s.high
  <2>1. u.out = Append(s.out, q) /\ (HasSyn(u) => f = "SYN" \/ HasSyn(s))
    <3>1. u.out = Append(s.out, q)
      BY DEF Emit, Socket
    <3> HIDE DEF u, q
    <3> QED
      BY <1>3, <3>1, SynGrows
  <2> QED
    BY <2>1 DEF Emit, Socket, Same, Typed, MayEmit, HasSyn
<1>5. Fields(u, c)
  BY DEF Emit, Socket, Own, Fields, Opening, FinDue, Ended, FinStates, MayEmit, Typed
<1>6. PacketOwn(u, c, q)
  <2>1. f \in {"SYN", "SYNACK"} => seq = 0
    BY DEF MayEmit, Own, Fields, Opening
  <2>2. f = "FIN" => seq = s.next /\ s.next >= s.head
    BY DEF MayEmit, FinDue, Own, Fields
  <2>3. s.head >= 1 /\ s.next \in Nat /\ s.rx \in Nat /\ s.head \in Nat
    BY DEF Own, Fields, Typed
  <2> HIDE DEF u, q, seq
  <2> QED
    BY <1>3, <1>4, <2>1, <2>2, <2>3 DEF PacketOwn, MayEmit, FinDue, Same, Ended, Flags
<1>7. q.flags = "SYN" => s.high = 0
  BY <1>3 DEF MayEmit
<1> HIDE DEF u, q, seq
<1>8. Sent(u, c) /\ Ordered(u)
  BY <1>1, <1>3, <1>4, <1>6, <1>7, OutGrows DEF Same, Own, Ended
<1> QED
  BY <1>4, <1>5, <1>8 DEF Own, u

LEMMA EmptyPacketOwn ==
    ASSUME NEW s, NEW c \in BOOLEAN, Socket(s), Typed(s), Own(s, c), NEW f \in Flags,
           MayEmit(s, c, f)
    PROVE  /\ Own(SendEmptyPacket(s, f), c) /\ Same(s, SendEmptyPacket(s, f))
           /\ f \notin {"SYN", "SYNACK"} => SendEmptyPacket(s, f).next = s.next
<1> DEFINE r == SendEmptyPacket(s, f)
           k == s.synCount - 1
           t == [s EXCEPT !.synCount = k]
<1>1. CASE ~s.bound
  BY <1>1, SameItself DEF SendEmptyPacket
<1>2. CASE s.bound /\ f \notin {"SYN", "SYNACK"}
  BY <1>2, EmitOwn DEF SendEmptyPacket
<1>3. CASE s.bound /\ f \in {"SYN", "SYNACK"} /\ s.synCount = 0
  BY <1>3, CloseOwn DEF SendEmptyPacket
<1>4. CASE s.bound /\ f \in {"SYN", "SYNACK"} /\ s.synCount # 0
  <2>1. k \in 0 .. SynRetries
    BY <1>4, ConnectionAssumption, SMTT(30) DEF Typed
  <2>2. r = Emit(t, f)
    BY <1>4 DEF SendEmptyPacket, Socket
  <2> HIDE DEF k, r
  <2>3. Socket(t) /\ Typed(t) /\ Same(s, t) /\ t.out = s.out
    BY <2>1 DEF Socket, Typed, Same, HasSyn
  <2>4. Fields(t, c) /\ MayEmit(t, c, f)
    BY DEF Socket, Own, Fields, Opening, FinDue, Ended, FinStates, MayEmit
  <2> HIDE DEF t
  <2>5. Own(t, c)
    BY <2>3, <2>4, OutSame DEF Own
  <2>6. Own(Emit(t, f), c) /\ Same(t, Emit(t, f)) /\ Typed(Emit(t, f))
    BY <2>3, <2>4, <2>5, EmitOwn, EmitGood
  <2>7. Same(s, r)
    BY <2>2, <2>3, <2>6, SameTrans
  <2> QED
    BY <1>4, <2>2, <2>6, <2>7 DEF r
<1> QED
  BY <1>1, <1>2, <1>3, <1>4

LEMMA RstOwn ==
    ASSUME NEW s, NEW c \in BOOLEAN, Good(s), Own(s, c)
    PROVE  Own(SendRST(s), c) /\ Same(s, SendRST(s))
<1> DEFINE t == SendEmptyPacket(s, "RST")
<1>1. Good(t) /\ Own(t, c) /\ Same(s, t)
  BY EmptyPacketGood, EmptyPacketOwn DEF Good, Flags, MayEmit
<1> HIDE DEF t
<1>2. Own(DeallocateEndPoint(t), c) /\ Same(t, DeallocateEndPoint(t))
      /\ Typed(DeallocateEndPoint(t))
  BY <1>1, DeallocateOwn, DeallocateGood DEF Good
<1> QED
  BY <1>1, <1>2, SameTrans DEF SendRST, Good, t

\* Data is sent at its sequence number, 1.
LEMMA DataPacketOwn ==
    ASSUME NEW s, NEW c \in BOOLEAN, Socket(s), Typed(s), Own(s, c), s.high >= 1, s.head = 1
    PROVE  Own(SendDataPacket(s, 1), c) /\ Same(s, SendDataPacket(s, 1))
<1> DEFINE u == SendDataPacket(s, 1)
           last == s.closeOnEmpty /\ 2 = s.tail
           q == Packet(IF last THEN "FIN" ELSE "ACK", 1, s.rx, 1)
<1>1. Socket(u) /\ Typed(u)
  BY DataPacketGood DEF Good
<1>2. q \in Packets /\ q.flags \in {"ACK", "FIN"} /\ q.seq = 1 /\ q.len = 1 /\ q.ack = s.rx
  BY DEF Packet, Packets, Flags, Typed
<1>3. u.out = Append(s.out, q) /\ Same(s, u)
  <2>1. u.out = Append(s.out, q) /\ (HasSyn(u) => HasSyn(s))
    <3>1. u.out = Append(s.out, q)
      BY DEF SendDataPacket, Socket
    <3> HIDE DEF u, q
    <3> QED
      BY <1>2, <3>1, SynGrows
  <2> QED
    BY <2>1 DEF SendDataPacket, Socket, Same, Typed, HasSyn
<1>4. Fields(u, c)
  BY DEF SendDataPacket, Socket, Own, Fields, Opening, FinDue, Ended, FinStates, Typed
<1>5. PacketOwn(u, c, q)
  <2> HIDE DEF u, q
  <2>1. s.rx \in Nat /\ u.high \in Nat /\ s.high \in Nat
    BY <1>1 DEF Typed
  <2> QED
    BY <1>2, <1>3, <2>1 DEF PacketOwn, Same
<1> HIDE DEF u, q
<1>6. Sent(u, c) /\ Ordered(u)
  BY <1>1, <1>2, <1>3, <1>5, OutGrows DEF Same, Own, Ended
<1> QED
  BY <1>3, <1>4, <1>6 DEF Own, u

LEMMA PendingDataOwn ==
    ASSUME NEW s, NEW c \in BOOLEAN, Good(s), Own(s, c), s.high >= 1
    PROVE  Own(SendPendingData(s), c) /\ Same(s, SendPendingData(s))
<1>1. CASE s.bound /\ Size(s) > 0 /\ Unsent(s) > 0
  <2>1. s.head = 1 /\ s.next = 1
    BY <1>1 DEF Size, Unsent, Good, Own, Fields, Typed
  <2> QED
    BY <1>1, <2>1, DataPacketOwn DEF SendPendingData, Good
<1>2. CASE ~(s.bound /\ Size(s) > 0 /\ Unsent(s) > 0)
  BY <1>2, SameItself DEF SendPendingData, Good
<1> QED
  BY <1>1, <1>2

LEMMA TimeWaitOwn ==
    ASSUME NEW s, NEW c \in BOOLEAN, Good(s), Own(s, c), s.state \in FinStates
    PROVE  Own(TimeWait(s), c) /\ Same(s, TimeWait(s))
<1> DEFINE u == TimeWait(s)
<1>1. Typed(u)
  BY TimeWaitGood DEF Good
<1>2. u.out = s.out /\ Same(s, u)
  BY DEF TimeWait, Socket, Same, Typed, Good, HasSyn
<1>3. Fields(u, c)
  BY DEF TimeWait, Socket, Own, Fields, Opening, FinDue, Ended, FinStates, Good
<1> HIDE DEF u
<1>4. Sent(u, c) /\ Ordered(u)
  BY <1>1, <1>2, OutSame DEF Good
<1> QED
  BY <1>2, <1>3, <1>4 DEF Own, u

\* A change of state alone.
LEMMA StateOwn ==
    ASSUME NEW s, NEW c \in BOOLEAN, Socket(s), Typed(s), Own(s, c), NEW x \in States,
           x \notin {"SYN_SENT", "SYN_RCVD"}, s.high >= 1, x \in FinStates => FinDue(s, c)
    PROVE  /\ Own([s EXCEPT !.state = x], c) /\ Same(s, [s EXCEPT !.state = x])
           /\ Socket([s EXCEPT !.state = x]) /\ Typed([s EXCEPT !.state = x])
<1> DEFINE u == [s EXCEPT !.state = x]
<1>1. Socket(u) /\ Typed(u) /\ Same(s, u) /\ u.out = s.out
  BY DEF Socket, Typed, Same, HasSyn
<1>2. Fields(u, c)
  BY DEF Socket, Own, Fields, Opening, FinDue, Ended, FinStates, Typed
<1> HIDE DEF u
<1>3. Sent(u, c) /\ Ordered(u)
  BY <1>1, OutSame
<1> QED
  BY <1>1, <1>2, <1>3 DEF Own, u

\* Close sends its FIN after the data.
LEMMA DoCloseOwn ==
    ASSUME NEW s, NEW c \in BOOLEAN, Good(s), Own(s, c), c \/ Ended(s), ~(Unsent(s) > 0),
           s.state # "SYN_RCVD"
    PROVE  Own(DoClose(s), c) /\ Same(s, DoClose(s))
<1>1. CASE s.state \in {"ESTABLISHED", "CLOSE_WAIT"}
  <2> DEFINE t == SendEmptyPacket(s, "FIN")
             x == IF s.state = "ESTABLISHED" THEN "FIN_WAIT_1" ELSE "LAST_ACK"
  <2>1. s.high >= 1
    BY <1>1 DEF Good, Typed, Own, Fields, Opening
  <2>2. FinDue(s, c)
    BY <2>1 DEF FinDue, Unsent, Good, Typed, Own, Fields
  <2>3. Good(t) /\ Own(t, c) /\ Same(s, t) /\ t.next = s.next
    BY <2>1, <2>2, EmptyPacketGood, EmptyPacketOwn DEF Good, Flags, MayEmit
  <2>4. DoClose(s) = [t EXCEPT !.state = x]
    BY <1>1 DEF DoClose
  <2> HIDE DEF t
  <2>5. t.high >= 1 /\ FinDue(t, c)
    BY <2>1, <2>2, <2>3 DEF FinDue, Same, Good, Typed, Ended
  <2>6. x \in States /\ x \in FinStates /\ x \notin {"SYN_SENT", "SYN_RCVD"}
    BY DEF States, FinStates
  <2> HIDE DEF x
  <2>7. Own([t EXCEPT !.state = x], c) /\ Same(t, [t EXCEPT !.state = x])
        /\ Typed([t EXCEPT !.state = x])
    BY <2>3, <2>5, <2>6, StateOwn DEF Good
  <2> QED
    BY <2>3, <2>4, <2>7, SameTrans DEF Good
<1>2. CASE s.state \in {"SYN_SENT", "CLOSING"}
  <2> DEFINE t == SendRST(s)
  <2>1. Good(t) /\ Own(t, c) /\ Same(s, t)
    BY RstGood, RstOwn
  <2>2. DoClose(s) = CloseAndNotify(t)
    BY <1>2 DEF DoClose
  <2> HIDE DEF t
  <2>3. Own(CloseAndNotify(t), c) /\ Same(t, CloseAndNotify(t)) /\ Typed(CloseAndNotify(t))
    BY <2>1, CloseOwn, CloseGood DEF Good
  <2> QED
    BY <2>1, <2>2, <2>3, SameTrans DEF Good
<1>3. CASE s.state \notin {"ESTABLISHED", "CLOSE_WAIT", "SYN_SENT", "CLOSING", "SYN_RCVD"}
  <2>1. DoClose(s) = s
    BY <1>3 DEF DoClose
  <2> QED
    BY <2>1, SameItself DEF Good
<1> QED
  BY <1>1, <1>2, <1>3

LEMMA CloseSocketOwn ==
    ASSUME NEW s, NEW c \in BOOLEAN, Good(s), Own(s, c), c \/ Ended(s), s.state # "SYN_RCVD"
    PROVE  Own(CloseSocket(s), c) /\ Same(s, CloseSocket(s))
<1> DEFINE u == [s EXCEPT !.closeOnEmpty = TRUE]
<1>1. Typed(u) /\ u.out = s.out /\ Same(s, u)
  BY DEF Good, Socket, Typed, Same, HasSyn
<1>2. Fields(u, c)
  BY DEF Good, Socket, Own, Fields, Opening, FinDue, Ended, FinStates
<1> HIDE DEF u
<1>3. Own(u, c)
  BY <1>1, <1>2, OutSame DEF Own, Good
<1>4. CASE s.unread
  BY <1>4, RstOwn DEF CloseSocket
<1>5. CASE ~s.unread /\ Unsent(s) > 0
  BY <1>1, <1>3, <1>5 DEF CloseSocket, u
<1>6. CASE ~s.unread /\ ~(Unsent(s) > 0)
  BY <1>6, DoCloseOwn DEF CloseSocket
<1> QED
  BY <1>4, <1>5, <1>6

----------------------------------------------------------------------------
(* Receiving.  What arrives is what a socket may send, and what a handler   *)
(* makes of it shows in what it leaves.                                     *)

\* What can be said of a packet without its sender.
Proper(p) ==
    /\ p \in Packets
    /\ p.len = 1 => p.seq = 1
    /\ p.flags = "FIN" /\ p.len = 0 => p.seq >= 1
    /\ p.flags \in {"SYN", "SYNACK"} => p.seq = 0 /\ p.len = 0
    /\ p.flags = "RST" => p.len = 0

\* A FIN in front of which there is no data.
BareFin(p) == p.flags = "FIN" /\ p.len = 0 /\ p.seq = 1

\* What a handler of the packet p leaves of s in the u it makes of it: past
\* the first sequence number there is data or such a FIN, and what is
\* acknowledged is what p acknowledges.
Takes(s, u, p) ==
    /\ u.wrote = s.wrote /\ u.closed = s.closed /\ u.shutdownSend = s.shutdownSend
    /\ s.got => u.got
    /\ p.len = 0 => u.got = s.got
    /\ s.rx <= u.rx /\ s.high <= u.high
    /\ u.rx >= 2 => s.rx >= 2 \/ u.got \/ BareFin(p)
    /\ u.head >= 2 => s.head >= 2 \/ p.ack >= 2
    /\ u.bound => s.bound
    /\ u.state \in {"SYN_SENT", "SYN_RCVD"} => u.state = s.state
    /\ HasSyn(u) => s.high = 0 \/ HasSyn(s)

LEMMA SameTakes ==
    ASSUME NEW s, NEW u, NEW p, Typed(s), Typed(u), Same(s, u)
    PROVE  Takes(s, u, p)
BY DEF Same, Takes, Typed

LEMMA TakesTrans ==
    ASSUME NEW s, NEW t, NEW u, NEW p, Typed(s), Typed(t), Typed(u),
           Takes(s, t, p), Takes(t, u, p)
    PROVE  Takes(s, u, p)
<1>1. s.high <= u.high /\ s.rx <= u.rx /\ (t.high = 0 => s.high = 0)
  <2>1. /\ s.high \in Nat /\ t.high \in Nat /\ u.high \in Nat
        /\ s.rx \in Nat /\ t.rx \in Nat /\ u.rx \in Nat
    BY DEF Typed
  <2>2. s.high <= t.high /\ t.high <= u.high /\ s.rx <= t.rx /\ t.rx <= u.rx
    BY DEF Takes
  <2> QED
    BY <2>1, <2>2
<1> QED
  BY <1>1, Zenon DEF Takes

LEMMA TakesSame ==
    ASSUME NEW s, NEW t, NEW u, NEW p, Typed(s), Typed(t), Typed(u),
           Takes(s, t, p), Same(t, u)
    PROVE  Takes(s, u, p)
BY SameTakes, TakesTrans

LEMMA OutTakes ==
    ASSUME NEW s, NEW u, NEW p, Typed(s), Typed(u), Own(s, FALSE), Takes(s, u, p),
           u.out = s.out
    PROVE  Sent(u, FALSE) /\ Ordered(u)
<1>1. s.rx <= u.rx /\ s.high <= u.high
  BY DEF Takes, Typed
<1>2. u.wrote = s.wrote /\ (FALSE \/ Ended(s) => FALSE \/ Ended(u))
  BY Zenon DEF Takes, Ended
<1>3. Sent(s, FALSE) /\ Ordered(s) /\ FALSE \in BOOLEAN
  BY DEF Own
<1> QED
  BY <1>1, <1>2, <1>3, OutKept, ZenonT(60)

\* SetFinSequence, with a FIN that is alone or goes with its data.
LEMMA SetFinOwn ==
    ASSUME NEW s, Good(s), Own(s, FALSE), s.high >= 1, NEW p, Proper(p),
           NEW seq \in Nat, seq = p.seq + p.len \/ s.rx # 1 \/ s.got, p.flags = "FIN"
    PROVE  Own(SetFinSequence(s, seq), FALSE) /\ Takes(s, SetFinSequence(s, seq), p)
<1> DEFINE u == SetFinSequence(s, seq)
<1>1. Typed(u)
  BY SetFinGood DEF Good
<1>2. p.seq \in Nat /\ p.len \in 0 .. 1 /\ s.rx \in Nat
  BY DEF Proper, Packets, Good, Typed
<1>3. /\ u.out = s.out /\ u.wrote = s.wrote /\ u.closed = s.closed
      /\ u.shutdownSend = s.shutdownSend /\ u.got = s.got /\ u.high = s.high
      /\ u.head = s.head /\ u.bound = s.bound /\ u.state = s.state
      /\ u.rx = (IF s.rx = seq THEN s.rx + 1 ELSE s.rx)
  BY DEF SetFinSequence, Good, Socket
<1>4. Fields(u, FALSE)
  BY DEF SetFinSequence, Good, Socket, Own, Fields, FinDue, Ended, FinStates, Typed
<1> HIDE DEF u
<1>5. u.rx >= 2 => s.rx >= 2 \/ u.got \/ BareFin(p)
  BY <1>2, <1>3 DEF Proper, BareFin
<1>6. s.rx <= u.rx /\ s.high <= u.high
  BY <1>2, <1>3 DEF Good, Typed
<1>7. Takes(s, u, p)
  <2>1. HasSyn(u) => HasSyn(s)
    BY <1>3 DEF HasSyn
  <2> QED
    BY <1>3, <1>5, <1>6, <2>1, Zenon DEF Takes
<1>8. Sent(u, FALSE) /\ Ordered(u)
  BY <1>1, <1>3, <1>7, OutTakes DEF Good
<1> QED
  BY <1>4, <1>7, <1>8 DEF Own, u

\* DoPeerClose: its FIN follows its data.
LEMMA DoPeerCloseOwn ==
    ASSUME NEW s, Socket(s), Typed(s), Own(s, FALSE), s.high >= 1
    PROVE  /\ Own(DoPeerClose(s), FALSE) /\ Same(s, DoPeerClose(s))
           /\ DoPeerClose(s).state \notin {"SYN_SENT", "SYN_RCVD"}
<1> DEFINE t == [s EXCEPT !.state = "CLOSE_WAIT"]
           u == IF s.shutdownSend THEN CloseSocket(t) ELSE SendEmptyPacket(t, "ACK")
           r == [u EXCEPT !.dataRetrCount = DataRetries, !.lastAck = TRUE]
<1>1. Socket(t) /\ Typed(t) /\ Own(t, FALSE) /\ Same(s, t)
  BY StateOwn DEF States, FinStates
<1>2. Good(t) /\ t.state = "CLOSE_WAIT" /\ t.shutdownSend = s.shutdownSend /\ t.high >= 1
  BY <1>1 DEF Good, Guarded, Socket
<1> HIDE DEF t
<1>3. Good(u)
  BY <1>2, CloseSocketGood, EmptyPacketGood DEF Good, Flags
<1>4. ASSUME s.shutdownSend PROVE Own(u, FALSE) /\ Same(t, u)
  BY <1>1, <1>2, <1>4, CloseSocketOwn DEF Ended
<1>5. ASSUME ~s.shutdownSend PROVE Own(u, FALSE) /\ Same(t, u)
  BY <1>1, <1>2, <1>5, EmptyPacketOwn DEF Good, MayEmit, Flags
<1>6. Own(u, FALSE) /\ Same(t, u)
  BY <1>4, <1>5
<1> HIDE DEF u
<1>7. Same(s, u) /\ u.state \notin {"SYN_SENT", "SYN_RCVD"}
  BY <1>1, <1>2, <1>3, <1>6, SameTrans DEF Good, Same
<1>8. CASE u.state = "LAST_ACK"
  <2>1. DataRetries \in 0 .. DataRetries
    BY ConnectionAssumption
  <2>2. Typed(r) /\ Same(u, r) /\ r.out = u.out /\ r.state = u.state
    BY <1>3, <2>1 DEF Good, Socket, Typed, Same, HasSyn
  <2>3. Fields(r, FALSE)
    BY <1>3, <1>6, <1>8 DEF Good, Socket, Own, Fields, Opening, FinDue, Ended, FinStates
  <2> HIDE DEF r
  <2>4. Own(r, FALSE)
    BY <1>3, <1>6, <2>2, <2>3, OutSame DEF Own, Good
  <2>5. DoPeerClose(s) = r
    BY <1>8 DEF DoPeerClose, r, u, t
  <2> QED
    BY <1>3, <1>7, <2>2, <2>4, <2>5, SameTrans DEF Good
<1>9. CASE u.state # "LAST_ACK"
  BY <1>6, <1>7, <1>9 DEF DoPeerClose, u, t
<1> QED
  BY <1>8, <1>9

LEMMA AddOwn ==
    ASSUME NEW s, Good(s), Own(s, FALSE), s.high >= 1, NEW p, Proper(p), p.len = 1
    PROVE  /\ Own(Add(s, p), FALSE) /\ Takes(s, Add(s, p), p)
           /\ Add(s, p).fin = s.fin
           /\ Add(s, p).high = s.high /\ Add(s, p).state = s.state
           /\ 2 <= s.rx \/ Add(s, p).got
<1> DEFINE u == Add(s, p)
<1>1. p \in Packets /\ p.seq = 1
  BY DEF Proper
<1>2. CASE 2 <= s.rx
  <2>1. u = s
    BY <1>1, <1>2 DEF Add
  <2> QED
    BY <1>2, <2>1, SameItself, SameTakes DEF Good
<1>3. CASE ~(2 <= s.rx)
  <2> DEFINE v == IF s.fin = 2 THEN 3 ELSE 2
             r == [s EXCEPT !.rx = v, !.got = TRUE, !.unread = s.slow]
  <2>1. u = r
    BY <1>1, <1>3 DEF Add
  <2>2. v \in Nat /\ v >= 2
    OBVIOUS
  <2>3. s.rx \in Nat /\ s.rx <= v
    BY <1>3, <2>2 DEF Good, Typed
  <2>4. Typed(u)
    BY <1>1, AddGood DEF Good
  <2> HIDE DEF v, u
  <2>5. Takes(s, r, p) /\ r.out = s.out
    BY <2>2, <2>3 DEF Takes, Good, Socket, Typed, HasSyn
  <2>6. Fields(r, FALSE)
    BY DEF Good, Socket, Own, Fields, FinDue, Ended, FinStates, Typed
  <2>7. Sent(r, FALSE) /\ Ordered(r)
    <3> HIDE DEF r
    <3> QED
      BY <2>1, <2>4, <2>5, OutTakes DEF Good
  <2>8. r.fin = s.fin /\ r.high = s.high /\ r.state = s.state /\ r.got
    BY DEF Good, Socket
  <2> HIDE DEF r
  <2> QED
    BY <2>1, <2>5, <2>6, <2>7, <2>8 DEF Own, u
<1> QED
  BY <1>2, <1>3

LEMMA ReceivedDataOwn ==
    ASSUME NEW s, Good(s), Own(s, FALSE), s.high >= 1, NEW p, Proper(p), p.len = 1
    PROVE  /\ Own(ReceivedData(s, p), FALSE) /\ Takes(s, ReceivedData(s, p), p)
           /\ 2 <= s.rx \/ ReceivedData(s, p).got
           /\ p.flags = "FIN" => /\ ReceivedData(s, p).fin = s.fin
                                 /\ ReceivedData(s, p).rx = Add(s, p).rx
<1> DEFINE t == Add(s, p)
           u == ReceivedData(s, p)
<1>1. p \in Packets /\ p.seq = 1
  BY DEF Proper
<1>2. Good(t) /\ Own(t, FALSE) /\ Takes(s, t, p) /\ t.fin = s.fin /\ t.high >= 1
      /\ (2 <= s.rx \/ t.got) /\ t.delAck = s.delAck
  BY <1>1, AddGood, AddOwn
<1>3. ASSUME 2 <= s.rx PROVE t = s
  BY <1>1, <1>3 DEF Add
<1>4. Good(u)
  BY <1>1, ReceivedDataGood
<1> HIDE DEF t
<1>5. ASSUME NEW v, Typed(v), Own(v, FALSE), Same(t, v), u = v
      PROVE  /\ Own(u, FALSE) /\ Takes(s, u, p) /\ (2 <= s.rx \/ u.got)
             /\ u.fin = s.fin /\ u.rx = t.rx
  BY <1>2, <1>5, TakesSame DEF Good, Same
<1>6. Good(SendEmptyPacket(t, "ACK")) /\ Own(SendEmptyPacket(t, "ACK"), FALSE)
      /\ Same(t, SendEmptyPacket(t, "ACK"))
  BY <1>2, EmptyPacketGood, EmptyPacketOwn DEF Good, Flags, MayEmit
<1>7. CASE p.seq + p.len <= s.rx
  <2>1. t = s
    BY <1>1, <1>3, <1>7
  <2>2. u = SendEmptyPacket(s, "ACK")
    <3>1. ~(p.seq + p.len > s.rx)
      BY <1>1, <1>7 DEF Packets, Good, Typed
    <3> QED
      BY <1>7, <3>1 DEF ReceivedData
  <2> QED
    <3>1. u = SendEmptyPacket(t, "ACK")
      BY <2>1, <2>2
    <3> QED
      BY <1>5, <1>6, <3>1 DEF Good, t
<1>8. CASE p.seq + p.len > s.rx /\ Finished(t) /\ p.flags # "FIN"
  <2>1. u = DoPeerClose(t)
    BY <1>8 DEF ReceivedData, t
  <2>2. Own(DoPeerClose(t), FALSE) /\ Same(t, DoPeerClose(t)) /\ Typed(DoPeerClose(t))
    BY <1>2, DoPeerCloseOwn, DoPeerCloseGood DEF Good
  <2> QED
    BY <1>5, <1>8, <2>1, <2>2
<1>9. CASE ~(p.seq + p.len <= s.rx) /\ ~(p.seq + p.len > s.rx /\ Finished(t) /\ p.flags # "FIN")
  <2> DEFINE v == [t EXCEPT !.delAck = t.delAck + 1]
             b == t.rx > s.rx + p.len \/ s.delAck + 1 >= DelAckMax
  <2>1. u = IF b THEN SendEmptyPacket(t, "ACK") ELSE v
    BY <1>2, <1>9 DEF ReceivedData, t
  <2> HIDE DEF b
  <2>2. CASE b
    BY <1>5, <1>6, <2>1, <2>2 DEF Good, t
  <2>3. CASE ~b
    <3>1. u = v
      BY <2>1, <2>3
    <3>2. Same(t, v) /\ v.out = t.out
      BY <1>2 DEF Good, Socket, Same, Typed, HasSyn
    <3>3. Fields(v, FALSE)
      BY <1>2 DEF Good, Socket, Own, Fields, FinDue, Ended, FinStates, Typed
    <3>4. Typed(v)
      BY <1>4, <3>1 DEF Good
    <3> HIDE DEF v, u
    <3>5. Own(v, FALSE)
      BY <1>2, <3>2, <3>3, <3>4, OutSame DEF Own, Good
    <3> QED
      BY <1>5, <3>1, <3>2, <3>4, <3>5 DEF u, t
  <2> QED
    BY <2>2, <2>3
<1> QED
  BY <1>7, <1>8, <1>9

LEMMA PeerCloseOwn ==
    ASSUME NEW s, Good(s), Own(s, FALSE), s.high >= 1, NEW p, Proper(p), p.flags = "FIN"
    PROVE  /\ Own(PeerClose(s, p), FALSE) /\ Takes(s, PeerClose(s, p), p)
           /\ s.rx = p.seq => PeerClose(s, p).state \notin {"SYN_SENT", "SYN_RCVD"}
<1> DEFINE n == p.seq + p.len
           t == SetFinSequence(s, n)
           u == IF p.len > 0 THEN ReceivedData(t, p) ELSE t
           r == PeerClose(s, p)
<1>1. p \in Packets /\ p.len \in 0 .. 1 /\ p.seq \in Nat /\ n \in Nat
  BY DEF Proper, Packets
<1>2. CASE p.seq < s.rx
  <2>1. r = s
    BY <1>2 DEF PeerClose
  <2>2. s.rx # p.seq
    BY <1>1, <1>2 DEF Good, Typed
  <2> QED
    BY <2>1, <2>2, SameItself, SameTakes DEF Good
<1>3. CASE ~(p.seq < s.rx)
  <2>1. Good(t) /\ Own(t, FALSE) /\ Takes(s, t, p) /\ t.high >= 1 /\ t.fin = n
        /\ t.rx = (IF s.rx = n THEN n + 1 ELSE s.rx) /\ t.state = s.state
    <3> HIDE DEF t
    <3>1. n = p.seq + p.len
      OBVIOUS
    <3>2. Good(t) /\ Own(t, FALSE) /\ Takes(s, t, p)
      <4> HIDE DEF n
      <4> QED
        BY <1>1, <3>1, SetFinGood, SetFinOwn DEF t
    <3>3. t.high = s.high /\ t.fin = n /\ t.state = s.state
          /\ t.rx = (IF s.rx = n THEN n + 1 ELSE s.rx)
      <4> HIDE DEF n
      <4> QED
        BY DEF t, SetFinSequence, Good, Socket
    <3> QED
      BY <3>2, <3>3
  <2> HIDE DEF t
  <2>2. Good(u) /\ Own(u, FALSE) /\ Takes(s, u, p) /\ u.high >= 1
    <3>1. CASE p.len > 0
      <4>1. p.len = 1
        BY <1>1, <3>1
      <4>2. Good(u) /\ Own(u, FALSE) /\ Takes(t, u, p)
        BY <1>1, <2>1, <3>1, <4>1, ReceivedDataGood, ReceivedDataOwn
      <4> HIDE DEF u
      <4>3. Takes(s, u, p)
        BY <2>1, <4>2, TakesTrans DEF Good
      <4>4. u.high >= 1
        BY <2>1, <4>2 DEF Good, Typed, Takes
      <4> QED
        BY <4>2, <4>3, <4>4
    <3>2. CASE ~(p.len > 0)
      BY <2>1, <3>2
    <3> QED
      BY <3>1, <3>2
  <2>3. s.rx = p.seq => Finished(u)
    <3> SUFFICES ASSUME s.rx = p.seq PROVE Finished(u)
      OBVIOUS
    <3>1. CASE p.len = 1
      <4>1. p.seq = 1 /\ n = 2
        BY <3>1 DEF Proper
      <4>2. t.fin = 2 /\ t.rx = 1
        BY <2>1, <4>1 DEF Good, Typed
      <4>3. Add(t, p).rx = 3
        BY <2>1, <3>1, <4>1, <4>2 DEF Add, Good, Socket
      <4>4. u = ReceivedData(t, p)
        BY <3>1
      <4> HIDE DEF u
      <4>5. u.fin = 2 /\ u.rx = 3
        BY <2>1, <3>1, <4>2, <4>3, <4>4, ReceivedDataOwn
      <4> QED
        BY <4>5 DEF Finished
    <3>2. CASE p.len = 0
      <4>1. u = t /\ n = p.seq /\ p.seq >= 1
        BY <1>1, <3>2 DEF Proper
      <4> QED
        BY <1>1, <2>1, <4>1 DEF Finished
    <3> QED
      BY <1>1, <3>1, <3>2
  <2> HIDE DEF u
  <2>4. r = CASE ~Finished(u) -> u
              [] Finished(u) /\ u.state = "FIN_WAIT_1" -> [u EXCEPT !.state = "CLOSING"]
              [] OTHER -> DoPeerClose(u)
    BY <1>3 DEF PeerClose, u, t, n
  <2> HIDE DEF r
  <2>5. CASE ~Finished(u)
    <3>1. r = u
      BY <2>4, <2>5
    <3> QED
      BY <2>2, <2>3, <2>5, <3>1 DEF r
  <2>6. CASE Finished(u) /\ u.state = "FIN_WAIT_1"
    <3> DEFINE v == [u EXCEPT !.state = "CLOSING"]
    <3>1. FinDue(u, FALSE)
      BY <2>2, <2>6 DEF Own, Fields, FinStates
    <3>2. Own(v, FALSE) /\ Same(u, v) /\ Typed(v) /\ v.state = "CLOSING"
      BY <2>2, <3>1, StateOwn DEF Good, States, FinStates, Socket
    <3>3. r = v
      BY <2>4, <2>6
    <3> HIDE DEF v
    <3>4. Own(r, FALSE) /\ Takes(s, r, p) /\ r.state = "CLOSING"
      BY <2>2, <3>2, <3>3, TakesSame DEF Good
    <3> QED
      BY <3>4 DEF r
  <2>7. CASE Finished(u) /\ u.state # "FIN_WAIT_1"
    <3>1. r = DoPeerClose(u)
      BY <2>4, <2>7
    <3>2. Own(r, FALSE) /\ Same(u, r) /\ Typed(r) /\ r.state \notin {"SYN_SENT", "SYN_RCVD"}
      BY <2>2, <3>1, DoPeerCloseOwn, DoPeerCloseGood DEF Good
    <3> QED
      BY <2>2, <3>2, TakesSame DEF Good, r
  <2> QED
    BY <2>5, <2>6, <2>7
<1> QED
  BY <1>2, <1>3

LEMMA ProcessAckOwn ==
    ASSUME NEW s, Good(s), Own(s, FALSE), s.high >= 1, NEW p, Proper(p)
    PROVE  Own(ProcessAck(s, p.ack), FALSE) /\ Takes(s, ProcessAck(s, p.ack), p)
<1> DEFINE ack == p.ack
           t == DiscardUpTo(s, ack)
           u == NewAck(t, ack)
           v == [s EXCEPT !.next = ack]
           r == ProcessAck(s, ack)
<1>1. ack \in Nat
  BY DEF Proper, Packets
<1>2. Good(r)
  BY <1>1, ProcessAckGood
<1> HIDE DEF ack
<1>3. CASE ack > s.head
  <2>1. r = u
    <3>1. ~(ack = s.head)
      BY <1>1, <1>3 DEF Good, Typed
    <3> QED
      BY <1>3, <3>1 DEF ProcessAck
  <2>2. /\ t.out = s.out /\ t.head = ack /\ t.tail = (IF ack > s.tail THEN ack ELSE s.tail)
        /\ t.next = s.next /\ t.high = s.high /\ t.wrote = s.wrote /\ t.closed = s.closed
        /\ t.shutdownSend = s.shutdownSend /\ t.rx = s.rx /\ t.got = s.got
        /\ t.state = s.state /\ t.bound = s.bound /\ t.closeOnEmpty = s.closeOnEmpty
        /\ Socket(t)
    BY DEF DiscardUpTo, Good, Socket
  <2> HIDE DEF t
  <2>3. /\ u.out = t.out /\ u.head = t.head /\ u.tail = t.tail /\ u.high = t.high
        /\ u.next = (IF ack > t.next THEN ack ELSE t.next)
        /\ u.wrote = t.wrote /\ u.closed = t.closed
        /\ u.shutdownSend = t.shutdownSend /\ u.rx = t.rx /\ u.got = t.got
        /\ u.state = t.state /\ u.bound = t.bound /\ u.closeOnEmpty = t.closeOnEmpty
        /\ u.retx \in {"none", "DATA"}
    BY <2>2 DEF NewAck, Socket
  <2> HIDE DEF u
  <2>4. ack >= 2 /\ u.head = u.tail
    BY <1>1, <1>3, <2>2, <2>3 DEF Good, Typed, Own, Fields
  <2>5. u.next >= u.head /\ (s.next >= 2 => u.next >= 2) /\ (s.wrote => u.tail >= 2)
    BY <1>1, <1>3, <2>2, <2>3, <2>4 DEF Good, Typed
  <2>6. Fields(u, FALSE)
    BY <1>1, <2>2, <2>3, <2>4, <2>5 DEF Own, Fields, FinDue, Ended
  <2>7. Takes(s, u, p)
    <3>1. HasSyn(u) => HasSyn(s)
      BY <2>2, <2>3 DEF HasSyn
    <3> QED
      BY <2>2, <2>3, <2>4, <3>1, <1>1 DEF Takes, Good, Typed, ack
  <2>8. Sent(u, FALSE) /\ Ordered(u)
    BY <1>2, <2>1, <2>2, <2>3, <2>7, OutTakes DEF Good
  <2> QED
    BY <2>1, <2>6, <2>7, <2>8 DEF Own, ack
<1>4. CASE ~(ack > s.head) /\ ack = s.head /\ ack > s.high
  <2>1. r = v
    BY <1>4 DEF ProcessAck
  <2>2. ack >= 2 /\ s.head >= 2
    BY <1>1, <1>4 DEF Good, Typed
  <2>3. Fields(v, FALSE)
    BY <1>1, <1>4, <2>2 DEF Good, Socket, Own, Fields, FinDue, Ended, Typed
  <2>4. Same(s, v) /\ v.out = s.out
    BY DEF Good, Socket, Same, Typed, HasSyn
  <2> HIDE DEF v
  <2>5. Own(v, FALSE) /\ Takes(s, v, p)
    BY <1>2, <2>1, <2>3, <2>4, OutSame, SameTakes DEF Own, Good
  <2> QED
    BY <2>1, <2>5 DEF ack
<1>5. CASE ~(ack > s.head) /\ ~(ack = s.head /\ ack > s.high)
  <2>1. r = s
    BY <1>5 DEF ProcessAck
  <2> QED
    BY <2>1, SameItself, SameTakes DEF Good, ack
<1> QED
  BY <1>3, <1>4, <1>5

LEMMA ReceivedAckOwn ==
    ASSUME NEW s, Good(s), Own(s, FALSE), s.high >= 1, NEW p, Proper(p)
    PROVE  /\ Own(ReceivedAck(s, p), FALSE) /\ Takes(s, ReceivedAck(s, p), p)
           /\ p.len = 1 => 2 <= ReceivedAck(s, p).rx \/ ReceivedAck(s, p).got
<1> DEFINE t == ProcessAck(s, p.ack)
           u == IF p.len > 0 THEN ReceivedData(t, p) ELSE t
           r == ReceivedAck(s, p)
<1>1. p \in Packets /\ p.ack \in Nat /\ p.len \in 0 .. 1
  BY DEF Proper, Packets
<1>2. Good(t) /\ Own(t, FALSE) /\ Takes(s, t, p)
  BY <1>1, ProcessAckGood, ProcessAckOwn
<1> HIDE DEF t
<1>3. t.high >= 1
  BY <1>2 DEF Takes, Good, Typed
<1>4. Good(u) /\ Own(u, FALSE) /\ Takes(s, u, p) /\ u.high >= 1
      /\ (p.len = 1 => 2 <= u.rx \/ u.got)
  <2>1. CASE p.len > 0
    <3>1. p.len = 1
      BY <1>1, <2>1
    <3>2. Good(u) /\ Own(u, FALSE) /\ Takes(t, u, p) /\ (2 <= t.rx \/ u.got)
      BY <1>1, <1>2, <1>3, <2>1, <3>1, ReceivedDataGood, ReceivedDataOwn
    <3> HIDE DEF u
    <3>3. Takes(s, u, p)
      BY <1>2, <3>2, TakesTrans DEF Good
    <3>4. u.high >= 1 /\ (2 <= u.rx \/ u.got)
      BY <1>2, <1>3, <3>2, SMTT(30) DEF Good, Typed, Takes
    <3> QED
      BY <3>2, <3>3, <3>4
  <2>2. CASE ~(p.len > 0)
    <3>1. u = t /\ p.len # 1
      BY <1>1, <2>2
    <3> HIDE DEF u
    <3> QED
      BY <1>2, <1>3, <3>1
  <2> QED
    BY <2>1, <2>2
<1> HIDE DEF u
<1>5. Good(SendPendingData(u)) /\ Own(SendPendingData(u), FALSE) /\ Same(u, SendPendingData(u))
  BY <1>4, PendingDataGood, PendingDataOwn
<1>6. r = IF p.ack < s.head THEN u ELSE SendPendingData(u)
  BY DEF ReceivedAck, u, t
<1> HIDE DEF r
<1>7. CASE p.ack < s.head
  BY <1>4, <1>6, <1>7 DEF r
<1>8. CASE ~(p.ack < s.head)
  <2>1. r = SendPendingData(u)
    BY <1>6, <1>8
  <2> HIDE DEF r
  <2>2. Takes(s, r, p) /\ (p.len = 1 => 2 <= r.rx \/ r.got)
    BY <1>4, <1>5, <2>1, TakesSame DEF Good, Same
  <2> QED
    BY <1>5, <2>1, <2>2 DEF r
<1> QED
  BY <1>7, <1>8

----------------------------------------------------------------------------
(* A packet at a socket, by state                                           *)

\* What DoForwardUp makes of a socket stays connected if it was.
Handled(s, u, p) == Own(u, FALSE) /\ Takes(s, u, p)

LEMMA ResetOwn ==
    ASSUME NEW s, Good(s), Own(s, FALSE), NEW p
    PROVE  /\ Handled(s, s, p) /\ Handled(s, CloseAndNotify(s), p)
           /\ Handled(s, CloseAndNotify(SendRST(s)), p)
           /\ s.high >= 1 => Handled(s, SendEmptyPacket(s, "ACK"), p)
<1> DEFINE t == SendRST(s)
           a == SendEmptyPacket(s, "ACK")
<1>1. Good(CloseAndNotify(s)) /\ Own(CloseAndNotify(s), FALSE) /\ Same(s, CloseAndNotify(s))
  BY CloseGood, CloseOwn DEF Good
<1>2. Good(t) /\ Own(t, FALSE) /\ Same(s, t)
  BY RstGood, RstOwn
<1> HIDE DEF t
<1>3. Good(CloseAndNotify(t)) /\ Own(CloseAndNotify(t), FALSE) /\ Same(t, CloseAndNotify(t))
  BY <1>2, CloseGood, CloseOwn DEF Good
<1>4. Takes(s, t, p)
  BY <1>2, SameTakes DEF Good
<1>5. Handled(s, CloseAndNotify(t), p)
  BY <1>2, <1>3, <1>4, TakesSame DEF Good, Handled
<1>6. Handled(s, CloseAndNotify(s), p)
  BY <1>1, SameTakes DEF Good, Handled
<1>7. Handled(s, s, p)
  BY SameItself, SameTakes DEF Good, Handled
<1>8. ASSUME s.high >= 1 PROVE Handled(s, a, p)
  <2>1. Good(a) /\ Own(a, FALSE) /\ Same(s, a)
    BY <1>8, EmptyPacketGood, EmptyPacketOwn DEF Good, Flags, MayEmit
  <2> QED
    BY <2>1, SameTakes DEF Good, Handled
<1> QED
  BY <1>5, <1>6, <1>7, <1>8 DEF t

\* The end of a handshake; rx was set with the SYN.
LEMMA ConnectedOwn ==
    ASSUME NEW s, Good(s), Own(s, FALSE), s.high = 0
    PROVE  /\ Own(Connected(s), FALSE) /\ Same(s, Connected(s)) /\ Connected(s).high = 1
           /\ Connected(s).state = "ESTABLISHED"
<1> DEFINE u == Connected(s)
<1>1. Typed(u)
  BY ConnectedGood DEF Good
<1>2. s.next = 0
  BY DEF Own, Fields, Opening
<1>3. /\ u.out = s.out /\ u.high = 1 /\ u.next = 1 /\ u.state = "ESTABLISHED"
      /\ u.retx = "none" /\ u.head = s.head /\ u.tail = s.tail
      /\ u.wrote = s.wrote /\ u.closed = s.closed /\ u.shutdownSend = s.shutdownSend
      /\ u.got = s.got /\ u.rx = s.rx /\ u.fin = s.fin /\ u.bound = s.bound
      /\ u.closeOnEmpty = s.closeOnEmpty
  BY <1>2 DEF Connected, Good, Socket
<1> HIDE DEF u
<1>4. Same(s, u)
  BY <1>3 DEF Same
<1>5. Fields(u, FALSE)
  BY <1>3 DEF Own, Fields, Opening, FinDue, Ended, FinStates
<1>6. Sent(u, FALSE) /\ Ordered(u)
  BY <1>1, <1>3, <1>4, OutSame DEF Good
<1> QED
  BY <1>3, <1>4, <1>5, <1>6 DEF Own, u

\* The SYN of the peer sets the first sequence number.
LEMMA SynOwn ==
    ASSUME NEW s, Good(s), Own(s, FALSE), s.high = 0, NEW p, Proper(p),
           p.flags \in {"SYN", "SYNACK"}
    PROVE  LET u == [s EXCEPT !.rx = p.seq + 1]
           IN  Good(u) /\ Own(u, FALSE) /\ Takes(s, u, p) /\ u.high = 0 /\ u.state = s.state
<1> DEFINE u == [s EXCEPT !.rx = 1]
<1>1. [s EXCEPT !.rx = p.seq + 1] = u
  BY DEF Proper
<1>2. Good(u)
  BY DEF Good, Socket, Typed, Guarded
<1>3. s.rx <= 1 /\ u.rx = 1 /\ u.high = 0 /\ u.out = s.out /\ u.state = s.state
  BY DEF Good, Socket, Own, Fields, Opening
<1>4. Takes(s, u, p)
  BY <1>3 DEF Good, Socket, Takes, Typed, HasSyn
<1>5. Fields(u, FALSE)
  BY <1>3 DEF Good, Socket, Own, Fields, Opening, FinDue, Ended, FinStates
<1> HIDE DEF u
<1>6. Sent(u, FALSE) /\ Ordered(u)
  BY <1>2, <1>3, <1>4, OutTakes DEF Good
<1> QED
  BY <1>1, <1>2, <1>3, <1>4, <1>5, <1>6 DEF Own

LEMMA DelAckOwn ==
    ASSUME NEW s, Good(s), Own(s, FALSE), s.high >= 1
    PROVE  LET u == [s EXCEPT !.delAck = DelAckMax]
           IN  Good(u) /\ Own(u, FALSE) /\ Same(s, u)
<1> DEFINE u == [s EXCEPT !.delAck = DelAckMax]
<1>1. DelAckMax \in 0 .. DelAckMax
  BY ConnectionAssumption
<1>2. Good(u) /\ Same(s, u) /\ u.out = s.out
  BY <1>1 DEF Good, Socket, Typed, Guarded, Same, HasSyn
<1>3. Fields(u, FALSE)
  BY DEF Good, Socket, Own, Fields, FinDue, Ended, FinStates, Typed
<1> HIDE DEF u
<1>4. Sent(u, FALSE) /\ Ordered(u)
  BY <1>2, OutSame DEF Good
<1> QED
  BY <1>2, <1>3, <1>4 DEF Own, u

LEMMA SynSentOwn ==
    ASSUME NEW s, Good(s), Own(s, FALSE), s.state = "SYN_SENT", s.high = 0, NEW p, Proper(p)
    PROVE  LET u == ProcessSynSent(s, p)
           IN  Handled(s, u, p) /\ (u.state \in {"SYN_SENT", "SYN_RCVD"} => u.high = 0)
<1> DEFINE r == [s EXCEPT !.rx = p.seq + 1]
           c == Connected(r)
           a == SendEmptyPacket(c, "ACK")
           d == SendPendingData(a)
           v == [d EXCEPT !.delAck = DelAckMax]
           u == ProcessSynSent(s, p)
<1>1. CASE p.flags = "SYNACK" /\ p.ack = s.next + 1
  <2>1. Good(r) /\ Own(r, FALSE) /\ Takes(s, r, p) /\ r.high = 0
    BY <1>1, SynOwn
  <2>2. u = v
    BY <1>1 DEF ProcessSynSent
  <2> HIDE DEF r
  <2>3. Good(c) /\ Own(c, FALSE) /\ Same(r, c) /\ c.high = 1 /\ c.state = "ESTABLISHED"
    BY <2>1, ConnectedGood, ConnectedOwn
  <2> HIDE DEF c
  <2>4. Good(a) /\ Own(a, FALSE) /\ Same(c, a)
    <3>1. c.high >= 1
      BY <2>3
    <3> QED
      BY <2>3, <3>1, EmptyPacketGood, EmptyPacketOwn DEF Good, Flags, MayEmit
  <2>5. a.high >= 1
    BY <2>3, <2>4 DEF Same, Good, Typed
  <2> HIDE DEF a
  <2>6. Good(d) /\ Own(d, FALSE) /\ Same(a, d) /\ d.high >= 1
    <3>1. Good(d) /\ Own(d, FALSE) /\ Same(a, d)
      BY <2>4, <2>5, PendingDataGood, PendingDataOwn
    <3> HIDE DEF d
    <3>2. d.high >= 1
      BY <2>4, <2>5, <3>1 DEF Same, Good, Typed
    <3> QED
      BY <3>1, <3>2
  <2> HIDE DEF d
  <2>7. Good(v) /\ Own(v, FALSE) /\ Same(d, v)
    BY <2>6, DelAckOwn
  <2> HIDE DEF v
  <2>8. Takes(s, c, p)
    BY <2>1, <2>3, TakesSame DEF Good
  <2>9. Takes(s, a, p)
    BY <2>3, <2>4, <2>8, TakesSame DEF Good
  <2>10. Takes(s, d, p)
    BY <2>4, <2>6, <2>9, TakesSame DEF Good
  <2>11. Takes(s, v, p)
    BY <2>6, <2>7, <2>10, TakesSame DEF Good
  <2>12. v.state \notin {"SYN_SENT", "SYN_RCVD"}
    BY <2>3, <2>4, <2>6, <2>7 DEF Same
  <2> QED
    BY <2>2, <2>7, <2>11, <2>12 DEF Handled
<1>2. CASE ~(p.flags = "SYNACK" /\ p.ack = s.next + 1) /\ p.flags = "RST"
  <2>1. u = CloseAndNotify(s)
    BY <1>2 DEF ProcessSynSent
  <2>2. u.state = "CLOSED"
    BY <2>1 DEF CloseAndNotify, DeallocateEndPoint, Good, Socket
  <2> QED
    BY <2>1, <2>2, ResetOwn
<1>3. CASE ~(p.flags = "SYNACK" /\ p.ack = s.next + 1) /\ p.flags # "RST"
  <2>1. u = s
    BY <1>3 DEF ProcessSynSent
  <2> QED
    BY <2>1, ResetOwn
<1> QED
  BY <1>1, <1>2, <1>3

LEMMA SynRcvdOwn ==
    ASSUME NEW s, Good(s), Own(s, FALSE), s.state = "SYN_RCVD", s.high = 0, NEW p, Proper(p)
    PROVE  LET u == ProcessSynRcvd(s, p)
           IN  Handled(s, u, p) /\ (u.state \in {"SYN_SENT", "SYN_RCVD"} => u.high = 0)
<1> DEFINE c == Connected(s)
           u == ProcessSynRcvd(s, p)
<1>1. Good(c) /\ Own(c, FALSE) /\ Same(s, c) /\ c.high = 1 /\ c.state = "ESTABLISHED"
      /\ c.rx = s.rx
  BY ConnectedGood, ConnectedOwn DEF Same
<1>2. CASE p.flags = "ACK" /\ p.ack = s.next + 1
  <2> DEFINE d == [c EXCEPT !.delAck = DelAckMax]
  <2>1. u = ReceivedAck(d, p)
    BY <1>2 DEF ProcessSynRcvd
  <2> HIDE DEF c
  <2>2. Good(d) /\ Own(d, FALSE) /\ Same(c, d) /\ d.high >= 1 /\ d.state = "ESTABLISHED"
    <3>1. c.high >= 1
      BY <1>1
    <3>2. Good(d) /\ Own(d, FALSE) /\ Same(c, d)
      BY <1>1, <3>1, DelAckOwn
    <3>3. d.high = c.high /\ d.state = c.state
      BY <1>1 DEF Good, Socket
    <3> QED
      BY <1>1, <3>1, <3>2, <3>3
  <2> HIDE DEF d, u
  <2>3. p \in Packets
    BY DEF Proper
  <2>4. Good(u) /\ Own(u, FALSE) /\ Takes(d, u, p)
    BY <2>1, <2>2, <2>3, ReceivedAckGood, ReceivedAckOwn
  <2>5. Takes(s, d, p)
    BY <1>1, <2>2, SameTrans, SameTakes DEF Good
  <2>6. Takes(s, u, p)
    BY <2>2, <2>4, <2>5, TakesTrans DEF Good
  <2>7. u.state \notin {"SYN_SENT", "SYN_RCVD"}
    BY <2>2, <2>4 DEF Takes
  <2> QED
    BY <2>4, <2>6, <2>7 DEF Handled, u
<1>3. CASE p.flags = "SYN"
  <2> DEFINE r == [s EXCEPT !.rx = p.seq + 1]
  <2>1. u = SendEmptyPacket(r, "SYNACK")
    BY <1>3 DEF ProcessSynRcvd
  <2>2. Good(r) /\ Own(r, FALSE) /\ Takes(s, r, p) /\ r.high = 0
    BY <1>3, SynOwn
  <2> HIDE DEF r, u
  <2>3. Good(u) /\ Own(u, FALSE) /\ Same(r, u)
    BY <2>1, <2>2, EmptyPacketGood, EmptyPacketOwn DEF Good, Flags, MayEmit
  <2>4. Takes(s, u, p)
    BY <2>2, <2>3, TakesSame DEF Good
  <2>5. u.high = 0
    BY <2>1, <2>2 DEF SendEmptyPacket, Emit, CloseAndNotify, DeallocateEndPoint, Good, Socket
  <2> QED
    BY <1>3, <2>3, <2>4, <2>5 DEF Handled, u
<1>4. CASE p.flags = "FIN"
  <2> DEFINE d == [c EXCEPT !.state = "SYN_RCVD"]
  <2>1. u = IF p.seq = s.rx THEN PeerClose(d, p) ELSE s
    BY <1>4 DEF ProcessSynRcvd
  <2> HIDE DEF c
  <2>2. Good(d) /\ d.out = c.out /\ d.high = 1 /\ d.rx = s.rx /\ Takes(s, d, p)
    <3>1. d.out = c.out /\ d.high = 1 /\ d.rx = s.rx /\ Same(s, d)
      BY <1>1 DEF Good, Socket, Same, Typed, HasSyn
    <3>2. Good(d)
      BY <1>1 DEF Good, Socket, Typed, Guarded, States
    <3> HIDE DEF d
    <3> QED
      BY <3>1, <3>2, SameTakes DEF Good
  <2>3. Fields(d, FALSE)
    BY <1>1 DEF Good, Socket, Own, Fields, FinDue, Ended, FinStates
  <2>4. Sent(d, FALSE) /\ Ordered(d)
    <3>1. d.rx = c.rx /\ d.high = c.high /\ d.wrote = c.wrote /\ Ended(d) = Ended(c)
      BY <1>1 DEF Good, Socket, Ended
    <3> HIDE DEF d
    <3>2. c.rx <= d.rx /\ c.high <= d.high
      BY <1>1, <3>1 DEF Good, Typed
    <3> QED
      BY <1>1, <2>2, <3>1, <3>2, OutKept DEF Good, Own
  <2> HIDE DEF d, u
  <2>5. Own(d, FALSE)
    BY <2>3, <2>4 DEF Own
  <2>6. p \in Packets
    BY DEF Proper
  <2>7. CASE p.seq = s.rx
    <3>1. u = PeerClose(d, p)
      BY <2>1, <2>7
    <3>2. Good(u) /\ Own(u, FALSE) /\ Takes(d, u, p)
          /\ u.state \notin {"SYN_SENT", "SYN_RCVD"}
      <4>1. d.high >= 1 /\ d.rx = p.seq
        BY <2>2, <2>7
      <4> QED
        BY <1>4, <2>2, <2>5, <2>6, <3>1, <4>1, PeerCloseGood, PeerCloseOwn
    <3>3. Takes(s, u, p)
      BY <2>2, <3>2, TakesTrans DEF Good
    <3> QED
      BY <3>2, <3>3 DEF Handled, u
  <2>8. CASE p.seq # s.rx
    BY <2>1, <2>8, ResetOwn DEF u
  <2> QED
    BY <2>7, <2>8
<1>5. CASE p.flags \in {"RST", "SYNACK"} \/ (p.flags = "ACK" /\ p.ack # s.next + 1)
  <2>1. u = CloseAndNotify(s) \/ u = CloseAndNotify(SendRST(s))
    BY <1>5 DEF ProcessSynRcvd
  <2>2. Good(SendRST(s))
    BY RstGood
  <2>3. u.state = "CLOSED"
    BY <2>1, <2>2 DEF CloseAndNotify, DeallocateEndPoint, Good, Socket
  <2> QED
    BY <2>1, <2>3, ResetOwn
<1> QED
  BY <1>2, <1>3, <1>4, <1>5 DEF Proper, Packets, Flags

LEMMA EstablishedOwn ==
    ASSUME NEW s, Good(s), Own(s, FALSE), s.high >= 1, NEW p, Proper(p)
    PROVE  Handled(s, ProcessEstablished(s, p), p)
<1>1. p.flags = "FIN" => Handled(s, PeerClose(s, p), p)
  BY PeerCloseOwn DEF Handled
<1>2. Handled(s, ReceivedAck(s, p), p)
  BY ReceivedAckOwn DEF Handled
<1>3. /\ Handled(s, s, p) /\ Handled(s, CloseAndNotify(s), p)
      /\ Handled(s, SendEmptyPacket(s, "ACK"), p)
  BY ResetOwn
<1> QED
  BY <1>1, <1>2, <1>3 DEF ProcessEstablished

LEMMA WaitForFinOwn ==
    ASSUME NEW s, Good(s), Own(s, FALSE), s.high >= 1, NEW p, Proper(p)
    PROVE  Handled(s, WaitForFin(s, p), p)
<1> DEFINE t == ReceivedAck(s, p)
           f == SetFinSequence(t, p.seq)
           v == [t EXCEPT !.state = "FIN_WAIT_2"]
<1>1. p \in Packets /\ p.seq \in Nat /\ p.len \in 0 .. 1
  BY DEF Proper, Packets
<1>2. Good(t) /\ Own(t, FALSE) /\ Takes(s, t, p) /\ (p.len = 1 => 2 <= t.rx \/ t.got)
  BY <1>1, ReceivedAckGood, ReceivedAckOwn
<1> HIDE DEF t
<1>3. t.high >= 1
  BY <1>2 DEF Takes, Good, Typed
<1>4. p.flags = "FIN" => Handled(s, f, p)
  <2> SUFFICES ASSUME p.flags = "FIN" PROVE Handled(s, f, p)
    OBVIOUS
  <2>1. p.seq = p.seq + p.len \/ t.rx # 1 \/ t.got
    BY <1>1, <1>2 DEF Good, Typed
  <2>2. Own(f, FALSE) /\ Takes(t, f, p) /\ Good(f)
    BY <1>1, <1>2, <1>3, <2>1, SetFinOwn, SetFinGood
  <2> HIDE DEF f
  <2> QED
    BY <1>2, <2>2, TakesTrans DEF Good, Handled
<1>5. t.state = "FIN_WAIT_1" => Handled(s, v, p)
  <2> SUFFICES ASSUME t.state = "FIN_WAIT_1" PROVE Handled(s, v, p)
    OBVIOUS
  <2>1. FinDue(t, FALSE)
    BY <1>2 DEF Own, Fields, FinStates
  <2>2. Own(v, FALSE) /\ Same(t, v) /\ Typed(v)
    BY <1>2, <1>3, <2>1, StateOwn DEF Good, States
  <2> HIDE DEF v
  <2> QED
    BY <1>2, <2>2, TakesSame DEF Good, Handled
<1>6. Handled(s, t, p)
  BY <1>2 DEF Handled
<1> QED
  BY <1>4, <1>5, <1>6 DEF WaitForFin, FinWhileWaiting, t

LEMMA WaitOwn ==
    ASSUME NEW s, Good(s), Own(s, FALSE), s.high >= 1, NEW p, Proper(p)
    PROVE  Handled(s, ProcessWait(s, p), p)
<1> DEFINE t == WaitForFin(s, p)
           w == TimeWait(t)
           c == [t EXCEPT !.state = "CLOSING"]
<1>1. p \in Packets
  BY DEF Proper
<1>2. Good(t) /\ Own(t, FALSE) /\ Takes(s, t, p)
  BY <1>1, WaitForFinGood, WaitForFinOwn DEF Handled
<1> HIDE DEF t
<1>3. t.high >= 1
  BY <1>2 DEF Takes, Good, Typed
<1>4. ASSUME NEW v, Good(v), Own(v, FALSE), Same(t, v)
      PROVE  Handled(s, SendEmptyPacket(v, "ACK"), p)
  <2> DEFINE a == SendEmptyPacket(v, "ACK")
  <2>1. v.high >= 1
    BY <1>2, <1>3, <1>4 DEF Same, Good, Typed
  <2>2. Good(a) /\ Own(a, FALSE) /\ Same(v, a)
    BY <1>4, <2>1, EmptyPacketGood, EmptyPacketOwn DEF Good, Flags, MayEmit
  <2> HIDE DEF a
  <2>3. Takes(s, v, p)
    BY <1>2, <1>4, TakesSame DEF Good
  <2>4. Takes(s, a, p)
    BY <1>4, <2>2, <2>3, TakesSame DEF Good
  <2> QED
    BY <2>2, <2>4 DEF Handled, a
<1>5. t.state \in FinStates => Handled(s, SendEmptyPacket(w, "ACK"), p)
  <2> SUFFICES ASSUME t.state \in FinStates PROVE Handled(s, SendEmptyPacket(w, "ACK"), p)
    OBVIOUS
  <2>1. Good(w) /\ Own(w, FALSE) /\ Same(t, w)
    BY <1>2, TimeWaitGood, TimeWaitOwn
  <2> HIDE DEF w
  <2> QED
    BY <1>4, <2>1
<1>6. t.state = "FIN_WAIT_1" => Handled(s, SendEmptyPacket(c, "ACK"), p)
  <2> SUFFICES ASSUME t.state = "FIN_WAIT_1" PROVE Handled(s, SendEmptyPacket(c, "ACK"), p)
    OBVIOUS
  <2>1. FinDue(t, FALSE)
    BY <1>2 DEF Own, Fields, FinStates
  <2>2. Good(c)
    BY <1>2 DEF Good, Socket, Typed, Guarded, States
  <2>3. Own(c, FALSE) /\ Same(t, c)
    BY <1>2, <1>3, <2>1, StateOwn DEF Good, States
  <2> HIDE DEF c
  <2> QED
    BY <1>4, <2>2, <2>3
<1>7. Handled(s, t, p) /\ Handled(s, s, p) /\ Handled(s, CloseAndNotify(s), p)
  BY <1>2, ResetOwn DEF Handled
<1> HIDE DEF c, w
<1> QED
  BY <1>5, <1>6, <1>7 DEF ProcessWait, FinStates, t, w, c

LEMMA ClosingOwn ==
    ASSUME NEW s, Good(s), Own(s, FALSE), s.high >= 1, s.state \in {"CLOSING", "LAST_ACK"},
           NEW p, Proper(p)
    PROVE  Handled(s, ProcessClosing(s, p), p) /\ Handled(s, ProcessLastAck(s, p), p)
<1> DEFINE a == SendEmptyPacket(s, "ACK")
<1>1. /\ Handled(s, s, p) /\ Handled(s, CloseAndNotify(s), p)
      /\ Handled(s, CloseAndNotify(SendRST(s)), p)
  BY ResetOwn
<1>2. Good(TimeWait(s)) /\ Own(TimeWait(s), FALSE) /\ Same(s, TimeWait(s))
  BY TimeWaitGood, TimeWaitOwn DEF FinStates
<1>3. Handled(s, TimeWait(s), p)
  BY <1>2, SameTakes DEF Good, Handled
<1>4. Good(a) /\ Own(a, FALSE) /\ Same(s, a)
  BY EmptyPacketGood, EmptyPacketOwn DEF Good, Flags, MayEmit
<1> HIDE DEF a
<1>5. Good(CloseAndNotify(a)) /\ Own(CloseAndNotify(a), FALSE) /\ Same(a, CloseAndNotify(a))
  BY <1>4, CloseGood, CloseOwn DEF Good
<1>6. Takes(s, a, p)
  BY <1>4, SameTakes DEF Good
<1>7. Handled(s, CloseAndNotify(a), p)
  BY <1>4, <1>5, <1>6, TakesSame DEF Good, Handled
<1> QED
  BY <1>1, <1>3, <1>7 DEF ProcessClosing, ProcessLastAck, a

\* A socket in one of the states of the handshake has sent nothing else.
Opened(s) == s.state \in {"SYN_SENT", "SYN_RCVD"} => s.high = 0

LEMMA DoForwardUpOwn ==
    ASSUME NEW s, Good(s), Own(s, FALSE), Opened(s), NEW p, Proper(p)
    PROVE  Handled(s, DoForwardUp(s, p), p) /\ Opened(DoForwardUp(s, p))
<1> DEFINE u == DoForwardUp(s, p)
<1>1. CASE s.state = "SYN_SENT"
  <2>1. u = ProcessSynSent(s, p)
    BY <1>1 DEF DoForwardUp
  <2> QED
    BY <1>1, <2>1, SynSentOwn DEF Opened
<1>2. CASE s.state = "SYN_RCVD"
  <2>1. u = ProcessSynRcvd(s, p)
    BY <1>2 DEF DoForwardUp
  <2> QED
    BY <1>2, <2>1, SynRcvdOwn DEF Opened
<1>3. CASE s.state \notin {"SYN_SENT", "SYN_RCVD"}
  <2>1. Handled(s, u, p)
    <3>1. CASE s.state \in {"CLOSED", "TIME_WAIT"}
      BY <3>1, ResetOwn DEF DoForwardUp
    <3>2. CASE s.state \notin {"CLOSED", "TIME_WAIT"}
      <4>1. s.high >= 1
        BY <1>3, <3>2 DEF Own, Fields, Opening, Good, Typed
      <4>2. CASE s.state = "ESTABLISHED"
        BY <4>1, <4>2, EstablishedOwn DEF DoForwardUp
      <4>3. CASE s.state \in {"FIN_WAIT_1", "FIN_WAIT_2", "CLOSE_WAIT"}
        BY <4>1, <4>3, WaitOwn DEF DoForwardUp
      <4>4. CASE s.state \in {"CLOSING", "LAST_ACK"}
        BY <4>1, <4>4, ClosingOwn DEF DoForwardUp
      <4> QED
        BY <1>3, <3>2, <4>2, <4>3, <4>4 DEF Good, Typed, States
    <3> QED
      BY <3>1, <3>2
  <2>2. u.state \notin {"SYN_SENT", "SYN_RCVD"}
    <3> HIDE DEF u
    <3> QED
      BY <1>3, <2>1 DEF Handled, Takes
  <2> QED
    BY <2>1, <2>2 DEF Opened
<1> QED
  BY <1>1, <1>2, <1>3

\* Before a handshake is over only an ACK or a FIN ends it at the server.
LEMMA EmptyPacketHigh ==
    ASSUME NEW s, Socket(s), NEW f
    PROVE  SendEmptyPacket(s, f).high = s.high
BY DEF SendEmptyPacket, Emit, CloseAndNotify, DeallocateEndPoint, Socket

LEMMA DoForwardUpHigh ==
    ASSUME NEW s, Good(s), Own(s, FALSE), s.high = 0, s.state # "SYN_SENT",
           NEW p, Proper(p), p.flags \notin {"ACK", "FIN"}
    PROVE  DoForwardUp(s, p).high = 0
<1>1. CASE s.state = "SYN_RCVD"
  <2>1. DoForwardUp(s, p) = ProcessSynRcvd(s, p)
    BY <1>1 DEF DoForwardUp
  <2>2. CASE p.flags = "SYN"
    <3> DEFINE r == [s EXCEPT !.rx = p.seq + 1]
    <3>1. Good(r) /\ r.high = 0
      BY <2>2, SynOwn
    <3>2. ProcessSynRcvd(s, p) = SendEmptyPacket(r, "SYNACK")
      BY <2>2 DEF ProcessSynRcvd
    <3> HIDE DEF r
    <3> QED
      BY <2>1, <3>1, <3>2, EmptyPacketHigh DEF Good
  <2>3. CASE p.flags # "SYN"
    <3> DEFINE t == SendEmptyPacket(s, "RST")
    <3>1. ProcessSynRcvd(s, p) \in {CloseAndNotify(s), CloseAndNotify(SendRST(s))}
      BY <2>3 DEF ProcessSynRcvd
    <3>2. t.high = 0 /\ Good(t)
      BY EmptyPacketHigh, EmptyPacketGood DEF Good, Flags
    <3> HIDE DEF t
    <3>3. CloseAndNotify(s).high = 0
      BY DEF CloseAndNotify, DeallocateEndPoint, Good, Socket
    <3>4. CloseAndNotify(DeallocateEndPoint(t)).high = 0
      BY <3>2 DEF CloseAndNotify, DeallocateEndPoint, Good, Socket
    <3> QED
      BY <2>1, <3>1, <3>3, <3>4 DEF SendRST, t
  <2> QED
    BY <2>2, <2>3
<1>2. CASE s.state # "SYN_RCVD"
  <2>1. s.state = "CLOSED"
    BY <1>2 DEF Own, Fields, Opening
  <2> QED
    BY <2>1 DEF DoForwardUp
<1> QED
  BY <1>1, <1>2

----------------------------------------------------------------------------
(* Both ends.  The segment of an end is with the peer, or there is none and *)
(* there will be none, whenever the peer has gone past it or the end has    *)
(* had it acknowledged.  A fork of the listener that came after the first   *)
(* connection would start afresh; so none does, because only the first SYN  *)
(* of the client is followed by more.                                       *)

\* The client's SYN is not taken yet, or under way once more.
Early == forking \/ sock["client"].high = 0 \/ HasSyn(sock["client"])

Handshake ==
    /\ forking => ~sock["server"].bound
    /\ sock["server"].state # "SYN_SENT"
    /\ Early => /\ sock["server"].high = 0 /\ sock["client"].rx <= 1
                /\ sock["client"].head = 1 /\ ~sock["client"].got

\* The segment of s is at its peer q, or there is none.
Settled(s, q) == q.got \/ (Ended(s) /\ ~s.wrote)

Settlement ==
    \A e \in Ends :
        sock[Peer(e)].rx >= 2 \/ sock[e].head >= 2 => Settled(sock[e], sock[Peer(e)])

Delivery ==
    /\ \A e \in Ends : Own(sock[e], FALSE) /\ Opened(sock[e])
    /\ Handshake /\ Settlement

LEMMA InitDelivery == Init => Delivery
<1> SUFFICES ASSUME Init PROVE Delivery
  OBVIOUS
<1>1. \A e \in Ends : sock[e] = NewSocket(e)
  BY DEF Init
<1>2. \A e \in Ends : Own(sock[e], FALSE)
  BY <1>1, NewSocketOwn
<1>3. \A e \in Ends : /\ sock[e].high = 0 /\ sock[e].rx = 0 /\ sock[e].head = 1
                      /\ sock[e].got = FALSE /\ sock[e].state = "CLOSED"
  <2>1. ASSUME NEW e PROVE /\ NewSocket(e).high = 0 /\ NewSocket(e).rx = 0
                           /\ NewSocket(e).head = 1 /\ NewSocket(e).got = FALSE
                           /\ NewSocket(e).state = "CLOSED"
    BY DEF NewSocket
  <2> QED
    BY <1>1, <2>1
<1>4. Handshake
  BY <1>3 DEF Handshake, Ends, Init
<1>5. Settlement
  BY <1>3, PeerInEnds DEF Settlement
<1> QED
  BY <1>2, <1>3, <1>4, <1>5 DEF Delivery, Opened

\* What a step of one socket by itself leaves of it.
Kept(s, u) ==
    /\ Own(u, FALSE) /\ Opened(u)
    /\ u.got = s.got /\ u.rx = s.rx /\ u.head = s.head
    /\ s.high <= u.high /\ (s.high = 0 => u.high = 0)
    /\ Ended(s) /\ ~s.wrote => Ended(u) /\ ~u.wrote
    /\ HasSyn(u) => s.high = 0 \/ HasSyn(s)

LEMMA SameKept ==
    ASSUME NEW s, NEW u, Typed(s), Opened(s), Same(s, u), Own(u, FALSE), s.high = 0 => u.high = 0
    PROVE  Kept(s, u)
<1>1. s.high <= u.high
  BY DEF Same, Typed
<1> QED
  BY <1>1, Zenon DEF Same, Kept, Opened, Ended

LEMMA EndsArePeers ==
    ASSUME NEW e \in Ends
    PROVE  /\ Peer(e) \in Ends /\ Peer(e) # e /\ Peer(Peer(e)) = e
           /\ \A x \in Ends : x = e \/ x = Peer(e)
BY DEF Ends, Peer

\* A step of one socket by itself keeps what relates the two.
LEMMA LocalStep ==
    ASSUME AllGood, AllGood', Delivery, NEW e \in Ends, NEW u, Becomes(e, u), forking' = forking,
           Kept(sock[e], u),
           e = "server" => (u.bound => sock[e].bound) /\ u.state # "SYN_SENT"
    PROVE  Delivery'
<1> DEFINE x == Peer(e)
<1>1. x \in Ends /\ x # e /\ Peer(x) = e /\ \A y \in Ends : y = e \/ y = x
  BY EndsArePeers
<1>2. sock'[e] = u /\ sock'[x] = sock[x]
  BY <1>1 DEF Becomes, AllGood
<1>3. Typed(sock[e]) /\ Typed(u)
  BY <1>2 DEF AllGood, Good
<1> HIDE DEF x
<1>4. \A y \in Ends : Own(sock'[y], FALSE) /\ Opened(sock'[y])
  BY <1>1, <1>2, Zenon DEF Kept, Delivery
<1>5. Settlement'
  <2>1. ASSUME sock[x].rx >= 2 \/ u.head >= 2 PROVE Settled(u, sock[x])
    <3>1. Settled(sock[e], sock[x])
      BY <1>1, <2>1 DEF Delivery, Settlement, Kept, x
    <3> QED
      BY <3>1, Zenon DEF Settled, Kept
  <2>2. ASSUME u.rx >= 2 \/ sock[x].head >= 2 PROVE Settled(sock[x], u)
    <3>1. Settled(sock[x], sock[e])
      BY <1>1, <2>2 DEF Delivery, Settlement, Kept
    <3> QED
      BY <3>1, Zenon DEF Settled, Kept
  <2> QED
    BY <1>1, <1>2, <2>1, <2>2 DEF Settlement, x
<1>6. Handshake'
  <2>1. CASE e = "client"
    <3>1. sock'["client"] = u /\ sock'["server"] = sock["server"] /\ e = "client"
      BY <1>1, <1>2, <2>1 DEF Ends
    <3>2. u.high = 0 => sock[e].high = 0
      <4> DEFINE m == sock[e].high
                 n == u.high
      <4>1. m \in Nat /\ n \in Nat
        BY <1>3 DEF Typed
      <4>2. m =< n
        BY Zenon DEF Kept
      <4> HIDE DEF m, n
      <4>3. n = 0 => m = 0
        BY <4>1, <4>2
      <4> QED
        BY <4>3, Zenon DEF m, n
    <3>3. Early' => Early
      BY <3>1, <3>2, Zenon DEF Early, Kept
    <3> QED
      BY <3>1, <3>3 DEF Handshake, Delivery, Kept
  <2>2. CASE e = "server"
    <3>1. sock'["server"] = u /\ sock'["client"] = sock["client"] /\ e = "server"
      BY <1>1, <1>2, <2>2 DEF Ends
    <3>2. Early' => Early
      BY <3>1, Zenon DEF Early
    <3> QED
      BY <3>1, <3>2 DEF Handshake, Delivery, Kept
  <2> QED
    BY <2>1, <2>2 DEF Ends
<1> QED
  BY <1>4, <1>5, <1>6 DEF Delivery

\* The packets that stay under way when the oldest one is gone.
LEMMA TailOwn ==
    ASSUME NEW q, Good(q), Own(q, FALSE), Opened(q), q.out # <<>>
    PROVE  LET r == [q EXCEPT !.out = Tail(@)]
               p == Head(q.out)
           IN  /\ Own(r, FALSE) /\ Opened(r)
               /\ r.got = q.got /\ r.rx = q.rx /\ r.head = q.head /\ r.high = q.high
               /\ r.wrote = q.wrote /\ Ended(r) = Ended(q) /\ r.state = q.state
               /\ r.bound = q.bound
               /\ HasSyn(r) => HasSyn(q) /\ p.flags \notin {"ACK", "FIN"}
               /\ p.flags = "SYN" => HasSyn(q)
               /\ Proper(p) /\ PacketOwn(q, FALSE, p)
<1> DEFINE n == Tail(q.out)
           r == [q EXCEPT !.out = n]
           p == Head(q.out)
<1>1. q.out \in Seq(Packets) /\ q.out # <<>>
  BY DEF Good, Typed
<1>2. /\ n \in Seq(Packets) /\ p \in Packets /\ p = q.out[1] /\ 1 \in DOMAIN q.out
      /\ DOMAIN q.out = 1 .. Len(q.out) /\ Len(q.out) \in Nat
      /\ \A i \in DOMAIN n : i + 1 \in DOMAIN q.out /\ n[i] = q.out[i + 1] /\ 1 < i + 1 /\ i \in Nat
  BY <1>1
<1> HIDE DEF n, p
<1>3. PacketOwn(q, FALSE, p)
  BY <1>2 DEF Own, Sent
<1>4. Proper(p)
  BY <1>2, <1>3 DEF Proper, PacketOwn
<1>5. /\ r.got = q.got /\ r.rx = q.rx /\ r.head = q.head /\ r.high = q.high
      /\ r.wrote = q.wrote /\ Ended(r) = Ended(q) /\ r.state = q.state /\ r.bound = q.bound
      /\ r.out = n
  BY DEF Good, Socket, Ended
<1>6. Fields(r, FALSE)
  BY DEF Good, Socket, Own, Fields, Opening, FinDue, Ended, FinStates
<1> HIDE DEF r
<1>7. Sent(r, FALSE)
  <2> SUFFICES ASSUME NEW i \in DOMAIN n PROVE PacketOwn(r, FALSE, n[i])
    BY <1>5 DEF Sent
  <2> DEFINE k == i + 1
  <2>1. k \in DOMAIN q.out /\ n[i] = q.out[k]
    BY <1>2
  <2> HIDE DEF k
  <2>2. PacketOwn(q, FALSE, n[i])
    BY <2>1 DEF Own, Sent
  <2> QED
    BY <1>5, <2>2, Zenon DEF PacketOwn
<1>8. Ordered(r)
  <2> SUFFICES ASSUME NEW i \in DOMAIN n, NEW j \in DOMAIN n, i < j, n[j].flags = "SYN"
               PROVE  n[i].flags \notin {"ACK", "FIN"}
    BY <1>5 DEF Ordered
  <2> DEFINE k == i + 1
             l == j + 1
  <2>1. k \in DOMAIN q.out /\ n[i] = q.out[k] /\ l \in DOMAIN q.out /\ n[j] = q.out[l] /\ k < l
    BY <1>2
  <2> HIDE DEF k, l
  <2> QED
    BY <2>1 DEF Own, Ordered
<1>9. HasSyn(r) => HasSyn(q) /\ p.flags \notin {"ACK", "FIN"}
  <2> SUFFICES ASSUME NEW i \in DOMAIN n, n[i].flags = "SYN"
               PROVE  HasSyn(q) /\ p.flags \notin {"ACK", "FIN"}
    BY <1>5 DEF HasSyn
  <2> DEFINE k == i + 1
  <2>1. k \in DOMAIN q.out /\ n[i] = q.out[k] /\ 1 < k
    BY <1>2
  <2> HIDE DEF k
  <2> QED
    BY <1>2, <2>1 DEF Own, Ordered, HasSyn
<1>10. p.flags = "SYN" => HasSyn(q)
  BY <1>2 DEF HasSyn
<1> QED
  BY <1>3, <1>4, <1>5, <1>6, <1>7, <1>8, <1>9, <1>10 DEF Opened, Own, r, p, n

\* So does one with the oldest packet from the peer.
LEMMA ArrivalStep ==
    ASSUME AllGood, AllGood', Delivery, NEW e \in Ends, NEW u, Arriving(e), TakesPacket(e, u),
           Handled(sock[e], u, Arrived(e)), Opened(u),
           forking' => \/ forking
                       \/ e = "server" /\ ~sock["server"].bound /\ Arrived(e).flags = "SYN",
           e = "server" /\ sock[e].high = 0 /\ Arrived(e).flags \notin {"ACK", "FIN"}
               => u.high = 0,
           sock[e].bound \/ u.high = sock[e].high
    PROVE  Delivery'
<1> DEFINE x == Peer(e)
           s == sock[e]
           q == sock[x]
           r == [q EXCEPT !.out = Tail(@)]
           p == Arrived(e)
<1>1. x \in Ends /\ x # e /\ Peer(x) = e /\ \A y \in Ends : y = e \/ y = x
  BY EndsArePeers
<1>2. sock'[e] = u /\ sock'[x] = r /\ p = Head(q.out) /\ q.out # <<>>
  BY <1>1 DEF TakesPacket, AllGood, Arriving, Arrived
<1>3. Good(s) /\ Good(q) /\ Good(u)
  BY <1>1, <1>2 DEF AllGood
<1>4. Own(s, FALSE) /\ Own(q, FALSE) /\ Opened(q)
  BY <1>1 DEF Delivery
<1> HIDE DEF x, s, q
<1>5. /\ Own(r, FALSE) /\ Opened(r)
      /\ r.got = q.got /\ r.rx = q.rx /\ r.head = q.head /\ r.high = q.high
      /\ r.wrote = q.wrote /\ Ended(r) = Ended(q) /\ r.state = q.state /\ r.bound = q.bound
      /\ HasSyn(r) => HasSyn(q) /\ p.flags \notin {"ACK", "FIN"}
      /\ p.flags = "SYN" => HasSyn(q)
      /\ Proper(p) /\ PacketOwn(q, FALSE, p)
  <2> HIDE DEF p
  <2> QED
    BY <1>2, <1>3, <1>4, TailOwn
<1> HIDE DEF r, p
<1>6. Own(u, FALSE) /\ Takes(s, u, p)
  BY DEF Handled, s, p
<1>7. \A y \in Ends : Own(sock'[y], FALSE) /\ Opened(sock'[y])
  BY <1>1, <1>2, <1>5, <1>6
<1>8. Settlement'
  <2>1. ASSUME r.rx >= 2 \/ u.head >= 2 PROVE Settled(u, r)
    <3>1. p.ack >= 2 => q.rx >= 2
      BY <1>3, <1>5 DEF PacketOwn, Proper, Packets, Good, Typed
    <3>2. q.rx >= 2 \/ s.head >= 2
      BY <1>5, <1>6, <2>1, <3>1 DEF Takes
    <3>3. Settled(s, q)
      BY <3>2 DEF Delivery, Settlement, s, q, x
    <3> QED
      BY <1>5, <1>6, <3>3, Zenon DEF Settled, Takes, Ended
  <2>2. ASSUME u.rx >= 2 \/ r.head >= 2 PROVE Settled(r, u)
    <3>1. s.rx >= 2 \/ q.head >= 2 => Settled(q, s)
      BY <1>1 DEF Delivery, Settlement, s, q
    <3>2. BareFin(p) => Ended(q) /\ ~q.wrote
      BY <1>5 DEF BareFin, PacketOwn
    <3>3. Settled(q, s) \/ u.got \/ BareFin(p)
      BY <1>5, <1>6, <2>2, <3>1, Zenon DEF Takes
    <3> QED
      BY <1>5, <1>6, <3>2, <3>3, Zenon DEF Settled, Takes
  <2> QED
    BY <1>1, <1>2, <2>1, <2>2 DEF Settlement, x
<1>9. Handshake'
  <2>1. u.high = 0 => s.high = 0
    BY <1>3, <1>6 DEF Takes, Good, Typed
  <2>2. CASE e = "client"
    <3>2. s = sock["client"] /\ q = sock["server"] /\ sock'["client"] = u
          /\ sock'["server"] = r
      BY <1>1, <1>2, <2>2 DEF Ends, s, q, x
    <3>3. Early' => Early
      <4>1. forking' => forking
        BY <2>2
      <4> QED
        BY <1>6, <2>1, <3>2, <4>1, Zenon DEF Early, Takes
    <3>4. ASSUME Early PROVE r.high = 0 /\ u.rx <= 1 /\ u.head = 1 /\ ~u.got
      <4>1. q.high = 0 /\ s.rx <= 1 /\ s.head = 1 /\ ~s.got
        BY <3>2, <3>4 DEF Delivery, Handshake
      <4>2. q.rx <= 1
        BY <1>4, <4>1 DEF Own, Fields, Opening
      <4>3. p.len = 0 /\ p.flags # "FIN" /\ ~(p.ack >= 2)
        BY <1>3, <1>5, <4>1, <4>2 DEF PacketOwn, Proper, Packets, Flags, Good, Typed
      <4>4. ~u.got
        BY <1>6, <4>1, <4>3 DEF Takes
      <4>5. ~(u.rx >= 2) /\ ~(u.head >= 2)
        BY <1>3, <1>6, <4>1, <4>3, <4>4 DEF Takes, BareFin, Good, Typed
      <4> QED
        BY <1>3, <1>5, <1>6, <4>1, <4>4, <4>5 DEF Good, Typed, Own, Fields
    <3>5. forking' => ~r.bound
      BY <1>5, <2>2, <3>2 DEF Delivery, Handshake
    <3>6. r.state # "SYN_SENT"
      BY <1>5, <3>2 DEF Delivery, Handshake
    <3> QED
      BY <3>2, <3>3, <3>4, <3>5, <3>6 DEF Handshake
  <2>3. CASE e = "server"
    <3>1. s = sock["server"] /\ q = sock["client"] /\ sock'["server"] = u
          /\ sock'["client"] = r
      BY <1>1, <1>2, <2>3 DEF Ends, s, q, x
    <3>2. /\ forking' => forking \/ (~s.bound /\ p.flags = "SYN")
          /\ s.high = 0 /\ p.flags \notin {"ACK", "FIN"} => u.high = 0
          /\ s.bound \/ u.high = s.high
      BY <2>3, <3>1 DEF s, p
    <3>3. Early' => Early
      BY <1>5, <3>1, <3>2, Zenon DEF Early
    <3>4. ASSUME Early' PROVE u.high = 0
      <4>1. s.high = 0 /\ (forking => ~s.bound)
        BY <3>1, <3>3, <3>4 DEF Delivery, Handshake
      <4>2. p.flags \in {"ACK", "FIN"} => q.high # 0
        BY <1>5 DEF PacketOwn
      <4>3. forking' \/ r.high = 0 \/ HasSyn(r)
        BY <3>1, <3>4 DEF Early
      <4> QED
        BY <1>5, <3>2, <4>1, <4>2, <4>3
    <3>5. Early' => r.rx <= 1 /\ r.head = 1 /\ ~r.got
      BY <1>5, <3>1, <3>3 DEF Delivery, Handshake
    <3>6. forking' => ~u.bound
      BY <1>6, <3>1, <3>2 DEF Delivery, Handshake, Takes
    <3>7. u.state # "SYN_SENT"
      BY <1>6, <3>1 DEF Delivery, Handshake, Takes
    <3> QED
      BY <3>1, <3>4, <3>5, <3>6, <3>7 DEF Handshake
  <2> QED
    BY <2>2, <2>3 DEF Ends
<1> QED
  BY <1>7, <1>8, <1>9 DEF Delivery

LEMMA ArrivalDelivery ==
    ASSUME AllGood, AllGood', Delivery,
           ProcessListen \/ NoEndPoint \/ \E e \in Ends : ForwardUp(e) \/ Lose(e)
    PROVE  Delivery'
<1>1. ASSUME NEW e \in Ends, Arriving(e)
      PROVE  /\ Good(sock[e]) /\ Own(sock[e], FALSE) /\ Opened(sock[e])
             /\ Proper(Arrived(e)) /\ Handled(sock[e], sock[e], Arrived(e))
  <2>1. Good(sock[e]) /\ Own(sock[e], FALSE) /\ Opened(sock[e])
    BY DEF AllGood, Delivery
  <2> DEFINE q == sock[Peer(e)]
  <2>2. Good(q) /\ Own(q, FALSE) /\ Opened(q) /\ q.out # <<>>
    BY <1>1, EndsArePeers DEF AllGood, Delivery, Arriving
  <2>3. Arrived(e) = Head(q.out)
    BY DEF Arrived
  <2> HIDE DEF q
  <2>4. Proper(Arrived(e))
    BY <2>2, <2>3, TailOwn
  <2> QED
    BY <2>1, <2>4, ResetOwn
<1>2. CASE ProcessListen
  <2>1. /\ "server" \in Ends /\ Arriving("server") /\ ~sock["server"].bound
        /\ TakesPacket("server", sock["server"])
        /\ forking' = (forking \/ Arrived("server").flags = "SYN")
    BY <1>2 DEF ProcessListen, Ends
  <2> QED
    BY <1>1, <2>1, ArrivalStep
<1>3. ASSUME NEW e \in Ends, Lose(e) PROVE Delivery'
  <2>1. Arriving(e) /\ TakesPacket(e, sock[e]) /\ forking' = forking
    BY <1>3 DEF Lose
  <2> QED
    BY <1>1, <2>1, ArrivalStep
<1>4. ASSUME NEW e \in Ends, ForwardUp(e) PROVE Delivery'
  <2> DEFINE s == sock[e]
             p == Arrived(e)
             u == IF p.len > 0 /\ OutOfRange(s, p) THEN SendEmptyPacket(s, "ACK")
                  ELSE DoForwardUp(s, p)
  <2>1. Arriving(e) /\ s.bound /\ TakesPacket(e, u) /\ forking' = forking
    BY <1>4 DEF ForwardUp
  <2>2. Good(s) /\ Own(s, FALSE) /\ Opened(s) /\ Proper(p)
    BY <1>1, <2>1
  <2>3. e = "server" => s.state # "SYN_SENT"
    BY DEF Delivery, Handshake
  <2> HIDE DEF s, p
  <2>4. CASE p.len > 0 /\ OutOfRange(s, p)
    <3> DEFINE a == SendEmptyPacket(s, "ACK")
    <3>1. p.seq = 1 /\ p.len = 1
      BY <2>2, <2>4 DEF Proper, Packets
    <3>2. s.high >= 1
      <4>1. ASSUME s.high = 0 PROVE FALSE
        BY <2>2, <2>4, <3>1, <4>1 DEF OutOfRange, Own, Fields, Opening, Good, Typed
      <4> QED
        BY <2>2, <4>1 DEF Good, Typed
    <3>3. Handled(s, a, p)
      BY <2>2, <3>2, ResetOwn
    <3>4. u = a /\ s.high # 0
      BY <2>2, <2>4, <3>2 DEF Good, Typed
    <3> HIDE DEF a, u
    <3>5. Opened(a)
      BY <2>2, <3>3, <3>4 DEF Opened, Handled, Takes
    <3> QED
      BY <2>1, <3>3, <3>4, <3>5, ArrivalStep DEF s, p
  <2>5. CASE ~(p.len > 0 /\ OutOfRange(s, p))
    <3> DEFINE d == DoForwardUp(s, p)
    <3>1. Handled(s, d, p) /\ Opened(d)
      BY <2>2, DoForwardUpOwn
    <3>2. e = "server" /\ s.high = 0 /\ p.flags \notin {"ACK", "FIN"} => d.high = 0
      BY <2>2, <2>3, DoForwardUpHigh
    <3>3. u = d
      BY <2>5
    <3> HIDE DEF d, u
    <3> QED
      BY <2>1, <3>1, <3>2, <3>3, ArrivalStep DEF s, p
  <2> QED
    BY <2>4, <2>5
<1>5. CASE NoEndPoint
  <2> DEFINE s == sock["client"]
             p == Arrived("client")
             k == Packet("RST", 0, 0, 0)
             n == Append(s.out, k)
             t == [s EXCEPT !.out = n]
  <2>1. "client" \in Ends /\ Arriving("client") /\ forking' = forking
        /\ (TakesPacket("client", s) \/ TakesPacket("client", t))
    <3>1. Good(s)
      BY DEF AllGood, Ends
    <3> QED
      BY <1>5, <3>1 DEF NoEndPoint, Ends, Good, Socket
  <2>2. Good(s) /\ Own(s, FALSE) /\ Opened(s) /\ Handled(s, s, p)
    BY <1>1, <2>1
  <2>3. CASE TakesPacket("client", s)
    BY <2>1, <2>2, <2>3, ArrivalStep
  <2>4. CASE TakesPacket("client", t)
    <3>1. k \in Packets /\ k.flags = "RST" /\ k.ack = 0 /\ k.len = 0
      BY DEF Packet, Packets, Flags
    <3> HIDE DEF s, p, k
    <3>2. n \in Seq(Packets)
      BY <2>2, <3>1 DEF Good, Typed
    <3>3. HasSyn(t) => HasSyn(s)
      <4>1. t.out = Append(s.out, k)
        BY <2>2 DEF Good, Socket
      <4> HIDE DEF t
      <4> QED
        BY <2>2, <3>1, <4>1, SynGrows DEF Good
    <3>4. t.out = Append(s.out, k) /\ t.high = s.high /\ t.state = s.state /\ t.rx = s.rx
          /\ t.wrote = s.wrote /\ Ended(t) = Ended(s)
      BY <2>2 DEF Good, Socket, Ended
    <3> HIDE DEF n
    <3>5. Good(t)
      BY <2>2, <3>2 DEF Good, Socket, Typed, Guarded
    <3>6. Same(s, t)
      BY <2>2, <3>3 DEF Good, Socket, Typed, Same
    <3>7. Fields(t, FALSE)
      BY <2>2 DEF Good, Socket, Own, Fields, Opening, FinDue, Ended, FinStates
    <3>8. PacketOwn(t, FALSE, k)
      BY <3>1, <3>5 DEF PacketOwn, Good, Typed
    <3> HIDE DEF t
    <3>9. s.high <= t.high
      BY <2>2, <3>4 DEF Good, Typed
    <3>10. Sent(t, FALSE) /\ Ordered(t)
      BY <2>2, <3>1, <3>4, <3>5, <3>8, <3>9, OutGrows DEF Good, Own
    <3>11. Handled(s, t, p)
      BY <2>2, <3>5, <3>6, <3>7, <3>10, SameTakes DEF Handled, Own, Good
    <3>12. Opened(t)
      BY <2>2, <3>4 DEF Opened
    <3> QED
      BY <2>1, <2>4, <3>4, <3>11, <3>12, ArrivalStep DEF s, p
  <2> QED
    BY <2>1, <2>3, <2>4
<1> QED
  BY <1>2, <1>3, <1>4, <1>5

LEMMA SameStep ==
    ASSUME AllGood, AllGood', Delivery, NEW e \in Ends, NEW u, Becomes(e, u), forking' = forking,
           Same(sock[e], u), Own(u, FALSE), sock[e].high = 0 => u.high = 0
    PROVE  Delivery'
<1>1. Kept(sock[e], u)
  BY SameKept DEF AllGood, Good, Delivery
<1>2. e = "server" => (u.bound => sock[e].bound) /\ u.state # "SYN_SENT"
  BY DEF Same, Delivery, Handshake
<1> QED
  BY <1>1, <1>2, LocalStep

LEMMA ConnectDelivery ==
    ASSUME AllGood, AllGood', Delivery, Connect
    PROVE  Delivery'
<1> DEFINE s == NewSocket("client")
           t == [s EXCEPT !.bound = TRUE, !.synCount = SynRetries,
                          !.dataRetrCount = DataRetries]
           u == SendEmptyPacket(t, "SYN")
           r == [u EXCEPT !.state = "SYN_SENT"]
<1>1. sock["client"] = s /\ Becomes("client", r) /\ forking' = forking
  BY DEF Connect
<1>2. SynRetries \in 0 .. SynRetries /\ DataRetries \in 0 .. DataRetries
  BY ConnectionAssumption
<1>3. Good(s) /\ Own(s, FALSE) /\ s.high = 0 /\ s.state = "CLOSED" /\ s.out = <<>>
  BY NewSocketGood, NewSocketOwn DEF NewSocket
<1> HIDE DEF s
<1>4. Socket(t) /\ Typed(t) /\ t.high = 0 /\ t.out = s.out
  BY <1>2, <1>3 DEF Good, Socket, Typed
<1>5. Fields(t, FALSE)
  BY <1>3 DEF Good, Socket, Own, Fields, Opening, FinDue, Ended, FinStates
<1>6. /\ t.got = s.got /\ t.rx = s.rx /\ t.head = s.head /\ t.wrote = s.wrote
      /\ t.closed = s.closed /\ t.shutdownSend = s.shutdownSend
  BY <1>3 DEF Good, Socket
<1> HIDE DEF t
<1>7. Own(t, FALSE)
  <2>1. t.out = <<>>
    BY <1>3, <1>4
  <2>2. DOMAIN t.out = {}
    BY <2>1
  <2> QED
    BY <1>5, <2>2 DEF Own, Sent, Ordered
<1>8. Good(u) /\ Own(u, FALSE) /\ Same(t, u) /\ u.high = 0
  BY <1>4, <1>7, EmptyPacketGood, EmptyPacketOwn, EmptyPacketHigh DEF Flags, MayEmit
<1> HIDE DEF u
<1>9. r.state = "SYN_SENT" /\ r.high = 0 /\ r.out = u.out /\ Typed(r) /\ r.got = u.got
      /\ r.rx = u.rx /\ r.head = u.head /\ r.wrote = u.wrote /\ Ended(r) = Ended(u)
  BY <1>8 DEF Good, Socket, Typed, States, Ended
<1>10. Fields(r, FALSE)
  BY <1>8 DEF Good, Socket, Own, Fields, Opening, FinDue, Ended, FinStates
<1> HIDE DEF r
<1>11. Sent(r, FALSE) /\ Ordered(r)
  <2>1. u.rx <= r.rx /\ u.high <= r.high
    BY <1>8, <1>9 DEF Good, Typed
  <2> QED
    BY <1>8, <1>9, <2>1, OutKept DEF Good, Own
<1>12. Kept(s, r)
  <2>1. s.high <= r.high
    BY <1>3, <1>9
  <2> QED
    BY <1>3, <1>6, <1>8, <1>9, <1>10, <1>11, <2>1, Zenon DEF Kept, Own, Opened, Same, Ended
<1> QED
  BY <1>1, <1>12, LocalStep DEF Ends

LEMMA CompleteForkDelivery ==
    ASSUME AllGood, AllGood', Delivery, CompleteFork
    PROVE  Delivery'
<1> DEFINE s == sock["server"]
           c == sock["client"]
           n == NewSocket("server")
           t == [n EXCEPT !.state = "SYN_RCVD", !.bound = TRUE, !.rx = 1,
                          !.synCount = SynRetries, !.dataRetrCount = DataRetries,
                          !.shutdownSend = sink, !.closeOnEmpty = sink, !.out = s.out]
           u == SendEmptyPacket(t, "SYNACK")
<1>1. Good(s) /\ Own(s, FALSE) /\ Good(c) /\ Own(c, FALSE) /\ Opened(c)
  BY DEF AllGood, Delivery, Ends
<1>2. s.high = 0 /\ ~s.bound /\ c.rx <= 1 /\ c.head = 1 /\ ~c.got
  BY DEF CompleteFork, Delivery, Handshake, Early
<1>3. Becomes("server", u) /\ forking' = FALSE
  BY <1>2 DEF CompleteFork
<1>4. sock'["server"] = u /\ sock'["client"] = c
  BY <1>3 DEF Becomes, AllGood, Ends
<1> HIDE DEF s, c
<1>5. SynRetries \in 0 .. SynRetries /\ DataRetries \in 0 .. DataRetries
  BY ConnectionAssumption
<1>6. Good(n) /\ Own(n, FALSE) /\ n.high = 0 /\ n.head = 1 /\ n.got = FALSE
  BY NewSocketGood, NewSocketOwn DEF NewSocket
<1> HIDE DEF n
<1>7. Socket(t) /\ Typed(t) /\ t.high = 0 /\ t.out = s.out /\ t.rx = 1 /\ t.state = "SYN_RCVD"
      /\ t.head = 1 /\ t.got = FALSE
  BY <1>1, <1>5, <1>6 DEF Good, Socket, Typed, States
<1>8. Fields(t, FALSE)
  BY <1>6 DEF Good, Socket, Own, Fields, Opening, FinDue, Ended, FinStates
<1> HIDE DEF t
<1>9. Sent(t, FALSE) /\ Ordered(t)
  <2>1. ASSUME NEW i \in DOMAIN s.out PROVE PacketOwn(t, FALSE, s.out[i])
    <3>1. PacketOwn(s, FALSE, s.out[i]) /\ s.out[i] \in Packets
      <4>1. s.out \in Seq(Packets)
        BY <1>1 DEF Good, Typed
      <4>2. s.out[i] \in Packets
        BY <4>1
      <4> QED
        BY <1>1, <4>2 DEF Own, Sent
    <3>2. s.rx <= 1 /\ s.rx \in Nat
      BY <1>1, <1>2 DEF Own, Fields, Opening, Good, Typed
    <3>3. s.out[i].flags \notin {"ACK", "FIN"}
      BY <1>2, <3>1 DEF PacketOwn
    <3>4. s.out[i].ack <= t.rx
      BY <1>7, <3>1, <3>2 DEF PacketOwn, Packets
    <3> QED
      BY <3>1, <3>3, <3>4 DEF PacketOwn
  <2> QED
    BY <1>1, <1>7, <2>1 DEF Sent, Own, Ordered
<1>10. Own(u, FALSE) /\ Same(t, u) /\ u.high = 0 /\ Good(u)
  BY <1>7, <1>8, <1>9, EmptyPacketOwn, EmptyPacketGood, EmptyPacketHigh DEF Own, Flags, MayEmit
<1> HIDE DEF u
<1>11. u.rx = 1 /\ u.head = 1 /\ u.state # "SYN_SENT"
  BY <1>7, <1>10 DEF Same
<1>12. \A e \in Ends : Own(sock'[e], FALSE) /\ Opened(sock'[e])
  BY <1>1, <1>4, <1>10 DEF Ends, Opened
<1>13. Handshake'
  BY <1>2, <1>3, <1>4, <1>10, <1>11 DEF Handshake
<1>14. Settlement'
  <2>1. ~(u.rx >= 2) /\ ~(u.head >= 2) /\ ~(c.rx >= 2) /\ ~(c.head >= 2)
    BY <1>1, <1>2, <1>11 DEF Good, Typed
  <2>2. Peer("client") = "server" /\ Peer("server") = "client"
    BY DEF Peer
  <2> QED
    BY <1>4, <2>1, <2>2 DEF Settlement, Ends
<1> QED
  BY <1>12, <1>13, <1>14 DEF Delivery

LEMMA OwnWhileClosing ==
    ASSUME NEW s, Own(s, FALSE)
    PROVE  Own(s, TRUE)
<1>1. Fields(s, TRUE)
  BY DEF Own, Fields, FinDue
<1>2. Sent(s, TRUE)
  BY DEF Own, Sent, PacketOwn
<1> QED
  BY <1>1, <1>2 DEF Own

\* The socket whose timer has just expired.
LEMMA ExpiredOwn ==
    ASSUME NEW s, Good(s), Own(s, FALSE), NEW n, n \in {[s EXCEPT !.retx = "none"],
           [s EXCEPT !.lastAck = FALSE], [s EXCEPT !.sendEvent = FALSE],
           [s EXCEPT !.unread = FALSE]}
    PROVE  /\ Socket(n) /\ Typed(n) /\ Own(n, FALSE) /\ Same(s, n) /\ n.high = s.high
           /\ n.state = s.state /\ n.head = s.head /\ n.tail = s.tail
           /\ n.state = "LAST_ACK" => Good(n)
<1>1. Socket(n) /\ Typed(n) /\ n.out = s.out /\ n.high = s.high /\ n.state = s.state
      /\ n.head = s.head /\ n.tail = s.tail
  BY SMTT(30) DEF Good, Socket, Typed
<1>2. Same(s, n)
  BY SMTT(30) DEF Good, Socket, Typed, Same, HasSyn
<1>3. Fields(n, FALSE)
  BY DEF Good, Socket, Own, Fields, Opening, FinDue, Ended, FinStates
<1>4. Sent(n, FALSE) /\ Ordered(n)
  BY <1>1, <1>2, OutSame DEF Good
<1> QED
  BY <1>1, <1>2, <1>3, <1>4 DEF Own, Good, Guarded

LEMMA ApplicationDelivery ==
    ASSUME AllGood, AllGood', Delivery, NEW e \in Ends,
           Send(e) \/ Recv(e) \/ ShutdownSend(e) \/ Close(e)
    PROVE  Delivery'
<1> DEFINE s == sock[e]
<1>1. Good(s) /\ Own(s, FALSE) /\ Opened(s)
  BY DEF AllGood, Delivery
<1>2. e = "server" => s.state # "SYN_SENT"
  BY DEF Delivery, Handshake
<1>3. ASSUME Held(e) PROVE /\ s.state \notin {"CLOSED", "SYN_RCVD"}
                           /\ s.state # "SYN_SENT" => s.high >= 1
  BY <1>1, <1>3 DEF Held, Own, Fields, Opening, Good, Typed
<1>4. CASE Send(e)
  <2> DEFINE v == s.sendEvent \/ (~s.shutdownSend /\ s.bound
                                  /\ s.state \in {"ESTABLISHED", "CLOSE_WAIT"})
             r == [s EXCEPT !.tail = 2, !.wrote = ~s.shutdownSend, !.sendEvent = v]
  <2>1. /\ Becomes(e, r) /\ forking' = forking /\ Held(e)
        /\ s.state \in {"ESTABLISHED", "SYN_SENT", "CLOSE_WAIT"} /\ s.tail = 1 /\ ~s.closed
    BY <1>1, <1>4 DEF Send, Good, Socket
  <2>2. s.high = 0 => v = FALSE
    BY <1>1, <1>3, <2>1 DEF Good, Typed, Own, Fields, Opening
  <2> HIDE DEF s, v
  <2>3. /\ r.out = s.out /\ r.high = s.high /\ r.rx = s.rx /\ r.head = s.head /\ r.got = s.got
        /\ r.state = s.state /\ r.bound = s.bound /\ r.wrote = ~s.shutdownSend
        /\ r.closed = s.closed /\ r.shutdownSend = s.shutdownSend
    BY <1>1 DEF Good, Socket
  <2>4. Typed(r)
    BY <1>1 DEF Good, Socket, Typed
  <2>5. Fields(r, FALSE)
    <3>1. Fields(s, FALSE) /\ s.head = 1
      BY <1>1, <2>1 DEF Own, Fields, Good, Typed
    <3>2. /\ r.tail = 2 /\ r.sendEvent = v /\ r.next = s.next /\ r.retx = s.retx
          /\ r.closeOnEmpty = s.closeOnEmpty /\ r.lastAck = s.lastAck /\ r.delAck = s.delAck
      BY <1>1 DEF Good, Socket
    <3> HIDE DEF r
    <3>3. Ended(r) = Ended(s) /\ (Ended(s) => ~r.wrote)
      BY <2>1, <2>3 DEF Ended
    <3>4. r.high = 0 => Opening(r)
      BY <2>2, <2>3, <3>1, <3>2 DEF Fields, Opening
    <3>5. r.state \notin FinStates /\ (r.retx = "FIN" => FinDue(r, FALSE))
      BY <2>1, <2>3, <3>1, <3>2, <3>3 DEF Fields, FinDue, FinStates
    <3>6. /\ r.head = 1 /\ r.tail \in {1, 2} /\ (r.wrote => r.tail >= 2)
          /\ r.high >= 1 => r.next >= r.head /\ r.retx \notin {"SYN", "SYNACK"}
      BY <2>3, <3>1, <3>2 DEF Fields
    <3>7. r.closeOnEmpty => FALSE \/ Ended(r)
      BY <3>1, <3>2, <3>3 DEF Fields
    <3> QED
      BY <3>4, <3>5, <3>6, <3>7, Zenon DEF Fields
  <2> HIDE DEF r
  <2>6. Sent(r, FALSE) /\ Ordered(r)
    <3>1. s.rx <= r.rx /\ s.high <= r.high
      BY <1>1, <2>3 DEF Good, Typed
    <3>2. (r.wrote => s.wrote \/ ~(FALSE \/ Ended(s))) /\ (FALSE \/ Ended(s) => FALSE \/ Ended(r))
      BY <2>1, <2>3, Zenon DEF Ended
    <3> QED
      BY <1>1, <2>3, <2>4, <3>1, <3>2, OutKept DEF Good, Own
  <2>7. s.high <= r.high /\ (HasSyn(r) => HasSyn(s))
    BY <1>1, <2>3 DEF Good, Typed, HasSyn
  <2>8. Kept(s, r)
    BY <1>1, <2>1, <2>3, <2>5, <2>6, <2>7, Zenon DEF Kept, Own, Opened, Ended
  <2> QED
    BY <1>2, <2>1, <2>3, <2>8, LocalStep DEF s
<1>5. CASE Recv(e)
  <2> DEFINE r == [s EXCEPT !.unread = FALSE]
  <2>1. Becomes(e, r) /\ forking' = forking
    BY <1>5 DEF Recv
  <2>2. Own(r, FALSE) /\ Same(s, r) /\ r.high = s.high
    BY <1>1, ExpiredOwn
  <2> HIDE DEF r
  <2> QED
    BY <2>1, <2>2, SameStep
<1>6. CASE ShutdownSend(e)
  <2> DEFINE t == [s EXCEPT !.shutdownSend = TRUE, !.closeOnEmpty = TRUE]
             u == SendEmptyPacket(t, "FIN")
             f == IF t.state = "ESTABLISHED" THEN "FIN_WAIT_1" ELSE "LAST_ACK"
             r == [u EXCEPT !.state = f]
  <2>1. /\ Becomes(e, IF Size(t) = 0 /\ t.state \in {"ESTABLISHED", "CLOSE_WAIT"} THEN r ELSE t)
        /\ forking' = forking /\ Held(e)
    BY <1>6 DEF ShutdownSend
  <2> HIDE DEF s
  <2>2. /\ t.out = s.out /\ t.high = s.high /\ t.rx = s.rx /\ t.head = s.head /\ t.got = s.got
        /\ t.state = s.state /\ t.bound = s.bound /\ t.wrote = s.wrote /\ t.tail = s.tail
        /\ t.next = s.next
        /\ t.closed = s.closed /\ t.shutdownSend /\ Good(t)
    BY <1>1 DEF Good, Socket, Typed, Guarded
  <2>3. Fields(t, FALSE)
    BY <1>1 DEF Good, Socket, Own, Fields, Opening, FinDue, Ended, FinStates
  <2> HIDE DEF t
  <2>4. Sent(t, FALSE) /\ Ordered(t)
    <3>1. s.rx <= t.rx /\ s.high <= t.high
      BY <1>1, <2>2 DEF Good, Typed
    <3>2. (t.wrote => s.wrote \/ ~(FALSE \/ Ended(s))) /\ (FALSE \/ Ended(s) => FALSE \/ Ended(t))
      BY <2>2, Zenon DEF Ended
    <3> QED
      BY <1>1, <2>2, <3>1, <3>2, OutKept DEF Good, Own
  <2>5. Own(t, FALSE)
    BY <2>3, <2>4 DEF Own
  <2>6. s.high <= t.high /\ (HasSyn(t) => HasSyn(s))
    BY <1>1, <2>2 DEF Good, Typed, HasSyn
  <2>7. Kept(s, t)
    BY <1>1, <2>2, <2>5, <2>6, Zenon DEF Kept, Opened, Ended
  <2>8. CASE ~(Size(t) = 0 /\ t.state \in {"ESTABLISHED", "CLOSE_WAIT"})
    BY <1>2, <2>1, <2>2, <2>7, <2>8, LocalStep DEF s
  <2>9. CASE Size(t) = 0 /\ t.state \in {"ESTABLISHED", "CLOSE_WAIT"}
    <3>1. t.high >= 1
      BY <1>3, <2>1, <2>2, <2>9
    <3>2. FinDue(t, FALSE)
      BY <2>2, <2>3, <2>9, <3>1 DEF FinDue, Size, Good, Typed, Fields, Ended
    <3>3. Good(u) /\ Own(u, FALSE) /\ Same(t, u) /\ u.next = t.next /\ u.high = t.high
      BY <2>2, <2>5, <3>1, <3>2, EmptyPacketGood, EmptyPacketOwn, EmptyPacketHigh
         DEF Good, Flags, MayEmit
    <3> HIDE DEF u
    <3>4. FinDue(u, FALSE) /\ u.high >= 1
      BY <3>1, <3>2, <3>3 DEF FinDue, Same, Ended
    <3>5. f \in States /\ f \notin {"SYN_SENT", "SYN_RCVD"}
      BY DEF States
    <3> HIDE DEF f
    <3>6. Own(r, FALSE) /\ Same(u, r) /\ Typed(r)
      BY <3>3, <3>4, <3>5, StateOwn DEF Good
    <3>7. r.high = u.high /\ r.state = f
      BY <3>3 DEF Good, Socket
    <3> HIDE DEF r
    <3>8. Same(t, r) /\ r.high # 0 /\ s.high # 0
      BY <2>2, <3>1, <3>3, <3>6, <3>7, SameTrans DEF Good
    <3>9. s.high <= r.high /\ (HasSyn(r) => HasSyn(t))
      BY <1>1, <2>2, <3>3, <3>7, <3>8 DEF Good, Typed, Same
    <3>10. Kept(s, r)
      BY <2>2, <2>6, <3>5, <3>6, <3>7, <3>8, <3>9, Zenon DEF Kept, Opened, Same, Ended
    <3>11. Becomes(e, r)
      BY <2>1, <2>9
    <3> QED
      BY <2>1, <2>2, <3>5, <3>7, <3>8, <3>10, <3>11, LocalStep DEF s, Same
  <2> QED
    BY <2>8, <2>9
<1>7. CASE Close(e)
  <2> DEFINE u == CloseSocket(s)
             r == [u EXCEPT !.closed = TRUE]
  <2>1. Becomes(e, r) /\ forking' = forking /\ Held(e)
    BY <1>7 DEF Close
  <2> HIDE DEF s
  <2>2. Good(u) /\ Own(u, TRUE) /\ Same(s, u)
    BY <1>1, <1>3, <2>1, OwnWhileClosing, CloseSocketGood, CloseSocketOwn
  <2>3. u.high = s.high
    <3> DEFINE a == SendEmptyPacket(s, "RST")
               f == SendEmptyPacket(s, "FIN")
    <3>1. a.high = s.high /\ f.high = s.high /\ Good(a) /\ Socket(f)
      BY <1>1, EmptyPacketHigh, EmptyPacketGood DEF Good, Flags
    <3> HIDE DEF a, f
    <3>2. /\ DeallocateEndPoint(a).high = s.high
          /\ CloseAndNotify(DeallocateEndPoint(a)).high = s.high
      BY <3>1 DEF CloseAndNotify, DeallocateEndPoint, Good, Socket
    <3>3. DoClose(s).high = s.high
      BY <3>1, <3>2 DEF DoClose, SendRST, a, f, Good, Socket
    <3> QED
      BY <1>1, <3>2, <3>3 DEF CloseSocket, SendRST, a, Good, Socket
  <2> HIDE DEF u
  <2>4. /\ r.out = u.out /\ r.high = u.high /\ r.rx = u.rx /\ r.head = u.head /\ r.got = u.got
        /\ r.state = u.state /\ r.bound = u.bound /\ r.wrote = u.wrote /\ r.closed /\ Typed(r)
    BY <2>2 DEF Good, Socket, Typed
  <2>5. Fields(r, FALSE)
    BY <2>2 DEF Good, Socket, Own, Fields, Opening, FinDue, Ended, FinStates
  <2> HIDE DEF r
  <2>6. Sent(r, FALSE) /\ Ordered(r)
    <3>1. u.rx <= r.rx /\ u.high <= r.high
      BY <2>2, <2>4, SMTT(30) DEF Good, Typed
    <3>2. (r.wrote => u.wrote) /\ (FALSE \/ Ended(r))
      BY <2>4, Zenon DEF Ended
    <3> QED
      BY <2>2, <2>4, <3>1, <3>2, OutKept DEF Good, Own
  <2>7. s.high <= r.high /\ (HasSyn(r) => HasSyn(u))
    BY <1>1, <2>3, <2>4 DEF Good, Typed, HasSyn
  <2>8. Kept(s, r)
    BY <1>1, <2>2, <2>3, <2>4, <2>5, <2>6, <2>7, Zenon DEF Kept, Own, Opened, Same, Ended
  <2>9. e = "server" => (r.bound => s.bound) /\ r.state # "SYN_SENT"
    BY <1>2, <2>2, <2>4 DEF Same
  <2> QED
    BY <2>1, <2>8, <2>9, LocalStep DEF s
<1> QED
  BY <1>4, <1>5, <1>6, <1>7

LEMMA TimerDelivery ==
    ASSUME AllGood, AllGood', Delivery, NEW e \in Ends,
           \/ SendPendingDataEvent(e) \/ RepeatEmptyPacket(e) \/ ReTxTimeoutEmpty(e)
           \/ DelAckTimeout(e) \/ TimeWaitOver(e)
    PROVE  Delivery'
<1> DEFINE s == sock[e]
           n == [s EXCEPT !.retx = "none"]
<1>1. Good(s) /\ Own(s, FALSE)
  BY DEF AllGood, Delivery
<1>2. /\ Socket(n) /\ Typed(n) /\ Own(n, FALSE) /\ Same(s, n) /\ n.high = s.high
      /\ n.state = s.state /\ n.wrote = s.wrote /\ n.next = s.next /\ Ended(n) = Ended(s)
  <2>1. /\ Socket(n) /\ Typed(n) /\ Own(n, FALSE) /\ Same(s, n) /\ n.high = s.high
        /\ n.state = s.state
    BY <1>1, ExpiredOwn
  <2>2. n.wrote = s.wrote /\ n.next = s.next /\ Ended(n) = Ended(s)
    BY <1>1 DEF Good, Socket, Ended
  <2> QED
    BY <2>1, <2>2
<1>3. FinDue(s, FALSE) => FinDue(n, FALSE)
  <2> HIDE DEF n
  <2> QED
    BY <1>2 DEF FinDue
<1>4. CASE SendPendingDataEvent(e)
  <2> DEFINE t == [s EXCEPT !.sendEvent = FALSE]
             r == SendPendingData(t)
  <2>1. Becomes(e, r) /\ forking' = forking /\ s.sendEvent
    BY <1>4 DEF SendPendingDataEvent
  <2>2. s.high >= 1
    BY <1>1, <2>1 DEF Good, Typed, Own, Fields, Opening
  <2>3. Good(t)
    BY <1>1 DEF Good, Socket, Typed, Guarded
  <2>4. Own(t, FALSE) /\ Same(s, t) /\ t.high = s.high
    BY <1>1, ExpiredOwn
  <2> HIDE DEF s, t
  <2>5. Own(r, FALSE) /\ Same(t, r) /\ Good(r)
    BY <2>2, <2>3, <2>4, PendingDataOwn, PendingDataGood
  <2> HIDE DEF r
  <2>6. Same(s, r) /\ s.high # 0
    BY <1>1, <2>2, <2>3, <2>4, <2>5, SameTrans DEF Good
  <2> QED
    BY <2>1, <2>5, <2>6, SameStep DEF s
<1>5. CASE RepeatEmptyPacket(e)
  <2> DEFINE r == SendEmptyPacket(n, s.retx)
  <2>1. Becomes(e, r) /\ forking' = forking /\ s.retx \in {"SYN", "SYNACK", "FIN"}
    BY <1>5 DEF RepeatEmptyPacket
  <2>2. MayEmit(n, FALSE, s.retx)
    <3>1. s.retx = "FIN" => FinDue(s, FALSE)
      BY <1>1 DEF Own, Fields
    <3>2. s.retx \in {"SYN", "SYNACK"} => s.high = 0
      BY <1>1 DEF Own, Fields, Good, Typed
    <3> HIDE DEF n, s
    <3> QED
      BY <1>2, <1>3, <2>1, <3>1, <3>2 DEF MayEmit
  <2> HIDE DEF n, s
  <2>3. Own(r, FALSE) /\ Same(n, r) /\ Good(r) /\ r.high = n.high
    <3>1. s.retx \in Flags
      BY <2>1 DEF Flags
    <3> QED
      BY <1>2, <2>1, <2>2, <3>1, EmptyPacketOwn, EmptyPacketGood, EmptyPacketHigh
  <2> HIDE DEF r
  <2>4. Same(s, r)
    BY <1>1, <1>2, <2>3, SameTrans DEF Good
  <2> QED
    BY <1>2, <2>1, <2>3, <2>4, SameStep DEF s
<1>6. CASE ReTxTimeoutEmpty(e)
  <2> DEFINE b == n.state \in {"FIN_WAIT_1", "CLOSING"}
             r == SendEmptyPacket(n, "FIN")
  <2>1. Becomes(e, IF b THEN r ELSE n) /\ forking' = forking
    BY <1>6 DEF ReTxTimeoutEmpty
  <2> HIDE DEF n
  <2>2. CASE b
    <3>1. FinDue(n, FALSE)
      BY <1>2, <2>2 DEF Own, Fields, FinStates
    <3>2. Own(r, FALSE) /\ Same(n, r) /\ Good(r) /\ r.high = n.high
      BY <1>2, <3>1, EmptyPacketOwn, EmptyPacketGood, EmptyPacketHigh DEF MayEmit, Flags
    <3> HIDE DEF r, s
    <3>3. Same(s, r)
      BY <1>1, <1>2, <3>2, SameTrans DEF Good
    <3> QED
      BY <1>2, <2>1, <2>2, <3>2, <3>3, SameStep DEF s
  <2>3. CASE ~b
    BY <1>2, <2>1, <2>3, SameStep
  <2> QED
    BY <2>2, <2>3
<1>7. CASE DelAckTimeout(e)
  <2> DEFINE r == SendEmptyPacket(s, "ACK")
  <2>1. Becomes(e, r) /\ forking' = forking /\ s.delAck # 0
    BY <1>7, ConnectionAssumption DEF DelAckTimeout, AckDelayed
  <2>2. s.high >= 1
    BY <1>1, <2>1 DEF Good, Typed, Own, Fields, Opening
  <2>3. Own(r, FALSE) /\ Same(s, r) /\ r.high = s.high
    BY <1>1, <2>2, EmptyPacketOwn, EmptyPacketHigh DEF MayEmit, Flags, Good
  <2> HIDE DEF r
  <2> QED
    BY <2>1, <2>3, SameStep
<1>8. CASE TimeWaitOver(e)
  <2> DEFINE r == CloseAndNotify(s)
  <2>1. Becomes(e, r) /\ forking' = forking
    BY <1>8 DEF TimeWaitOver
  <2>2. Own(r, FALSE) /\ Same(s, r) /\ r.high = s.high
    BY <1>1, CloseOwn DEF Good, Socket, CloseAndNotify, DeallocateEndPoint
  <2> HIDE DEF r
  <2> QED
    BY <2>1, <2>2, SameStep
<1> QED
  BY <1>4, <1>5, <1>6, <1>7, <1>8

LEMMA CountedOwn ==
    ASSUME NEW s, Socket(s), Typed(s), Own(s, FALSE), s.dataRetrCount # 0
    PROVE  LET t == [s EXCEPT !.dataRetrCount = @ - 1]
           IN  Socket(t) /\ Typed(t) /\ Own(t, FALSE) /\ Same(s, t) /\ t.high = s.high
               /\ t.head = s.head /\ t.state = s.state
<1> DEFINE t == [s EXCEPT !.dataRetrCount = @ - 1]
<1>1. Socket(t) /\ Typed(t)
  BY RetryCounted
<1>2. Same(s, t) /\ t.out = s.out /\ t.high = s.high /\ t.head = s.head /\ t.state = s.state
  BY DEF Socket, Typed, Same, HasSyn
<1>3. Fields(t, FALSE)
  BY DEF Socket, Own, Fields, Opening, FinDue, Ended, FinStates
<1> HIDE DEF t
<1>4. Own(t, FALSE)
  BY <1>1, <1>2, <1>3, OutSame DEF Own
<1> QED
  BY <1>1, <1>2, <1>4 DEF t

LEMMA RetryDelivery ==
    ASSUME AllGood, AllGood', Delivery, NEW e \in Ends, ReTxTimeout(e) \/ LastAckTimeout(e)
    PROVE  Delivery'
<1>1. Good(sock[e]) /\ Own(sock[e], FALSE)
  BY DEF AllGood, Delivery
<1>2. CASE ReTxTimeout(e)
  <2> DEFINE s == sock[e]
             n == [s EXCEPT !.retx = "none"]
             t == [n EXCEPT !.dataRetrCount = @ - 1]
             d == SendDataPacket(t, n.head)
             g == DeallocateEndPoint(n)
  <2>1. /\ Becomes(e, IF n.dataRetrCount = 0 THEN g ELSE d) /\ forking' = forking
        /\ s.retx = "DATA" /\ Size(n) > 0
    BY <1>2 DEF ReTxTimeout
  <2>2. s.high >= 1
    BY <1>1, <2>1 DEF Good, Typed, Own, Fields, Opening
  <2> HIDE DEF s
  <2>3. /\ Socket(n) /\ Typed(n) /\ Own(n, FALSE) /\ Same(s, n) /\ n.high = s.high
        /\ n.head = s.head
    BY <1>1, ExpiredOwn DEF s
  <2> HIDE DEF n
  <2>4. n.head = 1
    BY <2>1, <2>3 DEF Size, Own, Fields, Typed
  <2>5. CASE n.dataRetrCount = 0
    <3>1. Own(g, FALSE) /\ Same(n, g) /\ g.high = n.high /\ Typed(g)
      BY <2>3, DeallocateOwn, DeallocateGood DEF Socket, DeallocateEndPoint, Good
    <3> HIDE DEF g
    <3>2. Same(s, g)
      BY <1>1, <2>3, <3>1, SameTrans DEF Good, s
    <3> QED
      BY <2>1, <2>3, <2>5, <3>1, <3>2, SameStep DEF s
  <2>6. CASE n.dataRetrCount # 0
    <3>1. /\ Socket(t) /\ Typed(t) /\ Own(t, FALSE) /\ Same(n, t) /\ t.high >= 1 /\ t.head = 1
      BY <2>2, <2>3, <2>4, <2>6, CountedOwn
    <3> HIDE DEF t
    <3>2. d = SendDataPacket(t, 1)
      BY <2>4
    <3>3. Own(d, FALSE) /\ Same(t, d) /\ Typed(d)
      BY <3>1, <3>2, DataPacketOwn, DataPacketGood DEF Good
    <3> HIDE DEF d
    <3>4. Same(s, d) /\ s.high # 0
      <4>1. Same(s, t)
        BY <1>1, <2>3, <3>1, SameTrans DEF Good, s
      <4> QED
        BY <1>1, <2>2, <3>1, <3>3, <4>1, SameTrans DEF Good, s
    <3> QED
      BY <2>1, <2>6, <3>3, <3>4, SameStep DEF s
  <2> QED
    BY <2>5, <2>6
<1>3. CASE LastAckTimeout(e)
  <2> DEFINE s == sock[e]
             n == [s EXCEPT !.lastAck = FALSE]
             t == [n EXCEPT !.dataRetrCount = @ - 1]
             u == SendEmptyPacket(t, "FIN")
             d == [u EXCEPT !.lastAck = TRUE]
             g == DeallocateEndPoint(n)
             r == CASE n.state # "LAST_ACK" -> n
                    [] n.state = "LAST_ACK" /\ n.dataRetrCount = 0 -> g
                    [] OTHER -> d
  <2>1. Becomes(e, r) /\ forking' = forking
    BY <1>3 DEF LastAckTimeout
  <2> HIDE DEF s
  <2>2. Socket(n) /\ Typed(n) /\ Own(n, FALSE) /\ Same(s, n) /\ n.high = s.high
    BY <1>1, ExpiredOwn DEF s
  <2> HIDE DEF n
  <2>3. Own(g, FALSE) /\ Same(n, g) /\ g.high = n.high /\ Typed(g)
    BY <2>2, DeallocateOwn, DeallocateGood DEF Socket, DeallocateEndPoint, Good
  <2> HIDE DEF g
  <2>4. ASSUME n.state = "LAST_ACK", n.dataRetrCount # 0
        PROVE  Own(d, FALSE) /\ Same(n, d) /\ d.high = n.high /\ Typed(d)
    <3>1. /\ Socket(t) /\ Typed(t) /\ Own(t, FALSE) /\ Same(n, t) /\ t.high = n.high
          /\ t.state = "LAST_ACK"
      BY <2>2, <2>4, CountedOwn
    <3> HIDE DEF t
    <3>2. FinDue(t, FALSE)
      BY <3>1 DEF Own, Fields, FinStates
    <3>3. Good(u) /\ Own(u, FALSE) /\ Same(t, u) /\ u.high = t.high /\ u.high >= 1
      <4>1. MayEmit(t, FALSE, "FIN") /\ "FIN" \in Flags /\ t.high >= 1
        BY <3>2 DEF MayEmit, Flags, FinDue
      <4> QED
        BY <3>1, <4>1, EmptyPacketOwn, EmptyPacketGood, EmptyPacketHigh
    <3> HIDE DEF u
    <3>4. Typed(d) /\ Same(u, d) /\ d.out = u.out /\ d.high = u.high
      BY <3>3 DEF Good, Socket, Typed, Same, HasSyn
    <3>5. Fields(d, FALSE)
      BY <3>3 DEF Good, Socket, Own, Fields, FinDue, Ended, FinStates, Typed
    <3> HIDE DEF d
    <3>6. Own(d, FALSE)
      BY <3>3, <3>4, <3>5, OutSame DEF Own, Good
    <3>7. Same(n, u)
      BY <2>2, <3>1, <3>3, SameTrans DEF Good
    <3> QED
      BY <2>2, <3>1, <3>3, <3>4, <3>6, <3>7, SameTrans DEF Good
  <2> HIDE DEF d
  <2>5. Own(r, FALSE) /\ Same(n, r) /\ r.high = n.high /\ Typed(r)
    BY <2>2, <2>3, <2>4, SameItself
  <2> HIDE DEF r
  <2>6. Same(s, r)
    BY <1>1, <2>2, <2>5, SameTrans DEF Good, s
  <2> QED
    BY <2>1, <2>2, <2>5, <2>6, SameStep DEF s
<1> QED
  BY <1>2, <1>3

LEMMA StepDelivery == AllGood /\ AllGood' /\ Delivery /\ [Next]_vars => Delivery'
<1> SUFFICES ASSUME AllGood, AllGood', Delivery, [Next]_vars PROVE Delivery'
  OBVIOUS
<1>1. CASE UNCHANGED vars
  <2>1. sock' = sock /\ forking' = forking
    BY <1>1 DEF vars
  <2> QED
    BY <2>1 DEF Delivery, Handshake, Early, Settlement
<1>2. CASE Next
  BY <1>2, ConnectDelivery, CompleteForkDelivery, ArrivalDelivery, ApplicationDelivery,
     TimerDelivery, RetryDelivery DEF Next
<1> QED
  BY <1>1, <1>2

\* What the proofs above keep, together.
Inv == AllGood /\ Delivery

LEMMA InvKept == Spec => []Inv
<1>1. Init => Inv
  BY InitGood, InitDelivery DEF Inv
<1>2. Inv /\ [Next]_vars => Inv'
  BY StepGood, StepDelivery DEF Inv
<1> QED
  BY <1>1, <1>2, PTL DEF Spec

----------------------------------------------------------------------------
(* FinGuarded.  Its part for LAST_ACK depends on how the socket came there: *)
(* DoPeerClose schedules LastAckTimeout, SendDataPacket sends the FIN with  *)
(* the data it starts the timer for, and ShutdownSend finds the buffer      *)
(* empty and no timer running.  Answers says so of a socket, and each       *)
(* handler keeps it.                                                        *)

\* The states before the handshake is over.
Openings == {"CLOSED", "SYN_SENT", "SYN_RCVD"}

\* What FinGuarded needs besides Guarded: in LAST_ACK the FIN has an event of
\* its own, or rides with data that waits to be repeated, unless the application
\* called Close.  For that, no timer for data runs with the buffer empty where a
\* FIN may still be asked for, no timer for a SYN outlives the handshake, and
\* only an end of data makes a FIN possible.
Answers(s) ==
    /\ s.bound /\ s.state = "LAST_ACK" /\ ~s.closed => RepeatsFin(s)
    /\ s.bound /\ s.state \in {"ESTABLISHED", "CLOSE_WAIT"} /\ s.head = s.tail /\ ~Ended(s)
          => s.retx # "DATA"
    /\ s.bound /\ s.state \notin Openings => s.retx \notin {"SYN", "SYNACK"}
    /\ s.state \in FinStates \/ s.closeOnEmpty => Ended(s)
    /\ s.shutdownSend => s.closeOnEmpty

\* A socket that data or a FIN may reach.
Receives(s) == s.state \notin Openings \/ (s.state = "SYN_RCVD" /\ s.retx = "none")

\* What the receiving handlers leave of s in u.
Onward(s, u) ==
    /\ Answers(u) /\ Receives(u)
    /\ s.state \notin Openings => u.state \notin Openings

\* A socket that is gone has nothing to repeat.
LEMMA DeallocateAnswers ==
    ASSUME NEW s, Good(s), Answers(s)
    PROVE  Answers(DeallocateEndPoint(s)) /\ Answers(CloseAndNotify(s))
<1>1. Answers(DeallocateEndPoint(s))
  BY DEF DeallocateEndPoint, Good, Socket, Answers, Ended, FinStates
<1>2. Answers(CloseAndNotify(s))
  BY DEF CloseAndNotify, DeallocateEndPoint, Good, Socket, Answers, Ended, FinStates
<1> QED
  BY <1>1, <1>2

\* An empty packet that is no SYN starts the timer for a FIN, if any.
LEMMA EmptyAnswers ==
    ASSUME NEW s, Socket(s), NEW f, f \notin {"SYN", "SYNACK"}
    PROVE  LET u == SendEmptyPacket(s, f)
           IN  /\ u.state = s.state /\ u.bound = s.bound
               /\ u.head = s.head /\ u.tail = s.tail /\ u.lastAck = s.lastAck
               /\ u.closed = s.closed /\ u.shutdownSend = s.shutdownSend
               /\ u.closeOnEmpty = s.closeOnEmpty
               /\ u.retx = IF s.bound /\ s.retx = "none" /\ f = "FIN" THEN "FIN" ELSE s.retx
BY DEF SendEmptyPacket, Emit, Socket

\* Of what matters here, u has all that s has.
Alike(s, u) ==
    /\ u.state = s.state /\ u.bound = s.bound
    /\ u.head = s.head /\ u.tail = s.tail /\ u.lastAck = s.lastAck
    /\ u.closed = s.closed /\ u.shutdownSend = s.shutdownSend
    /\ u.closeOnEmpty = s.closeOnEmpty /\ u.retx = s.retx

LEMMA AlikeAnswers ==
    ASSUME NEW s, NEW u, Alike(s, u), Answers(s)
    PROVE  Answers(u) /\ (Receives(s) => Onward(s, u))
<1>1. Answers(u)
  BY DEF Alike, Answers, Ended, RepeatsFin, Size
<1> QED
  BY <1>1 DEF Alike, Onward, Receives

LEMMA AckAlike == ASSUME NEW s, Socket(s) PROVE Alike(s, SendEmptyPacket(s, "ACK"))
<1> DEFINE u == SendEmptyPacket(s, "ACK")
<1>1. /\ u.state = s.state /\ u.bound = s.bound
      /\ u.head = s.head /\ u.tail = s.tail /\ u.lastAck = s.lastAck
      /\ u.closed = s.closed /\ u.shutdownSend = s.shutdownSend
      /\ u.closeOnEmpty = s.closeOnEmpty /\ u.retx = s.retx
  BY EmptyAnswers
<1> HIDE DEF u
<1> QED
  BY <1>1 DEF Alike, u

LEMMA RstAnswers ==
    ASSUME NEW s, Good(s), Answers(s)
    PROVE  Answers(SendRST(s)) /\ Answers(CloseAndNotify(SendRST(s))) /\ ~SendRST(s).bound
<1> DEFINE u == SendEmptyPacket(s, "RST")
<1>1. Good(u)
  BY EmptyPacketGood DEF Good, Flags
<1>2. Answers(u)
  <2>1. /\ u.state = s.state /\ u.bound = s.bound
        /\ u.head = s.head /\ u.tail = s.tail /\ u.lastAck = s.lastAck
        /\ u.closed = s.closed /\ u.shutdownSend = s.shutdownSend
        /\ u.closeOnEmpty = s.closeOnEmpty /\ u.retx = s.retx
    BY EmptyAnswers DEF Good
  <2> HIDE DEF u
  <2> QED
    BY <2>1, AlikeAnswers DEF Alike
<1> HIDE DEF u
<1>3. SendRST(s) = DeallocateEndPoint(u)
  BY DEF SendRST, u
<1>4. Good(DeallocateEndPoint(u)) /\ Answers(DeallocateEndPoint(u)) /\ ~DeallocateEndPoint(u).bound
  <2>1. ~DeallocateEndPoint(u).bound
    BY <1>1 DEF DeallocateEndPoint, Good, Socket
  <2> QED
    BY <1>1, <1>2, <2>1, DeallocateGood, DeallocateAnswers DEF Good
<1> QED
  BY <1>3, <1>4, DeallocateAnswers

\* Data that takes the FIN along is repeated with it.
LEMMA DataAnswers ==
    ASSUME NEW s, Socket(s), Typed(s), NEW seq, Size(s) > 0, s.state \notin Openings, s.bound,
           Answers(s) \/ (s.retx = "none" /\ Answers([s EXCEPT !.retx = "DATA"]))
    PROVE  Answers(SendDataPacket(s, seq)) /\ SendDataPacket(s, seq).state \notin Openings
<1> DEFINE u == SendDataPacket(s, seq)
           last == s.closeOnEmpty /\ seq + 1 = s.tail
<1>1. /\ u.bound = s.bound /\ u.head = s.head /\ u.tail = s.tail
      /\ u.lastAck = s.lastAck /\ u.closed = s.closed /\ u.shutdownSend = s.shutdownSend
      /\ u.closeOnEmpty = s.closeOnEmpty
      /\ u.retx = IF s.retx = "none" THEN "DATA" ELSE s.retx
      /\ u.state = CASE last /\ s.state = "ESTABLISHED" -> "FIN_WAIT_1"
                     [] last /\ s.state = "CLOSE_WAIT" -> "LAST_ACK"
                     [] OTHER -> s.state
  BY DEF SendDataPacket, Socket
<1> DEFINE n == [s EXCEPT !.retx = "DATA"]
<1>2. /\ n.state = s.state /\ n.bound = s.bound /\ n.head = s.head /\ n.tail = s.tail
      /\ n.lastAck = s.lastAck /\ n.closed = s.closed /\ n.shutdownSend = s.shutdownSend
      /\ n.closeOnEmpty = s.closeOnEmpty /\ n.retx = "DATA"
  BY DEF Socket
<1>3. s.head # s.tail
  BY DEF Size, Typed
<1> HIDE DEF u, n
<1>4. Size(u) > 0 /\ Size(n) > 0
  BY <1>1, <1>2 DEF Size
<1>5. /\ s.retx \in {"none", "SYN", "SYNACK", "FIN", "DATA"}
      /\ s.state \in States
  BY DEF Typed
<1>6. /\ s.state \in FinStates \/ s.closeOnEmpty => Ended(s)
      /\ s.shutdownSend => s.closeOnEmpty
      /\ s.retx \notin {"SYN", "SYNACK"}
  BY <1>2 DEF Answers, Ended
<1>7. u.state \notin Openings /\ (u.state # s.state => s.closeOnEmpty)
  BY <1>1 DEF Openings
<1>8. u.retx \in {"FIN", "DATA"}
  BY <1>1, <1>5, <1>6
<1>9. ASSUME u.state = "LAST_ACK", ~u.closed PROVE RepeatsFin(u)
  <2>1. CASE s.state = "LAST_ACK"
    <3>1. CASE Answers(s)
      BY <1>1, <1>4, <1>9, <2>1, <3>1, <1>5, <1>8 DEF Answers, RepeatsFin
    <3>2. CASE s.retx = "none" /\ Answers(n)
      BY <1>1, <1>2, <1>4, <1>9, <2>1, <3>2 DEF Answers, RepeatsFin
    <3> QED
      BY <3>1, <3>2 DEF n
  <2>2. CASE s.state # "LAST_ACK"
    BY <1>1, <1>4, <1>7, <1>8, <1>9, <2>2 DEF RepeatsFin
  <2> QED
    BY <2>1, <2>2
<1>10. Ended(u) <=> Ended(s)
  BY <1>1 DEF Ended
<1>11. Answers(u)
  BY <1>1, <1>3, <1>6, <1>7, <1>8, <1>9, <1>10 DEF Answers, FinStates
<1> QED
  BY <1>7, <1>11 DEF u

\* Before the handshake is over, and without an endpoint, data needs nothing.
LEMMA EarlyDataAnswers ==
    ASSUME NEW s, Socket(s), NEW seq, s.state \in Openings \/ ~s.bound,
           s.state \in FinStates \/ s.closeOnEmpty => Ended(s),
           s.shutdownSend => s.closeOnEmpty
    PROVE  Answers(SendDataPacket(s, seq))
<1> DEFINE u == SendDataPacket(s, seq)
           last == s.closeOnEmpty /\ seq + 1 = s.tail
<1>1. /\ u.bound = s.bound /\ u.closed = s.closed /\ u.shutdownSend = s.shutdownSend
      /\ u.closeOnEmpty = s.closeOnEmpty
      /\ u.state = CASE last /\ s.state = "ESTABLISHED" -> "FIN_WAIT_1"
                     [] last /\ s.state = "CLOSE_WAIT" -> "LAST_ACK"
                     [] OTHER -> s.state
  BY DEF SendDataPacket, Socket
<1> HIDE DEF u
<1>2. Ended(u) <=> Ended(s)
  BY <1>1 DEF Ended
<1>3. u.state # s.state => s.closeOnEmpty /\ s.state \notin Openings
  BY <1>1 DEF Openings
<1>4. u.state \in FinStates \/ u.closeOnEmpty => Ended(u)
  BY <1>1, <1>2, <1>3
<1>5. u.bound => u.state \in Openings
  BY <1>1, <1>3
<1> QED
  BY <1>1, <1>4, <1>5 DEF Answers, u, Openings

LEMMA PendingDataAnswers ==
    ASSUME NEW s, Good(s), Answers(s)
    PROVE  /\ Answers(SendPendingData(s))
           /\ s.state \notin Openings => SendPendingData(s).state \notin Openings
<1>1. CASE s.state \in Openings
  BY <1>1, EarlyDataAnswers DEF SendPendingData, Good, Answers
<1>2. CASE s.state \notin Openings
  BY <1>2, DataAnswers DEF SendPendingData, Good
<1> QED
  BY <1>1, <1>2

\* DoPeerClose: LastAckTimeout guards the FIN that answers one.
LEMMA DoPeerCloseAnswers ==
    ASSUME NEW s, Good(s), Answers(s), Receives(s)
    PROVE  Onward(s, DoPeerClose(s))
<1> DEFINE t == [s EXCEPT !.state = "CLOSE_WAIT"]
           f == SendEmptyPacket(t, "FIN")
           u == IF s.shutdownSend THEN CloseSocket(t) ELSE SendEmptyPacket(t, "ACK")
<1>1. /\ t.state = "CLOSE_WAIT" /\ t.bound = s.bound /\ t.head = s.head /\ t.tail = s.tail
      /\ t.lastAck = s.lastAck /\ t.closed = s.closed /\ t.shutdownSend = s.shutdownSend
      /\ t.closeOnEmpty = s.closeOnEmpty /\ t.retx = s.retx
  BY DEF Good, Socket
<1>2. Good(t)
  BY DEF Good, Socket, Typed, Guarded, States
<1>3. Answers(t)
  <2>1. Ended(t) <=> Ended(s)
    BY <1>1 DEF Ended
  <2>2. s.bound => s.retx \notin {"SYN", "SYNACK"}
    BY DEF Answers, Receives
  <2>3. s.bound /\ s.head = s.tail /\ ~Ended(s) => s.retx # "DATA"
    <3>1. s.state \in States
      BY DEF Good, Typed
    <3>2. s.state \in {"ESTABLISHED", "CLOSE_WAIT"} \/ s.state \in FinStates \/ s.retx = "none"
      BY <3>1 DEF Receives, States, FinStates, Openings
    <3> QED
      BY <3>2 DEF Answers
  <2> HIDE DEF t
  <2> QED
    BY <1>1, <2>1, <2>2, <2>3 DEF Answers, FinStates
<1> HIDE DEF t
<1>4. CASE ~s.shutdownSend
  <2>1. DoPeerClose(s) = SendEmptyPacket(t, "ACK")
    <3>1. SendEmptyPacket(t, "ACK").state = "CLOSE_WAIT"
      BY <1>1, <1>2, EmptyAnswers DEF Good
    <3> QED
      BY <1>4, <3>1 DEF DoPeerClose, t
  <2>2. Onward(t, SendEmptyPacket(t, "ACK"))
    BY <1>1, <1>2, <1>3, AckAlike, AlikeAnswers DEF Good, Receives, Openings
  <2> QED
    BY <1>1, <2>1, <2>2 DEF Onward, Openings
<1>5. CASE s.shutdownSend
  <2>1. CASE t.unread
    <3>1. CloseSocket(t) = SendRST(t)
      BY <2>1 DEF CloseSocket
    <3>2. SendRST(t).state = "CLOSE_WAIT"
      <4>1. SendEmptyPacket(t, "RST").state = "CLOSE_WAIT"
        BY <1>1, <1>2, EmptyAnswers DEF Good
      <4>2. Socket(SendEmptyPacket(t, "RST"))
        BY <1>2, EmptyPacketGood DEF Good, Flags
      <4> QED
        BY <4>1, <4>2 DEF SendRST, DeallocateEndPoint, Socket
    <3>3. DoPeerClose(s) = SendRST(t)
      BY <1>5, <3>1, <3>2 DEF DoPeerClose, t
    <3> QED
      BY <1>2, <1>3, <3>2, <3>3, RstAnswers DEF Onward, Receives, Openings
  <2>2. CASE ~t.unread /\ Unsent(t) > 0
    <3> DEFINE v == [t EXCEPT !.closeOnEmpty = TRUE]
    <3>1. /\ v.state = "CLOSE_WAIT" /\ v.bound = t.bound /\ v.head = t.head /\ v.tail = t.tail
          /\ v.lastAck = t.lastAck /\ v.closed = t.closed /\ v.shutdownSend = t.shutdownSend
          /\ v.closeOnEmpty /\ v.retx = t.retx
      BY <1>1, <1>2 DEF Good, Socket
    <3>2. CloseSocket(t) = v
      BY <2>2 DEF CloseSocket
    <3> HIDE DEF v
    <3>3. DoPeerClose(s) = v
      BY <1>5, <3>1, <3>2 DEF DoPeerClose, t
    <3>4. Answers(v)
      BY <1>1, <1>3, <1>5, <3>1 DEF Answers, Ended, FinStates, Openings
    <3> QED
      BY <3>1, <3>3, <3>4 DEF Onward, Receives, Openings
  <2>3. CASE ~t.unread /\ ~(Unsent(t) > 0)
    <3> DEFINE v == [f EXCEPT !.state = "LAST_ACK"]
               w == [v EXCEPT !.dataRetrCount = DataRetries, !.lastAck = TRUE]
    <3>1. CloseSocket(t) = v
      BY <1>1, <2>3 DEF CloseSocket, DoClose
    <3>2. Socket(f)
      BY <1>2, EmptyPacketGood DEF Good, Flags
    <3>3. /\ f.bound = t.bound /\ f.closed = t.closed /\ f.shutdownSend = t.shutdownSend
          /\ f.closeOnEmpty = t.closeOnEmpty
          /\ f.retx = IF t.bound /\ t.retx = "none" THEN "FIN" ELSE t.retx
      BY <1>2, EmptyAnswers DEF Good
    <3> HIDE DEF f
    <3>4. /\ v.state = "LAST_ACK" /\ w.state = "LAST_ACK" /\ w.bound = f.bound /\ w.lastAck
          /\ w.closed = f.closed /\ w.shutdownSend = f.shutdownSend
          /\ w.closeOnEmpty = f.closeOnEmpty /\ w.retx = f.retx
      BY <3>2 DEF Socket
    <3> HIDE DEF v, w
    <3>5. DoPeerClose(s) = w
      BY <1>5, <3>1, <3>4 DEF DoPeerClose, t, w
    <3>6. Answers(w)
      BY <1>1, <1>3, <1>5, <3>3, <3>4 DEF Answers, RepeatsFin, Ended, FinStates, Openings
    <3> QED
      BY <3>4, <3>5, <3>6 DEF Onward, Receives, Openings
  <2> QED
    BY <2>1, <2>2, <2>3
<1> QED
  BY <1>4, <1>5

LEMMA AddAlike == ASSUME NEW s, Good(s), NEW p PROVE Alike(s, Add(s, p))
BY DEF Add, Good, Socket, Alike

LEMMA SetFinAlike == ASSUME NEW s, Good(s), NEW seq PROVE Alike(s, SetFinSequence(s, seq))
BY DEF SetFinSequence, Good, Socket, Alike

LEMMA OnwardItself == ASSUME NEW s, Answers(s), Receives(s) PROVE Onward(s, s)
BY DEF Onward

LEMMA OnwardTrans ==
    ASSUME NEW s, NEW t, NEW u, Onward(s, t), Onward(t, u)
    PROVE  Onward(s, u)
BY DEF Onward

LEMMA ReceivedDataAnswers ==
    ASSUME NEW s, Good(s), Answers(s), Receives(s), NEW p \in Packets
    PROVE  Onward(s, ReceivedData(s, p))
<1> DEFINE t == Add(s, p)
           d == [t EXCEPT !.delAck = @ + 1]
<1>1. Good(t) /\ Onward(s, t) /\ Answers(t) /\ Receives(t)
  BY AddGood, AddAlike, AlikeAnswers DEF Onward
<1> HIDE DEF t
<1>2. Onward(s, SendEmptyPacket(s, "ACK")) /\ Onward(s, SendEmptyPacket(t, "ACK"))
  <2>1. Onward(s, SendEmptyPacket(s, "ACK")) /\ Onward(t, SendEmptyPacket(t, "ACK"))
    BY <1>1, AckAlike, AlikeAnswers DEF Good
  <2> QED
    BY <1>1, <2>1, OnwardTrans
<1>3. Onward(s, DoPeerClose(t))
  BY <1>1, DoPeerCloseAnswers, OnwardTrans
<1>4. Onward(s, d)
  <2>1. Alike(t, d)
    BY <1>1 DEF Good, Socket, Alike
  <2> HIDE DEF d
  <2> QED
    BY <1>1, <2>1, AlikeAnswers, OnwardTrans
<1> QED
  BY <1>2, <1>3, <1>4 DEF ReceivedData, t

LEMMA PeerCloseAnswers ==
    ASSUME NEW s, Good(s), Answers(s), Receives(s), NEW p \in Packets
    PROVE  Onward(s, PeerClose(s, p))
<1> DEFINE n == p.seq + p.len
           t == SetFinSequence(s, n)
           u == IF p.len > 0 THEN ReceivedData(t, p) ELSE t
           c == [u EXCEPT !.state = "CLOSING"]
<1>1. n \in Nat
  BY DEF Packets
<1> HIDE DEF n
<1>2. Good(t) /\ Onward(s, t) /\ Answers(t) /\ Receives(t)
  BY <1>1, SetFinGood, SetFinAlike, AlikeAnswers DEF Onward
<1> HIDE DEF t
<1>3. Good(u) /\ Onward(s, u) /\ Answers(u) /\ Receives(u)
  <2>1. Onward(t, u)
    BY <1>2, ReceivedDataAnswers, OnwardItself
  <2> QED
    BY <1>2, <2>1, ReceivedDataGood, OnwardTrans DEF Onward
<1>4. Onward(s, DoPeerClose(u))
  BY <1>3, DoPeerCloseAnswers, OnwardTrans
<1> HIDE DEF u
<1>5. u.state = "FIN_WAIT_1" => Onward(s, c)
  <2> SUFFICES ASSUME u.state = "FIN_WAIT_1" PROVE Onward(s, c)
    OBVIOUS
  <2>1. /\ c.state = "CLOSING" /\ c.bound = u.bound /\ c.retx = u.retx
        /\ c.closed = u.closed /\ c.shutdownSend = u.shutdownSend
        /\ c.closeOnEmpty = u.closeOnEmpty
    BY <1>3 DEF Good, Socket
  <2> HIDE DEF c
  <2>2. Answers(c)
    BY <1>3, <2>1 DEF Answers, Ended, FinStates, Openings
  <2> QED
    BY <2>1, <2>2 DEF Onward, Receives, Openings
<1>6. Onward(s, s)
  BY OnwardItself
<1> QED
  BY <1>3, <1>4, <1>5, <1>6 DEF PeerClose, t, n, u

\* The ACK of all data stops the timer, but for a FIN.
LEMMA ProcessAckAnswers ==
    ASSUME NEW s, Good(s), Answers(s), s.state \notin Openings, s.state # "LAST_ACK",
           NEW ack \in Nat
    PROVE  Answers(ProcessAck(s, ack)) /\ ProcessAck(s, ack).state = s.state
<1> DEFINE d == DiscardUpTo(s, ack)
           n == NewAck(d, ack)
           m == [s EXCEPT !.next = ack]
<1>1. CASE ack > s.head
  <2>1. /\ Good(d) /\ d.state = s.state /\ d.bound = s.bound /\ d.closed = s.closed
        /\ d.shutdownSend = s.shutdownSend /\ d.closeOnEmpty = s.closeOnEmpty
        /\ d.lastAck = s.lastAck
    BY DEF DiscardUpTo, Good, Socket, Typed, Guarded
  <2> HIDE DEF d
  <2>2. /\ n.state = d.state /\ n.bound = d.bound /\ n.closed = d.closed
        /\ n.shutdownSend = d.shutdownSend /\ n.closeOnEmpty = d.closeOnEmpty
        /\ n.head = d.head /\ n.tail = d.tail
        /\ n.retx = IF Size(d) = 0 /\ d.state \notin {"FIN_WAIT_1", "CLOSING"}
                    THEN "none" ELSE "DATA"
    BY <2>1 DEF NewAck, Good, Socket
  <2>3. d.head = d.tail => Size(d) = 0
    BY <2>1 DEF Size, Good, Typed
  <2>4. ProcessAck(s, ack) = n
    BY <1>1 DEF ProcessAck, d
  <2> HIDE DEF n
  <2>5. Answers(n)
    BY <2>1, <2>2, <2>3 DEF Answers, Ended
  <2> QED
    BY <2>1, <2>2, <2>4, <2>5
<1>2. Answers(m) /\ m.state = s.state
  <2>1. Alike(s, m)
    BY DEF Good, Socket, Alike
  <2> HIDE DEF m
  <2> QED
    BY <2>1, AlikeAnswers DEF Alike
<1> QED
  BY <1>1, <1>2 DEF ProcessAck

LEMMA ReceivedAckAnswers ==
    ASSUME NEW s, Good(s), Answers(s), s.state \notin Openings, s.state # "LAST_ACK",
           NEW p \in Packets
    PROVE  Onward(s, ReceivedAck(s, p))
<1> DEFINE t == ProcessAck(s, p.ack)
           u == IF p.len > 0 THEN ReceivedData(t, p) ELSE t
<1>1. Good(t) /\ Answers(t) /\ Receives(t) /\ t.state \notin Openings
  BY ProcessAckGood, ProcessAckAnswers DEF Packets, Receives
<1> HIDE DEF t
<1>2. Good(u) /\ Answers(u) /\ u.state \notin Openings
  BY <1>1, ReceivedDataGood, ReceivedDataAnswers DEF Onward
<1> HIDE DEF u
<1>3. Answers(SendPendingData(u)) /\ SendPendingData(u).state \notin Openings
  BY <1>2, PendingDataAnswers
<1> QED
  BY <1>2, <1>3 DEF ReceivedAck, t, u, Onward, Receives

\* A socket that was just connected has no event.
LEMMA ConnectedAnswers ==
    ASSUME NEW s, Good(s), Answers(s), s.state \in Openings
    PROVE  LET c == Connected(s)
           IN  /\ Good(c) /\ Answers(c) /\ c.state = "ESTABLISHED" /\ c.retx = "none"
<1> DEFINE c == Connected(s)
<1>1. /\ c.state = "ESTABLISHED" /\ c.retx = "none" /\ c.closed = s.closed
      /\ c.shutdownSend = s.shutdownSend /\ c.closeOnEmpty = s.closeOnEmpty
  BY DEF Connected, Good, Socket
<1>2. Good(c)
  BY ConnectedGood
<1> HIDE DEF c
<1>3. Answers(c)
  BY <1>1 DEF Answers, Ended, FinStates
<1> QED
  BY <1>1, <1>2, <1>3 DEF c

LEMMA SynSentAnswers ==
    ASSUME NEW s, Good(s), Answers(s), s.state = "SYN_SENT", NEW p \in Packets
    PROVE  Answers(ProcessSynSent(s, p))
<1> DEFINE r == [s EXCEPT !.rx = p.seq + 1]
           c == Connected(r)
           a == SendEmptyPacket(c, "ACK")
           t == SendPendingData(a)
           d == [t EXCEPT !.delAck = DelAckMax]
<1>1. Good(r) /\ Answers(r) /\ r.state \in Openings
  <2>1. Alike(s, r)
    BY DEF Good, Socket, Alike
  <2>2. Good(r)
    BY DEF Good, Socket, Typed, Guarded, Packets
  <2> HIDE DEF r
  <2> QED
    BY <2>1, <2>2, AlikeAnswers DEF Alike, Openings
<1> HIDE DEF r
<1>2. Good(c) /\ Answers(c) /\ c.state = "ESTABLISHED"
  BY <1>1, ConnectedAnswers
<1> HIDE DEF c
<1>3. Good(a) /\ Answers(a) /\ a.state = "ESTABLISHED"
  BY <1>2, EmptyPacketGood, AckAlike, AlikeAnswers DEF Good, Flags, Alike
<1> HIDE DEF a
<1>4. Good(t) /\ Answers(t)
  BY <1>3, PendingDataGood, PendingDataAnswers DEF Openings
<1> HIDE DEF t
<1>5. Answers(d)
  <2>1. Alike(t, d)
    BY <1>4 DEF Good, Socket, Alike
  <2> HIDE DEF d
  <2> QED
    BY <1>4, <2>1, AlikeAnswers
<1> QED
  BY <1>5, DeallocateAnswers DEF ProcessSynSent, d, t, a, c, r

\* SendEmptyPacket of a SYN, in a state that has one.
LEMMA SynAnswers ==
    ASSUME NEW s, Good(s), Answers(s), s.state \in Openings, NEW f \in {"SYN", "SYNACK"}
    PROVE  Answers(SendEmptyPacket(s, f))
<1> DEFINE t == [s EXCEPT !.synCount = @ - 1]
           u == Emit(t, f)
<1>1. /\ u.state = s.state /\ u.closed = s.closed /\ u.shutdownSend = s.shutdownSend
      /\ u.closeOnEmpty = s.closeOnEmpty
  BY DEF Emit, Good, Socket
<1> HIDE DEF u
<1>2. Answers(u)
  BY <1>1 DEF Answers, Ended, FinStates, Openings
<1> QED
  BY <1>2, DeallocateAnswers DEF SendEmptyPacket, u

LEMMA SynRcvdAnswers ==
    ASSUME NEW s, Good(s), Answers(s), s.state = "SYN_RCVD", NEW p \in Packets
    PROVE  Answers(ProcessSynRcvd(s, p))
<1> DEFINE c == Connected(s)
           r == [s EXCEPT !.rx = p.seq + 1]
           d == [c EXCEPT !.delAck = DelAckMax]
           b == [c EXCEPT !.state = "SYN_RCVD"]
<1>1. Good(c) /\ Answers(c) /\ c.state = "ESTABLISHED" /\ c.retx = "none"
  BY ConnectedAnswers DEF Openings
<1>2. Good(r) /\ Answers(r) /\ r.state = "SYN_RCVD"
  <2>1. Alike(s, r)
    BY DEF Good, Socket, Alike
  <2>2. Good(r)
    BY DEF Good, Socket, Typed, Guarded, Packets
  <2> HIDE DEF r
  <2> QED
    BY <2>1, <2>2, AlikeAnswers DEF Alike
<1> HIDE DEF c, r
<1>3. Answers(ReceivedAck(d, p))
  <2>1. Alike(c, d)
    BY <1>1 DEF Good, Socket, Alike
  <2>2. Good(d)
    <3>1. DelAckMax \in 0 .. DelAckMax
      BY ConnectionAssumption
    <3> HIDE DEF b
    <3> QED
      BY <1>1, <3>1 DEF Good, Socket, Typed, Guarded
  <2> HIDE DEF d
  <2>3. Answers(d) /\ d.state = "ESTABLISHED"
    BY <1>1, <2>1, AlikeAnswers DEF Alike
  <2> QED
    BY <2>2, <2>3, ReceivedAckAnswers DEF Onward, Openings
<1>4. Answers(PeerClose(b, p))
  <2>1. /\ b.state = "SYN_RCVD" /\ b.retx = "none" /\ b.closed = c.closed
        /\ b.shutdownSend = c.shutdownSend /\ b.closeOnEmpty = c.closeOnEmpty
    BY <1>1 DEF Good, Socket
  <2>2. Good(b)
    BY <1>1 DEF Good, Socket, Typed, Guarded, States
  <2> HIDE DEF b
  <2>3. Answers(b) /\ Receives(b)
    BY <1>1, <2>1 DEF Answers, Receives, Ended, FinStates, Openings
  <2> QED
    BY <2>2, <2>3, PeerCloseAnswers DEF Onward
<1>5. Answers(SendEmptyPacket(r, "SYNACK"))
  BY <1>2, SynAnswers DEF Openings
<1>6. Answers(CloseAndNotify(s)) /\ Answers(CloseAndNotify(SendRST(s)))
  BY DeallocateAnswers, RstAnswers
<1> QED
  BY <1>3, <1>4, <1>5, <1>6 DEF ProcessSynRcvd, c, r

LEMMA EstablishedAnswers ==
    ASSUME NEW s, Good(s), Answers(s), s.state = "ESTABLISHED", NEW p \in Packets
    PROVE  Answers(ProcessEstablished(s, p))
<1>1. Receives(s) /\ s.state \notin Openings
  BY DEF Receives, Openings
<1>2. Answers(SendEmptyPacket(s, "ACK"))
  BY AckAlike, AlikeAnswers DEF Good
<1>3. Answers(ReceivedAck(s, p)) /\ Answers(PeerClose(s, p))
  BY <1>1, ReceivedAckAnswers, PeerCloseAnswers DEF Onward
<1> QED
  BY <1>2, <1>3, DeallocateAnswers DEF ProcessEstablished

\* ProcessWait leaves FIN_WAIT_1 and FIN_WAIT_2 for states that had a FIN, too.
LEMMA ClosingAnswers ==
    ASSUME NEW s, Good(s), Answers(s), s.state \in {"FIN_WAIT_1", "FIN_WAIT_2", "CLOSING"},
           NEW x \in {"FIN_WAIT_2", "CLOSING"}
    PROVE  /\ Answers([s EXCEPT !.state = x]) /\ Answers(TimeWait(s))
           /\ Socket([s EXCEPT !.state = x]) /\ Socket(TimeWait(s))
<1> DEFINE u == [s EXCEPT !.state = x]
           w == TimeWait(s)
<1>1. /\ u.state = x /\ u.bound = s.bound /\ u.retx = s.retx /\ u.closed = s.closed
      /\ u.shutdownSend = s.shutdownSend /\ u.closeOnEmpty = s.closeOnEmpty
  BY DEF Good, Socket
<1>2. /\ w.state = "TIME_WAIT" /\ w.retx = "none" /\ w.closed = s.closed
      /\ w.shutdownSend = s.shutdownSend /\ w.closeOnEmpty = s.closeOnEmpty
  BY DEF TimeWait, Good, Socket
<1>3. Socket(u) /\ Socket(w)
  BY DEF TimeWait, Good, Socket
<1> HIDE DEF u, w
<1>4. Answers(u)
  BY <1>1 DEF Answers, Ended, FinStates, Openings
<1>5. Answers(w)
  BY <1>2 DEF Answers, Ended, FinStates, Openings
<1> QED
  BY <1>3, <1>4, <1>5 DEF u, w

LEMMA WaitAnswers ==
    ASSUME NEW s, Good(s), Answers(s), s.state \in {"FIN_WAIT_1", "FIN_WAIT_2", "CLOSE_WAIT"},
           NEW p \in Packets
    PROVE  Answers(ProcessWait(s, p))
<1> DEFINE r == ReceivedAck(s, p)
           t == WaitForFin(s, p)
           c == [t EXCEPT !.state = "CLOSING"]
<1>1. Good(r) /\ Answers(r)
  BY ReceivedAckGood, ReceivedAckAnswers DEF Onward, Openings
<1> HIDE DEF r
<1>2. Answers(t)
  <2>1. Answers(SetFinSequence(r, p.seq))
    BY <1>1, SetFinAlike, AlikeAnswers
  <2>2. r.state = "FIN_WAIT_1" => Answers([r EXCEPT !.state = "FIN_WAIT_2"])
    BY <1>1, ClosingAnswers
  <2> QED
    BY <1>1, <2>1, <2>2 DEF WaitForFin, FinWhileWaiting, r
<1>3. Good(t)
  BY WaitForFinGood
<1> HIDE DEF t
<1>4. ASSUME t.state \in {"FIN_WAIT_1", "FIN_WAIT_2"}
      PROVE  Answers(SendEmptyPacket(c, "ACK")) /\ Answers(SendEmptyPacket(TimeWait(t), "ACK"))
  <2>1. Answers(c) /\ Answers(TimeWait(t)) /\ Socket(c) /\ Socket(TimeWait(t))
    BY <1>2, <1>3, <1>4, ClosingAnswers
  <2> HIDE DEF c
  <2> QED
    BY <2>1, AckAlike, AlikeAnswers
<1>5. Answers(CloseAndNotify(s))
  BY DeallocateAnswers
<1> QED
  BY <1>2, <1>4, <1>5 DEF ProcessWait, t

LEMMA LastAnswers ==
    ASSUME NEW s, Good(s), Answers(s), NEW p
    PROVE  /\ s.state = "CLOSING" => Answers(ProcessClosing(s, p))
           /\ Answers(ProcessLastAck(s, p))
<1>1. Answers(CloseAndNotify(s)) /\ Answers(CloseAndNotify(SendRST(s)))
  BY DeallocateAnswers, RstAnswers
<1>2. Answers(CloseAndNotify(SendEmptyPacket(s, "ACK")))
  BY AckAlike, AlikeAnswers, EmptyPacketGood, DeallocateAnswers DEF Good, Flags
<1>3. s.state = "CLOSING" => Answers(TimeWait(s))
  BY ClosingAnswers
<1> QED
  BY <1>1, <1>2, <1>3 DEF ProcessClosing, ProcessLastAck

LEMMA DoForwardUpAnswers ==
    ASSUME NEW s, Good(s), Answers(s), NEW p \in Packets
    PROVE  Answers(DoForwardUp(s, p))
BY SynSentAnswers, SynRcvdAnswers, EstablishedAnswers, WaitAnswers, LastAnswers DEF DoForwardUp

\* The actions: each changes one socket, or takes a packet from its peer.
AllAnswers == \A e \in Ends : Answers(sock[e])

LEMMA BecomesAnswers ==
    ASSUME AllGood, AllAnswers, NEW e \in Ends, NEW s, Answers(s), Becomes(e, s)
    PROVE  AllAnswers'
BY DEF AllGood, AllAnswers, Becomes

LEMMA TakesAnswers ==
    ASSUME AllGood, AllAnswers, NEW e \in Ends, NEW s, Answers(s), TakesPacket(e, s)
    PROVE  AllAnswers'
<1> DEFINE q == sock[Peer(e)]
           r == [q EXCEPT !.out = Tail(@)]
<1>1. Good(q) /\ Answers(q)
  BY PeerInEnds DEF AllGood, AllAnswers
<1>2. sock' = [x \in Ends |-> IF x = Peer(e) THEN r ELSE IF x = e THEN s ELSE sock[x]]
  BY PeerInEnds DEF TakesPacket, AllGood
<1> HIDE DEF q
<1>3. Alike(q, r)
  BY <1>1 DEF Good, Socket, Alike
<1> HIDE DEF r
<1>4. Answers(r)
  BY <1>1, <1>3, AlikeAnswers
<1> QED
  BY <1>2, <1>4 DEF AllAnswers

LEMMA NewAnswers == ASSUME NEW e PROVE Answers(NewSocket(e))
BY DEF NewSocket, Answers, FinStates

LEMMA ArrivalAnswers ==
    ASSUME AllGood, AllAnswers, NEW e \in Ends,
           ForwardUp(e) \/ Lose(e) \/ ProcessListen \/ NoEndPoint
    PROVE  AllAnswers'
<1>1. \A x \in Ends : Good(sock[x]) /\ Answers(sock[x])
  BY DEF AllGood, AllAnswers
<1>2. CASE ForwardUp(e)
  <2> DEFINE s == sock[e]
             p == Arrived(e)
             r == IF p.len > 0 /\ OutOfRange(s, p) THEN SendEmptyPacket(s, "ACK")
                  ELSE DoForwardUp(s, p)
  <2>1. TakesPacket(e, r) /\ Good(s) /\ Answers(s) /\ p \in Packets
    BY <1>1, <1>2, ArrivedPacket DEF ForwardUp
  <2> HIDE DEF s, p
  <2>2. Answers(r)
    BY <2>1, AckAlike, AlikeAnswers, DoForwardUpAnswers DEF Good
  <2> HIDE DEF r
  <2> QED
    BY <2>1, <2>2, TakesAnswers
<1>3. CASE Lose(e)
  BY <1>1, <1>3, TakesAnswers DEF Lose
<1>4. CASE ProcessListen
  <2>1. "server" \in Ends
    BY DEF Ends
  <2> QED
    BY <1>1, <1>4, <2>1, TakesAnswers DEF ProcessListen
<1>5. CASE NoEndPoint
  <2> DEFINE s == sock["client"]
             a == Append(s.out, Packet("RST", 0, 0, 0))
             t == [s EXCEPT !.out = a]
             r == IF Arrived("client").flags = "RST" THEN s ELSE t
  <2>1. "client" \in Ends /\ Good(s) /\ Answers(s)
    BY <1>1 DEF Ends
  <2>2. TakesPacket("client", r)
    BY <1>5, <2>1 DEF NoEndPoint, Good, Socket
  <2> HIDE DEF s, a
  <2>3. Alike(s, t)
    BY <2>1 DEF Good, Socket, Alike
  <2> HIDE DEF t
  <2>4. Answers(r)
    BY <2>1, <2>3, AlikeAnswers
  <2> HIDE DEF r
  <2> QED
    BY <2>1, <2>2, <2>4, TakesAnswers
<1> QED
  BY <1>2, <1>3, <1>4, <1>5

LEMMA OpeningAnswers ==
    ASSUME AllGood, AllAnswers, Connect \/ CompleteFork
    PROVE  AllAnswers'
<1>1. CASE Connect
  <2> DEFINE s == sock["client"]
             t == [s EXCEPT !.bound = TRUE, !.synCount = SynRetries,
                            !.dataRetrCount = DataRetries]
             u == SendEmptyPacket(t, "SYN")
             r == [u EXCEPT !.state = "SYN_SENT"]
  <2>1. "client" \in Ends /\ Good(s) /\ s = NewSocket("client") /\ Becomes("client", r)
    BY <1>1 DEF AllGood, Ends, Connect
  <2>2. Good(t) /\ t.state = "CLOSED" /\ Answers(t)
    <3>1. SynRetries \in 0 .. SynRetries /\ DataRetries \in 0 .. DataRetries
      BY ConnectionAssumption
    <3>2. /\ s.state = "CLOSED" /\ ~s.shutdownSend /\ ~s.closeOnEmpty
      BY <2>1 DEF NewSocket
    <3> HIDE DEF s
    <3>3. /\ t.state = "CLOSED" /\ ~t.shutdownSend /\ ~t.closeOnEmpty
      BY <2>1, <3>2 DEF Good, Socket
    <3>4. Good(t)
      BY <2>1, <3>1, <3>2 DEF Good, Socket, Typed, Guarded
    <3> HIDE DEF t
    <3> QED
      BY <3>3, <3>4 DEF Answers, FinStates, Openings
  <2> HIDE DEF s, t
  <2>3. Good(u) /\ Answers(u)
    BY <2>2, SynAnswers, EmptyPacketGood DEF Flags, Openings, Good
  <2> HIDE DEF u
  <2>4. Answers(r)
    <3>1. /\ r.state = "SYN_SENT" /\ r.closed = u.closed /\ r.shutdownSend = u.shutdownSend
          /\ r.closeOnEmpty = u.closeOnEmpty
      BY <2>3 DEF Good, Socket
    <3> HIDE DEF r
    <3> QED
      BY <2>3, <3>1 DEF Answers, Ended, FinStates, Openings
  <2> HIDE DEF r
  <2> QED
    BY <2>1, <2>4, BecomesAnswers
<1>2. CASE CompleteFork
  <2> DEFINE s == sock["server"]
             n == NewSocket("server")
             t == [n EXCEPT !.state = "SYN_RCVD", !.bound = TRUE, !.rx = 1,
                            !.synCount = SynRetries, !.dataRetrCount = DataRetries,
                            !.shutdownSend = sink, !.closeOnEmpty = sink, !.out = s.out]
             r == IF s.bound THEN s ELSE SendEmptyPacket(t, "SYNACK")
  <2>1. "server" \in Ends /\ Good(s) /\ Good(n) /\ Answers(s)
    BY NewSocketGood DEF AllGood, AllAnswers, Ends
  <2>2. Becomes("server", r)
    BY <1>2 DEF CompleteFork
  <2> HIDE DEF s, n
  <2>3. Good(t) /\ Answers(t) /\ t.state \in Openings
    <3>1. SynRetries \in 0 .. SynRetries /\ DataRetries \in 0 .. DataRetries
      BY ConnectionAssumption
    <3>2. t.state = "SYN_RCVD" /\ t.shutdownSend = sink /\ t.closeOnEmpty = sink
      BY <2>1 DEF Good, Socket
    <3>3. Good(t)
      BY <2>1, <3>1 DEF Good, Socket, Typed, Guarded, States
    <3> HIDE DEF t
    <3> QED
      BY <3>2, <3>3 DEF Answers, Ended, FinStates, Openings
  <2> HIDE DEF t
  <2>4. Answers(r)
    BY <2>1, <2>3, SynAnswers
  <2> HIDE DEF r
  <2> QED
    BY <2>1, <2>2, <2>4, BecomesAnswers
<1> QED
  BY <1>1, <1>2

\* Close, before it is recorded that the application closed.
LEMMA CloseAnswers ==
    ASSUME NEW s, Good(s), Answers(s), s.state \notin {"CLOSED", "SYN_RCVD"}
    PROVE  LET u == CloseSocket(s)
           IN  /\ u.shutdownSend => u.closeOnEmpty
               /\ u.bound /\ u.state \notin Openings => u.retx \notin {"SYN", "SYNACK"}
<1> DEFINE f == SendEmptyPacket(s, "FIN")
           c == [s EXCEPT !.closeOnEmpty = TRUE]
<1>1. /\ Socket(f) /\ f.bound = s.bound /\ f.shutdownSend = s.shutdownSend
      /\ f.closeOnEmpty = s.closeOnEmpty
      /\ f.retx = IF s.bound /\ s.retx = "none" THEN "FIN" ELSE s.retx
  BY EmptyAnswers, EmptyPacketGood DEF Good, Flags
<1> HIDE DEF f
<1>2. ASSUME NEW x
      PROVE  LET u == [f EXCEPT !.state = x]
             IN  /\ u.shutdownSend => u.closeOnEmpty
                 /\ u.bound = s.bound
                 /\ u.retx = IF s.bound /\ s.retx = "none" THEN "FIN" ELSE s.retx
  BY <1>1 DEF Answers, Socket
<1>3. /\ c.shutdownSend => c.closeOnEmpty
      /\ c.bound = s.bound /\ c.state = s.state /\ c.retx = s.retx
  BY DEF Good, Socket
<1>4. Answers(SendRST(s)) /\ Answers(CloseAndNotify(SendRST(s)))
  BY RstAnswers
<1> HIDE DEF c
<1>5. s.bound /\ s.state \notin Openings => s.retx \notin {"SYN", "SYNACK"}
  BY DEF Answers
<1>6. LET u == DoClose(s)
      IN  /\ u.shutdownSend => u.closeOnEmpty
          /\ u.bound /\ u.state \notin Openings => u.retx \notin {"SYN", "SYNACK"}
  <2>1. CASE s.state = "ESTABLISHED"
    <3> DEFINE u == [f EXCEPT !.state = "FIN_WAIT_1"]
    <3>1. DoClose(s) = u
      BY <2>1 DEF DoClose, f
    <3>2. /\ u.shutdownSend => u.closeOnEmpty
          /\ u.bound = s.bound
          /\ u.retx = IF s.bound /\ s.retx = "none" THEN "FIN" ELSE s.retx
      BY <1>2
    <3> HIDE DEF u
    <3> QED
      BY <1>5, <2>1, <3>1, <3>2 DEF Openings
  <2>2. CASE s.state = "CLOSE_WAIT"
    <3> DEFINE u == [f EXCEPT !.state = "LAST_ACK"]
    <3>1. DoClose(s) = u
      BY <2>2 DEF DoClose, f
    <3>2. /\ u.shutdownSend => u.closeOnEmpty
          /\ u.bound = s.bound
          /\ u.retx = IF s.bound /\ s.retx = "none" THEN "FIN" ELSE s.retx
      BY <1>2
    <3> HIDE DEF u
    <3> QED
      BY <1>5, <2>2, <3>1, <3>2 DEF Openings
  <2>3. CASE s.state \in {"SYN_SENT", "CLOSING"}
    <3>1. DoClose(s) = CloseAndNotify(SendRST(s))
      BY <2>3 DEF DoClose
    <3> QED
      BY <1>4, <3>1 DEF Answers
  <2>4. CASE s.state \notin {"ESTABLISHED", "CLOSE_WAIT", "SYN_SENT", "CLOSING"}
    <3>1. DoClose(s) = s
      BY <2>4 DEF DoClose
    <3> QED
      BY <3>1 DEF Answers
  <2> QED
    BY <2>1, <2>2, <2>3, <2>4
<1>7. CASE s.unread
  <2>1. CloseSocket(s) = SendRST(s)
    BY <1>7 DEF CloseSocket
  <2> QED
    BY <1>4, <2>1 DEF Answers
<1>8. CASE ~s.unread /\ Unsent(s) > 0
  <2>1. CloseSocket(s) = c
    BY <1>8 DEF CloseSocket, c
  <2> QED
    BY <1>3, <1>5, <2>1
<1>9. CASE ~s.unread /\ ~(Unsent(s) > 0)
  <2>1. CloseSocket(s) = DoClose(s)
    BY <1>9 DEF CloseSocket
  <2> QED
    BY <1>6, <2>1
<1> QED
  BY <1>7, <1>8, <1>9

LEMMA ApplicationAnswers ==
    ASSUME Inv, AllAnswers, NEW e \in Ends, Send(e) \/ Recv(e) \/ ShutdownSend(e) \/ Close(e)
    PROVE  AllAnswers'
<1> DEFINE s == sock[e]
<1>1. AllGood /\ Good(s) /\ Answers(s)
  BY DEF Inv, AllGood, AllAnswers
<1>2. CASE Send(e)
  <2> DEFINE v == s.sendEvent \/ (~s.shutdownSend /\ s.bound
                                  /\ s.state \in {"ESTABLISHED", "CLOSE_WAIT"})
             r == [s EXCEPT !.tail = 2, !.wrote = ~s.shutdownSend, !.sendEvent = v]
  <2>1. /\ Becomes(e, r) /\ s.tail = 1 /\ s.state \in {"ESTABLISHED", "SYN_SENT", "CLOSE_WAIT"}
    BY <1>1, <1>2 DEF Send, Good, Socket
  <2>2. s.head = 1
    BY <2>1 DEF Inv, Delivery, Own, Fields
  <2> HIDE DEF s, v
  <2>3. /\ r.state = s.state /\ r.tail = 2 /\ r.head = 1
        /\ r.closed = s.closed /\ r.shutdownSend = s.shutdownSend
        /\ r.closeOnEmpty = s.closeOnEmpty /\ r.retx = s.retx /\ r.bound = s.bound
    BY <1>1, <2>2 DEF Good, Socket
  <2> HIDE DEF r
  <2>4. Answers(r)
    BY <1>1, <2>1, <2>3 DEF Answers, Ended, FinStates
  <2> QED
    BY <1>1, <2>1, <2>4, BecomesAnswers
<1>3. CASE Recv(e)
  <2> DEFINE r == [s EXCEPT !.unread = FALSE]
  <2>1. Becomes(e, r)
    BY <1>3 DEF Recv
  <2> HIDE DEF s
  <2>2. Alike(s, r)
    BY <1>1 DEF Good, Socket, Alike
  <2> HIDE DEF r
  <2> QED
    BY <1>1, <2>1, <2>2, AlikeAnswers, BecomesAnswers
<1>4. CASE ShutdownSend(e)
  <2> DEFINE t == [s EXCEPT !.shutdownSend = TRUE, !.closeOnEmpty = TRUE]
             u == SendEmptyPacket(t, "FIN")
             f == IF t.state = "ESTABLISHED" THEN "FIN_WAIT_1" ELSE "LAST_ACK"
             w == [u EXCEPT !.state = f]
             r == IF Size(t) = 0 /\ t.state \in {"ESTABLISHED", "CLOSE_WAIT"} THEN w ELSE t
  <2>1. Becomes(e, r) /\ ~s.shutdownSend
    BY <1>4 DEF ShutdownSend
  <2> HIDE DEF s
  <2>2. /\ t.state = s.state /\ t.bound = s.bound /\ t.head = s.head /\ t.tail = s.tail
        /\ t.lastAck = s.lastAck /\ t.closed = s.closed /\ t.shutdownSend
        /\ t.closeOnEmpty /\ t.retx = s.retx
    BY <1>1 DEF Good, Socket
  <2>3. Good(t)
    BY <1>1 DEF Good, Socket, Typed, Guarded
  <2> HIDE DEF t
  <2>4. Answers(t)
    BY <1>1, <2>2 DEF Answers, Ended, RepeatsFin, Size, FinStates
  <2>5. Socket(u)
    BY <2>3, EmptyPacketGood DEF Good, Flags
  <2>6. /\ u.bound = t.bound /\ u.closed = t.closed /\ u.shutdownSend /\ u.closeOnEmpty
        /\ u.retx = IF t.bound /\ t.retx = "none" THEN "FIN" ELSE t.retx
    BY <2>2, <2>3, EmptyAnswers DEF Good
  <2> HIDE DEF u
  <2>7. /\ w.state = f /\ w.bound = u.bound /\ w.closed = u.closed /\ w.shutdownSend
        /\ w.closeOnEmpty /\ w.retx = u.retx
    BY <2>5, <2>6 DEF Socket
  <2> HIDE DEF w
  <2>8. ASSUME Size(t) = 0, t.state \in {"ESTABLISHED", "CLOSE_WAIT"} PROVE Answers(w)
    <3>1. t.head = t.tail
      BY <2>3, <2>8 DEF Size, Good, Typed
    <3>2. t.retx \in {"none", "SYN", "SYNACK", "FIN", "DATA"}
      BY <2>3 DEF Good, Typed
    <3>3. ~t.closed /\ t.bound => t.retx \in {"none", "FIN"}
      BY <1>1, <2>1, <2>2, <2>8, <3>1, <3>2 DEF Answers, Ended, Openings
    <3>4. t.bound => t.retx \notin {"SYN", "SYNACK"}
      BY <2>4, <2>8 DEF Answers, Openings
    <3> QED
      BY <2>6, <2>7, <3>3, <3>4 DEF Answers, RepeatsFin, Ended
  <2>9. Answers(r)
    BY <2>4, <2>8
  <2> HIDE DEF r
  <2> QED
    BY <1>1, <2>1, <2>9, BecomesAnswers
<1>5. CASE Close(e)
  <2> DEFINE u == CloseSocket(s)
             r == [u EXCEPT !.closed = TRUE]
  <2>1. Becomes(e, r) /\ s.state \notin {"CLOSED", "SYN_RCVD"}
    BY <1>5 DEF Close, Held
  <2> HIDE DEF s
  <2>2. Good(u) /\ (u.shutdownSend => u.closeOnEmpty)
        /\ (u.bound /\ u.state \notin Openings => u.retx \notin {"SYN", "SYNACK"})
    BY <1>1, <2>1, CloseSocketGood, CloseAnswers
  <2> HIDE DEF u
  <2>3. /\ r.state = u.state /\ r.bound = u.bound /\ r.retx = u.retx /\ r.closed
        /\ r.shutdownSend = u.shutdownSend /\ r.closeOnEmpty = u.closeOnEmpty
    BY <2>2 DEF Good, Socket
  <2> HIDE DEF r
  <2>4. Answers(r)
    BY <2>2, <2>3 DEF Answers, Ended
  <2> QED
    BY <1>1, <2>1, <2>4, BecomesAnswers
<1> QED
  BY <1>2, <1>3, <1>4, <1>5

\* A socket whose retransmission timer has just expired.
LEMMA ExpiredAnswers ==
    ASSUME NEW s, Good(s), Answers(s)
    PROVE  LET n == [s EXCEPT !.retx = "none"]
           IN  /\ Socket(n) /\ Typed(n) /\ n.retx = "none" /\ n.state = s.state
               /\ n.bound = s.bound /\ n.head = s.head /\ n.tail = s.tail
               /\ n.lastAck = s.lastAck /\ n.closed = s.closed
               /\ n.shutdownSend = s.shutdownSend /\ n.closeOnEmpty = s.closeOnEmpty
               /\ n.dataRetrCount = s.dataRetrCount
               /\ n.state \in FinStates \/ n.closeOnEmpty => Ended(n)
               /\ n.shutdownSend => n.closeOnEmpty
               /\ s.state \in Openings \/ ~s.bound => Good(n) /\ Answers(n)
<1> DEFINE n == [s EXCEPT !.retx = "none"]
<1>1. /\ n.retx = "none" /\ n.state = s.state
      /\ n.bound = s.bound /\ n.head = s.head /\ n.tail = s.tail
      /\ n.lastAck = s.lastAck /\ n.closed = s.closed
      /\ n.shutdownSend = s.shutdownSend /\ n.closeOnEmpty = s.closeOnEmpty
      /\ n.dataRetrCount = s.dataRetrCount
  BY DEF Good, Socket
<1>2. Socket(n) /\ Typed(n)
  BY DEF Good, Socket, Typed
<1> HIDE DEF n
<1>3. n.state \in FinStates \/ n.closeOnEmpty => Ended(n)
  BY <1>1 DEF Answers, Ended
<1>4. n.shutdownSend => n.closeOnEmpty
  BY <1>1 DEF Answers
<1>5. s.state \in Openings \/ ~s.bound => Good(n) /\ Answers(n)
  BY <1>1, <1>2, <1>3, <1>4 DEF Good, Guarded, Answers, Openings
<1> QED
  BY <1>1, <1>2, <1>3, <1>4, <1>5 DEF n

\* A FIN sent with the timer free starts it, and so answers.
LEMMA FinAnswers ==
    ASSUME NEW s, Socket(s), s.retx = "none",
           s.state \in FinStates \/ s.closeOnEmpty => Ended(s),
           s.shutdownSend => s.closeOnEmpty
    PROVE  Answers(SendEmptyPacket(s, "FIN"))
<1> DEFINE u == SendEmptyPacket(s, "FIN")
<1>1. /\ u.state = s.state /\ u.bound = s.bound
      /\ u.closed = s.closed /\ u.shutdownSend = s.shutdownSend
      /\ u.closeOnEmpty = s.closeOnEmpty
      /\ u.retx = IF s.bound THEN "FIN" ELSE "none"
  BY EmptyAnswers
<1> HIDE DEF u
<1>2. u.state \in FinStates \/ u.closeOnEmpty => Ended(u)
  BY <1>1 DEF Ended
<1>3. u.bound => u.retx = "FIN"
  BY <1>1
<1> QED
  BY <1>1, <1>2, <1>3 DEF Answers, RepeatsFin, u

LEMMA TimerAnswers ==
    ASSUME AllGood, AllAnswers, NEW e \in Ends,
           \/ SendPendingDataEvent(e) \/ RepeatEmptyPacket(e) \/ DelAckTimeout(e)
           \/ TimeWaitOver(e)
    PROVE  AllAnswers'
<1> DEFINE s == sock[e]
           n == [s EXCEPT !.retx = "none"]
<1>1. Good(s) /\ Answers(s)
  BY DEF AllGood, AllAnswers
<1>2. CASE SendPendingDataEvent(e)
  <2> DEFINE t == [s EXCEPT !.sendEvent = FALSE]
  <2>1. Becomes(e, SendPendingData(t))
    BY <1>2 DEF SendPendingDataEvent
  <2> HIDE DEF s
  <2>2. Good(t) /\ Alike(s, t)
    BY <1>1 DEF Good, Socket, Typed, Guarded, Alike
  <2> HIDE DEF t
  <2>3. Answers(SendPendingData(t))
    BY <1>1, <2>2, AlikeAnswers, PendingDataAnswers
  <2> QED
    BY <1>1, <2>1, <2>3, BecomesAnswers
<1>3. CASE RepeatEmptyPacket(e)
  <2>1. Becomes(e, SendEmptyPacket(n, s.retx)) /\ s.retx \in {"SYN", "SYNACK", "FIN"}
    BY <1>3 DEF RepeatEmptyPacket
  <2> HIDE DEF s
  <2>2. /\ Socket(n) /\ n.retx = "none" /\ n.state = s.state /\ n.bound = s.bound
        /\ n.state \in FinStates \/ n.closeOnEmpty => Ended(n)
        /\ n.shutdownSend => n.closeOnEmpty
        /\ s.state \in Openings \/ ~s.bound => Good(n) /\ Answers(n)
    BY <1>1, ExpiredAnswers
  <2> HIDE DEF n
  <2>3. Answers(SendEmptyPacket(n, s.retx))
    <3>1. CASE s.retx = "FIN"
      BY <2>2, <3>1, FinAnswers
    <3>2. CASE s.retx \in {"SYN", "SYNACK"} /\ s.state \in Openings
      BY <2>2, <3>2, SynAnswers
    <3>3. CASE s.retx \in {"SYN", "SYNACK"} /\ s.state \notin Openings
      <4>1. ~s.bound
        BY <1>1, <3>3 DEF Answers
      <4> QED
        BY <2>2, <4>1 DEF SendEmptyPacket
    <3> QED
      BY <2>1, <3>1, <3>2, <3>3
  <2> QED
    BY <1>1, <2>1, <2>3, BecomesAnswers
<1>4. CASE DelAckTimeout(e)
  BY <1>1, <1>4, AckAlike, AlikeAnswers, BecomesAnswers DEF DelAckTimeout, Good
<1>5. CASE TimeWaitOver(e)
  BY <1>1, <1>5, DeallocateAnswers, BecomesAnswers DEF TimeWaitOver
<1> QED
  BY <1>2, <1>3, <1>4, <1>5

\* ReTxTimeout: what it finds to repeat has the FIN, or LastAckTimeout has it.
LEMMA RetryAnswers ==
    ASSUME AllGood, AllAnswers, NEW e \in Ends,
           ReTxTimeoutEmpty(e) \/ ReTxTimeout(e) \/ LastAckTimeout(e)
    PROVE  AllAnswers'
<1> DEFINE s == sock[e]
           n == [s EXCEPT !.retx = "none"]
<1>1. Good(s) /\ Answers(s)
  BY DEF AllGood, AllAnswers
<1>2. /\ Socket(n) /\ Typed(n) /\ n.retx = "none" /\ n.state = s.state
      /\ n.bound = s.bound /\ n.head = s.head /\ n.tail = s.tail
      /\ n.lastAck = s.lastAck /\ n.closed = s.closed
      /\ n.shutdownSend = s.shutdownSend /\ n.closeOnEmpty = s.closeOnEmpty
      /\ n.dataRetrCount = s.dataRetrCount
      /\ n.state \in FinStates \/ n.closeOnEmpty => Ended(n)
      /\ n.shutdownSend => n.closeOnEmpty
  <2> HIDE DEF s
  <2> QED
    BY <1>1, ExpiredAnswers
<1>3. CASE ReTxTimeoutEmpty(e)
  <2> DEFINE r == IF n.state \in {"FIN_WAIT_1", "CLOSING"} THEN SendEmptyPacket(n, "FIN")
                  ELSE n
  <2>1. Becomes(e, r) /\ s.retx = "DATA" /\ Size(n) = 0
    BY <1>3 DEF ReTxTimeoutEmpty
  <2> HIDE DEF n, s
  <2>2. Size(s) = 0 /\ (Ended(n) <=> Ended(s))
    BY <1>2, <2>1 DEF Size, Ended
  <2>3. Answers(SendEmptyPacket(n, "FIN"))
    BY <1>2, FinAnswers
  <2>4. s.bound /\ s.state = "LAST_ACK" /\ ~s.closed => s.lastAck
    BY <1>1, <2>1, <2>2 DEF Answers, RepeatsFin
  <2>5. Answers(n)
    BY <1>2, <2>4 DEF Answers, RepeatsFin
  <2>6. Answers(r)
    BY <2>3, <2>5
  <2> HIDE DEF r
  <2> QED
    BY <1>1, <2>1, <2>6, BecomesAnswers
<1>4. CASE ReTxTimeout(e)
  <2> DEFINE t == [n EXCEPT !.dataRetrCount = @ - 1]
             d == [t EXCEPT !.retx = "DATA"]
             r == IF n.dataRetrCount = 0 THEN DeallocateEndPoint(n)
                  ELSE SendDataPacket(t, n.head)
  <2>1. Becomes(e, r) /\ s.retx = "DATA" /\ Size(n) > 0
    BY <1>4 DEF ReTxTimeout
  <2> HIDE DEF n, s
  <2>2. Answers(DeallocateEndPoint(n))
    <3>1. LET u == DeallocateEndPoint(n)
          IN  /\ ~u.bound /\ u.state = n.state /\ u.closed = n.closed
              /\ u.shutdownSend = n.shutdownSend /\ u.closeOnEmpty = n.closeOnEmpty
      BY <1>2 DEF DeallocateEndPoint, Socket
    <3> QED
      BY <1>2, <3>1 DEF Answers, Ended
  <2>3. ASSUME n.dataRetrCount # 0 PROVE Answers(SendDataPacket(t, n.head))
    <3>1. Socket(t) /\ Typed(t)
      BY <1>2, <2>3, RetryCounted
    <3>2. /\ t.retx = "none" /\ t.state = s.state
          /\ t.bound = s.bound /\ t.head = s.head /\ t.tail = s.tail
          /\ t.lastAck = s.lastAck /\ t.closed = s.closed
          /\ t.shutdownSend = s.shutdownSend /\ t.closeOnEmpty = s.closeOnEmpty
      BY <1>2 DEF Socket
    <3> HIDE DEF t
    <3>3. Alike(s, d)
      BY <2>1, <3>1, <3>2 DEF Alike, Socket
    <3>4. Answers(d)
      BY <1>1, <3>3, AlikeAnswers
    <3>5. Size(t) > 0
      BY <1>2, <2>1, <3>2 DEF Size
    <3>6. /\ t.state \in FinStates \/ t.closeOnEmpty => Ended(t)
          /\ t.shutdownSend => t.closeOnEmpty
      BY <1>2, <3>2 DEF Ended
    <3>7. CASE t.state \in Openings \/ ~t.bound
      BY <3>1, <3>6, <3>7, EarlyDataAnswers
    <3>8. CASE t.state \notin Openings /\ t.bound
      BY <3>1, <3>2, <3>4, <3>5, <3>8, DataAnswers, Zenon
    <3> QED
      BY <3>7, <3>8
  <2>4. Answers(r)
    BY <2>2, <2>3
  <2> HIDE DEF r
  <2> QED
    BY <1>1, <2>1, <2>4, BecomesAnswers
<1>5. CASE LastAckTimeout(e)
  <2> DEFINE m == [s EXCEPT !.lastAck = FALSE]
             t == [m EXCEPT !.dataRetrCount = @ - 1]
             u == SendEmptyPacket(t, "FIN")
             w == [u EXCEPT !.lastAck = TRUE]
             r == CASE m.state # "LAST_ACK" -> m
                    [] m.state = "LAST_ACK" /\ m.dataRetrCount = 0 -> DeallocateEndPoint(m)
                    [] OTHER -> w
  <2>1. Becomes(e, r)
    BY <1>5 DEF LastAckTimeout
  <2> HIDE DEF n, s
  <2>2. /\ Good(m) /\ m.state = s.state /\ m.bound = s.bound /\ m.head = s.head
        /\ m.tail = s.tail /\ m.closed = s.closed /\ m.shutdownSend = s.shutdownSend
        /\ m.closeOnEmpty = s.closeOnEmpty /\ m.retx = s.retx
    BY <1>1 DEF Good, Socket, Typed, Guarded
  <2> HIDE DEF m
  <2>3. Ended(m) <=> Ended(s)
    BY <2>2 DEF Ended
  <2>4. m.state # "LAST_ACK" => Answers(m)
    BY <1>1, <2>2, <2>3 DEF Answers
  <2>5. Answers(DeallocateEndPoint(m))
    <3> DEFINE v == DeallocateEndPoint(m)
    <3>1. /\ ~v.bound /\ v.state = m.state /\ v.closed = m.closed
          /\ v.shutdownSend = m.shutdownSend /\ v.closeOnEmpty = m.closeOnEmpty
      BY <2>2 DEF DeallocateEndPoint, Good, Socket
    <3> HIDE DEF v
    <3> QED
      BY <1>1, <2>2, <2>3, <3>1 DEF Answers, Ended, v
  <2>6. ASSUME m.state = "LAST_ACK", m.dataRetrCount # 0 PROVE Answers(w)
    <3>1. Socket(t) /\ Typed(t)
      BY <2>2, <2>6, RetryCounted DEF Good
    <3>2. /\ t.state = m.state /\ t.bound = m.bound /\ t.closed = m.closed
          /\ t.shutdownSend = m.shutdownSend /\ t.closeOnEmpty = m.closeOnEmpty
          /\ t.retx = m.retx
      BY <2>2 DEF Good, Socket
    <3> HIDE DEF t
    <3>3. /\ u.state = m.state /\ u.bound = m.bound /\ u.closed = m.closed
          /\ u.shutdownSend = m.shutdownSend /\ u.closeOnEmpty = m.closeOnEmpty
          /\ u.retx = IF m.bound /\ m.retx = "none" THEN "FIN" ELSE m.retx
      BY <3>1, <3>2, EmptyAnswers
    <3>4. Socket(u)
      BY <3>1, <3>2, <2>6, EmptyPacketGood DEF Flags, Guarded, Good
    <3> HIDE DEF u
    <3>5. /\ w.state = "LAST_ACK" /\ w.bound = u.bound /\ w.closed = u.closed
          /\ w.shutdownSend = u.shutdownSend /\ w.closeOnEmpty = u.closeOnEmpty
          /\ w.retx = u.retx /\ w.lastAck
      BY <2>6, <3>3, <3>4 DEF Socket
    <3> HIDE DEF w
    <3>6. (Ended(w) <=> Ended(s)) /\ RepeatsFin(w)
      BY <2>2, <3>3, <3>5 DEF Ended, RepeatsFin
    <3>7. w.bound => w.retx \notin {"SYN", "SYNACK"}
      BY <1>1, <2>2, <2>6, <3>3, <3>5 DEF Answers, Openings
    <3> QED
      BY <1>1, <2>2, <2>6, <3>3, <3>5, <3>6, <3>7 DEF Answers, FinStates
  <2>7. Answers(r)
    BY <2>4, <2>5, <2>6
  <2> HIDE DEF r
  <2> QED
    BY <1>1, <2>1, <2>7, BecomesAnswers
<1> QED
  BY <1>3, <1>4, <1>5

LEMMA StepAnswers == Inv /\ AllAnswers /\ [Next]_vars => AllAnswers'
<1> SUFFICES ASSUME Inv, AllAnswers, [Next]_vars PROVE AllAnswers'
  OBVIOUS
<1>1. AllGood
  BY DEF Inv
<1>2. CASE UNCHANGED vars
  BY <1>2 DEF vars, AllAnswers
<1>3. CASE Next
  <2>1. "client" \in Ends
    BY DEF Ends
  <2>2. CASE Connect \/ CompleteFork
    BY <1>1, <2>2, OpeningAnswers
  <2>3. CASE ProcessListen \/ NoEndPoint
    BY <1>1, <2>1, <2>3, ArrivalAnswers
  <2>4. ASSUME NEW e \in Ends, ForwardUp(e) \/ Lose(e) PROVE AllAnswers'
    BY <1>1, <2>4, ArrivalAnswers
  <2>5. ASSUME NEW e \in Ends, Send(e) \/ Recv(e) \/ ShutdownSend(e) \/ Close(e)
        PROVE  AllAnswers'
    BY <2>5, ApplicationAnswers
  <2>6. ASSUME NEW e \in Ends,
               \/ SendPendingDataEvent(e) \/ RepeatEmptyPacket(e) \/ DelAckTimeout(e)
               \/ TimeWaitOver(e)
        PROVE  AllAnswers'
    BY <1>1, <2>6, TimerAnswers
  <2>7. ASSUME NEW e \in Ends, ReTxTimeoutEmpty(e) \/ ReTxTimeout(e) \/ LastAckTimeout(e)
        PROVE  AllAnswers'
    BY <1>1, <2>7, RetryAnswers
  <2> QED
    BY <1>3, <2>2, <2>3, <2>4, <2>5, <2>6, <2>7 DEF Next
<1> QED
  BY <1>2, <1>3

\* An event that repeats the FIN is pending in FIN_WAIT_1 and CLOSING always,
\* and in LAST_ACK unless the application called Close, however the closes of
\* the two ends, the losses and the retries interleave.
THEOREM FinGuardedKept == Spec => []FinGuarded
<1>1. Init => AllAnswers
  BY NewAnswers DEF Init, AllAnswers
<1>2. Inv /\ AllAnswers => FinGuarded
  <2> SUFFICES ASSUME Inv, AllAnswers, NEW e \in Ends, sock[e].bound,
                      \/ sock[e].state \in {"FIN_WAIT_1", "CLOSING"}
                      \/ sock[e].state = "LAST_ACK" /\ ~sock[e].closed
               PROVE  RepeatsFin(sock[e])
    BY DEF FinGuarded
  <2>1. Good(sock[e]) /\ Answers(sock[e])
    BY DEF Inv, AllGood, AllAnswers
  <2>2. CASE sock[e].state = "LAST_ACK"
    BY <2>1, <2>2 DEF Answers
  <2>3. CASE sock[e].state \in {"FIN_WAIT_1", "CLOSING"}
    BY <2>1, <2>3 DEF Answers, Good, Typed, Guarded, RepeatsFin, Openings
  <2> QED
    BY <2>2, <2>3
<1>3. Inv /\ AllAnswers /\ [Next]_vars => AllAnswers'
  BY StepAnswers
<1> QED
  BY <1>1, <1>2, <1>3, InvKept, PTL DEF Spec

----------------------------------------------------------------------------
(* The properties that follow from Inv alone                                *)

\* Data that was acknowledged is with the peer, also when the ACK that moved
\* the buffer was that of a FIN, whatever was lost, repeated or acknowledged twice.
THEOREM AckedWasDeliveredKept == Spec => []AckedWasDelivered
<1>1. Inv => AckedWasDelivered
  <2> SUFFICES ASSUME Inv, NEW e \in Ends, sock[e].wrote, sock[e].head > 1
               PROVE  sock[Peer(e)].got
    BY DEF AckedWasDelivered
  <2>1. sock[e].head >= 2
    BY DEF Inv, AllGood, Good, Typed
  <2> QED
    BY <2>1 DEF Inv, Delivery, Settlement, Settled
<1> QED
  BY <1>1, InvKept, PTL

\* No FIN ends the stream before data that Send accepted, however the closes of
\* the two ends meet the data and the losses.
THEOREM GracefulCloseKept == Spec => []GracefulClose
<1>1. Inv => GracefulClose
  <2> SUFFICES ASSUME Inv, NEW e \in Ends, Finished(sock[e]), sock[Peer(e)].wrote
               PROVE  sock[e].got
    BY DEF GracefulClose
  <2> DEFINE x == Peer(e)
  <2>1. x \in Ends /\ Peer(x) = e
    BY EndsArePeers
  <2>2. sock[e].rx >= 2
    BY DEF Finished, Inv, AllGood, Good, Typed
  <2> HIDE DEF x
  <2>3. Settled(sock[x], sock[e])
    BY <2>1, <2>2 DEF Inv, Delivery, Settlement
  <2> QED
    BY <2>3 DEF Settled, x
<1> QED
  BY <1>1, InvKept, PTL

----------------------------------------------------------------------------
(* Types.  A FIN that is repeated, taken twice or acknowledged twice moves  *)
(* the numbers of its sender and of its receiver; that it moves each but    *)
(* once needs to be known of the two sockets together.                      *)

\* The states a FIN of the peer leads to for good.
FrozenStates == {"CLOSING", "LAST_ACK", "TIME_WAIT", "CLOSED"}
Frozen(s) == s.state \in FrozenStates

\* The sequence numbers and the timer of a socket.
Marks(s) ==
    /\ s.high <= s.next /\ s.next <= s.high + 1 /\ s.high <= 2 /\ s.next <= s.tail
    /\ s.next > s.high => s.next <= s.head
    /\ s.state = "ESTABLISHED" => s.next <= s.high
    /\ s.high >= 1 \/ s.state = "SYN_RCVD" => s.rx >= 1
    /\ s.state \in FinStates => s.next >= s.tail
    /\ s.retx = "FIN" => s.next <= s.head /\ s.next >= s.tail

\* Data under way has a timer.
Timed(s) ==
    s.bound /\ s.next >= 2 /\ s.head < s.tail /\ s.state # "TIME_WAIT" => s.retx # "none"

\* What s has taken of its peer q.
Near(s, q) ==
    /\ s.rx <= q.high + 1 \/ (Frozen(q) /\ s.rx <= q.high + 2)
    /\ s.fin <= q.high + 1
    /\ s.head <= 1 \/ s.head <= q.rx
    /\ q.high = 0 \/ q.state = "ESTABLISHED" => s.fin = 0 /\ (s.rx <= 1 \/ s.rx <= q.high)

\* A FIN that is repeated past the mark was acknowledged by one that closes.
Lasting(s, q) == s.next > s.high /\ s.retx = "FIN" => Frozen(s) \/ Frozen(q)

FreshPacket(s, q, p) ==
    /\ p.len = 1 => s.high >= 2
    /\ p.flags = "FIN" =>
        /\ s.state # "ESTABLISHED"
        /\ p.seq + p.len <= s.high + 1
        /\ p.seq + p.len > s.high => (Frozen(s) \/ Frozen(q)) /\ s.head >= 2
        /\ \/ p.ack <= 1 \/ p.ack <= q.high
           \/ Frozen(s) \/ p.seq <= 1 \/ p.seq <= q.rx

Fresh(s, q) == \A i \in DOMAIN s.out : FreshPacket(s, q, s.out[i])

Fit(s, q) == Marks(s) /\ Timed(s) /\ Near(s, q) /\ Lasting(s, q) /\ Fresh(s, q)

\* What never goes back.
Steady(s, u) ==
    /\ s.rx <= u.rx /\ s.high <= u.high /\ s.head <= u.head
    /\ Frozen(s) => Frozen(u)
    /\ u.state = "ESTABLISHED" => s.state = "ESTABLISHED" \/ s.high = 0

LEMMA SteadyItself == ASSUME NEW s, Typed(s) PROVE Steady(s, s)
BY DEF Steady, Typed

LEMMA SteadyTrans ==
    ASSUME NEW s, NEW t, NEW u, Typed(s), Typed(t), Typed(u), Steady(s, t), Steady(t, u)
    PROVE  Steady(s, u)
<1>1. /\ s.rx <= u.rx /\ s.high <= u.high /\ s.head <= u.head
      /\ (t.high = 0 => s.high = 0)
  <2>1. /\ s.high \in Nat /\ t.high \in Nat /\ u.high \in Nat
        /\ s.rx \in Nat /\ t.rx \in Nat /\ u.rx \in Nat
        /\ s.head \in Nat /\ t.head \in Nat /\ u.head \in Nat
    BY DEF Typed
  <2>2. /\ s.rx <= t.rx /\ s.high <= t.high /\ s.head <= t.head
        /\ t.rx <= u.rx /\ t.high <= u.high /\ t.head <= u.head
    BY DEF Steady
  <2> QED
    BY <2>1, <2>2
<1> QED
  BY <1>1, Zenon DEF Steady

LEMMA FreshPacketKept ==
    ASSUME NEW s, NEW u, NEW q, NEW r, NEW p \in Packets, NEW c, Typed(s), Typed(u),
           Typed(q), Typed(r), PacketOwn(s, c, p), FreshPacket(s, q, p), Steady(s, u), Steady(q, r)
    PROVE  FreshPacket(u, r, p)
<1>1. /\ p.seq \in Nat /\ p.len \in 0 .. 1 /\ p.ack \in Nat
      /\ s.high \in Nat /\ u.high \in Nat /\ q.high \in Nat /\ r.high \in Nat
      /\ s.head \in Nat /\ u.head \in Nat /\ q.rx \in Nat /\ r.rx \in Nat
  BY DEF Typed, Packets
<1>2. s.high <= u.high /\ s.head <= u.head /\ q.high <= r.high /\ q.rx <= r.rx
  BY DEF Steady
<1>3. /\ s.high >= 2 => u.high >= 2
      /\ p.seq + p.len <= s.high + 1 => p.seq + p.len <= u.high + 1
      /\ p.seq + p.len > u.high => p.seq + p.len > s.high
      /\ s.head >= 2 => u.head >= 2
      /\ p.ack <= q.high => p.ack <= r.high
      /\ p.seq <= q.rx => p.seq <= r.rx
      /\ s.high >= 1 => s.high # 0
  BY <1>1, <1>2
<1>4. (Frozen(s) => Frozen(u)) /\ (Frozen(q) => Frozen(r))
  BY DEF Steady
<1>5. p.flags = "FIN" => s.high # 0
  BY <1>3 DEF PacketOwn
<1>6. p.flags = "FIN" /\ s.state # "ESTABLISHED" => u.state # "ESTABLISHED"
  BY <1>5, Zenon DEF Steady
<1> QED
  BY <1>3, <1>4, <1>6, Zenon DEF FreshPacket

LEMMA FreshKept ==
    ASSUME NEW s, NEW u, NEW q, NEW r, NEW c, Typed(s), Typed(u), Typed(q), Typed(r),
           Sent(s, c), Fresh(s, q), Steady(s, u), Steady(q, r), u.out = s.out
    PROVE  Fresh(u, r)
<1> SUFFICES ASSUME NEW i \in DOMAIN u.out PROVE FreshPacket(u, r, u.out[i])
  BY DEF Fresh
<1>1. u.out \in Seq(Packets)
  BY DEF Typed
<1>2. u.out[i] \in Packets
  BY <1>1
<1>3. PacketOwn(s, c, u.out[i]) /\ FreshPacket(s, q, u.out[i])
  BY DEF Sent, Fresh
<1> QED
  BY <1>2, <1>3, FreshPacketKept

LEMMA FreshGrows ==
    ASSUME NEW s, NEW u, NEW q, NEW c, NEW p \in Packets, Typed(s), Typed(u), Typed(q),
           Sent(s, c), Fresh(s, q), Steady(s, u), u.out = Append(s.out, p),
           FreshPacket(u, q, p)
    PROVE  Fresh(u, q)
<1>1. s.out \in Seq(Packets)
  BY DEF Typed
<1>2. /\ DOMAIN u.out = 1 .. Len(s.out) + 1 /\ DOMAIN s.out = 1 .. Len(s.out)
      /\ u.out[Len(s.out) + 1] = p
      /\ \A i \in 1 .. Len(s.out) : u.out[i] = s.out[i] /\ s.out[i] \in Packets
      /\ Len(s.out) \in Nat
  BY <1>1
<1>3. ASSUME NEW i \in 1 .. Len(s.out) PROVE FreshPacket(u, q, u.out[i])
  <2>1. PacketOwn(s, c, u.out[i]) /\ FreshPacket(s, q, u.out[i]) /\ u.out[i] \in Packets
    BY <1>2 DEF Sent, Fresh
  <2> QED
    BY <2>1, SteadyItself, FreshPacketKept
<1> SUFFICES ASSUME NEW i \in DOMAIN u.out PROVE FreshPacket(u, q, u.out[i])
  BY DEF Fresh
<1>4. i \in 1 .. Len(s.out) \/ i = Len(s.out) + 1
  BY <1>2
<1> QED
  BY <1>2, <1>3, <1>4

\* What a handler makes of s.
Fits(s, u, q) == Fit(u, q) /\ Steady(s, u)

LEMMA FitsTrans ==
    ASSUME NEW s, NEW t, NEW u, NEW q, Typed(s), Typed(t), Typed(u), Fits(s, t, q), Fits(t, u, q)
    PROVE  Fits(s, u, q)
BY SteadyTrans DEF Fits

LEMMA FitsItself == ASSUME NEW s, NEW q, Typed(s), Fit(s, q) PROVE Fits(s, s, q)
BY SteadyItself DEF Fits

\* A handler that takes nothing from the peer.
LEMMA SameFits ==
    ASSUME NEW s, NEW u, NEW q, NEW c, Typed(s), Typed(u), Typed(q), Own(s, c), Fit(s, q),
           Same(s, u), Marks(u), Timed(u), Lasting(u, q), Frozen(s) => Frozen(u),
           u.state = "ESTABLISHED" => s.state = "ESTABLISHED" \/ s.high = 0,
           \/ u.out = s.out
           \/ \E p \in Packets : u.out = Append(s.out, p) /\ FreshPacket(u, q, p)
    PROVE  Fits(s, u, q)
<1>1. u.rx = s.rx /\ u.fin = s.fin /\ u.head = s.head /\ s.high <= u.high
  BY DEF Same
<1>2. Steady(s, u)
  <2>1. s.rx \in Nat /\ s.head \in Nat
    BY DEF Typed
  <2>2. s.rx <= u.rx /\ s.head <= u.head
    BY <1>1, <2>1
  <2> QED
    BY <1>1, <2>2, Zenon DEF Steady
<1>3. Near(u, q)
  BY <1>1, Zenon DEF Fit, Near
<1>4. Fresh(u, q)
  <2>1. Sent(s, c) /\ Fresh(s, q)
    BY DEF Own, Fit
  <2>2. CASE u.out = s.out
    BY <1>2, <2>1, <2>2, FreshKept, SteadyItself
  <2>3. ASSUME NEW p \in Packets, u.out = Append(s.out, p), FreshPacket(u, q, p)
        PROVE  Fresh(u, q)
    BY <1>2, <2>1, <2>3, FreshGrows
  <2> QED
    BY <2>2, <2>3
<1> QED
  BY <1>2, <1>3, <1>4 DEF Fits, Fit

LEMMA DeallocateFits ==
    ASSUME NEW s, NEW q, NEW c \in BOOLEAN, Socket(s), Typed(s), Typed(q), Own(s, c), Fit(s, q)
    PROVE  Fits(s, DeallocateEndPoint(s), q)
<1> DEFINE u == DeallocateEndPoint(s)
<1>1. Typed(u) /\ Same(s, u)
  BY DeallocateGood, DeallocateOwn DEF Good
<1>2. /\ u.out = s.out /\ u.state = s.state /\ u.next = s.next /\ u.high = s.high
      /\ u.head = s.head /\ u.tail = s.tail /\ u.rx = s.rx /\ u.retx = "none" /\ ~u.bound
  BY DEF DeallocateEndPoint, Socket
<1> HIDE DEF u
<1>3. Marks(u) /\ Timed(u) /\ Lasting(u, q)
  BY <1>2, Zenon DEF Fit, Marks, Timed, Lasting
<1> QED
  BY <1>1, <1>2, <1>3, SameFits DEF Frozen, u

LEMMA CloseFits ==
    ASSUME NEW s, NEW q, NEW c \in BOOLEAN, Socket(s), Typed(s), Typed(q), Own(s, c), Fit(s, q)
    PROVE  Fits(s, CloseAndNotify(s), q)
<1> DEFINE u == CloseAndNotify(s)
<1>1. Typed(u) /\ Same(s, u)
  BY CloseGood, CloseOwn DEF Good
<1>2. /\ u.out = s.out /\ u.state = "CLOSED" /\ u.next = s.next /\ u.high = s.high
      /\ u.head = s.head /\ u.tail = s.tail /\ u.rx = s.rx /\ u.retx = "none" /\ ~u.bound
  BY DEF CloseAndNotify, DeallocateEndPoint, Socket
<1> HIDE DEF u
<1>3. Marks(u) /\ Timed(u) /\ Lasting(u, q)
  BY <1>2, Zenon DEF Fit, Marks, Timed, Lasting, FinStates
<1> QED
  BY <1>1, <1>2, <1>3, SameFits DEF Frozen, FrozenStates, u

\* An empty packet but a FIN.
LEMMA EmptyFits ==
    ASSUME NEW s, NEW q, NEW c \in BOOLEAN, Socket(s), Typed(s), Typed(q), Own(s, c), Fit(s, q),
           NEW f \in Flags, f # "FIN", MayEmit(s, c, f),
           Guarded(s) \/ f \in {"SYN", "SYNACK", "FIN"}
    PROVE  Fits(s, SendEmptyPacket(s, f), q)
<1> DEFINE u == SendEmptyPacket(s, f)
           n == IF f # "FIN" /\ s.state \in {"FIN_WAIT_1", "LAST_ACK", "CLOSING"}
                THEN s.next + 1 ELSE s.next
           p == Packet(f, n, s.rx, 0)
<1>1. Typed(u) /\ Same(s, u)
  BY EmptyPacketGood, EmptyPacketOwn DEF Good
<1>2. CASE ~s.bound
  BY <1>2, FitsItself DEF SendEmptyPacket
<1>3. CASE s.bound /\ f \in {"SYN", "SYNACK"} /\ s.synCount = 0
  BY <1>3, CloseFits DEF SendEmptyPacket
<1>4. CASE s.bound /\ ~(f \in {"SYN", "SYNACK"} /\ s.synCount = 0)
  <2>1. /\ u.out = Append(s.out, p) /\ u.state = s.state /\ u.next = s.next
        /\ u.high = s.high /\ u.head = s.head /\ u.tail = s.tail /\ u.rx = s.rx
        /\ u.bound = s.bound
        /\ u.retx = s.retx \/ (s.retx = "none" /\ u.retx \in {"SYN", "SYNACK"})
    BY <1>4 DEF SendEmptyPacket, Emit, Socket
  <2>2. n \in Nat /\ s.rx \in Nat
    <3>1. s.next \in Nat /\ s.rx \in Nat
      BY DEF Typed
    <3> QED
      BY <3>1
  <2> HIDE DEF u, n
  <2>3. p \in Packets /\ p.flags # "FIN" /\ p.len = 0
    BY <2>2 DEF Packet, Packets
  <2> HIDE DEF p
  <2>4. FreshPacket(u, q, p)
    BY <2>3 DEF FreshPacket
  <2>5. Marks(u) /\ Timed(u) /\ Lasting(u, q)
    <3>1. u.retx = "FIN" => s.retx = "FIN"
      BY <2>1
    <3>2. s.retx # "none" => u.retx # "none"
      BY <2>1
    <3>3. Lasting(u, q)
      BY <2>1, <3>1, Zenon DEF Fit, Lasting, Frozen
    <3>4. Timed(u)
      BY <2>1, <3>2, Zenon DEF Fit, Timed
    <3>5. Marks(u)
      BY <2>1, <3>1, Zenon DEF Fit, Marks
    <3> QED
      BY <3>3, <3>4, <3>5
  <2>6. Frozen(u) = Frozen(s)
    BY <2>1 DEF Frozen
  <2> QED
    BY <1>1, <2>1, <2>3, <2>4, <2>5, <2>6, SameFits DEF u
<1> QED
  BY <1>2, <1>3, <1>4

LEMMA RstFits ==
    ASSUME NEW s, NEW q, NEW c \in BOOLEAN, Good(s), Typed(q), Own(s, c), Fit(s, q)
    PROVE  Fits(s, SendRST(s), q)
<1> DEFINE t == SendEmptyPacket(s, "RST")
<1>1. Good(t) /\ Own(t, c)
  BY EmptyPacketGood, EmptyPacketOwn DEF Good, Flags, MayEmit
<1>2. Fits(s, t, q)
  BY EmptyFits DEF Good, Flags, MayEmit
<1> HIDE DEF t
<1>3. Fits(t, DeallocateEndPoint(t), q) /\ Typed(DeallocateEndPoint(t))
  BY <1>1, <1>2, DeallocateFits, DeallocateGood DEF Good, Fits
<1> QED
  BY <1>1, <1>2, <1>3, FitsTrans DEF SendRST, Good, t

\* A FIN goes out, alone, and the state is what comes after it.  Its number is
\* past the mark only where the peer has it acknowledged before.
LEMMA FinFits ==
    ASSUME NEW s, NEW u, NEW q, NEW c \in BOOLEAN, Typed(s), Typed(u), Typed(q), Own(s, c),
           Fit(s, q), Same(s, u), FinDue(s, c), s.next >= s.tail,
           s.state # "TIME_WAIT" \/ s.next <= s.head, u.state \in FinStates \cup {"CLOSE_WAIT"},
           Frozen(s) => Frozen(u), s.next > s.high => Frozen(u) \/ Frozen(q),
           \/ s.rx <= 1 \/ s.rx <= q.high \/ Frozen(u) \/ s.next <= 1 \/ s.next <= q.rx,
           /\ u.next = s.next /\ u.high = s.high /\ u.tail = s.tail /\ u.bound = s.bound
           /\ u.retx = IF s.bound /\ s.retx = "none" THEN "FIN" ELSE s.retx
           /\ u.out = s.out \/ u.out = Append(s.out, Packet("FIN", s.next, s.rx, 0))
    PROVE  Fits(s, u, q)
<1> DEFINE p == Packet("FIN", s.next, s.rx, 0)
<1>1. /\ s.next \in Nat /\ s.high \in Nat /\ s.head \in Nat /\ s.tail \in Nat /\ s.rx \in Nat
      /\ q.high \in Nat /\ q.rx \in Nat
  BY DEF Typed
<1>2. u.rx = s.rx /\ u.head = s.head /\ s.high >= 1
  BY DEF Same, FinDue
<1>3. /\ s.next <= s.high + 1 /\ (s.next > s.high => s.next <= s.head)
      /\ (s.head = 1 /\ s.tail \in {1, 2}) \/ (s.head = s.tail /\ s.head >= 2)
  BY DEF Fit, Marks, Own, Fields
<1>4. s.next > s.high => s.head >= 2
  BY <1>1, <1>2, <1>3
<1>5. s.bound /\ s.retx = "none" => s.next <= s.head
  <2> SUFFICES ASSUME s.bound, s.retx = "none", s.state # "TIME_WAIT" PROVE s.next <= s.head
    OBVIOUS
  <2>1. ~(s.next >= 2 /\ s.head < s.tail)
    BY DEF Fit, Timed
  <2>2. s.next <= s.tail
    BY DEF Fit, Marks
  <2> QED
    BY <1>1, <1>3, <2>1, <2>2
<1>6. p \in Packets /\ p.flags = "FIN" /\ p.seq = s.next /\ p.ack = s.rx /\ p.len = 0
  BY <1>1 DEF Packet, Packets, Flags
<1> HIDE DEF p
<1>7. u.state # "ESTABLISHED"
  BY DEF FinStates
<1>8. FreshPacket(u, q, p)
  <2>1. p.seq + p.len <= u.high + 1 /\ (p.seq + p.len > u.high => s.next > s.high)
    BY <1>1, <1>3, <1>6
  <2>2. p.seq + p.len > u.high => (Frozen(u) \/ Frozen(q)) /\ u.head >= 2
    BY <1>2, <1>4, <2>1
  <2>3. \/ p.ack <= 1 \/ p.ack <= q.high
        \/ Frozen(u) \/ p.seq <= 1 \/ p.seq <= q.rx
    BY <1>6
  <2> QED
    BY <1>6, <1>7, <2>1, <2>2, <2>3 DEF FreshPacket
<1>9. Lasting(u, q)
  <2>1. u.next > u.high => s.next > s.high
    BY <1>1
  <2> QED
    BY <2>1, Zenon DEF Lasting
<1>10. Marks(u)
  <2>1. u.retx = "FIN" => u.next <= u.head /\ u.next >= u.tail
    BY <1>2, <1>5 DEF Fit, Marks
  <2>2. u.high >= 1 => u.rx >= 1
    BY <1>2 DEF Fit, Marks
  <2>3. /\ u.high <= u.next /\ u.next <= u.high + 1 /\ u.high <= 2 /\ u.next <= u.tail
        /\ u.next > u.high => u.next <= u.head
        /\ u.next >= u.tail
    BY <1>2 DEF Fit, Marks
  <2> QED
    BY <1>2, <1>7, <2>1, <2>2, <2>3, Zenon DEF Marks
<1>11. Timed(u)
  <2>1. s.retx # "none" => u.retx # "none"
    BY DEF Typed
  <2>2. Timed(s)
    BY DEF Fit
  <2>3. s.state = "TIME_WAIT" => ~(s.head < s.tail)
    BY <1>1
  <2> QED
    BY <1>2, <2>1, <2>2, <2>3, Zenon DEF Timed
<1> QED
  BY <1>6, <1>7, <1>8, <1>9, <1>10, <1>11, SameFits DEF p

\* Data, at its sequence number; the timer may just have expired.
LEMMA DataFits ==
    ASSUME NEW s, NEW q, NEW c \in BOOLEAN, Socket(s), Typed(s), Typed(q), Own(s, c),
           Marks(s), Near(s, q), Lasting(s, q), Fresh(s, q), s.high >= 1, s.head = 1, s.tail = 2
    PROVE  Fits(s, SendDataPacket(s, 1), q) /\ SendDataPacket(s, 1).next = 2
           /\ SendDataPacket(s, 1).high = 2
<1> DEFINE u == SendDataPacket(s, 1)
           f == IF s.closeOnEmpty THEN "FIN" ELSE "ACK"
           p == Packet(f, 1, s.rx, 1)
<1>1. Typed(u) /\ Same(s, u)
  BY DataPacketGood, DataPacketOwn DEF Good
<1>2. /\ u.out = Append(s.out, p) /\ u.next = 2 /\ u.high = (IF 2 > s.high THEN 2 ELSE s.high)
      /\ u.head = 1 /\ u.tail = 2 /\ u.rx = s.rx /\ u.fin = s.fin
      /\ u.retx = (IF s.retx = "none" THEN "DATA" ELSE s.retx)
      /\ u.state = CASE s.closeOnEmpty /\ s.state = "ESTABLISHED" -> "FIN_WAIT_1"
                     [] s.closeOnEmpty /\ s.state = "CLOSE_WAIT" -> "LAST_ACK"
                     [] OTHER -> s.state
  BY DEF SendDataPacket, Socket
<1> HIDE DEF u
<1>3. /\ s.next \in Nat /\ s.high \in Nat /\ s.rx \in Nat /\ s.high <= 2
      /\ s.state \in States
  BY DEF Typed, Marks
<1>4. u.high = 2 /\ u.retx # "none" /\ s.high <= u.high
  BY <1>2, <1>3 DEF Typed
<1>5. u.retx # "FIN"
  BY <1>2, <1>3 DEF Marks
<1>6. p \in Packets /\ p.flags = f /\ p.seq = 1 /\ p.len = 1
  BY <1>3 DEF Packet, Packets, Flags
<1> HIDE DEF p
<1>7. /\ Frozen(s) => Frozen(u)
      /\ u.state = "ESTABLISHED" => s.state = "ESTABLISHED" /\ ~s.closeOnEmpty
      /\ u.state = "SYN_RCVD" => s.state = "SYN_RCVD"
  BY <1>2 DEF Frozen, FrozenStates
<1>8. FreshPacket(u, q, p)
  BY <1>4, <1>6, <1>7 DEF FreshPacket
<1>9. Marks(u) /\ Timed(u) /\ Lasting(u, q)
  <2>1. u.high >= 1 \/ u.state = "SYN_RCVD" => u.rx >= 1
    BY <1>2 DEF Marks
  <2>2. Marks(u)
    <3> HIDE DEF f
    <3> QED
      BY <1>2, <1>4, <1>5, <2>1 DEF Marks
  <2> QED
    BY <1>2, <1>4, <1>5, <2>2 DEF Timed, Lasting
<1>10. Steady(s, u)
  <2>1. s.rx <= u.rx /\ s.head <= u.head
    BY <1>2, <1>3
  <2> QED
    BY <1>4, <1>7, <2>1, Zenon DEF Steady
<1>11. Near(u, q)
  <2>1. u.head = s.head
    BY <1>2
  <2> QED
    BY <1>2, <2>1, Zenon DEF Near
<1>12. Fresh(u, q)
  <2>1. Sent(s, c)
    BY DEF Own
  <2> QED
    BY <1>1, <1>2, <1>6, <1>8, <1>10, <2>1, FreshGrows
<1> QED
  BY <1>2, <1>4, <1>9, <1>10, <1>11, <1>12 DEF Fits, Fit, u

LEMMA PendingDataFits ==
    ASSUME NEW s, NEW q, NEW c \in BOOLEAN, Good(s), Typed(q), Own(s, c), Fit(s, q), s.high >= 1
    PROVE  /\ Fits(s, SendPendingData(s), q)
           /\ \/ SendPendingData(s) = s
              \/ SendPendingData(s).next = 2 /\ SendPendingData(s).high = 2
<1>1. CASE s.bound /\ Size(s) > 0 /\ Unsent(s) > 0
  <2>1. s.head = 1 /\ s.next = 1 /\ s.tail = 2
    BY <1>1 DEF Size, Unsent, Good, Own, Fields, Typed
  <2> QED
    BY <1>1, <2>1, DataFits DEF SendPendingData, Good, Fit
<1>2. CASE ~(s.bound /\ Size(s) > 0 /\ Unsent(s) > 0)
  BY <1>2, FitsItself DEF SendPendingData, Good
<1> QED
  BY <1>1, <1>2

LEMMA TimeWaitFits ==
    ASSUME NEW s, NEW q, NEW c \in BOOLEAN, Good(s), Typed(q), Own(s, c), Fit(s, q),
           s.state \in FinStates
    PROVE  Fits(s, TimeWait(s), q)
<1> DEFINE u == TimeWait(s)
<1>1. Typed(u) /\ Same(s, u)
  BY TimeWaitGood, TimeWaitOwn DEF Good
<1>2. /\ u.out = s.out /\ u.state = "TIME_WAIT" /\ u.next = s.next /\ u.high = s.high
      /\ u.head = s.head /\ u.tail = s.tail /\ u.rx = s.rx /\ u.retx = "none"
  BY DEF TimeWait, Good, Socket
<1> HIDE DEF u
<1>3. Marks(u) /\ Timed(u) /\ Lasting(u, q)
  BY <1>2, Zenon DEF Fit, Marks, Timed, Lasting, FinStates
<1> QED
  BY <1>1, <1>2, <1>3, SameFits DEF Frozen, FrozenStates, Good, u

\* A change of what is not looked at here.
LEMMA UnlookedFits ==
    ASSUME NEW s, NEW u, NEW q, NEW c, Typed(s), Typed(u), Typed(q), Own(s, c), Fit(s, q),
           Same(s, u),
           /\ u.out = s.out /\ u.state = s.state /\ u.next = s.next /\ u.high = s.high
           /\ u.tail = s.tail /\ u.retx = s.retx /\ u.bound = s.bound
    PROVE  Fits(s, u, q)
<1>1. u.rx = s.rx /\ u.head = s.head
  BY DEF Same
<1>2. Marks(u) /\ Timed(u) /\ Lasting(u, q)
  BY <1>1, Zenon DEF Fit, Marks, Timed, Lasting, Frozen
<1> QED
  BY <1>2, SameFits DEF Frozen

\* What handlers leave, and break on their way: a FIN is repeated once the
\* application closed; before the peer has closed, nothing past its mark is
\* taken; and a FIN acknowledged in FIN_WAIT_1 was so by one that closes.
Repeats(s) ==
    s.retx = "FIN" => s.state \in FinStates \/ (s.state = "CLOSE_WAIT" /\ s.closed)
InStep(s, q) ==
    s.state \in {"ESTABLISHED", "FIN_WAIT_1", "FIN_WAIT_2"} => s.rx <= 1 \/ s.rx <= q.high
FinAcked(s, q) == s.state = "FIN_WAIT_1" /\ s.next > s.high => Frozen(q)

Stage(s, q) == Repeats(s) /\ InStep(s, q) /\ FinAcked(s, q)

\* One that is closed is in none of these states.
LEMMA ClosedStage ==
    ASSUME NEW s, Socket(s), NEW q
    PROVE  Stage(CloseAndNotify(s), q)
BY DEF CloseAndNotify, DeallocateEndPoint, Socket, Stage, Repeats, InStep, FinAcked

LEMMA ConnectedHigh ==
    ASSUME NEW s, NEW c, Good(s), Own(s, c), s.state \notin {"CLOSED", "SYN_SENT", "SYN_RCVD"}
    PROVE  s.high >= 1
<1>1. s.high # 0
  BY DEF Own, Fields, Opening
<1> QED
  BY <1>1 DEF Good, Typed

LEMMA DoCloseFits ==
    ASSUME NEW s, NEW q, NEW c \in BOOLEAN, Good(s), Typed(q), Own(s, c), Fit(s, q),
           InStep(s, q), c \/ Ended(s), ~(Unsent(s) > 0), s.state # "SYN_RCVD"
    PROVE  /\ Fits(s, DoClose(s), q) /\ (DoClose(s) = s \/ Stage(DoClose(s), q))
           /\ s.state = "CLOSE_WAIT" => DoClose(s).state = "LAST_ACK"
<1>1. CASE s.state \in {"ESTABLISHED", "CLOSE_WAIT"}
  <2> DEFINE u == DoClose(s)
  <2>1. s.high >= 1
    BY <1>1, ConnectedHigh
  <2>2. FinDue(s, c) /\ s.next >= s.tail
    BY <2>1 DEF FinDue, Unsent, Good, Typed, Own, Fields
  <2>3. Typed(u) /\ Same(s, u)
    BY DoCloseGood, DoCloseOwn DEF Good
  <2>4. /\ u.state = (IF s.state = "ESTABLISHED" THEN "FIN_WAIT_1" ELSE "LAST_ACK")
        /\ u.next = s.next /\ u.high = s.high /\ u.tail = s.tail /\ u.bound = s.bound
        /\ u.retx = (IF s.bound /\ s.retx = "none" THEN "FIN" ELSE s.retx)
        /\ (u.out = s.out \/ u.out = Append(s.out, Packet("FIN", s.next, s.rx, 0)))
    BY <1>1 DEF DoClose, SendEmptyPacket, Emit, Good, Socket
  <2> HIDE DEF u
  <2>5. u.rx = s.rx
    BY <2>3 DEF Same
  <2>6. /\ u.state \in FinStates /\ u.state # "TIME_WAIT" /\ (Frozen(s) => Frozen(u))
        /\ s.state = "CLOSE_WAIT" => Frozen(u)
        /\ s.state # "TIME_WAIT"
    BY <1>1, <2>4 DEF FinStates, Frozen, FrozenStates
  <2>7. s.state = "ESTABLISHED" => ~(s.next > s.high) /\ ~(u.next > u.high)
    <3>1. s.next \in Nat /\ s.high \in Nat
      BY DEF Good, Typed
    <3>2. s.state = "ESTABLISHED" => s.next <= s.high
      BY DEF Fit, Marks
    <3> QED
      BY <2>4, <3>1, <3>2
  <2>8. s.next > s.high => Frozen(u) \/ Frozen(q)
    BY <1>1, <2>6, <2>7
  <2>9. \/ s.rx <= 1 \/ s.rx <= q.high \/ Frozen(u) \/ s.next <= 1 \/ s.next <= q.rx
    BY <1>1, <2>6 DEF InStep
  <2>10. Fits(s, u, q)
    BY <2>2, <2>3, <2>4, <2>6, <2>8, <2>9, FinFits DEF Good
  <2>11. Stage(u, q)
    BY <1>1, <2>4, <2>5, <2>6, <2>7 DEF Stage, Repeats, InStep, FinAcked
  <2> QED
    BY <2>4, <2>10, <2>11 DEF u
<1>2. CASE s.state \in {"SYN_SENT", "CLOSING"}
  <2> DEFINE t == SendRST(s)
  <2>1. Good(t) /\ Own(t, c) /\ Fits(s, t, q)
    BY RstGood, RstOwn, RstFits
  <2>2. DoClose(s) = CloseAndNotify(t)
    BY <1>2 DEF DoClose
  <2> HIDE DEF t
  <2>3. Fits(t, CloseAndNotify(t), q) /\ Typed(CloseAndNotify(t)) /\ Stage(CloseAndNotify(t), q)
    BY <2>1, CloseFits, CloseGood, ClosedStage DEF Good, Fits
  <2> QED
    BY <1>2, <2>1, <2>2, <2>3, FitsTrans DEF Good
<1>3. CASE s.state \notin {"ESTABLISHED", "CLOSE_WAIT", "SYN_SENT", "CLOSING", "SYN_RCVD"}
  <2>1. DoClose(s) = s
    BY <1>3 DEF DoClose
  <2> QED
    BY <1>3, <2>1, FitsItself DEF Good
<1> QED
  BY <1>1, <1>2, <1>3

LEMMA CloseSocketFits ==
    ASSUME NEW s, NEW q, NEW c \in BOOLEAN, Good(s), Typed(q), Own(s, c), Fit(s, q),
           InStep(s, q), FinAcked(s, q), Repeats(s) \/ s.state = "CLOSE_WAIT",
           c \/ Ended(s), s.state # "SYN_RCVD"
    PROVE  /\ Fits(s, CloseSocket(s), q) /\ Stage(CloseSocket(s), q)
           /\ s.state = "CLOSE_WAIT" => CloseSocket(s).state \in {"CLOSE_WAIT", "LAST_ACK"}
<1>1. CASE s.unread
  <2> DEFINE u == SendRST(s)
  <2>1. /\ u.retx = "none" \/ u = s
        /\ u.state = s.state /\ u.rx = s.rx /\ u.next = s.next /\ u.high = s.high
        /\ u.retx = "none"
    BY DEF SendRST, SendEmptyPacket, Emit, DeallocateEndPoint, Good, Socket
  <2> HIDE DEF u
  <2>2. Stage(u, q)
    BY <2>1, Zenon DEF Stage, Repeats, InStep, FinAcked
  <2> QED
    BY <1>1, <2>1, <2>2, RstFits DEF CloseSocket, u
<1>2. CASE ~s.unread /\ Unsent(s) > 0
  <2> DEFINE u == [s EXCEPT !.closeOnEmpty = TRUE]
  <2>1. Typed(u) /\ Same(s, u)
    BY DEF Good, Socket, Typed, Same, HasSyn
  <2>2. /\ u.out = s.out /\ u.state = s.state /\ u.next = s.next /\ u.high = s.high
        /\ u.tail = s.tail /\ u.retx = s.retx /\ u.bound = s.bound
        /\ u.rx = s.rx /\ u.closed = s.closed
    BY DEF Good, Socket
  <2> HIDE DEF u
  <2>3. s.retx # "FIN"
    BY <1>2 DEF Unsent, Good, Typed, Fit, Marks, Own, Fields, Opening
  <2>4. Stage(u, q)
    BY <2>2, <2>3, Zenon DEF Stage, Repeats, InStep, FinAcked
  <2>5. Fits(s, u, q)
    BY <2>1, <2>2, UnlookedFits DEF Good
  <2> QED
    BY <1>2, <2>2, <2>4, <2>5 DEF CloseSocket, u
<1>3. CASE ~s.unread /\ ~(Unsent(s) > 0)
  <2>1. CloseSocket(s) = DoClose(s)
    BY <1>3 DEF CloseSocket
  <2>2. /\ Fits(s, DoClose(s), q) /\ (DoClose(s) = s \/ Stage(DoClose(s), q))
        /\ s.state = "CLOSE_WAIT" => DoClose(s).state = "LAST_ACK"
    BY <1>3, DoCloseFits
  <2>3. DoClose(s) = s => Stage(s, q)
    BY <2>2 DEF Stage
  <2> QED
    BY <2>1, <2>2, <2>3
<1> QED
  BY <1>1, <1>2, <1>3

\* SetFinSequence, within what the peer may have sent.
LEMMA SetFinFits ==
    ASSUME NEW s, NEW q, Good(s), Typed(q), Own(s, FALSE), Fit(s, q), NEW n \in Nat,
           s.high >= 1, q.high >= 1, q.state # "ESTABLISHED", n <= q.high + 1,
           n > q.high => Frozen(q)
    PROVE  Fits(s, SetFinSequence(s, n), q)
<1> DEFINE u == SetFinSequence(s, n)
<1>1. Typed(u)
  BY SetFinGood DEF Good
<1>2. /\ u.out = s.out /\ u.state = s.state /\ u.next = s.next /\ u.high = s.high
      /\ u.tail = s.tail /\ u.retx = s.retx /\ u.bound = s.bound /\ u.head = s.head
      /\ u.fin = n /\ u.rx = (IF s.rx = n THEN s.rx + 1 ELSE s.rx)
  BY DEF SetFinSequence, Good, Socket
<1> HIDE DEF u
<1>3. s.rx \in Nat /\ q.high \in Nat /\ s.high \in Nat /\ s.head \in Nat
  BY DEF Good, Typed
<1>4. s.rx <= u.rx /\ u.rx \in Nat /\ s.high <= u.high /\ s.head <= u.head
  BY <1>2, <1>3
<1>5. Steady(s, u)
  BY <1>2, <1>4, Zenon DEF Steady, Frozen
<1>6. Marks(u) /\ Timed(u) /\ Lasting(u, q)
  <2>1. u.rx >= 1
    BY <1>2, <1>3 DEF Fit, Marks
  <2>2. Marks(s) /\ Timed(s) /\ Lasting(s, q)
    BY DEF Fit
  <2>3. Marks(u)
    BY <1>2, <2>1, <2>2, Zenon DEF Marks
  <2> QED
    BY <1>2, <2>2, <2>3, Zenon DEF Timed, Lasting, Frozen
<1>7. Near(u, q)
  <2>1. s.rx <= q.high + 1 \/ (Frozen(q) /\ s.rx <= q.high + 2)
    BY DEF Fit, Near
  <2>2. u.rx <= q.high + 1 \/ (Frozen(q) /\ u.rx <= q.high + 2)
    BY <1>2, <1>3, <2>1
  <2>3. u.head <= 1 \/ u.head <= q.rx
    BY <1>2 DEF Fit, Near
  <2>4. ~(q.high = 0 \/ q.state = "ESTABLISHED")
    BY <1>3
  <2> QED
    BY <1>2, <2>2, <2>3, <2>4 DEF Near
<1>8. Fresh(u, q)
  BY <1>1, <1>2, <1>5, FreshKept, SteadyItself DEF Own, Fit, Good
<1> QED
  BY <1>5, <1>6, <1>7, <1>8 DEF Fits, Fit, u

\* A change of state alone.
LEMMA StateFits ==
    ASSUME NEW s, NEW q, Socket(s), Typed(s), Typed(q), Own(s, FALSE), Fit(s, q), s.high >= 1,
           NEW x \in States, x \notin {"SYN_SENT", "SYN_RCVD", "ESTABLISHED", "CLOSED"},
           x \in FinStates => s.state \in FinStates, s.state # "TIME_WAIT",
           Frozen(s) => x \in FrozenStates
    PROVE  Fits(s, [s EXCEPT !.state = x], q)
<1> DEFINE u == [s EXCEPT !.state = x]
<1>1. x \in FinStates => FinDue(s, FALSE)
  BY DEF Own, Fields
<1>2. Typed(u) /\ Same(s, u)
  BY <1>1, StateOwn
<1>3. /\ u.state = x /\ u.out = s.out /\ u.next = s.next /\ u.high = s.high /\ u.head = s.head
      /\ u.tail = s.tail /\ u.rx = s.rx /\ u.retx = s.retx /\ u.bound = s.bound
  BY DEF Socket
<1> HIDE DEF u
<1>4. Frozen(s) => Frozen(u)
  BY <1>3 DEF Frozen
<1>5. Marks(u) /\ Timed(u) /\ Lasting(u, q)
  BY <1>3, <1>4, Zenon DEF Fit, Marks, Timed, Lasting
<1> QED
  BY <1>2, <1>3, <1>4, <1>5, SameFits DEF u

\* DoPeerClose.
LEMMA DoPeerCloseFits ==
    ASSUME NEW s, NEW q, Socket(s), Typed(s), Typed(q), Own(s, FALSE), Fit(s, q), s.high >= 1,
           ~Frozen(s), Repeats(s)
    PROVE  /\ Fits(s, DoPeerClose(s), q) /\ Stage(DoPeerClose(s), q)
           /\ DoPeerClose(s).state \in {"CLOSE_WAIT", "LAST_ACK"}
<1> DEFINE t == [s EXCEPT !.state = "CLOSE_WAIT"]
           a == SendEmptyPacket(t, "ACK")
           u == IF s.shutdownSend THEN CloseSocket(t) ELSE a
           r == [u EXCEPT !.dataRetrCount = DataRetries, !.lastAck = TRUE]
<1>1. Socket(t) /\ Typed(t) /\ Own(t, FALSE) /\ Same(s, t)
  BY StateOwn DEF States, FinStates
<1>2. /\ Good(t) /\ t.state = "CLOSE_WAIT" /\ t.shutdownSend = s.shutdownSend /\ t.high >= 1
      /\ t.out = s.out /\ t.next = s.next /\ t.high = s.high /\ t.head = s.head
      /\ t.tail = s.tail /\ t.rx = s.rx /\ t.retx = s.retx /\ t.bound = s.bound
      /\ t.closed = s.closed
  BY <1>1 DEF Good, Guarded, Socket
<1> HIDE DEF t
<1>3. Fits(s, t, q)
  <2>1. Marks(t) /\ Timed(t) /\ Lasting(t, q)
    <3>1. s.state # "TIME_WAIT" /\ ~Frozen(s)
      BY DEF Frozen, FrozenStates
    <3> QED
      BY <1>2, <3>1, Zenon DEF Fit, Marks, Timed, Lasting, FinStates
  <2> QED
    BY <1>1, <1>2, <2>1, SameFits
<1>4. InStep(t, q) /\ FinAcked(t, q)
  BY <1>2 DEF InStep, FinAcked
<1>5. s.retx = "FIN" => s.closed \/ s.shutdownSend
  BY DEF Own, Fields, FinDue, Ended
<1>6. Good(u)
  BY <1>2, CloseSocketGood, EmptyPacketGood DEF Good, Flags
<1>7. ASSUME s.shutdownSend
      PROVE  /\ Own(u, FALSE) /\ Fits(t, u, q) /\ Stage(u, q)
             /\ u.state \in {"CLOSE_WAIT", "LAST_ACK"}
  BY <1>1, <1>2, <1>3, <1>4, <1>7, CloseSocketOwn, CloseSocketFits DEF Ended, Fits
<1>8. ASSUME ~s.shutdownSend
      PROVE  /\ Own(u, FALSE) /\ Fits(t, u, q) /\ Stage(u, q)
             /\ u.state \in {"CLOSE_WAIT", "LAST_ACK"}
  <2>1. u = a
    BY <1>8
  <2>2. Own(a, FALSE) /\ Fits(t, a, q)
    BY <1>1, <1>2, <1>3, EmptyPacketOwn, EmptyFits DEF Good, MayEmit, Flags, Fits
  <2>3. a.state = t.state /\ a.retx = t.retx /\ a.closed = t.closed
    BY <1>2 DEF SendEmptyPacket, Emit, Good, Socket, Typed
  <2> HIDE DEF a
  <2>4. Stage(a, q)
    BY <1>2, <1>5, <1>8, <2>3 DEF Stage, Repeats, InStep, FinAcked
  <2> QED
    BY <1>2, <2>1, <2>2, <2>3, <2>4
<1>9. Own(u, FALSE) /\ Fits(s, u, q) /\ Stage(u, q) /\ u.state \in {"CLOSE_WAIT", "LAST_ACK"}
  BY <1>1, <1>3, <1>6, <1>7, <1>8, FitsTrans DEF Good
<1> HIDE DEF u
<1>10. CASE u.state = "LAST_ACK"
  <2>1. DataRetries \in 0 .. DataRetries
    BY ConnectionAssumption
  <2>2. Typed(r) /\ Same(u, r)
    BY <1>6, <2>1 DEF Good, Socket, Typed, Same, HasSyn
  <2>3. /\ r.out = u.out /\ r.state = u.state /\ r.next = u.next /\ r.high = u.high
        /\ r.tail = u.tail /\ r.retx = u.retx /\ r.bound = u.bound
    BY <1>6 DEF Good, Socket
  <2>4. DoPeerClose(s) = r
    BY <1>10 DEF DoPeerClose, u, t
  <2> HIDE DEF r
  <2>5. Fits(u, r, q)
    BY <1>6, <1>9, <2>2, <2>3, UnlookedFits DEF Good, Fits
  <2>6. Stage(r, q)
    BY <1>10, <2>3 DEF Stage, Repeats, InStep, FinAcked, FinStates
  <2> QED
    BY <1>6, <1>9, <2>2, <2>3, <2>4, <2>5, <2>6, FitsTrans DEF Good
<1>11. CASE u.state # "LAST_ACK"
  BY <1>9, <1>11 DEF DoPeerClose, u, t
<1> QED
  BY <1>10, <1>11

\* The peer's segment, which it has sent.
LEMMA AddFits ==
    ASSUME NEW s, NEW q, Good(s), Typed(q), Own(s, FALSE), Fit(s, q), s.high >= 1,
           NEW p, Proper(p), p.len = 1, q.high >= 2
    PROVE  LET u == Add(s, p)
           IN  /\ Fits(s, u, q) /\ (InStep(s, q) => InStep(u, q) \/ Finished(u))
               /\ u.state = s.state /\ u.next = s.next /\ u.high = s.high /\ u.retx = s.retx
               /\ u.closed = s.closed
<1> DEFINE u == Add(s, p)
           v == IF s.fin = 2 THEN 3 ELSE 2
<1>1. p \in Packets /\ p.seq = 1
  BY DEF Proper
<1>2. CASE 2 <= s.rx
  <2>1. u = s
    BY <1>1, <1>2 DEF Add
  <2> QED
    BY <2>1, FitsItself DEF Good
<1>3. CASE ~(2 <= s.rx)
  <2>1. u = [s EXCEPT !.rx = v, !.got = TRUE, !.unread = s.slow]
    BY <1>1, <1>3 DEF Add
  <2>2. Typed(u)
    BY <1>1, AddGood DEF Good
  <2>3. /\ u.out = s.out /\ u.state = s.state /\ u.next = s.next /\ u.high = s.high
        /\ u.tail = s.tail /\ u.retx = s.retx /\ u.bound = s.bound /\ u.head = s.head
        /\ u.fin = s.fin /\ u.rx = v /\ u.closed = s.closed
    BY <2>1 DEF Good, Socket
  <2> HIDE DEF u
  <2>4. s.rx \in Nat /\ q.high \in Nat /\ s.high \in Nat /\ s.head \in Nat
    BY DEF Good, Typed
  <2>5. v \in 2 .. 3 /\ s.rx <= u.rx /\ s.high <= u.high /\ s.head <= u.head
    BY <1>3, <2>3, <2>4
  <2>6. Steady(s, u)
    BY <2>3, <2>5, Zenon DEF Steady, Frozen
  <2>7. Marks(u) /\ Timed(u) /\ Lasting(u, q)
    <3>1. u.rx >= 1
      BY <2>3, <2>5
    <3>2. Marks(s) /\ Timed(s) /\ Lasting(s, q)
      BY DEF Fit
    <3>3. Marks(u)
      BY <2>3, <3>1, <3>2, Zenon DEF Marks
    <3> QED
      BY <2>3, <3>2, <3>3, Zenon DEF Timed, Lasting, Frozen
  <2>8. Near(u, q)
    <3>1. u.rx <= q.high + 1
      BY <2>3, <2>4, <2>5
    <3>2. u.head <= 1 \/ u.head <= q.rx
      BY <2>3 DEF Fit, Near
    <3>3. u.fin <= q.high + 1
      BY <2>3 DEF Fit, Near
    <3>4. s.fin = 0 => u.rx <= q.high
      BY <2>3, <2>4
    <3>5. q.high = 0 \/ q.state = "ESTABLISHED" => u.fin = 0 /\ u.rx <= q.high
      BY <2>3, <3>4 DEF Fit, Near
    <3> QED
      BY <3>1, <3>2, <3>3, <3>5, Zenon DEF Near
  <2>9. Fresh(u, q)
    BY <2>2, <2>3, <2>6, FreshKept, SteadyItself DEF Own, Fit, Good
  <2>10. InStep(u, q) \/ Finished(u)
    BY <2>3, <2>4 DEF InStep, Finished
  <2> QED
    BY <2>3, <2>6, <2>7, <2>8, <2>9, <2>10 DEF Fits, Fit, u
<1> QED
  BY <1>2, <1>3

\* What an ACK leaves as it is.
LEMMA AckKeeps ==
    ASSUME NEW s, Socket(s), Typed(s)
    PROVE  LET u == SendEmptyPacket(s, "ACK")
           IN  /\ u.state = s.state /\ u.next = s.next /\ u.high = s.high /\ u.rx = s.rx
               /\ u.fin = s.fin /\ u.retx = s.retx /\ u.closed = s.closed /\ u.head = s.head
               /\ u.tail = s.tail /\ u.bound = s.bound
BY DEF SendEmptyPacket, Emit, Socket, Typed

\* A handler leaves the state of a socket, and what is counted there.
Stands(s, u) ==
    u.state = s.state /\ u.next = s.next /\ u.high = s.high /\ u.tail = s.tail

LEMMA ReceivedDataFits ==
    ASSUME NEW s, NEW q, Good(s), Typed(q), Own(s, FALSE), Fit(s, q), s.high >= 1,
           ~Frozen(s), Repeats(s), NEW p, Proper(p), p.len = 1, q.high >= 2
    PROVE  LET u == ReceivedData(s, p)
           IN  /\ Fits(s, u, q) /\ Repeats(u)
               /\ \/ Stands(s, u)
                  \/ /\ p.flags # "FIN" /\ Stage(u, q)
                     /\ u.state \in {"CLOSE_WAIT", "LAST_ACK"}
               /\ InStep(s, q) => InStep(u, q) \/ (p.flags = "FIN" /\ Finished(u))
<1> DEFINE t == Add(s, p)
           u == ReceivedData(s, p)
           a == SendEmptyPacket(t, "ACK")
           v == [t EXCEPT !.delAck = @ + 1]
<1>1. p \in Packets /\ p.seq = 1
  BY DEF Proper
<1>2. Good(t) /\ Own(t, FALSE) /\ t.high >= 1 /\ t.delAck = s.delAck
  BY <1>1, AddGood, AddOwn
<1>3. /\ Fits(s, t, q) /\ (InStep(s, q) => InStep(t, q) \/ Finished(t))
      /\ t.state = s.state /\ t.next = s.next /\ t.high = s.high /\ t.retx = s.retx
      /\ t.closed = s.closed
  BY AddFits
<1>4. t.tail = s.tail
  BY DEF Add, Good, Socket
<1>5. Good(u)
  BY <1>1, ReceivedDataGood
<1>6. p.seq + p.len <= s.rx => t = s
  BY DEF Add
<1> HIDE DEF t
<1>7. Repeats(t) /\ ~Frozen(t)
  BY <1>3 DEF Repeats, Frozen
<1>8. Fits(t, a, q) /\ Good(a)
  BY <1>2, <1>3, EmptyFits, EmptyPacketGood DEF Fits, Good, MayEmit, Flags
<1>9. /\ a.state = t.state /\ a.next = t.next /\ a.high = t.high /\ a.rx = t.rx
      /\ a.fin = t.fin /\ a.retx = t.retx /\ a.closed = t.closed /\ a.tail = t.tail
  BY <1>2, AckKeeps DEF Good
<1> HIDE DEF a
<1>10. /\ Fits(s, a, q) /\ Repeats(a) /\ Stands(s, a)
       /\ InStep(s, q) => InStep(a, q) \/ Finished(a)
  <2>1. Fits(s, a, q)
    BY <1>2, <1>3, <1>8, FitsTrans DEF Good
  <2>2. Repeats(a) /\ Stands(s, a)
    BY <1>3, <1>4, <1>7, <1>9, Zenon DEF Repeats, Stands
  <2>3. InStep(s, q) => InStep(a, q) \/ Finished(a)
    BY <1>3, <1>9, Zenon DEF InStep, Finished
  <2> QED
    BY <2>1, <2>2, <2>3
<1>11. CASE p.seq + p.len <= s.rx
  <2>1. t = s
    BY <1>6, <1>11
  <2>2. u = a
    <3>1. ~(p.seq + p.len > s.rx)
      BY <1>1, <1>11 DEF Packets, Good, Typed
    <3> QED
      BY <1>11, <2>1, <3>1 DEF ReceivedData, a
  <2>3. InStep(s, q) => InStep(a, q)
    BY <1>9, <2>1, Zenon DEF InStep
  <2> QED
    BY <1>10, <2>2, <2>3 DEF u
<1>12. CASE ~(p.seq + p.len <= s.rx) /\ Finished(t) /\ p.flags # "FIN"
  <2>1. p.seq + p.len > s.rx
    <3>1. p.seq \in Nat /\ p.len \in 0 .. 1 /\ s.rx \in Nat
      BY <1>1 DEF Packets, Good, Typed
    <3> QED
      BY <1>12, <3>1
  <2>2. u = DoPeerClose(t)
    BY <1>12, <2>1 DEF ReceivedData, t
  <2>3. Fits(t, u, q) /\ Stage(u, q) /\ u.state \in {"CLOSE_WAIT", "LAST_ACK"}
    BY <1>2, <1>3, <1>7, <2>2, DoPeerCloseFits DEF Good, Fits
  <2> HIDE DEF u
  <2>4. Fits(s, u, q)
    BY <1>2, <1>3, <1>5, <2>3, FitsTrans DEF Good
  <2> QED
    BY <1>12, <2>3, <2>4 DEF Stage, u
<1>13. CASE ~(p.seq + p.len <= s.rx) /\ ~(Finished(t) /\ p.flags # "FIN")
  <2>1. u = a \/ u = v
    BY <1>13 DEF ReceivedData, t, a
  <2>2. CASE u = a
    <3> HIDE DEF u
    <3>1. Finished(a) => Finished(t)
      BY <1>9, Zenon DEF Finished
    <3>2. InStep(s, q) => InStep(a, q) \/ (p.flags = "FIN" /\ Finished(a))
      <4>1. InStep(t, q) => InStep(a, q)
        BY <1>9, Zenon DEF InStep
      <4>2. Finished(t) => Finished(a)
        BY <1>9, Zenon DEF Finished
      <4> QED
        BY <1>3, <1>13, <4>1, <4>2
    <3> QED
      BY <1>10, <2>2, <3>2 DEF u
  <2>3. CASE u = v
    <3> HIDE DEF u
    <3>1. /\ v.out = t.out /\ v.state = t.state /\ v.next = t.next /\ v.high = t.high
          /\ v.tail = t.tail /\ v.retx = t.retx /\ v.bound = t.bound /\ v.rx = t.rx
          /\ v.fin = t.fin /\ v.closed = t.closed
      BY <1>2 DEF Good, Socket
    <3>2. Same(t, v)
      BY <1>2 DEF Good, Socket, Same, Typed, HasSyn
    <3> HIDE DEF v
    <3>3. Fits(t, v, q)
      BY <1>2, <1>3, <1>5, <2>3, <3>1, <3>2, UnlookedFits DEF Good, Fits
    <3>4. Fits(s, v, q)
      BY <1>2, <1>3, <1>5, <2>3, <3>3, FitsTrans DEF Good
    <3>5. Repeats(v) /\ Stands(s, v)
      BY <1>3, <1>4, <1>7, <3>1, Zenon DEF Repeats, Stands
    <3>6. InStep(s, q) => InStep(v, q) \/ (p.flags = "FIN" /\ Finished(v))
      <4>1. InStep(t, q) => InStep(v, q)
        BY <3>1, Zenon DEF InStep
      <4>2. Finished(t) => Finished(v)
        BY <3>1, Zenon DEF Finished
      <4> QED
        BY <1>3, <1>13, <4>1, <4>2
    <3> QED
      BY <2>3, <3>4, <3>5, <3>6 DEF u
  <2> QED
    BY <2>1, <2>2, <2>3
<1> QED
  BY <1>11, <1>12, <1>13

\* A packet of the peer is within what the peer has sent.
Sound(q, s, p) == PacketOwn(q, FALSE, p) /\ FreshPacket(q, s, p)

LEMMA PeerCloseFits ==
    ASSUME NEW s, NEW q, Good(s), Typed(q), Own(s, FALSE), Fit(s, q), s.high >= 1,
           ~Frozen(s), Repeats(s), InStep(s, q), FinAcked(s, q),
           NEW p, Proper(p), p.flags = "FIN", Sound(q, s, p)
    PROVE  Fits(s, PeerClose(s, p), q) /\ Stage(PeerClose(s, p), q)
<1> DEFINE n == p.seq + p.len
           t == SetFinSequence(s, n)
           u == IF p.len > 0 THEN ReceivedData(t, p) ELSE t
           r == PeerClose(s, p)
<1>1. p \in Packets /\ p.len \in 0 .. 1 /\ p.seq \in Nat /\ n \in Nat
  BY DEF Proper, Packets
<1>2. CASE p.seq < s.rx
  <2>1. r = s
    BY <1>2 DEF PeerClose
  <2> QED
    BY <2>1, FitsItself DEF Good, Stage
<1>3. CASE ~(p.seq < s.rx)
  <2>1. /\ q.high >= 1 /\ q.state # "ESTABLISHED" /\ n <= q.high + 1
        /\ (n > q.high => Frozen(q)) /\ (p.len = 1 => q.high >= 2)
    BY DEF Sound, PacketOwn, FreshPacket
  <2>2. Good(t) /\ Own(t, FALSE) /\ t.high >= 1 /\ Fits(s, t, q)
    <3> HIDE DEF t
    <3>1. n = p.seq + p.len
      OBVIOUS
    <3>2. Good(t) /\ Own(t, FALSE)
      <4> HIDE DEF n
      <4> QED
        BY <1>1, <3>1, SetFinGood, SetFinOwn DEF t
    <3>3. t.high = s.high
      BY DEF t, SetFinSequence, Good, Socket
    <3>4. Fits(s, t, q)
      <4> HIDE DEF n
      <4> QED
        BY <1>1, <2>1, SetFinFits DEF t
    <3> QED
      BY <3>2, <3>3, <3>4
  <2>3. /\ t.fin = n /\ t.state = s.state /\ t.next = s.next /\ t.high = s.high
        /\ t.retx = s.retx /\ t.closed = s.closed /\ t.tail = s.tail
        /\ t.rx = (IF s.rx = n THEN s.rx + 1 ELSE s.rx)
    <3> HIDE DEF n
    <3> QED
      BY DEF SetFinSequence, Good, Socket
  <2> HIDE DEF t
  <2>4. Repeats(t) /\ ~Frozen(t) /\ FinAcked(t, q)
    BY <2>3, Zenon DEF Repeats, Frozen, FinAcked
  <2>5. InStep(t, q) \/ Finished(t)
    <3>1. CASE s.rx = n
      BY <1>1, <2>3, <3>1, <1>3 DEF Finished, Proper
    <3>2. CASE s.rx # n
      BY <2>3, <3>2 DEF InStep
    <3> QED
      BY <3>1, <3>2
  <2>6. /\ Good(u) /\ Own(u, FALSE) /\ u.high >= 1 /\ Fits(s, u, q) /\ Repeats(u)
        /\ Stands(t, u) /\ (InStep(u, q) \/ Finished(u))
    <3>1. CASE p.len = 0
      <4>1. u = t
        BY <3>1
      <4> HIDE DEF u
      <4> QED
        BY <2>2, <2>4, <2>5, <4>1 DEF Stands
    <3>2. CASE p.len = 1
      <4>1. u = ReceivedData(t, p)
        BY <3>2
      <4>2. InStep(t, q)
        <5>1. n = 2 /\ p.seq = 1
          BY <3>2 DEF Proper
        <5>2. s.rx # n
          BY <1>3, <5>1
        <5> HIDE DEF n
        <5> QED
          BY <2>3, <5>2 DEF InStep
      <4> HIDE DEF u
      <4>3. Good(u) /\ Own(u, FALSE) /\ Takes(t, u, p)
        BY <1>1, <2>2, <3>2, <4>1, ReceivedDataGood, ReceivedDataOwn
      <4>4. Fit(t, q)
        BY <2>2 DEF Fits
      <4>5. q.high >= 2
        BY <2>1, <3>2
      <4>6. /\ Fits(t, u, q) /\ Repeats(u) /\ Stands(t, u)
            /\ InStep(u, q) \/ Finished(u)
        BY <2>2, <2>4, <3>2, <4>1, <4>2, <4>4, <4>5, ReceivedDataFits
      <4>7. Fits(s, u, q) /\ u.high >= 1
        BY <2>2, <4>3, <4>6, FitsTrans DEF Good, Stands
      <4> QED
        BY <4>3, <4>6, <4>7
    <3> HIDE DEF u
    <3>3. p.len = 0 \/ p.len = 1
      BY <1>1
    <3> QED
      BY <3>1, <3>2, <3>3
  <2> HIDE DEF u
  <2>7. ~Frozen(u) /\ FinAcked(u, q)
    BY <2>4, <2>6, Zenon DEF Stands, Frozen, FinAcked
  <2>8. r = CASE ~Finished(u) -> u
              [] Finished(u) /\ u.state = "FIN_WAIT_1" -> [u EXCEPT !.state = "CLOSING"]
              [] OTHER -> DoPeerClose(u)
    BY <1>3 DEF PeerClose, u, t, n
  <2>9. Good(r)
    BY <1>1, PeerCloseGood
  <2> HIDE DEF r
  <2>10. CASE ~Finished(u)
    <3>1. r = u
      BY <2>8, <2>10
    <3> QED
      BY <2>6, <2>7, <2>10, <3>1 DEF r, Stage
  <2>11. CASE Finished(u) /\ u.state = "FIN_WAIT_1"
    <3>1. r = [u EXCEPT !.state = "CLOSING"]
      BY <2>8, <2>11
    <3>2. FinDue(u, FALSE)
      BY <2>6, <2>11 DEF Own, Fields, FinStates
    <3>3. Fits(u, r, q)
      BY <2>6, <2>11, <3>1, <3>2, StateFits
        DEF Good, Fits, States, FinStates, FrozenStates
    <3>4. r.state = "CLOSING"
      BY <2>6, <3>1 DEF Good, Socket
    <3>5. Stage(r, q)
      BY <3>4 DEF Stage, Repeats, InStep, FinAcked, FinStates
    <3>6. Fits(s, r, q)
      BY <2>6, <2>9, <3>3, FitsTrans DEF Good
    <3> QED
      BY <3>5, <3>6 DEF r
  <2>12. CASE Finished(u) /\ u.state # "FIN_WAIT_1"
    <3>1. r = DoPeerClose(u)
      BY <2>8, <2>12
    <3>2. Fits(u, r, q) /\ Stage(r, q)
      BY <2>6, <2>7, <3>1, DoPeerCloseFits DEF Good, Fits
    <3>3. Fits(s, r, q)
      BY <2>6, <2>9, <3>2, FitsTrans DEF Good
    <3> QED
      BY <3>2, <3>3 DEF r
  <2> QED
    BY <2>10, <2>11, <2>12
<1> QED
  BY <1>2, <1>3

\* ProcessAck, of what the peer may acknowledge.
LEMMA ProcessAckFits ==
    ASSUME NEW s, NEW q, Good(s), Typed(q), Own(s, FALSE), Fit(s, q), s.high >= 1, NEW p,
           Proper(p), p.ack <= q.rx, p.ack <= s.high + 1,
           s.state = "ESTABLISHED" => p.ack <= s.high
    PROVE  LET u == ProcessAck(s, p.ack)
           IN  /\ Fits(s, u, q) /\ u.state = s.state /\ u.high = s.high /\ u.rx = s.rx
               /\ u.fin = s.fin /\ u.closed = s.closed
               /\ u.retx = s.retx \/ u.retx \in {"none", "DATA"}
               /\ u.next = s.next \/ u.next = p.ack
<1> DEFINE ack == p.ack
           u == ProcessAck(s, ack)
<1>1. ack \in Nat
  BY DEF Proper, Packets
<1>2. Good(u)
  BY <1>1, ProcessAckGood
<1>3. Takes(s, u, p)
  BY ProcessAckOwn
<1> HIDE DEF ack
<1>4. /\ s.next \in Nat /\ s.high \in Nat /\ s.head \in Nat /\ s.tail \in Nat /\ s.rx \in Nat
  BY DEF Good, Typed
<1>5. /\ s.head >= 1 /\ s.next >= s.head
      /\ (s.head = 1 /\ s.tail \in {1, 2}) \/ (s.head = s.tail /\ s.head >= 2)
  <2>1. /\ s.next >= s.head
        /\ (s.head = 1 /\ s.tail \in {1, 2}) \/ (s.head = s.tail /\ s.head >= 2)
    BY DEF Own, Fields
  <2> QED
    BY <1>4, <2>1
<1>6. /\ s.high <= s.next /\ s.next <= s.high + 1 /\ s.high <= 2 /\ s.next <= s.tail
      /\ s.next > s.high => s.next <= s.head
      /\ s.state = "ESTABLISHED" => s.next <= s.high
      /\ s.rx >= 1
      /\ s.state \in FinStates => s.next >= s.tail
  BY DEF Fit, Marks
<1>7. CASE ack > s.head
  <2>1. u = NewAck(DiscardUpTo(s, ack), ack)
    BY <1>1, <1>4, <1>7 DEF ProcessAck
  <2>2. /\ u.out = s.out /\ u.state = s.state /\ u.high = s.high /\ u.rx = s.rx
        /\ u.fin = s.fin /\ u.closed = s.closed /\ u.head = ack /\ u.bound = s.bound
        /\ u.tail = (IF ack > s.tail THEN ack ELSE s.tail)
        /\ u.next = (IF ack > s.next THEN ack ELSE s.next)
        /\ u.retx \in {"none", "DATA"}
    BY <2>1 DEF NewAck, DiscardUpTo, Good, Socket
  <2> HIDE DEF u
  <2>3. u.tail = ack /\ s.head <= u.head /\ s.rx <= u.rx /\ s.high <= u.high
        /\ s.next <= u.next
    BY <1>1, <1>4, <1>5, <1>7, <2>2
  <2>4. Steady(s, u)
    BY <2>2, <2>3, Zenon DEF Steady, Frozen
  <2>5. ack <= s.high + 1 /\ ack <= q.rx /\ (s.state = "ESTABLISHED" => ack <= s.high)
    BY DEF ack
  <2>6. Marks(u)
    <3>1. /\ u.high <= u.next /\ u.next <= u.high + 1 /\ u.high <= 2 /\ u.next <= u.tail
          /\ u.next > u.high => u.next <= u.head
          /\ u.state = "ESTABLISHED" => u.next <= u.high
          /\ u.next >= u.tail
      BY <1>1, <1>4, <1>5, <1>6, <1>7, <2>2, <2>3, <2>5
    <3>2. u.retx # "FIN"
      BY <2>2
    <3> QED
      BY <1>6, <2>2, <3>1, <3>2 DEF Marks
  <2>7. Timed(u) /\ Lasting(u, q)
    BY <1>1, <2>2, <2>3 DEF Timed, Lasting
  <2>8. Near(u, q)
    BY <2>2, <2>5, Zenon DEF Fit, Near
  <2>9. Fresh(u, q)
    BY <1>2, <2>2, <2>4, FreshKept, SteadyItself DEF Own, Fit, Good
  <2>10. u.next = s.next \/ u.next = ack
    BY <2>2
  <2> QED
    BY <2>2, <2>4, <2>6, <2>7, <2>8, <2>9, <2>10 DEF Fits, Fit, u, ack
<1>8. CASE ack = s.head /\ ack > s.high
  <2>1. u = [s EXCEPT !.next = ack]
    BY <1>1, <1>4, <1>8 DEF ProcessAck
  <2>2. /\ u.out = s.out /\ u.state = s.state /\ u.high = s.high /\ u.rx = s.rx
        /\ u.fin = s.fin /\ u.closed = s.closed /\ u.bound = s.bound
        /\ u.tail = s.tail /\ u.next = ack /\ u.retx = s.retx
    BY <2>1 DEF Good, Socket
  <2>3. ack = s.next
    BY <1>1, <1>4, <1>5, <1>6, <1>8
  <2>4. Same(s, u)
    BY <2>1 DEF Good, Socket, Same, Typed, HasSyn
  <2> HIDE DEF u
  <2>5. Fits(s, u, q)
    BY <1>2, <2>2, <2>3, <2>4, UnlookedFits DEF Good
  <2> QED
    BY <2>2, <2>3, <2>5 DEF u, ack
<1>9. CASE ~(ack > s.head) /\ ~(ack = s.head /\ ack > s.high)
  <2>1. u = s
    BY <1>9 DEF ProcessAck
  <2> QED
    BY <2>1, FitsItself DEF Good, u, ack
<1> QED
  BY <1>7, <1>8, <1>9

\* What SendPendingData leaves of these.
LEMMA PendingDataStage ==
    ASSUME NEW s, NEW q, Good(s), Typed(q), Own(s, FALSE), Fit(s, q), s.high >= 1
    PROVE  LET u == SendPendingData(s)
           IN  /\ u.rx = s.rx /\ (Finished(s) => Finished(u))
               /\ Repeats(s) => Repeats(u)
               /\ InStep(s, q) => InStep(u, q)
               /\ u.state = "FIN_WAIT_1" => s.state \in {"FIN_WAIT_1", "ESTABLISHED"}
<1> DEFINE u == SendPendingData(s)
<1>1. CASE s.bound /\ Size(s) > 0 /\ Unsent(s) > 0
  <2>1. u = SendDataPacket(s, s.next)
    BY <1>1 DEF SendPendingData
  <2>2. s.retx # "FIN"
    <3>1. s.next \in Nat /\ s.tail \in Nat /\ s.high \in Nat /\ s.high <= s.next
      BY DEF Good, Typed, Fit, Marks
    <3>2. ~(s.next >= s.tail)
      BY <1>1, <3>1 DEF Unsent
    <3> QED
      BY <3>2 DEF Fit, Marks
  <2>3. /\ u.rx = s.rx /\ u.fin = s.fin /\ u.closed = s.closed
        /\ u.retx = (IF s.retx = "none" THEN "DATA" ELSE s.retx)
        /\ \/ u.state = s.state
           \/ u.state = "FIN_WAIT_1" /\ s.state = "ESTABLISHED"
           \/ u.state = "LAST_ACK"
    BY <2>1 DEF SendDataPacket, Good, Socket
  <2> HIDE DEF u
  <2>4. u.retx # "FIN"
    BY <2>2, <2>3
  <2> QED
    BY <2>3, <2>4 DEF Repeats, InStep, Finished, u
<1>2. CASE ~(s.bound /\ Size(s) > 0 /\ Unsent(s) > 0)
  <2>1. u = s
    BY <1>2 DEF SendPendingData
  <2> QED
    BY <2>1
<1> QED
  BY <1>1, <1>2

\* ReceivedAck.  A FIN with data waits for its caller.
LEMMA ReceivedAckFits ==
    ASSUME NEW s, NEW q, Good(s), Typed(q), Own(s, FALSE), Fit(s, q), s.high >= 1,
           ~Frozen(s), Repeats(s), InStep(s, q), NEW p, Proper(p), Sound(q, s, p),
           p.ack <= s.high + 1, s.state = "ESTABLISHED" => p.ack <= s.high
    PROVE  LET u == ReceivedAck(s, p)
           IN  /\ Fits(s, u, q) /\ Repeats(u)
               /\ InStep(u, q) \/ (p.flags = "FIN" /\ p.len = 1 /\ u.rx >= 2)
               /\ u.state = "FIN_WAIT_1" =>
                    \/ u.next <= u.high
                    \/ /\ s.state = "FIN_WAIT_1" /\ u.high = s.high
                       /\ u.next = s.next \/ u.next = p.ack
<1> DEFINE t == ProcessAck(s, p.ack)
           d == IF p.len > 0 THEN ReceivedData(t, p) ELSE t
           u == ReceivedAck(s, p)
<1>1. p \in Packets /\ p.ack \in Nat /\ p.len \in 0 .. 1
  BY DEF Proper, Packets
<1>2. Good(t) /\ Own(t, FALSE)
  BY <1>1, ProcessAckGood, ProcessAckOwn
<1>3. /\ Fits(s, t, q) /\ t.state = s.state /\ t.high = s.high /\ t.rx = s.rx
      /\ t.fin = s.fin /\ t.closed = s.closed
      /\ t.retx = s.retx \/ t.retx \in {"none", "DATA"}
      /\ t.next = s.next \/ t.next = p.ack
  <2>1. p.ack <= q.rx
    BY DEF Sound, PacketOwn
  <2> QED
    BY <2>1, ProcessAckFits
<1> HIDE DEF t
<1>4. Repeats(t) /\ ~Frozen(t) /\ InStep(t, q)
  <2>1. t.retx = "FIN" => s.retx = "FIN"
    BY <1>3
  <2> QED
    BY <1>3, <2>1, Zenon DEF Repeats, Frozen, InStep
<1>5. /\ Good(d) /\ Own(d, FALSE) /\ d.high >= 1 /\ Fits(s, d, q) /\ Repeats(d)
      /\ Stands(t, d) \/ d.state \in {"CLOSE_WAIT", "LAST_ACK"}
      /\ InStep(d, q) \/ (p.flags = "FIN" /\ p.len = 1 /\ d.rx >= 2)
  <2>1. CASE p.len = 0
    <3>1. d = t
      BY <2>1
    <3> HIDE DEF d
    <3> QED
      BY <1>2, <1>3, <1>4, <3>1 DEF Stands
  <2>2. CASE p.len = 1
    <3>1. d = ReceivedData(t, p)
      BY <2>2
    <3>2. Add(t, p).rx >= 2
      <4>1. p.seq = 1 /\ p.seq + p.len = 2
        BY <2>2 DEF Proper
      <4>2. t.rx \in Nat
        BY <1>2 DEF Good, Typed
      <4> QED
        BY <1>2, <4>1, <4>2 DEF Add, Good, Socket
    <3> HIDE DEF d
    <3>3. t.high >= 1
      BY <1>3
    <3>4. Good(d) /\ Own(d, FALSE) /\ Takes(t, d, p)
          /\ (p.flags = "FIN" => d.rx = Add(t, p).rx)
      BY <1>1, <1>2, <2>2, <3>1, <3>3, ReceivedDataGood, ReceivedDataOwn
    <3>5. q.high >= 2
      BY <2>2 DEF Sound, FreshPacket
    <3>6. Fit(t, q)
      BY <1>3 DEF Fits
    <3>7. /\ Fits(t, d, q) /\ Repeats(d)
          /\ Stands(t, d) \/ d.state \in {"CLOSE_WAIT", "LAST_ACK"}
          /\ InStep(d, q) \/ p.flags = "FIN"
      BY <1>2, <1>4, <2>2, <3>1, <3>3, <3>5, <3>6, ReceivedDataFits
    <3>8. Fits(s, d, q)
      BY <1>2, <1>3, <3>4, <3>7, FitsTrans DEF Good
    <3>9. d.high >= 1
      BY <1>2, <3>3, <3>4 DEF Takes, Good, Typed
    <3> QED
      BY <2>2, <3>2, <3>4, <3>7, <3>8, <3>9
  <2> HIDE DEF d
  <2>3. p.len = 0 \/ p.len = 1
    BY <1>1
  <2> QED
    BY <2>1, <2>2, <2>3
<1> HIDE DEF d
<1>6. u = IF p.ack < s.head THEN d ELSE SendPendingData(d)
  BY DEF ReceivedAck, d, t
<1> HIDE DEF u
<1>7. d.state = "FIN_WAIT_1" =>
        /\ s.state = "FIN_WAIT_1" /\ d.high = s.high
        /\ d.next = s.next \/ d.next = p.ack
  BY <1>3, <1>5 DEF Stands
<1>8. CASE u = d
  BY <1>5, <1>7, <1>8 DEF u
<1>9. CASE u = SendPendingData(d)
  <2>1. /\ Fits(d, u, q)
        /\ u = d \/ (u.next = 2 /\ u.high = 2)
        /\ u.rx = d.rx /\ (Repeats(d) => Repeats(u)) /\ (InStep(d, q) => InStep(u, q))
    <3>1. Fit(d, q)
      BY <1>5 DEF Fits
    <3> QED
      BY <1>5, <1>9, <3>1, PendingDataFits, PendingDataStage
  <2>2. Typed(u)
    BY <1>5, <1>9, PendingDataGood DEF Good
  <2>3. Fits(s, u, q)
    BY <1>5, <2>1, <2>2, FitsTrans DEF Good
  <2>4. u = d \/ u.next <= u.high
    BY <2>1
  <2> QED
    BY <1>5, <1>7, <2>1, <2>3, <2>4 DEF u
<1> QED
  BY <1>6, <1>8, <1>9

\* ProcessWait up to its check for a FIN in sequence: a FIN that acknowledges
\* the socket's own and is not in sequence is of a peer that closes.
LEMMA WaitForFinFits ==
    ASSUME NEW s, NEW q, Good(s), Typed(q), Own(s, FALSE), Fit(s, q), s.high >= 1,
           ~Frozen(s), Stage(s, q), NEW p, Proper(p), Sound(q, s, p),
           p.ack <= s.high + 1, s.state # "ESTABLISHED"
    PROVE  LET u == WaitForFin(s, p)
           IN  /\ Fits(s, u, q) /\ Repeats(u)
               /\ (InStep(u, q) /\ FinAcked(u, q)) \/ Finished(u)
<1> DEFINE t == ReceivedAck(s, p)
           f == SetFinSequence(t, p.seq)
           v == [t EXCEPT !.state = "FIN_WAIT_2"]
           u == WaitForFin(s, p)
<1>1. p \in Packets /\ p.seq \in Nat /\ p.len \in 0 .. 1 /\ p.ack \in Nat
  BY DEF Proper, Packets
<1>2. Good(t) /\ Own(t, FALSE) /\ Takes(s, t, p)
  BY <1>1, ReceivedAckGood, ReceivedAckOwn
<1>3. /\ Fits(s, t, q) /\ Repeats(t)
      /\ InStep(t, q) \/ (p.flags = "FIN" /\ p.len = 1 /\ t.rx >= 2)
      /\ t.state = "FIN_WAIT_1" =>
           \/ t.next <= t.high
           \/ /\ s.state = "FIN_WAIT_1" /\ t.high = s.high
              /\ t.next = s.next \/ t.next = p.ack
  BY ReceivedAckFits DEF Stage
<1> HIDE DEF t
<1>4. /\ t.next \in Nat /\ t.high \in Nat /\ t.head \in Nat /\ t.tail \in Nat /\ t.rx \in Nat
      /\ s.rx \in Nat /\ s.high \in Nat
      /\ t.high >= 1 /\ s.rx <= t.rx /\ t.rx >= 1
  <2>1. /\ t.next \in Nat /\ t.high \in Nat /\ t.head \in Nat /\ t.tail \in Nat /\ t.rx \in Nat
        /\ s.rx \in Nat /\ s.high \in Nat
    BY <1>2 DEF Good, Typed
  <2>2. s.high <= t.high /\ s.rx <= t.rx /\ (t.high >= 1 => t.rx >= 1)
    BY <1>3 DEF Fits, Steady, Fit, Marks
  <2> QED
    BY <2>1, <2>2
<1>5. t.state = "FIN_WAIT_1" /\ t.next > t.high =>
        Frozen(q) \/ (t.high = s.high /\ t.next = p.ack)
  BY <1>3, <1>4 DEF Stage, FinAcked
<1>6. ASSUME p.flags = "FIN"
      PROVE  /\ Fits(s, f, q) /\ Repeats(f)
             /\ (InStep(f, q) /\ FinAcked(f, q)) \/ Finished(f)
  <2>1. /\ q.high >= 1 /\ q.state # "ESTABLISHED" /\ p.seq + p.len <= q.high + 1
        /\ p.seq + p.len > q.high => Frozen(q)
        /\ p.ack <= 1 \/ p.ack <= s.high \/ Frozen(q) \/ p.seq <= 1 \/ p.seq <= s.rx
    BY <1>6 DEF Sound, PacketOwn, FreshPacket
  <2>2. q.high \in Nat /\ p.seq >= 1
    BY <1>1, <1>6 DEF Typed, Proper
  <2>3. p.seq <= q.high + 1 /\ (p.seq > q.high => Frozen(q))
    BY <1>1, <2>1, <2>2
  <2>4. Good(f)
    BY <1>1, <1>2, SetFinGood
  <2>5. Fits(t, f, q)
    <3>1. Fit(t, q)
      BY <1>3 DEF Fits
    <3> QED
      BY <1>1, <1>2, <1>4, <2>1, <2>3, <3>1, SetFinFits
  <2>6. /\ f.state = t.state /\ f.next = t.next /\ f.high = t.high /\ f.retx = t.retx
        /\ f.closed = t.closed /\ f.fin = p.seq
        /\ f.rx = (IF t.rx = p.seq THEN t.rx + 1 ELSE t.rx)
    BY <1>2 DEF SetFinSequence, Good, Socket
  <2> HIDE DEF f
  <2>7. p.seq <= t.rx => Finished(f)
    BY <1>1, <1>4, <2>2, <2>6 DEF Finished
  <2>8. InStep(f, q) \/ Finished(f)
    <3>1. CASE t.rx = p.seq
      BY <1>4, <2>7, <3>1
    <3>2. CASE t.rx # p.seq /\ InStep(t, q)
      BY <2>6, <3>2 DEF InStep
    <3>3. CASE p.len = 1 /\ t.rx >= 2
      <4>1. p.seq <= t.rx
        BY <1>4, <3>3 DEF Proper
      <4> QED
        BY <2>7, <4>1
    <3> QED
      BY <1>3, <3>1, <3>2, <3>3
  <2>9. FinAcked(f, q) \/ Finished(f)
    <3> SUFFICES ASSUME f.state = "FIN_WAIT_1", f.next > f.high, ~Frozen(q) PROVE Finished(f)
      BY DEF FinAcked
    <3>1. t.high = s.high /\ t.next = p.ack /\ t.next > t.high
      BY <1>5, <2>6
    <3>2. ~(p.ack <= 1) /\ ~(p.ack <= s.high)
      BY <1>1, <1>4, <3>1
    <3>3. p.seq <= t.rx
      BY <1>1, <1>4, <2>1, <3>2
    <3> QED
      BY <2>7, <3>3
  <2>10. Repeats(f)
    BY <1>3, <2>6, Zenon DEF Repeats
  <2>11. Fits(s, f, q)
    BY <1>2, <1>3, <2>4, <2>5, FitsTrans DEF Good
  <2> QED
    BY <2>8, <2>9, <2>10, <2>11
<1>7. ASSUME p.flags # "FIN"
      PROVE  Fits(s, u, q) /\ Repeats(u) /\ InStep(u, q) /\ FinAcked(u, q)
  <2>1. InStep(t, q)
    BY <1>3, <1>7
  <2>2. CASE t.state = "FIN_WAIT_1" /\ Size(t) = 0 /\ p.ack = t.high + 1
    <3>1. u = v
      BY <1>7, <2>2 DEF WaitForFin, t
    <3>2. Fit(t, q)
      BY <1>3 DEF Fits
    <3>3. Fits(t, v, q)
      BY <1>2, <1>4, <2>2, <3>2, StateFits DEF Good, States, FinStates, Frozen, FrozenStates
    <3>4. v.state = "FIN_WAIT_2" /\ v.rx = t.rx
      BY <1>2 DEF Good, Socket
    <3>5. Good(v)
      BY <1>2 DEF Good, Socket, Typed, Guarded, States
    <3> HIDE DEF v
    <3>6. Fits(s, v, q)
      BY <1>2, <1>3, <3>3, <3>5, FitsTrans DEF Good
    <3>7. Repeats(v) /\ InStep(v, q) /\ FinAcked(v, q)
      BY <2>1, <2>2, <3>4 DEF Repeats, InStep, FinAcked, FinStates
    <3> QED
      BY <3>1, <3>6, <3>7
  <2>3. CASE ~(t.state = "FIN_WAIT_1" /\ Size(t) = 0 /\ p.ack = t.high + 1)
    <3>1. u = t
      BY <1>7, <2>3 DEF WaitForFin, t
    <3>2. FinAcked(t, q)
      <4> SUFFICES ASSUME t.state = "FIN_WAIT_1", t.next > t.high, ~Frozen(q) PROVE FALSE
        BY DEF FinAcked
      <4>1. t.high = s.high /\ t.next = p.ack
        BY <1>5
      <4>2. t.next <= t.head /\ t.next <= t.high + 1
        BY <1>3 DEF Fits, Fit, Marks
      <4>3. p.ack = t.high + 1
        BY <1>1, <1>4, <4>1, <4>2
      <4>4. t.head >= 2
        BY <1>4, <4>1, <4>2
      <4>5. t.head = t.tail
        BY <1>2, <1>4, <4>4 DEF Own, Fields
      <4>6. Size(t) = 0
        BY <1>4, <4>5 DEF Size
      <4> QED
        BY <2>3, <4>3, <4>6
    <3> QED
      BY <1>3, <2>1, <3>1, <3>2
  <2> QED
    BY <2>2, <2>3
<1> HIDE DEF f
<1>8. p.flags = "FIN" => u = f
  BY DEF WaitForFin, FinWhileWaiting, t, f
<1> HIDE DEF u
<1> QED
  BY <1>6, <1>7, <1>8 DEF u

----------------------------------------------------------------------------
(* The packet at a socket, by state, again.                                 *)

Fitted(s, u, q) == Fits(s, u, q) /\ Stage(u, q)

LEMMA ResetFits ==
    ASSUME NEW s, NEW q, Good(s), Typed(q), Own(s, FALSE), Fit(s, q), Stage(s, q)
    PROVE  /\ Fitted(s, s, q) /\ Fitted(s, CloseAndNotify(s), q)
           /\ Fitted(s, CloseAndNotify(SendRST(s)), q)
           /\ s.high >= 1 => Fitted(s, SendEmptyPacket(s, "ACK"), q)
<1> DEFINE t == SendRST(s)
           a == SendEmptyPacket(s, "ACK")
<1>1. Fitted(s, s, q)
  BY FitsItself DEF Good, Fitted
<1>2. Fitted(s, CloseAndNotify(s), q)
  BY CloseFits, ClosedStage DEF Good, Fitted
<1>3. Good(t) /\ Own(t, FALSE) /\ Fits(s, t, q)
  BY RstGood, RstOwn, RstFits
<1> HIDE DEF t
<1>4. Fits(t, CloseAndNotify(t), q) /\ Stage(CloseAndNotify(t), q) /\ Typed(CloseAndNotify(t))
  BY <1>3, CloseFits, CloseGood, ClosedStage DEF Good, Fits
<1>5. Fitted(s, CloseAndNotify(t), q)
  BY <1>3, <1>4, FitsTrans DEF Good, Fitted
<1>6. ASSUME s.high >= 1 PROVE Fitted(s, a, q)
  <2>1. Fits(s, a, q)
    BY <1>6, EmptyFits DEF Good, Flags, MayEmit
  <2>2. /\ a.state = s.state /\ a.next = s.next /\ a.high = s.high /\ a.rx = s.rx
        /\ a.retx = s.retx /\ a.closed = s.closed
    BY AckKeeps DEF Good
  <2> HIDE DEF a
  <2> QED
    BY <2>1, <2>2, Zenon DEF Fitted, Stage, Repeats, InStep, FinAcked
<1> QED
  BY <1>1, <1>2, <1>5, <1>6 DEF t

LEMMA WaitFits ==
    ASSUME NEW s, NEW q, Good(s), Typed(q), Own(s, FALSE), Fit(s, q), s.high >= 1,
           s.state \in {"FIN_WAIT_1", "FIN_WAIT_2", "CLOSE_WAIT"}, Stage(s, q),
           NEW p, Proper(p), Sound(q, s, p), p.ack <= s.high + 1
    PROVE  Fitted(s, ProcessWait(s, p), q)
<1> DEFINE t == WaitForFin(s, p)
           w == TimeWait(t)
           c == [t EXCEPT !.state = "CLOSING"]
           r == ProcessWait(s, p)
<1>1. p \in Packets
  BY DEF Proper
<1>2. Good(t) /\ Own(t, FALSE) /\ Takes(s, t, p)
  BY <1>1, WaitForFinGood, WaitForFinOwn DEF Handled
<1>3. /\ Fits(s, t, q) /\ Repeats(t)
      /\ (InStep(t, q) /\ FinAcked(t, q)) \/ Finished(t)
  <2>1. ~Frozen(s) /\ s.state # "ESTABLISHED"
    BY DEF Frozen, FrozenStates
  <2> QED
    BY <2>1, WaitForFinFits
<1> HIDE DEF t
<1>4. t.high >= 1 /\ t.state # "ESTABLISHED"
  <2>1. s.high \in Nat /\ t.high \in Nat
    BY <1>2 DEF Good, Typed
  <2>2. s.high <= t.high /\ (t.state = "ESTABLISHED" => s.state = "ESTABLISHED" \/ s.high = 0)
    BY <1>3 DEF Fits, Steady
  <2> QED
    BY <2>1, <2>2
<1>5. ASSUME NEW v, Good(v), Own(v, FALSE), Fits(t, v, q), v.high >= 1,
             v.state \in {"TIME_WAIT", "CLOSING"}
      PROVE  Fitted(s, SendEmptyPacket(v, "ACK"), q)
  <2> DEFINE a == SendEmptyPacket(v, "ACK")
  <2>1. Stage(v, q)
    BY <1>5 DEF Stage, Repeats, InStep, FinAcked, FinStates
  <2>2. Fitted(v, a, q) /\ Good(a)
    BY <1>5, <2>1, ResetFits, EmptyPacketGood DEF Fits, Good, Flags
  <2> HIDE DEF a
  <2>3. Fits(t, a, q)
    BY <1>2, <1>5, <2>2, FitsTrans DEF Good, Fitted
  <2>4. Fits(s, a, q)
    BY <1>2, <1>3, <2>2, <2>3, FitsTrans DEF Good
  <2> QED
    BY <2>2, <2>4 DEF Fitted, a
<1>6. t.state \in {"FIN_WAIT_1", "FIN_WAIT_2"} => Fitted(s, SendEmptyPacket(w, "ACK"), q)
  <2> SUFFICES ASSUME t.state \in {"FIN_WAIT_1", "FIN_WAIT_2"}
               PROVE  Fitted(s, SendEmptyPacket(w, "ACK"), q)
    OBVIOUS
  <2>1. t.state \in FinStates /\ Fit(t, q)
    BY <1>3 DEF FinStates, Fits
  <2>2. Good(w) /\ Own(w, FALSE) /\ Fits(t, w, q)
    BY <1>2, <2>1, TimeWaitGood, TimeWaitOwn, TimeWaitFits
  <2>3. w.state = "TIME_WAIT" /\ w.high = t.high
    BY <1>2 DEF TimeWait, Good, Socket
  <2> HIDE DEF w
  <2> QED
    BY <1>4, <1>5, <2>2, <2>3
<1>7. t.state = "FIN_WAIT_1" => Fitted(s, SendEmptyPacket(c, "ACK"), q)
  <2> SUFFICES ASSUME t.state = "FIN_WAIT_1" PROVE Fitted(s, SendEmptyPacket(c, "ACK"), q)
    OBVIOUS
  <2>1. FinDue(t, FALSE) /\ Fit(t, q)
    BY <1>2, <1>3 DEF Own, Fields, FinStates, Fits
  <2>2. Good(c)
    BY <1>2 DEF Good, Socket, Typed, Guarded, States
  <2>3. Own(c, FALSE)
    BY <1>2, <1>4, <2>1, StateOwn DEF Good, States
  <2>4. Fits(t, c, q)
    BY <1>2, <1>4, <2>1, StateFits DEF Good, States, FinStates, FrozenStates
  <2>5. c.state = "CLOSING" /\ c.high = t.high
    BY <1>2 DEF Good, Socket
  <2> HIDE DEF c
  <2> QED
    BY <1>4, <1>5, <2>2, <2>3, <2>4, <2>5
<1>8. Fitted(s, s, q) /\ Fitted(s, CloseAndNotify(s), q)
  BY ResetFits
<1> HIDE DEF c, w
<1>9. \/ r = s \/ r = CloseAndNotify(s)
      \/ t.state = "FIN_WAIT_1" /\ r = SendEmptyPacket(w, "ACK")
      \/ t.state = "FIN_WAIT_1" /\ r = SendEmptyPacket(c, "ACK")
      \/ t.state = "FIN_WAIT_2" /\ r = SendEmptyPacket(w, "ACK")
      \/ r = t /\ ~(t.state \in {"FIN_WAIT_1", "FIN_WAIT_2"} /\ Finished(t))
  BY <1>1 DEF ProcessWait, Packets, Flags, t, c, w
<1>10. ASSUME ~(t.state \in {"FIN_WAIT_1", "FIN_WAIT_2"} /\ Finished(t)) PROVE Fitted(s, t, q)
  <2>1. InStep(t, q) /\ FinAcked(t, q)
    BY <1>3, <1>4, <1>10 DEF InStep, FinAcked
  <2> QED
    BY <1>3, <2>1 DEF Fitted, Stage
<1> HIDE DEF r
<1> QED
  BY <1>6, <1>7, <1>8, <1>9, <1>10 DEF r

LEMMA EstablishedFits ==
    ASSUME NEW s, NEW q, Good(s), Typed(q), Own(s, FALSE), Fit(s, q), s.high >= 1,
           s.state = "ESTABLISHED", Stage(s, q), NEW p, Proper(p), Sound(q, s, p)
    PROVE  Fitted(s, ProcessEstablished(s, p), q)
<1> DEFINE t == ReceivedAck(s, p)
<1>1. ~Frozen(s)
  BY DEF Frozen, FrozenStates
<1>2. p.flags = "FIN" => Fitted(s, PeerClose(s, p), q)
  BY <1>1, PeerCloseFits DEF Stage, Fitted
<1>3. p.flags = "ACK" /\ p.ack \in s.head .. s.high => Fitted(s, t, q)
  <2> SUFFICES ASSUME p.flags = "ACK", p.ack \in s.head .. s.high PROVE Fitted(s, t, q)
    OBVIOUS
  <2>1. p \in Packets
    BY DEF Proper
  <2>2. p.ack <= s.high /\ p.ack <= s.high + 1
    BY DEF Good, Typed
  <2>3. Good(t)
    BY <2>1, ReceivedAckGood
  <2>4. /\ Fits(s, t, q) /\ Repeats(t) /\ InStep(t, q)
        /\ t.state = "FIN_WAIT_1" => t.next <= t.high
    BY <1>1, <2>2, ReceivedAckFits DEF Stage
  <2>5. t.next <= t.high => ~(t.next > t.high)
    BY <2>3 DEF Good, Typed
  <2> HIDE DEF t
  <2>6. FinAcked(t, q)
    BY <2>4, <2>5 DEF FinAcked
  <2> QED
    BY <2>4, <2>6 DEF Fitted, Stage
<1>4. /\ Fitted(s, s, q) /\ Fitted(s, CloseAndNotify(s), q)
      /\ Fitted(s, SendEmptyPacket(s, "ACK"), q)
  BY ResetFits
<1> HIDE DEF t
<1> QED
  BY <1>2, <1>3, <1>4 DEF ProcessEstablished, t

LEMMA ClosingFits ==
    ASSUME NEW s, NEW q, Good(s), Typed(q), Own(s, FALSE), Fit(s, q), s.high >= 1,
           s.state \in {"CLOSING", "LAST_ACK"}, Stage(s, q), NEW p
    PROVE  Fitted(s, ProcessClosing(s, p), q) /\ Fitted(s, ProcessLastAck(s, p), q)
<1> DEFINE a == SendEmptyPacket(s, "ACK")
           w == TimeWait(s)
<1>1. /\ Fitted(s, s, q) /\ Fitted(s, CloseAndNotify(s), q)
      /\ Fitted(s, CloseAndNotify(SendRST(s)), q) /\ Fitted(s, a, q)
  BY ResetFits
<1>2. Fitted(s, w, q)
  <2>1. Fits(s, w, q)
    BY TimeWaitFits DEF FinStates
  <2>2. w.state = "TIME_WAIT" /\ w.retx = "none"
    BY DEF TimeWait, Good, Socket
  <2> HIDE DEF w
  <2> QED
    BY <2>1, <2>2 DEF Fitted, Stage, Repeats, InStep, FinAcked
<1>3. Good(a) /\ Own(a, FALSE)
  BY EmptyPacketGood, EmptyPacketOwn DEF Good, Flags, MayEmit
<1> HIDE DEF a, w
<1>4. Fitted(a, CloseAndNotify(a), q) /\ Good(CloseAndNotify(a))
  BY <1>1, <1>3, ResetFits, CloseGood DEF Good, Fitted, Fits
<1>5. Fitted(s, CloseAndNotify(a), q)
  BY <1>1, <1>3, <1>4, FitsTrans DEF Good, Fitted
<1> QED
  BY <1>1, <1>2, <1>5 DEF ProcessClosing, ProcessLastAck, a, w

\* The SYN of the peer, and the end of the handshake.
LEMMA SynFits ==
    ASSUME NEW s, NEW q, Good(s), Typed(q), Own(s, FALSE), Fit(s, q), s.high = 0,
           NEW p, Proper(p), p.flags \in {"SYN", "SYNACK"}
    PROVE  LET u == [s EXCEPT !.rx = p.seq + 1]
           IN  Fits(s, u, q) /\ u.rx = 1 /\ u.state = s.state /\ u.retx = s.retx
<1> DEFINE u == [s EXCEPT !.rx = p.seq + 1]
<1>1. p.seq + 1 = 1
  BY DEF Proper
<1>2. Good(u)
  BY SynOwn
<1>3. /\ u.rx = 1 /\ u.out = s.out /\ u.state = s.state /\ u.next = s.next /\ u.high = s.high
      /\ u.tail = s.tail /\ u.retx = s.retx /\ u.bound = s.bound /\ u.head = s.head
      /\ u.fin = s.fin
  BY <1>1 DEF Good, Socket
<1>4. s.rx <= 1
  BY DEF Own, Fields, Opening
<1> HIDE DEF u
<1>5. Steady(s, u)
  <2>1. s.rx <= u.rx /\ s.high <= u.high /\ s.head <= u.head
    BY <1>3, <1>4 DEF Good, Typed
  <2> QED
    BY <1>3, <2>1, Zenon DEF Steady, Frozen
<1>6. Marks(u) /\ Timed(u) /\ Lasting(u, q)
  <2>1. Marks(s) /\ Timed(s) /\ Lasting(s, q)
    BY DEF Fit
  <2>2. u.rx >= 1
    BY <1>3
  <2>3. Marks(u)
    BY <1>3, <2>1, <2>2, Zenon DEF Marks
  <2> QED
    BY <1>3, <2>1, <2>3, Zenon DEF Timed, Lasting, Frozen
<1>7. Near(u, q)
  <2>1. u.rx <= q.high + 1 /\ u.rx <= 1
    BY <1>3 DEF Typed
  <2> QED
    BY <1>3, <2>1, Zenon DEF Fit, Near
<1>8. Fresh(u, q)
  BY <1>2, <1>3, <1>5, FreshKept, SteadyItself DEF Own, Fit, Good
<1> QED
  BY <1>3, <1>5, <1>6, <1>7, <1>8 DEF Fits, Fit, u

\* Connected, in the state x.
LEMMA ConnectedFits ==
    ASSUME NEW s, NEW u, NEW q, Good(s), Good(u), Typed(q), Own(s, FALSE), Fit(s, q),
           s.high = 0, s.rx = 1, s.state \in {"SYN_SENT", "SYN_RCVD"}, Same(s, u),
           u.next = 1, u.high = 1, u.tail = s.tail, u.retx = "none", u.out = s.out,
           u.state \in {"ESTABLISHED", "SYN_RCVD"}
    PROVE  Fits(s, u, q) /\ Stage(u, q)
<1>1. u.rx = 1 /\ u.head = s.head /\ s.head = 1 /\ s.tail \in Nat /\ u.head <= u.tail
  <2>1. s.head = 1 /\ s.tail \in {1, 2}
    BY DEF Own, Fields, Opening
  <2> QED
    BY <2>1 DEF Same
<1>2. Marks(u) /\ Timed(u) /\ Lasting(u, q)
  BY <1>1 DEF Marks, Timed, Lasting, FinStates
<1>3. ~Frozen(s)
  BY DEF Frozen, FrozenStates
<1>4. Fits(s, u, q)
  BY <1>2, <1>3, SameFits DEF Good
<1> QED
  BY <1>1, <1>4 DEF Stage, Repeats, InStep, FinAcked

LEMMA DelAckFits ==
    ASSUME NEW s, NEW q, Good(s), Typed(q), Own(s, FALSE), Fit(s, q), Stage(s, q), s.high >= 1
    PROVE  Fitted(s, [s EXCEPT !.delAck = DelAckMax], q)
<1> DEFINE u == [s EXCEPT !.delAck = DelAckMax]
<1>1. Good(u) /\ Same(s, u)
  BY DelAckOwn
<1>2. /\ u.out = s.out /\ u.state = s.state /\ u.next = s.next /\ u.high = s.high
      /\ u.tail = s.tail /\ u.retx = s.retx /\ u.bound = s.bound /\ u.rx = s.rx
      /\ u.closed = s.closed
  BY DEF Good, Socket
<1> HIDE DEF u
<1>3. Fits(s, u, q)
  BY <1>1, <1>2, UnlookedFits DEF Good
<1>4. Stage(u, q)
  BY <1>2, Zenon DEF Stage, Repeats, InStep, FinAcked
<1> QED
  BY <1>3, <1>4 DEF Fitted, u

LEMMA SynSentFits ==
    ASSUME NEW s, NEW q, Good(s), Typed(q), Own(s, FALSE), Fit(s, q), Stage(s, q),
           s.state = "SYN_SENT", s.high = 0, NEW p, Proper(p)
    PROVE  Fitted(s, ProcessSynSent(s, p), q)
<1> DEFINE r == [s EXCEPT !.rx = p.seq + 1]
           c == Connected(r)
           a == SendEmptyPacket(c, "ACK")
           d == SendPendingData(a)
           v == [d EXCEPT !.delAck = DelAckMax]
           u == ProcessSynSent(s, p)
<1>1. CASE p.flags = "SYNACK" /\ p.ack = s.next + 1
  <2>1. /\ Good(r) /\ Own(r, FALSE) /\ r.high = 0
        /\ Fits(s, r, q) /\ r.rx = 1 /\ r.state = "SYN_SENT"
    BY <1>1, SynOwn, SynFits
  <2>2. u = v
    BY <1>1 DEF ProcessSynSent
  <2> HIDE DEF r
  <2>3. Good(c) /\ Own(c, FALSE) /\ Same(r, c) /\ c.high = 1 /\ c.state = "ESTABLISHED"
    BY <2>1, ConnectedGood, ConnectedOwn
  <2>4. Fits(r, c, q) /\ Stage(c, q)
    <3>1. r.next = 0
      BY <2>1 DEF Own, Fields, Opening
    <3>2. c.next = 1 /\ c.tail = r.tail /\ c.retx = "none" /\ c.out = r.out
      BY <2>1, <3>1 DEF Connected, Good, Socket
    <3>3. Fit(r, q)
      BY <2>1 DEF Fits
    <3> HIDE DEF c
    <3> QED
      BY <2>1, <2>3, <3>2, <3>3, ConnectedFits
  <2> HIDE DEF c
  <2>5. Fit(c, q) /\ c.high >= 1
    BY <2>3, <2>4 DEF Fits
  <2>6. Good(a) /\ Own(a, FALSE) /\ Fitted(c, a, q) /\ a.high >= 1
    <3>1. Good(a) /\ Own(a, FALSE) /\ Fitted(c, a, q)
      BY <2>3, <2>4, <2>5, EmptyPacketGood, EmptyPacketOwn, ResetFits DEF Good, Flags, MayEmit
    <3>2. a.high = c.high
      BY <2>3, AckKeeps DEF Good
    <3> QED
      BY <2>5, <3>1, <3>2
  <2>7. a.state = "ESTABLISHED"
    BY <2>3, AckKeeps DEF Good
  <2> HIDE DEF a
  <2>8. Good(d) /\ Own(d, FALSE) /\ Fits(a, d, q) /\ Stage(d, q) /\ d.high >= 1
    <3>1. Fit(a, q) /\ Stage(a, q)
      BY <2>6 DEF Fitted, Fits
    <3>2. /\ Good(d) /\ Own(d, FALSE) /\ Fits(a, d, q)
          /\ d = a \/ (d.next = 2 /\ d.high = 2)
          /\ Repeats(a) => Repeats(d)
          /\ InStep(a, q) => InStep(d, q)
      BY <2>6, <3>1, PendingDataGood, PendingDataOwn, PendingDataFits, PendingDataStage
    <3> HIDE DEF d
    <3>3. d.high >= 1 /\ FinAcked(d, q)
      BY <2>6, <2>7, <3>2 DEF FinAcked
    <3> QED
      BY <3>1, <3>2, <3>3 DEF Stage
  <2> HIDE DEF d
  <2>9. Fitted(d, v, q) /\ Good(v)
    BY <2>8, DelAckFits, DelAckOwn DEF Fits
  <2> HIDE DEF v
  <2>10. Fits(s, c, q)
    BY <2>1, <2>3, <2>4, FitsTrans DEF Good
  <2>11. Fits(s, a, q)
    BY <2>3, <2>6, <2>10, FitsTrans DEF Good, Fitted
  <2>12. Fits(s, d, q)
    BY <2>6, <2>8, <2>11, FitsTrans DEF Good
  <2>13. Fits(s, v, q)
    BY <2>8, <2>9, <2>12, FitsTrans DEF Good, Fitted
  <2> QED
    BY <2>2, <2>9, <2>13 DEF Fitted
<1>2. CASE ~(p.flags = "SYNACK" /\ p.ack = s.next + 1)
  <2>1. u = CloseAndNotify(s) \/ u = s
    BY <1>2 DEF ProcessSynSent
  <2> QED
    BY <2>1, ResetFits
<1> QED
  BY <1>1, <1>2

LEMMA SynRcvdFits ==
    ASSUME NEW s, NEW q, Good(s), Typed(q), Own(s, FALSE), Fit(s, q), Stage(s, q),
           s.state = "SYN_RCVD", s.high = 0, NEW p, Proper(p), Sound(q, s, p)
    PROVE  Fitted(s, ProcessSynRcvd(s, p), q)
<1> DEFINE c == Connected(s)
           u == ProcessSynRcvd(s, p)
<1>1. Good(c) /\ Own(c, FALSE) /\ Same(s, c) /\ c.high = 1 /\ c.state = "ESTABLISHED"
  BY ConnectedGood, ConnectedOwn
<1>2. s.rx = 1 /\ s.next = 0
  <2>1. s.rx <= 1 /\ s.next = 0 /\ s.rx >= 1 /\ s.rx \in Nat
    BY DEF Own, Fields, Opening, Fit, Marks, Good, Typed
  <2> QED
    BY <2>1
<1>3. c.next = 1 /\ c.tail = s.tail /\ c.retx = "none" /\ c.out = s.out
  BY <1>2 DEF Connected, Good, Socket
<1>4. p \in Packets
  BY DEF Proper
<1> HIDE DEF c
<1>5. Fits(s, c, q) /\ Stage(c, q)
  BY <1>1, <1>2, <1>3, ConnectedFits
<1>6. CASE p.flags = "ACK" /\ p.ack = s.next + 1
  <2> DEFINE d == [c EXCEPT !.delAck = DelAckMax]
  <2>1. u = ReceivedAck(d, p)
    BY <1>6 DEF ProcessSynRcvd, c
  <2>2. Good(d) /\ Own(d, FALSE) /\ Fitted(c, d, q) /\ d.high = 1 /\ d.state = "ESTABLISHED"
    <3>1. c.high >= 1 /\ Fit(c, q)
      BY <1>1, <1>5 DEF Fits
    <3>2. Good(d) /\ Own(d, FALSE) /\ Fitted(c, d, q)
      BY <1>1, <1>5, <3>1, DelAckOwn, DelAckFits
    <3>3. d.high = c.high /\ d.state = c.state
      BY <1>1 DEF Good, Socket
    <3> QED
      BY <1>1, <3>2, <3>3
  <2> HIDE DEF d, u
  <2>3. Good(u)
    BY <1>4, <2>1, <2>2, ReceivedAckGood
  <2>4. p.ack <= d.high /\ p.ack <= d.high + 1 /\ d.high >= 1
    BY <1>2, <1>6, <2>2
  <2>5. ~Frozen(d) /\ Fit(d, q) /\ Stage(d, q) /\ Sound(q, d, p)
    <3>1. PacketOwn(q, FALSE, p) /\ FreshPacket(q, s, p)
      BY DEF Sound
    <3>2. Steady(s, d)
      <4>1. Fits(s, d, q)
        BY <1>1, <1>5, <2>2, FitsTrans DEF Good, Fitted
      <4> QED
        BY <4>1 DEF Fits
    <3>3. FreshPacket(q, d, p)
      BY <1>4, <2>2, <3>1, <3>2, SteadyItself, FreshPacketKept DEF Good
    <3> QED
      BY <2>2, <3>1, <3>3 DEF Frozen, FrozenStates, Fitted, Fits, Sound
  <2>6. /\ Fits(d, u, q) /\ Repeats(u) /\ InStep(u, q)
        /\ u.state = "FIN_WAIT_1" => u.next <= u.high
    BY <1>6, <2>1, <2>2, <2>4, <2>5, ReceivedAckFits DEF Stage
  <2>7. u.next <= u.high => ~(u.next > u.high)
    BY <2>3 DEF Good, Typed
  <2>8. Stage(u, q)
    BY <2>6, <2>7 DEF Stage, FinAcked
  <2>9. Fits(s, d, q)
    BY <1>1, <1>5, <2>2, FitsTrans DEF Good, Fitted
  <2>10. Fits(s, u, q)
    BY <2>2, <2>3, <2>6, <2>9, FitsTrans DEF Good
  <2> QED
    BY <2>8, <2>10 DEF Fitted, u
<1>7. CASE p.flags = "SYN"
  <2> DEFINE r == [s EXCEPT !.rx = p.seq + 1]
  <2>1. u = SendEmptyPacket(r, "SYNACK")
    BY <1>7 DEF ProcessSynRcvd
  <2>2. /\ Good(r) /\ Own(r, FALSE) /\ r.high = 0
        /\ Fits(s, r, q) /\ r.state = s.state
    BY <1>7, SynOwn, SynFits
  <2> HIDE DEF r, u
  <2>3. Good(u) /\ Own(u, FALSE) /\ Same(r, u) /\ Fits(r, u, q)
    BY <2>1, <2>2, EmptyPacketGood, EmptyPacketOwn, EmptyFits DEF Good, Flags, MayEmit, Fits
  <2>4. Fits(s, u, q)
    BY <2>2, <2>3, FitsTrans DEF Good
  <2>5. u.high = 0
    BY <2>1, <2>2, EmptyPacketHigh DEF Good
  <2>6. u.retx # "FIN" /\ u.state \notin {"ESTABLISHED", "FIN_WAIT_1", "FIN_WAIT_2"}
    BY <2>3, <2>5 DEF Own, Fields, Opening
  <2>7. Stage(u, q)
    BY <2>6 DEF Stage, Repeats, InStep, FinAcked
  <2> QED
    BY <2>4, <2>7 DEF Fitted, u
<1>8. CASE p.flags = "FIN"
  <2> DEFINE d == [c EXCEPT !.state = "SYN_RCVD"]
  <2>1. u = IF p.seq = s.rx THEN PeerClose(d, p) ELSE s
    BY <1>8 DEF ProcessSynRcvd, c
  <2>2. /\ d.out = c.out /\ d.high = 1 /\ d.next = 1 /\ d.tail = c.tail /\ d.retx = "none"
        /\ d.state = "SYN_RCVD" /\ d.rx = c.rx
    BY <1>1, <1>3 DEF Good, Socket
  <2>3. Good(d) /\ Same(s, d)
    BY <1>1 DEF Good, Socket, Typed, Guarded, States, Same, HasSyn
  <2>4. Fields(d, FALSE)
    BY <1>1 DEF Good, Socket, Own, Fields, FinDue, Ended, FinStates
  <2>5. Sent(d, FALSE) /\ Ordered(d)
    <3>1. d.wrote = c.wrote /\ Ended(d) = Ended(c)
      BY <1>1 DEF Good, Socket, Ended
    <3> HIDE DEF d
    <3>2. c.rx <= d.rx /\ c.high <= d.high
      BY <1>1, <2>2 DEF Good, Typed
    <3> QED
      BY <1>1, <2>2, <2>3, <3>1, <3>2, OutKept DEF Good, Own
  <2> HIDE DEF d, u
  <2>6. Own(d, FALSE)
    BY <2>4, <2>5 DEF Own
  <2>7. Fits(s, d, q) /\ Stage(d, q)
    BY <1>2, <1>3, <2>2, <2>3, ConnectedFits
  <2>8. CASE p.seq = s.rx
    <3>1. u = PeerClose(d, p)
      BY <2>1, <2>8
    <3>2. ~Frozen(d) /\ d.high >= 1 /\ Sound(q, d, p) /\ Fit(d, q)
      <4>1. PacketOwn(q, FALSE, p) /\ FreshPacket(q, s, p)
        BY DEF Sound
      <4>2. FreshPacket(q, d, p)
        BY <1>4, <2>3, <2>7, <4>1, SteadyItself, FreshPacketKept DEF Good, Fits
      <4>3. ~Frozen(d) /\ d.high >= 1
        BY <2>2 DEF Frozen, FrozenStates
      <4>4. Fit(d, q)
        BY <2>7 DEF Fits
      <4>5. Sound(q, d, p)
        BY <4>1, <4>2 DEF Sound
      <4> QED
        BY <4>3, <4>4, <4>5
    <3>3. Fits(d, u, q) /\ Stage(u, q) /\ Good(u)
      BY <1>4, <1>8, <2>3, <2>6, <2>7, <3>1, <3>2, PeerCloseFits, PeerCloseGood DEF Stage
    <3>4. Fits(s, u, q)
      BY <2>3, <2>7, <3>3, FitsTrans DEF Good
    <3> QED
      BY <3>3, <3>4 DEF Fitted, u
  <2>9. CASE p.seq # s.rx
    BY <2>1, <2>9, ResetFits DEF u
  <2> QED
    BY <2>8, <2>9
<1>9. CASE p.flags \in {"RST", "SYNACK"} \/ (p.flags = "ACK" /\ p.ack # s.next + 1)
  <2>1. u = CloseAndNotify(s) \/ u = CloseAndNotify(SendRST(s))
    BY <1>9 DEF ProcessSynRcvd
  <2> QED
    BY <2>1, ResetFits
<1> QED
  BY <1>4, <1>6, <1>7, <1>8, <1>9 DEF Packets, Flags

\* A packet that arrives at the socket s from its peer q.
LEMMA DoForwardUpFits ==
    ASSUME NEW s, NEW q, Good(s), Typed(q), Own(s, FALSE), Opened(s), Fit(s, q), Stage(s, q),
           Near(q, s), NEW p, Proper(p), Sound(q, s, p)
    PROVE  Fitted(s, DoForwardUp(s, p), q)
<1>1. ASSUME ~Frozen(s) PROVE p.ack <= s.high + 1
  <2>1. q.rx <= s.high + 1
    BY <1>1 DEF Near
  <2>2. p.ack <= q.rx
    BY DEF Sound, PacketOwn
  <2>3. p.ack \in Nat /\ q.rx \in Nat /\ s.high \in Nat
    BY DEF Proper, Packets, Good, Typed
  <2> QED
    BY <2>1, <2>2, <2>3
<1>2. CASE s.state = "SYN_SENT"
  <2>1. s.high = 0
    BY <1>2 DEF Opened
  <2>2. DoForwardUp(s, p) = ProcessSynSent(s, p)
    BY <1>2 DEF DoForwardUp
  <2> QED
    BY <1>2, <2>1, <2>2, SynSentFits
<1>3. CASE s.state = "SYN_RCVD"
  <2>1. s.high = 0
    BY <1>3 DEF Opened
  <2>2. DoForwardUp(s, p) = ProcessSynRcvd(s, p)
    BY <1>3 DEF DoForwardUp
  <2> QED
    BY <1>3, <2>1, <2>2, SynRcvdFits
<1>4. CASE s.state = "ESTABLISHED"
  <2>1. s.high >= 1
    BY <1>4, ConnectedHigh
  <2>2. DoForwardUp(s, p) = ProcessEstablished(s, p)
    BY <1>4 DEF DoForwardUp
  <2> QED
    BY <1>4, <2>1, <2>2, EstablishedFits
<1>5. CASE s.state \in {"FIN_WAIT_1", "FIN_WAIT_2", "CLOSE_WAIT"}
  <2>1. s.high >= 1
    BY <1>5, ConnectedHigh
  <2>2. DoForwardUp(s, p) = ProcessWait(s, p)
    BY <1>5 DEF DoForwardUp
  <2>3. p.ack <= s.high + 1
    BY <1>1, <1>5 DEF Frozen, FrozenStates
  <2> QED
    BY <1>5, <2>1, <2>2, <2>3, WaitFits
<1>6. CASE s.state \in {"CLOSING", "LAST_ACK"}
  <2>1. s.high >= 1
    BY <1>6, ConnectedHigh
  <2>2. DoForwardUp(s, p) \in {ProcessClosing(s, p), ProcessLastAck(s, p)}
    BY <1>6 DEF DoForwardUp
  <2> QED
    BY <1>6, <2>1, <2>2, ClosingFits
<1>7. CASE s.state \in {"CLOSED", "TIME_WAIT"}
  <2>1. DoForwardUp(s, p) = s
    BY <1>7 DEF DoForwardUp
  <2> QED
    BY <2>1, ResetFits
<1> QED
  BY <1>2, <1>3, <1>4, <1>5, <1>6, <1>7 DEF Good, Typed, States

\* The socket q, or what is left of it when the oldest packet is gone, while its
\* peer s becomes u.
LEMMA PeerFits ==
    ASSUME NEW q, NEW r, NEW s, NEW u, Typed(q), Typed(r), Typed(s), Typed(u), Own(q, FALSE),
           Fit(q, s), Stage(q, s), Steady(s, u),
           /\ r.state = q.state /\ r.bound = q.bound /\ r.next = q.next /\ r.high = q.high
           /\ r.head = q.head /\ r.tail = q.tail /\ r.rx = q.rx /\ r.fin = q.fin
           /\ r.retx = q.retx /\ r.closed = q.closed,
           r.out = q.out \/ (q.out # <<>> /\ r.out = Tail(q.out))
    PROVE  Fit(r, u) /\ Stage(r, u)
<1>1. Frozen(s) => Frozen(u)
  BY DEF Steady
<1>2. Frozen(r) = Frozen(q)
  BY DEF Frozen
<1>3. /\ q.rx <= s.high + 1 => r.rx <= u.high + 1
      /\ q.rx <= s.high + 2 => r.rx <= u.high + 2
      /\ q.fin <= s.high + 1 => r.fin <= u.high + 1
      /\ q.head <= s.rx => r.head <= u.rx
      /\ q.rx <= s.high => r.rx <= u.high
      /\ u.high = 0 => s.high = 0
  <2>1. /\ s.high \in Nat /\ u.high \in Nat /\ s.rx \in Nat /\ u.rx \in Nat
        /\ q.rx \in Nat /\ q.head \in Nat /\ q.fin \in Nat
    BY DEF Typed
  <2>2. s.high <= u.high /\ s.rx <= u.rx
    BY DEF Steady
  <2>3. r.rx = q.rx /\ r.head = q.head /\ r.fin = q.fin
    OBVIOUS
  <2> QED
    BY <2>1, <2>2, <2>3, SMTT(30)
<1>4. Near(r, u)
  <2>1. Near(q, s)
    BY DEF Fit
  <2>2. u.high = 0 \/ u.state = "ESTABLISHED" => s.high = 0 \/ s.state = "ESTABLISHED"
    BY <1>3, Zenon DEF Steady
  <2> QED
    BY <1>1, <1>3, <2>1, <2>2, Zenon DEF Near
<1>5. Marks(r) /\ Timed(r)
  BY Zenon DEF Fit, Marks, Timed
<1>6. Lasting(r, u)
  BY <1>1, <1>2, Zenon DEF Fit, Lasting
<1>7. Fresh(r, u)
  <2>1. Steady(q, r)
    <3>1. q.rx \in Nat /\ q.high \in Nat /\ q.head \in Nat
      BY DEF Typed
    <3>2. q.rx <= r.rx /\ q.high <= r.high /\ q.head <= r.head
      BY <3>1
    <3> QED
      BY <1>2, <3>2, Zenon DEF Steady
  <2>2. Sent(q, FALSE) /\ Fresh(q, s)
    BY DEF Own, Fit
  <2>3. CASE r.out = q.out
    BY <2>1, <2>2, <2>3, FreshKept
  <2>4. CASE q.out # <<>> /\ r.out = Tail(q.out)
    <3> SUFFICES ASSUME NEW i \in DOMAIN r.out PROVE FreshPacket(r, u, r.out[i])
      BY DEF Fresh
    <3> DEFINE k == i + 1
    <3>1. q.out \in Seq(Packets)
      BY DEF Typed
    <3>2. k \in DOMAIN q.out /\ r.out[i] = q.out[k] /\ q.out[k] \in Packets
      BY <2>4, <3>1
    <3> HIDE DEF k
    <3>3. PacketOwn(q, FALSE, r.out[i]) /\ FreshPacket(q, s, r.out[i]) /\ r.out[i] \in Packets
      BY <2>2, <3>2 DEF Sent, Fresh
    <3> QED
      BY <2>1, <3>3, FreshPacketKept
  <2> QED
    BY <2>3, <2>4
<1>8. Stage(r, u)
  BY <1>1, <1>3, Zenon DEF Stage, Repeats, InStep, FinAcked
<1> QED
  BY <1>4, <1>5, <1>6, <1>7, <1>8 DEF Fit

\* Both ends, each against the other.
Fitness ==
    \A e \in Ends :
        Fit(sock[e], sock[Peer(e)]) /\ Stage(sock[e], sock[Peer(e)])

\* A step of one socket by itself.
LEMMA LocalFitness ==
    ASSUME AllGood, AllGood', Delivery, Fitness, NEW e \in Ends, NEW u, Becomes(e, u),
           Fitted(sock[e], u, sock[Peer(e)])
    PROVE  Fitness'
<1> DEFINE x == Peer(e)
<1>1. x \in Ends /\ x # e /\ Peer(x) = e /\ \A y \in Ends : y = e \/ y = x
  BY EndsArePeers
<1>2. sock'[e] = u /\ sock'[x] = sock[x]
  BY <1>1 DEF Becomes, AllGood
<1>3. Typed(sock[e]) /\ Typed(u) /\ Typed(sock[x]) /\ Own(sock[x], FALSE)
  BY <1>1, <1>2 DEF AllGood, Good, Delivery
<1>4. Fit(u, sock[x]) /\ Steady(sock[e], u) /\ Stage(u, sock[x])
  BY DEF Fitted, Fits
<1>5. Fit(sock[x], sock[e]) /\ Stage(sock[x], sock[e])
  BY <1>1 DEF Fitness
<1> HIDE DEF x
<1>6. Fit(sock[x], u) /\ Stage(sock[x], u)
  <2> DEFINE q == sock[x]
             s == sock[e]
  <2>1. Typed(q) /\ Typed(s) /\ Own(q, FALSE) /\ Fit(q, s) /\ Stage(q, s) /\ Steady(s, u)
    BY <1>3, <1>4, <1>5
  <2> HIDE DEF q, s
  <2>2. Fit(q, u) /\ Stage(q, u)
    BY <1>3, <2>1, PeerFits
  <2> QED
    BY <2>2 DEF q
<1> SUFFICES ASSUME NEW y \in Ends PROVE (Fit(sock[y], sock[Peer(y)]) /\ Stage(sock[y], sock[Peer(y)]))'
  BY DEF Fitness
<1>7. CASE y = e
  BY <1>2, <1>4, <1>7 DEF x
<1>8. CASE y = x
  BY <1>1, <1>2, <1>6, <1>8
<1> QED
  BY <1>1, <1>7, <1>8
\* A step with the oldest packet from the peer.
LEMMA ArrivalFitness ==
    ASSUME AllGood, AllGood', Delivery, Delivery', Fitness, NEW e \in Ends, NEW u, Arriving(e),
           TakesPacket(e, u), Fitted(sock[e], u, sock[Peer(e)])
    PROVE  Fitness'
<1> DEFINE x == Peer(e)
           s == sock[e]
           q == sock[x]
           r == [q EXCEPT !.out = Tail(@)]
<1>1. x \in Ends /\ x # e /\ Peer(x) = e /\ \A y \in Ends : y = e \/ y = x
  BY EndsArePeers
<1>2. sock'[e] = u /\ sock'[x] = r /\ q.out # <<>>
  BY <1>1 DEF TakesPacket, AllGood, Arriving
<1>3. /\ Typed(s) /\ Typed(u) /\ Typed(q) /\ Typed(r) /\ Own(q, FALSE) /\ Own(u, FALSE)
      /\ Socket(q)
  BY <1>1, <1>2 DEF AllGood, Good, Delivery
<1>4. Fit(u, q) /\ Steady(s, u) /\ Stage(u, q)
  BY DEF Fitted, Fits
<1>5. Fit(q, s) /\ Stage(q, s)
  BY <1>1 DEF Fitness
<1> HIDE DEF x, s, q
<1>6. /\ r.state = q.state /\ r.bound = q.bound /\ r.next = q.next /\ r.high = q.high
      /\ r.head = q.head /\ r.tail = q.tail /\ r.rx = q.rx /\ r.fin = q.fin
      /\ r.retx = q.retx /\ r.closed = q.closed /\ r.out = Tail(q.out)
  BY <1>3 DEF Socket
<1> HIDE DEF r
<1>7. Fit(r, u) /\ Stage(r, u)
  BY <1>2, <1>3, <1>4, <1>5, <1>6, PeerFits
<1>8. Steady(q, r)
  <2>1. q.rx \in Nat /\ q.high \in Nat /\ q.head \in Nat
    BY <1>3 DEF Typed
  <2>2. q.rx <= r.rx /\ q.high <= r.high /\ q.head <= r.head
    BY <1>6, <2>1
  <2> QED
    BY <1>6, <2>2, Zenon DEF Steady, Frozen
<1>9. Fit(u, r) /\ Stage(u, r)
  BY <1>3, <1>4, <1>8, PeerFits
<1> SUFFICES ASSUME NEW y \in Ends PROVE (Fit(sock[y], sock[Peer(y)]) /\ Stage(sock[y], sock[Peer(y)]))'
  BY DEF Fitness
<1>10. CASE y = e
  BY <1>2, <1>9, <1>10 DEF x
<1>11. CASE y = x
  BY <1>1, <1>2, <1>7, <1>11
<1> QED
  BY <1>1, <1>10, <1>11
LEMMA InitFitness == Init => Fitness
<1> SUFFICES ASSUME Init, NEW e \in Ends
             PROVE  Fit(sock[e], sock[Peer(e)]) /\ Stage(sock[e], sock[Peer(e)])
  BY DEF Fitness
<1> DEFINE s == sock[e]
           q == sock[Peer(e)]
<1>1. s = NewSocket(e) /\ q = NewSocket(Peer(e))
  BY PeerInEnds DEF Init
<1>2. /\ s.state = "CLOSED" /\ s.bound = FALSE /\ s.next = 0 /\ s.high = 0 /\ s.head = 1
      /\ s.tail = 1 /\ s.rx = 0 /\ s.fin = 0 /\ s.retx = "none" /\ s.out = <<>> /\ q.high = 0
  BY <1>1 DEF NewSocket
<1> HIDE DEF s, q
<1>3. Marks(s) /\ Timed(s) /\ Near(s, q) /\ Lasting(s, q)
  BY <1>2 DEF Marks, Timed, Near, Lasting, FinStates
<1>4. Fresh(s, q)
  BY <1>2 DEF Fresh
<1>5. Stage(s, q)
  BY <1>2 DEF Stage, Repeats, InStep, FinAcked
<1> QED
  BY <1>3, <1>4, <1>5 DEF Fit, s, q

LEMMA ArrivalKeepsFitness ==
    ASSUME AllGood, AllGood', Delivery, Delivery', Fitness,
           ProcessListen \/ NoEndPoint \/ \E e \in Ends : ForwardUp(e) \/ Lose(e)
    PROVE  Fitness'
<1>1. ASSUME NEW e \in Ends, Arriving(e)
      PROVE  /\ Good(sock[e]) /\ Own(sock[e], FALSE) /\ Opened(sock[e])
             /\ Fit(sock[e], sock[Peer(e)]) /\ Stage(sock[e], sock[Peer(e)])
             /\ Typed(sock[Peer(e)]) /\ Near(sock[Peer(e)], sock[e])
             /\ Proper(Arrived(e)) /\ Sound(sock[Peer(e)], sock[e], Arrived(e))
             /\ Fitted(sock[e], sock[e], sock[Peer(e)])
  <2> DEFINE s == sock[e]
             q == sock[Peer(e)]
  <2>1. Good(s) /\ Own(s, FALSE) /\ Opened(s) /\ Fit(s, q) /\ Stage(s, q)
    BY DEF AllGood, Delivery, Fitness
  <2>2. Good(q) /\ Own(q, FALSE) /\ Opened(q) /\ q.out # <<>> /\ Fit(q, s) /\ q.out \in Seq(Packets)
    BY <1>1, EndsArePeers DEF AllGood, Delivery, Arriving, Fitness, Good, Typed
  <2>3. Arrived(e) = Head(q.out)
    BY DEF Arrived
  <2> HIDE DEF q, s
  <2>4. Proper(Arrived(e)) /\ PacketOwn(q, FALSE, Arrived(e))
    BY <2>2, <2>3, TailOwn
  <2>5. Arrived(e) = q.out[1] /\ 1 \in DOMAIN q.out
    BY <2>2, <2>3
  <2>6. FreshPacket(q, s, Arrived(e))
    BY <2>2, <2>5 DEF Fit, Fresh
  <2>7. Near(q, s) /\ Typed(q)
    BY <2>2 DEF Fit, Good
  <2>8. Fitted(s, s, q)
    BY <2>1, <2>7, ResetFits
  <2> QED
    BY <2>1, <2>4, <2>6, <2>7, <2>8 DEF Sound, s, q
<1>2. CASE ProcessListen
  <2>1. "server" \in Ends /\ Arriving("server") /\ TakesPacket("server", sock["server"])
    BY <1>2 DEF ProcessListen, Ends
  <2> QED
    BY <1>1, <2>1, ArrivalFitness
<1>3. ASSUME NEW e \in Ends, Lose(e) PROVE Fitness'
  <2>1. Arriving(e) /\ TakesPacket(e, sock[e])
    BY <1>3 DEF Lose
  <2> QED
    BY <1>1, <2>1, ArrivalFitness
<1>4. ASSUME NEW e \in Ends, ForwardUp(e) PROVE Fitness'
  <2> DEFINE s == sock[e]
             q == sock[Peer(e)]
             p == Arrived(e)
             a == SendEmptyPacket(s, "ACK")
             d == DoForwardUp(s, p)
  <2>1. Arriving(e) /\ TakesPacket(e, IF p.len > 0 /\ OutOfRange(s, p) THEN a ELSE d)
    BY <1>4 DEF ForwardUp
  <2>2. /\ Good(s) /\ Own(s, FALSE) /\ Opened(s) /\ Fit(s, q) /\ Stage(s, q) /\ Typed(q)
        /\ Near(q, s) /\ Proper(p) /\ Sound(q, s, p)
    BY <1>1, <2>1
  <2> HIDE DEF s, q, p
  <2>3. CASE p.len > 0 /\ OutOfRange(s, p)
    <3>1. p.seq = 1 /\ p.len = 1
      BY <2>2, <2>3 DEF Proper, Packets
    <3>2. s.high >= 1
      <4>1. ASSUME s.high = 0 PROVE FALSE
        <5>1. s.state \in {"CLOSED", "SYN_SENT", "SYN_RCVD"} /\ s.rx <= 1 /\ s.rx \in Nat
          BY <2>2, <4>1 DEF Own, Fields, Opening, Good, Typed
        <5> QED
          BY <2>3, <3>1, <5>1 DEF OutOfRange
      <4>2. s.high \in Nat
        BY <2>2 DEF Good, Typed
      <4> QED
        BY <4>1, <4>2
    <3>3. Fitted(s, a, q)
      BY <2>2, <3>2, ResetFits
    <3> HIDE DEF a, d
    <3> QED
      BY <2>1, <2>3, <3>3, ArrivalFitness DEF s, q
  <2>4. CASE ~(p.len > 0 /\ OutOfRange(s, p))
    <3>1. Fitted(s, d, q)
      BY <2>2, DoForwardUpFits
    <3> HIDE DEF a, d
    <3> QED
      BY <2>1, <2>4, <3>1, ArrivalFitness DEF s, q
  <2> QED
    BY <2>3, <2>4
<1>5. CASE NoEndPoint
  <2> DEFINE s == sock["client"]
             q == sock[Peer("client")]
             k == Packet("RST", 0, 0, 0)
             n == Append(s.out, k)
             t == [s EXCEPT !.out = n]
  <2>1. "client" \in Ends /\ Arriving("client") /\ Good(s)
        /\ (TakesPacket("client", s) \/ TakesPacket("client", t))
    <3>1. Good(s)
      BY DEF AllGood, Ends
    <3> QED
      BY <1>5, <3>1 DEF NoEndPoint, Ends, Good, Socket
  <2>2. Own(s, FALSE) /\ Fit(s, q) /\ Stage(s, q) /\ Typed(q) /\ Fitted(s, s, q)
    BY <1>1, <2>1
  <2>3. CASE TakesPacket("client", s)
    BY <2>1, <2>2, <2>3, ArrivalFitness
  <2>4. CASE TakesPacket("client", t)
    <3>1. k \in Packets /\ k.flags = "RST" /\ k.len = 0
      BY DEF Packet, Packets, Flags
    <3> HIDE DEF s, k, q
    <3>2. n \in Seq(Packets)
      BY <2>1, <3>1 DEF Good, Typed
    <3>3. /\ t.out = n /\ t.state = s.state /\ t.bound = s.bound /\ t.next = s.next
          /\ t.high = s.high /\ t.head = s.head /\ t.tail = s.tail /\ t.rx = s.rx /\ t.fin = s.fin
          /\ t.retx = s.retx /\ t.closed = s.closed /\ t.wrote = s.wrote
          /\ t.shutdownSend = s.shutdownSend /\ t.got = s.got
      BY <2>1 DEF Good, Socket
    <3>4. Typed(t)
      BY <2>1, <3>2 DEF Good, Socket, Typed
    <3> HIDE DEF t
    <3>5. HasSyn(t) => HasSyn(s)
      BY <2>1, <3>1, <3>3, SynGrows DEF Good
    <3>6. Same(s, t)
      <4>1. s.high <= t.high
        BY <2>1, <3>3 DEF Good, Typed
      <4> QED
        BY <3>3, <3>5, <4>1, Zenon DEF Same
    <3>7. Marks(t) /\ Timed(t) /\ Lasting(t, q)
      BY <2>2, <3>3, Zenon DEF Fit, Marks, Timed, Lasting, Frozen
    <3>8. FreshPacket(t, q, k)
      BY <3>1 DEF FreshPacket
    <3>9. Frozen(s) => Frozen(t)
      BY <3>3 DEF Frozen
    <3>10. Fits(s, t, q)
      BY <2>1, <2>2, <3>1, <3>3, <3>4, <3>6, <3>7, <3>8, <3>9, SameFits DEF Good
    <3>11. Stage(t, q)
      BY <2>2, <3>3, Zenon DEF Stage, Repeats, InStep, FinAcked
    <3> QED
      BY <2>1, <2>4, <3>10, <3>11, ArrivalFitness DEF Fitted, s, q
  <2> QED
    BY <2>1, <2>3, <2>4
<1> QED
  BY <1>2, <1>3, <1>4, <1>5

\* A change of what no part of Fit is about.
LEMMA FieldsFit ==
    ASSUME NEW s, NEW u, NEW q, NEW c, Typed(s), Typed(u), Typed(q), Sent(s, c), Fit(s, q),
           /\ u.out = s.out /\ u.state = s.state /\ u.next = s.next /\ u.high = s.high
           /\ u.head = s.head /\ u.tail = s.tail /\ u.rx = s.rx /\ u.fin = s.fin
           /\ u.retx = s.retx /\ u.bound = s.bound
    PROVE  Fits(s, u, q)
<1>1. Steady(s, u)
  <2>1. s.rx \in Nat /\ s.high \in Nat /\ s.head \in Nat
    BY DEF Typed
  <2>2. s.rx <= u.rx /\ s.high <= u.high /\ s.head <= u.head
    BY <2>1
  <2> QED
    BY <2>2, Zenon DEF Steady, Frozen
<1>2. Marks(u) /\ Timed(u) /\ Near(u, q) /\ Lasting(u, q)
  BY ZenonT(60) DEF Fit, Marks, Timed, Near, Lasting, Frozen
<1>3. Fresh(s, q)
  BY DEF Fit
<1>4. Fresh(u, q)
  BY <1>1, <1>3, FreshKept, SteadyItself
<1> QED
  BY <1>1, <1>2, <1>4 DEF Fits, Fit

\* The socket whose timer for a packet has expired.
LEMMA ExpiredFits ==
    ASSUME NEW s, NEW q, Good(s), Typed(q), Own(s, FALSE), Fit(s, q), Stage(s, q)
    PROVE  LET n == [s EXCEPT !.retx = "none"]
           IN  /\ Marks(n) /\ Near(n, q) /\ Lasting(n, q) /\ Fresh(n, q) /\ Stage(n, q)
               /\ Steady(s, n)
               /\ s.retx \in {"SYN", "SYNACK", "FIN"} \/ Size(s) = 0 => Fits(s, n, q)
               /\ n.next = s.next /\ n.tail = s.tail /\ n.rx = s.rx /\ n.bound = s.bound
               /\ n.retx = "none" /\ n.out = s.out /\ n.closed = s.closed /\ n.fin = s.fin
<1> DEFINE n == [s EXCEPT !.retx = "none"]
<1>1. /\ n.next = s.next /\ n.tail = s.tail /\ n.rx = s.rx /\ n.bound = s.bound
      /\ n.retx = "none" /\ n.out = s.out /\ n.closed = s.closed /\ n.fin = s.fin
  BY DEF Good, Socket
<1>2. /\ Typed(n) /\ Own(n, FALSE) /\ n.high = s.high /\ n.state = s.state /\ n.head = s.head
      /\ Typed(s)
  BY ExpiredOwn DEF Good
<1> HIDE DEF n
<1>3. Steady(s, n)
  <2>1. s.rx \in Nat /\ s.high \in Nat /\ s.head \in Nat
    BY <1>2 DEF Typed
  <2>2. s.rx <= n.rx /\ s.high <= n.high /\ s.head <= n.head
    BY <1>1, <1>2, <2>1
  <2> QED
    BY <1>2, <2>2, Zenon DEF Steady, Frozen
<1>4. Marks(n) /\ Near(n, q) /\ Lasting(n, q)
  BY <1>1, <1>2, Zenon DEF Fit, Marks, Near, Lasting
<1>5. Fresh(n, q)
  BY <1>1, <1>2, <1>3, FreshKept, SteadyItself DEF Fit, Own
<1>6. Stage(n, q)
  BY <1>1, <1>2, Zenon DEF Stage, Repeats, InStep, FinAcked
<1>7. ASSUME s.retx \in {"SYN", "SYNACK", "FIN"} \/ Size(s) = 0 PROVE Timed(n)
  <2>1. s.head \in Nat /\ s.tail \in Nat /\ s.next \in Nat /\ s.high \in Nat
    BY <1>2 DEF Typed
  <2>2. CASE s.retx = "FIN"
    <3>1. s.next <= s.head /\ s.next >= s.tail
      BY <2>2 DEF Fit, Marks
    <3> QED
      BY <1>1, <1>2, <2>1, <3>1 DEF Timed
  <2>3. CASE s.retx \in {"SYN", "SYNACK"}
    <3>1. s.next = 0
      <4>1. s.high = 0
        BY <2>1, <2>3 DEF Own, Fields
      <4> QED
        BY <4>1 DEF Own, Fields, Opening
    <3> QED
      BY <1>1, <3>1 DEF Timed
  <2>4. CASE Size(s) = 0
    BY <1>1, <1>2, <2>1, <2>4 DEF Timed, Size
  <2> QED
    BY <1>7, <2>2, <2>3, <2>4
<1> QED
  BY <1>1, <1>3, <1>4, <1>5, <1>6, <1>7 DEF Fits, Fit, n

\* m_retxEvent, for a packet without data.
LEMMA RepeatFits ==
    ASSUME NEW s, NEW q, Good(s), Typed(q), Own(s, FALSE), Fit(s, q), Stage(s, q),
           s.retx \in {"SYN", "SYNACK", "FIN"}
    PROVE  Fitted(s, SendEmptyPacket([s EXCEPT !.retx = "none"], s.retx), q)
<1> DEFINE n == [s EXCEPT !.retx = "none"]
           f == s.retx
           u == SendEmptyPacket(n, f)
<1>1. /\ Socket(n) /\ Typed(n) /\ Own(n, FALSE) /\ Same(s, n) /\ n.high = s.high
      /\ n.state = s.state /\ n.head = s.head /\ n.tail = s.tail
  BY ExpiredOwn
<1>2. /\ Fits(s, n, q) /\ Stage(n, q) /\ n.next = s.next /\ n.rx = s.rx /\ n.retx = "none"
      /\ n.closed = s.closed
  BY ExpiredFits
<1>3. FinDue(s, FALSE) => FinDue(n, FALSE)
  <2>1. n.wrote = s.wrote /\ Ended(n) = Ended(s)
    BY DEF Good, Socket, Ended
  <2> HIDE DEF n
  <2> QED
    BY <1>1, <1>2, <2>1 DEF FinDue
<1> HIDE DEF n
<1>4. f \in Flags /\ Typed(s) /\ Fit(n, q)
  BY <1>2 DEF Flags, Good, Fits
<1>5. MayEmit(n, FALSE, f)
  <2>1. s.high = 0 \/ s.high >= 1
    <3>1. s.high \in Nat
      BY DEF Good, Typed
    <3> QED
      BY <3>1
  <2>2. f = "FIN" => FinDue(s, FALSE)
    BY DEF Own, Fields
  <2>3. f \in {"SYN", "SYNACK"} => s.high = 0
    BY <2>1 DEF Own, Fields
  <2> QED
    BY <1>1, <1>3, <2>2, <2>3 DEF MayEmit
<1>6. Own(u, FALSE) /\ Same(n, u) /\ Good(u) /\ u.high = n.high
  BY <1>1, <1>4, <1>5, EmptyPacketOwn, EmptyPacketGood, EmptyPacketHigh
<1>7. CASE f \in {"SYN", "SYNACK"}
  <2>1. Fits(n, u, q)
    BY <1>1, <1>4, <1>5, <1>7, EmptyFits
  <2>2. u.high = 0
    BY <1>1, <1>5, <1>6, <1>7 DEF MayEmit
  <2> HIDE DEF u
  <2>3. u.retx # "FIN" /\ u.state \notin {"ESTABLISHED", "FIN_WAIT_1", "FIN_WAIT_2"}
    BY <1>6, <2>2 DEF Own, Fields, Opening
  <2>4. Stage(u, q)
    BY <2>3 DEF Stage, Repeats, InStep, FinAcked
  <2>5. Fits(s, u, q)
    BY <1>1, <1>2, <1>4, <1>6, <2>1, FitsTrans DEF Good
  <2> QED
    BY <2>4, <2>5 DEF Fitted, u, n
<1>8. CASE f = "FIN"
  <2>1. /\ u.next = n.next /\ u.high = n.high /\ u.tail = n.tail /\ u.bound = n.bound
        /\ u.retx = (IF n.bound /\ n.retx = "none" THEN "FIN" ELSE n.retx)
        /\ u.out = n.out \/ u.out = Append(n.out, Packet("FIN", n.next, n.rx, 0))
        /\ u.state = n.state /\ u.closed = n.closed /\ u.rx = n.rx
    BY <1>1, <1>8 DEF SendEmptyPacket, Emit, Socket
  <2> HIDE DEF u
  <2>2. n.next <= n.head /\ n.next >= n.tail
    BY <1>1, <1>2, <1>8 DEF Fit, Marks
  <2>3. n.next > n.high => Frozen(u) \/ Frozen(q)
    BY <1>1, <1>2, <1>8, <2>1, Zenon DEF Fit, Lasting, Frozen
  <2>4. n.next <= 1 \/ n.next <= q.rx
    <3>1. n.head <= 1 \/ n.head <= q.rx
      BY <1>4 DEF Fit, Near
    <3>2. n.next \in Nat /\ n.head \in Nat /\ q.rx \in Nat
      BY <1>1 DEF Typed
    <3> QED
      BY <2>2, <3>1, <3>2
  <2>5. n.state \in FinStates \cup {"CLOSE_WAIT"}
    BY <1>1, <1>8 DEF Stage, Repeats
  <2>6. FinDue(n, FALSE)
    BY <1>5, <1>8 DEF MayEmit
  <2>7. Frozen(n) => Frozen(u)
    BY <2>1 DEF Frozen
  <2>8. Fits(n, u, q)
    BY <1>1, <1>4, <1>6, <2>1, <2>2, <2>3, <2>4, <2>5, <2>6, <2>7, FinFits DEF Good
  <2>9. Stage(u, q)
    <3>1. Stage(s, q)
      OBVIOUS
    <3>2. u.state = s.state /\ u.closed = s.closed /\ u.rx = s.rx /\ u.next = s.next
          /\ u.high = s.high
      BY <1>1, <1>2, <2>1
    <3> QED
      BY <1>8, <3>1, <3>2, Zenon DEF Stage, Repeats, InStep, FinAcked
  <2>10. Fits(s, u, q)
    BY <1>1, <1>2, <1>4, <1>6, <2>8, FitsTrans DEF Good
  <2> QED
    BY <2>9, <2>10 DEF Fitted, u, n
<1> QED
  BY <1>7, <1>8 DEF n

\* ReTxTimeout with the buffer empty.
LEMMA RepeatLastFits ==
    ASSUME NEW s, NEW q, Good(s), Typed(q), Own(s, FALSE), Fit(s, q), Stage(s, q), Size(s) = 0
    PROVE  LET n == [s EXCEPT !.retx = "none"]
           IN  /\ Fitted(s, n, q)
               /\ n.state \in {"FIN_WAIT_1", "CLOSING"} => Fitted(s, SendEmptyPacket(n, "FIN"), q)
<1> DEFINE n == [s EXCEPT !.retx = "none"]
           u == SendEmptyPacket(n, "FIN")
<1>1. /\ Socket(n) /\ Typed(n) /\ Own(n, FALSE) /\ Same(s, n) /\ n.high = s.high
      /\ n.state = s.state /\ n.head = s.head /\ n.tail = s.tail
  BY ExpiredOwn
<1>2. /\ Fits(s, n, q) /\ Stage(n, q) /\ n.next = s.next /\ n.rx = s.rx /\ n.retx = "none"
      /\ n.closed = s.closed
  BY ExpiredFits
<1> HIDE DEF n
<1>3. Fit(n, q) /\ Typed(s)
  BY <1>2 DEF Fits, Good
<1>4. Fitted(s, n, q)
  BY <1>2 DEF Fitted
<1>5. ASSUME n.state \in {"FIN_WAIT_1", "CLOSING"} PROVE Fitted(s, u, q)
  <2>1. /\ u.next = n.next /\ u.high = n.high /\ u.tail = n.tail /\ u.bound = n.bound
        /\ u.retx = (IF n.bound /\ n.retx = "none" THEN "FIN" ELSE n.retx)
        /\ u.out = n.out \/ u.out = Append(n.out, Packet("FIN", n.next, n.rx, 0))
        /\ u.state = n.state /\ u.closed = n.closed /\ u.rx = n.rx
    BY <1>1 DEF SendEmptyPacket, Emit, Socket
  <2>2. FinDue(n, FALSE)
    BY <1>1, <1>5 DEF Own, Fields, FinStates
  <2>3. Own(u, FALSE) /\ Same(n, u) /\ Good(u)
    BY <1>1, <2>2, EmptyPacketOwn, EmptyPacketGood DEF MayEmit, Flags
  <2> HIDE DEF u
  <2>4. /\ n.next >= n.tail /\ n.next <= n.tail
        /\ n.head \in Nat /\ n.tail \in Nat /\ n.next \in Nat /\ q.rx \in Nat
    BY <1>1, <1>3, <1>5 DEF Fit, Marks, FinStates, Typed
  <2>5. n.next = n.head
    BY <1>1, <2>4 DEF Size
  <2>6. n.next > n.high => Frozen(u) \/ Frozen(q)
    BY <1>2, <1>5, <2>1 DEF Stage, FinAcked, Frozen, FrozenStates
  <2>7. n.next <= 1 \/ n.next <= q.rx
    BY <1>3, <2>5 DEF Fit, Near
  <2>8. /\ n.state \in FinStates \cup {"CLOSE_WAIT"} /\ n.state # "TIME_WAIT"
        /\ Frozen(n) => Frozen(u)
    BY <1>5, <2>1 DEF FinStates, Frozen
  <2>9. Fits(n, u, q)
    BY <1>1, <1>3, <2>1, <2>2, <2>3, <2>4, <2>6, <2>7, <2>8, FinFits DEF Good
  <2>10. Stage(u, q)
    <3>1. u.state \in FinStates
      BY <1>5, <2>1 DEF FinStates
    <3> QED
      BY <1>2, <2>1, <3>1, Zenon DEF Stage, Repeats, InStep, FinAcked
  <2>11. Fits(s, u, q)
    BY <1>1, <1>2, <1>3, <2>3, <2>9, FitsTrans DEF Good
  <2> QED
    BY <2>10, <2>11 DEF Fitted
<1> QED
  BY <1>4, <1>5 DEF n

\* m_sendPendingDataEvent.
LEMMA PendingEventFits ==
    ASSUME NEW s, NEW q, Good(s), Typed(q), Own(s, FALSE), Fit(s, q), Stage(s, q), s.high >= 1
    PROVE  Fitted(s, SendPendingData([s EXCEPT !.sendEvent = FALSE]), q)
<1> DEFINE t == [s EXCEPT !.sendEvent = FALSE]
           u == SendPendingData(t)
<1>1. Own(t, FALSE) /\ Same(s, t) /\ t.high = s.high
  BY ExpiredOwn
<1>2. /\ t.out = s.out /\ t.state = s.state /\ t.next = s.next /\ t.tail = s.tail
      /\ t.retx = s.retx /\ t.bound = s.bound /\ t.rx = s.rx /\ t.closed = s.closed
  BY DEF Good, Socket
<1>3. Good(t)
  BY DEF Good, Socket, Typed, Guarded
<1> HIDE DEF t
<1>4. Fits(s, t, q)
  BY <1>1, <1>2, <1>3, UnlookedFits DEF Good
<1>5. Stage(t, q)
  BY <1>1, <1>2, Zenon DEF Stage, Repeats, InStep, FinAcked
<1>6. Fit(t, q) /\ t.high >= 1
  BY <1>1, <1>4 DEF Fits
<1>7. /\ Good(u) /\ Fits(t, u, q) /\ (u = t \/ (u.next = 2 /\ u.high = 2))
      /\ Repeats(t) => Repeats(u)
      /\ InStep(t, q) => InStep(u, q)
  BY <1>1, <1>3, <1>6, PendingDataGood, PendingDataFits, PendingDataStage
<1> HIDE DEF u
<1>8. Stage(u, q)
  <2>1. CASE u = t
    BY <1>5, <2>1
  <2>2. CASE u.next = 2 /\ u.high = 2
    <3>1. FinAcked(u, q)
      BY <2>2 DEF FinAcked
    <3> QED
      BY <1>5, <1>7, <3>1 DEF Stage
  <2> QED
    BY <1>7, <2>1, <2>2
<1>9. Fits(s, u, q)
  BY <1>3, <1>4, <1>7, FitsTrans DEF Good
<1> QED
  BY <1>8, <1>9 DEF Fitted, u, t

\* ReTxTimeout with data: the first segment again, or no retries left.
LEMMA RetryFits ==
    ASSUME NEW s, NEW q, Good(s), Typed(q), Own(s, FALSE), Fit(s, q), Stage(s, q),
           s.high >= 1, Size(s) > 0
    PROVE  LET n == [s EXCEPT !.retx = "none"]
           IN  /\ Fitted(s, DeallocateEndPoint(n), q)
               /\ n.dataRetrCount # 0
                    => Fitted(s, SendDataPacket([n EXCEPT !.dataRetrCount = @ - 1], n.head), q)
<1> DEFINE n == [s EXCEPT !.retx = "none"]
           t == [n EXCEPT !.dataRetrCount = @ - 1]
           g == DeallocateEndPoint(n)
           d == SendDataPacket(t, n.head)
<1>1. /\ Socket(n) /\ Typed(n) /\ Own(n, FALSE) /\ Same(s, n) /\ n.high = s.high
      /\ n.state = s.state /\ n.head = s.head /\ n.tail = s.tail
  BY ExpiredOwn
<1>2. /\ Marks(n) /\ Near(n, q) /\ Lasting(n, q) /\ Fresh(n, q) /\ Stage(n, q) /\ Steady(s, n)
      /\ n.next = s.next /\ n.rx = s.rx /\ n.bound = s.bound /\ n.retx = "none"
      /\ n.out = s.out /\ n.closed = s.closed
  BY ExpiredFits
<1>3. n.head = 1 /\ n.tail = 2 /\ Typed(s)
  BY <1>1 DEF Size, Own, Fields, Good, Typed
<1> HIDE DEF n
<1>4. Fitted(s, g, q)
  <2>1. Typed(g) /\ Same(n, g)
    BY <1>1, DeallocateGood, DeallocateOwn DEF Good
  <2>2. /\ g.out = n.out /\ g.state = n.state /\ g.next = n.next /\ g.high = n.high
        /\ g.head = n.head /\ g.tail = n.tail /\ g.rx = n.rx /\ g.retx = "none" /\ ~g.bound
        /\ g.closed = n.closed /\ g.fin = n.fin
    BY <1>1 DEF DeallocateEndPoint, Socket
  <2> HIDE DEF g
  <2>3. Same(s, g)
    BY <1>1, <1>3, <2>1, SameTrans
  <2>4. Marks(g) /\ Timed(g) /\ Lasting(g, q)
    BY <1>1, <1>2, <2>2, Zenon DEF Marks, Timed, Lasting
  <2>5. Fits(s, g, q)
    BY <1>1, <1>2, <1>3, <2>1, <2>2, <2>3, <2>4, SameFits DEF Frozen
  <2>6. Stage(g, q)
    BY <1>2, <2>2, Zenon DEF Stage, Repeats, InStep, FinAcked
  <2> QED
    BY <2>5, <2>6 DEF Fitted
<1>5. ASSUME n.dataRetrCount # 0 PROVE Fitted(s, d, q)
  <2>1. /\ Socket(t) /\ Typed(t) /\ Own(t, FALSE) /\ Same(n, t) /\ t.high >= 1 /\ t.head = 1
        /\ t.high = n.high /\ t.state = n.state
    BY <1>1, <1>3, <1>5, CountedOwn
  <2>2. /\ t.out = n.out /\ t.next = n.next /\ t.tail = n.tail /\ t.rx = n.rx
        /\ t.retx = n.retx /\ t.bound = n.bound /\ t.closed = n.closed /\ t.fin = n.fin
    BY <1>1 DEF Socket
  <2>3. d = SendDataPacket(t, 1)
    BY <1>3
  <2>4. /\ \/ d.state = t.state
           \/ d.state \in {"FIN_WAIT_1", "LAST_ACK"} /\ t.state \in {"ESTABLISHED", "CLOSE_WAIT"}
        /\ (d.state = "FIN_WAIT_1" /\ d.state # t.state => t.state = "ESTABLISHED")
    BY <2>1, <2>3 DEF SendDataPacket, Socket
  <2>5. d.retx = "DATA" /\ d.rx = t.rx
    BY <1>2, <2>1, <2>2, <2>3 DEF SendDataPacket, Socket
  <2> HIDE DEF t
  <2>6. Steady(n, t)
    <3>1. n.rx \in Nat /\ n.high \in Nat /\ n.head \in Nat
      BY <1>1 DEF Typed
    <3>2. n.rx <= t.rx /\ n.high <= t.high /\ n.head <= t.head
      BY <1>3, <2>1, <2>2, <3>1
    <3> QED
      BY <2>1, <3>2, Zenon DEF Steady, Frozen
  <2>7. Marks(t) /\ Near(t, q) /\ Lasting(t, q) /\ Stage(t, q)
    <3>1. t.head = n.head
      BY <1>3, <2>1
    <3> QED
      BY <1>2, <2>1, <2>2, <3>1, Zenon
         DEF Marks, Near, Lasting, Stage, Repeats, InStep, FinAcked, Frozen
  <2>8. Fresh(t, q)
    BY <1>1, <1>2, <2>1, <2>2, <2>6, FreshKept, SteadyItself DEF Own
  <2>9. t.tail = 2
    BY <1>3, <2>2
  <2>10. Fits(t, d, q) /\ d.next = 2 /\ d.high = 2 /\ Typed(d)
    BY <2>1, <2>3, <2>7, <2>8, <2>9, DataFits, DataPacketGood DEF Good
  <2> HIDE DEF d
  <2>11. Stage(d, q)
    <3>1. Repeats(d) /\ FinAcked(d, q)
      BY <2>5, <2>10 DEF Repeats, FinAcked
    <3>2. InStep(d, q)
      BY <2>4, <2>5, <2>7 DEF Stage, InStep
    <3> QED
      BY <3>1, <3>2 DEF Stage
  <2>12. Steady(s, d)
    <3>1. Steady(t, d)
      BY <2>10 DEF Fits
    <3>2. Steady(s, t)
      BY <1>1, <1>2, <1>3, <2>1, <2>6, SteadyTrans
    <3> QED
      BY <1>3, <2>1, <2>10, <3>1, <3>2, SteadyTrans
  <2> QED
    BY <2>10, <2>11, <2>12 DEF Fitted, Fits
<1> QED
  BY <1>4, <1>5 DEF g, d, t, n

\* LastAckTimeout.
LEMMA LastAckFits ==
    ASSUME NEW s, NEW q, Good(s), Typed(q), Own(s, FALSE), Fit(s, q), Stage(s, q)
    PROVE  LET n == [s EXCEPT !.lastAck = FALSE]
               t == [n EXCEPT !.dataRetrCount = @ - 1]
           IN  /\ Fitted(s, n, q)
               /\ Fitted(s, DeallocateEndPoint(n), q)
               /\ n.state = "LAST_ACK" /\ n.dataRetrCount # 0
                    => Fitted(s, [SendEmptyPacket(t, "FIN") EXCEPT !.lastAck = TRUE], q)
<1> DEFINE n == [s EXCEPT !.lastAck = FALSE]
           t == [n EXCEPT !.dataRetrCount = @ - 1]
           g == DeallocateEndPoint(n)
           u == SendEmptyPacket(t, "FIN")
           d == [u EXCEPT !.lastAck = TRUE]
<1>1. /\ Socket(n) /\ Typed(n) /\ Own(n, FALSE) /\ Same(s, n) /\ n.high = s.high
      /\ n.state = s.state /\ n.head = s.head /\ n.tail = s.tail
  BY ExpiredOwn
<1>2. /\ n.out = s.out /\ n.next = s.next /\ n.retx = s.retx /\ n.bound = s.bound
      /\ n.rx = s.rx /\ n.closed = s.closed /\ n.fin = s.fin
  BY DEF Good, Socket
<1> HIDE DEF n
<1>3. Fits(s, n, q) /\ Typed(s)
  BY <1>1, <1>2, UnlookedFits DEF Good
<1>4. Fit(n, q) /\ Stage(n, q)
  BY <1>1, <1>2, <1>3, Zenon DEF Fits, Stage, Repeats, InStep, FinAcked
<1>5. Fitted(s, g, q)
  <2>1. Fits(n, g, q) /\ Typed(g)
    BY <1>1, <1>4, DeallocateFits, DeallocateGood DEF Good
  <2>2. g.state = n.state /\ g.rx = n.rx /\ g.next = n.next /\ g.high = n.high /\ g.retx = "none"
    BY <1>1 DEF DeallocateEndPoint, Socket
  <2> HIDE DEF g
  <2>3. Stage(g, q)
    BY <1>4, <2>2, Zenon DEF Stage, Repeats, InStep, FinAcked
  <2>4. Fits(s, g, q)
    BY <1>1, <1>3, <2>1, FitsTrans
  <2> QED
    BY <2>3, <2>4 DEF Fitted
<1>6. ASSUME n.state = "LAST_ACK", n.dataRetrCount # 0 PROVE Fitted(s, d, q)
  <2>1. /\ Socket(t) /\ Typed(t) /\ Own(t, FALSE) /\ Same(n, t) /\ t.high = n.high
        /\ t.head = n.head /\ t.state = "LAST_ACK"
    BY <1>1, <1>6, CountedOwn
  <2>2. /\ t.out = n.out /\ t.next = n.next /\ t.tail = n.tail /\ t.rx = n.rx
        /\ t.retx = n.retx /\ t.bound = n.bound /\ t.closed = n.closed /\ t.fin = n.fin
    BY <1>1 DEF Socket
  <2> HIDE DEF t
  <2>3. Fits(n, t, q)
    BY <1>1, <1>4, <1>6, <2>1, <2>2, UnlookedFits
  <2>4. Fit(t, q)
    BY <2>3 DEF Fits
  <2>5. FinDue(t, FALSE)
    BY <2>1 DEF Own, Fields, FinStates
  <2>6. Good(u) /\ Own(u, FALSE) /\ Same(t, u)
    BY <2>1, <2>5, EmptyPacketOwn, EmptyPacketGood DEF MayEmit, Flags
  <2>7. /\ u.next = t.next /\ u.high = t.high /\ u.tail = t.tail /\ u.bound = t.bound
        /\ u.retx = (IF t.bound /\ t.retx = "none" THEN "FIN" ELSE t.retx)
        /\ u.out = t.out \/ u.out = Append(t.out, Packet("FIN", t.next, t.rx, 0))
        /\ u.state = "LAST_ACK"
    BY <2>1 DEF SendEmptyPacket, Emit, Socket
  <2> HIDE DEF u
  <2>8. Frozen(u) /\ t.state \in FinStates \cup {"CLOSE_WAIT"} /\ t.state # "TIME_WAIT"
        /\ u.state \in FinStates \cup {"CLOSE_WAIT"}
    BY <2>1, <2>7 DEF Frozen, FrozenStates, FinStates
  <2>9. t.next >= t.tail
    BY <2>1, <2>4 DEF Fit, Marks, FinStates
  <2>10. Fits(t, u, q)
    BY <2>1, <2>4, <2>5, <2>6, <2>7, <2>8, <2>9, FinFits DEF Good
  <2>11. Fit(u, q)
    BY <2>10 DEF Fits
  <2>12. /\ d.out = u.out /\ d.state = u.state /\ d.next = u.next /\ d.high = u.high
         /\ d.head = u.head /\ d.tail = u.tail /\ d.rx = u.rx /\ d.fin = u.fin
         /\ d.retx = u.retx /\ d.bound = u.bound /\ Typed(d)
    BY <2>6 DEF Good, Socket, Typed
  <2> HIDE DEF d
  <2>13. Fits(u, d, q)
    BY <2>6, <2>11, <2>12, FieldsFit DEF Good, Own
  <2>14. Stage(d, q)
    BY <2>7, <2>12 DEF Stage, Repeats, InStep, FinAcked, FinStates
  <2>15. Fits(s, t, q)
    BY <1>1, <1>3, <2>1, <2>3, FitsTrans
  <2>16. Fits(s, u, q)
    BY <1>3, <2>1, <2>6, <2>10, <2>15, FitsTrans DEF Good
  <2>17. Fits(s, d, q)
    BY <1>3, <2>6, <2>12, <2>13, <2>16, FitsTrans DEF Good
  <2> QED
    BY <2>14, <2>17 DEF Fitted
<1>7. Fitted(s, n, q)
  BY <1>3, <1>4 DEF Fitted
<1> QED
  BY <1>5, <1>6, <1>7 DEF g, d, u, t, n

\* What the two ends are, from the side of one.
LEMMA EndFits ==
    ASSUME AllGood, Delivery, Fitness, NEW e \in Ends
    PROVE  /\ Good(sock[e]) /\ Own(sock[e], FALSE) /\ Opened(sock[e])
           /\ Fit(sock[e], sock[Peer(e)]) /\ Stage(sock[e], sock[Peer(e)])
           /\ Typed(sock[Peer(e)])
BY EndsArePeers DEF AllGood, Delivery, Fitness, Good

LEMMA TimerKeepsFitness ==
    ASSUME AllGood, AllGood', Delivery, Fitness, NEW e \in Ends,
           \/ SendPendingDataEvent(e) \/ RepeatEmptyPacket(e) \/ ReTxTimeoutEmpty(e)
           \/ ReTxTimeout(e) \/ LastAckTimeout(e) \/ DelAckTimeout(e) \/ TimeWaitOver(e)
    PROVE  Fitness'
<1> DEFINE s == sock[e]
           q == sock[Peer(e)]
           n == [s EXCEPT !.retx = "none"]
<1>1. /\ Good(s) /\ Own(s, FALSE) /\ Opened(s) /\ Fit(s, q) /\ Stage(s, q) /\ Typed(q)
      /\ s.high \in Nat
  BY EndFits DEF Good, Typed
<1>2. CASE SendPendingDataEvent(e)
  <2> DEFINE r == SendPendingData([s EXCEPT !.sendEvent = FALSE])
  <2>1. Becomes(e, r) /\ s.sendEvent
    BY <1>2 DEF SendPendingDataEvent
  <2>2. s.high >= 1
    BY <1>1, <2>1 DEF Own, Fields, Opening
  <2> HIDE DEF s, q
  <2>3. Fitted(s, r, q)
    BY <1>1, <2>2, PendingEventFits
  <2> HIDE DEF r
  <2> QED
    BY <2>1, <2>3, LocalFitness DEF s, q
<1>3. CASE RepeatEmptyPacket(e)
  <2> DEFINE r == SendEmptyPacket(n, s.retx)
  <2>1. Becomes(e, r) /\ s.retx \in {"SYN", "SYNACK", "FIN"}
    BY <1>3 DEF RepeatEmptyPacket
  <2> HIDE DEF s, q
  <2>2. Fitted(s, r, q)
    BY <1>1, <2>1, RepeatFits
  <2> HIDE DEF r
  <2> QED
    BY <2>1, <2>2, LocalFitness DEF s, q
<1>4. CASE ReTxTimeoutEmpty(e)
  <2> DEFINE b == n.state \in {"FIN_WAIT_1", "CLOSING"}
             r == SendEmptyPacket(n, "FIN")
             v == IF b THEN r ELSE n
  <2>1. Becomes(e, v) /\ Size(n) = 0
    BY <1>4 DEF ReTxTimeoutEmpty
  <2>2. Size(s) = 0
    BY <1>1, <2>1 DEF Good, Socket, Size
  <2> HIDE DEF s, q
  <2>3. Fitted(s, n, q) /\ (b => Fitted(s, r, q))
    BY <1>1, <2>2, RepeatLastFits
  <2> HIDE DEF n, r, b
  <2>4. Fitted(s, v, q)
    BY <2>3
  <2> HIDE DEF v
  <2> QED
    BY <2>1, <2>4, LocalFitness DEF s, q
<1>5. CASE ReTxTimeout(e)
  <2> DEFINE z == n.dataRetrCount = 0
             g == DeallocateEndPoint(n)
             d == SendDataPacket([n EXCEPT !.dataRetrCount = @ - 1], n.head)
             v == IF z THEN g ELSE d
  <2>1. Becomes(e, v) /\ s.retx = "DATA" /\ Size(n) > 0
    BY <1>5 DEF ReTxTimeout
  <2>2. Size(s) > 0
    BY <1>1, <2>1 DEF Good, Socket, Size
  <2>3. s.high >= 1
    BY <1>1, <2>1 DEF Own, Fields, Opening
  <2> HIDE DEF s, q
  <2>4. Fitted(s, g, q) /\ (~z => Fitted(s, d, q))
    BY <1>1, <2>2, <2>3, RetryFits
  <2> HIDE DEF n, g, d, z
  <2>5. Fitted(s, v, q)
    BY <2>4
  <2> HIDE DEF v
  <2> QED
    BY <2>1, <2>5, LocalFitness DEF s, q
<1>6. CASE LastAckTimeout(e)
  <2> DEFINE m == [s EXCEPT !.lastAck = FALSE]
             b == m.state = "LAST_ACK"
             z == m.dataRetrCount = 0
             g == DeallocateEndPoint(m)
             d == [SendEmptyPacket([m EXCEPT !.dataRetrCount = @ - 1], "FIN") EXCEPT !.lastAck = TRUE]
             v == CASE ~b -> m [] b /\ z -> g [] OTHER -> d
  <2>1. Becomes(e, v)
    BY <1>6 DEF LastAckTimeout
  <2> HIDE DEF s, q
  <2>2. Fitted(s, m, q) /\ Fitted(s, g, q) /\ (b /\ ~z => Fitted(s, d, q))
    BY <1>1, LastAckFits
  <2> HIDE DEF m, g, d, b, z
  <2>3. Fitted(s, v, q)
    BY <2>2
  <2> HIDE DEF v
  <2> QED
    BY <2>1, <2>3, LocalFitness DEF s, q
<1>7. CASE DelAckTimeout(e)
  <2> DEFINE r == SendEmptyPacket(s, "ACK")
  <2>1. Becomes(e, r) /\ s.delAck # 0
    BY <1>7, ConnectionAssumption DEF DelAckTimeout, AckDelayed
  <2>2. s.high >= 1
    BY <1>1, <2>1 DEF Own, Fields, Opening
  <2> HIDE DEF s, q
  <2>3. Fitted(s, r, q)
    BY <1>1, <2>2, ResetFits
  <2> HIDE DEF r
  <2> QED
    BY <2>1, <2>3, LocalFitness DEF s, q
<1>8. CASE TimeWaitOver(e)
  <2> DEFINE r == CloseAndNotify(s)
  <2>1. Becomes(e, r)
    BY <1>8 DEF TimeWaitOver
  <2> HIDE DEF s, q
  <2>2. Fitted(s, r, q)
    BY <1>1, ResetFits
  <2> HIDE DEF r
  <2> QED
    BY <2>1, <2>2, LocalFitness DEF s, q
<1> QED
  BY <1>2, <1>3, <1>4, <1>5, <1>6, <1>7, <1>8

LEMMA ApplicationKeepsFitness ==
    ASSUME AllGood, AllGood', Delivery, Fitness, NEW e \in Ends,
           Send(e) \/ Recv(e) \/ ShutdownSend(e) \/ Close(e)
    PROVE  Fitness'
<1> DEFINE s == sock[e]
           q == sock[Peer(e)]
<1>1. /\ Good(s) /\ Own(s, FALSE) /\ Opened(s) /\ Fit(s, q) /\ Stage(s, q) /\ Typed(q)
      /\ s.high \in Nat
  BY EndFits DEF Good, Typed
<1>2. ASSUME Held(e) PROVE /\ s.state \notin {"CLOSED", "SYN_RCVD"}
                           /\ s.state # "SYN_SENT" => s.high >= 1
  BY <1>1, <1>2 DEF Held, Own, Fields, Opening
<1>3. CASE Send(e)
  <2> DEFINE v == s.sendEvent \/ (~s.shutdownSend /\ s.bound
                                  /\ s.state \in {"ESTABLISHED", "CLOSE_WAIT"})
             r == [s EXCEPT !.tail = 2, !.wrote = ~s.shutdownSend, !.sendEvent = v]
  <2>1. /\ Becomes(e, r)
        /\ s.state \in {"ESTABLISHED", "SYN_SENT", "CLOSE_WAIT"} /\ s.tail = 1 /\ ~s.closed
    BY <1>1, <1>3 DEF Send, Good, Socket
  <2>2. sock'[e] = r
    BY <2>1 DEF Becomes, AllGood
  <2>3. Typed(r)
    BY <2>2 DEF AllGood, Good
  <2> HIDE DEF s, q, v
  <2>4. /\ r.out = s.out /\ r.state = s.state /\ r.next = s.next /\ r.high = s.high
        /\ r.head = s.head /\ r.tail = 2 /\ r.rx = s.rx /\ r.fin = s.fin
        /\ r.retx = s.retx /\ r.bound = s.bound /\ r.closed = s.closed
    BY <1>1 DEF Good, Socket
  <2> HIDE DEF r
  <2>5. s.retx # "FIN" /\ s.state \notin FinStates
    BY <1>1, <2>1 DEF Stage, Repeats, FinStates
  <2>6. s.next <= 1 /\ s.next \in Nat /\ s.rx \in Nat /\ s.head \in Nat
    BY <1>1, <2>1 DEF Fit, Marks, Good, Typed
  <2>7. Steady(s, r)
    <3>1. s.rx <= r.rx /\ s.high <= r.high /\ s.head <= r.head
      BY <1>1, <2>4, <2>6
    <3> QED
      BY <2>4, <3>1, Zenon DEF Steady, Frozen
  <2>8. Marks(r)
    <3>1. r.next <= r.tail
      BY <2>4, <2>6
    <3>2. Marks(s)
      BY <1>1 DEF Fit
    <3> QED
      BY <2>4, <2>5, <3>1, <3>2, Zenon DEF Marks
  <2>9. Timed(r)
    <3>1. ~(r.next >= 2)
      BY <2>4, <2>6
    <3> QED
      BY <3>1 DEF Timed
  <2>10. Near(r, q) /\ Lasting(r, q)
    BY <1>1, <2>4, <2>5, Zenon DEF Fit, Near, Lasting
  <2>11. Fresh(r, q)
    BY <1>1, <2>3, <2>4, <2>7, FreshKept, SteadyItself DEF Own, Fit, Good
  <2>12. Stage(r, q)
    BY <1>1, <2>4, Zenon DEF Stage, Repeats, InStep, FinAcked
  <2>13. Fitted(s, r, q)
    BY <2>7, <2>8, <2>9, <2>10, <2>11, <2>12 DEF Fitted, Fits, Fit
  <2> QED
    BY <2>1, <2>13, LocalFitness DEF s, q
<1>4. CASE Recv(e)
  <2> DEFINE r == [s EXCEPT !.unread = FALSE]
  <2>1. Becomes(e, r)
    BY <1>4 DEF Recv
  <2>2. Typed(r) /\ Typed(s)
    BY <1>1, ExpiredOwn DEF Good
  <2>3. /\ r.out = s.out /\ r.state = s.state /\ r.next = s.next /\ r.high = s.high
        /\ r.head = s.head /\ r.tail = s.tail /\ r.rx = s.rx /\ r.fin = s.fin
        /\ r.retx = s.retx /\ r.bound = s.bound /\ r.closed = s.closed
    BY <1>1 DEF Good, Socket
  <2> HIDE DEF r, s, q
  <2>4. Fits(s, r, q)
    BY <1>1, <2>2, <2>3, FieldsFit DEF Own
  <2>5. Stage(r, q)
    BY <1>1, <2>3, Zenon DEF Stage, Repeats, InStep, FinAcked
  <2> QED
    BY <2>1, <2>4, <2>5, LocalFitness DEF Fitted, s, q
<1>5. CASE ShutdownSend(e)
  <2> DEFINE t == [s EXCEPT !.shutdownSend = TRUE, !.closeOnEmpty = TRUE]
             b == Size(t) = 0 /\ t.state \in {"ESTABLISHED", "CLOSE_WAIT"}
             u == SendEmptyPacket(t, "FIN")
             f == IF t.state = "ESTABLISHED" THEN "FIN_WAIT_1" ELSE "LAST_ACK"
             r == [u EXCEPT !.state = f]
             v == IF b THEN r ELSE t
  <2>1. Becomes(e, v) /\ Held(e)
    BY <1>5 DEF ShutdownSend
  <2> HIDE DEF s, q
  <2>2. /\ t.out = s.out /\ t.state = s.state /\ t.next = s.next /\ t.high = s.high
        /\ t.head = s.head /\ t.tail = s.tail /\ t.rx = s.rx /\ t.fin = s.fin
        /\ t.retx = s.retx /\ t.bound = s.bound /\ t.closed = s.closed
        /\ t.wrote = s.wrote /\ t.shutdownSend /\ Good(t)
    BY <1>1 DEF Good, Socket, Typed, Guarded
  <2>3. Fields(t, FALSE)
    BY <1>1 DEF Good, Socket, Own, Fields, Opening, FinDue, Ended, FinStates
  <2> HIDE DEF t
  <2>4. Sent(t, FALSE) /\ Ordered(t)
    <3>1. s.rx <= t.rx /\ s.high <= t.high
      <4>1. s.rx \in Nat
        BY <1>1 DEF Good, Typed
      <4> QED
        BY <1>1, <2>2, <4>1
    <3>2. (t.wrote => s.wrote \/ ~(FALSE \/ Ended(s))) /\ (FALSE \/ Ended(s) => FALSE \/ Ended(t))
      BY <2>2, Zenon DEF Ended
    <3> QED
      BY <1>1, <2>2, <3>1, <3>2, OutKept DEF Good, Own
  <2>5. Own(t, FALSE)
    BY <2>3, <2>4 DEF Own
  <2>6. Fits(s, t, q)
    BY <1>1, <2>2, FieldsFit DEF Own, Good
  <2>7. Stage(t, q) /\ Fit(t, q)
    BY <1>1, <2>2, <2>6, Zenon DEF Fits, Stage, Repeats, InStep, FinAcked
  <2>8. Fitted(s, t, q)
    BY <2>6, <2>7 DEF Fitted
  <2>9. ASSUME b PROVE Fitted(s, r, q)
    <3>1. t.high >= 1 /\ t.state # "SYN_SENT" /\ Typed(t)
      BY <1>2, <2>1, <2>2, <2>9 DEF s, Good
    <3>2. /\ t.head = t.tail /\ t.next \in Nat /\ t.head \in Nat /\ q.rx \in Nat
          /\ t.next >= t.head /\ t.next <= t.tail
      BY <1>1, <2>3, <2>7, <2>9, <3>1 DEF Size, Typed, Fields, Fit, Marks
    <3>3. t.next = t.head
      BY <3>2
    <3>4. FinDue(t, FALSE)
      BY <2>2, <2>3, <3>1, <3>2 DEF FinDue, Fields, Ended
    <3>5. Good(u) /\ Own(u, FALSE) /\ Same(t, u)
      BY <2>2, <2>5, <3>4, EmptyPacketGood, EmptyPacketOwn DEF Good, Flags, MayEmit
    <3>6. /\ u.next = t.next /\ u.high = t.high /\ u.tail = t.tail /\ u.bound = t.bound
          /\ u.retx = (IF t.bound /\ t.retx = "none" THEN "FIN" ELSE t.retx)
          /\ u.out = t.out \/ u.out = Append(t.out, Packet("FIN", t.next, t.rx, 0))
      BY <2>2 DEF SendEmptyPacket, Emit, Good, Socket
    <3> HIDE DEF u
    <3>7. f \in States /\ f \notin {"SYN_SENT", "SYN_RCVD"} /\ f \in FinStates
      BY DEF States, FinStates
    <3>8. f = "FIN_WAIT_1" => t.state = "ESTABLISHED"
      OBVIOUS
    <3>9. f # "FIN_WAIT_1" => f = "LAST_ACK"
      OBVIOUS
    <3> HIDE DEF f
    <3>10. FinDue(u, FALSE) /\ u.high >= 1
      BY <3>1, <3>4, <3>5, <3>6 DEF FinDue, Same, Ended
    <3>11. Own(r, FALSE) /\ Same(u, r) /\ Typed(r)
      BY <3>5, <3>7, <3>10, StateOwn DEF Good
    <3>12. r.high = u.high /\ r.state = f /\ r.next = u.next /\ r.tail = u.tail
           /\ r.bound = u.bound /\ r.retx = u.retx /\ r.out = u.out /\ r.rx = u.rx
      BY <3>5 DEF Good, Socket
    <3> HIDE DEF r
    <3>13. Same(t, r)
      BY <3>1, <3>5, <3>11, SameTrans DEF Good
    <3>14. r.state \in FinStates \cup {"CLOSE_WAIT"} /\ t.state # "TIME_WAIT" /\ ~Frozen(t)
      BY <2>9, <3>7, <3>12 DEF Frozen, FrozenStates
    <3>15. t.next > t.high => Frozen(r) \/ Frozen(q)
      <4>1. t.state = "ESTABLISHED" => t.next <= t.high
        BY <2>7 DEF Fit, Marks
      <4>2. t.next <= t.high => ~(t.next > t.high)
        BY <3>1 DEF Typed
      <4> QED
        BY <3>8, <3>9, <3>12, <4>1, <4>2 DEF Frozen, FrozenStates
    <3>16. t.next <= 1 \/ t.next <= q.rx
      BY <2>7, <3>3 DEF Fit, Near
    <3>17. t.next >= t.tail
      BY <3>2
    <3>18. Fits(t, r, q)
      BY <1>1, <2>5, <2>7, <3>1, <3>4, <3>6, <3>11, <3>12, <3>13, <3>14, <3>15, <3>16, <3>17,
         FinFits
    <3>19. Stage(r, q)
      <4>1. Repeats(r)
        BY <3>7, <3>12 DEF Repeats
      <4>2. InStep(r, q)
        <5>1. r.rx = t.rx
          BY <3>13 DEF Same
        <5> QED
          BY <2>7, <3>8, <3>9, <3>12, <5>1 DEF Stage, InStep
      <4>3. FinAcked(r, q)
        <5>1. t.state = "ESTABLISHED" => ~(t.next > t.high)
          BY <2>7, <3>1 DEF Fit, Marks, Typed
        <5> QED
          BY <3>6, <3>8, <3>12, <5>1 DEF FinAcked
      <4> QED
        BY <4>1, <4>2, <4>3 DEF Stage
    <3>20. Fits(s, r, q)
      BY <1>1, <2>6, <3>1, <3>11, <3>18, FitsTrans DEF Good
    <3> QED
      BY <3>19, <3>20 DEF Fitted
  <2> HIDE DEF r, b
  <2>10. Fitted(s, v, q)
    BY <2>8, <2>9
  <2> HIDE DEF v
  <2> QED
    BY <2>1, <2>10, LocalFitness DEF s, q
<1>6. CASE Close(e)
  <2> DEFINE u == CloseSocket(s)
             r == [u EXCEPT !.closed = TRUE]
  <2>1. Becomes(e, r) /\ Held(e)
    BY <1>6 DEF Close
  <2>2. s.state # "SYN_RCVD"
    BY <1>2, <2>1
  <2> HIDE DEF s, q
  <2>3. Good(u) /\ Own(u, TRUE) /\ Fits(s, u, q) /\ Stage(u, q)
    <3>1. Own(s, TRUE) /\ InStep(s, q) /\ FinAcked(s, q) /\ Repeats(s) /\ TRUE \in BOOLEAN
      BY <1>1, OwnWhileClosing DEF Stage
    <3>2. Fits(s, u, q) /\ Stage(u, q)
      BY <1>1, <2>2, <3>1, CloseSocketFits
    <3> QED
      BY <1>1, <2>2, <3>1, <3>2, CloseSocketGood, CloseSocketOwn
  <2> HIDE DEF u
  <2>4. /\ r.out = u.out /\ r.state = u.state /\ r.next = u.next /\ r.high = u.high
        /\ r.head = u.head /\ r.tail = u.tail /\ r.rx = u.rx /\ r.fin = u.fin
        /\ r.retx = u.retx /\ r.bound = u.bound /\ r.closed /\ Typed(r)
    BY <2>3 DEF Good, Socket, Typed
  <2> HIDE DEF r
  <2>5. Fit(u, q)
    BY <2>3 DEF Fits
  <2>6. Fits(u, r, q)
    BY <1>1, <2>3, <2>4, <2>5, FieldsFit DEF Own, Good
  <2>7. Stage(r, q)
    BY <2>3, <2>4, Zenon DEF Stage, Repeats, InStep, FinAcked
  <2>8. Fits(s, r, q)
    BY <1>1, <2>3, <2>4, <2>6, FitsTrans DEF Good
  <2> QED
    BY <2>1, <2>7, <2>8, LocalFitness DEF Fitted, s, q
<1> QED
  BY <1>3, <1>4, <1>5, <1>6

\* A socket whose handshake is not over fits any peer.
LEMMA OpeningFits ==
    ASSUME NEW s, NEW q, Typed(s), Typed(q), Own(s, FALSE), s.high = 0, s.fin = 0,
           s.state = "SYN_RCVD" => s.rx >= 1
    PROVE  Fit(s, q) /\ Stage(s, q)
<1>1. /\ s.state \in {"CLOSED", "SYN_SENT", "SYN_RCVD"} /\ s.retx # "FIN"
      /\ s.rx <= 1 /\ s.head = 1 /\ s.next = 0 /\ s.tail \in {1, 2}
  BY DEF Own, Fields, Opening
<1>2. Marks(s) /\ Timed(s)
  BY <1>1 DEF Marks, Timed, FinStates
<1>3. Near(s, q)
  <2>1. s.rx <= q.high + 1 /\ s.fin <= q.high + 1
    BY <1>1 DEF Typed
  <2> QED
    BY <1>1, <2>1 DEF Near
<1>4. Lasting(s, q) /\ Stage(s, q)
  BY <1>1 DEF Lasting, Stage, Repeats, InStep, FinAcked
<1>5. Fresh(s, q)
  <2> SUFFICES ASSUME NEW i \in DOMAIN s.out PROVE FreshPacket(s, q, s.out[i])
    BY DEF Fresh
  <2>1. s.out \in Seq(Packets)
    BY DEF Typed
  <2>2. s.out[i] \in Packets
    BY <2>1
  <2>3. PacketOwn(s, FALSE, s.out[i])
    BY DEF Own, Sent
  <2>4. s.out[i].flags \notin {"ACK", "FIN"} /\ s.out[i].len = 0
    BY <2>2, <2>3 DEF PacketOwn, Packets, Flags
  <2> QED
    BY <2>4 DEF FreshPacket
<1> QED
  BY <1>2, <1>3, <1>4, <1>5 DEF Fit

LEMMA ConnectFitness ==
    ASSUME AllGood, AllGood', Delivery, Delivery', Fitness, Connect
    PROVE  Fitness'
<1> DEFINE s == sock["client"]
           q == sock["server"]
           t == [s EXCEPT !.bound = TRUE, !.synCount = SynRetries,
                          !.dataRetrCount = DataRetries]
           u == SendEmptyPacket(t, "SYN")
           r == [u EXCEPT !.state = "SYN_SENT"]
<1>1. s = NewSocket("client") /\ Becomes("client", r)
  BY DEF Connect
<1>2. sock'["client"] = r /\ sock'["server"] = q
  BY <1>1 DEF Becomes, AllGood, Ends
<1>3. /\ Typed(r) /\ Own(r, FALSE) /\ Typed(q) /\ Own(q, FALSE) /\ Good(s) /\ Fit(q, s)
  BY <1>2 DEF AllGood, Good, Delivery, Ends, Fitness, Peer
<1>4. s.high = 0 /\ s.fin = 0
  BY <1>1 DEF NewSocket
<1>5. q.high = 0 /\ q.fin = 0 /\ (q.state = "SYN_RCVD" => q.rx >= 1)
  <2>1. q.high = 0
    BY <1>4 DEF Delivery, Handshake, Early
  <2> HIDE DEF q, s
  <2> QED
    BY <1>3, <1>4, <2>1 DEF Fit, Marks, Near
<1> HIDE DEF s, q
<1>6. r.high = 0 /\ r.fin = 0 /\ r.state = "SYN_SENT"
  <2>1. Socket(t) /\ t.high = 0 /\ t.fin = 0
    BY <1>3, <1>4 DEF Good, Socket
  <2> HIDE DEF t
  <2>2. u.high = 0 /\ u.fin = 0 /\ Socket(u)
    BY <2>1 DEF SendEmptyPacket, Emit, CloseAndNotify, DeallocateEndPoint, Socket
  <2> HIDE DEF u
  <2> QED
    BY <2>2 DEF Socket
<1> HIDE DEF r
<1>7. Fit(r, q) /\ Stage(r, q) /\ Fit(q, r) /\ Stage(q, r)
  BY <1>3, <1>5, <1>6, OpeningFits
<1> QED
  BY <1>2, <1>7 DEF Fitness, Ends, Peer

LEMMA CompleteForkFitness ==
    ASSUME AllGood, AllGood', Delivery, Delivery', Fitness, CompleteFork
    PROVE  Fitness'
<1> DEFINE s == sock["server"]
           c == sock["client"]
           n == NewSocket("server")
           t == [n EXCEPT !.state = "SYN_RCVD", !.bound = TRUE, !.rx = 1,
                          !.synCount = SynRetries, !.dataRetrCount = DataRetries,
                          !.shutdownSend = sink, !.closeOnEmpty = sink, !.out = s.out]
           u == SendEmptyPacket(t, "SYNACK")
<1>1. /\ Good(c) /\ Own(c, FALSE) /\ Fit(c, s) /\ Stage(c, s)
      /\ s.high = 0 /\ ~s.bound /\ c.rx <= 1 /\ c.head = 1
  BY DEF AllGood, Delivery, Ends, Fitness, Peer, CompleteFork, Handshake, Early
<1>2. Becomes("server", u)
  BY <1>1 DEF CompleteFork
<1>3. sock'["server"] = u /\ sock'["client"] = c
  BY <1>2 DEF Becomes, AllGood, Ends
<1>4. Typed(u) /\ Own(u, FALSE) /\ Typed(c)
  BY <1>1, <1>3 DEF AllGood, Good, Delivery, Ends
<1> HIDE DEF s, c
<1>5. u.high = 0 /\ u.fin = 0 /\ u.rx = 1
  <2>1. Socket(n) /\ n.high = 0 /\ n.fin = 0
    BY NewSocketGood DEF NewSocket, Good
  <2> HIDE DEF n
  <2>2. Socket(t) /\ t.high = 0 /\ t.fin = 0 /\ t.rx = 1
    BY <2>1 DEF Socket
  <2> HIDE DEF t
  <2> QED
    BY <2>2 DEF SendEmptyPacket, Emit, CloseAndNotify, DeallocateEndPoint, Socket
<1> HIDE DEF u
<1>6. Fit(u, c) /\ Stage(u, c)
  <2>1. u.state = "SYN_RCVD" => u.rx >= 1
    BY <1>5
  <2> QED
    BY <1>4, <1>5, <2>1, OpeningFits
<1>7. c.fin = 0
  BY <1>1 DEF Fit, Near
<1>8. c.rx \in Nat /\ c.high \in Nat /\ c.next \in Nat
  BY <1>4 DEF Typed
<1>9. c.next > c.high => c.high = 0
  BY <1>1, <1>8 DEF Fit, Marks
<1>10. c.high = 0 => c.retx # "FIN" /\ c.state # "FIN_WAIT_1"
  BY <1>1 DEF Own, Fields, Opening
<1>11. Near(c, u)
  <2>1. c.rx <= u.high + 1 /\ c.fin <= u.high + 1
    BY <1>1, <1>5, <1>7, <1>8
  <2> QED
    BY <1>1, <1>7, <2>1 DEF Near
<1>12. Lasting(c, u) /\ Stage(c, u)
  BY <1>1, <1>9, <1>10 DEF Lasting, Stage, InStep, FinAcked
<1>13. Fresh(c, u)
  <2> SUFFICES ASSUME NEW i \in DOMAIN c.out PROVE FreshPacket(c, u, c.out[i])
    BY DEF Fresh
  <2>1. c.out \in Seq(Packets)
    BY <1>4 DEF Typed
  <2>2. c.out[i] \in Packets
    BY <2>1
  <2>3. PacketOwn(c, FALSE, c.out[i]) /\ FreshPacket(c, s, c.out[i])
    BY <1>1 DEF Own, Sent, Fit, Fresh
  <2>4. c.out[i].ack <= 1
    BY <1>1, <1>8, <2>2, <2>3 DEF PacketOwn, Packets
  <2>5. ~(c.head >= 2)
    BY <1>1
  <2> QED
    BY <2>3, <2>4, <2>5, Zenon DEF FreshPacket
<1>14. Fit(c, u)
  BY <1>1, <1>11, <1>12, <1>13 DEF Fit
<1> QED
  BY <1>3, <1>6, <1>12, <1>14 DEF Fitness, Ends, Peer

LEMMA StepFitness ==
    AllGood /\ AllGood' /\ Delivery /\ Delivery' /\ Fitness /\ [Next]_vars => Fitness'
<1> SUFFICES ASSUME AllGood, AllGood', Delivery, Delivery', Fitness, [Next]_vars
             PROVE  Fitness'
  OBVIOUS
<1>1. CASE UNCHANGED vars
  <2>1. sock' = sock
    BY <1>1 DEF vars
  <2> QED
    BY <2>1 DEF Fitness
<1>2. CASE Next
  BY <1>2, ConnectFitness, CompleteForkFitness, ArrivalKeepsFitness, ApplicationKeepsFitness,
     TimerKeepsFitness DEF Next
<1> QED
  BY <1>1, <1>2

\* Types: however often a FIN is repeated, accepted twice or acknowledged twice,
\* it moves the sequence numbers of its sender and of its receiver by one at most.
THEOREM TypesKept == Spec => []TypeOK
<1>1. Inv /\ Fitness => TypeOK
  <2> SUFFICES ASSUME Inv, Fitness PROVE TypeOK
    OBVIOUS
  <2>1. ASSUME NEW e \in Ends
        PROVE  /\ sock[e].next \in 0 .. 4 /\ sock[e].high \in 0 .. 2
               /\ sock[e].high <= sock[e].next
               /\ sock[e].head <= sock[e].tail /\ Size(sock[e]) \in 0 .. 1
               /\ sock[e].rx \in 0 .. 4 /\ sock[e].fin \in 0 .. 3 /\ Typed(sock[e])
    <3> DEFINE s == sock[e]
               x == Peer(e)
               q == sock[x]
    <3>1. /\ Typed(s) /\ Typed(q) /\ Fields(s, FALSE) /\ Marks(s) /\ Near(s, q) /\ Marks(q)
      BY EndsArePeers DEF Inv, AllGood, Good, Delivery, Own, Fitness, Fit
    <3> HIDE DEF s, q
    <3>2. /\ s.next \in Nat /\ s.high \in Nat /\ s.head \in Nat /\ s.tail \in Nat
          /\ s.rx \in Nat /\ s.fin \in Nat /\ q.high \in Nat
      BY <3>1 DEF Typed
    <3>3. s.high <= s.next /\ s.next <= s.high + 1 /\ s.high <= 2 /\ q.high <= 2
      BY <3>1 DEF Marks
    <3>4. s.rx <= q.high + 2 /\ s.fin <= q.high + 1
      <4>1. /\ s.rx <= q.high + 1 \/ s.rx <= q.high + 2
            /\ s.fin <= q.high + 1
        BY <3>1, Zenon DEF Near
      <4> QED
        BY <3>2, <4>1
    <3>5. (s.head = 1 /\ s.tail \in {1, 2}) \/ s.head = s.tail
      BY <3>1 DEF Fields
    <3>6. /\ s.next \in 0 .. 4 /\ s.high \in 0 .. 2 /\ s.high <= s.next
          /\ s.head <= s.tail /\ s.tail - s.head \in 0 .. 1
          /\ s.rx \in 0 .. 4 /\ s.fin \in 0 .. 3
      BY <3>2, <3>3, <3>4, <3>5
    <3> QED
      BY <3>1, <3>6 DEF Size, s
  <2>2. sink \in BOOLEAN /\ forking \in BOOLEAN /\ losses \in 0 .. MaxLoss
    BY DEF Inv, AllGood
  <2> QED
    BY <2>1, <2>2 DEF TypeOK, Typed
<1>2. Init => Inv /\ Fitness
  BY InitGood, InitDelivery, InitFitness DEF Inv
<1>3. Inv /\ Fitness /\ [Next]_vars => (Inv /\ Fitness)'
  BY StepGood, StepDelivery, StepFitness DEF Inv
<1> QED
  BY <1>1, <1>2, <1>3, PTL DEF Spec
=============================================================================
