---------------------- MODULE TcpConnectionReleaseProofs ----------------------
(***************************************************************************)
(* How the sockets of TcpConnection go, for all of its constants: once     *)
(* both ends were connected, data that Send accepted are not let go of     *)
(* undelivered, unless a packet was lost, retries were used up or data     *)
(* were read late.                                                         *)
(***************************************************************************)
EXTENDS TcpConnectionProofs

----------------------------------------------------------------------------
(* Letting go.  A socket that is gone leaves nothing of its own behind that *)
(* was neither delivered nor is under way, nor of its peer; how a socket    *)
(* can go is a matter of every handler.                                     *)

\* What holds of a socket by itself; c says that Close is under way, see FinDue.
Shape(s, c) ==
    /\ s.state = "CLOSED" => ~s.bound
    /\ s.bound \/ (s.retx = "none" /\ ~s.lastAck)
    /\ s.unread => s.got /\ s.slow
    /\ s.got \/ s.state \in {"CLOSE_WAIT", "CLOSING", "LAST_ACK", "TIME_WAIT"} => s.rx >= 2
    /\ s.delAck \in {0, DelAckMax} \/ s.got
    /\ ~s.bound /\ s.high >= 1 =>
          s.state = "CLOSED" \/ c \/ Ended(s) \/ s.dataRetrCount = 0

Acks(p) == p.flags \in {"ACK", "FIN"}

\* What it has under way acknowledges more and more, and ends with an RST.
Climbing(s) ==
    \A i \in DOMAIN s.out :
        /\ Acks(s.out[i]) => s.out[i].ack >= 1 /\ s.out[i].ack <= s.rx
        /\ s.out[i].flags = "RST" => ~s.bound
        /\ \A j \in DOMAIN s.out : i < j =>
              /\ Acks(s.out[i]) /\ Acks(s.out[j]) => s.out[i].ack <= s.out[j].ack
              /\ s.out[i].flags = "RST" => s.out[j].len = 0

Tame(s, c) == Shape(s, c) /\ Climbing(s)

HasData(s) == \E i \in DOMAIN s.out : s.out[i].len = 1

\* Why a socket goes.
Exit(s) ==
    \/ s.unread \/ s.dataRetrCount = 0 \/ s.high = 0
    \/ s.rx >= 2 /\ (s.wrote => s.next >= 2)

\* More is under way.
Longer(s, u) ==
    /\ Len(s.out) <= Len(u.out)
    /\ \A i \in 1 .. Len(s.out) : u.out[i] = s.out[i]
    /\ \A i \in Len(s.out) + 1 .. Len(u.out) :
          /\ Acks(u.out[i]) => u.out[i].ack >= s.rx
          /\ s.high >= 1 => u.out[i].flags \notin {"SYN", "SYNACK"}

\* From s to u, with an ACK of k.
Moves(s, u, k) ==
    /\ Longer(s, u)
    /\ u.wrote = s.wrote /\ u.closed = s.closed /\ u.shutdownSend = s.shutdownSend
    /\ u.slow = s.slow /\ u.head \in {s.head, k} /\ (s.got => u.got)
    /\ s.rx <= u.rx /\ s.high <= u.high
    /\ u.bound => s.bound
    /\ u.next >= 2 => s.next >= 2 \/ HasData(u) \/ k >= 2
    /\ s.bound => u.bound \/ Exit(u)
    /\ ~s.bound => /\ s.unread => u.unread
                   /\ u.dataRetrCount = s.dataRetrCount /\ u.high = s.high /\ u.next = s.next

LEMMA LongerData ==
    ASSUME NEW s, NEW u, Typed(s), Typed(u), Longer(s, u), HasData(s)
    PROVE  HasData(u)
<1>1. s.out \in Seq(Packets) /\ u.out \in Seq(Packets)
  BY DEF Typed
<1>2. PICK i \in DOMAIN s.out : s.out[i].len = 1
  BY DEF HasData
<1>3. i \in 1 .. Len(s.out) /\ Len(s.out) <= Len(u.out) /\ Len(s.out) \in Nat /\ Len(u.out) \in Nat
  BY <1>1, <1>2 DEF Longer
<1>4. i \in DOMAIN u.out /\ u.out[i] = s.out[i]
  BY <1>1, <1>3 DEF Longer
<1> QED
  BY <1>2, <1>4 DEF HasData

LEMMA LongerTrans ==
    ASSUME NEW s, NEW t, NEW u, Typed(s), Typed(t), Typed(u), Longer(s, t), Longer(t, u),
           s.rx <= t.rx, s.high <= t.high
    PROVE  Longer(s, u)
<1>1. s.out \in Seq(Packets) /\ t.out \in Seq(Packets) /\ u.out \in Seq(Packets)
  BY DEF Typed
<1>2. Len(s.out) \in Nat /\ Len(t.out) \in Nat /\ Len(u.out) \in Nat
  BY <1>1
<1>3. Len(s.out) <= Len(t.out) /\ Len(t.out) <= Len(u.out)
  BY DEF Longer
<1>4. ASSUME NEW i \in 1 .. Len(s.out) PROVE u.out[i] = s.out[i]
  <2>1. i \in 1 .. Len(t.out)
    BY <1>2, <1>3
  <2> QED
    BY <2>1 DEF Longer
<1>5. ASSUME NEW i \in Len(s.out) + 1 .. Len(u.out)
      PROVE  /\ Acks(u.out[i]) => u.out[i].ack >= s.rx
             /\ s.high >= 1 => u.out[i].flags \notin {"SYN", "SYNACK"}
  <2>1. u.out[i] \in Packets
    BY <1>1, <1>2
  <2>2. CASE i <= Len(t.out)
    <3>1. i \in Len(s.out) + 1 .. Len(t.out) /\ i \in 1 .. Len(t.out)
      BY <1>2, <2>2
    <3>2. u.out[i] = t.out[i]
      BY <3>1 DEF Longer
    <3> QED
      BY <3>1, <3>2 DEF Longer
  <2>3. CASE ~(i <= Len(t.out))
    <3>1. i \in Len(t.out) + 1 .. Len(u.out)
      BY <1>2, <2>3
    <3>2. /\ Acks(u.out[i]) => u.out[i].ack >= t.rx
          /\ t.high >= 1 => u.out[i].flags \notin {"SYN", "SYNACK"}
      BY <3>1 DEF Longer
    <3>3. /\ u.out[i].ack \in Nat /\ s.rx \in Nat /\ t.rx \in Nat
          /\ s.high \in Nat /\ t.high \in Nat
      BY <2>1 DEF Packets, Typed
    <3>4. (u.out[i].ack >= t.rx => u.out[i].ack >= s.rx) /\ (s.high >= 1 => t.high >= 1)
      BY <3>3
    <3> QED
      BY <3>2, <3>4
  <2> QED
    BY <2>2, <2>3
<1>6. Len(s.out) <= Len(u.out)
  BY <1>2, <1>3
<1> QED
  BY <1>4, <1>5, <1>6 DEF Longer

LEMMA MovesTrans ==
    ASSUME NEW s, NEW t, NEW u, NEW k, Typed(s), Typed(t), Typed(u),
           Moves(s, t, k), Moves(t, u, k)
    PROVE  Moves(s, u, k)
<1>1. /\ s.rx \in Nat /\ t.rx \in Nat /\ u.rx \in Nat
      /\ s.high \in Nat /\ t.high \in Nat /\ u.high \in Nat
  BY DEF Typed
<1>2. s.rx <= t.rx /\ t.rx <= u.rx /\ s.high <= t.high /\ t.high <= u.high
  BY DEF Moves
<1>3. s.rx <= u.rx /\ s.high <= u.high /\ (t.rx >= 2 => u.rx >= 2)
  BY <1>1, <1>2
<1>4. Longer(s, u)
  BY <1>2, LongerTrans DEF Moves
<1>5. HasData(t) => HasData(u)
  BY LongerData DEF Moves
<1>6. ASSUME s.bound, ~t.bound PROVE Exit(u)
  BY <1>3, <1>6, Zenon DEF Moves, Exit
<1>7. s.bound => u.bound \/ Exit(u)
  BY <1>6, Zenon DEF Moves
<1>8. ~s.bound => /\ s.unread => u.unread
                  /\ u.dataRetrCount = s.dataRetrCount /\ u.high = s.high /\ u.next = s.next
  BY Zenon DEF Moves
<1> QED
  BY <1>3, <1>4, <1>5, <1>7, <1>8, Zenon DEF Moves

\* What is under way stays as it is,
LEMMA ClimbKept ==
    ASSUME NEW s, NEW u, Typed(s), Typed(u), Climbing(s), u.out = s.out, s.rx <= u.rx,
           u.bound => s.bound
    PROVE  Climbing(u) /\ Longer(s, u)
<1>1. s.out \in Seq(Packets)
  BY DEF Typed
<1>2. Longer(s, u)
  BY <1>1 DEF Longer
<1>3. ASSUME NEW i \in DOMAIN u.out, Acks(u.out[i])
      PROVE  u.out[i].ack >= 1 /\ u.out[i].ack <= u.rx
  <2>1. u.out[i] \in Packets
    BY <1>1
  <2>2. u.out[i].ack \in Nat /\ s.rx \in Nat /\ u.rx \in Nat
    BY <2>1 DEF Packets, Typed
  <2>3. u.out[i].ack >= 1 /\ u.out[i].ack <= s.rx
    BY <1>3 DEF Climbing
  <2> QED
    BY <2>2, <2>3
<1> QED
  BY <1>2, <1>3 DEF Climbing

\* or one more is sent.
LEMMA ClimbGrows ==
    ASSUME NEW s, NEW u, NEW q \in Packets, Typed(s), Typed(u), Climbing(s),
           u.out = Append(s.out, q), u.rx = s.rx, u.bound => s.bound,
           Acks(q) => q.ack = s.rx /\ s.rx >= 1,
           q.flags = "RST" => ~u.bound, s.bound \/ q.len = 0,
           s.high >= 1 => q.flags \notin {"SYN", "SYNACK"}
    PROVE  /\ Climbing(u) /\ Longer(s, u)
           /\ q.len = 1 => HasData(u)
<1>1. s.out \in Seq(Packets) /\ s.rx \in Nat
  BY DEF Typed
<1>2. /\ DOMAIN u.out = 1 .. Len(s.out) + 1 /\ DOMAIN s.out = 1 .. Len(s.out)
      /\ Len(u.out) = Len(s.out) + 1
      /\ u.out[Len(s.out) + 1] = q
      /\ \A i \in 1 .. Len(s.out) : u.out[i] = s.out[i]
      /\ Len(s.out) \in Nat
  BY <1>1
<1>3. Longer(s, u)
  <2>1. ASSUME NEW i \in Len(s.out) + 1 .. Len(u.out) PROVE u.out[i] = q
    BY <1>2
  <2>2. Acks(q) => q.ack >= s.rx
    BY <1>1
  <2> QED
    BY <1>2, <2>1, <2>2 DEF Longer
<1>4. ASSUME NEW i \in DOMAIN u.out
      PROVE  /\ Acks(u.out[i]) => u.out[i].ack >= 1 /\ u.out[i].ack <= u.rx
             /\ u.out[i].flags = "RST" => ~u.bound
  <2>1. CASE i \in 1 .. Len(s.out)
    BY <1>2, <2>1 DEF Climbing
  <2>2. CASE i = Len(s.out) + 1
    BY <1>1, <1>2, <2>2
  <2> QED
    BY <1>2, <2>1, <2>2
<1>5. ASSUME NEW i \in DOMAIN u.out, NEW j \in DOMAIN u.out, i < j
      PROVE  /\ Acks(u.out[i]) /\ Acks(u.out[j]) => u.out[i].ack <= u.out[j].ack
             /\ u.out[i].flags = "RST" => u.out[j].len = 0
  <2>1. i \in 1 .. Len(s.out) /\ u.out[i] = s.out[i]
    BY <1>2, <1>5
  <2>2. CASE j \in 1 .. Len(s.out)
    BY <1>2, <1>5, <2>1, <2>2 DEF Climbing
  <2>3. CASE j = Len(s.out) + 1
    BY <1>2, <2>1, <2>3 DEF Climbing
  <2> QED
    BY <1>2, <2>2, <2>3
<1>6. q.len = 1 => HasData(u)
  BY <1>2 DEF HasData
<1> QED
  BY <1>3, <1>4, <1>5, <1>6 DEF Climbing

\* What a handler makes of s.
Moved(s, u, c, k) == Tame(u, c) /\ Moves(s, u, k)

LEMMA MovedTrans ==
    ASSUME NEW s, NEW t, NEW u, NEW c, NEW k, Typed(s), Typed(t), Typed(u),
           Moved(s, t, c, k), Moved(t, u, c, k)
    PROVE  Moved(s, u, c, k)
BY MovesTrans DEF Moved

\* A change of other fields.
LEMMA FieldsMove ==
    ASSUME NEW s, NEW u, NEW c, NEW k, Typed(s), Typed(u), Climbing(s), Shape(u, c),
           /\ u.out = s.out /\ u.wrote = s.wrote /\ u.closed = s.closed
           /\ u.shutdownSend = s.shutdownSend /\ u.slow = s.slow /\ u.head = s.head /\ u.got = s.got
           /\ u.high = s.high /\ u.bound = s.bound /\ u.next = s.next /\ u.unread = s.unread
           /\ u.dataRetrCount = s.dataRetrCount,
           s.rx <= u.rx
    PROVE  Moved(s, u, c, k)
<1>1. Climbing(u) /\ Longer(s, u)
  BY ClimbKept
<1>2. s.high <= u.high
  BY DEF Typed
<1> QED
  BY <1>1, <1>2, Zenon DEF Moved, Tame, Moves

LEMMA MovedItself ==
    ASSUME NEW s, NEW c, NEW k, Typed(s), Tame(s, c)
    PROVE  Moved(s, s, c, k)
<1>1. s.rx <= s.rx
  BY DEF Typed
<1> QED
  BY <1>1, FieldsMove DEF Tame

LEMMA DeallocateMoves ==
    ASSUME NEW s, NEW c, NEW k, Socket(s), Typed(s), Tame(s, c), s.bound => Exit(s),
           s.high >= 1 => s.state = "CLOSED" \/ c \/ Ended(s) \/ s.dataRetrCount = 0
    PROVE  Moved(s, DeallocateEndPoint(s), c, k)
<1> DEFINE u == DeallocateEndPoint(s)
<1>1. Typed(u)
  BY DeallocateGood DEF Good
<1>2. /\ u.out = s.out /\ u.wrote = s.wrote /\ u.closed = s.closed
      /\ u.shutdownSend = s.shutdownSend /\ u.slow = s.slow /\ u.head = s.head /\ u.got = s.got
      /\ u.high = s.high /\ u.next = s.next /\ u.unread = s.unread
      /\ u.dataRetrCount = s.dataRetrCount /\ u.rx = s.rx /\ u.state = s.state
      /\ ~u.bound /\ u.retx = "none" /\ ~u.lastAck /\ u.delAck = 0
  BY DEF DeallocateEndPoint, Socket
<1> HIDE DEF u
<1>3. s.rx <= u.rx /\ s.high <= u.high
  BY <1>2 DEF Typed
<1>4. Climbing(u) /\ Longer(s, u)
  BY <1>1, <1>2, <1>3, ClimbKept DEF Tame
<1>5. Shape(u, c)
  BY <1>2 DEF Tame, Shape, Ended
<1>6. Exit(s) => Exit(u)
  BY <1>2, Zenon DEF Exit
<1> QED
  BY <1>2, <1>3, <1>4, <1>5, <1>6, Zenon DEF Moved, Tame, Moves, u

LEMMA CloseMoves ==
    ASSUME NEW s, NEW c, NEW k, Socket(s), Typed(s), Tame(s, c), s.bound => Exit(s)
    PROVE  Moved(s, CloseAndNotify(s), c, k)
<1> DEFINE u == CloseAndNotify(s)
<1>1. Typed(u)
  BY CloseGood DEF Good
<1>2. /\ u.out = s.out /\ u.wrote = s.wrote /\ u.closed = s.closed
      /\ u.shutdownSend = s.shutdownSend /\ u.slow = s.slow /\ u.head = s.head /\ u.got = s.got
      /\ u.high = s.high /\ u.next = s.next /\ u.unread = s.unread
      /\ u.dataRetrCount = s.dataRetrCount /\ u.rx = s.rx /\ u.state = "CLOSED"
      /\ ~u.bound /\ u.retx = "none" /\ ~u.lastAck /\ u.delAck = 0
  BY DEF CloseAndNotify, DeallocateEndPoint, Socket
<1> HIDE DEF u
<1>3. s.rx <= u.rx /\ s.high <= u.high
  BY <1>2 DEF Typed
<1>4. Climbing(u) /\ Longer(s, u)
  BY <1>1, <1>2, <1>3, ClimbKept DEF Tame
<1>5. Shape(u, c)
  BY <1>2 DEF Tame, Shape
<1>6. Exit(s) => Exit(u)
  BY <1>2, Zenon DEF Exit
<1> QED
  BY <1>2, <1>3, <1>4, <1>5, <1>6, Zenon DEF Moved, Tame, Moves, u

LEMMA EmitMoves ==
    ASSUME NEW s, NEW c, NEW k, Socket(s), Typed(s), Tame(s, c), NEW f \in Flags, f # "RST",
           s.bound, s.rx >= 1 \/ f \in {"SYN", "SYNACK"},
           s.high >= 1 => f \notin {"SYN", "SYNACK"}
    PROVE  Moved(s, Emit(s, f), c, k)
<1> DEFINE u == Emit(s, f)
           seq == IF f # "FIN" /\ s.state \in {"FIN_WAIT_1", "LAST_ACK", "CLOSING"}
                  THEN s.next + 1 ELSE s.next
           q == Packet(f, seq, s.rx, 0)
<1>1. Typed(u)
  BY EmitGood
<1>2. q \in Packets /\ q.flags = f /\ q.ack = s.rx /\ q.len = 0
  <2>1. seq \in Nat
    BY DEF Typed
  <2> HIDE DEF seq
  <2> QED
    BY <2>1 DEF Packet, Packets, Flags, Typed
<1>3. /\ u.out = Append(s.out, q) /\ u.wrote = s.wrote /\ u.closed = s.closed
      /\ u.shutdownSend = s.shutdownSend /\ u.slow = s.slow /\ u.head = s.head /\ u.got = s.got
      /\ u.high = s.high /\ u.next = s.next /\ u.unread = s.unread
      /\ u.dataRetrCount = s.dataRetrCount /\ u.rx = s.rx /\ u.state = s.state
      /\ u.bound = s.bound /\ u.delAck \in {0, s.delAck}
  BY DEF Emit, Socket
<1> HIDE DEF u, q
<1>4. s.rx <= u.rx /\ s.high <= u.high
  BY <1>3 DEF Typed
<1>5. Climbing(u) /\ Longer(s, u)
  BY <1>1, <1>2, <1>3, ClimbGrows DEF Tame, Acks
<1>6. Shape(u, c)
  BY <1>3 DEF Tame, Shape
<1> QED
  BY <1>3, <1>4, <1>5, <1>6, Zenon DEF Moved, Tame, Moves, u

LEMMA EmptyMoves ==
    ASSUME NEW s, NEW c, NEW k, Socket(s), Typed(s), Tame(s, c), NEW f \in Flags, f # "RST",
           s.rx >= 1 \/ f \in {"SYN", "SYNACK"}, f \in {"SYN", "SYNACK"} => s.high = 0
    PROVE  Moved(s, SendEmptyPacket(s, f), c, k)
<1> DEFINE r == SendEmptyPacket(s, f)
           n == s.synCount - 1
           t == [s EXCEPT !.synCount = n]
<1>1. CASE ~s.bound
  BY <1>1, MovedItself DEF SendEmptyPacket
<1>2. CASE s.bound /\ f \notin {"SYN", "SYNACK"}
  <2>1. r = Emit(s, f)
    BY <1>2 DEF SendEmptyPacket
  <2> QED
    BY <1>2, <2>1, EmitMoves
<1>3. CASE s.bound /\ f \in {"SYN", "SYNACK"} /\ s.synCount = 0
  <2>1. r = CloseAndNotify(s) /\ Exit(s)
    BY <1>3 DEF SendEmptyPacket, Exit
  <2> QED
    BY <2>1, CloseMoves
<1>4. CASE s.bound /\ f \in {"SYN", "SYNACK"} /\ s.synCount # 0
  <2>1. n \in 0 .. SynRetries
    BY <1>4, ConnectionAssumption, SMTT(30) DEF Typed
  <2>2. r = Emit(t, f)
    BY <1>4 DEF SendEmptyPacket, Socket
  <2> HIDE DEF n, r
  <2>3. Socket(t) /\ Typed(t)
    BY <2>1 DEF Socket, Typed
  <2>4. /\ t.out = s.out /\ t.wrote = s.wrote /\ t.closed = s.closed
        /\ t.shutdownSend = s.shutdownSend /\ t.slow = s.slow /\ t.head = s.head /\ t.got = s.got
        /\ t.high = s.high /\ t.next = s.next /\ t.unread = s.unread
        /\ t.dataRetrCount = s.dataRetrCount /\ t.rx = s.rx /\ t.state = s.state
        /\ t.bound = s.bound /\ t.delAck = s.delAck /\ t.retx = s.retx /\ t.lastAck = s.lastAck
    BY DEF Socket
  <2> HIDE DEF t
  <2>5. Shape(t, c)
    BY <2>4 DEF Tame, Shape, Ended
  <2>6. s.rx <= t.rx
    BY <2>4 DEF Typed
  <2>7. Moved(s, t, c, k)
    BY <2>3, <2>4, <2>5, <2>6, FieldsMove DEF Tame
  <2>8. t.bound /\ t.high = 0
    BY <1>4, <2>4
  <2>9. Moved(t, Emit(t, f), c, k) /\ Typed(Emit(t, f))
    BY <1>4, <2>3, <2>7, <2>8, EmitMoves, EmitGood DEF Moved
  <2> QED
    BY <2>2, <2>3, <2>7, <2>9, MovedTrans DEF r
<1> QED
  BY <1>1, <1>2, <1>3, <1>4

\* What is sent empty goes out at most once.
LEMMA RstMoves ==
    ASSUME NEW s, NEW c, NEW k, Good(s), Tame(s, c), s.bound => Exit(s),
           s.high >= 1 => s.state = "CLOSED" \/ c \/ Ended(s) \/ s.dataRetrCount = 0
    PROVE  Moved(s, SendRST(s), c, k)
<1> DEFINE r == SendRST(s)
           seq == IF s.state \in {"FIN_WAIT_1", "LAST_ACK", "CLOSING"}
                  THEN s.next + 1 ELSE s.next
           q == Packet("RST", seq, s.rx, 0)
<1>1. CASE ~s.bound
  <2>1. r = DeallocateEndPoint(s)
    BY <1>1 DEF SendRST, SendEmptyPacket
  <2> QED
    BY <1>1, <2>1, DeallocateMoves DEF Good
<1>2. CASE s.bound
  <2>1. Typed(r)
    BY RstGood DEF Good
  <2>2. q \in Packets /\ q.flags = "RST" /\ q.len = 0
    <3>1. seq \in Nat
      BY DEF Good, Typed
    <3> HIDE DEF seq
    <3> QED
      BY <3>1 DEF Packet, Packets, Flags, Good, Typed
  <2>3. r = DeallocateEndPoint(Emit(s, "RST"))
    BY <1>2 DEF SendRST, SendEmptyPacket
  <2>4. /\ r.out = Append(s.out, q) /\ r.wrote = s.wrote /\ r.closed = s.closed
        /\ r.shutdownSend = s.shutdownSend /\ r.slow = s.slow /\ r.head = s.head /\ r.got = s.got
        /\ r.high = s.high /\ r.next = s.next /\ r.unread = s.unread
        /\ r.dataRetrCount = s.dataRetrCount /\ r.rx = s.rx /\ r.state = s.state
        /\ ~r.bound /\ r.retx = "none" /\ ~r.lastAck /\ r.delAck = 0
    BY <2>3 DEF DeallocateEndPoint, Emit, Good, Socket
  <2> HIDE DEF r, q
  <2>5. s.rx <= r.rx /\ s.high <= r.high
    BY <2>4 DEF Good, Typed
  <2>6. Climbing(r) /\ Longer(s, r)
    BY <1>2, <2>1, <2>2, <2>4, ClimbGrows DEF Tame, Acks, Good
  <2>7. Shape(r, c)
    BY <2>4 DEF Tame, Shape, Ended
  <2>8. Exit(s) => Exit(r)
    BY <2>4, Zenon DEF Exit
  <2> QED
    BY <1>2, <2>4, <2>5, <2>6, <2>7, <2>8, Zenon DEF Moved, Tame, Moves, r
<1> QED
  BY <1>1, <1>2

LEMMA DataMoves ==
    ASSUME NEW s, NEW c, NEW k, Socket(s), Typed(s), Tame(s, c), NEW seq \in Nat,
           s.bound, s.rx >= 1, s.high >= 1
    PROVE  Moved(s, SendDataPacket(s, seq), c, k)
<1> DEFINE u == SendDataPacket(s, seq)
           last == s.closeOnEmpty /\ seq + 1 = s.tail
           q == Packet(IF last THEN "FIN" ELSE "ACK", seq, s.rx, 1)
<1>1. Typed(u)
  BY DataPacketGood DEF Good
<1>2. q \in Packets /\ q.flags \in {"ACK", "FIN"} /\ q.ack = s.rx /\ q.len = 1
  BY DEF Packet, Packets, Flags, Typed
<1>3. /\ u.out = Append(s.out, q) /\ u.wrote = s.wrote /\ u.closed = s.closed
      /\ u.shutdownSend = s.shutdownSend /\ u.slow = s.slow /\ u.head = s.head /\ u.got = s.got
      /\ u.unread = s.unread /\ u.rx = s.rx
      /\ u.bound = s.bound /\ u.delAck = 0
      /\ \/ u.state = s.state
         \/ u.state = "FIN_WAIT_1"
         \/ u.state = "LAST_ACK" /\ s.state = "CLOSE_WAIT"
  BY DEF SendDataPacket, Socket
<1>4. s.high <= u.high
  BY DEF SendDataPacket, Socket, Typed
<1> HIDE DEF u, q
<1>5. s.rx <= u.rx
  BY <1>3 DEF Typed
<1>6. Climbing(u) /\ Longer(s, u) /\ HasData(u)
  BY <1>1, <1>2, <1>3, ClimbGrows DEF Tame, Acks
<1>7. Shape(u, c)
  BY <1>3 DEF Tame, Shape
<1> QED
  BY <1>3, <1>4, <1>5, <1>6, <1>7, Zenon DEF Moved, Tame, Moves, u

LEMMA PendingMoves ==
    ASSUME NEW s, NEW c, NEW k, Good(s), Tame(s, c), s.rx >= 1, s.high >= 1
    PROVE  Moved(s, SendPendingData(s), c, k)
<1>1. s.next \in Nat
  BY DEF Good, Typed
<1> QED
  BY <1>1, DataMoves, MovedItself DEF SendPendingData, Good

LEMMA TimeWaitMoves ==
    ASSUME NEW s, NEW c, NEW k, Good(s), Tame(s, c), s.rx >= 2, s.bound \/ c \/ Ended(s)
    PROVE  Moved(s, TimeWait(s), c, k)
<1> DEFINE u == TimeWait(s)
<1>1. Typed(u)
  BY TimeWaitGood DEF Good
<1>2. /\ u.out = s.out /\ u.wrote = s.wrote /\ u.closed = s.closed
      /\ u.shutdownSend = s.shutdownSend /\ u.slow = s.slow /\ u.head = s.head /\ u.got = s.got
      /\ u.high = s.high /\ u.next = s.next /\ u.unread = s.unread
      /\ u.dataRetrCount = s.dataRetrCount /\ u.rx = s.rx /\ u.state = "TIME_WAIT"
      /\ u.bound = s.bound /\ u.delAck = 0 /\ u.retx = "none" /\ ~u.lastAck
  BY DEF TimeWait, Good, Socket
<1> HIDE DEF u
<1>3. s.rx <= u.rx
  BY <1>2 DEF Good, Typed
<1>4. Shape(u, c)
  BY <1>2 DEF Tame, Shape, Ended
<1> QED
  BY <1>1, <1>2, <1>3, <1>4, FieldsMove DEF Tame, Good, u

\* A change of state alone.
LEMMA StateMoves ==
    ASSUME NEW s, NEW c, NEW k, Good(s), Tame(s, c), s.bound \/ c \/ Ended(s), NEW x \in States,
           Typed([s EXCEPT !.state = x]),
           x # "CLOSED", x \in {"CLOSE_WAIT", "CLOSING", "LAST_ACK", "TIME_WAIT"} => s.rx >= 2
    PROVE  Moved(s, [s EXCEPT !.state = x], c, k)
<1> DEFINE u == [s EXCEPT !.state = x]
<1>1. /\ u.out = s.out /\ u.wrote = s.wrote /\ u.closed = s.closed
      /\ u.shutdownSend = s.shutdownSend /\ u.slow = s.slow /\ u.head = s.head /\ u.got = s.got
      /\ u.high = s.high /\ u.next = s.next /\ u.unread = s.unread
      /\ u.dataRetrCount = s.dataRetrCount /\ u.rx = s.rx /\ u.state = x
      /\ u.bound = s.bound /\ u.delAck = s.delAck /\ u.retx = s.retx /\ u.lastAck = s.lastAck
  BY DEF Good, Socket
<1>2. Typed(u)
  OBVIOUS
<1> HIDE DEF u
<1>3. s.rx <= u.rx
  BY <1>1 DEF Good, Typed
<1>4. Shape(u, c)
  BY <1>1 DEF Tame, Shape, Ended
<1> QED
  BY <1>1, <1>2, <1>3, <1>4, FieldsMove DEF Tame, Good, u

\* Close, of a socket past its handshake.
LEMMA DoCloseMoves ==
    ASSUME NEW s, NEW c \in BOOLEAN, NEW k, Good(s), Own(s, c), Opened(s), Tame(s, c),
           c \/ Ended(s), s.state # "SYN_RCVD", s.high >= 1 => s.rx >= 1
    PROVE  Moved(s, DoClose(s), c, k)
<1>1. CASE s.state \in {"ESTABLISHED", "CLOSE_WAIT"}
  <2> DEFINE t == SendEmptyPacket(s, "FIN")
             x == IF s.state = "ESTABLISHED" THEN "FIN_WAIT_1" ELSE "LAST_ACK"
  <2>1. s.high >= 1
    BY <1>1, ConnectedHigh
  <2>2. Good(t) /\ Moved(s, t, c, k)
    BY <2>1, EmptyPacketGood, EmptyMoves DEF Good, Flags
  <2>3. DoClose(s) = [t EXCEPT !.state = x]
    BY <1>1 DEF DoClose
  <2>4. t.rx = s.rx /\ (c \/ Ended(t))
    BY DEF SendEmptyPacket, Emit, CloseAndNotify, DeallocateEndPoint, Good, Socket, Ended
  <2> HIDE DEF t
  <2>5. x \in States /\ x # "CLOSED" /\ (s.state = "ESTABLISHED" => x = "FIN_WAIT_1")
    BY DEF States
  <2>6. x \in {"CLOSE_WAIT", "CLOSING", "LAST_ACK", "TIME_WAIT"} => t.rx >= 2
    BY <1>1, <2>4, <2>5 DEF Tame, Shape
  <2> HIDE DEF x
  <2>7. Typed([t EXCEPT !.state = x])
    BY <2>2, <2>5 DEF Good, Socket, Typed
  <2>8. Moved(t, [t EXCEPT !.state = x], c, k)
    BY <2>2, <2>4, <2>5, <2>6, <2>7, StateMoves DEF Moved
  <2> QED
    BY <2>2, <2>3, <2>7, <2>8, MovedTrans DEF Good
<1>2. CASE s.state \in {"SYN_SENT", "CLOSING"}
  <2> DEFINE t == SendRST(s)
  <2>1. Exit(s)
    <3>1. CASE s.state = "SYN_SENT"
      BY <3>1 DEF Opened, Exit
    <3>2. CASE s.state = "CLOSING"
      BY <3>2 DEF Tame, Shape, Own, Fields, FinStates, FinDue, Exit
    <3> QED
      BY <1>2, <3>1, <3>2
  <2>2. Good(t) /\ Moved(s, t, c, k) /\ ~t.bound
    <3>1. Good(t) /\ Moved(s, t, c, k)
      BY <2>1, RstGood, RstMoves
    <3>2. ~t.bound
      BY EmptyPacketGood DEF SendRST, DeallocateEndPoint, Good, Socket, Flags
    <3> QED
      BY <3>1, <3>2
  <2>3. DoClose(s) = CloseAndNotify(t)
    BY <1>2 DEF DoClose
  <2> HIDE DEF t
  <2>4. Moved(t, CloseAndNotify(t), c, k) /\ Typed(CloseAndNotify(t))
    BY <2>2, CloseMoves, CloseGood DEF Good, Moved
  <2> QED
    BY <2>2, <2>3, <2>4, MovedTrans DEF Good
<1>3. CASE s.state \notin {"ESTABLISHED", "CLOSE_WAIT", "SYN_SENT", "CLOSING", "SYN_RCVD"}
  <2>1. DoClose(s) = s
    BY <1>3 DEF DoClose
  <2> QED
    BY <2>1, MovedItself DEF Good
<1> QED
  BY <1>1, <1>2, <1>3

LEMMA CloseSocketMoves ==
    ASSUME NEW s, NEW c \in BOOLEAN, NEW k, Good(s), Own(s, c), Opened(s), Tame(s, c),
           c \/ Ended(s), s.state # "SYN_RCVD", s.high >= 1 => s.rx >= 1
    PROVE  Moved(s, CloseSocket(s), c, k)
<1>1. CASE s.unread
  <2>1. Exit(s)
    BY <1>1 DEF Exit
  <2> QED
    BY <1>1, <2>1, RstMoves DEF CloseSocket
<1>2. CASE ~s.unread /\ Unsent(s) > 0
  <2> DEFINE u == [s EXCEPT !.closeOnEmpty = TRUE]
  <2>1. CloseSocket(s) = u
    BY <1>2 DEF CloseSocket
  <2>2. Typed(u)
    BY DEF Good, Socket, Typed
  <2>3. /\ u.out = s.out /\ u.wrote = s.wrote /\ u.closed = s.closed
        /\ u.shutdownSend = s.shutdownSend /\ u.slow = s.slow /\ u.head = s.head /\ u.got = s.got
        /\ u.high = s.high /\ u.next = s.next /\ u.unread = s.unread
        /\ u.dataRetrCount = s.dataRetrCount /\ u.rx = s.rx /\ u.state = s.state
        /\ u.bound = s.bound /\ u.delAck = s.delAck /\ u.retx = s.retx /\ u.lastAck = s.lastAck
    BY DEF Good, Socket
  <2> HIDE DEF u
  <2>4. s.rx <= u.rx
    BY <2>3 DEF Good, Typed
  <2>5. Shape(u, c)
    BY <2>3 DEF Tame, Shape, Ended
  <2> QED
    BY <2>1, <2>2, <2>3, <2>4, <2>5, FieldsMove DEF Tame, Good
<1>3. CASE ~s.unread /\ ~(Unsent(s) > 0)
  BY <1>3, DoCloseMoves DEF CloseSocket
<1> QED
  BY <1>1, <1>2, <1>3

LEMMA SetFinMoves ==
    ASSUME NEW s, NEW c, NEW k, Good(s), Tame(s, c), NEW seq \in Nat
    PROVE  Moved(s, SetFinSequence(s, seq), c, k)
<1> DEFINE u == SetFinSequence(s, seq)
<1>1. Typed(u)
  BY SetFinGood DEF Good
<1>2. /\ u.out = s.out /\ u.wrote = s.wrote /\ u.closed = s.closed
      /\ u.shutdownSend = s.shutdownSend /\ u.slow = s.slow /\ u.head = s.head /\ u.got = s.got
      /\ u.high = s.high /\ u.next = s.next /\ u.unread = s.unread
      /\ u.dataRetrCount = s.dataRetrCount /\ u.state = s.state
      /\ u.bound = s.bound /\ u.delAck = s.delAck /\ u.retx = s.retx /\ u.lastAck = s.lastAck
      /\ u.rx \in {s.rx, s.rx + 1}
  BY DEF SetFinSequence, Good, Socket
<1> HIDE DEF u
<1>3. s.rx <= u.rx /\ (s.rx >= 2 => u.rx >= 2)
  BY <1>2 DEF Good, Typed
<1>4. Shape(u, c)
  BY <1>2, <1>3, Zenon DEF Tame, Shape, Ended
<1> QED
  BY <1>1, <1>2, <1>3, <1>4, FieldsMove DEF Tame, Good, u

\* DoPeerClose follows a FIN that was taken.
LEMMA DoPeerCloseMoves ==
    ASSUME NEW s, NEW k, Socket(s), Typed(s), Own(s, FALSE), Tame(s, FALSE), s.bound, s.high >= 1,
           s.rx >= 2
    PROVE  Moved(s, DoPeerClose(s), FALSE, k)
<1> DEFINE t == [s EXCEPT !.state = "CLOSE_WAIT"]
           u == IF s.shutdownSend THEN CloseSocket(t) ELSE SendEmptyPacket(t, "ACK")
           r == [u EXCEPT !.dataRetrCount = DataRetries, !.lastAck = TRUE]
<1>1. Socket(t) /\ Typed(t) /\ Own(t, FALSE) /\ Same(s, t)
  BY StateOwn DEF States, FinStates
<1>2. /\ Good(t) /\ t.state = "CLOSE_WAIT" /\ t.shutdownSend = s.shutdownSend /\ t.high >= 1
      /\ t.rx >= 2 /\ t.bound /\ t.rx >= 1
  <2>1. t.rx = s.rx /\ t.bound = s.bound
    BY DEF Socket
  <2>2. s.rx >= 1
    BY DEF Typed
  <2> QED
    BY <1>1, <2>1, <2>2 DEF Good, Guarded, Socket
<1>3. Moved(s, t, FALSE, k)
  <2> DEFINE z == t
  <2>1. /\ z.out = s.out /\ z.wrote = s.wrote /\ z.closed = s.closed
        /\ z.shutdownSend = s.shutdownSend /\ z.slow = s.slow /\ z.head = s.head /\ z.got = s.got
        /\ z.high = s.high /\ z.next = s.next /\ z.unread = s.unread
        /\ z.dataRetrCount = s.dataRetrCount /\ z.rx = s.rx /\ z.state = "CLOSE_WAIT"
        /\ z.bound = s.bound /\ z.delAck = s.delAck
    BY DEF Socket
  <2>2. Typed(z)
    BY <1>1
  <2> HIDE DEF z
  <2>3. s.rx <= z.rx
    BY <2>1 DEF Typed
  <2>4. Shape(z, FALSE)
    BY <2>1 DEF Tame, Shape, Ended
  <2>5. Moved(s, z, FALSE, k)
    BY <2>1, <2>2, <2>3, <2>4, FieldsMove DEF Tame
  <2> QED
    BY <2>5 DEF z
<1> HIDE DEF t
<1>4. Good(u)
  BY <1>2, CloseSocketGood, EmptyPacketGood DEF Good, Flags
<1>5. ASSUME s.shutdownSend PROVE Moved(t, u, FALSE, k)
  BY <1>1, <1>2, <1>3, <1>5, CloseSocketMoves DEF Moved, Ended, Opened
<1>6. ASSUME ~s.shutdownSend PROVE Moved(t, u, FALSE, k)
  BY <1>1, <1>2, <1>3, <1>6, EmptyMoves DEF Moved, Flags
<1>7. Moved(s, u, FALSE, k)
  BY <1>1, <1>3, <1>4, <1>5, <1>6, MovedTrans DEF Good
<1>8. u.state = "LAST_ACK" => u.bound
  <2>1. CASE s.shutdownSend
    <3>1. u = CASE t.unread -> SendRST(t)
                [] ~t.unread /\ Unsent(t) > 0 -> [t EXCEPT !.closeOnEmpty = TRUE]
                [] OTHER -> [SendEmptyPacket(t, "FIN") EXCEPT !.state = "LAST_ACK"]
      BY <1>2, <2>1 DEF CloseSocket, DoClose
    <3>2. SendRST(t).state = "CLOSE_WAIT"
      BY <1>2 DEF SendRST, SendEmptyPacket, Emit, DeallocateEndPoint, Socket, Good
    <3>3. [SendEmptyPacket(t, "FIN") EXCEPT !.state = "LAST_ACK"].bound
      BY <1>2 DEF SendEmptyPacket, Emit, Socket, Good
    <3>4. [t EXCEPT !.closeOnEmpty = TRUE].bound
      BY <1>2 DEF Socket, Good
    <3> HIDE DEF u
    <3> QED
      BY <3>1, <3>2, <3>3, <3>4
  <2>2. CASE ~s.shutdownSend
    BY <1>2, <2>2 DEF SendEmptyPacket, Emit, Socket, Good
  <2> QED
    BY <2>1, <2>2
<1> HIDE DEF u
<1>9. CASE u.state = "LAST_ACK"
  <2>1. DataRetries \in 0 .. DataRetries
    BY ConnectionAssumption
  <2>2. Typed(r) /\ /\ r.out = u.out /\ r.wrote = u.wrote /\ r.closed = u.closed
        /\ r.shutdownSend = u.shutdownSend /\ r.slow = u.slow /\ r.head = u.head /\ r.got = u.got
        /\ r.high = u.high /\ r.next = u.next /\ r.unread = u.unread
        /\ r.rx = u.rx /\ r.state = u.state
        /\ r.bound /\ r.delAck = u.delAck
    BY <1>4, <1>8, <1>9, <2>1 DEF Good, Socket, Typed
  <2>3. DoPeerClose(s) = r
    BY <1>9 DEF DoPeerClose, r, u, t
  <2> HIDE DEF r
  <2>4. u.rx <= r.rx /\ u.high <= r.high
    <3>1. u.rx \in Nat /\ u.high \in Nat /\ r.rx = u.rx /\ r.high = u.high
      BY <1>4, <2>2 DEF Good, Typed
    <3> QED
      BY <3>1
  <2>5. Climbing(r) /\ Longer(u, r)
    BY <1>4, <1>7, <1>8, <1>9, <2>2, <2>4, ClimbKept DEF Moved, Tame, Good
  <2>6. Shape(r, FALSE)
    BY <1>7, <1>9, <2>2 DEF Moved, Tame, Shape
  <2>7. Moved(u, r, FALSE, k)
    BY <1>8, <1>9, <2>2, <2>4, <2>5, <2>6, Zenon DEF Moved, Tame, Moves
  <2> QED
    BY <1>4, <1>7, <2>2, <2>3, <2>7, MovedTrans DEF Good
<1>10. CASE u.state # "LAST_ACK"
  BY <1>7, <1>10 DEF DoPeerClose, u, t
<1> QED
  BY <1>9, <1>10

\* Add: what is read late is read later.
LEMMA AddMoves ==
    ASSUME NEW s, NEW k, Good(s), Tame(s, FALSE), s.bound, s.rx >= 1, NEW p, Proper(p), p.len = 1
    PROVE  /\ Moved(s, Add(s, p), FALSE, k)
           /\ Add(s, p).bound
           /\ p.seq + p.len > s.rx => Add(s, p).got
<1> DEFINE u == Add(s, p)
           v == IF s.fin = 2 THEN 3 ELSE 2
           r == [s EXCEPT !.rx = v, !.got = TRUE, !.unread = s.slow]
<1>1. p \in Packets /\ p.seq = 1 /\ p.seq + p.len = 2 /\ s.rx \in Nat
  BY DEF Proper, Good, Typed
<1>2. CASE 2 <= s.rx
  <2>1. u = s /\ ~(2 > s.rx)
    BY <1>1, <1>2 DEF Add
  <2> QED
    BY <1>1, <2>1, MovedItself DEF Good
<1>3. CASE ~(2 <= s.rx)
  <2>1. u = r
    BY <1>1, <1>3 DEF Add
  <2>2. v \in Nat /\ v >= 2
    OBVIOUS
  <2>3. Typed(u)
    BY <1>1, AddGood DEF Good
  <2> HIDE DEF v, u
  <2>4. /\ r.out = s.out /\ r.wrote = s.wrote /\ r.closed = s.closed
        /\ r.shutdownSend = s.shutdownSend /\ r.slow = s.slow /\ r.head = s.head /\ r.got
        /\ r.high = s.high /\ r.next = s.next
        /\ r.dataRetrCount = s.dataRetrCount /\ r.rx = v /\ r.state = s.state
        /\ r.bound = s.bound /\ r.unread = s.slow
    BY DEF Good, Socket
  <2> HIDE DEF r
  <2>5. s.rx <= r.rx /\ s.high <= r.high /\ r.rx >= 2
    <3>1. s.high \in Nat
      BY DEF Good, Typed
    <3> QED
      BY <1>1, <1>3, <2>2, <2>4, <3>1
  <2>6. Climbing(r) /\ Longer(s, r)
    BY <2>1, <2>3, <2>4, <2>5, ClimbKept DEF Tame, Good
  <2>7. Shape(r, FALSE)
    BY <2>4, <2>5 DEF Tame, Shape
  <2>8. Moved(s, r, FALSE, k)
    BY <2>4, <2>5, <2>6, <2>7, Zenon DEF Moved, Tame, Moves
  <2> QED
    BY <2>1, <2>4, <2>8 DEF u
<1> QED
  BY <1>2, <1>3

LEMMA ReceivedDataMoves ==
    ASSUME NEW s, NEW k, Good(s), Own(s, FALSE), Tame(s, FALSE), s.bound, s.rx >= 1, s.high >= 1,
           NEW p, Proper(p), p.len = 1
    PROVE  /\ Moved(s, ReceivedData(s, p), FALSE, k)
           /\ p.flags = "FIN" => ReceivedData(s, p).bound
<1> DEFINE t == Add(s, p)
           u == ReceivedData(s, p)
<1>1. p \in Packets /\ p.seq = 1 /\ p.seq + p.len = 2 /\ s.rx \in Nat
  BY DEF Proper, Good, Typed
<1>2. Good(t) /\ Own(t, FALSE) /\ Takes(s, t, p) /\ t.high >= 1 /\ t.delAck = s.delAck
  BY <1>1, AddGood, AddOwn
<1>3. Moved(s, t, FALSE, k) /\ t.bound /\ (2 > s.rx => t.got)
  BY <1>1, AddMoves
<1>4. Good(u)
  BY <1>1, ReceivedDataGood
<1> HIDE DEF t
<1>5. t.rx >= 1
  BY <1>1, <1>2 DEF Takes, Good, Typed
<1>6. Good(SendEmptyPacket(t, "ACK")) /\ Moved(t, SendEmptyPacket(t, "ACK"), FALSE, k)
      /\ SendEmptyPacket(t, "ACK").bound
  <2>1. SendEmptyPacket(t, "ACK").bound
    BY <1>2, <1>3 DEF SendEmptyPacket, Emit, Good, Socket
  <2> QED
    BY <1>2, <1>3, <1>5, <2>1, EmptyPacketGood, EmptyMoves DEF Good, Flags, Moved
<1>7. CASE 2 <= s.rx
  <2>1. t = s
    BY <1>1, <1>7 DEF Add, t
  <2>2. u = SendEmptyPacket(s, "ACK")
    BY <1>1, <1>7 DEF ReceivedData
  <2> QED
    BY <1>6, <2>1, <2>2
<1>8. CASE ~(2 <= s.rx) /\ Finished(t) /\ p.flags # "FIN"
  <2>1. u = DoPeerClose(t)
    BY <1>1, <1>8 DEF ReceivedData, t
  <2>2. t.rx >= 2
    <3>1. t.fin \in Nat /\ t.rx \in Nat /\ t.fin # 0 /\ t.fin < t.rx
      BY <1>2, <1>8 DEF Finished, Good, Typed
    <3> QED
      BY <3>1
  <2>3. Moved(t, u, FALSE, k)
    BY <1>2, <1>3, <2>1, <2>2, DoPeerCloseMoves DEF Good, Moved
  <2> QED
    BY <1>2, <1>3, <1>4, <1>8, <2>3, MovedTrans DEF Good
<1>9. CASE ~(2 <= s.rx) /\ ~(Finished(t) /\ p.flags # "FIN")
  <2> DEFINE v == [t EXCEPT !.delAck = t.delAck + 1]
             b == t.rx > s.rx + p.len \/ s.delAck + 1 >= DelAckMax
  <2>1. u = IF b THEN SendEmptyPacket(t, "ACK") ELSE v
    BY <1>1, <1>2, <1>9 DEF ReceivedData, t
  <2> HIDE DEF b
  <2>2. CASE b
    BY <1>2, <1>3, <1>4, <1>6, <2>1, <2>2, MovedTrans DEF Good
  <2>3. CASE ~b
    <3>1. u = v
      BY <2>1, <2>3
    <3>2. Typed(v)
      BY <1>4, <3>1 DEF Good
    <3>3. /\ v.out = t.out /\ v.wrote = t.wrote /\ v.closed = t.closed
          /\ v.shutdownSend = t.shutdownSend /\ v.slow = t.slow /\ v.head = t.head /\ v.got = t.got
          /\ v.high = t.high /\ v.next = t.next /\ v.unread = t.unread
          /\ v.dataRetrCount = t.dataRetrCount /\ v.rx = t.rx /\ v.state = t.state
          /\ v.bound = t.bound
      BY <1>2 DEF Good, Socket
    <3> HIDE DEF v, u
    <3>4. t.rx <= v.rx
      BY <1>2, <3>3 DEF Good, Typed
    <3>5. t.got
      BY <1>1, <1>3, <1>9
    <3>6. Shape(v, FALSE)
      BY <1>3, <3>3, <3>5 DEF Moved, Tame, Shape
    <3>7. Moved(t, v, FALSE, k)
      BY <1>2, <1>3, <3>2, <3>3, <3>4, <3>6, FieldsMove DEF Moved, Tame, Good
    <3>8. Moved(s, v, FALSE, k)
      BY <1>2, <1>3, <3>2, <3>7, MovedTrans DEF Good
    <3> QED
      BY <1>3, <3>1, <3>3, <3>8 DEF u
  <2> QED
    BY <2>2, <2>3
<1> QED
  BY <1>7, <1>8, <1>9

LEMMA PeerCloseMoves ==
    ASSUME NEW s, NEW k, Good(s), Own(s, FALSE), Tame(s, FALSE), s.bound, s.rx >= 1, s.high >= 1,
           NEW p, Proper(p), p.flags = "FIN"
    PROVE  Moved(s, PeerClose(s, p), FALSE, k)
<1> DEFINE n == p.seq + p.len
           t == SetFinSequence(s, n)
           u == IF p.len > 0 THEN ReceivedData(t, p) ELSE t
           r == PeerClose(s, p)
<1>1. p \in Packets /\ p.len \in 0 .. 1 /\ p.seq \in Nat /\ n \in Nat
  BY DEF Proper, Packets
<1>2. CASE p.seq < s.rx
  <2>1. r = s
    BY <1>2 DEF PeerClose
  <2> QED
    BY <2>1, MovedItself DEF Good
<1>3. CASE ~(p.seq < s.rx)
  <2>1. Good(t) /\ Own(t, FALSE) /\ Moved(s, t, FALSE, k)
    <3> HIDE DEF t
    <3>1. n = p.seq + p.len
      OBVIOUS
    <3> HIDE DEF n
    <3> QED
      BY <1>1, <3>1, SetFinGood, SetFinOwn, SetFinMoves DEF t
  <2>2. t.bound /\ t.high = s.high /\ t.rx \in {s.rx, s.rx + 1}
    <3> HIDE DEF n
    <3> QED
      BY DEF t, SetFinSequence, Good, Socket
  <2> HIDE DEF t
  <2>3. t.rx >= 1 /\ t.high >= 1
    BY <2>2 DEF Good, Typed
  <2>4. Good(u) /\ Own(u, FALSE) /\ Moved(s, u, FALSE, k) /\ u.bound /\ u.high >= 1
    <3>1. CASE p.len > 0
      <4>1. p.len = 1
        BY <1>1, <3>1
      <4>2. Good(u) /\ Own(u, FALSE) /\ Moved(t, u, FALSE, k) /\ u.bound
        BY <1>1, <2>1, <2>2, <2>3, <3>1, <4>1, ReceivedDataGood, ReceivedDataOwn,
           ReceivedDataMoves DEF Moved
      <4> HIDE DEF u
      <4>3. u.high >= 1
        BY <2>1, <2>3, <4>2 DEF Moved, Moves, Good, Typed
      <4> QED
        BY <2>1, <4>2, <4>3, MovedTrans DEF Good
    <3>2. CASE ~(p.len > 0)
      BY <2>1, <2>2, <2>3, <3>2
    <3> QED
      BY <3>1, <3>2
  <2> HIDE DEF u
  <2>5. Finished(u) => u.rx >= 2
    BY <2>4 DEF Finished, Good, Typed
  <2>6. r = CASE ~Finished(u) -> u
              [] Finished(u) /\ u.state = "FIN_WAIT_1" -> [u EXCEPT !.state = "CLOSING"]
              [] OTHER -> DoPeerClose(u)
    BY <1>3 DEF PeerClose, u, t, n
  <2> HIDE DEF r
  <2>7. CASE ~Finished(u)
    BY <2>4, <2>6, <2>7 DEF r
  <2>8. CASE Finished(u) /\ u.state = "FIN_WAIT_1"
    <3> DEFINE v == [u EXCEPT !.state = "CLOSING"]
    <3>1. Typed(v)
      BY <2>4 DEF Good, Socket, Typed, States
    <3>2. Moved(u, v, FALSE, k)
      BY <2>4, <2>5, <2>8, <3>1, StateMoves DEF Moved, States
    <3>3. r = v
      BY <2>6, <2>8
    <3> HIDE DEF v
    <3> QED
      BY <2>4, <3>1, <3>2, <3>3, MovedTrans DEF Good, r
  <2>9. CASE Finished(u) /\ u.state # "FIN_WAIT_1"
    <3>1. r = DoPeerClose(u)
      BY <2>6, <2>9
    <3>2. Moved(u, r, FALSE, k) /\ Typed(r)
      BY <2>4, <2>5, <2>9, <3>1, DoPeerCloseMoves, DoPeerCloseGood DEF Good, Moved
    <3> QED
      BY <2>4, <3>2, MovedTrans DEF Good, r
  <2> QED
    BY <2>7, <2>8, <2>9
<1> QED
  BY <1>2, <1>3

LEMMA ProcessAckMoves ==
    ASSUME NEW s, Good(s), Tame(s, FALSE), s.bound, NEW k \in Nat
    PROVE  Moved(s, ProcessAck(s, k), FALSE, k) /\ ProcessAck(s, k).bound
<1> DEFINE u == ProcessAck(s, k)
<1>1. Typed(u)
  BY ProcessAckGood DEF Good
<1>2. /\ u.out = s.out /\ u.wrote = s.wrote /\ u.closed = s.closed
      /\ u.shutdownSend = s.shutdownSend /\ u.slow = s.slow /\ u.head \in {s.head, k}
      /\ u.got = s.got
      /\ u.high = s.high /\ u.unread = s.unread
      /\ u.rx = s.rx /\ u.state = s.state /\ u.bound = s.bound /\ u.delAck = s.delAck
      /\ u.next \in {s.next, k}
  BY DEF ProcessAck, NewAck, DiscardUpTo, Good, Socket
<1> HIDE DEF u
<1>3. s.rx <= u.rx /\ s.high <= u.high
  BY <1>2 DEF Good, Typed
<1>4. Climbing(u) /\ Longer(s, u)
  BY <1>1, <1>2, <1>3, ClimbKept DEF Tame, Good
<1>5. Shape(u, FALSE)
  BY <1>2 DEF Tame, Shape
<1>6. u.next >= 2 => s.next >= 2 \/ k >= 2
  BY <1>2
<1> QED
  BY <1>2, <1>3, <1>4, <1>5, <1>6, Zenon DEF Moved, Tame, Moves, u

LEMMA ReceivedAckMoves ==
    ASSUME NEW s, Good(s), Own(s, FALSE), Tame(s, FALSE), s.bound, s.rx >= 1, s.high >= 1,
           NEW p, Proper(p)
    PROVE  Moved(s, ReceivedAck(s, p), FALSE, p.ack)
<1> DEFINE t == ProcessAck(s, p.ack)
           u == IF p.len > 0 THEN ReceivedData(t, p) ELSE t
           r == ReceivedAck(s, p)
           k == p.ack
<1>1. p \in Packets /\ p.ack \in Nat /\ p.len \in 0 .. 1
  BY DEF Proper, Packets
<1>2. Good(t) /\ Own(t, FALSE) /\ Takes(s, t, p)
  BY <1>1, ProcessAckGood, ProcessAckOwn
<1>3. Moved(s, t, FALSE, k) /\ t.bound
  BY <1>1, ProcessAckMoves
<1> HIDE DEF t, k
<1>4. t.high >= 1 /\ t.rx >= 1
  BY <1>2 DEF Takes, Good, Typed
<1>5. Good(u) /\ Own(u, FALSE) /\ Moved(s, u, FALSE, k) /\ u.high >= 1 /\ u.rx >= 1
  <2>1. CASE p.len > 0
    <3>1. p.len = 1
      BY <1>1, <2>1
    <3>2. Good(u) /\ Own(u, FALSE) /\ Takes(t, u, p)
      BY <1>1, <1>2, <1>4, <2>1, <3>1, ReceivedDataGood, ReceivedDataOwn
    <3>3. Moved(t, u, FALSE, k)
      BY <1>2, <1>3, <1>4, <2>1, <3>1, ReceivedDataMoves DEF Moved
    <3> HIDE DEF u
    <3>4. u.high >= 1 /\ u.rx >= 1
      <4>1. t.high \in Nat /\ u.high \in Nat /\ t.rx \in Nat /\ u.rx \in Nat
        BY <1>2, <3>2 DEF Good, Typed
      <4>2. t.high <= u.high /\ t.rx <= u.rx
        BY <3>2 DEF Takes
      <4> QED
        BY <1>4, <4>1, <4>2
    <3> QED
      BY <1>2, <1>3, <3>2, <3>3, <3>4, MovedTrans DEF Good
  <2>2. CASE ~(p.len > 0)
    BY <1>2, <1>3, <1>4, <2>2
  <2> QED
    BY <2>1, <2>2
<1> HIDE DEF u
<1>6. Good(SendPendingData(u)) /\ Moved(u, SendPendingData(u), FALSE, k)
  BY <1>5, PendingDataGood, PendingMoves DEF Moved
<1>7. r = IF p.ack < s.head THEN u ELSE SendPendingData(u)
  BY DEF ReceivedAck, u, t
<1> QED
  BY <1>5, <1>6, <1>7, MovedTrans DEF Good, k

LEMMA SynMoves ==
    ASSUME NEW s, NEW k, Good(s), Own(s, FALSE), Tame(s, FALSE), s.high = 0, NEW p, Proper(p),
           p.flags \in {"SYN", "SYNACK"}
    PROVE  Moved(s, [s EXCEPT !.rx = p.seq + 1], FALSE, k)
<1> DEFINE u == [s EXCEPT !.rx = p.seq + 1]
<1>1. Typed(u) /\ s.rx <= u.rx
  BY SynOwn DEF Good, Takes
<1>2. ~(s.rx >= 2) /\ s.state \in {"CLOSED", "SYN_SENT", "SYN_RCVD"}
  BY DEF Own, Fields, Opening, Good, Typed
<1>3. /\ u.out = s.out /\ u.wrote = s.wrote /\ u.closed = s.closed
      /\ u.shutdownSend = s.shutdownSend /\ u.slow = s.slow /\ u.head = s.head /\ u.got = s.got
      /\ u.high = s.high /\ u.bound = s.bound /\ u.next = s.next /\ u.unread = s.unread
      /\ u.dataRetrCount = s.dataRetrCount /\ u.state = s.state /\ u.retx = s.retx
      /\ u.lastAck = s.lastAck /\ u.delAck = s.delAck
  BY DEF Good, Socket
<1> HIDE DEF u
<1>4. Shape(u, FALSE)
  BY <1>2, <1>3 DEF Tame, Shape, Ended
<1> QED
  BY <1>1, <1>3, <1>4, FieldsMove DEF Tame, Good, u

LEMMA ConnectedMoves ==
    ASSUME NEW s, NEW k, Good(s), Own(s, FALSE), Tame(s, FALSE), s.high = 0, s.bound
    PROVE  Moved(s, Connected(s), FALSE, k)
<1> DEFINE u == Connected(s)
<1>1. Typed(u)
  BY ConnectedGood DEF Good
<1>2. s.next = 0 /\ s.delAck = 0
  BY DEF Own, Fields, Opening
<1>3. /\ u.out = s.out /\ u.wrote = s.wrote /\ u.closed = s.closed
      /\ u.shutdownSend = s.shutdownSend /\ u.slow = s.slow /\ u.head = s.head /\ u.got = s.got
      /\ u.high = 1 /\ u.bound = s.bound /\ u.next = 1 /\ u.unread = s.unread
      /\ u.dataRetrCount = s.dataRetrCount /\ u.state = "ESTABLISHED" /\ u.rx = s.rx
      /\ u.delAck = s.delAck
  <2>1. u = [s EXCEPT !.state = "ESTABLISHED", !.retx = "none", !.next = 1, !.high = 1]
    BY <1>2 DEF Connected
  <2> HIDE DEF u
  <2> QED
    BY <2>1 DEF Good, Socket
<1> HIDE DEF u
<1>4. s.rx <= u.rx /\ s.high <= u.high /\ ~(u.next >= 2)
  BY <1>3 DEF Good, Typed
<1>5. Climbing(u) /\ Longer(s, u)
  BY <1>1, <1>3, <1>4, ClimbKept DEF Tame, Good
<1>6. Shape(u, FALSE)
  BY <1>2, <1>3 DEF Tame, Shape
<1> QED
  BY <1>3, <1>4, <1>5, <1>6, Zenon DEF Moved, Tame, Moves, u

LEMMA DelAckMoves ==
    ASSUME NEW s, NEW k, Good(s), Own(s, FALSE), Tame(s, FALSE), s.high >= 1
    PROVE  Moved(s, [s EXCEPT !.delAck = DelAckMax], FALSE, k)
<1> DEFINE u == [s EXCEPT !.delAck = DelAckMax]
<1>1. Typed(u)
  BY DelAckOwn DEF Good
<1>2. /\ u.out = s.out /\ u.wrote = s.wrote /\ u.closed = s.closed
      /\ u.shutdownSend = s.shutdownSend /\ u.slow = s.slow /\ u.head = s.head /\ u.got = s.got
      /\ u.high = s.high /\ u.bound = s.bound /\ u.next = s.next /\ u.unread = s.unread
      /\ u.dataRetrCount = s.dataRetrCount /\ u.state = s.state /\ u.retx = s.retx
      /\ u.lastAck = s.lastAck /\ u.delAck = DelAckMax /\ u.rx = s.rx
  BY DEF Good, Socket
<1> HIDE DEF u
<1>3. Shape(u, FALSE)
  BY <1>2 DEF Tame, Shape, Ended
<1>4. s.rx <= u.rx
  BY <1>2 DEF Good, Typed
<1> QED
  BY <1>1, <1>2, <1>3, <1>4, FieldsMove DEF Tame, Good, u

\* What the packet p acknowledges.
Ackd(p) == IF Acks(p) THEN p.ack ELSE 0

LEMMA SynSentMoves ==
    ASSUME NEW s, Good(s), Own(s, FALSE), Tame(s, FALSE), s.bound, s.state = "SYN_SENT",
           s.high = 0, NEW p, Proper(p), p.flags # "RST"
    PROVE  Moved(s, ProcessSynSent(s, p), FALSE, Ackd(p))
<1> DEFINE r == [s EXCEPT !.rx = p.seq + 1]
           c == Connected(r)
           a == SendEmptyPacket(c, "ACK")
           d == SendPendingData(a)
           v == [d EXCEPT !.delAck = DelAckMax]
           k == Ackd(p)
           u == ProcessSynSent(s, p)
<1> HIDE DEF k
<1>1. CASE p.flags = "SYNACK" /\ p.ack = s.next + 1
  <2>1. Good(r) /\ Own(r, FALSE) /\ r.high = 0 /\ Moved(s, r, FALSE, k)
    BY <1>1, SynOwn, SynMoves
  <2>2. u = v
    BY <1>1 DEF ProcessSynSent
  <2>3. r.bound /\ r.rx = 1
    BY <1>1 DEF Good, Socket, Proper
  <2> HIDE DEF r, u
  <2>4. Good(c) /\ Own(c, FALSE) /\ c.high = 1 /\ Moved(r, c, FALSE, k) /\ c.rx = 1
    BY <2>1, <2>3, ConnectedGood, ConnectedOwn, ConnectedMoves DEF Moved, Same
  <2> HIDE DEF c
  <2>5. Good(a) /\ Own(a, FALSE) /\ Moved(c, a, FALSE, k) /\ a.rx >= 1 /\ a.high >= 1
    <3>1. c.high >= 1 /\ c.rx >= 1
      BY <2>4
    <3>2. Good(a) /\ Own(a, FALSE) /\ Same(c, a)
      BY <2>4, <3>1, EmptyPacketGood, EmptyPacketOwn DEF Good, Flags, MayEmit
    <3>3. Moved(c, a, FALSE, k)
      BY <2>4, <3>1, EmptyMoves DEF Good, Flags, Moved
    <3> HIDE DEF a
    <3>4. a.rx >= 1 /\ a.high >= 1
      BY <2>4, <3>2 DEF Same, Good, Typed
    <3> QED
      BY <3>2, <3>3, <3>4
  <2> HIDE DEF a
  <2>6. Good(d) /\ Own(d, FALSE) /\ Moved(a, d, FALSE, k) /\ d.high >= 1
    <3>1. Good(d) /\ Own(d, FALSE) /\ Same(a, d)
      BY <2>5, PendingDataGood, PendingDataOwn
    <3>2. Moved(a, d, FALSE, k)
      BY <2>5, PendingMoves DEF Moved
    <3> HIDE DEF d
    <3>3. d.high >= 1
      BY <2>5, <3>1 DEF Same, Good, Typed
    <3> QED
      BY <3>1, <3>2, <3>3
  <2> HIDE DEF d
  <2>7. Good(v) /\ Moved(d, v, FALSE, k)
    BY <2>6, DelAckOwn, DelAckMoves DEF Moved
  <2> HIDE DEF v
  <2>8. Moved(s, c, FALSE, k)
    BY <2>1, <2>4, MovedTrans DEF Good
  <2>9. Moved(s, a, FALSE, k)
    BY <2>4, <2>5, <2>8, MovedTrans DEF Good
  <2>10. Moved(s, d, FALSE, k)
    BY <2>5, <2>6, <2>9, MovedTrans DEF Good
  <2> QED
    BY <2>2, <2>6, <2>7, <2>10, MovedTrans DEF Good, u, k
<1>2. CASE ~(p.flags = "SYNACK" /\ p.ack = s.next + 1)
  <2>1. u = s
    BY <1>2 DEF ProcessSynSent
  <2> QED
    BY <2>1, MovedItself DEF Good
<1> QED
  BY <1>1, <1>2

\* The connected socket keeps its old state while it takes a FIN.
LEMMA HalfOpen ==
    ASSUME NEW s, NEW k, Good(s), Own(s, FALSE), Tame(s, FALSE), s.high = 0, s.bound
    PROVE  LET d == [Connected(s) EXCEPT !.state = "SYN_RCVD"]
           IN  Good(d) /\ Own(d, FALSE) /\ Moved(s, d, FALSE, k) /\ d.high = 1 /\ d.bound
               /\ d.rx = s.rx /\ d.got = s.got /\ d.head = s.head
<1> DEFINE c == Connected(s)
           d == [c EXCEPT !.state = "SYN_RCVD"]
<1>1. Good(c) /\ Own(c, FALSE) /\ Same(s, c) /\ c.high = 1 /\ Moved(s, c, FALSE, k)
      /\ c.rx = s.rx /\ c.got = s.got /\ c.head = s.head
  BY ConnectedGood, ConnectedOwn, ConnectedMoves DEF Same
<1>2. c.bound
  BY DEF Connected, Good, Socket
<1> HIDE DEF c
<1>3. d.high = 1 /\ d.bound /\ d.rx = c.rx /\ d.wrote = c.wrote /\ Ended(d) = Ended(c)
      /\ d.out = c.out /\ Good(d) /\ d.got = c.got /\ d.head = c.head
  BY <1>1, <1>2 DEF Good, Socket, Typed, Guarded, States, Ended
<1>4. Fields(d, FALSE)
  BY <1>1 DEF Good, Socket, Own, Fields, FinDue, Ended, FinStates
<1>5. Moved(c, d, FALSE, k)
  BY <1>1, <1>2, <1>3, StateMoves DEF Moved, States, Good
<1> HIDE DEF d
<1>6. Sent(d, FALSE) /\ Ordered(d)
  <2>1. c.rx <= d.rx /\ c.high <= d.high
    BY <1>1, <1>3 DEF Good, Typed
  <2> QED
    BY <1>1, <1>3, <2>1, OutKept DEF Good, Own
<1>7. Moved(s, d, FALSE, k)
  BY <1>1, <1>3, <1>5, MovedTrans DEF Good
<1> QED
  BY <1>1, <1>3, <1>4, <1>6, <1>7 DEF Own, c, d

LEMMA SynRcvdMoves ==
    ASSUME NEW s, Good(s), Own(s, FALSE), Tame(s, FALSE), s.bound, s.state = "SYN_RCVD",
           s.high = 0, s.rx >= 1, NEW p, Proper(p), p.flags # "RST"
    PROVE  Moved(s, ProcessSynRcvd(s, p), FALSE, Ackd(p))
<1> DEFINE c == Connected(s)
           u == ProcessSynRcvd(s, p)
           k == Ackd(p)
<1> HIDE DEF k
<1>1. Good(c) /\ Own(c, FALSE) /\ Same(s, c) /\ c.high = 1 /\ Moved(s, c, FALSE, k) /\ c.rx = s.rx
  BY ConnectedGood, ConnectedOwn, ConnectedMoves DEF Same
<1>2. CASE p.flags = "ACK" /\ p.ack = s.next + 1
  <2> DEFINE d == [c EXCEPT !.delAck = DelAckMax]
  <2>1. u = ReceivedAck(d, p) /\ k = p.ack
    BY <1>2 DEF ProcessSynRcvd, k, Ackd, Acks
  <2>2. c.bound
    BY DEF Connected, Good, Socket
  <2> HIDE DEF c
  <2>3. Good(d) /\ Own(d, FALSE) /\ Moved(c, d, FALSE, k) /\ d.high >= 1 /\ d.bound /\ d.rx >= 1
    <3>1. c.high >= 1
      BY <1>1
    <3>2. Good(d) /\ Own(d, FALSE) /\ Moved(c, d, FALSE, k)
      BY <1>1, <3>1, DelAckOwn, DelAckMoves DEF Moved
    <3>3. d.high = c.high /\ d.bound = c.bound /\ d.rx = c.rx
      BY <1>1 DEF Good, Socket
    <3> QED
      BY <1>1, <2>2, <3>1, <3>2, <3>3
  <2> HIDE DEF d, u
  <2>4. p \in Packets
    BY DEF Proper
  <2>5. Good(u) /\ Moved(d, u, FALSE, k)
    BY <2>1, <2>3, <2>4, ReceivedAckGood, ReceivedAckMoves DEF Moved
  <2>6. Moved(s, d, FALSE, k)
    BY <1>1, <2>3, MovedTrans DEF Good
  <2>7. Moved(s, u, FALSE, k)
    BY <2>3, <2>5, <2>6, MovedTrans DEF Good
  <2> QED
    BY <2>7 DEF u, k
<1>3. CASE p.flags = "SYN"
  <2> DEFINE r == [s EXCEPT !.rx = p.seq + 1]
  <2>1. u = SendEmptyPacket(r, "SYNACK")
    BY <1>3 DEF ProcessSynRcvd
  <2>2. Good(r) /\ r.high = 0 /\ Moved(s, r, FALSE, k)
    BY <1>3, SynOwn, SynMoves
  <2> HIDE DEF r, u
  <2>3. Good(u) /\ Moved(r, u, FALSE, k)
    BY <2>1, <2>2, EmptyPacketGood, EmptyMoves DEF Good, Flags, Moved
  <2> QED
    BY <2>2, <2>3, MovedTrans DEF Good, u, k
<1>4. CASE p.flags = "FIN"
  <2> DEFINE d == [c EXCEPT !.state = "SYN_RCVD"]
  <2>1. u = IF p.seq = s.rx THEN PeerClose(d, p) ELSE s
    BY <1>4 DEF ProcessSynRcvd
  <2>2. Good(d) /\ Own(d, FALSE) /\ Moved(s, d, FALSE, k) /\ d.high = 1 /\ d.bound /\ d.rx = s.rx
    BY HalfOpen
  <2> HIDE DEF d, u, c
  <2>3. p \in Packets /\ d.high >= 1
    BY <2>2 DEF Proper
  <2>4. CASE p.seq = s.rx
    <3>1. u = PeerClose(d, p)
      BY <2>1, <2>4
    <3>2. Good(u) /\ Moved(d, u, FALSE, k)
      BY <1>4, <2>2, <2>3, <3>1, PeerCloseGood, PeerCloseMoves DEF Moved
    <3> QED
      BY <2>2, <3>2, MovedTrans DEF Good, u, k
  <2>5. CASE p.seq # s.rx
    BY <2>1, <2>5, MovedItself DEF Good, u
  <2> QED
    BY <2>4, <2>5
<1>5. CASE p.flags = "SYNACK" \/ (p.flags = "ACK" /\ p.ack # s.next + 1)
  <2> DEFINE t == SendRST(s)
  <2>1. u = CloseAndNotify(t)
    BY <1>5 DEF ProcessSynRcvd
  <2>2. Exit(s) /\ ~(s.high >= 1)
    BY DEF Exit
  <2>3. Good(t) /\ Moved(s, t, FALSE, k) /\ ~t.bound
    <3>1. Good(t) /\ Moved(s, t, FALSE, k)
      BY <2>2, RstGood, RstMoves
    <3>2. ~t.bound
      BY EmptyPacketGood DEF SendRST, DeallocateEndPoint, Good, Socket, Flags
    <3> QED
      BY <3>1, <3>2
  <2> HIDE DEF t
  <2>4. Moved(t, CloseAndNotify(t), FALSE, k) /\ Typed(CloseAndNotify(t))
    BY <2>3, CloseMoves, CloseGood DEF Good, Moved
  <2> QED
    BY <2>1, <2>3, <2>4, MovedTrans DEF Good, k
<1> QED
  BY <1>2, <1>3, <1>4, <1>5 DEF Proper, Packets, Flags

LEMMA EstablishedMoves ==
    ASSUME NEW s, Good(s), Own(s, FALSE), Tame(s, FALSE), s.bound, s.rx >= 1, s.high >= 1,
           NEW p, Proper(p), p.flags # "RST"
    PROVE  Moved(s, ProcessEstablished(s, p), FALSE, Ackd(p))
<1>1. Moved(s, s, FALSE, Ackd(p))
  BY MovedItself DEF Good
<1>2. Moved(s, SendEmptyPacket(s, "ACK"), FALSE, Ackd(p))
  BY EmptyMoves DEF Good, Flags
<1>3. p.flags = "ACK" => Moved(s, ReceivedAck(s, p), FALSE, Ackd(p))
  BY ReceivedAckMoves DEF Ackd, Acks
<1>4. p.flags = "FIN" => Moved(s, PeerClose(s, p), FALSE, Ackd(p))
  BY PeerCloseMoves
<1> QED
  BY <1>1, <1>2, <1>3, <1>4 DEF ProcessEstablished

LEMMA WaitForFinMoves ==
    ASSUME NEW s, Good(s), Own(s, FALSE), Tame(s, FALSE), s.bound, s.rx >= 1, s.high >= 1,
           NEW p, Proper(p), p.flags \in {"ACK", "FIN"}
    PROVE  Moved(s, WaitForFin(s, p), FALSE, Ackd(p))
<1> DEFINE t == ReceivedAck(s, p)
           f == SetFinSequence(t, p.seq)
           v == [t EXCEPT !.state = "FIN_WAIT_2"]
           k == Ackd(p)
<1>1. p \in Packets /\ p.seq \in Nat /\ k = p.ack
  BY DEF Proper, Packets, Ackd, Acks
<1>2. Good(t) /\ Own(t, FALSE) /\ Moved(s, t, FALSE, k)
  BY <1>1, ReceivedAckGood, ReceivedAckOwn, ReceivedAckMoves
<1> HIDE DEF t, k
<1>3. Moved(s, f, FALSE, k)
  <2>1. Typed(f) /\ Moved(t, f, FALSE, k)
    BY <1>1, <1>2, SetFinGood, SetFinMoves DEF Good, Moved
  <2> QED
    BY <1>2, <2>1, MovedTrans DEF Good
<1>4. t.state = "FIN_WAIT_1" => Moved(s, v, FALSE, k)
  <2> SUFFICES ASSUME t.state = "FIN_WAIT_1" PROVE Moved(s, v, FALSE, k)
    OBVIOUS
  <2>1. Ended(t)
    BY <1>2 DEF Own, Fields, FinStates, FinDue
  <2>2. Typed(v)
    BY <1>2 DEF Good, Socket, Typed, States
  <2>3. Moved(t, v, FALSE, k)
    BY <1>2, <2>1, <2>2, StateMoves DEF Moved, States
  <2> QED
    BY <1>2, <2>2, <2>3, MovedTrans DEF Good
<1> QED
  BY <1>2, <1>3, <1>4 DEF WaitForFin, FinWhileWaiting, t, k

LEMMA WaitMoves ==
    ASSUME NEW s, Good(s), Own(s, FALSE), Tame(s, FALSE), s.bound, s.rx >= 1, s.high >= 1,
           NEW p, Proper(p), p.flags # "RST"
    PROVE  Moved(s, ProcessWait(s, p), FALSE, Ackd(p))
<1> DEFINE t == WaitForFin(s, p)
           w == TimeWait(t)
           c == [t EXCEPT !.state = "CLOSING"]
           k == Ackd(p)
<1>1. CASE p.flags \in {"SYN", "SYNACK"}
  BY <1>1, MovedItself DEF ProcessWait, Good
<1>2. CASE p.flags \in {"ACK", "FIN"}
  <2>1. p \in Packets
    BY DEF Proper
  <2>2. Good(t) /\ Own(t, FALSE) /\ Moved(s, t, FALSE, k)
    BY <1>2, <2>1, WaitForFinGood, WaitForFinOwn, WaitForFinMoves DEF Handled
  <2> HIDE DEF t, k
  <2>3. ASSUME NEW v, Good(v), Moved(s, v, FALSE, k), v.rx >= 1
        PROVE  Moved(s, SendEmptyPacket(v, "ACK"), FALSE, k)
    <3>1. Good(SendEmptyPacket(v, "ACK"))
          /\ Moved(v, SendEmptyPacket(v, "ACK"), FALSE, k)
      BY <2>3, EmptyPacketGood, EmptyMoves DEF Good, Flags, Moved
    <3> QED
      BY <2>3, <3>1, MovedTrans DEF Good
  <2>4. Finished(t) => t.rx >= 2 /\ t.rx >= 1
    <3> SUFFICES ASSUME Finished(t) PROVE t.rx >= 2 /\ t.rx >= 1
      OBVIOUS
    <3>1. t.fin \in Nat /\ t.rx \in Nat
      BY <2>2 DEF Good, Typed
    <3>2. t.fin # 0 /\ t.fin < t.rx
      BY DEF Finished
    <3> QED
      BY <3>1, <3>2
  <2>5. t.state \in FinStates => Ended(t)
    BY <2>2 DEF Own, Fields, FinDue
  <2>6. t.state \in FinStates /\ Finished(t) => Moved(s, SendEmptyPacket(w, "ACK"), FALSE, k)
    <3> SUFFICES ASSUME t.state \in FinStates, Finished(t)
                 PROVE  Moved(s, SendEmptyPacket(w, "ACK"), FALSE, k)
      OBVIOUS
    <3>1. Good(w) /\ Moved(t, w, FALSE, k) /\ w.rx = t.rx
      <4>1. Good(w) /\ Moved(t, w, FALSE, k)
        BY <2>2, <2>4, <2>5, TimeWaitGood, TimeWaitMoves DEF Moved
      <4>2. w.rx = t.rx
        BY <2>2 DEF TimeWait, Good, Socket
      <4> QED
        BY <4>1, <4>2
    <3> HIDE DEF w
    <3>2. Moved(s, w, FALSE, k)
      BY <2>2, <3>1, MovedTrans DEF Good
    <3> QED
      BY <2>3, <2>4, <3>1, <3>2
  <2>7. t.state = "FIN_WAIT_1" /\ Finished(t) => Moved(s, SendEmptyPacket(c, "ACK"), FALSE, k)
    <3> SUFFICES ASSUME t.state = "FIN_WAIT_1", Finished(t)
                 PROVE  Moved(s, SendEmptyPacket(c, "ACK"), FALSE, k)
      OBVIOUS
    <3>1. Good(c) /\ c.rx = t.rx
      BY <2>2 DEF Good, Socket, Typed, Guarded, States
    <3>2. Moved(t, c, FALSE, k)
      BY <2>2, <2>4, <2>5, <3>1, StateMoves DEF Moved, States, FinStates, Good
    <3> HIDE DEF c
    <3>3. Moved(s, c, FALSE, k)
      BY <2>2, <3>1, <3>2, MovedTrans DEF Good
    <3> QED
      BY <2>3, <2>4, <3>1, <3>3
  <2> HIDE DEF c, w
  <2> QED
    BY <1>2, <2>2, <2>6, <2>7 DEF ProcessWait, FinStates, t, w, c, k
<1> QED
  BY <1>1, <1>2 DEF Proper, Packets, Flags

LEMMA ClosingMoves ==
    ASSUME NEW s, Good(s), Own(s, FALSE), Tame(s, FALSE), s.bound, s.high >= 1,
           s.state \in {"CLOSING", "LAST_ACK"}, NEW p, NEW k
    PROVE  Moved(s, ProcessClosing(s, p), FALSE, k) /\ Moved(s, ProcessLastAck(s, p), FALSE, k)
<1> DEFINE a == SendEmptyPacket(s, "ACK")
           t == SendRST(s)
<1>1. s.rx >= 2 /\ Ended(s) /\ Exit(s) /\ s.rx >= 1
  <2>1. s.rx >= 2 /\ Ended(s) /\ (s.wrote => s.next >= 2)
    BY DEF Tame, Shape, Own, Fields, FinStates, FinDue
  <2>2. s.rx >= 1
    BY <2>1 DEF Good, Typed
  <2> QED
    BY <2>1, <2>2 DEF Exit
<1>2. /\ Moved(s, s, FALSE, k) /\ Moved(s, CloseAndNotify(s), FALSE, k)
      /\ Moved(s, TimeWait(s), FALSE, k)
  BY <1>1, MovedItself, CloseMoves, TimeWaitMoves DEF Good
<1>3. Moved(s, CloseAndNotify(t), FALSE, k)
  <2>1. Good(t) /\ Moved(s, t, FALSE, k) /\ ~t.bound
    <3>1. Good(t) /\ Moved(s, t, FALSE, k)
      BY <1>1, RstGood, RstMoves
    <3>2. ~t.bound
      BY EmptyPacketGood DEF SendRST, DeallocateEndPoint, Good, Socket, Flags
    <3> QED
      BY <3>1, <3>2
  <2> HIDE DEF t
  <2>2. Moved(t, CloseAndNotify(t), FALSE, k) /\ Typed(CloseAndNotify(t))
    BY <2>1, CloseMoves, CloseGood DEF Good, Moved
  <2> QED
    BY <2>1, <2>2, MovedTrans DEF Good
<1>4. Moved(s, CloseAndNotify(a), FALSE, k)
  <2>1. Good(a) /\ Moved(s, a, FALSE, k) /\ a.wrote = s.wrote /\ a.next = s.next /\ a.rx = s.rx
    <3>1. Good(a) /\ Moved(s, a, FALSE, k)
      BY <1>1, EmptyPacketGood, EmptyMoves DEF Good, Flags
    <3>2. a.wrote = s.wrote /\ a.next = s.next /\ a.rx = s.rx
      BY DEF SendEmptyPacket, Emit, Good, Socket
    <3> QED
      BY <3>1, <3>2
  <2> HIDE DEF a
  <2>2. Exit(a)
    BY <1>1, <2>1 DEF Exit, Tame, Shape, Own, Fields, FinStates, FinDue
  <2>3. Moved(a, CloseAndNotify(a), FALSE, k) /\ Typed(CloseAndNotify(a))
    BY <2>1, <2>2, CloseMoves, CloseGood DEF Good, Moved
  <2> QED
    BY <2>1, <2>3, MovedTrans DEF Good
<1> QED
  BY <1>2, <1>3, <1>4 DEF ProcessClosing, ProcessLastAck

LEMMA DoForwardUpMoves ==
    ASSUME NEW s, Good(s), Own(s, FALSE), Opened(s), Tame(s, FALSE), s.bound,
           s.high >= 1 \/ s.state = "SYN_RCVD" => s.rx >= 1,
           NEW p, Proper(p), p.flags # "RST"
    PROVE  Moved(s, DoForwardUp(s, p), FALSE, Ackd(p))
<1>1. CASE s.state = "SYN_SENT"
  BY <1>1, SynSentMoves DEF DoForwardUp, Opened
<1>2. CASE s.state = "SYN_RCVD"
  BY <1>2, SynRcvdMoves DEF DoForwardUp, Opened
<1>3. ASSUME s.state \notin {"CLOSED", "SYN_SENT", "SYN_RCVD"} PROVE s.high >= 1 /\ s.rx >= 1
  BY <1>3, ConnectedHigh
<1>4. CASE s.state = "ESTABLISHED"
  BY <1>3, <1>4, EstablishedMoves DEF DoForwardUp
<1>5. CASE s.state \in {"FIN_WAIT_1", "FIN_WAIT_2", "CLOSE_WAIT"}
  BY <1>3, <1>5, WaitMoves DEF DoForwardUp
<1>6. CASE s.state \in {"CLOSING", "LAST_ACK"}
  BY <1>3, <1>6, ClosingMoves DEF DoForwardUp
<1>7. CASE s.state \in {"CLOSED", "TIME_WAIT"}
  BY <1>7, MovedItself DEF DoForwardUp, Good
<1> QED
  BY <1>1, <1>2, <1>4, <1>5, <1>6, <1>7 DEF Good, Typed, States

\* An RST ends the connection and is not answered.
LEMMA DoForwardUpRst ==
    ASSUME NEW s, NEW p, p.flags = "RST"
    PROVE  DoForwardUp(s, p) \in {s, CloseAndNotify(s)}
BY DEF DoForwardUp, ProcessSynSent, ProcessSynRcvd, ProcessEstablished, ProcessWait,
       ProcessClosing, ProcessLastAck

----------------------------------------------------------------------------
(* The two ends.  Conduct is the invariant: each end is Tame and plays its  *)
(* part in the handshake, no acknowledgement under way falls behind, and    *)
(* once both are connected no data that were accepted are lost (Tidy),      *)
(* unless what the theorem excepts has happened (Spoiled).                  *)

\* What a step of its own can make of a socket whose handshake is over,
Passes(s, u) ==
    /\ Longer(s, u)
    /\ Ended(s) => Ended(u)
    /\ u.slow = s.slow /\ u.head \in {s.head, 0} /\ (s.got => u.got)
    /\ s.rx <= u.rx /\ s.high <= u.high
    /\ u.bound => s.bound
    /\ u.next >= 2 => s.next >= 2 \/ HasData(u)
    /\ s.bound => u.bound \/ Exit(u)
    /\ ~s.bound => u.dataRetrCount = s.dataRetrCount /\ u.next = s.next
    /\ s.state = "CLOSED" => u.state = "CLOSED"
    /\ u.wrote => \/ s.wrote
                  \/ /\ u.next < 2 /\ ~Ended(s) /\ s.state # "CLOSED"
                     /\ u.bound \/ u.dataRetrCount = 0

\* and add to what it has under way: an ACK by itself only of data.
Sends(s, u) ==
    \/ u.out = s.out /\ u.next = s.next
    \/ \E x \in Packets :
          /\ u.out = Append(s.out, x)
          /\ x.flags = "ACK" /\ x.len = 0 => s.got
          /\ u.next = s.next \/ x.len = 1

Passed(s, u) == Tame(u, FALSE) /\ Passes(s, u) /\ Sends(s, u)

\* How far the handshake is: the ends send different packets in it.
Role(e, s) ==
    /\ e = "client" =>
        /\ \A i \in DOMAIN s.out : s.out[i].flags # "SYNACK"
        /\ s.high = 0 => s.state # "SYN_RCVD" /\ s.retx # "SYNACK"
    /\ e = "server" /\ s.high = 0 =>
        /\ \A i \in DOMAIN s.out : s.out[i].flags = "SYNACK"
        /\ s.retx # "SYN" /\ ~s.wrote

\* What is under way from q acknowledges at least what s knows acknowledged.
Ahead(s, q) == \A i \in DOMAIN q.out : Acks(q.out[i]) => s.head <= q.out[i].ack

\* Behind each ACK there are data.
Covered(s) ==
    \A i \in DOMAIN s.out : s.out[i].flags = "ACK" /\ s.out[i].len = 0 =>
        \E j \in DOMAIN s.out : i < j /\ s.out[j].len = 1
Covers(s) == s.wrote /\ s.next >= 2 => Covered(s)

\* Data that were accepted, neither delivered nor under way.
Owed(s, q) == s.wrote /\ ~q.got /\ ~HasData(s)

\* None are once they were sent or the socket is gone, nor has it left any of
\* its peer's behind.
Tidy(s, q) ==
    /\ s.next >= 2 \/ ~s.bound => ~Owed(s, q)
    /\ ~s.bound => s.got \/ (~q.wrote /\ (Ended(q) \/ q.state = "CLOSED"))

\* What lets a socket go with data: no retries left, or data read late.
Spoils(s) == (~s.bound /\ s.high >= 1 /\ s.dataRetrCount = 0) \/ (s.slow /\ s.got)
Spoiled == losses > 0 \/ \E e \in Ends : Spoils(sock[e])

\* Until the server is connected, the client keeps its own data behind the ACK
\* that would connect it.
Beginning ==
    sock["server"].high = 0 /\ sock["client"].high >= 1 =>
        /\ sock["client"].bound \/ sock["client"].dataRetrCount = 0
        /\ losses > 0 \/ Covers(sock["client"])

Conduct ==
    /\ \A e \in Ends :
        Tame(sock[e], FALSE) /\ Role(e, sock[e]) /\ Ahead(sock[e], sock[Peer(e)])
    /\ Beginning
    /\ \/ Spoiled
       \/ \E e \in Ends : sock[e].high = 0
       \/ \A e \in Ends : Tidy(sock[e], sock[Peer(e)])

LEMMA SpoilsKept ==
    ASSUME NEW s, NEW u, Typed(s), Typed(u), Passes(s, u), Spoils(s)
    PROVE  Spoils(u)
<1>1. s.high >= 1 => u.high >= 1
  <2>1. s.high <= u.high
    BY DEF Passes
  <2>2. s.high \in Nat /\ u.high \in Nat
    BY DEF Typed
  <2> QED
    BY <2>1, <2>2
<1> QED
  BY <1>1, Zenon DEF Passes, Spoils

\* A socket that went with retries left has settled with its peer.
LEMMA ExitSettles ==
    ASSUME NEW u, NEW q, Tame(u, FALSE), Exit(u), ~u.bound, u.high >= 1, ~Spoils(u),
           u.rx >= 2 => Settled(q, u)
    PROVE  (u.wrote => u.next >= 2) /\ Settled(q, u)
<1>1. ~(u.high = 0)
  OBVIOUS
<1> QED
  BY <1>1, Zenon DEF Exit, Tame, Shape, Spoils

\* What a step of its own makes of a socket owes its peer nothing new.
LEMMA LocalTidy ==
    ASSUME NEW s, NEW u, NEW q, Typed(s), Typed(u), Tame(u, FALSE), Passes(s, u), u.high >= 1,
           Tidy(s, q), Tidy(q, s), u.rx >= 2 => Settled(q, u), ~Spoils(u)
    PROVE  Tidy(u, q) /\ Tidy(q, u)
<1>1. HasData(s) => HasData(u)
  BY LongerData DEF Passes
<1>2. u.wrote => s.wrote \/ (~(u.next >= 2) /\ ~Ended(s) /\ s.state # "CLOSED" /\ u.bound)
  <2>1. u.next < 2 => ~(u.next >= 2)
    BY DEF Typed
  <2> QED
    BY <2>1, Zenon DEF Passes, Spoils
<1>3. u.next >= 2 => ~Owed(u, q)
  BY <1>1, <1>2, Zenon DEF Passes, Owed, Tidy
<1>4. ASSUME ~u.bound
      PROVE  ~Owed(u, q) /\ (u.got \/ (~q.wrote /\ (Ended(q) \/ q.state = "CLOSED")))
  <2>1. CASE s.bound
    <3>1. (u.wrote => u.next >= 2) /\ Settled(q, u)
      BY <1>4, <2>1, ExitSettles DEF Passes
    <3> QED
      BY <1>3, <3>1, Zenon DEF Settled, Owed
  <2>2. CASE ~s.bound
    BY <1>1, <1>2, <1>4, <2>2, Zenon DEF Passes, Owed, Tidy
  <2> QED
    BY <2>1, <2>2
<1>5. Tidy(q, u)
  BY <1>2, Zenon DEF Passes, Owed, Tidy
<1> QED
  BY <1>3, <1>4, <1>5, Zenon DEF Tidy

\* What is added acknowledges no less than the peer has had acknowledged.
LEMMA AheadGrows ==
    ASSUME NEW s, NEW u, NEW q, Typed(s), Typed(u), Typed(q), Tame(u, FALSE),
           Longer(s, u), q.head <= 1 \/ q.head <= s.rx, Ahead(q, s)
    PROVE  Ahead(q, u)
<1>0. s.out \in Seq(Packets) /\ u.out \in Seq(Packets)
  BY DEF Typed
<1> SUFFICES ASSUME NEW i \in DOMAIN u.out, Acks(u.out[i]) PROVE q.head <= u.out[i].ack
  BY DEF Ahead
<1>1. i \in 1 .. Len(u.out) /\ Len(u.out) \in Nat /\ Len(s.out) \in Nat
      /\ DOMAIN s.out = 1 .. Len(s.out)
  BY <1>0
<1>2. CASE i \in 1 .. Len(s.out)
  BY <1>1, <1>2 DEF Longer, Ahead
<1>3. CASE i \notin 1 .. Len(s.out)
  <2>1. i \in Len(s.out) + 1 .. Len(u.out)
    BY <1>1, <1>3
  <2>2. u.out[i].ack >= s.rx /\ u.out[i].ack >= 1
    BY <2>1 DEF Longer, Tame, Climbing
  <2>3. u.out[i] \in Packets
    BY <1>0
  <2>4. u.out[i].ack \in Nat /\ s.rx \in Nat /\ q.head \in Nat
    BY <2>3 DEF Packets, Typed
  <2> QED
    BY <2>2, <2>4
<1> QED
  BY <1>2, <1>3

LEMMA LocalAhead ==
    ASSUME NEW s, NEW u, NEW q, Typed(s), Typed(u), Typed(q), Tame(u, FALSE),
           Longer(s, u), u.head \in {s.head, 0}, q.head <= 1 \/ q.head <= s.rx,
           Ahead(s, q), Ahead(q, s)
    PROVE  Ahead(u, q) /\ Ahead(q, u)
<1>1. s.out \in Seq(Packets) /\ u.out \in Seq(Packets) /\ q.out \in Seq(Packets)
  BY DEF Typed
<1>2. Ahead(u, q)
  <2> SUFFICES ASSUME NEW i \in DOMAIN q.out, Acks(q.out[i]) PROVE u.head <= q.out[i].ack
    BY DEF Ahead
  <2>1. q.out[i] \in Packets
    BY <1>1
  <2>2. q.out[i].ack \in Nat
    BY <2>1 DEF Packets
  <2>3. s.head <= q.out[i].ack
    BY DEF Ahead
  <2> QED
    BY <2>2, <2>3
<1>3. Ahead(q, u)
  BY AheadGrows
<1> QED
  BY <1>2, <1>3

\* An ACK by itself goes out only before data, as long as none came in.
LEMMA LocalCovers ==
    ASSUME NEW s, NEW u, Typed(s), Typed(u), Passes(s, u), Sends(s, u), ~s.got, Covers(s)
    PROVE  Covers(u)
<1> SUFFICES ASSUME u.wrote, u.next >= 2 PROVE Covered(u)
  BY DEF Covers
<1>1. s.wrote
  <2>1. ~(u.next < 2)
    BY DEF Typed
  <2> QED
    BY <2>1, Zenon DEF Passes
<1>2. CASE u.out = s.out /\ u.next = s.next
  BY <1>1, <1>2 DEF Covers, Covered
<1>3. CASE ~(u.out = s.out /\ u.next = s.next)
  <2>1. PICK x \in Packets :
          /\ u.out = Append(s.out, x)
          /\ ~(x.flags = "ACK" /\ x.len = 0)
          /\ u.next = s.next \/ x.len = 1
    BY <1>3 DEF Sends
  <2>2. s.out \in Seq(Packets)
    BY DEF Typed
  <2> DEFINE n == Len(s.out)
  <2>3. /\ DOMAIN u.out = 1 .. n + 1 /\ DOMAIN s.out = 1 .. n /\ n \in Nat
        /\ u.out[n + 1] = x
        /\ \A i \in 1 .. n : u.out[i] = s.out[i]
    BY <2>1, <2>2
  <2> HIDE DEF n
  <2> SUFFICES ASSUME NEW i \in DOMAIN u.out, u.out[i].flags = "ACK", u.out[i].len = 0
               PROVE  \E j \in DOMAIN u.out : i < j /\ u.out[j].len = 1
    BY DEF Covered
  <2>4. i # n + 1
    BY <2>1, <2>3
  <2>5. i \in 1 .. n
    BY <2>3, <2>4
  <2>6. CASE x.len = 1
    <3>1. n + 1 \in DOMAIN u.out /\ i < n + 1
      BY <2>3, <2>5
    <3> QED
      BY <2>3, <2>6, <3>1
  <2>7. CASE u.next = s.next
    <3>1. PICK j \in DOMAIN s.out : i < j /\ s.out[j].len = 1
      BY <1>1, <2>3, <2>5, <2>7 DEF Covers, Covered
    <3>2. j \in DOMAIN u.out /\ u.out[j] = s.out[j]
      BY <2>3
    <3> QED
      BY <3>1, <3>2
  <2> QED
    BY <2>1, <2>6, <2>7
<1> QED
  BY <1>2, <1>3

\* A step of one socket whose handshake is not over,
LEMMA OpeningConduct ==
    ASSUME Inv, Inv', Conduct, NEW e \in Ends, NEW u, Becomes(e, u), losses' = losses,
           sock[e].high = 0, u.high = 0, Tame(u, FALSE), Role(e, u)
    PROVE  Conduct'
<1> DEFINE x == Peer(e)
           s == sock[e]
           q == sock[x]
<1>1. x \in Ends /\ x # e /\ Peer(x) = e /\ \A y \in Ends : y = e \/ y = x
  BY EndsArePeers
<1>2. sock'[e] = u /\ sock'[x] = q
  BY <1>1 DEF Becomes, Inv, AllGood
<1>3. /\ Typed(s) /\ Typed(u) /\ Own(s, FALSE) /\ Own(u, FALSE)
      /\ Tame(q, FALSE) /\ Role(x, q) /\ Ahead(s, q) /\ Ahead(q, s)
  BY <1>1, <1>2 DEF Inv, AllGood, Good, Delivery, Conduct
<1> HIDE DEF s, q
<1>4. s.head = 1 /\ u.head = 1
  BY <1>3 DEF Own, Fields, Opening, s
<1>5. Ahead(u, q)
  BY <1>3, <1>4 DEF Ahead
<1>6. Ahead(q, u)
  <2> SUFFICES ASSUME NEW i \in DOMAIN u.out, Acks(u.out[i]) PROVE q.head <= u.out[i].ack
    BY DEF Ahead
  <2>1. u.high >= 1
    BY <1>3 DEF Own, Sent, PacketOwn, Acks
  <2> QED
    BY <2>1
<1>7. Beginning'
  <2>1. CASE e = "client"
    <3>1. sock'["client"] = u /\ ~(u.high >= 1)
      BY <1>2, <2>1
    <3> QED
      BY <3>1 DEF Beginning
  <2>2. CASE e = "server"
    <3>1. sock'["client"] = sock["client"] /\ sock["server"].high = 0
      BY <1>1, <1>2, <2>2 DEF Ends, q
    <3> QED
      BY <3>1 DEF Beginning, Conduct
  <2> QED
    BY <2>1, <2>2 DEF Ends
<1>8. \E y \in Ends : sock'[y].high = 0
  BY <1>2
<1>9. \A y \in Ends : Tame(sock'[y], FALSE) /\ Role(y, sock'[y]) /\ Ahead(sock'[y], sock'[Peer(y)])
  <2>1. Tame(sock'[e], FALSE) /\ Role(e, sock'[e]) /\ Ahead(sock'[e], sock'[x])
    BY <1>2, <1>5
  <2>2. Tame(sock'[x], FALSE) /\ Role(x, sock'[x]) /\ Ahead(sock'[x], sock'[e])
    BY <1>2, <1>3, <1>6
  <2> QED
    BY <1>1, <2>1, <2>2
<1> QED
  BY <1>7, <1>8, <1>9 DEF Conduct

\* What a connected socket adds belongs to the connection.
LEMMA ConnectedRole ==
    ASSUME NEW e, NEW s, NEW u, Typed(s), Typed(u), Longer(s, u), Role(e, s), s.high >= 1,
           s.high <= u.high
    PROVE  Role(e, u) /\ u.high >= 1
<1>1. s.out \in Seq(Packets) /\ u.out \in Seq(Packets) /\ s.high \in Nat /\ u.high \in Nat
  BY DEF Typed
<1>2. u.high >= 1 /\ ~(u.high = 0)
  BY <1>1
<1>3. ASSUME e = "client", NEW i \in DOMAIN u.out PROVE u.out[i].flags # "SYNACK"
  <2>1. i \in 1 .. Len(u.out) /\ Len(u.out) \in Nat /\ Len(s.out) \in Nat
        /\ DOMAIN s.out = 1 .. Len(s.out)
    BY <1>1
  <2>2. CASE i \in 1 .. Len(s.out)
    BY <1>3, <2>1, <2>2 DEF Longer, Role
  <2>3. CASE i \notin 1 .. Len(s.out)
    <3>1. i \in Len(s.out) + 1 .. Len(u.out)
      BY <2>1, <2>3
    <3> QED
      BY <3>1 DEF Longer
  <2> QED
    BY <2>2, <2>3
<1> QED
  BY <1>2, <1>3 DEF Role

\* and of one that is connected.
LEMMA ConnectedConduct ==
    ASSUME Inv, Inv', Fitness, Fitness', Conduct, NEW e \in Ends, NEW u, Becomes(e, u),
           losses' = losses, sock[e].high >= 1, Passed(sock[e], u)
    PROVE  Conduct'
<1> DEFINE x == Peer(e)
           s == sock[e]
           q == sock[x]
<1>1. x \in Ends /\ x # e /\ Peer(x) = e /\ \A y \in Ends : y = e \/ y = x
  BY EndsArePeers
<1>2. sock'[e] = u /\ sock'[x] = q
  BY <1>1 DEF Becomes, Inv, AllGood
<1>3. /\ Typed(s) /\ Typed(u) /\ Typed(q) /\ Tame(q, FALSE) /\ Tame(s, FALSE)
      /\ Role(e, s) /\ Role(x, q) /\ Ahead(s, q) /\ Ahead(q, s)
      /\ Near(q, s) /\ Near(s, q)
  BY <1>1, <1>2 DEF Inv, AllGood, Good, Delivery, Conduct, Fitness, Fit
<1>4. Tame(u, FALSE) /\ Passes(s, u) /\ Sends(s, u)
  BY DEF Passed
<1>5. u.rx >= 2 => Settled(q, u)
  BY <1>1, <1>2 DEF Inv, Delivery, Settlement
<1>6. Near(u, q)
  BY <1>1, <1>2 DEF Fitness, Fit
<1> HIDE DEF s, q
<1>7. u.high >= 1 /\ Role(e, u)
  BY <1>3, <1>4, ConnectedRole DEF Passes, s
<1>8. Ahead(u, q) /\ Ahead(q, u)
  BY <1>3, <1>4, LocalAhead DEF Passes, Near
<1>9. \A y \in Ends : Tame(sock'[y], FALSE) /\ Role(y, sock'[y]) /\ Ahead(sock'[y], sock'[Peer(y)])
  <2>1. Tame(sock'[e], FALSE) /\ Role(e, sock'[e]) /\ Ahead(sock'[e], sock'[x])
    BY <1>2, <1>4, <1>7, <1>8
  <2>2. Tame(sock'[x], FALSE) /\ Role(x, sock'[x]) /\ Ahead(sock'[x], sock'[e])
    BY <1>2, <1>3, <1>8
  <2> QED
    BY <1>1, <2>1, <2>2
<1>10. Beginning'
  <2>1. CASE e = "client"
    <3>1. sock["client"] = s /\ sock["server"] = q /\ sock'["client"] = u /\ sock'["server"] = q
      BY <1>1, <1>2, <2>1 DEF Ends, s, q
    <3> SUFFICES ASSUME q.high = 0
                 PROVE  (u.bound \/ u.dataRetrCount = 0) /\ (losses > 0 \/ Covers(u))
      BY <3>1 DEF Beginning
    <3>2. (s.bound \/ s.dataRetrCount = 0) /\ (losses > 0 \/ Covers(s))
      BY <3>1 DEF Conduct, Beginning, s
    <3>3. ~(s.rx >= 2) /\ ~(u.rx >= 2)
      <4>1. (s.rx <= 1 \/ s.rx <= q.high) /\ (u.rx <= 1 \/ u.rx <= q.high)
        BY <1>3, <1>6 DEF Near
      <4>2. s.rx \in Nat /\ u.rx \in Nat
        BY <1>3 DEF Typed
      <4> QED
        BY <4>1, <4>2
    <3>4. ~s.got /\ ~u.got
      BY <1>3, <1>4, <3>3 DEF Tame, Shape
    <3>5. Covers(s) => Covers(u)
      BY <1>3, <1>4, <3>4, LocalCovers
    <3>6. u.bound \/ u.dataRetrCount = 0
      <4>1. ~(u.high = 0)
        BY <1>7
      <4>2. ~u.unread
        BY <1>4, <3>4 DEF Tame, Shape
      <4> QED
        BY <1>4, <3>2, <3>3, <4>1, <4>2, Zenon DEF Passes, Exit
    <3> QED
      BY <3>2, <3>5, <3>6
  <2>2. CASE e = "server"
    <3>1. sock'["server"] = u /\ ~(u.high = 0)
      BY <1>2, <1>7, <2>2
    <3> QED
      BY <3>1 DEF Beginning
  <2> QED
    BY <2>1, <2>2 DEF Ends
<1>11. CASE Spoiled
  <2>1. losses > 0 \/ Spoils(s) \/ Spoils(q)
    BY <1>1, <1>11, Zenon DEF Spoiled, s, q
  <2>2. Spoils(s) => Spoils(u)
    BY <1>3, <1>4, SpoilsKept
  <2>3. Spoiled'
    <3>1. losses > 0 => losses' > 0
      OBVIOUS
    <3>2. Spoils(sock'[e]) = Spoils(u) /\ Spoils(sock'[x]) = Spoils(q)
      BY <1>2
    <3> QED
      BY <1>1, <2>1, <2>2, <3>1, <3>2 DEF Spoiled
  <2> QED
    BY <1>9, <1>10, <2>3 DEF Conduct
<1>12. CASE \E y \in Ends : sock[y].high = 0
  <2>1. ~(s.high = 0)
    BY DEF s
  <2>2. sock'[x].high = 0
    BY <1>1, <1>2, <1>12, <2>1 DEF s, q
  <2> QED
    BY <1>1, <1>9, <1>10, <2>2 DEF Conduct
<1>13. CASE \A y \in Ends : Tidy(sock[y], sock[Peer(y)])
  <2>1. Tidy(s, q) /\ Tidy(q, s)
    BY <1>1, <1>13 DEF s, q
  <2>2. CASE Spoils(u)
    <3>1. Spoiled'
      BY <1>2, <2>2 DEF Spoiled
    <3> QED
      BY <1>9, <1>10, <3>1 DEF Conduct
  <2>3. CASE ~Spoils(u)
    <3>1. Tidy(u, q) /\ Tidy(q, u)
      BY <1>3, <1>4, <1>5, <1>7, <2>1, <2>3, LocalTidy
    <3>2. \A y \in Ends : Tidy(sock'[y], sock'[Peer(y)])
      BY <1>1, <1>2, <3>1
    <3> QED
      BY <1>9, <1>10, <3>2 DEF Conduct
  <2> QED
    BY <2>2, <2>3
<1> QED
  BY <1>11, <1>12, <1>13 DEF Conduct

----------------------------------------------------------------------------
(* Arrivals.                                                                *)

\* What is left of the sender q when its oldest packet, p, arrives.
Leaves(q, r, p) ==
    /\ Tame(r, FALSE)
    /\ r.got = q.got /\ r.high = q.high /\ r.wrote = q.wrote /\ r.next = q.next
    /\ r.bound = q.bound /\ r.slow = q.slow /\ r.dataRetrCount = q.dataRetrCount
    /\ r.state = q.state /\ r.head = q.head /\ Ended(r) = Ended(q)
    /\ \A e : Role(e, q) => Role(e, r)
    /\ \A e : Role(e, q) /\ e = "client" => p.flags # "SYNACK"
    /\ \A e : Role(e, q) /\ e = "server" /\ q.high = 0 => p.flags = "SYNACK"
    /\ \A s : Ahead(s, q) => Ahead(s, r)
    /\ \A s : Ahead(s, q) /\ Acks(p) => s.head <= p.ack
    /\ \A i \in DOMAIN r.out : Acks(p) /\ Acks(r.out[i]) => p.ack <= r.out[i].ack
    /\ Acks(p) => p.ack >= 1
    /\ p.flags = "RST" => ~q.bound /\ ~HasData(r)
    /\ HasData(q) => HasData(r) \/ p.len = 1
    /\ Covers(q) => Covers(r)
    /\ Covered(q) /\ p.flags = "ACK" /\ p.len = 0 => HasData(r)

LEMMA TailTame ==
    ASSUME NEW q, Good(q), Tame(q, FALSE), q.out # <<>>
    PROVE  Leaves(q, [q EXCEPT !.out = Tail(@)], Head(q.out))
<1> DEFINE n == Tail(q.out)
           r == [q EXCEPT !.out = n]
           p == Head(q.out)
<1>1. q.out \in Seq(Packets) /\ q.out # <<>>
  BY DEF Good, Typed
<1>2. /\ n \in Seq(Packets) /\ p \in Packets /\ p = q.out[1] /\ 1 \in DOMAIN q.out
      /\ \A i \in DOMAIN n : i + 1 \in DOMAIN q.out /\ n[i] = q.out[i + 1] /\ 1 < i + 1 /\ i \in Nat
      /\ \A i \in DOMAIN q.out : 
              \/ i = 1
              \/ i - 1 \in DOMAIN n /\ i = (i - 1) + 1 /\ n[i - 1] = q.out[i]
  BY <1>1
<1> HIDE DEF n, p
<1>3. /\ r.got = q.got /\ r.rx = q.rx /\ r.head = q.head /\ r.high = q.high /\ r.next = q.next
      /\ r.wrote = q.wrote /\ Ended(r) = Ended(q) /\ r.state = q.state /\ r.bound = q.bound
      /\ r.slow = q.slow /\ r.dataRetrCount = q.dataRetrCount /\ r.retx = q.retx
      /\ r.lastAck = q.lastAck /\ r.unread = q.unread /\ r.delAck = q.delAck
      /\ r.out = n
  BY DEF Good, Socket, Ended
<1> HIDE DEF r
<1>4. Shape(r, FALSE)
  BY <1>3 DEF Tame, Shape
<1>5. ASSUME NEW i \in DOMAIN n
      PROVE  /\ Acks(n[i]) => n[i].ack >= 1 /\ n[i].ack <= q.rx
             /\ n[i].flags = "RST" => ~q.bound
             /\ Acks(p) /\ Acks(n[i]) => p.ack <= n[i].ack
             /\ p.flags = "RST" => n[i].len = 0
  <2> DEFINE k == i + 1
  <2>1. k \in DOMAIN q.out /\ n[i] = q.out[k] /\ 1 < k
    BY <1>2
  <2> HIDE DEF k
  <2> QED
    BY <1>2, <2>1 DEF Tame, Climbing
<1>6. ASSUME NEW i \in DOMAIN n, NEW j \in DOMAIN n, i < j
      PROVE  /\ Acks(n[i]) /\ Acks(n[j]) => n[i].ack <= n[j].ack
             /\ n[i].flags = "RST" => n[j].len = 0
  <2> DEFINE k == i + 1
             l == j + 1
  <2>1. k \in DOMAIN q.out /\ n[i] = q.out[k] /\ l \in DOMAIN q.out /\ n[j] = q.out[l] /\ k < l
    BY <1>2, <1>6
  <2> HIDE DEF k, l
  <2> QED
    BY <2>1 DEF Tame, Climbing
<1>7. Climbing(r)
  BY <1>3, <1>5, <1>6 DEF Climbing
<1>8. /\ Acks(p) => p.ack >= 1
      /\ p.flags = "RST" => ~q.bound /\ ~HasData(r)
  <2>1. p.flags = "RST" => ~HasData(r)
    BY <1>3, <1>5 DEF HasData
  <2> QED
    BY <1>2, <2>1 DEF Tame, Climbing
<1>9. ASSUME NEW e
      PROVE  /\ Role(e, q) => Role(e, r)
             /\ Role(e, q) /\ e = "client" => p.flags # "SYNACK"
             /\ Role(e, q) /\ e = "server" /\ q.high = 0 => p.flags = "SYNACK"
  <2>1. Role(e, q) => Role(e, r)
    <3> SUFFICES ASSUME Role(e, q) PROVE Role(e, r)
      OBVIOUS
    <3>1. ASSUME NEW i \in DOMAIN n
          PROVE  /\ e = "client" => n[i].flags # "SYNACK"
                 /\ e = "server" /\ q.high = 0 => n[i].flags = "SYNACK"
      <4> DEFINE k == i + 1
      <4>1. k \in DOMAIN q.out /\ n[i] = q.out[k]
        BY <1>2
      <4> HIDE DEF k
      <4> QED
        BY <4>1 DEF Role
    <3> QED
      BY <1>3, <3>1 DEF Role
  <2> QED
    BY <1>2, <2>1 DEF Role
<1>10. ASSUME NEW s
       PROVE  /\ Ahead(s, q) => Ahead(s, r)
              /\ Ahead(s, q) /\ Acks(p) => s.head <= p.ack
  <2>1. ASSUME Ahead(s, q), NEW i \in DOMAIN n, Acks(n[i]) PROVE s.head <= n[i].ack
    <3> DEFINE k == i + 1
    <3>1. k \in DOMAIN q.out /\ n[i] = q.out[k]
      BY <1>2
    <3> HIDE DEF k
    <3> QED
      BY <2>1, <3>1 DEF Ahead
  <2> QED
    BY <1>2, <1>3, <2>1 DEF Ahead
<1>11. HasData(q) => HasData(r) \/ p.len = 1
  <2> SUFFICES ASSUME NEW i \in DOMAIN q.out, q.out[i].len = 1
               PROVE  HasData(r) \/ p.len = 1
    BY DEF HasData
  <2> DEFINE k == i - 1
  <2>1. i = 1 \/ (k \in DOMAIN n /\ n[k] = q.out[i])
    BY <1>2
  <2> HIDE DEF k
  <2> QED
    BY <1>2, <1>3, <2>1 DEF HasData
<1>12. Covered(q) => Covered(r) /\ (p.flags = "ACK" /\ p.len = 0 => HasData(r))
  <2> SUFFICES ASSUME Covered(q)
               PROVE  Covered(r) /\ (p.flags = "ACK" /\ p.len = 0 => HasData(r))
    OBVIOUS
  <2>1. ASSUME NEW i \in DOMAIN n, n[i].flags = "ACK", n[i].len = 0
        PROVE  \E j \in DOMAIN n : i < j /\ n[j].len = 1
    <3> DEFINE k == i + 1
    <3>1. k \in DOMAIN q.out /\ n[i] = q.out[k] /\ k = i + 1 /\ i \in Nat /\ 1 < k
      BY <1>2
    <3> HIDE DEF k
    <3>2. PICK l \in DOMAIN q.out : k < l /\ q.out[l].len = 1
      BY <2>1, <3>1 DEF Covered
    <3> DEFINE j == l - 1
    <3>3. l \in Nat
      BY <1>1, <3>2
    <3>4. l # 1 /\ i < j
      BY <3>1, <3>2, <3>3
    <3>5. j \in DOMAIN n /\ n[j] = q.out[l]
      BY <1>2, <3>2, <3>4
    <3> HIDE DEF j
    <3> QED
      BY <3>2, <3>4, <3>5
  <2>2. ASSUME p.flags = "ACK", p.len = 0 PROVE HasData(r)
    <3>1. PICK l \in DOMAIN q.out : 1 < l /\ q.out[l].len = 1
      BY <1>2, <2>2 DEF Covered
    <3> DEFINE j == l - 1
    <3>2. l # 1
      BY <1>1, <3>1
    <3>3. j \in DOMAIN n /\ n[j] = q.out[l]
      BY <1>2, <3>1, <3>2
    <3> HIDE DEF j
    <3> QED
      BY <1>3, <3>1, <3>3 DEF HasData
  <2> QED
    BY <1>3, <2>1, <2>2 DEF Covered
<1>13. Covers(q) => Covers(r)
  BY <1>3, <1>12, Zenon DEF Covers
<1>14. \A i \in DOMAIN r.out : Acks(p) /\ Acks(r.out[i]) => p.ack <= r.out[i].ack
  BY <1>3, <1>5
<1> QED
  <2>1. Tame(r, FALSE)
    BY <1>4, <1>7 DEF Tame
  <2> QED
    BY <1>3, <1>8, <1>9, <1>10, <1>11, <1>12, <1>13, <1>14, <2>1
       DEF r, p, n, Leaves

\* What holds of both ends is kept if the receiver takes data in,
LEMMA ArrivalTidy ==
    ASSUME NEW s, NEW u, NEW q, NEW r, NEW k, NEW p,
           Typed(s), Typed(u), Tame(s, FALSE), Tame(u, FALSE), Moves(s, u, k), u.high >= 1,
           k >= 2 => Settled(s, q), s.rx >= 2 => Settled(q, s),
           u.rx >= 2 => Settled(q, u),
           s.bound \/ u.state = s.state,
           p.len = 1 => u.got \/ s.rx >= 2 \/ ~s.bound,
           Leaves(q, r, p), Tidy(s, q), Tidy(q, s), ~Spoils(u)
    PROVE  Tidy(u, r) /\ Tidy(r, u)
<1> USE DEF Leaves
<1>1. HasData(s) => HasData(u)
  BY LongerData DEF Moves
<1>2. u.wrote = s.wrote /\ Ended(u) = Ended(s) /\ (s.got => u.got)
  BY Zenon DEF Moves, Ended
<1>3. u.next >= 2 => ~Owed(u, r)
  BY <1>1, <1>2, Zenon DEF Moves, Owed, Tidy, Settled
<1>4. ASSUME ~u.bound
      PROVE  ~Owed(u, r) /\ (u.got \/ (~r.wrote /\ (Ended(r) \/ r.state = "CLOSED")))
  <2>1. CASE s.bound
    <3>1. (u.wrote => u.next >= 2) /\ Settled(q, u)
      BY <1>4, <2>1, ExitSettles DEF Moves
    <3> QED
      BY <1>3, <3>1, Zenon DEF Settled, Owed
  <2>2. CASE ~s.bound
    BY <1>1, <1>2, <1>4, <2>2, Zenon DEF Moves, Owed, Tidy
  <2> QED
    BY <2>1, <2>2
<1>5. r.next >= 2 \/ ~r.bound => ~Owed(r, u)
  <2> SUFFICES ASSUME r.next >= 2 \/ ~r.bound, Owed(r, u) PROVE FALSE
    OBVIOUS
  <2>1. q.wrote /\ ~s.got /\ ~u.got /\ ~HasData(r)
    BY <1>2, Zenon DEF Owed
  <2>2. ~Owed(q, s)
    BY Zenon DEF Tidy
  <2>3. p.len = 1
    BY <2>1, <2>2, Zenon DEF Owed
  <2> QED
    BY <2>1, <2>3, Zenon DEF Settled, Tidy
<1>6. ~r.bound => r.got \/ (~u.wrote /\ (Ended(u) \/ u.state = "CLOSED"))
  <2>1. s.state = "CLOSED" => ~s.bound
    BY DEF Tame, Shape
  <2> QED
    BY <1>2, <2>1, Zenon DEF Tidy
<1> QED
  BY <1>3, <1>4, <1>5, <1>6, Zenon DEF Tidy

\* or if a socket that is gone resets it.
LEMMA ResetTidy ==
    ASSUME NEW s, NEW u, NEW q, NEW r,
           /\ u.wrote = s.wrote /\ u.got = s.got /\ Ended(u) = Ended(s)
           /\ u.state = "CLOSED" \/ u.state = s.state,
           NEW p \in Packets, p.len = 0, p.flags = "RST", Leaves(q, r, p),
           q.high >= 1, Tame(q, FALSE), ~Spoils(q), Tidy(q, s)
    PROVE  Tidy(u, r) /\ Tidy(r, u)
<1>0. /\ ~q.bound /\ ~HasData(q) /\ ~HasData(r)
      /\ r.got = q.got /\ r.wrote = q.wrote /\ r.bound = q.bound
      /\ r.state = q.state /\ Ended(r) = Ended(q)
  BY DEF Leaves
<1>1. q.got \/ (~s.wrote /\ (Ended(s) \/ s.state = "CLOSED"))
  BY <1>0, Zenon DEF Tidy
<1>2. ~q.wrote \/ s.got
  BY <1>0, Zenon DEF Tidy, Owed
<1>3. q.state = "CLOSED" \/ Ended(q)
  BY <1>0, Zenon DEF Tame, Shape, Spoils
<1> QED
  BY <1>0, <1>1, <1>2, <1>3, Zenon DEF Tidy, Owed

\* Data are taken in by whoever still waits for them.
LEMMA AckGets ==
    ASSUME NEW s, Good(s), Own(s, FALSE), s.high >= 1, ~(s.rx >= 2), NEW p, Proper(p), p.len = 1
    PROVE  ReceivedAck(s, p).got
<1> DEFINE u == ReceivedAck(s, p)
<1>1. p \in Packets
  BY DEF Proper
<1>2. Good(u) /\ Takes(s, u, p) /\ (2 <= u.rx \/ u.got)
  BY <1>1, ReceivedAckGood, ReceivedAckOwn
<1> HIDE DEF u
<1>3. 2 <= u.rx => u.rx >= 2
  BY <1>2 DEF Good, Typed
<1>4. ~BareFin(p)
  BY DEF BareFin
<1> QED
  BY <1>2, <1>3, <1>4, Zenon DEF Takes, u

LEMMA PeerCloseGets ==
    ASSUME NEW s, Good(s), Own(s, FALSE), s.high >= 1, ~(s.rx >= 2), NEW p, Proper(p),
           p.len = 1, p.flags = "FIN"
    PROVE  PeerClose(s, p).got
<1> DEFINE n == p.seq + p.len
           t == SetFinSequence(s, n)
           u == ReceivedData(t, p)
           r == PeerClose(s, p)
<1>1. p \in Packets /\ p.seq = 1 /\ n = 2
  BY DEF Proper
<1>2. ~(p.seq < s.rx) /\ s.rx # 2 /\ ~(2 <= s.rx)
  BY <1>1 DEF Good, Typed
<1>3. Good(t) /\ Own(t, FALSE) /\ t.high >= 1 /\ ~(2 <= t.rx)
  <2>1. Good(t) /\ Own(t, FALSE)
    <3> HIDE DEF t
    <3>1. n = p.seq + p.len /\ n \in Nat
      BY <1>1
    <3> HIDE DEF n
    <3> QED
      BY <1>1, <3>1, SetFinGood, SetFinOwn DEF t
  <2>2. t.high = s.high /\ t.rx = s.rx
    BY <1>1, <1>2 DEF SetFinSequence, Good, Socket
  <2> QED
    BY <1>2, <2>1, <2>2
<1> HIDE DEF t
<1>4. Good(u) /\ Own(u, FALSE) /\ u.got /\ Takes(t, u, p)
  BY <1>1, <1>3, ReceivedDataGood, ReceivedDataOwn
<1>5. r = CASE ~Finished(u) -> u
            [] Finished(u) /\ u.state = "FIN_WAIT_1" -> [u EXCEPT !.state = "CLOSING"]
            [] OTHER -> DoPeerClose(u)
  BY <1>2 DEF PeerClose, t, n
<1> HIDE DEF u, r
<1>6. u.high >= 1
  BY <1>3, <1>4 DEF Takes, Good, Typed
<1>7. DoPeerClose(u).got
  BY <1>4, <1>6, DoPeerCloseOwn DEF Same, Good
<1>8. [u EXCEPT !.state = "CLOSING"].got
  BY <1>4 DEF Good, Socket
<1> QED
  BY <1>4, <1>5, <1>7, <1>8 DEF r

LEMMA WaitGets ==
    ASSUME NEW s, Good(s), Own(s, FALSE), s.high >= 1, ~(s.rx >= 2), NEW p, Proper(p),
           p.len = 1, Acks(p)
    PROVE  ProcessWait(s, p).got
<1> DEFINE a == ReceivedAck(s, p)
           t == WaitForFin(s, p)
           w == TimeWait(t)
           c == [t EXCEPT !.state = "CLOSING"]
<1>1. p \in Packets
  BY DEF Proper
<1>2. Good(a) /\ a.got
  BY <1>1, ReceivedAckGood, AckGets
<1>3. t.got
  <2>1. SetFinSequence(a, p.seq).got
    <3> HIDE DEF a
    <3> QED
      BY <1>2 DEF SetFinSequence, Good, Socket
  <2>2. [a EXCEPT !.state = "FIN_WAIT_2"].got
    <3> HIDE DEF a
    <3> QED
      BY <1>2 DEF Good, Socket
  <2> QED
    BY <1>2, <2>1, <2>2 DEF WaitForFin, FinWhileWaiting
<1>4. Good(t)
  BY <1>1, WaitForFinGood
<1> HIDE DEF t, a
<1>5. w.got /\ c.got /\ Socket(w) /\ Socket(c)
  BY <1>3, <1>4 DEF TimeWait, Good, Socket
<1> HIDE DEF w, c
<1>6. ASSUME NEW v, Socket(v), v.got PROVE SendEmptyPacket(v, "ACK").got
  BY <1>6 DEF SendEmptyPacket, Emit, Socket
<1>7. /\ SendEmptyPacket(w, "ACK").got /\ SendEmptyPacket(c, "ACK").got
  BY <1>5, <1>6
<1> QED
  BY <1>3, <1>7 DEF ProcessWait, Acks, t, w, c

LEMMA DoForwardUpGets ==
    ASSUME NEW s, Good(s), Own(s, FALSE), Opened(s), Tame(s, FALSE), s.bound, s.high >= 1,
           ~(s.rx >= 2), NEW p, Proper(p), p.len = 1, s.head <= p.ack,
           s.state = "ESTABLISHED" => p.ack <= s.high
    PROVE  DoForwardUp(s, p).got /\ Acks(p)
<1>1. p.flags \in {"ACK", "FIN"}
  BY DEF Proper, Packets, Flags
<1>2. s.state \in {"ESTABLISHED", "FIN_WAIT_1", "FIN_WAIT_2"}
  <2>1. ~(s.high = 0)
    BY DEF Good, Typed
  <2> QED
    BY <2>1 DEF Good, Typed, States, Tame, Shape, Opened
<1>3. CASE s.state = "ESTABLISHED"
  <2>1. DoForwardUp(s, p) = ProcessEstablished(s, p)
    BY <1>3 DEF DoForwardUp
  <2>2. ~(p.ack < s.head) /\ ~(p.ack > s.high) /\ p.ack \in s.head .. s.high
    BY <1>3 DEF Good, Typed, Proper, Packets
  <2>3. p.flags = "FIN" => PeerClose(s, p).got
    BY PeerCloseGets
  <2>4. ReceivedAck(s, p).got
    BY AckGets
  <2> QED
    BY <1>1, <2>1, <2>2, <2>3, <2>4 DEF ProcessEstablished, Acks
<1>4. CASE s.state \in {"FIN_WAIT_1", "FIN_WAIT_2"}
  <2>1. DoForwardUp(s, p) = ProcessWait(s, p)
    BY <1>4 DEF DoForwardUp
  <2> QED
    BY <1>1, <2>1, WaitGets DEF Acks
<1> QED
  BY <1>2, <1>3, <1>4

\* The server takes them in when they connect it.
LEMMA SynRcvdGets ==
    ASSUME NEW s, Good(s), Own(s, FALSE), Tame(s, FALSE), s.state = "SYN_RCVD", s.bound,
           s.high = 0, NEW p, Proper(p), p.len = 1, ProcessSynRcvd(s, p).high >= 1,
           p.flags = "ACK" => p.ack = s.next + 1
    PROVE  ProcessSynRcvd(s, p).got
<1> DEFINE c == Connected(s)
           d == [c EXCEPT !.delAck = DelAckMax]
           h == [c EXCEPT !.state = "SYN_RCVD"]
           u == ProcessSynRcvd(s, p)
<1>1. Good(c) /\ Own(c, FALSE) /\ c.high = 1 /\ c.rx = s.rx
  BY ConnectedGood, ConnectedOwn DEF Same
<1>2. Good(h) /\ Own(h, FALSE) /\ h.high = 1 /\ h.rx = s.rx
  BY HalfOpen
<1> HIDE DEF c
<1>3. Good(d) /\ Own(d, FALSE) /\ d.high = c.high /\ d.rx = c.rx
  <2>1. c.high >= 1
    BY <1>1
  <2>2. Good(d) /\ Own(d, FALSE)
    BY <1>1, <2>1, DelAckOwn
  <2> QED
    BY <1>1, <2>2 DEF Good, Socket
<1> HIDE DEF d, h
<1>4. ~(s.rx >= 2)
  BY DEF Own, Fields, Opening, Good, Typed
<1>5. p.flags \in {"ACK", "FIN"}
  BY DEF Proper, Packets, Flags
<1>6. CASE p.flags = "ACK"
  <2>1. u = ReceivedAck(d, p)
    BY <1>6 DEF ProcessSynRcvd, d, c
  <2> HIDE DEF u
  <2>2. d.high >= 1 /\ ~(d.rx >= 2)
    BY <1>1, <1>3, <1>4
  <2> QED
    BY <1>3, <2>1, <2>2, AckGets DEF u
<1>7. CASE p.flags = "FIN"
  <2>1. u = IF p.seq = s.rx THEN PeerClose(h, p) ELSE s
    BY <1>7 DEF ProcessSynRcvd, h, c
  <2>2. u # s
    OBVIOUS
  <2> HIDE DEF u
  <2>3. h.high >= 1 /\ ~(h.rx >= 2)
    BY <1>2, <1>4
  <2>4. PeerClose(h, p).got
    BY <1>2, <1>7, <2>3, PeerCloseGets
  <2> QED
    BY <2>1, <2>2, <2>4 DEF u
<1> QED
  BY <1>5, <1>6, <1>7

\* An arrival at the socket of e, which becomes u; the peer's becomes r.
Arrives(e, u, r) ==
    /\ Inv /\ Inv' /\ Fitness /\ Fitness' /\ Conduct
    /\ sock'[e] = u /\ sock'[Peer(e)] = r
    /\ Leaves(sock[Peer(e)], r, Arrived(e))
    /\ Proper(Arrived(e)) /\ PacketOwn(sock[Peer(e)], FALSE, Arrived(e))

LEMMA ArrivalArrives ==
    ASSUME Inv, Inv', Fitness, Fitness', Conduct, NEW e \in Ends, NEW u, Arriving(e),
           TakesPacket(e, u)
    PROVE  \E r : Arrives(e, u, r)
<1> DEFINE x == Peer(e)
           q == sock[x]
           r == [q EXCEPT !.out = Tail(@)]
           p == Head(q.out)
<1>1. x \in Ends /\ x # e /\ Arrived(e) = p
  BY EndsArePeers DEF Arrived
<1>2. sock'[e] = u /\ sock'[x] = r
  BY <1>1 DEF TakesPacket, Inv, AllGood
<1>3. Good(q) /\ Own(q, FALSE) /\ Opened(q) /\ Tame(q, FALSE) /\ q.out # <<>>
  BY <1>1 DEF Inv, AllGood, Delivery, Conduct, Arriving
<1> HIDE DEF q
<1>4. Leaves(q, r, p) /\ Proper(p) /\ PacketOwn(q, FALSE, p)
  BY <1>3, TailTame, TailOwn
<1> HIDE DEF r, p
<1> QED
  BY <1>1, <1>2, <1>4 DEF Arrives, q

\* What is known of the two sockets.
LEMMA ArrivalFacts ==
    ASSUME NEW e \in Ends, NEW u, NEW r, Arrives(e, u, r)
    PROVE  LET s == sock[e]
               q == sock[Peer(e)]
               p == Arrived(e)
           IN  /\ Good(s) /\ Own(s, FALSE) /\ Opened(s) /\ Tame(s, FALSE) /\ Role(e, s)
               /\ Good(q) /\ Own(q, FALSE) /\ Opened(q) /\ Tame(q, FALSE) /\ Role(Peer(e), q)
               /\ Good(u) /\ Own(u, FALSE) /\ Opened(u) /\ Typed(r)
               /\ Marks(s) /\ Near(s, q) /\ Near(q, s) /\ Near(u, r) /\ Near(r, u)
               /\ Ahead(s, q) /\ Ahead(q, s)
               /\ q.rx >= 2 => Settled(s, q)
               /\ s.rx >= 2 => Settled(q, s)
               /\ u.rx >= 2 => Settled(q, u)
               /\ Leaves(q, r, p) /\ Proper(p) /\ PacketOwn(q, FALSE, p)
<1> DEFINE x == Peer(e)
           s == sock[e]
           q == sock[x]
           p == Arrived(e)
<1>1. x \in Ends /\ x # e /\ Peer(x) = e
  BY EndsArePeers
<1>2. sock'[e] = u /\ sock'[x] = r /\ Leaves(q, r, p) /\ Proper(p) /\ PacketOwn(q, FALSE, p)
      /\ Inv /\ Inv' /\ Fitness /\ Fitness' /\ Conduct
  BY DEF Arrives
<1>3. /\ Good(s) /\ Own(s, FALSE) /\ Opened(s) /\ Good(q) /\ Own(q, FALSE) /\ Opened(q)
      /\ q.rx >= 2 => Settled(s, q)
      /\ s.rx >= 2 => Settled(q, s)
  BY <1>1, <1>2 DEF Inv, AllGood, Delivery, Settlement
<1>4. /\ Good(u) /\ Own(u, FALSE) /\ Opened(u) /\ Typed(r)
      /\ u.rx >= 2 => Settled(r, u)
  BY <1>1, <1>2 DEF Inv, AllGood, Delivery, Settlement, Good
<1>5. /\ Tame(s, FALSE) /\ Role(e, s) /\ Tame(q, FALSE) /\ Role(x, q)
      /\ Ahead(s, q) /\ Ahead(q, s)
  BY <1>1, <1>2 DEF Conduct
<1>6. Marks(s) /\ Near(s, q) /\ Near(q, s) /\ Near(u, r) /\ Near(r, u)
  BY <1>1, <1>2 DEF Fitness, Fit
<1> HIDE DEF s, q, p
<1>7. u.rx >= 2 => Settled(q, u)
  BY <1>2, <1>4 DEF Settled, Leaves
<1> QED
  BY <1>2, <1>3, <1>4, <1>5, <1>6, <1>7 DEF s, q, p, x

\* Conduct after an arrival, from what is left to show in each case.
LEMMA ArrivalConduct ==
    ASSUME NEW e \in Ends, NEW u, NEW r, Arrives(e, u, r), Tame(u, FALSE), Longer(sock[e], u),
           u.head \in {sock[e].head, Ackd(Arrived(e))}, Role(e, u), Beginning',
           Spoiled' \/ u.high = 0 \/ r.high = 0 \/ (Tidy(u, r) /\ Tidy(r, u))
    PROVE  Conduct'
<1> DEFINE x == Peer(e)
           s == sock[e]
           q == sock[x]
           p == Arrived(e)
<1>1. x \in Ends /\ x # e /\ Peer(x) = e /\ \A y \in Ends : y = e \/ y = x
  BY EndsArePeers
<1>2. sock'[e] = u /\ sock'[x] = r
  BY DEF Arrives
<1>3. /\ Typed(s) /\ Typed(u) /\ Typed(q) /\ Typed(r) /\ Ahead(s, q) /\ Ahead(q, s)
      /\ Role(x, q) /\ Near(q, s) /\ Leaves(q, r, p) /\ p \in Packets
  BY ArrivalFacts DEF Good, Proper
<1> HIDE DEF s, q, p
<1>4. Tame(r, FALSE) /\ Role(x, r) /\ Ahead(s, r)
  BY <1>3 DEF Leaves
<1>5. Ahead(r, u)
  <2>1. Ahead(q, u)
    BY <1>3, AheadGrows DEF Near, s
  <2> QED
    BY <1>3, <2>1 DEF Leaves, Ahead
<1>6. Ahead(u, r)
  <2>1. CASE u.head = s.head
    BY <1>4, <2>1 DEF Ahead
  <2>2. CASE u.head = Ackd(p)
    <3> SUFFICES ASSUME NEW i \in DOMAIN r.out, Acks(r.out[i]) PROVE u.head <= r.out[i].ack
      BY DEF Ahead
    <3>1. CASE Acks(p)
      BY <1>3, <2>2, <3>1 DEF Ackd, Leaves
    <3>2. CASE ~Acks(p)
      <4>1. r.out \in Seq(Packets)
        BY <1>3 DEF Typed
      <4>2. r.out[i] \in Packets
        BY <4>1
      <4>3. r.out[i].ack \in Nat /\ u.head = 0
        BY <2>2, <3>2, <4>2 DEF Packets, Ackd
      <4> QED
        BY <4>3
    <3> QED
      BY <3>1, <3>2
  <2> QED
    BY <2>1, <2>2 DEF s, p
<1>7. \A y \in Ends : Tame(sock'[y], FALSE) /\ Role(y, sock'[y]) /\ Ahead(sock'[y], sock'[Peer(y)])
  <2>1. Tame(sock'[e], FALSE) /\ Role(e, sock'[e]) /\ Ahead(sock'[e], sock'[x])
    BY <1>2, <1>6
  <2>2. Tame(sock'[x], FALSE) /\ Role(x, sock'[x]) /\ Ahead(sock'[x], sock'[e])
    BY <1>2, <1>4, <1>5
  <2> QED
    BY <1>1, <2>1, <2>2
<1>8. u.high = 0 \/ r.high = 0 => \E y \in Ends : sock'[y].high = 0
  BY <1>1, <1>2
<1>9. Tidy(u, r) /\ Tidy(r, u) => \A y \in Ends : Tidy(sock'[y], sock'[Peer(y)])
  <2> SUFFICES ASSUME Tidy(u, r), Tidy(r, u), NEW y \in Ends
               PROVE  Tidy(sock'[y], sock'[Peer(y)])
    OBVIOUS
  <2>1. CASE y = e
    BY <1>2, <2>1
  <2>2. CASE y = x
    BY <1>1, <1>2, <2>2
  <2> QED
    BY <1>1, <2>1, <2>2
<1> QED
  BY <1>7, <1>8, <1>9, Zenon DEF Conduct

\* Once both ends are connected.
LEMMA ArrivalSpoils ==
    ASSUME NEW e \in Ends, NEW u, NEW r, Arrives(e, u, r), losses <= losses', losses \in Nat,
           losses' \in Nat,
           Spoils(sock[e]) => Spoils(u), Spoiled \/ Spoils(u)
    PROVE  Spoiled'
<1> DEFINE x == Peer(e)
           q == sock[x]
<1>1. x \in Ends /\ x # e /\ Peer(x) = e /\ \A y \in Ends : y = e \/ y = x
  BY EndsArePeers
<1>2. sock'[e] = u /\ sock'[x] = r /\ Leaves(q, r, Arrived(e))
  BY DEF Arrives
<1>3. losses > 0 => losses' > 0
  OBVIOUS
<1>4. Spoils(q) => Spoils(r)
  BY <1>2, Zenon DEF Leaves, Spoils
<1>5. losses > 0 \/ Spoils(sock[e]) \/ Spoils(q) \/ Spoils(u)
  BY <1>1, Zenon DEF Spoiled
<1>6. Spoils(sock'[e]) = Spoils(u) /\ Spoils(sock'[x]) = Spoils(r)
  BY <1>2
<1> QED
  BY <1>1, <1>3, <1>4, <1>5, <1>6 DEF Spoiled

LEMMA MovesSpoil ==
    ASSUME NEW s, NEW u, NEW k, Typed(s), Typed(u), Moves(s, u, k), Spoils(s)
    PROVE  Spoils(u)
<1>1. s.high >= 1 => u.high >= 1
  <2>1. s.high <= u.high
    BY DEF Moves
  <2>2. s.high \in Nat /\ u.high \in Nat
    BY DEF Typed
  <2> QED
    BY <2>1, <2>2
<1> QED
  BY <1>1, Zenon DEF Moves, Spoils

\* The ends keep to their parts in the handshake.
LEMMA ResetRole ==
    ASSUME NEW e, NEW s, Socket(s), Role(e, s)
    PROVE  Role(e, DeallocateEndPoint(s)) /\ Role(e, CloseAndNotify(s))
<1> DEFINE d == DeallocateEndPoint(s)
           c == CloseAndNotify(s)
<1>1. d.out = s.out /\ d.high = s.high /\ d.state = s.state /\ d.retx = "none" /\ d.wrote = s.wrote
  BY DEF DeallocateEndPoint, Socket
<1>2. c.out = s.out /\ c.high = s.high /\ c.state = "CLOSED" /\ c.retx = "none" /\ c.wrote = s.wrote
  BY DEF CloseAndNotify, DeallocateEndPoint, Socket
<1> HIDE DEF d, c
<1> QED
  BY <1>1, <1>2 DEF Role, d, c

LEMMA EmptyRole ==
    ASSUME NEW e \in Ends, NEW s, Socket(s), Typed(s), Role(e, s), s.high = 0, NEW f \in Flags,
           e = "client" => f # "SYNACK", e = "server" => f = "SYNACK"
    PROVE  Role(e, SendEmptyPacket(s, f))
<1>1. ASSUME NEW t, Socket(t), t.out = s.out, t.high = s.high, t.state = s.state, t.retx = s.retx,
             t.wrote = s.wrote
      PROVE  Role(e, Emit(t, f))
  <2> DEFINE u == Emit(t, f)
             n == Len(s.out)
  <2>1. u.high = s.high /\ u.state = s.state /\ u.retx \in {s.retx, f} /\ u.wrote = s.wrote
    BY <1>1 DEF Emit, Socket
  <2>2. PICK x : x.flags = f /\ u.out = Append(s.out, x)
    <3> DEFINE y == IF f # "FIN" /\ t.state \in {"FIN_WAIT_1", "LAST_ACK", "CLOSING"}
                    THEN t.next + 1 ELSE t.next
               x == Packet(f, y, t.rx, 0)
    <3>1. u.out = Append(s.out, x)
      BY <1>1 DEF Emit, Socket
    <3>2. x.flags = f
      BY DEF Packet
    <3> HIDE DEF x, u
    <3> QED
      BY <3>1, <3>2
  <2> HIDE DEF u
  <2>3. s.out \in Seq(Packets)
    BY DEF Typed
  <2>4. /\ DOMAIN u.out = 1 .. n + 1 /\ DOMAIN s.out = 1 .. n /\ n \in Nat
        /\ u.out[n + 1] = x
        /\ \A i \in 1 .. n : u.out[i] = s.out[i]
    BY <2>2, <2>3
  <2> HIDE DEF n
  <2>5. ASSUME NEW i \in DOMAIN u.out
        PROVE  u.out[i].flags = f \/ (i \in DOMAIN s.out /\ u.out[i] = s.out[i])
    BY <2>2, <2>4
  <2> QED
    BY <2>1, <2>5 DEF Role, u, Ends
<1> DEFINE t == [s EXCEPT !.synCount = @ - 1]
<1>2. /\ Socket(t) /\ t.out = s.out /\ t.high = s.high /\ t.state = s.state /\ t.retx = s.retx
      /\ t.wrote = s.wrote
  BY DEF Socket
<1> HIDE DEF t
<1>3. Role(e, Emit(t, f)) /\ Role(e, Emit(s, f)) /\ Role(e, CloseAndNotify(s))
  BY <1>1, <1>2, ResetRole
<1> QED
  BY <1>3 DEF SendEmptyPacket, t

\* The packet that connects the server is an ACK or a FIN in sequence,
LEMMA SynRcvdRole ==
    ASSUME NEW s, Good(s), Own(s, FALSE), Tame(s, FALSE), s.state = "SYN_RCVD", s.bound,
           s.high = 0, Role("server", s), NEW p, Proper(p), p.flags # "SYNACK",
           p.flags = "ACK" => p.ack = s.next + 1
    PROVE  LET u == ProcessSynRcvd(s, p)
           IN  /\ Role("server", u)
               /\ u.high = 0 \/ p.flags = "ACK" \/ (p.flags = "FIN" /\ p.seq = s.rx)
<1> DEFINE c == Connected(s)
           d == [c EXCEPT !.delAck = DelAckMax]
           h == [c EXCEPT !.state = "SYN_RCVD"]
           u == ProcessSynRcvd(s, p)
<1>0. p \in Packets
  BY DEF Proper
<1>1. Good(c) /\ Own(c, FALSE) /\ c.high = 1
  BY ConnectedGood, ConnectedOwn DEF Same
<1>2. Good(h) /\ Own(h, FALSE) /\ h.high = 1
  BY HalfOpen
<1> HIDE DEF c
<1>3. Good(d) /\ Own(d, FALSE) /\ d.high = 1
  <2>1. c.high >= 1
    BY <1>1
  <2>2. Good(d) /\ Own(d, FALSE)
    BY <1>1, <2>1, DelAckOwn
  <2> QED
    BY <1>1, <2>2 DEF Good, Socket
<1> HIDE DEF d, h
<1>4. ASSUME NEW v, NEW w, Good(v), Good(w), v.high = 1, Takes(v, w, p)
      PROVE  Role("server", w)
  <2>1. w.high # 0
    BY <1>4 DEF Takes, Good, Typed
  <2> QED
    BY <2>1 DEF Role
<1>5. CASE p.flags = "ACK"
  <2>1. u = ReceivedAck(d, p)
    BY <1>5 DEF ProcessSynRcvd, d, c
  <2>2. d.high >= 1
    BY <1>3
  <2> HIDE DEF u
  <2>3. Good(u) /\ Takes(d, u, p)
    BY <1>0, <1>3, <2>1, <2>2, ReceivedAckGood, ReceivedAckOwn
  <2> QED
    BY <1>3, <1>4, <1>5, <2>3 DEF u
<1>6. CASE p.flags = "SYN"
  <2> DEFINE t == [s EXCEPT !.rx = p.seq + 1]
  <2>1. u = SendEmptyPacket(t, "SYNACK")
    BY <1>6 DEF ProcessSynRcvd
  <2>2. Good(t) /\ t.high = 0
    BY <1>6, SynOwn
  <2>3. t.out = s.out /\ t.state = s.state /\ t.retx = s.retx /\ t.wrote = s.wrote
    BY DEF Good, Socket
  <2> HIDE DEF t, u
  <2>4. Role("server", t)
    BY <2>2, <2>3 DEF Role
  <2>5. Role("server", u)
    BY <2>1, <2>2, <2>4, EmptyRole DEF Good, Flags, Ends
  <2>6. u.high = 0
    BY <2>1, <2>2, EmptyPacketHigh DEF Good
  <2> QED
    BY <2>5, <2>6 DEF u
<1>7. CASE p.flags = "FIN"
  <2>1. u = IF p.seq = s.rx THEN PeerClose(h, p) ELSE s
    BY <1>7 DEF ProcessSynRcvd, h, c
  <2> HIDE DEF u
  <2>2. CASE p.seq = s.rx
    <3>1. h.high >= 1 /\ u = PeerClose(h, p)
      BY <1>2, <2>1, <2>2
    <3>2. Good(u) /\ Takes(h, u, p)
      BY <1>0, <1>2, <1>7, <3>1, PeerCloseGood, PeerCloseOwn
    <3> QED
      BY <1>2, <1>4, <1>7, <2>2, <3>2 DEF u
  <2>3. CASE p.seq # s.rx
    BY <2>1, <2>3 DEF u
  <2> QED
    BY <2>2, <2>3
<1>8. CASE p.flags = "RST"
  <2>1. u = CloseAndNotify(s)
    BY <1>8 DEF ProcessSynRcvd
  <2>2. CloseAndNotify(s).high = 0
    BY DEF CloseAndNotify, DeallocateEndPoint, Good, Socket
  <2> QED
    BY <2>1, <2>2, ResetRole DEF Good
<1> QED
  BY <1>5, <1>6, <1>7, <1>8 DEF Proper, Packets, Flags

\* that which connects the client a SYN|ACK: its answer goes before its data.
LEMMA SynSentRole ==
    ASSUME NEW s, Good(s), Own(s, FALSE), Tame(s, FALSE), s.state = "SYN_SENT", s.bound,
           s.high = 0, Role("client", s), NEW p, Proper(p)
    PROVE  LET u == ProcessSynSent(s, p)
           IN  /\ Role("client", u)
               /\ u.high = 0 \/ (u.bound /\ Covers(u))
<1> DEFINE t == [s EXCEPT !.rx = p.seq + 1]
           c == Connected(t)
           a == SendEmptyPacket(c, "ACK")
           d == SendPendingData(a)
           v == [d EXCEPT !.delAck = DelAckMax]
           u == ProcessSynSent(s, p)
           n == Len(s.out)
<1>0. s.next = 0 /\ s.out \in Seq(Packets) /\ n \in Nat /\ DOMAIN s.out = 1 .. n
  BY DEF Own, Fields, Opening, Good, Typed
<1>1. CASE p.flags = "SYNACK" /\ p.ack = s.next + 1
  <2>1. u = v
    BY <1>1 DEF ProcessSynSent
  <2>2. Good(t) /\ t.next = 0 /\ t.bound /\ t.out = s.out
    <3>1. Good(t)
      BY <1>1, SynOwn
    <3> QED
      BY <1>0, <3>1 DEF Good, Socket
  <2> HIDE DEF t
  <2>3. Socket(c) /\ c.next = 1 /\ c.high = 1 /\ c.bound /\ c.out = s.out /\ c.state = "ESTABLISHED"
    BY <2>2 DEF Connected, Good, Socket
  <2> HIDE DEF c
  <2>4. /\ Socket(a) /\ a.next = 1 /\ a.high = 1 /\ a.bound /\ a.state = "ESTABLISHED"
        /\ \E x : x.flags = "ACK" /\ x.len = 0 /\ a.out = Append(s.out, x)
    BY <2>3 DEF SendEmptyPacket, Emit, Socket, Packet
  <2> HIDE DEF a
  <2>5. PICK x : x.flags = "ACK" /\ x.len = 0 /\ a.out = Append(s.out, x)
    BY <2>4
  <2>6. /\ Socket(d) /\ d.bound
        /\ d.high \in {1, 2}
        /\ \/ d.out = a.out /\ d.next = 1
           \/ \E y : y.flags \in {"ACK", "FIN"} /\ y.len = 1 /\ d.out = Append(a.out, y)
    BY <2>4 DEF SendPendingData, SendDataPacket, Socket, Packet
  <2> HIDE DEF d
  <2>7. v.bound = d.bound /\ v.high = d.high /\ v.out = d.out /\ v.next = d.next
    BY <2>6 DEF Socket
  <2> HIDE DEF v
  <2>8. /\ DOMAIN a.out = 1 .. n + 1 /\ Len(a.out) = n + 1
        /\ a.out[n + 1] = x
        /\ \A i \in 1 .. n : a.out[i] = s.out[i]
    BY <1>0, <2>5
  <2>9. ASSUME NEW i \in 1 .. n
        PROVE  s.out[i].flags \notin {"SYNACK", "ACK", "FIN"}
    <3>1. s.out[i].flags # "SYNACK"
      BY <1>0 DEF Role
    <3>2. PacketOwn(s, FALSE, s.out[i])
      BY <1>0 DEF Own, Sent
    <3> QED
      BY <3>1, <3>2 DEF PacketOwn
  <2>10. CASE d.out = a.out /\ d.next = 1
    <3>1. \A i \in DOMAIN v.out : v.out[i].flags # "SYNACK"
      BY <2>5, <2>7, <2>8, <2>9, <2>10
    <3>2. ~(v.next >= 2) /\ v.high # 0
      BY <2>6, <2>7, <2>10
    <3> QED
      BY <2>1, <2>6, <2>7, <3>1, <3>2 DEF Role, Covers
  <2>11. CASE ~(d.out = a.out /\ d.next = 1)
    <3>1. PICK y : y.flags \in {"ACK", "FIN"} /\ y.len = 1 /\ d.out = Append(a.out, y)
      BY <2>6, <2>11
    <3>2. a.out = Append(s.out, x) /\ a.out \in Seq(Packets \cup {x})
      BY <1>0, <2>5
    <3> DEFINE m == n + 2
    <3>3. /\ DOMAIN v.out = 1 .. m
          /\ v.out[m] = y /\ m \in Nat /\ m \in 1 .. m
          /\ \A i \in 1 .. m : i = m \/ (i < m /\ i \in 1 .. n + 1 /\ v.out[i] = a.out[i])
      BY <1>0, <2>7, <2>8, <3>1, <3>2
    <3> HIDE DEF m
    <3>4. \A i \in 1 .. n + 1 : i \in 1 .. n \/ i = n + 1
      BY <1>0
    <3>5. \A i \in DOMAIN v.out : v.out[i].flags # "SYNACK"
      BY <2>5, <2>8, <2>9, <3>1, <3>3, <3>4
    <3>6. Covered(v)
      <4> SUFFICES ASSUME NEW i \in DOMAIN v.out, v.out[i].flags = "ACK", v.out[i].len = 0
                   PROVE  \E j \in DOMAIN v.out : i < j /\ v.out[j].len = 1
        BY DEF Covered
      <4>1. i # m
        BY <3>1, <3>3
      <4> QED
        BY <3>1, <3>3, <4>1
    <3>7. v.high # 0
      BY <2>6, <2>7
    <3> QED
      BY <2>1, <2>6, <2>7, <3>5, <3>6, <3>7 DEF Role, Covers
  <2> QED
    BY <2>10, <2>11
<1>2. CASE ~(p.flags = "SYNACK" /\ p.ack = s.next + 1)
  <2>1. u = s \/ u = CloseAndNotify(s)
    BY <1>2 DEF ProcessSynSent
  <2>2. CloseAndNotify(s).high = 0
    BY DEF CloseAndNotify, DeallocateEndPoint, Good, Socket
  <2> QED
    BY <2>1, <2>2, ResetRole DEF Good
<1> QED
  BY <1>1, <1>2

\* While only the client is connected, its data stay behind what connects the server.
LEMMA ArrivalBeginning ==
    ASSUME NEW e \in Ends, NEW u, NEW r, Arrives(e, u, r),
           losses \in Nat, losses' \in Nat, losses <= losses', sock[e].high <= u.high,
           e = "client" /\ r.high = 0 /\ u.high >= 1 =>
               (u.bound \/ u.dataRetrCount = 0) /\ (losses' > 0 \/ Covers(u))
    PROVE  Beginning'
<1> DEFINE x == Peer(e)
           s == sock[e]
           q == sock[x]
<1>1. sock'[e] = u /\ sock'[x] = r /\ Leaves(q, r, Arrived(e)) /\ Beginning /\ Typed(s) /\ Typed(u)
  BY ArrivalFacts DEF Arrives, Conduct, Good
<1>2. CASE e = "client"
  <2>1. sock'["client"] = u /\ sock'["server"] = r
    BY <1>1, <1>2 DEF Peer
  <2> QED
    BY <1>2, <2>1 DEF Beginning
<1>3. CASE e = "server"
  <2>1. sock'["server"] = u /\ sock'["client"] = r /\ sock["client"] = q /\ sock["server"] = s
    BY <1>1, <1>3 DEF Peer
  <2> HIDE DEF q, s
  <2>2. u.high = 0 => s.high = 0
    <3>1. s.high <= u.high
      BY DEF s
    <3>2. s.high \in Nat /\ u.high \in Nat
      BY <1>1 DEF Typed
    <3> QED
      BY <3>1, <3>2
  <2>3. losses > 0 => losses' > 0
    OBVIOUS
  <2>4. /\ r.high = q.high /\ r.bound = q.bound /\ r.dataRetrCount = q.dataRetrCount
        /\ Covers(q) => Covers(r)
    BY <1>1 DEF Leaves
  <2> QED
    BY <1>1, <2>1, <2>2, <2>3, <2>4 DEF Beginning
<1> QED
  BY <1>2, <1>3 DEF Ends

\* The answer to a packet without a socket, from the socket that is gone.
Answered(s) == [s EXCEPT !.out = Append(@, Packet("RST", 0, 0, 0))]

LEMMA AnswerMoves ==
    ASSUME NEW s, NEW u, NEW k, Good(s), Typed(u), Tame(s, FALSE), ~s.bound,
           u = Answered(s)
    PROVE  /\ Moved(s, u, FALSE, k) /\ u.state = s.state /\ u.high = s.high
           /\ Role("client", s) => Role("client", u)
           /\ Covers(s) => Covers(u)
<1> DEFINE x == Packet("RST", 0, 0, 0)
           n == Len(s.out)
<1>1. x \in Packets /\ x.flags = "RST" /\ x.len = 0
  BY DEF Packet, Packets, Flags
<1> HIDE DEF x
<1>2. /\ u.out = Append(s.out, x) /\ u.rx = s.rx /\ u.bound = s.bound /\ u.got = s.got
      /\ u.state = s.state /\ u.retx = s.retx /\ u.lastAck = s.lastAck /\ u.unread = s.unread
      /\ u.slow = s.slow /\ u.delAck = s.delAck /\ u.high = s.high /\ u.head = s.head
      /\ u.dataRetrCount = s.dataRetrCount /\ u.wrote = s.wrote /\ u.closed = s.closed
      /\ u.shutdownSend = s.shutdownSend /\ u.next = s.next
  BY DEF Answered, x, Good, Socket
<1> HIDE DEF n
<1>3. Climbing(u) /\ Longer(s, u)
  BY <1>1, <1>2, ClimbGrows DEF Good, Tame, Acks
<1>4. Shape(u, FALSE)
  BY <1>2 DEF Tame, Shape, Ended
<1>5. s.rx <= u.rx /\ s.high <= u.high
  BY <1>2 DEF Good, Typed
<1>6. Moved(s, u, FALSE, k)
  BY <1>2, <1>3, <1>4, <1>5, Zenon DEF Moved, Tame, Moves
<1>7. s.out \in Seq(Packets)
  BY DEF Good, Typed
<1>8. /\ DOMAIN u.out = 1 .. n + 1 /\ DOMAIN s.out = 1 .. n /\ n \in Nat
      /\ u.out[n + 1] = x
      /\ \A i \in 1 .. n : u.out[i] = s.out[i]
  BY <1>2, <1>7 DEF n
<1>9. ASSUME NEW i \in DOMAIN u.out
      PROVE  u.out[i] = x \/ (i \in DOMAIN s.out /\ u.out[i] = s.out[i])
  BY <1>8
<1>10. Role("client", s) => Role("client", u)
  BY <1>1, <1>2, <1>9 DEF Role
<1>11. Covered(s) => Covered(u)
  <2> SUFFICES ASSUME Covered(s), NEW i \in DOMAIN u.out, u.out[i].flags = "ACK", u.out[i].len = 0
               PROVE  \E j \in DOMAIN u.out : i < j /\ u.out[j].len = 1
    BY DEF Covered
  <2>1. i \in DOMAIN s.out /\ u.out[i] = s.out[i]
    BY <1>1, <1>9
  <2>2. PICK j \in DOMAIN s.out : i < j /\ s.out[j].len = 1
    BY <2>1 DEF Covered
  <2>3. j \in DOMAIN u.out /\ u.out[j] = s.out[j]
    BY <1>8
  <2> QED
    BY <2>2, <2>3
<1>12. Covers(s) => Covers(u)
  BY <1>2, <1>11, Zenon DEF Covers
<1> QED
  BY <1>2, <1>6, <1>10, <1>12

\* Both ends connected: the receiver takes the packet in,
LEMMA ArrivalMain ==
    ASSUME NEW e \in Ends, NEW u, NEW r, Arrives(e, u, r), losses' = losses,
           Moved(sock[e], u, FALSE, Ackd(Arrived(e))), sock[e].high >= 1, sock[Peer(e)].high >= 1,
           sock[e].bound \/ u.state = sock[e].state,
           Arrived(e).len = 1 => u.got \/ sock[e].rx >= 2 \/ ~sock[e].bound
    PROVE  Spoiled' \/ (Tidy(u, r) /\ Tidy(r, u))
<1> DEFINE x == Peer(e)
           s == sock[e]
           q == sock[x]
           p == Arrived(e)
           k == Ackd(p)
<1>1. x \in Ends /\ x # e /\ Peer(x) = e /\ \A y \in Ends : y = e \/ y = x
  BY EndsArePeers
<1>2. /\ Good(s) /\ Good(q) /\ Good(u) /\ Tame(s, FALSE) /\ Leaves(q, r, p)
      /\ p \in Packets /\ PacketOwn(q, FALSE, p)
      /\ q.rx >= 2 => Settled(s, q)
      /\ s.rx >= 2 => Settled(q, s)
      /\ u.rx >= 2 => Settled(q, u)
  BY ArrivalFacts DEF Proper
<1>3. losses \in Nat /\ losses' \in Nat /\ losses <= losses'
  <2>1. losses \in 0 .. MaxLoss /\ MaxLoss \in Nat
    BY ConnectionAssumption DEF Arrives, Inv, AllGood
  <2> QED
    BY <2>1
<1>4. Spoiled \/ (Tidy(s, q) /\ Tidy(q, s))
  <2>1. s.high # 0 /\ q.high # 0
    OBVIOUS
  <2>2. ~(\E y \in Ends : sock[y].high = 0)
    BY <1>1, <2>1
  <2>3. Spoiled \/ \A y \in Ends : Tidy(sock[y], sock[Peer(y)])
    BY <2>2, Zenon DEF Arrives, Conduct
  <2> QED
    BY <1>1, <2>3
<1>5. Moves(s, u, k) /\ Tame(u, FALSE)
  BY DEF Moved
<1>6. k >= 2 => Settled(s, q)
  <2> SUFFICES ASSUME k >= 2 PROVE q.rx >= 2
    BY <1>2
  <2> HIDE DEF q, p
  <2>1. Acks(p) /\ k = p.ack
    BY DEF Ackd
  <2>2. p.ack <= q.rx /\ p.ack \in Nat /\ q.rx \in Nat
    BY <1>2 DEF PacketOwn, Packets, Good, Typed
  <2> QED
    BY <2>1, <2>2
<1> HIDE DEF s, q, p, k
<1>7. Spoils(s) => Spoils(u)
  BY <1>2, <1>5, MovesSpoil DEF Good
<1>8. CASE Spoiled \/ Spoils(u)
  BY <1>3, <1>7, <1>8, ArrivalSpoils DEF s
<1>9. CASE ~Spoiled /\ ~Spoils(u)
  <2>1. u.high >= 1
    <3>1. s.high <= u.high /\ s.high >= 1
      BY <1>5 DEF Moves, s
    <3> QED
      BY <1>2, <3>1 DEF Good, Typed
  <2>2. (s.bound \/ u.state = s.state) /\ (p.len = 1 => u.got \/ s.rx >= 2 \/ ~s.bound)
    BY DEF s, p
  <2>3. Tidy(u, r) /\ Tidy(r, u)
    BY <1>2, <1>4, <1>5, <1>6, <1>9, <2>1, <2>2, ArrivalTidy DEF Good
  <2> QED
    BY <2>3
<1> QED
  BY <1>8, <1>9

LEMMA LossesNat == Inv => losses \in Nat
<1> SUFFICES ASSUME Inv PROVE losses \in Nat
  OBVIOUS
<1>1. losses \in 0 .. MaxLoss /\ MaxLoss \in Nat
  BY ConnectionAssumption DEF Inv, AllGood
<1> QED
  BY <1>1

\* A packet for a socket that is gone.
LEMMA UnboundConduct ==
    ASSUME NEW e \in Ends, NEW u, NEW r, Arrives(e, u, r), losses' = losses, ~sock[e].bound,
           \/ u = sock[e]
           \/ e = "client" /\ u = Answered(sock[e])
    PROVE  Conduct'
<1> DEFINE x == Peer(e)
           s == sock[e]
           q == sock[x]
           p == Arrived(e)
           k == Ackd(p)
<1>1. /\ Good(s) /\ Good(q) /\ Typed(u) /\ Tame(s, FALSE) /\ Role(e, s) /\ Leaves(q, r, p)
  BY ArrivalFacts DEF Good
<1>2. losses \in Nat /\ losses' \in Nat /\ losses <= losses'
  BY LossesNat DEF Arrives
<1> HIDE DEF k
<1>3. /\ Moved(s, u, FALSE, k) /\ u.state = s.state /\ u.high = s.high /\ Role(e, u)
      /\ Covers(s) => Covers(u)
  <2>0. u = s \/ (e = "client" /\ u = Answered(s))
    OBVIOUS
  <2>3. ~s.bound
    OBVIOUS
  <2> HIDE DEF s
  <2>1. CASE u = s
    BY <1>1, <2>1, MovedItself DEF Good
  <2>2. CASE e = "client" /\ u = Answered(s)
    <3>1. /\ Moved(s, u, FALSE, k) /\ u.state = s.state /\ u.high = s.high
          /\ Role("client", s) => Role("client", u)
          /\ Covers(s) => Covers(u)
      BY <1>1, <2>2, <2>3, AnswerMoves
    <3> QED
      BY <1>1, <2>2, <3>1
  <2> QED
    BY <2>0, <2>1, <2>2
<1>4. s.high \in Nat /\ s.high <= u.high /\ q.high \in Nat /\ r.high = q.high
  <2>1. s.high \in Nat /\ q.high \in Nat /\ r.high = q.high
    BY <1>1 DEF Good, Typed, Leaves
  <2> QED
    BY <1>3, <2>1
<1>5. Beginning'
  <2>1. ASSUME e = "client", r.high = 0, u.high >= 1
        PROVE  (u.bound \/ u.dataRetrCount = 0) /\ (losses' > 0 \/ Covers(u))
    <3>1. (s.bound \/ s.dataRetrCount = 0) /\ (losses > 0 \/ Covers(s))
      <4>1. sock["client"] = s /\ sock["server"] = q
        BY <2>1 DEF Peer
      <4>2. q.high = 0 /\ s.high >= 1
        BY <1>3, <1>4, <2>1
      <4> QED
        BY <4>1, <4>2 DEF Arrives, Conduct, Beginning
    <3> QED
      BY <1>3, <3>1 DEF Moved, Moves
  <2> QED
    BY <1>2, <1>4, <2>1, ArrivalBeginning
<1>6. Spoiled' \/ u.high = 0 \/ r.high = 0 \/ (Tidy(u, r) /\ Tidy(r, u))
  <2>1. CASE s.high >= 1 /\ q.high >= 1
    BY <1>3, <2>1, ArrivalMain DEF k
  <2>2. CASE s.high = 0 \/ q.high = 0
    BY <1>3, <1>4, <2>2
  <2> QED
    BY <1>4, <2>1, <2>2
<1> QED
  BY <1>3, <1>5, <1>6, ArrivalConduct DEF Moved, Moves, k

\* A packet that is lost.
LEMMA LoseConduct ==
    ASSUME NEW e \in Ends, NEW r, Arrives(e, sock[e], r), losses' = losses + 1
    PROVE  Conduct'
<1> DEFINE s == sock[e]
<1>1. losses \in Nat /\ losses' \in Nat /\ losses <= losses' /\ losses' > 0
  BY LossesNat DEF Arrives
<1>2. Good(s) /\ Tame(s, FALSE) /\ Role(e, s) /\ Leaves(sock[Peer(e)], r, Arrived(e))
  BY ArrivalFacts
<1> HIDE DEF s
<1>3. Moved(s, s, FALSE, 0)
  BY <1>2, MovedItself DEF Good
<1>4. s.high <= s.high
  BY <1>2 DEF Good, Typed
<1>5. Beginning'
  <2>1. ASSUME e = "client", r.high = 0, s.high >= 1
        PROVE  s.bound \/ s.dataRetrCount = 0
    <3>1. sock["client"] = s /\ sock["server"].high = 0
      BY <1>2, <2>1 DEF Peer, s, Leaves
    <3> QED
      BY <2>1, <3>1 DEF Arrives, Conduct, Beginning
  <2>2. Arrives(e, s, r) /\ sock[e].high <= s.high
    BY <1>4 DEF s
  <2> QED
    BY <1>1, <2>1, <2>2, ArrivalBeginning
<1>6. Spoiled'
  BY <1>1 DEF Spoiled
<1> QED
  BY <1>2, <1>3, <1>5, <1>6, ArrivalConduct DEF Moved, Moves, s

\* A reset.
LEMMA ClosedFields ==
    ASSUME NEW s, Socket(s)
    PROVE  LET u == CloseAndNotify(s)
           IN  /\ u.out = s.out /\ u.wrote = s.wrote /\ u.closed = s.closed
               /\ u.shutdownSend = s.shutdownSend /\ u.slow = s.slow /\ u.head = s.head
               /\ u.got = s.got /\ u.high = s.high /\ u.next = s.next /\ u.unread = s.unread
               /\ u.dataRetrCount = s.dataRetrCount /\ u.rx = s.rx /\ u.state = "CLOSED"
               /\ ~u.bound /\ u.delAck = 0 /\ u.retx = "none" /\ ~u.lastAck
BY DEF CloseAndNotify, DeallocateEndPoint, Socket

LEMMA ResetConduct ==
    ASSUME NEW e \in Ends, NEW u, NEW r, Arrives(e, u, r), losses' = losses, sock[e].bound,
           Arrived(e).flags = "RST", u = CloseAndNotify(sock[e])
    PROVE  Conduct'
<1> DEFINE x == Peer(e)
           s == sock[e]
           q == sock[x]
           p == Arrived(e)
<1>0. x \in Ends /\ x # e /\ Peer(x) = e /\ \A y \in Ends : y = e \/ y = x
  BY EndsArePeers
<1>1. /\ Good(s) /\ Good(q) /\ Typed(u) /\ Tame(s, FALSE) /\ Tame(q, FALSE) /\ Role(e, s)
      /\ Role(x, q) /\ Leaves(q, r, p) /\ p \in Packets /\ p.len = 0
  BY ArrivalFacts DEF Good, Proper
<1>2. losses \in Nat /\ losses' \in Nat /\ losses <= losses'
  BY LossesNat DEF Arrives
<1> HIDE DEF s, q, p
<1>3. u = CloseAndNotify(s) /\ p.flags = "RST" /\ s.bound
  BY DEF s, p
<1>4. /\ u.out = s.out /\ u.wrote = s.wrote /\ u.closed = s.closed
      /\ u.shutdownSend = s.shutdownSend /\ u.slow = s.slow /\ u.head = s.head /\ u.got = s.got
      /\ u.high = s.high /\ u.next = s.next /\ u.unread = s.unread
      /\ u.dataRetrCount = s.dataRetrCount /\ u.rx = s.rx /\ u.state = "CLOSED"
      /\ ~u.bound /\ u.delAck = 0 /\ u.retx = "none" /\ ~u.lastAck
  BY <1>1, <1>3, ClosedFields DEF Good
<1>5. s.high \in Nat /\ s.high <= u.high /\ q.high \in Nat /\ r.high = q.high /\ s.rx <= u.rx
  <2>1. s.high \in Nat /\ q.high \in Nat /\ r.high = q.high /\ s.rx \in Nat
    BY <1>1 DEF Good, Typed, Leaves
  <2> QED
    BY <1>4, <2>1
<1>6. Climbing(u) /\ Longer(s, u)
  BY <1>1, <1>4, <1>5, ClimbKept DEF Tame, Good
<1>7. Shape(u, FALSE)
  BY <1>1, <1>4 DEF Tame, Shape
<1>8. Role(e, u)
  BY <1>1, <1>3, ResetRole DEF Good
<1>9. Beginning'
  <2>1. ~(e = "client" /\ r.high = 0)
    <3> SUFFICES ASSUME e = "client", q.high = 0 PROVE FALSE
      BY <1>5
    <3>1. p.flags = "SYNACK"
      BY <1>1 DEF Leaves, Peer
    <3> QED
      BY <1>3, <3>1
  <2> QED
    BY <1>2, <1>5, <2>1, ArrivalBeginning DEF s
<1>10. Spoiled' \/ u.high = 0 \/ r.high = 0 \/ (Tidy(u, r) /\ Tidy(r, u))
  <2>1. Spoils(s) => Spoils(u)
    BY <1>3, <1>4 DEF Spoils
  <2>2. CASE Spoiled
    BY <1>2, <2>1, <2>2, ArrivalSpoils DEF s
  <2>3. CASE ~Spoiled /\ u.high # 0 /\ r.high # 0
    <3>1. ~(\E y \in Ends : sock[y].high = 0)
      BY <1>0, <1>4, <1>5, <2>3 DEF s, q
    <3>2. \A y \in Ends : Tidy(sock[y], sock[Peer(y)])
      BY <2>3, <3>1, Zenon DEF Arrives, Conduct
    <3>3. Tidy(q, s) /\ ~Spoils(q) /\ q.high >= 1
      BY <1>0, <1>5, <2>3, <3>2 DEF s, q, Spoiled
    <3>4. Ended(u) = Ended(s)
      BY <1>4 DEF Ended
    <3>5. u.wrote = s.wrote /\ u.got = s.got /\ (u.state = "CLOSED" \/ u.state = s.state)
      BY <1>4
    <3>6. Tidy(u, r) /\ Tidy(r, u)
      BY <1>1, <1>3, <3>3, <3>4, <3>5, ResetTidy
    <3> QED
      BY <3>6
  <2> QED
    BY <2>2, <2>3
<1> QED
  <2>1. Tame(u, FALSE) /\ u.head = s.head
    BY <1>4, <1>6, <1>7 DEF Tame
  <2> QED
    BY <1>6, <1>8, <1>9, <1>10, <2>1, ArrivalConduct DEF s

\* The packet finds a connected socket,
LEMMA ConnectedArrival ==
    ASSUME NEW e \in Ends, NEW u, NEW r, Arrives(e, u, r), losses' = losses, sock[e].bound,
           sock[e].high >= 1, Moved(sock[e], u, FALSE, Ackd(Arrived(e))),
           Arrived(e).len = 1 => u.got \/ sock[e].rx >= 2,
           Arrived(e).flags = "SYNACK" /\ ~(sock[e].rx >= 2) => u = sock[e]
    PROVE  Conduct'
<1> DEFINE x == Peer(e)
           s == sock[e]
           q == sock[x]
           p == Arrived(e)
           k == Ackd(p)
<1>1. /\ Good(s) /\ Good(q) /\ Typed(u) /\ Role(e, s) /\ Role(x, q) /\ Leaves(q, r, p)
      /\ Near(s, q)
  BY ArrivalFacts DEF Good
<1>2. losses \in Nat /\ losses' \in Nat /\ losses <= losses'
  BY LossesNat DEF Arrives
<1>3. Tame(u, FALSE) /\ Moves(s, u, k) /\ Longer(s, u) /\ u.head \in {s.head, k}
      /\ s.high <= u.high
  BY DEF Moved, Moves
<1> HIDE DEF s, q, p, k
<1>4. s.high >= 1 /\ r.high = q.high /\ q.high \in Nat /\ s.rx \in Nat
  BY <1>1 DEF s, Good, Typed, Leaves
<1>5. Role(e, u)
  BY <1>1, <1>3, <1>4, ConnectedRole DEF Good
<1>6. Beginning'
  <2>1. ASSUME e = "client", r.high = 0
        PROVE  (u.bound \/ u.dataRetrCount = 0) /\ (losses' > 0 \/ Covers(u))
    <3>1. p.flags = "SYNACK"
      BY <1>1, <1>4, <2>1 DEF Leaves, Peer
    <3>2. ~(s.rx >= 2)
      <4>1. s.rx <= 1 \/ s.rx <= q.high
        BY <1>1, <1>4, <2>1 DEF Near
      <4> QED
        BY <1>4, <2>1, <4>1
    <3>3. u = s
      BY <3>1, <3>2 DEF s, p
    <3>4. sock["client"] = s /\ sock["server"] = q
      BY <2>1 DEF Peer, s, q
    <3> QED
      BY <1>4, <2>1, <3>3, <3>4 DEF Arrives, Conduct, Beginning
  <2> QED
    BY <1>2, <1>3, <2>1, ArrivalBeginning DEF s
<1>7. Spoiled' \/ u.high = 0 \/ r.high = 0 \/ (Tidy(u, r) /\ Tidy(r, u))
  <2>1. CASE q.high >= 1
    BY <2>1, ArrivalMain DEF s, q, p, k
  <2>2. CASE ~(q.high >= 1)
    BY <1>4, <2>2
  <2> QED
    BY <2>1, <2>2
<1> QED
  BY <1>3, <1>5, <1>6, <1>7, ArrivalConduct DEF s, p, k

LEMMA ForwardConnected ==
    ASSUME NEW e \in Ends, NEW u, NEW r, Arrives(e, u, r), losses' = losses, sock[e].bound,
           sock[e].high >= 1,
           u = IF Arrived(e).len > 0 /\ OutOfRange(sock[e], Arrived(e))
               THEN SendEmptyPacket(sock[e], "ACK") ELSE DoForwardUp(sock[e], Arrived(e))
    PROVE  Conduct'
<1> DEFINE x == Peer(e)
           s == sock[e]
           q == sock[x]
           p == Arrived(e)
           k == Ackd(p)
<1>1. /\ Good(s) /\ Own(s, FALSE) /\ Opened(s) /\ Tame(s, FALSE) /\ Marks(s)
      /\ Good(q) /\ Near(q, s) /\ Ahead(s, q) /\ Leaves(q, r, p)
      /\ Proper(p) /\ p \in Packets /\ PacketOwn(q, FALSE, p)
  BY ArrivalFacts DEF Proper
<1>2. s.bound /\ s.high >= 1
  OBVIOUS
<1>3. u = IF p.len > 0 /\ OutOfRange(s, p) THEN SendEmptyPacket(s, "ACK") ELSE DoForwardUp(s, p)
  OBVIOUS
<1> HIDE DEF s, q, p, k
<1>4. s.rx >= 1 /\ s.rx \in Nat /\ ~(s.high = 0)
  BY <1>1, <1>2 DEF Marks, Good, Typed
<1>5. s.state \notin {"CLOSED", "SYN_SENT", "SYN_RCVD"}
  BY <1>1, <1>2, <1>4 DEF Opened, Tame, Shape
<1>6. CASE p.len > 0 /\ OutOfRange(s, p)
  <2>1. u = SendEmptyPacket(s, "ACK")
    BY <1>3, <1>6
  <2>2. Moved(s, u, FALSE, k)
    BY <1>1, <1>4, <2>1, EmptyMoves DEF Good, Flags
  <2>3. s.rx >= 2
    <3>1. p.seq = 1 /\ p.len = 1
      BY <1>1, <1>6 DEF Proper, Packets
    <3>2. CASE s.state \in {"LAST_ACK", "CLOSING", "CLOSE_WAIT"}
      BY <1>1, <3>2 DEF Tame, Shape
    <3>3. CASE s.state \notin {"LAST_ACK", "CLOSING", "CLOSE_WAIT"}
      <4>1. p.seq + p.len < s.rx
        BY <1>5, <1>6, <3>3 DEF OutOfRange
      <4> QED
        BY <1>4, <3>1, <4>1
    <3> QED
      BY <3>2, <3>3
  <2> QED
    BY <2>2, <2>3, ConnectedArrival DEF s, p, k
<1>7. CASE ~(p.len > 0 /\ OutOfRange(s, p)) /\ p.flags # "RST"
  <2>1. u = DoForwardUp(s, p)
    BY <1>3, <1>7
  <2>2. Moved(s, u, FALSE, k)
    BY <1>1, <1>2, <1>4, <1>7, <2>1, DoForwardUpMoves DEF k
  <2>3. p.len = 1 => u.got \/ s.rx >= 2
    <3> SUFFICES ASSUME p.len = 1, ~(s.rx >= 2) PROVE u.got
      OBVIOUS
    <3>1. Acks(p)
      BY <1>1 DEF Proper, Packets, Flags, Acks
    <3>2. s.head <= p.ack
      BY <1>1, <3>1 DEF Leaves
    <3>3. s.state = "ESTABLISHED" => p.ack <= s.high
      <4> SUFFICES ASSUME s.state = "ESTABLISHED" PROVE p.ack <= s.high
        OBVIOUS
      <4>1. q.rx <= 1 \/ q.rx <= s.high
        BY <1>1 DEF Near
      <4>2. p.ack <= q.rx /\ p.ack \in Nat /\ q.rx \in Nat /\ s.high \in Nat
        BY <1>1 DEF PacketOwn, Packets, Good, Typed
      <4> QED
        BY <1>2, <4>1, <4>2
    <3> QED
      BY <1>1, <1>2, <2>1, <3>2, <3>3, DoForwardUpGets
  <2>4. p.flags = "SYNACK" /\ ~(s.rx >= 2) => u = s
    <3> SUFFICES ASSUME p.flags = "SYNACK", ~(s.rx >= 2) PROVE u = s
      OBVIOUS
    <3>1. s.state \in {"ESTABLISHED", "FIN_WAIT_1", "FIN_WAIT_2"}
      BY <1>1, <1>5 DEF Good, Typed, States, Tame, Shape
    <3> QED
      BY <2>1, <3>1 DEF DoForwardUp, ProcessEstablished, ProcessWait
  <2> QED
    BY <2>2, <2>3, <2>4, ConnectedArrival DEF s, p, k
<1>8. CASE ~(p.len > 0 /\ OutOfRange(s, p)) /\ p.flags = "RST"
  <2>1. u = s \/ u = CloseAndNotify(s)
    BY <1>3, <1>8, DoForwardUpRst
  <2>2. CASE u = s
    <3>1. Moved(s, u, FALSE, k)
      BY <1>1, <2>2, MovedItself DEF Good
    <3>2. p.len # 1
      BY <1>1, <1>8 DEF Proper
    <3> QED
      BY <2>2, <3>1, <3>2, ConnectedArrival DEF s, p, k
  <2>3. CASE u = CloseAndNotify(s)
    BY <1>8, <2>3, ResetConduct DEF s, p
  <2> QED
    BY <2>1, <2>2, <2>3
<1> QED
  <2>1. p.flags = "RST" => ~(p.len > 0)
    BY <1>1 DEF Proper
  <2> QED
    BY <1>6, <1>7, <1>8, <2>1

\* or connects the client,
LEMMA ForwardClient ==
    ASSUME NEW u, NEW r, Arrives("client", u, r), losses' = losses, sock["client"].bound,
           sock["client"].high = 0, u = DoForwardUp(sock["client"], Arrived("client"))
    PROVE  Conduct'
<1> DEFINE e == "client"
           x == Peer(e)
           s == sock[e]
           q == sock[x]
           p == Arrived(e)
           k == Ackd(p)
<1>0. e \in Ends /\ x = "server"
  BY DEF Ends, Peer
<1>1. /\ Good(s) /\ Own(s, FALSE) /\ Opened(s) /\ Tame(s, FALSE) /\ Role(e, s) /\ Marks(s)
      /\ Typed(u) /\ Leaves(q, r, p) /\ Proper(p) /\ p \in Packets
  <2> HIDE DEF e
  <2> QED
    BY <1>0, ArrivalFacts DEF Proper, Good, e
<1>2. losses \in Nat /\ losses' \in Nat /\ losses <= losses'
  BY LossesNat DEF Arrives
<1>3. r.high = 0
  <2>1. Delivery
    BY DEF Arrives, Inv
  <2>2. q.high = 0
    BY <1>0, <2>1 DEF Delivery, Handshake, Early
  <2> QED
    BY <1>1, <2>2 DEF Leaves
<1>4. s.bound /\ s.high = 0 /\ u = DoForwardUp(s, p)
  OBVIOUS
<1> HIDE DEF s, q, p, k
<1>5. s.state = "SYN_SENT"
  BY <1>1, <1>4 DEF Tame, Shape, Role, Own, Fields, Opening
<1>6. u = ProcessSynSent(s, p)
  BY <1>4, <1>5 DEF DoForwardUp
<1>7. CASE p.flags = "RST"
  <2>1. u = CloseAndNotify(s)
    BY <1>6, <1>7 DEF ProcessSynSent
  <2>2. Arrives(e, u, r) /\ sock[e].bound /\ Arrived(e).flags = "RST" /\ u = CloseAndNotify(sock[e])
    BY <1>7, <2>1 DEF s, p
  <2> HIDE DEF e
  <2> QED
    BY <1>0, <2>2, ResetConduct
<1>8. CASE p.flags # "RST"
  <2>1. Moved(s, u, FALSE, k)
    <3>1. s.high >= 1 \/ s.state = "SYN_RCVD" => s.rx >= 1
      BY <1>4, <1>5
    <3> QED
      BY <1>1, <1>4, <1>8, <3>1, DoForwardUpMoves DEF k
  <2>2. Role(e, u) /\ (u.high = 0 \/ (u.bound /\ Covers(u)))
    BY <1>1, <1>4, <1>5, <1>6, SynSentRole
  <2>3. s.high <= u.high
    BY <2>1 DEF Moved, Moves
  <2>4. u.high >= 1 => u.high # 0
    OBVIOUS
  <2>5. Tame(u, FALSE) /\ Longer(s, u) /\ u.head \in {s.head, k}
    BY <2>1 DEF Moved, Moves
  <2> HIDE DEF e
  <2>6. Arrives(e, u, r)
    BY DEF e
  <2>7. Beginning'
    BY <1>0, <1>2, <2>2, <2>3, <2>4, <2>6, ArrivalBeginning DEF s
  <2> QED
    BY <1>0, <1>3, <2>2, <2>5, <2>6, <2>7, ArrivalConduct DEF s, p, k
<1> QED
  BY <1>7, <1>8

\* What connects the server leaves both ends tidy.
LEMMA ConnectsServer ==
    ASSUME NEW s, NEW u, NEW q, NEW r, NEW p, Good(s), Own(s, FALSE), Tame(s, FALSE), s.bound,
           s.state = "SYN_RCVD", s.high = 0, ~s.wrote, Proper(p), u = ProcessSynRcvd(s, p),
           p.flags # "SYNACK", p.flags = "ACK" => p.ack = s.next + 1, Role("server", s),
           Moved(s, u, FALSE, Ackd(p)), u.high >= 1, u.rx >= 2 => Settled(q, u),
           Leaves(q, r, p), PacketOwn(q, FALSE, p), q.bound, Covers(q), ~Spoils(u)
    PROVE  Tidy(u, r) /\ Tidy(r, u)
<1>1. Tame(u, FALSE) /\ Moves(s, u, Ackd(p)) /\ u.wrote = s.wrote
  BY DEF Moved, Moves
<1>2. ~u.bound => Settled(q, u)
  BY <1>1, ExitSettles DEF Moves
<1>3. /\ r.bound /\ r.got = q.got /\ r.wrote = q.wrote /\ r.next = q.next
      /\ Ended(r) = Ended(q) /\ r.state = q.state
  BY DEF Leaves
<1>4. Tidy(u, r)
  BY <1>1, <1>2, <1>3, Zenon DEF Tidy, Owed, Settled
<1>5. r.next >= 2 => ~Owed(r, u)
  <2> SUFFICES ASSUME q.next >= 2, q.wrote, ~u.got, ~HasData(r) PROVE FALSE
    BY <1>3 DEF Owed
  <2>1. ~(p.flags = "ACK" /\ p.len = 0)
    BY DEF Covers, Leaves
  <2>2. p.len # 1
    BY SynRcvdGets
  <2>3. p.len = 0 /\ p.seq \in Nat
    BY <2>2 DEF Proper, Packets
  <2>4. u.high # 0
    OBVIOUS
  <2>5. p.flags = "FIN" /\ p.seq = s.rx
    BY <2>1, <2>3, <2>4, SynRcvdRole
  <2>6. s.rx <= 1
    BY DEF Own, Fields, Opening
  <2>7. p.seq >= 1
    BY <2>3, <2>5 DEF Proper
  <2>8. p.seq = 1
    BY <2>3, <2>5, <2>6, <2>7
  <2> QED
    BY <2>3, <2>5, <2>8 DEF PacketOwn
<1>6. Tidy(r, u)
  BY <1>3, <1>5, Zenon DEF Tidy
<1> QED
  BY <1>4, <1>6

\* or connects the server.
LEMMA ForwardServer ==
    ASSUME NEW u, NEW r, Arrives("server", u, r), losses' = losses, sock["server"].bound,
           sock["server"].high = 0, u = DoForwardUp(sock["server"], Arrived("server"))
    PROVE  Conduct'
<1> DEFINE e == "server"
           x == Peer(e)
           s == sock[e]
           q == sock[x]
           p == Arrived(e)
           k == Ackd(p)
<1>0. e \in Ends /\ x = "client"
  BY DEF Ends, Peer
<1>1. /\ Good(s) /\ Own(s, FALSE) /\ Opened(s) /\ Tame(s, FALSE) /\ Role(e, s) /\ Marks(s)
      /\ Good(q) /\ Role(x, q) /\ Near(q, s)
      /\ Typed(u) /\ Leaves(q, r, p) /\ Proper(p) /\ p \in Packets /\ PacketOwn(q, FALSE, p)
      /\ u.rx >= 2 => Settled(q, u)
  <2> HIDE DEF e
  <2> QED
    BY <1>0, ArrivalFacts DEF Proper, Good, e
<1>2. losses \in Nat /\ losses' \in Nat /\ losses <= losses'
  BY LossesNat DEF Arrives
<1>3. s.state # "SYN_SENT"
  BY DEF Arrives, Inv, Delivery, Handshake
<1>4. s.bound /\ s.high = 0 /\ u = DoForwardUp(s, p) /\ losses' = losses
  OBVIOUS
<1>5. Arrives(e, u, r)
  OBVIOUS
<1>6. q.high >= 1 => (q.bound \/ q.dataRetrCount = 0) /\ (losses > 0 \/ Covers(q))
  BY <1>0, <1>4 DEF Arrives, Conduct, Beginning
<1> HIDE DEF s, q, p, k
<1>7. s.state = "SYN_RCVD" /\ ~s.wrote
  BY <1>1, <1>3, <1>4 DEF Tame, Shape, Own, Fields, Opening, Role
<1>8. u = ProcessSynRcvd(s, p)
  BY <1>4, <1>7 DEF DoForwardUp
<1>9. CASE p.flags = "RST"
  <2>1. u = CloseAndNotify(s)
    BY <1>8, <1>9 DEF ProcessSynRcvd
  <2>2. sock[e].bound /\ Arrived(e).flags = "RST" /\ u = CloseAndNotify(sock[e])
    BY <1>4, <1>9, <2>1 DEF s, p
  <2> HIDE DEF e
  <2> QED
    BY <1>0, <1>5, <2>2, ResetConduct
<1>10. CASE p.flags # "RST"
  <2>1. Moved(s, u, FALSE, k)
    <3>1. s.high >= 1 \/ s.state = "SYN_RCVD" => s.rx >= 1
      BY <1>1 DEF Marks
    <3> QED
      BY <1>1, <1>4, <1>10, <3>1, DoForwardUpMoves DEF k
  <2>2. p.flags # "SYNACK"
    BY <1>0, <1>1 DEF Leaves
  <2>3. p.flags = "ACK" => p.ack = s.next + 1
    <3> SUFFICES ASSUME p.flags = "ACK" PROVE p.ack = 1 /\ s.next = 0
      OBVIOUS
    <3>1. p.ack >= 1 /\ p.ack <= q.rx
      BY <1>1 DEF Leaves, Acks, PacketOwn
    <3>2. q.rx <= 1 \/ q.rx <= s.high
      BY <1>1, <1>4 DEF Near
    <3>3. p.ack \in Nat /\ q.rx \in Nat
      BY <1>1 DEF Packets, Good, Typed
    <3>4. s.next = 0
      BY <1>1, <1>4 DEF Own, Fields, Opening
    <3> QED
      BY <1>4, <3>1, <3>2, <3>3, <3>4
  <2>4. Role(e, u)
    BY <1>1, <1>4, <1>7, <1>8, <2>2, <2>3, SynRcvdRole
  <2>5. s.high <= u.high /\ Tame(u, FALSE) /\ Longer(s, u) /\ u.head \in {s.head, k}
    BY <2>1 DEF Moved, Moves
  <2>6. Spoiled' \/ u.high = 0 \/ r.high = 0 \/ (Tidy(u, r) /\ Tidy(r, u))
    <3> SUFFICES ASSUME u.high # 0, r.high # 0
                 PROVE  Spoiled' \/ (Tidy(u, r) /\ Tidy(r, u))
      OBVIOUS
    <3>1. u.high >= 1 /\ q.high >= 1
      <4>1. u.high \in Nat /\ q.high \in Nat /\ r.high = q.high
        BY <1>1 DEF Good, Typed, Leaves
      <4> QED
        BY <4>1
    <3>2. CASE losses > 0
      BY <1>4, <3>2 DEF Spoiled
    <3>3. CASE ~q.bound
      <4>1. Spoils(r)
        BY <1>1, <1>6, <3>1, <3>3 DEF Leaves, Spoils
      <4>2. sock'[x] = r /\ x \in Ends
        BY <1>0, <1>5 DEF Arrives, Ends
      <4> QED
        BY <4>1, <4>2 DEF Spoiled
    <3>4. CASE Spoils(u)
      <4>1. sock'[e] = u
        BY <1>5 DEF Arrives
      <4> QED
        BY <1>0, <3>4, <4>1 DEF Spoiled
    <3>5. CASE ~(losses > 0) /\ q.bound /\ ~Spoils(u)
      <4>1. Covers(q) /\ Role("server", s)
        BY <1>1, <1>6, <3>1, <3>5
      <4> QED
        BY <1>1, <1>4, <1>7, <1>8, <2>1, <2>2, <2>3, <3>1, <3>5, <4>1, ConnectsServer DEF k
    <3> QED
      BY <3>2, <3>3, <3>4, <3>5
  <2> HIDE DEF e
  <2>7. Beginning'
    <3>1. e # "client"
      BY DEF e
    <3> QED
      BY <1>0, <1>2, <1>5, <2>5, <3>1, ArrivalBeginning DEF s
  <2> QED
    BY <1>0, <1>5, <2>4, <2>5, <2>6, <2>7, ArrivalConduct DEF s, p, k
<1> QED
  BY <1>9, <1>10

\* Whatever arrives or is lost.
LEMMA ArrivalKeepsConduct ==
    ASSUME Inv, Inv', Fitness, Fitness', Conduct,
           \/ ProcessListen \/ NoEndPoint
           \/ \E e \in Ends : ForwardUp(e) \/ Lose(e)
    PROVE  Conduct'
<1>1. CASE ProcessListen
  <2>1. /\ Arriving("server") /\ TakesPacket("server", sock["server"]) /\ losses' = losses
        /\ ~sock["server"].bound /\ "server" \in Ends
    BY <1>1 DEF ProcessListen, Ends
  <2>2. PICK r : Arrives("server", sock["server"], r)
    BY <2>1, ArrivalArrives
  <2> QED
    BY <2>1, <2>2, UnboundConduct
<1>2. CASE NoEndPoint
  <2> DEFINE s == sock["client"]
             u == IF Arrived("client").flags = "RST" THEN s
                  ELSE Answered(s)
  <2>1. /\ Arriving("client") /\ TakesPacket("client", u) /\ losses' = losses
        /\ ~sock["client"].bound /\ "client" \in Ends
    BY <1>2 DEF NoEndPoint, Ends, Answered
  <2>2. u = sock["client"] \/ u = Answered(sock["client"])
    OBVIOUS
  <2> HIDE DEF u
  <2>3. PICK r : Arrives("client", u, r)
    BY <2>1, ArrivalArrives
  <2> QED
    BY <2>1, <2>2, <2>3, UnboundConduct
<1>3. ASSUME NEW e \in Ends, ForwardUp(e) PROVE Conduct'
  <2> DEFINE s == sock[e]
             p == Arrived(e)
             u == IF p.len > 0 /\ OutOfRange(s, p) THEN SendEmptyPacket(s, "ACK")
                  ELSE DoForwardUp(s, p)
  <2>1. Arriving(e) /\ TakesPacket(e, u) /\ losses' = losses /\ sock[e].bound
    BY <1>3 DEF ForwardUp
  <2>2. u = IF Arrived(e).len > 0 /\ OutOfRange(sock[e], Arrived(e))
            THEN SendEmptyPacket(sock[e], "ACK") ELSE DoForwardUp(sock[e], Arrived(e))
    OBVIOUS
  <2> HIDE DEF u
  <2>3. PICK r : Arrives(e, u, r)
    BY <2>1, ArrivalArrives
  <2>4. Own(s, FALSE) /\ Tame(s, FALSE) /\ Good(s)
    BY DEF Inv, Delivery, Conduct, AllGood
  <2>5. CASE s.high >= 1
    BY <2>1, <2>2, <2>3, <2>5, ForwardConnected
  <2>6. CASE s.high = 0
    <3>1. s.state \in {"SYN_SENT", "SYN_RCVD"}
      BY <2>1, <2>4, <2>6 DEF Own, Fields, Opening, Tame, Shape
    <3>2. u = DoForwardUp(sock[e], Arrived(e))
      BY <2>2, <3>1 DEF OutOfRange
    <3>3. CASE e = "client"
      BY <2>1, <2>3, <2>6, <3>2, <3>3, ForwardClient
    <3>4. CASE e = "server"
      BY <2>1, <2>3, <2>6, <3>2, <3>4, ForwardServer
    <3> QED
      BY <3>3, <3>4 DEF Ends
  <2> QED
    BY <2>4, <2>5, <2>6 DEF Good, Typed
<1>4. ASSUME NEW e \in Ends, Lose(e) PROVE Conduct'
  <2>1. Arriving(e) /\ TakesPacket(e, sock[e]) /\ losses' = losses + 1
    BY <1>4 DEF Lose
  <2>2. PICK r : Arrives(e, sock[e], r)
    BY <2>1, ArrivalArrives
  <2> QED
    BY <2>1, <2>2, LoseConduct
<1> QED
  BY <1>1, <1>2, <1>3, <1>4

----------------------------------------------------------------------------
(* Calls of the application and timers.                                     *)

\* What a handler sends besides data is an ACK by itself only if it must be.
LEMMA EmptySends ==
    ASSUME NEW s, Socket(s), Typed(s), NEW f \in Flags, f = "ACK" => s.got
    PROVE  LET u == SendEmptyPacket(s, f)
           IN  Sends(s, u) /\ (s.state = "CLOSED" => u.state = "CLOSED")
<1>1. ASSUME NEW t, Socket(t), Typed(t), t.out = s.out, t.next = s.next, t.got = s.got,
             t.state = s.state
      PROVE  Sends(s, Emit(t, f)) /\ Emit(t, f).state = s.state
  <2> DEFINE u == Emit(t, f)
             y == IF f # "FIN" /\ t.state \in {"FIN_WAIT_1", "LAST_ACK", "CLOSING"}
                  THEN t.next + 1 ELSE t.next
             x == Packet(f, y, t.rx, 0)
  <2>1. u.out = Append(s.out, x) /\ u.next = s.next /\ u.state = s.state
    BY <1>1 DEF Emit, Socket
  <2>2. y \in Nat
    <3>1. t.next \in Nat
      BY <1>1 DEF Typed
    <3> QED
      BY <3>1
  <2> HIDE DEF y
  <2>3. x \in Packets /\ x.flags = f
    BY <1>1, <2>2 DEF Packet, Packets, Typed
  <2> HIDE DEF x, u
  <2> QED
    BY <2>1, <2>3 DEF Sends, u
<1> DEFINE t == [s EXCEPT !.synCount = @ - 1]
           c == CloseAndNotify(s)
<1>2. CASE ~s.bound \/ f \notin {"SYN", "SYNACK"} \/ s.synCount = 0
  <2>1. c.out = s.out /\ c.next = s.next /\ c.state = "CLOSED"
    BY DEF CloseAndNotify, DeallocateEndPoint, Socket
  <2> HIDE DEF c
  <2>2. Sends(s, c) /\ Sends(s, s)
    BY <2>1 DEF Sends
  <2>3. Sends(s, Emit(s, f)) /\ Emit(s, f).state = s.state
    BY <1>1
  <2>4. SendEmptyPacket(s, f) \in {s, Emit(s, f), c}
    BY <1>2 DEF SendEmptyPacket, c
  <2> QED
    BY <2>1, <2>2, <2>3, <2>4
<1>3. CASE ~(~s.bound \/ f \notin {"SYN", "SYNACK"} \/ s.synCount = 0)
  <2>1. Socket(t) /\ Typed(t)
    <3> DEFINE n == s.synCount - 1
    <3>1. n \in 0 .. SynRetries
      <4>1. s.synCount \in 0 .. SynRetries
        BY DEF Typed
      <4> QED
        BY <1>3, <4>1, ConnectionAssumption
    <3>2. t = [s EXCEPT !.synCount = n]
      OBVIOUS
    <3> HIDE DEF n, t
    <3> QED
      BY <3>1, <3>2 DEF Socket, Typed
  <2>2. t.out = s.out /\ t.next = s.next /\ t.got = s.got /\ t.state = s.state
    BY DEF Socket
  <2>3. SendEmptyPacket(s, f) = Emit(t, f)
    BY <1>3 DEF SendEmptyPacket
  <2> HIDE DEF t
  <2> QED
    BY <1>1, <2>1, <2>2, <2>3
<1> QED
  BY <1>2, <1>3

LEMMA DataSends ==
    ASSUME NEW s, Socket(s), Typed(s), NEW seq \in Nat
    PROVE  LET u == SendDataPacket(s, seq)
           IN  Sends(s, u) /\ (s.state = "CLOSED" => u.state = "CLOSED")
<1> DEFINE u == SendDataPacket(s, seq)
           last == s.closeOnEmpty /\ seq + 1 = s.tail
           x == Packet(IF last THEN "FIN" ELSE "ACK", seq, s.rx, 1)
<1>1. x \in Packets /\ x.len = 1
  BY DEF Packet, Packets, Flags, Typed
<1>2. u.out = Append(s.out, x)
  BY DEF SendDataPacket, Socket
<1>3. s.state = "CLOSED" => u.state = "CLOSED"
  BY DEF SendDataPacket, Socket
<1> HIDE DEF x, u
<1> QED
  BY <1>1, <1>2, <1>3 DEF Sends, u

\* A handler that moves a socket and sends so passes it on.
LEMMA MovesPass ==
    ASSUME NEW s, NEW u, Moved(s, u, FALSE, 0), s.state = "CLOSED" => u.state = "CLOSED",
           Sends(s, u)
    PROVE  Passed(s, u)
<1>1. ~(0 >= 2)
  OBVIOUS
<1>2. Passes(s, u)
  BY <1>1, Zenon DEF Moved, Moves, Passes, Ended
<1> QED
  BY <1>2 DEF Passed, Moved

\* A timer that expires, or data that are read, change only that.
LEMMA ExpiredMoves ==
    ASSUME NEW s, Good(s), Own(s, FALSE), Tame(s, FALSE), NEW n,
           n \in {[s EXCEPT !.retx = "none"], [s EXCEPT !.lastAck = FALSE],
                  [s EXCEPT !.sendEvent = FALSE]}
    PROVE  /\ Socket(n) /\ Typed(n) /\ Moved(s, n, FALSE, 0)
           /\ n.out = s.out /\ n.next = s.next /\ n.got = s.got /\ n.state = s.state
           /\ n.bound = s.bound /\ n.rx = s.rx /\ n.high = s.high
           /\ n.dataRetrCount = s.dataRetrCount
<1>1. Socket(n) /\ Typed(n)
  BY SMTT(30) DEF Good, Socket, Typed
<1>2. /\ n.out = s.out /\ n.wrote = s.wrote /\ n.closed = s.closed
      /\ n.shutdownSend = s.shutdownSend /\ n.slow = s.slow /\ n.head = s.head /\ n.got = s.got
      /\ n.high = s.high /\ n.next = s.next /\ n.unread = s.unread
      /\ n.dataRetrCount = s.dataRetrCount /\ n.rx = s.rx /\ n.state = s.state
      /\ n.bound = s.bound /\ n.delAck = s.delAck /\ n.retx \in {s.retx, "none"}
      /\ (n.lastAck => s.lastAck)
  BY SMTT(30) DEF Good, Socket
<1>3. Shape(n, FALSE)
  BY <1>2 DEF Tame, Shape, Ended
<1>4. s.rx <= n.rx
  BY <1>2 DEF Good, Typed
<1>5. Moved(s, n, FALSE, 0)
  BY <1>1, <1>2, <1>3, <1>4, FieldsMove DEF Tame, Good
<1> QED
  BY <1>1, <1>2, <1>5

\* What follows a timer that expired.
LEMMA PassesOn ==
    ASSUME NEW s, NEW n, NEW u, Typed(s), Typed(n), Typed(u), Moved(s, n, FALSE, 0),
           n.out = s.out, n.next = s.next, n.got = s.got, n.state = s.state,
           Moved(n, u, FALSE, 0), n.state = "CLOSED" => u.state = "CLOSED", Sends(n, u)
    PROVE  Passed(s, u)
<1>1. Moved(s, u, FALSE, 0)
  BY MovedTrans
<1>2. Sends(s, u)
  BY DEF Sends
<1> QED
  BY <1>1, <1>2, MovesPass

\* The timers of a connected socket.
LEMMA PendingPasses ==
    ASSUME NEW s, Good(s), Own(s, FALSE), Tame(s, FALSE), s.rx >= 1, s.high >= 1
    PROVE  Passed(s, SendPendingData([s EXCEPT !.sendEvent = FALSE]))
<1> DEFINE n == [s EXCEPT !.sendEvent = FALSE]
           u == SendPendingData(n)
<1>1. /\ Socket(n) /\ Typed(n) /\ Moved(s, n, FALSE, 0)
      /\ n.out = s.out /\ n.next = s.next /\ n.got = s.got /\ n.state = s.state
      /\ n.bound = s.bound /\ n.rx = s.rx /\ n.high = s.high
  BY ExpiredMoves
<1>2. Good(n)
  BY DEF Good, Socket, Typed, Guarded
<1> HIDE DEF n
<1>3. n.rx >= 1 /\ n.high >= 1 /\ Tame(n, FALSE)
  BY <1>1 DEF Moved
<1>4. Moved(n, u, FALSE, 0)
  BY <1>2, <1>3, PendingMoves
<1>5. Sends(n, u) /\ (n.state = "CLOSED" => u.state = "CLOSED")
  <2>1. n.next \in Nat
    BY <1>1 DEF Typed
  <2>2. Sends(n, n)
    BY DEF Sends
  <2> QED
    BY <1>1, <2>1, <2>2, DataSends DEF SendPendingData
<1>6. Typed(u) /\ Typed(s)
  BY <1>2, PendingDataGood DEF Good
<1> HIDE DEF u
<1> QED
  BY <1>1, <1>4, <1>5, <1>6, PassesOn DEF u, n

LEMMA RepeatPasses ==
    ASSUME NEW s, Good(s), Own(s, FALSE), Tame(s, FALSE), s.rx >= 1, s.high >= 1
    PROVE  LET n == [s EXCEPT !.retx = "none"]
           IN  Passed(s, n) /\ Passed(s, SendEmptyPacket(n, "FIN"))
<1> DEFINE n == [s EXCEPT !.retx = "none"]
           u == SendEmptyPacket(n, "FIN")
<1>1. /\ Socket(n) /\ Typed(n) /\ Moved(s, n, FALSE, 0)
      /\ n.out = s.out /\ n.next = s.next /\ n.got = s.got /\ n.state = s.state
      /\ n.bound = s.bound /\ n.rx = s.rx /\ n.high = s.high
  BY ExpiredMoves
<1> HIDE DEF n
<1>2. n.rx >= 1 /\ Tame(n, FALSE)
  BY <1>1 DEF Moved
<1>3. Typed(u) /\ Typed(s)
  BY <1>1, EmptyPacketGood DEF Flags, Good
<1>4. Moved(n, u, FALSE, 0)
  BY <1>1, <1>2, EmptyMoves DEF Flags
<1>5. Sends(n, u) /\ (n.state = "CLOSED" => u.state = "CLOSED")
  BY <1>1, EmptySends DEF Flags
<1>6. Passed(s, n)
  <2>1. Sends(s, n)
    BY <1>1 DEF Sends
  <2> QED
    BY <1>1, <2>1, MovesPass
<1> HIDE DEF u
<1>7. Passed(s, u)
  BY <1>1, <1>3, <1>4, <1>5, PassesOn
<1> QED
  BY <1>6, <1>7 DEF u, n

\* A retry is counted.
LEMMA CountedMoves ==
    ASSUME NEW s, Socket(s), Typed(s), Tame(s, FALSE), s.dataRetrCount # 0, s.bound
    PROVE  LET t == [s EXCEPT !.dataRetrCount = @ - 1]
           IN  /\ Socket(t) /\ Typed(t) /\ Moved(s, t, FALSE, 0)
               /\ t.out = s.out /\ t.next = s.next /\ t.got = s.got /\ t.state = s.state
               /\ t.bound /\ t.rx = s.rx /\ t.high = s.high
<1> DEFINE t == [s EXCEPT !.dataRetrCount = @ - 1]
<1>1. Socket(t) /\ Typed(t)
  BY RetryCounted
<1>2. /\ t.out = s.out /\ t.wrote = s.wrote /\ t.closed = s.closed
      /\ t.shutdownSend = s.shutdownSend /\ t.slow = s.slow /\ t.head = s.head /\ t.got = s.got
      /\ t.high = s.high /\ t.next = s.next /\ t.unread = s.unread
      /\ t.rx = s.rx /\ t.state = s.state
      /\ t.bound = s.bound /\ t.delAck = s.delAck /\ t.retx = s.retx /\ t.lastAck = s.lastAck
  BY DEF Socket
<1> HIDE DEF t
<1>3. s.rx <= t.rx /\ s.high <= t.high
  BY <1>2 DEF Typed
<1>4. Climbing(t) /\ Longer(s, t)
  BY <1>1, <1>2, <1>3, ClimbKept DEF Tame
<1>5. Shape(t, FALSE)
  BY <1>2 DEF Tame, Shape
<1>6. Moved(s, t, FALSE, 0)
  BY <1>2, <1>3, <1>4, <1>5, Zenon DEF Moved, Tame, Moves
<1> QED
  BY <1>1, <1>2, <1>6 DEF t

LEMMA RetryPasses ==
    ASSUME NEW s, Good(s), Own(s, FALSE), Tame(s, FALSE), s.rx >= 1, s.high >= 1, s.retx # "none"
    PROVE  LET n == [s EXCEPT !.retx = "none"]
           IN  /\ n.dataRetrCount = 0 => Passed(s, DeallocateEndPoint(n))
               /\ n.dataRetrCount # 0
                    => Passed(s, SendDataPacket([n EXCEPT !.dataRetrCount = @ - 1], n.head))
<1> DEFINE n == [s EXCEPT !.retx = "none"]
           t == [n EXCEPT !.dataRetrCount = @ - 1]
           g == DeallocateEndPoint(n)
           h == n.head
           d == SendDataPacket(t, h)
<1>1. /\ Socket(n) /\ Typed(n) /\ Moved(s, n, FALSE, 0)
      /\ n.out = s.out /\ n.next = s.next /\ n.got = s.got /\ n.state = s.state
      /\ n.bound = s.bound /\ n.rx = s.rx /\ n.high = s.high
  BY ExpiredMoves
<1>2. s.bound /\ Typed(s)
  BY DEF Tame, Shape, Good
<1>3. n.head \in Nat
  BY <1>1 DEF Typed
<1> HIDE DEF n
<1>4. n.rx >= 1 /\ Tame(n, FALSE)
  BY <1>1 DEF Moved
<1>5. ASSUME n.dataRetrCount = 0 PROVE Passed(s, g)
  <2>1. Exit(n)
    BY <1>5 DEF Exit
  <2>2. Moved(n, g, FALSE, 0) /\ Typed(g)
    BY <1>1, <1>4, <1>5, <2>1, DeallocateMoves, DeallocateGood DEF Good
  <2>3. g.out = n.out /\ g.next = n.next /\ g.state = n.state
    BY <1>1 DEF DeallocateEndPoint, Socket
  <2> HIDE DEF g
  <2>4. Sends(n, g)
    BY <2>3 DEF Sends
  <2> QED
    BY <1>1, <1>2, <2>2, <2>3, <2>4, PassesOn
<1>6. ASSUME n.dataRetrCount # 0 PROVE Passed(s, d)
  <2>1. /\ Socket(t) /\ Typed(t) /\ Moved(n, t, FALSE, 0)
        /\ t.out = n.out /\ t.next = n.next /\ t.got = n.got /\ t.state = n.state
        /\ t.bound /\ t.rx = n.rx /\ t.high = n.high
    BY <1>1, <1>2, <1>4, <1>6, CountedMoves
  <2> HIDE DEF t, h
  <2>2. t.rx >= 1 /\ t.high >= 1 /\ Tame(t, FALSE) /\ h \in Nat
    BY <1>1, <1>3, <2>1 DEF Moved, h
  <2>3. Typed(d) /\ Moved(t, d, FALSE, 0)
    BY <2>1, <2>2, DataPacketGood, DataMoves DEF Good
  <2>4. Sends(t, d) /\ (t.state = "CLOSED" => d.state = "CLOSED")
    BY <2>1, <2>2, DataSends
  <2> HIDE DEF d
  <2>5. Moved(s, t, FALSE, 0)
    BY <1>1, <1>2, <2>1, MovedTrans
  <2>6. t.out = s.out /\ t.next = s.next /\ t.got = s.got /\ t.state = s.state
    BY <1>1, <2>1
  <2> QED
    BY <1>2, <2>1, <2>3, <2>4, <2>5, <2>6, PassesOn
<1> QED
  BY <1>5, <1>6 DEF g, d, t, h, n

LEMMA LastAckPasses ==
    ASSUME NEW s, Good(s), Own(s, FALSE), Tame(s, FALSE), s.rx >= 1, s.high >= 1, s.lastAck
    PROVE  LET n == [s EXCEPT !.lastAck = FALSE]
               t == [n EXCEPT !.dataRetrCount = @ - 1]
           IN  /\ Passed(s, n)
               /\ n.dataRetrCount = 0 => Passed(s, DeallocateEndPoint(n))
               /\ n.dataRetrCount # 0
                    => Passed(s, [SendEmptyPacket(t, "FIN") EXCEPT !.lastAck = TRUE])
<1> DEFINE n == [s EXCEPT !.lastAck = FALSE]
           t == [n EXCEPT !.dataRetrCount = @ - 1]
           g == DeallocateEndPoint(n)
           u == SendEmptyPacket(t, "FIN")
           d == [u EXCEPT !.lastAck = TRUE]
<1>1. /\ Socket(n) /\ Typed(n) /\ Moved(s, n, FALSE, 0)
      /\ n.out = s.out /\ n.next = s.next /\ n.got = s.got /\ n.state = s.state
      /\ n.bound = s.bound /\ n.rx = s.rx /\ n.high = s.high
  BY ExpiredMoves
<1>2. s.bound /\ Typed(s)
  BY DEF Tame, Shape, Good
<1> HIDE DEF n
<1>3. n.rx >= 1 /\ Tame(n, FALSE)
  BY <1>1 DEF Moved
<1>4. Passed(s, n)
  <2>1. Sends(s, n)
    BY <1>1 DEF Sends
  <2> QED
    BY <1>1, <2>1, MovesPass
<1>5. ASSUME n.dataRetrCount = 0 PROVE Passed(s, g)
  <2>1. Exit(n)
    BY <1>5 DEF Exit
  <2>2. Moved(n, g, FALSE, 0) /\ Typed(g)
    BY <1>1, <1>3, <1>5, <2>1, DeallocateMoves, DeallocateGood DEF Good
  <2>3. g.out = n.out /\ g.next = n.next /\ g.state = n.state
    BY <1>1 DEF DeallocateEndPoint, Socket
  <2> HIDE DEF g
  <2>4. Sends(n, g)
    BY <2>3 DEF Sends
  <2> QED
    BY <1>1, <1>2, <2>2, <2>3, <2>4, PassesOn
<1>6. ASSUME n.dataRetrCount # 0 PROVE Passed(s, d)
  <2>1. /\ Socket(t) /\ Typed(t) /\ Moved(n, t, FALSE, 0)
        /\ t.out = n.out /\ t.next = n.next /\ t.got = n.got /\ t.state = n.state
        /\ t.bound /\ t.rx = n.rx /\ t.high = n.high
    BY <1>1, <1>2, <1>3, <1>6, CountedMoves
  <2> HIDE DEF t
  <2>2. t.rx >= 1 /\ Tame(t, FALSE)
    BY <1>3, <2>1 DEF Moved
  <2>3. Good(u) /\ Moved(t, u, FALSE, 0)
    BY <2>1, <2>2, EmptyPacketGood, EmptyMoves DEF Flags
  <2>4. Sends(t, u) /\ (t.state = "CLOSED" => u.state = "CLOSED")
    BY <2>1, EmptySends DEF Flags
  <2>5. u.bound
    BY <2>1 DEF SendEmptyPacket, Emit, Socket
  <2> HIDE DEF u
  <2>6. /\ d.out = u.out /\ d.wrote = u.wrote /\ d.closed = u.closed
        /\ d.shutdownSend = u.shutdownSend /\ d.slow = u.slow /\ d.head = u.head /\ d.got = u.got
        /\ d.high = u.high /\ d.next = u.next /\ d.unread = u.unread
        /\ d.dataRetrCount = u.dataRetrCount /\ d.rx = u.rx /\ d.state = u.state
        /\ d.bound = u.bound /\ d.delAck = u.delAck /\ d.retx = u.retx /\ Typed(d)
    BY <2>3 DEF Good, Socket, Typed
  <2> HIDE DEF d
  <2>7. Shape(d, FALSE)
    BY <2>3, <2>5, <2>6 DEF Moved, Tame, Shape, Ended
  <2>8. u.rx <= d.rx
    BY <2>3, <2>6 DEF Good, Typed
  <2>9. Moved(u, d, FALSE, 0)
    BY <2>3, <2>6, <2>7, <2>8, FieldsMove DEF Moved, Tame, Good
  <2>10. Moved(t, d, FALSE, 0)
    BY <2>1, <2>3, <2>6, <2>9, MovedTrans DEF Good
  <2>11. Sends(t, d) /\ (t.state = "CLOSED" => d.state = "CLOSED")
    BY <2>4, <2>6 DEF Sends
  <2>12. Moved(s, t, FALSE, 0)
    BY <1>1, <1>2, <2>1, MovedTrans
  <2>13. t.out = s.out /\ t.next = s.next /\ t.got = s.got /\ t.state = s.state
    BY <1>1, <2>1
  <2> QED
    BY <1>2, <2>1, <2>6, <2>10, <2>11, <2>12, <2>13, PassesOn
<1> QED
  BY <1>4, <1>5, <1>6 DEF d, u, g, t, n

LEMMA DelAckPasses ==
    ASSUME NEW s, Good(s), Tame(s, FALSE), s.rx >= 1, s.delAck \in 1 .. DelAckMax - 1
    PROVE  Passed(s, SendEmptyPacket(s, "ACK"))
<1>1. s.got
  BY ConnectionAssumption DEF Tame, Shape
<1>2. Moved(s, SendEmptyPacket(s, "ACK"), FALSE, 0)
  BY EmptyMoves DEF Good, Flags
<1> QED
  BY <1>1, <1>2, EmptySends, MovesPass DEF Good, Flags

LEMMA TimeWaitPasses ==
    ASSUME NEW s, Good(s), Own(s, FALSE), Tame(s, FALSE), s.state = "TIME_WAIT"
    PROVE  Passed(s, CloseAndNotify(s))
<1> DEFINE u == CloseAndNotify(s)
<1>1. Exit(s)
  BY DEF Tame, Shape, Own, Fields, FinDue, FinStates, Exit
<1>2. Moved(s, u, FALSE, 0)
  BY <1>1, CloseMoves DEF Good
<1>3. u.out = s.out /\ u.next = s.next
  BY DEF CloseAndNotify, DeallocateEndPoint, Good, Socket
<1> HIDE DEF u
<1>4. Sends(s, u)
  BY <1>3 DEF Sends
<1> QED
  BY <1>2, <1>4, MovesPass DEF u

\* The calls of the application on a connected socket.
Written(s, v) == [s EXCEPT !.tail = 2, !.wrote = ~s.shutdownSend, !.sendEvent = v]

LEMMA WriteTame ==
    ASSUME NEW s, NEW v \in BOOLEAN, Good(s), Tame(s, FALSE)
    PROVE  LET u == Written(s, v)
           IN  /\ Tame(u, FALSE) /\ Longer(s, u) /\ u.wrote = ~s.shutdownSend
               /\ s.rx <= u.rx /\ s.high <= u.high
               /\ u.out = s.out /\ u.closed = s.closed /\ u.shutdownSend = s.shutdownSend
               /\ u.slow = s.slow /\ u.head = s.head /\ u.got = s.got /\ u.high = s.high
               /\ u.next = s.next /\ u.dataRetrCount = s.dataRetrCount
               /\ u.state = s.state /\ u.bound = s.bound /\ u.retx = s.retx
<1> DEFINE w == ~s.shutdownSend
           u == Written(s, v)
<1>1. /\ u.out = s.out /\ u.wrote = w /\ u.closed = s.closed
      /\ u.shutdownSend = s.shutdownSend /\ u.slow = s.slow /\ u.head = s.head /\ u.got = s.got
      /\ u.high = s.high /\ u.next = s.next /\ u.unread = s.unread
      /\ u.dataRetrCount = s.dataRetrCount /\ u.rx = s.rx /\ u.state = s.state
      /\ u.bound = s.bound /\ u.delAck = s.delAck /\ u.retx = s.retx /\ u.lastAck = s.lastAck
  BY DEF Written, Good, Socket
<1>2. Typed(u)
  BY DEF Written, Good, Socket, Typed
<1> HIDE DEF u
<1>3. s.rx <= u.rx /\ s.high <= u.high
  BY <1>1 DEF Good, Typed
<1>4. Climbing(u) /\ Longer(s, u)
  BY <1>1, <1>2, <1>3, ClimbKept DEF Tame, Good
<1>5. Shape(u, FALSE)
  BY <1>1 DEF Tame, Shape, Ended
<1> QED
  BY <1>1, <1>3, <1>4, <1>5 DEF Tame, u

LEMMA WritePasses ==
    ASSUME NEW s, NEW v \in BOOLEAN, Good(s), Marks(s), Tame(s, FALSE), s.high >= 1, s.tail = 1,
           ~s.closed, s.state # "CLOSED"
    PROVE  Passed(s, Written(s, v))
<1> DEFINE u == Written(s, v)
<1>1. /\ Tame(u, FALSE) /\ Longer(s, u) /\ u.wrote = ~s.shutdownSend
      /\ s.rx <= u.rx /\ s.high <= u.high
      /\ u.out = s.out /\ u.closed = s.closed /\ u.shutdownSend = s.shutdownSend
      /\ u.slow = s.slow /\ u.head = s.head /\ u.got = s.got /\ u.high = s.high
      /\ u.next = s.next /\ u.dataRetrCount = s.dataRetrCount
      /\ u.state = s.state /\ u.bound = s.bound /\ u.retx = s.retx
  BY WriteTame
<1> HIDE DEF u
<1>2. u.next < 2
  BY <1>1 DEF Good, Typed, Marks
<1>3. u.wrote => ~Ended(s)
  BY <1>1 DEF Ended
<1>4. s.bound \/ s.dataRetrCount = 0 \/ Ended(s)
  BY DEF Tame, Shape
<1>5. Passes(s, u)
  BY <1>1, <1>2, <1>3, <1>4, Zenon DEF Passes, Ended
<1>6. Sends(s, u)
  BY <1>1 DEF Sends
<1> QED
  BY <1>1, <1>5, <1>6 DEF Passed, u

LEMMA ReadPasses ==
    ASSUME NEW s, Good(s), Tame(s, FALSE)
    PROVE  Passed(s, [s EXCEPT !.unread = FALSE])
<1> DEFINE u == [s EXCEPT !.unread = FALSE]
<1>1. /\ u.out = s.out /\ u.wrote = s.wrote /\ u.closed = s.closed
      /\ u.shutdownSend = s.shutdownSend /\ u.slow = s.slow /\ u.head = s.head /\ u.got = s.got
      /\ u.high = s.high /\ u.next = s.next /\ ~u.unread
      /\ u.dataRetrCount = s.dataRetrCount /\ u.rx = s.rx /\ u.state = s.state
      /\ u.bound = s.bound /\ u.delAck = s.delAck /\ u.retx = s.retx /\ u.lastAck = s.lastAck
  BY DEF Good, Socket
<1>2. Typed(u)
  BY DEF Good, Socket, Typed
<1> HIDE DEF u
<1>3. s.rx <= u.rx /\ s.high <= u.high
  BY <1>1 DEF Good, Typed
<1>4. Climbing(u) /\ Longer(s, u)
  BY <1>1, <1>2, <1>3, ClimbKept DEF Tame, Good
<1>5. Shape(u, FALSE)
  BY <1>1 DEF Tame, Shape, Ended
<1>6. Passes(s, u)
  BY <1>1, <1>3, <1>4, Zenon DEF Passes, Ended
<1>7. Sends(s, u)
  BY <1>1 DEF Sends
<1> QED
  BY <1>4, <1>5, <1>6, <1>7 DEF Passed, Tame, u

\* ShutdownSend only marks the socket,
LEMMA MarkPasses ==
    ASSUME NEW s, Good(s), Tame(s, FALSE)
    PROVE  LET t == [s EXCEPT !.shutdownSend = TRUE, !.closeOnEmpty = TRUE]
           IN  /\ Good(t) /\ Tame(t, FALSE) /\ Passed(s, t) /\ Ended(t)
               /\ t.out = s.out /\ t.wrote = s.wrote /\ t.closed = s.closed
               /\ t.slow = s.slow /\ t.head = s.head /\ t.got = s.got
               /\ t.high = s.high /\ t.next = s.next
               /\ t.dataRetrCount = s.dataRetrCount /\ t.rx = s.rx /\ t.state = s.state
               /\ t.bound = s.bound /\ t.retx = s.retx
<1> DEFINE t == [s EXCEPT !.shutdownSend = TRUE, !.closeOnEmpty = TRUE]
<1>1. /\ t.out = s.out /\ t.wrote = s.wrote /\ t.closed = s.closed
      /\ t.shutdownSend /\ t.slow = s.slow /\ t.head = s.head /\ t.got = s.got
      /\ t.high = s.high /\ t.next = s.next /\ t.unread = s.unread
      /\ t.dataRetrCount = s.dataRetrCount /\ t.rx = s.rx /\ t.state = s.state
      /\ t.bound = s.bound /\ t.delAck = s.delAck /\ t.retx = s.retx /\ t.lastAck = s.lastAck
  BY DEF Good, Socket
<1>2. Good(t)
  BY DEF Good, Socket, Typed, Guarded
<1> HIDE DEF t
<1>3. s.rx <= t.rx /\ s.high <= t.high
  BY <1>1 DEF Good, Typed
<1>4. Climbing(t) /\ Longer(s, t)
  BY <1>1, <1>2, <1>3, ClimbKept DEF Tame, Good
<1>5. Shape(t, FALSE) /\ Ended(t)
  BY <1>1 DEF Tame, Shape, Ended
<1>6. Passes(s, t)
  BY <1>1, <1>3, <1>4, <1>5, Zenon DEF Passes
<1>7. Sends(s, t)
  BY <1>1 DEF Sends
<1> QED
  BY <1>1, <1>2, <1>4, <1>5, <1>6, <1>7 DEF Passed, Tame, t

\* or sends the FIN too.
LEMMA ShutPasses ==
    ASSUME NEW s, Good(s), Tame(s, FALSE), s.rx >= 1, s.state \in {"ESTABLISHED", "CLOSE_WAIT"},
           NEW f, f = IF s.state = "ESTABLISHED" THEN "FIN_WAIT_1" ELSE "LAST_ACK"
    PROVE  LET t == [s EXCEPT !.shutdownSend = TRUE, !.closeOnEmpty = TRUE]
           IN  Passed(s, [SendEmptyPacket(t, "FIN") EXCEPT !.state = f])
<1> DEFINE t == [s EXCEPT !.shutdownSend = TRUE, !.closeOnEmpty = TRUE]
           u == SendEmptyPacket(t, "FIN")
           r == [u EXCEPT !.state = f]
<1>1. /\ Good(t) /\ Tame(t, FALSE) /\ Passed(s, t) /\ Ended(t)
      /\ t.out = s.out /\ t.wrote = s.wrote /\ t.closed = s.closed
      /\ t.slow = s.slow /\ t.head = s.head /\ t.got = s.got
      /\ t.high = s.high /\ t.next = s.next
      /\ t.dataRetrCount = s.dataRetrCount /\ t.rx = s.rx /\ t.state = s.state
      /\ t.bound = s.bound /\ t.retx = s.retx
  BY MarkPasses
<1> HIDE DEF t
<1>2. t.rx >= 1
  BY <1>1
<1>3. Good(u) /\ Moved(t, u, FALSE, 0) /\ Sends(t, u)
  BY <1>1, <1>2, EmptyPacketGood, EmptyMoves, EmptySends DEF Good, Flags
<1>4. f \in States /\ f \in {"FIN_WAIT_1", "LAST_ACK"}
      /\ (f = "LAST_ACK" => s.state = "CLOSE_WAIT")
  BY DEF States
<1>5. Ended(u)
  BY <1>1, <1>3, Zenon DEF Moved, Moves, Ended
<1>6. u.rx \in Nat /\ t.rx \in Nat /\ t.rx <= u.rx
  BY <1>1, <1>3 DEF Moved, Moves, Good, Typed
<1>7. f = "LAST_ACK" => u.rx >= 2
  <2>1. f = "LAST_ACK" => t.rx >= 2
    BY <1>1, <1>4 DEF Tame, Shape
  <2> QED
    BY <1>6, <2>1
<1> HIDE DEF u
<1>8. Typed(r)
  BY <1>3, <1>4 DEF Good, Socket, Typed
<1>9. Moved(u, r, FALSE, 0)
  BY <1>3, <1>4, <1>5, <1>7, <1>8, StateMoves DEF Moved
<1>10. r.out = u.out /\ r.next = u.next
  BY <1>3 DEF Good, Socket
<1> HIDE DEF r
<1>11. Moved(t, r, FALSE, 0)
  BY <1>1, <1>3, <1>8, <1>9, MovedTrans DEF Good
<1>12. Sends(s, r)
  BY <1>1, <1>3, <1>10 DEF Sends
<1>13. Longer(s, r)
  <2>1. Longer(t, r)
    BY <1>11 DEF Moved, Moves
  <2> QED
    BY <1>1, <2>1 DEF Longer
<1>14. Passes(s, r)
  <2>1. Ended(r)
    BY <1>1, <1>11, Zenon DEF Moved, Moves, Ended
  <2>2. s.state # "CLOSED" /\ ~(0 >= 2)
    OBVIOUS
  <2> QED
    BY <1>1, <1>11, <1>13, <2>1, <2>2, Zenon DEF Moved, Moves, Passes
<1> QED
  BY <1>11, <1>12, <1>14 DEF Passed, Moved, r, u, t

LEMMA RstSends ==
    ASSUME NEW s, Good(s)
    PROVE  LET r == SendRST(s)
           IN  /\ Sends(s, r) /\ Sends(s, CloseAndNotify(r)) /\ Good(r)
               /\ r.state = s.state
<1> DEFINE v == SendEmptyPacket(s, "RST")
           r == SendRST(s)
           c == CloseAndNotify(r)
<1>1. Good(v) /\ v.state = s.state /\ Sends(s, v)
  BY EmptyPacketGood, EmptySends DEF Good, Flags
<1>2. r = DeallocateEndPoint(v)
  BY DEF SendRST
<1> HIDE DEF v, r
<1>3. r.out = v.out /\ r.next = v.next /\ r.state = v.state /\ Good(r)
  BY <1>1, <1>2, DeallocateGood DEF DeallocateEndPoint, Good, Socket
<1>4. c.out = r.out /\ c.next = r.next
  BY <1>3 DEF CloseAndNotify, DeallocateEndPoint, Good, Socket
<1> HIDE DEF c
<1> QED
  BY <1>1, <1>3, <1>4 DEF Sends, c, r

LEMMA CloseSends ==
    ASSUME NEW s, Good(s), s.state # "SYN_RCVD"
    PROVE  Sends(s, CloseSocket(s))
<1> DEFINE u == SendEmptyPacket(s, "FIN")
           d == [s EXCEPT !.closeOnEmpty = TRUE]
<1>1. Good(u) /\ Sends(s, u)
  BY EmptyPacketGood, EmptySends DEF Good, Flags
<1>2. d.out = s.out /\ d.next = s.next
  BY DEF Good, Socket
<1> HIDE DEF u, d
<1>3. Sends(s, s) /\ Sends(s, d)
  BY <1>2 DEF Sends
<1>4. ASSUME NEW x PROVE Sends(s, [u EXCEPT !.state = x])
  <2> DEFINE r == [u EXCEPT !.state = x]
  <2>1. r.out = u.out /\ r.next = u.next
    BY <1>1 DEF Good, Socket
  <2> HIDE DEF r
  <2>2. Sends(s, r)
    BY <1>1, <2>1 DEF Sends
  <2> QED
    BY <2>2 DEF r
<1>5. Sends(s, DoClose(s))
  <2>1. Sends(s, [u EXCEPT !.state = "FIN_WAIT_1"]) /\ Sends(s, [u EXCEPT !.state = "LAST_ACK"])
    BY <1>4
  <2>2. DoClose(s) \in {s, [u EXCEPT !.state = "FIN_WAIT_1"], [u EXCEPT !.state = "LAST_ACK"],
                        CloseAndNotify(SendRST(s))}
    BY DEF DoClose, u
  <2>3. Sends(s, CloseAndNotify(SendRST(s)))
    BY RstSends
  <2> QED
    BY <1>3, <2>1, <2>2, <2>3
<1>6. Sends(s, SendRST(s))
  BY RstSends
<1>7. CloseSocket(s) \in {SendRST(s), d, DoClose(s)}
  BY DEF CloseSocket, d
<1> QED
  BY <1>3, <1>5, <1>6, <1>7

\* The application closes; that it has is recorded last.
LEMMA ClosedTame ==
    ASSUME NEW s, Good(s), Own(s, FALSE), Opened(s), Tame(s, FALSE), s.state # "SYN_RCVD",
           s.high >= 1 => s.rx >= 1
    PROVE  LET u == CloseSocket(s)
               r == [u EXCEPT !.closed = TRUE]
           IN  /\ Good(u) /\ Moved(s, u, TRUE, 0) /\ Tame(r, FALSE) /\ r.closed
               /\ r.out = u.out /\ r.wrote = u.wrote /\ r.shutdownSend = u.shutdownSend
               /\ r.slow = u.slow /\ r.head = u.head /\ r.got = u.got /\ r.high = u.high
               /\ r.next = u.next /\ r.unread = u.unread /\ r.dataRetrCount = u.dataRetrCount
               /\ r.rx = u.rx /\ r.state = u.state /\ r.bound = u.bound /\ r.retx = u.retx
<1> DEFINE u == CloseSocket(s)
           r == [u EXCEPT !.closed = TRUE]
<1>1. Tame(s, TRUE) /\ TRUE \in BOOLEAN
  BY DEF Tame, Shape
<1>2. Own(s, TRUE)
  BY OwnWhileClosing
<1>3. Moved(s, u, TRUE, 0)
  BY <1>1, <1>2, CloseSocketMoves
<1>4. Good(u)
  BY CloseSocketGood
<1> HIDE DEF u
<1>5. /\ r.out = u.out /\ r.wrote = u.wrote /\ r.shutdownSend = u.shutdownSend
      /\ r.slow = u.slow /\ r.head = u.head /\ r.got = u.got /\ r.high = u.high
      /\ r.next = u.next /\ r.unread = u.unread /\ r.dataRetrCount = u.dataRetrCount
      /\ r.rx = u.rx /\ r.state = u.state /\ r.bound = u.bound /\ r.retx = u.retx
      /\ r.delAck = u.delAck /\ r.lastAck = u.lastAck /\ r.closed
  BY <1>4 DEF Good, Socket
<1>6. Typed(r)
  BY <1>4 DEF Good, Socket, Typed
<1> HIDE DEF r
<1>7. Shape(r, FALSE)
  BY <1>3, <1>5 DEF Moved, Tame, Shape, Ended
<1>8. u.rx <= r.rx
  BY <1>4, <1>5 DEF Good, Typed
<1>9. Climbing(r)
  BY <1>3, <1>4, <1>5, <1>6, <1>8, ClimbKept DEF Moved, Tame, Good
<1> QED
  BY <1>3, <1>4, <1>5, <1>7, <1>9 DEF Tame, r, u

LEMMA ClosePasses ==
    ASSUME NEW s, Good(s), Own(s, FALSE), Opened(s), Tame(s, FALSE), s.high >= 1, s.rx >= 1,
           s.state \notin {"CLOSED", "SYN_RCVD"}
    PROVE  Passed(s, [CloseSocket(s) EXCEPT !.closed = TRUE])
<1> DEFINE u == CloseSocket(s)
           r == [u EXCEPT !.closed = TRUE]
<1>1. /\ Good(u) /\ Moved(s, u, TRUE, 0) /\ Tame(r, FALSE) /\ r.closed
      /\ r.out = u.out /\ r.wrote = u.wrote /\ r.shutdownSend = u.shutdownSend
      /\ r.slow = u.slow /\ r.head = u.head /\ r.got = u.got /\ r.high = u.high
      /\ r.next = u.next /\ r.unread = u.unread /\ r.dataRetrCount = u.dataRetrCount
      /\ r.rx = u.rx /\ r.state = u.state /\ r.bound = u.bound /\ r.retx = u.retx
  BY ClosedTame
<1>2. Sends(s, u)
  BY CloseSends
<1> HIDE DEF u, r
<1>3. Longer(s, r) /\ (HasData(u) => HasData(r))
  BY <1>1 DEF Moved, Moves, Longer, HasData
<1>4. Exit(u) => Exit(r)
  BY <1>1, Zenon DEF Exit
<1>5. Passes(s, r)
  <2>1. ~(0 >= 2) /\ s.state # "CLOSED" /\ Ended(r)
    BY <1>1 DEF Ended
  <2> QED
    BY <1>1, <1>3, <1>4, <2>1, Zenon DEF Moved, Moves, Passes
<1>6. Sends(s, r)
  BY <1>1, <1>2 DEF Sends
<1> QED
  BY <1>1, <1>5, <1>6 DEF Passed, r, u

\* What a step leaves of a socket whose handshake is not over.
Begins(e, u) == u.high = 0 /\ Tame(u, FALSE) /\ Role(e, u)

LEMMA LocalConduct ==
    ASSUME Inv, Inv', Fitness, Fitness', Conduct, NEW e \in Ends, NEW u, Becomes(e, u),
           losses' = losses, sock[e].high >= 1 => Passed(sock[e], u),
           ~(sock[e].high >= 1) => Begins(e, u)
    PROVE  Conduct'
<1>1. CASE sock[e].high >= 1
  BY <1>1, ConnectedConduct
<1>2. CASE ~(sock[e].high >= 1)
  <2>1. sock[e].high = 0
    BY <1>2 DEF Inv, AllGood, Good, Typed
  <2> QED
    BY <1>2, <2>1, OpeningConduct DEF Begins
<1> QED
  BY <1>1, <1>2

\* The client, which has sent its SYN, takes data or closes.
LEMMA WriteBegins ==
    ASSUME NEW s, NEW v \in BOOLEAN, Good(s), Tame(s, FALSE), Role("client", s), s.high = 0
    PROVE  Begins("client", Written(s, v))
<1> DEFINE u == Written(s, v)
<1>1. /\ Tame(u, FALSE) /\ u.out = s.out /\ u.high = s.high /\ u.state = s.state
      /\ u.retx = s.retx
  BY WriteTame
<1> HIDE DEF u
<1> QED
  BY <1>1 DEF Begins, Role, u

LEMMA MarkBegins ==
    ASSUME NEW s, Good(s), Tame(s, FALSE), Role("client", s), s.high = 0
    PROVE  Begins("client", [s EXCEPT !.shutdownSend = TRUE, !.closeOnEmpty = TRUE])
<1> DEFINE t == [s EXCEPT !.shutdownSend = TRUE, !.closeOnEmpty = TRUE]
<1>1. /\ Tame(t, FALSE) /\ t.out = s.out /\ t.high = s.high /\ t.state = s.state
      /\ t.retx = s.retx
  BY MarkPasses
<1> HIDE DEF t
<1> QED
  BY <1>1 DEF Begins, Role, t

LEMMA CloseBegins ==
    ASSUME NEW s, Good(s), Own(s, FALSE), Opened(s), Tame(s, FALSE), Role("client", s),
           s.high = 0, s.state = "SYN_SENT"
    PROVE  Begins("client", [CloseSocket(s) EXCEPT !.closed = TRUE])
<1> DEFINE u == CloseSocket(s)
           r == [u EXCEPT !.closed = TRUE]
           v == SendEmptyPacket(s, "RST")
           d == DeallocateEndPoint(v)
           c == CloseAndNotify(d)
           m == [s EXCEPT !.closeOnEmpty = TRUE]
<1>1. ~(s.high >= 1)
  OBVIOUS
<1>2. /\ Tame(r, FALSE) /\ r.out = u.out /\ r.high = u.high /\ r.state = u.state
      /\ r.retx = u.retx
  BY <1>1, ClosedTame
<1>3. u \in {d, m, c}
  BY DEF CloseSocket, DoClose, SendRST
<1>4. m.out = s.out /\ m.high = s.high /\ m.state = s.state /\ m.retx = s.retx
  BY DEF Good, Socket
<1> HIDE DEF u, r, m
<1>5. Role("client", m) /\ m.high = 0
  BY <1>4 DEF Role
<1>6. Good(v) /\ Role("client", v) /\ v.high = 0
  <2> DEFINE e == "client"
             f == "RST"
  <2>1. e \in Ends /\ f \in Flags /\ (e = "client" => f # "SYNACK")
        /\ (e = "server" => f = "SYNACK") /\ Role(e, s)
    BY DEF Ends, Flags
  <2> HIDE DEF e
  <2>2. Role(e, v)
    BY <2>1, EmptyRole DEF Good
  <2>3. Good(v) /\ v.high = 0
    BY <2>1, EmptyPacketGood, EmptyPacketHigh DEF Good
  <2> QED
    BY <2>2, <2>3 DEF e
<1> HIDE DEF v
<1>7. Socket(d) /\ Role("client", d) /\ d.high = 0
  BY <1>6, ResetRole, DeallocateGood DEF Good, DeallocateEndPoint, Socket
<1> HIDE DEF d
<1>8. Role("client", c) /\ c.high = 0
  BY <1>7, ResetRole DEF CloseAndNotify, DeallocateEndPoint, Socket
<1> HIDE DEF c
<1>9. Role("client", u) /\ u.high = 0
  BY <1>3, <1>5, <1>7, <1>8
<1> QED
  BY <1>2, <1>9 DEF Begins, Role, r, u

\* The SYN or the SYN|ACK is repeated.
LEMMA RepeatBegins ==
    ASSUME NEW e \in Ends, NEW s, Good(s), Own(s, FALSE), Tame(s, FALSE), Role(e, s), s.high = 0,
           s.retx # "none"
    PROVE  Begins(e, SendEmptyPacket([s EXCEPT !.retx = "none"], s.retx))
<1> DEFINE n == [s EXCEPT !.retx = "none"]
           f == s.retx
           u == SendEmptyPacket(n, f)
<1>1. f \in {"SYN", "SYNACK"} /\ f \in Flags
  BY DEF Own, Fields, Opening, Flags
<1>2. (e = "client" => f # "SYNACK") /\ (e = "server" => f = "SYNACK")
  BY <1>1, Zenon DEF Role
<1>3. /\ Socket(n) /\ Typed(n) /\ Moved(s, n, FALSE, 0)
      /\ n.out = s.out /\ n.state = s.state /\ n.high = s.high
  BY ExpiredMoves
<1>4. n.retx = "none" /\ n.wrote = s.wrote
  BY DEF Good, Socket
<1> HIDE DEF n, f
<1>5. Role(e, n) /\ Tame(n, FALSE) /\ n.high = 0
  BY <1>3, <1>4 DEF Role, Moved
<1>6. Role(e, u) /\ u.high = 0
  BY <1>1, <1>2, <1>3, <1>5, EmptyRole, EmptyPacketHigh
<1>7. Moved(n, u, FALSE, 0)
  BY <1>1, <1>3, <1>5, EmptyMoves
<1> QED
  BY <1>6, <1>7 DEF Begins, Moved, u, n, f

\* What is known of one socket.
LEMMA EndConduct ==
    ASSUME Inv, Fitness, Conduct, NEW e \in Ends
    PROVE  /\ Good(sock[e]) /\ Own(sock[e], FALSE) /\ Opened(sock[e]) /\ Marks(sock[e])
           /\ Tame(sock[e], FALSE) /\ Role(e, sock[e])
           /\ sock[e].high >= 1 => sock[e].rx >= 1
           /\ ~(sock[e].high >= 1) => sock[e].high = 0 /\ Opening(sock[e])
<1>1. /\ Good(sock[e]) /\ Own(sock[e], FALSE) /\ Opened(sock[e]) /\ Marks(sock[e])
      /\ Tame(sock[e], FALSE) /\ Role(e, sock[e])
  BY DEF Inv, AllGood, Delivery, Fitness, Fit, Conduct
<1>2. ~(sock[e].high >= 1) => sock[e].high = 0
  BY <1>1 DEF Good, Typed
<1> QED
  BY <1>1, <1>2 DEF Marks, Own, Fields

LEMMA TimerKeepsConduct ==
    ASSUME Inv, Inv', Fitness, Fitness', Conduct, NEW e \in Ends,
           \/ SendPendingDataEvent(e) \/ RepeatEmptyPacket(e) \/ ReTxTimeoutEmpty(e)
           \/ ReTxTimeout(e) \/ LastAckTimeout(e) \/ DelAckTimeout(e) \/ TimeWaitOver(e)
    PROVE  Conduct'
<1> DEFINE s == sock[e]
           n == [s EXCEPT !.retx = "none"]
<1>1. /\ Good(s) /\ Own(s, FALSE) /\ Opened(s) /\ Marks(s) /\ Tame(s, FALSE) /\ Role(e, s)
      /\ s.high >= 1 => s.rx >= 1
      /\ ~(s.high >= 1) => s.high = 0 /\ Opening(s)
  BY EndConduct
<1>2. CASE SendPendingDataEvent(e)
  <2> DEFINE r == SendPendingData([s EXCEPT !.sendEvent = FALSE])
  <2>1. Becomes(e, r) /\ s.sendEvent /\ losses' = losses
    BY <1>2 DEF SendPendingDataEvent
  <2>2. s.high >= 1
    BY <1>1, <2>1 DEF Opening
  <2>3. Passed(s, r)
    BY <1>1, <2>2, PendingPasses
  <2> HIDE DEF r
  <2> QED
    BY <2>1, <2>2, <2>3, LocalConduct
<1>3. CASE RepeatEmptyPacket(e)
  <2> DEFINE r == SendEmptyPacket(n, s.retx)
  <2>1. Becomes(e, r) /\ s.retx \in {"SYN", "SYNACK", "FIN"} /\ losses' = losses
    BY <1>3 DEF RepeatEmptyPacket
  <2> HIDE DEF s
  <2>2. s.high >= 1 => Passed(s, r)
    <3> SUFFICES ASSUME s.high >= 1 PROVE Passed(s, r)
      OBVIOUS
    <3>1. s.retx = "FIN"
      BY <1>1, <2>1 DEF Own, Fields
    <3>2. Passed(s, SendEmptyPacket(n, "FIN"))
      BY <1>1, RepeatPasses
    <3> HIDE DEF n
    <3> QED
      BY <3>1, <3>2
  <2>3. ~(s.high >= 1) => Begins(e, r)
    <3>1. s.retx # "none"
      BY <2>1
    <3> QED
      BY <1>1, <3>1, RepeatBegins
  <2> HIDE DEF r
  <2> QED
    BY <2>1, <2>2, <2>3, LocalConduct DEF s
<1>4. CASE ReTxTimeoutEmpty(e)
  <2> DEFINE b == n.state \in {"FIN_WAIT_1", "CLOSING"}
             r == SendEmptyPacket(n, "FIN")
             v == IF b THEN r ELSE n
  <2>1. Becomes(e, v) /\ s.retx = "DATA" /\ losses' = losses
    BY <1>4 DEF ReTxTimeoutEmpty
  <2>2. s.high >= 1
    BY <1>1, <2>1 DEF Opening
  <2>3. Passed(s, n) /\ Passed(s, r)
    BY <1>1, <2>2, RepeatPasses
  <2> HIDE DEF n, r, b
  <2>4. Passed(s, v)
    BY <2>3
  <2> HIDE DEF v
  <2> QED
    BY <2>1, <2>2, <2>4, LocalConduct
<1>5. CASE ReTxTimeout(e)
  <2> DEFINE z == n.dataRetrCount = 0
             g == DeallocateEndPoint(n)
             d == SendDataPacket([n EXCEPT !.dataRetrCount = @ - 1], n.head)
             v == IF z THEN g ELSE d
  <2>1. Becomes(e, v) /\ s.retx = "DATA" /\ losses' = losses
    BY <1>5 DEF ReTxTimeout
  <2>2. s.high >= 1 /\ s.retx # "none"
    BY <1>1, <2>1 DEF Opening
  <2>3. (z => Passed(s, g)) /\ (~z => Passed(s, d))
    BY <1>1, <2>2, RetryPasses
  <2> HIDE DEF n, g, d, z
  <2>4. Passed(s, v)
    BY <2>3
  <2> HIDE DEF v
  <2> QED
    BY <2>1, <2>2, <2>4, LocalConduct
<1>6. CASE LastAckTimeout(e)
  <2> DEFINE m == [s EXCEPT !.lastAck = FALSE]
             b == m.state = "LAST_ACK"
             z == m.dataRetrCount = 0
             g == DeallocateEndPoint(m)
             d == [SendEmptyPacket([m EXCEPT !.dataRetrCount = @ - 1], "FIN")
                     EXCEPT !.lastAck = TRUE]
             v == CASE ~b -> m [] b /\ z -> g [] OTHER -> d
  <2>1. Becomes(e, v) /\ s.lastAck /\ losses' = losses
    BY <1>6 DEF LastAckTimeout
  <2>2. s.high >= 1
    BY <1>1, <2>1 DEF Opening
  <2>3. Passed(s, m) /\ (z => Passed(s, g)) /\ (~z => Passed(s, d))
    BY <1>1, <2>1, <2>2, LastAckPasses
  <2> HIDE DEF m, g, d, b, z
  <2>4. Passed(s, v)
    BY <2>3
  <2> HIDE DEF v
  <2> QED
    BY <2>1, <2>2, <2>4, LocalConduct
<1>7. CASE DelAckTimeout(e)
  <2> DEFINE r == SendEmptyPacket(s, "ACK")
  <2>1. Becomes(e, r) /\ s.delAck \in 1 .. DelAckMax - 1 /\ losses' = losses
    BY <1>7 DEF DelAckTimeout, AckDelayed
  <2>2. s.high >= 1
    <3>1. s.delAck # 0
      BY <2>1, ConnectionAssumption
    <3> QED
      BY <1>1, <3>1 DEF Opening
  <2>3. Passed(s, r)
    BY <1>1, <2>1, <2>2, DelAckPasses
  <2> HIDE DEF r
  <2> QED
    BY <2>1, <2>2, <2>3, LocalConduct
<1>8. CASE TimeWaitOver(e)
  <2> DEFINE r == CloseAndNotify(s)
  <2>1. Becomes(e, r) /\ s.state = "TIME_WAIT" /\ losses' = losses
    BY <1>8 DEF TimeWaitOver
  <2>2. s.high >= 1
    BY <1>1, <2>1 DEF Opening
  <2>3. Passed(s, r)
    BY <1>1, <2>1, TimeWaitPasses
  <2> HIDE DEF r
  <2> QED
    BY <2>1, <2>2, <2>3, LocalConduct
<1> QED
  BY <1>2, <1>3, <1>4, <1>5, <1>6, <1>7, <1>8

LEMMA ApplicationKeepsConduct ==
    ASSUME Inv, Inv', Fitness, Fitness', Conduct, NEW e \in Ends,
           Send(e) \/ Recv(e) \/ ShutdownSend(e) \/ Close(e)
    PROVE  Conduct'
<1> DEFINE s == sock[e]
<1>1. /\ Good(s) /\ Own(s, FALSE) /\ Opened(s) /\ Marks(s) /\ Tame(s, FALSE) /\ Role(e, s)
      /\ s.high >= 1 => s.rx >= 1
      /\ ~(s.high >= 1) => s.high = 0 /\ Opening(s)
  BY EndConduct
<1>2. ASSUME Held(e)
      PROVE  /\ s.state \notin {"CLOSED", "SYN_RCVD"}
             /\ ~(s.high >= 1) => s.state = "SYN_SENT" /\ e = "client"
  <2>1. s.state \notin {"CLOSED", "SYN_RCVD"}
    BY <1>2 DEF Held
  <2>2. e = "server" => s.state # "SYN_SENT"
    BY DEF Inv, Delivery, Handshake
  <2> QED
    BY <1>1, <2>1, <2>2 DEF Opening, Ends
<1>3. CASE Send(e)
  <2> DEFINE b == s.state \in {"ESTABLISHED", "CLOSE_WAIT"}
             v == s.sendEvent \/ (~s.shutdownSend /\ s.bound /\ b)
             r == Written(s, v)
  <2>1. Becomes(e, r) /\ Held(e) /\ s.tail = 1 /\ ~s.closed /\ losses' = losses
    BY <1>1, <1>3 DEF Send, Good, Socket, Written
  <2>2. v \in BOOLEAN
    OBVIOUS
  <2> HIDE DEF s, v
  <2>3. s.high >= 1 => Passed(s, r)
    <3>1. s.state # "CLOSED"
      BY <1>2, <2>1
    <3> QED
      BY <1>1, <2>1, <2>2, <3>1, WritePasses
  <2>4. ~(s.high >= 1) => Begins(e, r)
    <3> SUFFICES ASSUME ~(s.high >= 1) PROVE Begins(e, r)
      OBVIOUS
    <3>1. e = "client" /\ s.high = 0 /\ Role("client", s)
      BY <1>1, <1>2, <2>1
    <3>2. Begins("client", r)
      BY <1>1, <2>2, <3>1, WriteBegins
    <3> HIDE DEF r
    <3> QED
      BY <3>1, <3>2
  <2> HIDE DEF r
  <2> QED
    BY <2>1, <2>3, <2>4, LocalConduct DEF s
<1>4. CASE Recv(e)
  <2> DEFINE r == [s EXCEPT !.unread = FALSE]
  <2>1. Becomes(e, r) /\ s.unread /\ losses' = losses
    BY <1>4 DEF Recv
  <2>2. s.high >= 1
    <3> SUFFICES ASSUME ~(s.high >= 1) PROVE FALSE
      OBVIOUS
    <3>1. s.rx >= 2
      BY <1>1, <2>1 DEF Tame, Shape
    <3>2. s.rx <= 1 /\ s.rx \in Nat
      BY <1>1 DEF Opening, Good, Typed
    <3> QED
      BY <3>1, <3>2
  <2>3. Passed(s, r)
    BY <1>1, ReadPasses
  <2> HIDE DEF r
  <2> QED
    BY <2>1, <2>2, <2>3, LocalConduct
<1>5. CASE ShutdownSend(e)
  <2> DEFINE t == [s EXCEPT !.shutdownSend = TRUE, !.closeOnEmpty = TRUE]
             z == Size(t) = 0
             b == s.state \in {"ESTABLISHED", "CLOSE_WAIT"}
             f == IF s.state = "ESTABLISHED" THEN "FIN_WAIT_1" ELSE "LAST_ACK"
             r == [SendEmptyPacket(t, "FIN") EXCEPT !.state = f]
             v == IF z /\ b THEN r ELSE t
  <2>1. Becomes(e, v) /\ Held(e) /\ losses' = losses
    BY <1>1, <1>5 DEF ShutdownSend, Good, Socket
  <2> HIDE DEF s, z
  <2>2. Passed(s, t)
    BY <1>1, MarkPasses
  <2>3. s.high >= 1 /\ b => Passed(s, r)
    <3> SUFFICES ASSUME s.high >= 1, b PROVE Passed(s, r)
      OBVIOUS
    <3>1. s.rx >= 1 /\ f = IF s.state = "ESTABLISHED" THEN "FIN_WAIT_1" ELSE "LAST_ACK"
      BY <1>1
    <3> HIDE DEF f
    <3> QED
      BY <1>1, <3>1, ShutPasses
  <2>4. ~(s.high >= 1) => Begins(e, t) /\ ~b
    <3> SUFFICES ASSUME ~(s.high >= 1) PROVE Begins(e, t) /\ ~b
      OBVIOUS
    <3>1. e = "client" /\ s.high = 0 /\ Role("client", s) /\ s.state = "SYN_SENT"
      BY <1>1, <1>2, <2>1
    <3>2. Begins("client", t)
      BY <1>1, <3>1, MarkBegins
    <3> HIDE DEF t
    <3> QED
      BY <3>1, <3>2
  <2> HIDE DEF t, r, b
  <2>5. (s.high >= 1 => Passed(s, v)) /\ (~(s.high >= 1) => Begins(e, v))
    BY <2>2, <2>3, <2>4
  <2> HIDE DEF v
  <2> QED
    BY <2>1, <2>5, LocalConduct DEF s
<1>6. CASE Close(e)
  <2> DEFINE r == [CloseSocket(s) EXCEPT !.closed = TRUE]
  <2>1. Becomes(e, r) /\ Held(e) /\ losses' = losses
    BY <1>6 DEF Close
  <2> HIDE DEF s
  <2>2. s.high >= 1 => Passed(s, r)
    <3>1. s.state \notin {"CLOSED", "SYN_RCVD"}
      BY <1>2, <2>1
    <3> QED
      BY <1>1, <3>1, ClosePasses
  <2>3. ~(s.high >= 1) => Begins(e, r)
    <3> SUFFICES ASSUME ~(s.high >= 1) PROVE Begins(e, r)
      OBVIOUS
    <3>1. e = "client" /\ s.high = 0 /\ Role("client", s) /\ s.state = "SYN_SENT"
      BY <1>1, <1>2, <2>1
    <3>2. Begins("client", r)
      BY <1>1, <3>1, CloseBegins
    <3> HIDE DEF r
    <3> QED
      BY <3>1, <3>2
  <2> HIDE DEF r
  <2> QED
    BY <2>1, <2>2, <2>3, LocalConduct DEF s
<1> QED
  BY <1>3, <1>4, <1>5, <1>6

----------------------------------------------------------------------------
(* All steps.                                                               *)

LEMMA ConnectConduct ==
    ASSUME Inv, Inv', Conduct, Connect
    PROVE  Conduct'
<1> DEFINE e == "client"
           s == sock[e]
           t == [s EXCEPT !.bound = TRUE, !.synCount = SynRetries, !.dataRetrCount = DataRetries]
           k == t.synCount - 1
           m == [t EXCEPT !.synCount = k]
           w == Emit(m, "SYN")
           u == SendEmptyPacket(t, "SYN")
           r == [u EXCEPT !.state = "SYN_SENT"]
           x == Packet("SYN", 0, 0, 0)
<1>1. s = NewSocket(e) /\ Becomes(e, r) /\ losses' = losses /\ e \in Ends
  BY DEF Connect, Ends
<1>2. /\ Socket(s) /\ s.state = "CLOSED" /\ s.high = 0 /\ s.next = 0 /\ s.rx = 0
      /\ s.got = FALSE /\ s.unread = FALSE /\ s.retx = "none" /\ s.lastAck = FALSE
      /\ s.delAck = 0 /\ s.out = <<>> /\ s.wrote = FALSE
  <2>1. Socket(s)
    BY <1>1, NewSocketGood DEF Good
  <2> QED
    BY <1>1, <2>1 DEF NewSocket
<1> HIDE DEF e, s
<1>3. /\ Socket(t) /\ t.state = "CLOSED" /\ t.high = 0 /\ t.next = 0 /\ t.rx = 0 /\ t.bound
      /\ ~t.got /\ ~t.unread /\ t.retx = "none" /\ ~t.lastAck
      /\ t.delAck = 0 /\ t.out = <<>> /\ ~t.wrote /\ t.synCount # 0
  BY <1>2, ConnectionAssumption DEF Socket
<1>4. u = w
  BY <1>3 DEF SendEmptyPacket
<1> HIDE DEF t, k, u
<1>5. /\ Socket(m) /\ m.state = "CLOSED" /\ m.high = 0 /\ m.next = 0 /\ m.rx = 0 /\ m.bound
      /\ ~m.got /\ ~m.unread /\ m.retx = "none" /\ ~m.lastAck
      /\ m.delAck = 0 /\ m.out = <<>> /\ ~m.wrote
  BY <1>3 DEF Socket
<1> HIDE DEF m
<1>6. /\ Socket(w) /\ w.high = 0 /\ w.bound /\ ~w.got /\ ~w.unread /\ w.retx = "SYN"
      /\ ~w.lastAck /\ w.delAck = 0 /\ w.out = Append(<<>>, x)
  BY <1>5 DEF Emit, Socket
<1> HIDE DEF w
<1>7. /\ r.state = "SYN_SENT" /\ r.high = 0 /\ r.bound /\ ~r.got /\ ~r.unread /\ r.retx = "SYN"
      /\ ~r.lastAck /\ r.delAck = 0 /\ r.out = Append(<<>>, x)
  BY <1>4, <1>6 DEF Socket
<1> HIDE DEF r
<1>8. x.flags = "SYN"
  BY DEF Packet
<1> HIDE DEF x
<1>9. \A i \in DOMAIN r.out : r.out[i].flags = "SYN"
  <2>1. Append(<<>>, x) = <<x>>
    OBVIOUS
  <2>2. DOMAIN r.out = {1} /\ r.out[1] = x
    BY <1>7, <2>1
  <2> QED
    BY <1>8, <2>2
<1>10. Tame(r, FALSE)
  <2>1. ~(r.high >= 1)
    BY <1>7
  <2> QED
    BY <1>7, <1>9, <2>1 DEF Tame, Shape, Climbing, Acks
<1>11. Role(e, r)
  BY <1>7, <1>9 DEF Role, e
<1> QED
  BY <1>1, <1>2, <1>7, <1>10, <1>11, OpeningConduct DEF s

LEMMA CompleteForkConduct ==
    ASSUME Inv, Inv', Conduct, CompleteFork
    PROVE  Conduct'
<1> DEFINE e == "server"
           s == sock[e]
           n == NewSocket(e)
           t == [n EXCEPT !.state = "SYN_RCVD", !.bound = TRUE, !.rx = 1,
                          !.synCount = SynRetries, !.dataRetrCount = DataRetries,
                          !.shutdownSend = sink, !.closeOnEmpty = sink, !.out = s.out]
           u == SendEmptyPacket(t, "SYNACK")
<1>1. /\ s.high = 0 /\ ~s.bound /\ Role(e, s) /\ Typed(s) /\ e \in Ends
  BY DEF Inv, AllGood, Good, Delivery, Handshake, Early, CompleteFork, Conduct, Ends
<1>2. Becomes(e, u) /\ losses' = losses
  BY <1>1 DEF CompleteFork
<1>3. \A i \in DOMAIN s.out : s.out[i].flags = "SYNACK"
  BY <1>1 DEF Role
<1> HIDE DEF s
<1>4. Socket(n) /\ n.high = 0 /\ n.got = FALSE /\ n.unread = FALSE /\ n.retx = "none"
      /\ n.lastAck = FALSE /\ n.delAck = 0 /\ n.wrote = FALSE /\ Typed(n)
  BY NewSocketGood DEF NewSocket, Good
<1> HIDE DEF n
<1>5. /\ Socket(t) /\ t.state = "SYN_RCVD" /\ t.bound /\ t.high = 0 /\ ~t.got /\ ~t.unread
      /\ t.retx = "none" /\ ~t.lastAck /\ t.delAck = 0 /\ ~t.wrote /\ t.out = s.out /\ t.rx = 1
  BY <1>4 DEF Socket
<1>6. Typed(t)
  <2>1. SynRetries \in 0 .. SynRetries /\ DataRetries \in 0 .. DataRetries
    BY ConnectionAssumption
  <2>2. s.out \in Seq(Packets) /\ "SYN_RCVD" \in States
    BY <1>1 DEF Typed, States
  <2> QED
    BY <1>4, <2>1, <2>2, SMTT(30) DEF Socket, Typed
<1> HIDE DEF t
<1>7. Tame(t, FALSE)
  <2>1. ~(t.high >= 1)
    BY <1>5
  <2> QED
    BY <1>3, <1>5, <2>1 DEF Tame, Shape, Climbing, Acks
<1>8. Role(e, t)
  BY <1>3, <1>5 DEF Role
<1>9. "SYNACK" \in Flags /\ "SYNACK" # "RST" /\ (e = "client" => "SYNACK" # "SYNACK")
  BY DEF Flags
<1> HIDE DEF e
<1>10. u.high = 0 /\ Role(e, u)
  <2>1. u.high = t.high
    BY <1>5, EmptyPacketHigh
  <2> QED
    BY <1>1, <1>5, <1>6, <1>8, <1>9, <2>1, EmptyRole
<1>11. Tame(u, FALSE)
  <2>1. Moved(t, u, FALSE, 0)
    BY <1>5, <1>6, <1>7, <1>9, EmptyMoves
  <2> QED
    BY <2>1 DEF Moved
<1> HIDE DEF u
<1> QED
  BY <1>1, <1>2, <1>10, <1>11, OpeningConduct DEF s

LEMMA InitConduct == Init => Conduct
<1> SUFFICES ASSUME Init PROVE Conduct
  OBVIOUS
<1>1. ASSUME NEW e \in Ends
      PROVE  /\ sock[e].high = 0 /\ ~(sock[e].high >= 1) /\ Tame(sock[e], FALSE)
             /\ Role(e, sock[e]) /\ sock[e].out = <<>>
  <2> DEFINE s == sock[e]
  <2>1. /\ s.state = "CLOSED" /\ s.high = 0 /\ s.rx = 0 /\ ~s.bound
        /\ ~s.got /\ ~s.unread /\ s.retx = "none" /\ ~s.lastAck
        /\ s.delAck = 0 /\ s.out = <<>> /\ ~s.wrote
    <3>1. s = NewSocket(e)
      BY DEF Init
    <3> HIDE DEF s
    <3> QED
      BY <3>1 DEF NewSocket
  <2> HIDE DEF s
  <2>2. ~(s.high >= 1)
    BY <2>1
  <2>3. Tame(s, FALSE) /\ Role(e, s)
    BY <2>1, <2>2 DEF Tame, Shape, Climbing, Role
  <2> QED
    BY <2>1, <2>2, <2>3 DEF s
<1>2. "client" \in Ends
  BY DEF Ends
<1>3. \A e \in Ends : Ahead(sock[e], sock[Peer(e)])
  <2> SUFFICES ASSUME NEW e \in Ends PROVE Ahead(sock[e], sock[Peer(e)])
    OBVIOUS
  <2>1. sock[Peer(e)].out = <<>>
    BY <1>1, PeerInEnds
  <2> QED
    BY <2>1 DEF Ahead
<1>4. Beginning
  BY <1>1, <1>2 DEF Beginning
<1> QED
  BY <1>1, <1>2, <1>3, <1>4 DEF Conduct

LEMMA StepConduct ==
    Inv /\ Inv' /\ Fitness /\ Fitness' /\ Conduct /\ [Next]_vars => Conduct'
<1> SUFFICES ASSUME Inv, Inv', Fitness, Fitness', Conduct, [Next]_vars
             PROVE  Conduct'
  OBVIOUS
<1>1. CASE UNCHANGED vars
  <2>1. sock' = sock /\ losses' = losses
    BY <1>1 DEF vars
  <2> QED
    BY <2>1 DEF Conduct, Beginning, Spoiled
<1>2. CASE Next
  BY <1>2, ConnectConduct, CompleteForkConduct, ArrivalKeepsConduct, ApplicationKeepsConduct,
     TimerKeepsConduct DEF Next
<1> QED
  BY <1>1, <1>2

\* Data that Send accepted are not let go of, neither delivered nor under way,
\* once both ends were connected, unless a packet was lost, retries were used
\* up or data were read late.
THEOREM DataAbandonedKept == Spec => []DataAbandoned
<1>1. Conduct => DataAbandoned
  <2> SUFFICES ASSUME Conduct, NEW e \in Ends,
                      \A x \in Ends : sock[x].high > 0, ~sock[e].bound, Undelivered(e),
                      ~(losses > 0),
                      \A x \in Ends : sock[x].dataRetrCount # 0 /\ ~(sock[x].slow /\ sock[x].got)
               PROVE  FALSE
    BY DEF DataAbandoned
  <2>1. ~Spoiled
    BY DEF Spoiled, Spoils
  <2>2. ~\E x \in Ends : sock[x].high = 0
    OBVIOUS
  <2>3. Tidy(sock[e], sock[Peer(e)])
    BY <2>1, <2>2 DEF Conduct
  <2>4. ~HasData(sock[e])
    BY DEF Undelivered, HasData
  <2> QED
    BY <2>3, <2>4 DEF Tidy, Owed, Undelivered
<1>2. Init => Inv /\ Fitness /\ Conduct
  BY InitGood, InitDelivery, InitFitness, InitConduct DEF Inv
<1>3. Inv /\ Fitness /\ Conduct /\ [Next]_vars => Inv' /\ Fitness' /\ Conduct'
  BY StepGood, StepDelivery, StepFitness, StepConduct DEF Inv
<1> QED
  BY <1>1, <1>2, <1>3, PTL DEF Spec
=============================================================================
