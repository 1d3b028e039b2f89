---------------------------- MODULE TcpConnection ----------------------------
(***************************************************************************)
(* The life of a connection between two TcpSocketBase: the handshake with  *)
(* the fork of a listening socket, the states of RFC 793, FIN alone or on  *)
(* the last data, ShutdownSend and Close, RST, and the timers that repeat  *)
(* SYN, SYN|ACK, FIN and data, over a path that keeps order and may lose   *)
(* packets.                                                                *)
(*                                                                         *)
(* Each application writes at most one segment, so the window, congestion  *)
(* control and fast retransmit (TcpSender) play no part.  Sequence numbers *)
(* start at 0, as in the code.  ECN, options, pacing and zero windows are  *)
(* left out.  An application reads in the callback that announces data, as *)
(* those of the simulations do, or later, if it is one of SlowReaders.     *)
(***************************************************************************)
EXTENDS Integers, Sequences, FiniteSets

CONSTANTS
    SynRetries,     \* m_synRetries
    DataRetries,    \* m_dataRetries
    DelAckMax,      \* m_delAckMaxCount
    Writers,        \* the ends whose application writes its segment
    Shutters,       \* the ends whose application calls ShutdownSend
    Closers,        \* the ends whose application calls Close
    SlowReaders,    \* the ends whose application reads later than it is told to
    MaxLoss,        \* bound: packets the path loses
    Flight          \* bound: packets under way when a timer may add to them, see Due

Ends == {"client", "server"}
Peer(e) == IF e = "client" THEN "server" ELSE "client"

ASSUME ConnectionAssumption ==
    /\ SynRetries \in Nat \ {0} /\ DataRetries \in Nat \ {0} /\ DelAckMax \in Nat \ {0}
    /\ UNION {Writers, Shutters, Closers, SlowReaders} \subseteq Ends
    /\ MaxLoss \in Nat /\ Flight \in Nat \ {0}

VARIABLES
    sock,       \* the client's socket, and the server's fork, see NewSocket
    sink,       \* the listener has called ShutdownSend, as a packet sink does
    forking,    \* CompleteFork is scheduled
    losses      \* packets lost so far

vars == <<sock, sink, forking, losses>>

NewSocket(e) ==
    [state |-> "CLOSED",
     bound |-> FALSE,       \* m_endPoint is allocated
     next |-> 0,            \* m_tcb->m_nextTxSequence
     high |-> 0,            \* m_tcb->m_highTxMark
     head |-> 1,            \* m_txBuffer->HeadSequence (), once established
     tail |-> 1,            \* m_txBuffer->TailSequence ()
     rx |-> 0,              \* m_tcb->m_rxBuffer->NextRxSequence ()
     got |-> FALSE,         \* the peer's segment came in, in order
     slow |-> e \in SlowReaders,
     unread |-> FALSE,      \* m_tcb->m_rxBuffer->Size () # 0
     fin |-> 0,             \* the sequence given to SetFinSequence, 0 for none
     synCount |-> 0,        \* m_synCount
     dataRetrCount |-> 0,   \* m_dataRetrCount
     retx |-> "none",       \* what m_retxEvent sends: "SYN", "SYNACK", "FIN", or
                            \* "DATA" for ReTxTimeout
     lastAck |-> FALSE,     \* m_lastAckEvent is pending
     sendEvent |-> FALSE,   \* m_sendPendingDataEvent is pending
     delAck |-> 0,          \* m_delAckCount
     closeOnEmpty |-> FALSE, shutdownSend |-> FALSE,
     wrote |-> FALSE,       \* (ghost) Send accepted the application's segment
     closed |-> FALSE,      \* (ghost) the application called Close
     out |-> <<>>]          \* packets under way to the peer, oldest first

Packet(flags, seq, ack, len) == [flags |-> flags, seq |-> seq, ack |-> ack, len |-> len]

\* The buffer's size, and its data from m_nextTxSequence on.
Size(s) == s.tail - s.head
Unsent(s) == s.tail - (IF s.next = 0 THEN 1 ELSE s.next)

----------------------------------------------------------------------------
(* What handlers do to a socket: each operator gives the socket afterwards *)

\* DeallocateEndPoint: all timers are cancelled.
DeallocateEndPoint(s) ==
    [s EXCEPT !.bound = FALSE, !.retx = "none", !.lastAck = FALSE,
              !.sendEvent = FALSE, !.delAck = 0]

CloseAndNotify(s) == DeallocateEndPoint([s EXCEPT !.state = "CLOSED"])

\* Deviation for a mutation run: only a FIN is guarded against loss.
EmitUnguarded(s, flags) ==
    LET seq == IF flags # "FIN" /\ s.state \in {"FIN_WAIT_1", "LAST_ACK", "CLOSING"}
               THEN s.next + 1 ELSE s.next
    IN  [s EXCEPT
            !.out = Append(@, Packet(flags, seq, s.rx, 0)),
            !.delAck = IF flags \in {"SYNACK", "FIN", "ACK"} THEN 0 ELSE @,
            !.retx = IF @ = "none" /\ flags = "FIN" THEN flags ELSE @]

\* SendEmptyPacket past the count of SYNs.  A FIN carries an ACK; what follows
\* a FIN has the next sequence number.
Emit(s, flags) ==
    LET seq == IF flags # "FIN" /\ s.state \in {"FIN_WAIT_1", "LAST_ACK", "CLOSING"}
               THEN s.next + 1 ELSE s.next
    IN  [s EXCEPT
            !.out = Append(@, Packet(flags, seq, s.rx, 0)),
            !.delAck = IF flags \in {"SYNACK", "FIN", "ACK"} THEN 0 ELSE @,
            !.retx = IF @ = "none" /\ flags \in {"SYN", "SYNACK", "FIN"} THEN flags ELSE @]

\* Deviation for a mutation run: the SYNs are counted, but not limited.
SendEmptyPacketEndless(s, flags) ==
    IF ~s.bound THEN s
    ELSE IF flags \notin {"SYN", "SYNACK"} THEN Emit(s, flags)
    ELSE Emit([s EXCEPT !.synCount = @ - 1], flags)

SendEmptyPacket(s, flags) ==
    IF ~s.bound THEN s
    ELSE IF flags \notin {"SYN", "SYNACK"} THEN Emit(s, flags)
    ELSE IF s.synCount = 0 THEN CloseAndNotify(s)
    ELSE Emit([s EXCEPT !.synCount = @ - 1], flags)

SendRST(s) == DeallocateEndPoint(SendEmptyPacket(s, "RST"))

\* SendDataPacket: the last data takes the FIN with it if a close waits for it.
SendDataPacket(s, seq) ==
    LET last == s.closeOnEmpty /\ seq + 1 = s.tail
    IN  [s EXCEPT
            !.out = Append(@, Packet(IF last THEN "FIN" ELSE "ACK", seq, s.rx, 1)),
            !.state = CASE last /\ @ = "ESTABLISHED" -> "FIN_WAIT_1"
                        [] last /\ @ = "CLOSE_WAIT" -> "LAST_ACK"
                        [] OTHER -> @,
            !.retx = IF @ = "none" THEN "DATA" ELSE @,
            !.delAck = 0,
            !.next = seq + 1,
            !.high = IF seq + 1 > @ THEN seq + 1 ELSE @]

SendPendingData(s) ==
    IF s.bound /\ Size(s) > 0 /\ Unsent(s) > 0 THEN SendDataPacket(s, s.next) ELSE s

TimeWait(s) ==
    [s EXCEPT !.state = "TIME_WAIT", !.retx = "none", !.lastAck = FALSE,
              !.sendEvent = FALSE, !.delAck = 0]

DoClose(s) ==
    CASE s.state \in {"SYN_RCVD", "ESTABLISHED"} ->
            [SendEmptyPacket(s, "FIN") EXCEPT !.state = "FIN_WAIT_1"]
      [] s.state = "CLOSE_WAIT" ->
            [SendEmptyPacket(s, "FIN") EXCEPT !.state = "LAST_ACK"]
      [] s.state \in {"SYN_SENT", "CLOSING"} -> CloseAndNotify(SendRST(s))
      [] OTHER -> s

\* Deviations for mutation runs: Close does not wait for the data; it resets
\* the connection for data of its own.
CloseSocketNow(s) == IF s.unread THEN SendRST(s) ELSE DoClose(s)
CloseSocketResets(s) == IF s.unread \/ Unsent(s) > 0 THEN SendRST(s) ELSE DoClose(s)

\* Close: the connection is reset if data received was not read, whatever is
\* still to be sent; otherwise data not sent yet goes first.
CloseSocket(s) ==
    CASE s.unread -> SendRST(s)
      [] ~s.unread /\ Unsent(s) > 0 -> [s EXCEPT !.closeOnEmpty = TRUE]
      [] OTHER -> DoClose(s)

----------------------------------------------------------------------------
(* Receiving data and FIN *)

\* Deviation for a mutation run: a FIN is taken over the data before it.
SetFinSequenceJumps(s, seq) == [s EXCEPT !.fin = seq, !.rx = seq + 1]

\* SetFinSequence and Finished, of the receive buffer.
SetFinSequence(s, seq) ==
    [s EXCEPT !.fin = seq, !.rx = IF @ = seq THEN @ + 1 ELSE @]
Finished(s) == s.fin # 0 /\ s.fin < s.rx

\* DoPeerClose: a socket that was shut down answers with its own FIN.
DoPeerClose(s) ==
    LET t == [s EXCEPT !.state = "CLOSE_WAIT"]
        u == IF s.shutdownSend THEN CloseSocket(t) ELSE SendEmptyPacket(t, "ACK")
    IN  IF u.state = "LAST_ACK"
        THEN [u EXCEPT !.dataRetrCount = DataRetries, !.lastAck = TRUE]
        ELSE u

\* Add, of the receive buffer: the segment, and a FIN it was waiting for.
Add(s, p) ==
    LET end == p.seq + p.len
    IN  IF end <= s.rx THEN s
        ELSE [s EXCEPT !.rx = IF s.fin = end THEN end + 1 ELSE end, !.got = TRUE,
                       !.unread = s.slow]

ReceivedData(s, p) ==
    LET t == Add(s, p)
    IN  CASE p.seq + p.len <= s.rx -> SendEmptyPacket(s, "ACK")
          [] p.seq + p.len > s.rx /\ Finished(t) /\ p.flags # "FIN" -> DoPeerClose(t)
          [] OTHER ->
                IF t.rx > s.rx + p.len \/ s.delAck + 1 >= DelAckMax
                THEN SendEmptyPacket(t, "ACK")
                ELSE [t EXCEPT !.delAck = @ + 1]

\* PeerClose: a FIN at or above what is expected.
PeerClose(s, p) ==
    IF p.seq < s.rx THEN s
    ELSE LET t == SetFinSequence(s, p.seq + p.len)
             u == IF p.len > 0 THEN ReceivedData(t, p) ELSE t
         IN  CASE ~Finished(u) -> u
               [] Finished(u) /\ u.state = "FIN_WAIT_1" -> [u EXCEPT !.state = "CLOSING"]
               [] OTHER -> DoPeerClose(u)

----------------------------------------------------------------------------
(* Receiving an ACK *)

\* Deviation for a mutation run: an empty buffer always stops the timer.
NewAckStopsAll(s, ack) ==
    [s EXCEPT !.dataRetrCount = DataRetries,
              !.next = IF ack > @ THEN ack ELSE @,
              !.retx = IF Size(s) = 0 THEN "none" ELSE "DATA"]

\* NewAck: the timer starts again, and stops with the data, but for a FIN.
NewAck(s, ack) ==
    [s EXCEPT !.dataRetrCount = DataRetries,
              !.next = IF ack > @ THEN ack ELSE @,
              !.retx = IF Size(s) = 0 /\ s.state \notin {"FIN_WAIT_1", "CLOSING"}
                       THEN "none" ELSE "DATA"]

\* DiscardUpTo, which lets an ACK of the FIN move the empty buffer.
DiscardUpTo(s, ack) ==
    [s EXCEPT !.head = ack, !.tail = IF ack > @ THEN ack ELSE @]

ProcessAck(s, ack) ==
    CASE ack > s.head -> NewAck(DiscardUpTo(s, ack), ack)
      [] ack = s.head /\ ack > s.high -> [s EXCEPT !.next = ack]
      [] OTHER -> s

ReceivedAck(s, p) ==
    LET t == ProcessAck(s, p.ack)
        u == IF p.len > 0 THEN ReceivedData(t, p) ELSE t
    IN  IF p.ack < s.head THEN u ELSE SendPendingData(u)

----------------------------------------------------------------------------
(* The packet p arrives at the socket s, by state *)

\* What both kinds of handshake do when it is over.
Connected(s) ==
    [s EXCEPT !.state = "ESTABLISHED", !.retx = "none",
              !.next = s.next + 1, !.high = s.next + 1]

ProcessSynSent(s, p) ==
    CASE p.flags = "SYNACK" /\ p.ack = s.next + 1 ->
            [SendPendingData(SendEmptyPacket(Connected([s EXCEPT !.rx = p.seq + 1]), "ACK"))
                EXCEPT !.delAck = DelAckMax]
      [] p.flags = "RST" -> CloseAndNotify(s)
      [] OTHER -> s

ProcessSynRcvd(s, p) ==
    CASE p.flags = "ACK" /\ p.ack = s.next + 1 ->
            ReceivedAck([Connected(s) EXCEPT !.delAck = DelAckMax], p)
      [] p.flags = "SYN" -> SendEmptyPacket([s EXCEPT !.rx = p.seq + 1], "SYNACK")
      [] p.flags = "FIN" ->
            IF p.seq = s.rx
            THEN PeerClose([Connected(s) EXCEPT !.state = "SYN_RCVD"], p) ELSE s
      [] p.flags = "RST" -> CloseAndNotify(s)
      [] OTHER -> CloseAndNotify(SendRST(s))

ProcessEstablished(s, p) ==
    CASE p.flags = "ACK" /\ p.ack < s.head -> s
      [] p.flags = "ACK" /\ p.ack > s.high -> SendEmptyPacket(s, "ACK")
      [] p.flags = "ACK" /\ p.ack \in s.head .. s.high -> ReceivedAck(s, p)
      [] p.flags = "FIN" -> PeerClose(s, p)
      [] p.flags = "RST" -> CloseAndNotify(s)
      [] OTHER -> s

\* The FIN of ProcessWait is taken at the sequence number of its packet.
FinWhileWaiting(s, p) ==
    SetFinSequence(ReceivedAck(s, p), p.seq)

\* Deviation for a mutation run: the ACK of the FIN is taken to be one lower.
WaitForFinOffByOne(s, p) ==
    IF p.flags = "FIN" THEN FinWhileWaiting(s, p)
    ELSE LET t == ReceivedAck(s, p)
         IN  IF t.state = "FIN_WAIT_1" /\ Size(t) = 0 /\ p.ack = t.high
             THEN [t EXCEPT !.state = "FIN_WAIT_2"] ELSE t

\* ProcessWait up to its check for a FIN in sequence.
WaitForFin(s, p) ==
    IF p.flags = "FIN" THEN FinWhileWaiting(s, p)
    ELSE LET t == ReceivedAck(s, p)
         IN  IF t.state = "FIN_WAIT_1" /\ Size(t) = 0 /\ p.ack = t.high + 1
             THEN [t EXCEPT !.state = "FIN_WAIT_2"] ELSE t

ProcessWait(s, p) ==
    LET t == WaitForFin(s, p)
        acked == Size(t) = 0 /\ p.ack = t.high + 1
    IN  CASE p.flags \in {"SYN", "SYNACK"} -> s
          [] p.flags = "RST" -> CloseAndNotify(s)
          [] p.flags \in {"ACK", "FIN"} /\ t.state = "FIN_WAIT_1" /\ Finished(t) ->
                SendEmptyPacket(IF acked THEN TimeWait(t)
                                ELSE [t EXCEPT !.state = "CLOSING"], "ACK")
          [] p.flags \in {"ACK", "FIN"} /\ t.state = "FIN_WAIT_2" /\ Finished(t) ->
                SendEmptyPacket(TimeWait(t), "ACK")
          [] OTHER -> t

ProcessClosing(s, p) ==
    CASE p.flags = "ACK" -> IF p.seq = s.rx THEN TimeWait(s) ELSE s
      [] p.flags = "FIN" -> CloseAndNotify(SendEmptyPacket(s, "ACK"))
      [] p.flags = "RST" -> CloseAndNotify(s)
      [] OTHER -> CloseAndNotify(SendRST(s))

ProcessLastAck(s, p) ==
    CASE p.flags = "ACK" -> IF p.seq = s.rx THEN CloseAndNotify(s) ELSE s
      [] p.flags \in {"FIN", "RST"} -> CloseAndNotify(s)
      [] OTHER -> CloseAndNotify(SendRST(s))

----------------------------------------------------------------------------
Init ==
    /\ sock = [e \in Ends |-> NewSocket(e)]
    /\ sink \in BOOLEAN
    /\ forking = FALSE
    /\ losses = 0

Becomes(e, s) == sock' = [sock EXCEPT ![e] = s]

(* The applications *)

\* Connect of the client, once: another attempt would take another port.
Connect ==
    LET s == sock["client"]
    IN  /\ s = NewSocket("client")
        /\ Becomes("client",
              [SendEmptyPacket([s EXCEPT !.bound = TRUE, !.synCount = SynRetries,
                                         !.dataRetrCount = DataRetries], "SYN")
                  EXCEPT !.state = "SYN_SENT"])
        /\ UNCHANGED <<sink, forking, losses>>

\* The server's application knows the fork once the connection is made.  What
\* is asked of a closed socket sends nothing.
Held(e) == sock[e].state \notin {"CLOSED", "SYN_RCVD"}

\* Send: a socket that was shut down refuses after it has taken the data.
\* An application does not write once it has closed.
Send(e) ==
    LET s == sock[e]
    IN  /\ e \in Writers /\ Held(e)
        /\ s.state \in {"ESTABLISHED", "SYN_SENT", "CLOSE_WAIT"}
        /\ s.tail = 1 /\ ~s.closed
        /\ e = "server" => ~sink
        /\ Becomes(e, [s EXCEPT !.tail = 2, !.wrote = ~s.shutdownSend,
              !.sendEvent = @ \/ (~s.shutdownSend /\ s.bound
                                  /\ s.state \in {"ESTABLISHED", "CLOSE_WAIT"})])
        /\ UNCHANGED <<sink, forking, losses>>

SendPendingDataEvent(e) ==
    /\ sock[e].sendEvent
    /\ Becomes(e, SendPendingData([sock[e] EXCEPT !.sendEvent = FALSE]))
    /\ UNCHANGED <<sink, forking, losses>>

\* ShutdownSend: with an empty buffer the FIN goes now.
ShutdownSend(e) ==
    LET s == [sock[e] EXCEPT !.shutdownSend = TRUE, !.closeOnEmpty = TRUE]
    IN  /\ e \in Shutters /\ Held(e)
        /\ ~sock[e].shutdownSend
        /\ Becomes(e,
              IF Size(s) = 0 /\ s.state \in {"ESTABLISHED", "CLOSE_WAIT"}
              THEN [SendEmptyPacket(s, "FIN") EXCEPT !.state =
                       IF s.state = "ESTABLISHED" THEN "FIN_WAIT_1" ELSE "LAST_ACK"]
              ELSE s)
        /\ UNCHANGED <<sink, forking, losses>>

Close(e) ==
    /\ e \in Closers /\ Held(e)
    /\ ~sock[e].closed
    /\ Becomes(e, [CloseSocket(sock[e]) EXCEPT !.closed = TRUE])
    /\ UNCHANGED <<sink, forking, losses>>

\* Recv: the application reads what there is, until it closes.
Recv(e) ==
    /\ sock[e].unread /\ ~sock[e].closed
    /\ Becomes(e, [sock[e] EXCEPT !.unread = FALSE])
    /\ UNCHANGED <<sink, forking, losses>>

----------------------------------------------------------------------------
(* The timers                                                              *)

\* A pending m_delAckEvent.
AckDelayed(e) == sock[e].delAck \in 1 .. DelAckMax - 1

\* Timers that repeat a packet expire while fewer than Flight packets, with the
\* delayed ACKs, are under way: with Flight = 1 they outlast a round trip.
Due ==
    Len(sock["client"].out) + Len(sock["server"].out)
        + Cardinality({e \in Ends : AckDelayed(e)}) < Flight

\* m_retxEvent, when it is one of SendEmptyPacket.
RepeatEmptyPacket(e) ==
    LET s == sock[e]
    IN  /\ s.retx \in {"SYN", "SYNACK", "FIN"} /\ Due
        /\ Becomes(e, SendEmptyPacket([s EXCEPT !.retx = "none"], s.retx))
        /\ UNCHANGED <<sink, forking, losses>>

\* ReTxTimeout with the buffer empty: only a FIN is sent again.
ReTxTimeoutEmpty(e) ==
    LET s == [sock[e] EXCEPT !.retx = "none"]
    IN  /\ sock[e].retx = "DATA" /\ Size(s) = 0 /\ Due
        /\ Becomes(e, IF s.state \in {"FIN_WAIT_1", "CLOSING"}
                      THEN SendEmptyPacket(s, "FIN") ELSE s)
        /\ UNCHANGED <<sink, forking, losses>>

\* ReTxTimeout with data: the first segment again, or no retries left.
ReTxTimeout(e) ==
    LET s == [sock[e] EXCEPT !.retx = "none"]
    IN  /\ sock[e].retx = "DATA" /\ Size(s) > 0 /\ Due
        /\ Becomes(e, IF s.dataRetrCount = 0 THEN DeallocateEndPoint(s)
                      ELSE SendDataPacket([s EXCEPT !.dataRetrCount = @ - 1], s.head))
        /\ UNCHANGED <<sink, forking, losses>>

\* Deviation for a mutation run: the retries in LAST_ACK are not counted.
LastAckTimeoutUncounted(e) ==
    LET s == [sock[e] EXCEPT !.lastAck = FALSE]
    IN  /\ sock[e].lastAck /\ Due
        /\ Becomes(e, IF s.state # "LAST_ACK" THEN s
                      ELSE [SendEmptyPacket(s, "FIN") EXCEPT !.lastAck = TRUE])
        /\ UNCHANGED <<sink, forking, losses>>

LastAckTimeout(e) ==
    LET s == [sock[e] EXCEPT !.lastAck = FALSE]
    IN  /\ sock[e].lastAck /\ Due
        /\ Becomes(e, CASE s.state # "LAST_ACK" -> s
                        [] s.state = "LAST_ACK" /\ s.dataRetrCount = 0 -> DeallocateEndPoint(s)
                        [] OTHER ->
                              [SendEmptyPacket([s EXCEPT !.dataRetrCount = @ - 1], "FIN")
                                  EXCEPT !.lastAck = TRUE])
        /\ UNCHANGED <<sink, forking, losses>>

DelAckTimeout(e) ==
    /\ AckDelayed(e)
    /\ Becomes(e, SendEmptyPacket(sock[e], "ACK"))
    /\ UNCHANGED <<sink, forking, losses>>

\* m_timewaitEvent.
TimeWaitOver(e) ==
    /\ sock[e].state = "TIME_WAIT" /\ sock[e].bound
    /\ Becomes(e, CloseAndNotify(sock[e]))
    /\ UNCHANGED <<sink, forking, losses>>

----------------------------------------------------------------------------
(* Packets: the oldest one from the peer arrives, or is lost *)

Arriving(e) == sock[Peer(e)].out # <<>>
Arrived(e) == Head(sock[Peer(e)].out)

\* The socket of e becomes s, having taken the packet.
TakesPacket(e, s) ==
    sock' = [sock EXCEPT ![e] = s, ![Peer(e)].out = Tail(@)]

\* IsValidTcpSegment: data out of range is acknowledged and dropped.
OutOfRange(s, p) ==
    CASE s.state \in {"SYN_SENT", "SYN_RCVD"} -> FALSE
      [] s.state \in {"LAST_ACK", "CLOSING", "CLOSE_WAIT"} -> s.rx # p.seq
      [] OTHER -> p.seq + p.len < s.rx

\* DoForwardUp: what the state makes of the packet.
DoForwardUp(s, p) ==
    CASE s.state = "SYN_SENT" -> ProcessSynSent(s, p)
      [] s.state = "SYN_RCVD" -> ProcessSynRcvd(s, p)
      [] s.state = "ESTABLISHED" -> ProcessEstablished(s, p)
      [] s.state \in {"FIN_WAIT_1", "FIN_WAIT_2", "CLOSE_WAIT"} -> ProcessWait(s, p)
      [] s.state = "CLOSING" -> ProcessClosing(s, p)
      [] s.state = "LAST_ACK" -> ProcessLastAck(s, p)
      [] OTHER -> s

ForwardUp(e) ==
    LET s == sock[e]
        p == Arrived(e)
    IN  /\ Arriving(e) /\ s.bound
        /\ TakesPacket(e, IF p.len > 0 /\ OutOfRange(s, p) THEN SendEmptyPacket(s, "ACK")
                          ELSE DoForwardUp(s, p))
        /\ UNCHANGED <<sink, forking, losses>>

\* The listener has the packets no fork has an endpoint for; only a SYN counts.
ProcessListen ==
    LET s == sock["server"]
    IN  /\ Arriving("server") /\ ~s.bound
        /\ forking' = (forking \/ Arrived("server").flags = "SYN")
        /\ TakesPacket("server", s)
        /\ UNCHANGED <<sink, losses>>

\* CompleteFork; a second one finds the address taken and has no effect.
CompleteFork ==
    /\ forking
    /\ forking' = FALSE
    /\ Becomes("server",
          IF sock["server"].bound THEN sock["server"]
          ELSE SendEmptyPacket(
                  [NewSocket("server") EXCEPT
                      !.state = "SYN_RCVD", !.bound = TRUE, !.rx = 1,
                      !.synCount = SynRetries, !.dataRetrCount = DataRetries,
                      !.shutdownSend = sink, !.closeOnEmpty = sink,
                      !.out = sock["server"].out], "SYNACK"))
    /\ UNCHANGED <<sink, losses>>

\* The transport protocol answers for an address without a socket.
NoEndPoint ==
    LET s == sock["client"]
    IN  /\ Arriving("client") /\ ~s.bound
        /\ TakesPacket("client",
              IF Arrived("client").flags = "RST" THEN s
              ELSE [s EXCEPT !.out = Append(@, Packet("RST", 0, 0, 0))])
        /\ UNCHANGED <<sink, forking, losses>>

Lose(e) ==
    /\ Arriving(e)
    /\ losses < MaxLoss
    /\ losses' = losses + 1
    /\ TakesPacket(e, sock[e])
    /\ UNCHANGED <<sink, forking>>

Next ==
    \/ Connect \/ ProcessListen \/ CompleteFork \/ NoEndPoint
    \/ \E e \in Ends :
        \/ Send(e) \/ SendPendingDataEvent(e) \/ Recv(e)
        \/ ShutdownSend(e) \/ Close(e)
        \/ RepeatEmptyPacket(e) \/ ReTxTimeoutEmpty(e) \/ ReTxTimeout(e)
        \/ LastAckTimeout(e) \/ DelAckTimeout(e) \/ TimeWaitOver(e)
        \/ ForwardUp(e) \/ Lose(e)

Spec == Init /\ [][Next]_vars

\* The simulator runs every event it holds, a packet arrives unless it is
\* lost, and an application that closes does so in the end.
\* The endless FINs do not keep the other timers, which a counter bounds, from
\* their turn.
Arrivals == ProcessListen \/ NoEndPoint \/ \E e \in Ends : ForwardUp(e)
Events ==
    CompleteFork \/ \E e \in Ends :
        SendPendingDataEvent(e) \/ DelAckTimeout(e) \/ TimeWaitOver(e) \/ Close(e)
RepeatFin(e) == (sock[e].retx = "FIN" /\ RepeatEmptyPacket(e)) \/ ReTxTimeoutEmpty(e)
Counted(e) ==
    (sock[e].retx # "FIN" /\ RepeatEmptyPacket(e)) \/ ReTxTimeout(e) \/ LastAckTimeout(e)

Fairness ==
    /\ WF_vars(Arrivals) /\ WF_vars(Events)
    /\ WF_vars(\E e \in Ends : RepeatFin(e))
    /\ SF_vars(\E e \in Ends : Counted(e))

FairSpec == Spec /\ Fairness

----------------------------------------------------------------------------
(* Properties *)

States == {"CLOSED", "SYN_SENT", "SYN_RCVD", "ESTABLISHED", "FIN_WAIT_1", "FIN_WAIT_2",
           "CLOSING", "TIME_WAIT", "CLOSE_WAIT", "LAST_ACK"}

\* Types.  The bounds of the sequence numbers say that however often a FIN is
\* sent again or accepted twice, it moves them by one at most.
TypeOK ==
    /\ \A e \in Ends :
        LET s == sock[e]
        IN  /\ s.state \in States
            /\ s.next \in 0 .. 4 /\ s.high \in 0 .. 2 /\ s.high <= s.next
            /\ s.head <= s.tail /\ Size(s) \in 0 .. 1
            /\ s.rx \in 0 .. 4 /\ s.fin \in 0 .. 3
            /\ s.synCount \in 0 .. SynRetries /\ s.dataRetrCount \in 0 .. DataRetries
            /\ s.retx \in {"none", "SYN", "SYNACK", "FIN", "DATA"}
            /\ s.delAck \in 0 .. DelAckMax
    /\ {sink, forking} \subseteq BOOLEAN
    /\ losses \in 0 .. MaxLoss

\* A pending event sends the FIN again: one of SendEmptyPacket, LastAckTimeout,
\* or ReTxTimeout, which repeats it alone once the data is acknowledged, but
\* only in FIN_WAIT_1 and CLOSING, or with the last data.
RepeatsFin(s) ==
    \/ s.retx = "FIN"
    \/ s.retx = "DATA" /\ s.state \in {"FIN_WAIT_1", "CLOSING"}
    \/ s.retx = "DATA" /\ s.closeOnEmpty /\ Size(s) > 0
    \/ s.lastAck /\ s.state = "LAST_ACK"

\* In FIN_WAIT_1 and CLOSING, and in LAST_ACK unless the application called
\* Close, a FIN is never without an event that repeats it: not when it went out
\* while the timer ran for data, nor when the ACK of that data came.  The code
\* leaves a FIN without one, and so does the formula, in LAST_ACK entered by Close
\* with data outstanding, and in CLOSE_WAIT after the FIN of an earlier Close.
FinGuarded ==
    \A e \in Ends :
        LET s == sock[e]
            owesFin == \/ s.state \in {"FIN_WAIT_1", "CLOSING"}
                       \/ s.state = "LAST_ACK" /\ ~s.closed
        IN  s.bound /\ owesFin => RepeatsFin(s)

\* What the peer acknowledged it has, also when the ACK is that of a FIN.
AckedWasDelivered ==
    \A e \in Ends : sock[e].wrote /\ sock[e].head > 1 => sock[Peer(e)].got

\* A FIN never ends the stream before data that Send accepted: not when Close
\* or ShutdownSend comes with the data unsent, nor when the FIN overtakes data
\* that was lost.
GracefulClose ==
    \A e \in Ends : Finished(sock[e]) /\ sock[Peer(e)].wrote => sock[e].got

\* Once both ends were connected, a socket lets go of data that Send accepted,
\* neither delivered nor under way, only if a packet was lost, one of them used
\* up its retries, or one has had data its application reads late: then a close
\* may have found it unread.
Undelivered(e) ==
    sock[e].wrote /\ ~sock[Peer(e)].got /\ \A i \in DOMAIN sock[e].out : sock[e].out[i].len = 0
DataAbandoned ==
    \A e \in Ends :
        (\A x \in Ends : sock[x].high > 0) /\ ~sock[e].bound /\ Undelivered(e)
            => \/ losses > 0
               \/ \E x \in Ends : sock[x].dataRetrCount = 0 \/ (sock[x].slow /\ sock[x].got)

\* The opening handshake ends at both sides, connected or given up.
HandshakeEnds ==
    \A e \in Ends :
        sock[e].state \in {"SYN_SENT", "SYN_RCVD"}
            ~> sock[e].state \notin {"SYN_SENT", "SYN_RCVD"}

\* The FINs that answer a FIN are not endless, whatever is lost and also when
\* the peer is gone: the socket leaves LAST_ACK or gives up ("prevent endless
\* FINs", in DoPeerClose).
FinsNotEndless ==
    \A e \in Ends : sock[e].lastAck ~> sock[e].state # "LAST_ACK" \/ ~sock[e].bound

\* Data given to Send after ShutdownSend: refused, and yet in the buffer.
HoldsRefused(e) == sock[e].shutdownSend /\ Unsent(sock[e]) > 0 /\ ~sock[e].sendEvent

\* As long as nothing is lost, a connection both applications close is over in
\* the end at both sides, unless the buffer of one holds data that was refused
\* (HoldsRefused): its Close waits for ever until they are sent.
ClosesUnlessLoss ==
    \A e \in Ends :
        sock["client"].closed /\ sock["client"].next > 0
            ~> \/ sock[e].state \in {"CLOSED", "TIME_WAIT"} \/ ~sock[e].bound
               \/ losses > 0
               \/ \E x \in Ends : HoldsRefused(x)

\* ProcessClosing and ProcessLastAck: "This ACK corresponds to the FIN sent."
AckCoversFin ==
    [][\A e \in Ends :
         \/ sock[e].state = "CLOSING" /\ sock'[e].state = "TIME_WAIT"
         \/ sock[e].state = "LAST_ACK" /\ sock'[e].state = "CLOSED"
                /\ Arrived(e).flags = "ACK"
         => Arrived(e).ack = sock[e].high + 1]_vars

\* ShutdownSend: "otherwise fin will go when buffer empties."
FinGoesWhenEmpty ==
    \A e \in Ends :
        sock[e].state = "ESTABLISHED" /\ sock[e].bound /\ sock[e].shutdownSend
                /\ sock[e].high = 2 /\ Size(sock[e]) = 0
            ~> sock[e].state # "ESTABLISHED" \/ ~sock[e].bound
=============================================================================
