# A verification model of the PeakHopper TCP socket

The repository modifies the TCP socket of ns-3 (`src/PeakHopper Implementation/`):
the estimator `RttMeanDeviation` gets an update with a gain that depends on the
sign of the error, and `TcpSocketBase` gets a second way of computing its
retransmission timeout (RTO), both switched by an attribute `m_peakHopper`. A
script (`simulate.cc`) runs two flows over a dumbbell; other scripts run 802.11 and
802.15.4 topologies. These modules model the socket as this code has it. The
abbreviations below are `T` for `tcp-socket-base.cc` and `R` for `rtt-estimator.cc`.

## The system's parts

| Part | State | Operations | Talks to |
|---|---|---|---|
| RTT estimator (`R`) | `m_estimatedRtt`, `m_estimatedVariation`, `m_nSamples`, `m_gain`, `m_peakHopper`, the global `pr` | `Measurement`, `IntegerUpdate`, `FloatingPointUpdatePeakHopper`, `Reset`, `Copy` | called by the socket |
| RTO computation (`T`) | `m_rto`, `m_minRto`, the globals `lastRtt`, `B`, `ratio` | `EstimateRtt`, `NewAck`, `SendEmptyPacket`, `ReTxTimeout`, `LastAckTimeout` | estimator; all sockets share the globals |
| Loss recovery (`T`) | `m_txBuffer`, `m_congState`, `m_dupAckCount`, `m_recover`, `m_cWnd`, `m_ssThresh`, `m_history`, `m_retxEvent`, `m_dataRetrCount` | `Send`, `SendPendingData`, `ReceivedAck`, `ProcessAck`, `DupAck`, `EnterRecovery`, `DoRetransmit`, `NewAck`, `ReTxTimeout` | tx buffer, congestion control, scheduler |
| Receiver (`T`) | `m_rxBuffer`, `m_delAckCount`, `m_delAckEvent` | `ReceivedData`, `DelAckTimeout`, `SendEmptyPacket` | the peer's sender |
| Connection set-up (`T`) | `m_state`, `m_synCount` | `Connect`, `DoConnect`, `Listen`, `Fork`, `CompleteFork`, `ProcessSynSent`, `ProcessSynRcvd` | L4, application callbacks |
| Connection tear-down (`T`) | `m_state`, `m_closeNotified`, `m_closeOnEmpty`, `m_lastAckEvent`, `m_timewaitEvent` | `Close`, `DoClose`, `PeerClose`, `DoPeerClose`, `ProcessWait`, `ProcessClosing`, `ProcessLastAck`, `TimeWait` | L4, application callbacks |
| Flow control (`T`) | `m_rWnd`, `m_highRxMark`, `m_persistEvent`, window scales | `UpdateWindowSize`, `AdvertisedWindowSize`, `PersistTimeout`, silly window and Nagle tests | both ends |
| ECN (`T`) | `m_ecnState`, `m_ecnEchoSeq`, `CA_CWR` | `EnterCwr`, the ECE and CWR flags | network, congestion control |
| SACK, options, pacing (`T`) | option flags, the pacing timer | option encoding and decoding | tx buffer |
| Metrics (`T`, `simulate.cc`) | `w`, `total_retransmit`, `ratio`, `cnt_m_rto_update` | sums in `DoRetransmit` and `EstimateRtt` | trace sources |
| Scripts, parsers, plots, report | files | run once, offline | traces |

Each handler of the socket runs to its end inside one event of the simulator; the
interleaving is that of events: packets arriving, timers expiring, application calls
and handlers the code schedules for later (`SendPendingData` after a `Send`,
`CompleteFork`). Several sockets live in one process and share the globals of `T`.
`TcpTxBuffer`, `TcpRxBuffer`, the congestion and recovery algorithms, L4 and the
simulator are not part of the repository: they are modelled from their use and marked
external.

What is hard here, and where the hazards of `PROJECT.json` lie: globals shared among
sockets, forked sockets with fields left uninitialised, timers armed in one function,
restarted in a second and consumed in a third, guesses of a scoreboard without SACK
that turn out wrong, ACKs lost, delayed and overtaken, timeouts that race the answers
they wait for, two timers of which one must run whenever something is owed, echoes and
answers of ECN that cross, and counters of retries shared by all the data of a connection.

What makes each part correct:

* estimator: estimates stay among the samples, variations are never negative, a copy is
  a copy;
* RTO: the timer is not below the estimated round trip, is bounded, and keeps the
  configured minimum where the code applies it;
* loss recovery: every hole is repaired, the window is cut once per loss event, no
  ambiguous sample is taken, the timer runs exactly while something is unacknowledged,
  and the whole is a reliable stream;
* receiver: only what arrived is acknowledged, and every gap is reported at once;
* set-up and tear-down: both ends agree, and no state is left for ever;
* flow control: no data outside the peer's window, and no stall when it reopens;
* ECN: one reduction per window of data, and one in the end for every mark.

## Modules

* `PeakHopperRto` - the estimator and the RTO of any number of sockets that share
  `lastRtt`. `Clients` are opened by the application, `Servers` are forked by a
  listener. One action per place of `T` that touches these variables; `EstimateRtt` and
  `Measurement` are operators the actions share, as the functions are.
* `PeakHopperRtoProofs` - the theorems about `PeakHopperRto`.
* `TcpTxBuffer` - the operations of the simulator's transmission buffer without SACK,
  as operators on a record; external.
* `TcpSender` - an established sender, the receiver it talks to and the path between
  them, which loses packets, may reorder them and, with `UseEcn`, marks them.
* `ReliableStream` - the abstract specification the former implements: segments are
  written, delivered in order, acknowledged after delivery, and the connection may fail.
* `TcpConnection` - the life of a connection: a client, a listener and its fork, from
  `Connect` to the last FIN.
* `FlowControl` - the advertised window of an established connection: a receiver with a
  small buffer and a slow reader, and a sender with a retransmission and a persist timer.
* `LibraryProofs`, `TcpTxBufferProofs` - lemmas about the operators of the community
  modules and of `TcpTxBuffer` that the proofs below cite.
* `TcpSenderProofs`, `TcpSenderOrderProofs` - the theorems about `TcpSender`, and the one
  about a path that keeps order.
* `FlowControlProofs` - what the loop of `SendPendingData` does, and the theorems about
  `FlowControl`.
* `TcpConnectionProofs`, `TcpConnectionReleaseProofs` - the theorems about `TcpConnection`,
  and the one about what a socket that goes leaves behind.

`TcpConnection`, `TcpSender` and `FlowControl` split the socket along its concerns: the
first has every state and flag and one segment of data per direction, the second stays in
`ESTABLISHED` and has many segments, windows and guesses, the third counts bytes on a
path that keeps the order of data, where only the offer and the two timers matter. Both
senders share `TcpTxBuffer`.

### PeakHopperRto and the code

Time is counted in ticks, as the class `Time` does. `Scaled` is the one place where
doubles matter: scaling by the gain may give the tick below or above the product, and
both are explored. With the PeakHopper attribute on, `(1/8)*(1+del)` is an integer
division, `m_alpha` becomes 0 and `CheckForReciprocalPowerOfTwo` gives 0: so
`Measurement` always takes `FloatingPointUpdatePeakHopper` in that mode, and
`FloatingPointUpdate` is dead code. The values `B` and `tmp` of `EstimateRtt` are
computed and not used, so they are not in the model.

`RecvAck` is an ACK of new data (`EstimateRtt`, then the RTO of `NewAck`),
`RecvPartialAck` a later partial ACK in which `NewAck` leaves the RTO as `EstimateRtt`
made it, `SendAck` any pure ACK or FIN this socket sends (`SendEmptyPacket` recomputes
the RTO first), `ReTxTimeout` the backoff, `ReTxGiveUp` the drop. The copy constructor
of `RttMeanDeviation` (`R:166`) initialises neither `m_gain` nor `m_peakHopper`, and
nothing sets them on a copy: `CopyEstimator` lets them be anything.

### TcpSender and the code

Data is counted in segments. `buf` is the transmission buffer; its field `next` is also
`m_highTxMark`. The disjuncts of `ReceivedAck` are the paths of `ProcessAck` and
`DupAck`; each ends with the `SendPendingData` that `ReceivedAck` ends with. The window
the congestion control would choose is any value within what the socket relies on:
`IncreaseWindow` does not shrink it and adds at most what was acknowledged, a reduction
leaves at least two segments. `firstPartial` decides only whether `NewAck` recomputes
the RTO, which `PeakHopperRto` models (`RecvAck` or `RecvPartialAck`): the timer runs in
both cases.

An application writes between two handlers, also where the code asks it to with
`NotifySend` inside `SendPendingData`; the segment then goes out with the event that
`Send` schedules.

`copies` is a ghost variable: how often each segment was sent. Packets are in two
queues; a packet at place `i <= Displace + 1` may arrive, so with `Displace = 0` the
path keeps order and with 1 each packet may overtake one other. At most `MaxLoss` packets
are lost.

The timer's duration is the subject of the other module. Here `Due` says when a running
timer may expire: at any moment (`"none"`), once nothing is under way (`"path"`: an RTO
above the round trip), or once, besides, the receiver owes no delayed ACK (`"peer"`: an
RTO above round trip plus 200 ms, which the default minimum of one second guarantees and
the PeakHopper formula does not).

ECN adds two records: `ecn` of the sender (`m_ecnState`, `m_ecnEchoSeq`, `m_ecnCWRSeq`) and
`rcvEcn` of the receiver (`m_ecnState`, `m_ecnCESeq`). `HeadersRead` is `ForwardUp` and the
head of `DoForwardUp`; it is applied only to a segment `IsValidTcpSegment` lets pass
(`OutOfRange`), a refused one is answered by an ACK without echo (`RefuseData`). On the
way back `AfterEcho` and `Congestion` are the part of `ReceivedAck` between `DiscardUpTo`
and `ProcessAck`: the end of `CA_CWR`, then `EnterCwr`, which may replace `CA_RECOVERY` and
`CA_LOSS` too. What follows starts from the congestion state that leaves. `Transmit` puts
the CWR flag on the next new segment (`EchoAnswered`). The guarantees of
`HoleResent` and `TimerArmed` are checked without ECN: in `CA_CWR` the code counts duplicate
ACKs and resends nothing, so a hole waits for the timer, and an idle socket stays in
`CA_CWR` because only an ACK above `m_recover` ends it; `Settles` speaks of sockets
without ECN, as the simulations have them. How the recovery algorithm brings the window
down in `CA_CWR` (`T:1612`) is not in the repository: `AckInCwr` takes the old window or
`ssThresh`, the values between them do not occur, and no property depends on them.

### TcpConnection and the code

`sock` has one record per end with the socket's fields. A handler of `T` is an operator
that takes the socket and gives the socket afterwards, so that a handler which calls
others is a composition, in the order of the code: `ReceivedAck` is `ProcessAck`, then
`ReceivedData`, then `SendPendingData`. The packets a handler sends are appended to the
field `out`, from which the peer takes them in order. An action is an event: an
application call, a timer, `CompleteFork`, or the oldest packet arriving.

Sequence numbers count the SYN as 0, the segment as 1 and the FIN as 1 or 2; the fields
`next`, `high`, `rx`, `fin` move exactly as the code moves them, also where that is
surprising: the FIN does not advance `m_nextTxSequence`, an ACK of it does, `DiscardUpTo`
lets that ACK move an empty buffer, and `ProcessWait` takes a FIN at the number of its
packet. `retx` says what `m_retxEvent` will run: `SendEmptyPacket` with given flags or
`ReTxTimeout`, since the code uses one event for both and never asks which.

`Due` bounds the timers that send: fewer than `Flight` packets are under way, counting a
delayed ACK. With `Flight = 1` a timer outlasts the round trip and nothing is repeated
without need; with 2 timers expire early. FINs that no counter limits are kept finite by
it as well. The listener may call `ShutdownSend` beforehand (`sink`), as a packet sink
does; its forks inherit that. The applications in `SlowReaders` read when they like
(`Recv`), the others at once: `unread` says that the segment is still in `m_rxBuffer`, and a
`Close` then sends RST and no FIN (`CloseSocket`). No application writes once it has called
`Close`. What reaches a port nobody has (`NoEndPoint`) is answered with RST
by L4 (external); what reaches the listener and is no SYN is ignored (`ProcessListen`).
A socket connects once, because another `Connect` takes another port.

### FlowControl and the code

Data is counted in bytes, since segments that are cut are the point. `MaySend` is one turn
of the loop of `SendPendingData` up to the decision, `SendDataPacket` the rest of the turn,
`Loop` the whole, as a set with one member that is handed from turn to turn. The tests of
silly windows and of Nagle's algorithm stand where the code has them: after `NextSeg`,
hence before a retransmission too. `NextSeg` gives bytes thought lost before new ones,
and new ones only as far as the advertised window allows.

`RecvAck` is `DoForwardUp` with its two halves of persist handling around
`ProcessEstablished`: `IgnoredAck`, `RepeatedAck` and `NewAck` are the cases that occur
on a path that keeps the order of data; `TypeOK` states that no duplicate ACK arrives while
data is outstanding, so that the paths of `DupAck`, which `TcpSender` models, are not
needed. ACKs may overtake each other. The probe of `PersistTimeout` does not enter the sent
list (`PersistTimeout` resets what `CopyFromSequence` noted), so its byte stays unsent for the
sender when the receiver took it. A window that is closed with nothing left to send makes
the code use a null pointer: `PersistWithoutData` ends the run.

The receiver takes of a segment what fits (`Taken`), acknowledges every `DelAckMax`-th and
offers what is left of its buffer. `Recv` frees room and, as in the code, sends nothing.
The delayed ACK's timer is shorter than both timers of the sender, which `Due` states for
the defaults: a persist timeout of 6 s and a minimum RTO of 1 s.

`Stalled` names the two situations in which the code has no event left that would send
what it has: a window smaller than a segment in front of more data than fits it, and a short
last segment that Nagle's test holds back because it is itself the data not yet
acknowledged. They are the code's, and the properties except them by name.

## Runs

| Run | Question | Bounds |
|---|---|---|
| `lone_peakhopper` | is one PeakHopper socket's timer above its estimate with a margin, bounded, and no metric divided by zero? | samples 1, 4, 9, two retries, connects again after closing |
| `forked_server` | what if another socket writes `lastRtt`, a fork with uninitialised fields? | a PeakHopper client and a fork, garbage gains 0 and 2 |
| `sender_loss` | is the recovery sound when packets and ACKs are lost? | 6 segments, window up to 5, 2 losses, 1 retry |
| `sender_early` | and when packets overtake each other and the timer expires too early? does it implement a stream? | 4 segments, window up to 3, threshold 2, 1 loss, overtaking by one, `Due` always |
| `sender_settles` | does it end, and is nothing repeated without need? | 4 segments, window 4, 3 losses, 2 retries, with fairness |
| `ecn` | is the window reduced once per window and once for every mark? | 5 segments, window up to 3, threshold 2, 2 losses, 2 marks, with fairness |
| `flow` | is a closed window probed, an open one respected, the data delivered? | 6 bytes written in pieces of 1 and 3, segments of 2, a receive buffer of 3, 2 losses, 1 retry, with and without Nagle, with fairness |
| `connection` | do ACKs and FINs keep behind the data, and where the code guards a FIN, is an event that repeats it always pending? | one segment each way, 2 losses, `Flight = 2`, 2 retries, any order of shutting down and closing, a server that reads late |
| `connection_ends` | does every handshake end, every repeated answer, every connection that both close? | a client that writes and a sink, 1 loss, `Flight = 1`, with fairness |
| `doc_minimum_rto`, `doc_ack_covers_fin`, `doc_shutdown_fin` | sentences of the report and of comments the code does not satisfy | small; each ends with a counterexample |

The bounds are chosen so that the interesting cases occur. Six segments with an initial
window of four give three duplicate ACKs, a recovery with two holes, partial ACKs and new
data sent during recovery; in `sender_early` a threshold of two duplicate ACKs
(`m_retxThresh` is an attribute) gives the same with four. One or two retries with as many losses reach the drop.
Overtaking gives stale ACKs and duplicate ACKs without loss. `EstCap` bounds the
estimates explored; it is above what the samples of the runs can reach, so it prunes
only what `EstimateWithinSamples` forbids, except for the garbage gains above 1 of
`forked_server`, where estimates diverge and the properties say nothing of them
(`GainInRange`).

In `ecn` five segments leave three windows, so that a second mark can fall before, into and
after the reduction the first one caused, and two losses can take the echo and the answer
to it, or the marked segment and its repetition. The properties were also explored with six
segments and three losses (1.6 million states, without a difference), which takes longer
than a run should. In `flow` a buffer of three bytes and segments of two give every
offer that matters: closed, less than a segment, exactly one, more than one; six bytes fill
the buffer twice; two losses take the last byte's ACK twice, or a probe and the ACK that
opens the window, and with one retry the connection can be given up.

One segment per direction is what the connection needs: it may be unsent, under way, lost,
acknowledged or refused when a close or a FIN comes, alone or with the FIN on it. Two
losses take a FIN and its repetition, or the data before a FIN and the ACK after it, and
with two retries both sides can give up and be forked anew.

`CHECK_DEADLOCK FALSE` is set in the passing runs because the system stops: a transfer
ends, a dropped connection's socket does nothing more.

Fairness (`FairSpec` of `TcpSender`): the simulator runs every event it holds, so each
pending timer, scheduled handler and packet under way is served: weak fairness of each
action and of the arrival of some packet. Losing packets is not fair and is bounded.
`Send` is fair as the bulk application of the simulations writes as long as it has data.
Under it `Settles`, `MarksAnswered` and the fair abstract stream hold. `FairSpec` of
`FlowControl` is the same, with the application at the other end: what is delivered is read
in the end, for a reader that stops is a window that stays closed. Losses are not fair.

`MarksAnswered` has three exceptions, the ways the code has of missing a mark: the
connection is given up; all data was acknowledged without an echo that counted, as a
duplicate ACK's echo is ignored and a refused segment's bare ACK carries none (`T:1295`), so
that the echo waits for data that never comes; or the answer to an earlier echo, sent in
`CA_CWR` without a reduction of its own (`T:3138`), ended the echo of the newer mark.

`FairSpec` of `TcpConnection` is the same in fewer formulas, each weaker than fairness of
every event of its group: arrivals, events that send nothing for ever, and repeated
FINs. The timers a counter limits (`Counted`) get strong fairness, since the guard `Due`,
which stands for their duration, is switched off and on by the endless FINs, while the
simulator's queue does not forget them. An application that means to close does.
`ClosesUnlessLoss` speaks of runs in which nothing is lost: after a loss the code may leave
one side repeating its FIN for ever (see the hazards), and it names the data refused by
`Send` after `ShutdownSend`, which `Close` waits for.

### What the violated runs show

* `doc_minimum_rto`: step 6 of the report's algorithm says the RTO does not fall below
  the minimum allowed. In PeakHopper mode `NewAck` and `SendEmptyPacket` do not look at
  `m_minRto`, and `EstimateRtt` overwrites it.
* `doc_ack_covers_fin`: both sides close at once, one of them with data on its FIN. The
  other acknowledges the data only, and `ProcessClosing` takes that for the ACK of the
  FIN. The first is then in `TIME_WAIT` though its FIN was never accepted, the
  other repeats its own FIN to nobody. Nothing is lost in this run.
* `doc_shutdown_fin`: the client calls `ShutdownSend` while its segment is under way. The
  ACK empties the buffer and nothing looks at `m_closeOnEmpty` any more: no FIN.

Further divergences met while modelling have no run. The report's step 5 takes the maximum
with a decayed RTO: the code computes it in `tmp` (`T:3638`) and uses it nowhere, so one sample
can drop the RTO at once. `RttEstimator::Copy` is documented to copy the internal state, and
the copy's gain and mode are uninitialised (`R:166`), which `forked_server` explores.
`LastAckTimeout` computes the RTO with the formula of the other mode (`T:3888`),
`ReTxTimeout` asks for a flag it has just cleared, so that `ssThresh` is cut at
every timeout (`T:3823`), and the count of RTO updates starts at one (`T:77`). Without limited transmit a `Send` in
`CA_DISORDER` makes `SendPendingData` fail its assertion (`T:3404`). A FIN in
`FIN_WAIT_1` or repeated after `Close` in `CLOSE_WAIT` has no limit, and listeners and sockets
in `TIME_WAIT` ignore it. Data that fills the hole before a remembered FIN takes a socket
from `FIN_WAIT_2` back to `CLOSE_WAIT`, from where it sends a second FIN. They are
listed with their lines in `PROJECT.json`.

Two ways lead to a FIN that no pending event repeats, although `SendEmptyPacket` schedules
one "to guard against lost" (`T:2840`). The model takes both; `FinGuarded` claims nothing of
the states they lead to, `LAST_ACK` after a `Close` and `CLOSE_WAIT`.

* `Close` in `CLOSE_WAIT` with data outstanding: the FIN goes out beside the timer of the
  data, so it gets no event of its own (`T:2839`). `ReTxTimeout` repeats the data alone, the
  ACK of the data cancels the timer, since `NewAck` keeps it only in `FIN_WAIT_1` and
  `CLOSING`, and `LastAckTimeout` runs only after `DoPeerClose`. One loss is enough.
* Both sides have sent data and closed. The server's FIN is lost, and so is the client's
  data, while the client's FIN arrives and is remembered. The client's data, sent again,
  acknowledges the server's and fills the hole, and `ReceivedData` calls `DoPeerClose`
  (`T:3525`): the server goes from `FIN_WAIT_1` to `CLOSE_WAIT`, where the pending
  `ReTxTimeout` finds an empty buffer and sends nothing (`T:3751`). The client waits for a
  FIN that is not repeated.

## Proofs

Every safety property that the passing runs check, invariant or action property, is a theorem
for every value of the constants that the named assumptions allow (`GainAssumption` and its
companions in `PeakHopperRto`, `BoundsAssumption` and `SocketAssumption` in `TcpSender` and
`FlowControl`, `ConnectionAssumption` in `TcpConnection`), and so is the refinement of
`ReliableStream`. The assumptions ask no more than that sizes are positive, that a window
holds a segment, and what the attributes of the socket can be. Every inductive invariant
below was explored by TLC on small instances before it was proved.

### PeakHopperRto

For any sets of clients, servers, samples and garbage gains, any gain up to 1 and any time
constants:

* `TypeCorrect` - the type invariant;
* `EstimateSafe` - `EstimateWithinSamples`;
* `TimerCoversEstimate` - `RtoCoversEstimate`;
* `FloorRespected` - `JacobsonFloor`;
* `MetricDefined` - `RetransmitMetricDefined`, and `TimerBounded` - `RtoBounded`, if
  `TameGains`: no socket is forked, or what a fork finds in its uninitialised gain is a gain
  of at most 1;
* `LoneMargin` - `LoneSocketMargin`, if there is one socket (`Lone`).

The inductive invariant `SafetyInv` adds `Linked` to these properties. An established
socket has always measured, which gives the timer formulas an estimate to
be compared with; a socket in `SYN_RCVD` is out of PeakHopper mode and its minimum is the
configured one, without which the floor is not preserved by the end of the
handshake. The argument rests on two arithmetic facts: the quotient of a floor division
brackets its dividend (`DivBracket`), hence a time scaled by a gain of at most 1 stays
between 0 and the time however it is rounded (`ScaledBetween`); so an update moves the
estimate towards the sample and never past it (`PeakHopperUpdateRange`,
`IntegerUpdateRange`). Handlers that neither measure nor start a timer on an estimate go
through one lemma (`QuietStep`), those that treat an ACK through another (`AckSafe`).
The assumptions used are the named ones of `PeakHopperRto`.

`MetricInv` adds the history of the shared `lastRtt`: whatever socket wrote it, it is a
sample or an estimate between samples, hence at least 1 and at most the largest sample, as
soon as an established socket divides by it. `TameGains` is needed there and not in
`SafetyInv`: a fork with a garbage gain above 1 leaves the range of its samples, and through
`lastRtt` takes others with it. `LoneInv` says that with one socket `lastRtt` is that
socket's own last estimate, from which the margin of the PeakHopper formula follows.

### TcpSender

For any number of segments, windows, thresholds, retries, losses, marks and any reordering,
with or without ECN and for the three meanings of `Patience`:

* `TypesKept` - `TypeOK`; `PipeKept` - `PipeConsistent`, and that the bytes in flight are
  a natural number, so that the unsigned difference of the code never wraps;
* `TimerKept` - `TimerArmed`; `HoleKept` - `HoleResent`; `SamplesKept` -
  `SamplesUnambiguous`; `GivenUpKept` - `GivenUpAfterRetries`;
* `AssertionsKept` - `AssertionsHold`, and a little more: in `CA_DISORDER` the duplicate
  ACKs never reach the threshold, so the exception in the second assertion is not needed;
* `OneReduction`, `OneEchoReduction` - the two action properties about reductions;
* `StreamImplemented` - `ImplementsStream`;
* `NothingResentKept` (`TcpSenderOrderProofs`) - `NothingResent`.

All rest on `IInv` (`Invariance`), whose parts are needed as follows. `BufferInv` (`Sound`):
flags mark outstanding segments only and what was sent again was thought lost.
`RepairInv`: what the flags may be in each congestion state. This is the heart: outside a
repair at most the head is thought lost (`HeadLost`), in `CA_RECOVERY` exactly the head is and
it was sent again, in `CA_LOSS` everything below `m_recover` is and was sent again from the
head on without a gap (`LossRepair`), and `EnterCwr` can cut either short, which leaves lost
segments below `m_recover` (`LossLeft`). Without it a step of `SendPendingData`, which sends
any missing segment, could not be shown to leave the head sent; `HoleResent` is one
consequence, `TimerArmed` needs it to show that a partial ACK leaves a timer. `LogInv` says
which segments the history and the ghost variable `copies` speak of, and holds Karn's rule.
`RetryInv` counts the copies of the head against the retries left. `PathInv` bounds what is
under way by what was sent and received.

`SendPendingData` is used in the proofs through what it chooses (`PendingSent`) and what
each state then makes of it (`QuietSend`, `RecoverySend`, `DisorderSend`, `CwrSend`,
`PartialLossSend`, `TimeoutSend`); each action has one lemma ending in `Keeps`.

`StreamImplemented` maps a step that sends nothing new to the application to a stutter:
`Send` is `Write`, `RecvData` is `Deliver` of as many segments as the hole closed,
`RecvAck` is `Acknowledge` or a stutter, `ReTxGiveUp` is `Fail`. That the acknowledged
segments were delivered before is `PathInv`.

`OrderInv` holds as long as nothing was lost on a path that keeps order, with a timer above
the round trip and the delayed ACK (`Orderly`): the data under way is exactly what the peer
misses, in order (`DataInOrder`), every ACK acknowledges more than the last (`AcksRise`), and
the last of them acknowledges everything or one is owed (`AcksCurrent`). So no duplicate ACK
can arise and no timer that runs can expire (`Calm`).

### FlowControl

For any sizes of buffers, segments and windows, any number of bytes, retries and losses and
any pace of the reader:

* `RoomSafe` - `RoomBelieved`, the first part of `WithinOffer`;
* `ProbesExactlyWhenClosed` - `ZeroWindowProbed`;
* `FlowTypesKept` - `TypeOK`, which states the scope of the model too: no duplicate ACK
  arrives and data arrives in sequence;
* `OfferRespected` - `WithinOffer`;
* `OutstandingTimedKept` - `OutstandingTimed`;
* `GivenUpAfterLossesKept` - `GivenUpAfterLosses`.

`RoomBelieved` alone is not inductive, because an ACK under way may be believed later.
`RoomInv` adds that every such ACK promises at most the room there is now: the receiver's
right edge never moves back, since `Recv` only frees room and accepting data does not change
the edge (`TakenFits`, `RoomReceiver`); an ACK joins the queue with a promise that reaches
exactly the edge (`RoomAckNow`); losing or taking one leaves the others (`RemoveAtRange`);
and `UpdateWindowSize` takes the promise of the ACK or keeps the one before
(`RoomRecvAck`, where the case of an ACK that is older but would enlarge the window is the
one that matters). `ProbeInv` rests on the two tests of `DoForwardUp` taken together
(`PersistMatchesWindow`).

The rest needs to know what the loop of `SendPendingData` does, however often it turns.
`Loop` is a recursive function, and the prover has no induction scheme for it; but sets of
naturals have least members (`LeastNatural`), which gives that the function exists
(`LoopRuns`: there is no least number of turns it cannot do) and that what every turn keeps
its outcome has (`LoopInduction`). `LoopOutcome` then says that of the buffers the socket can
hand to it (`Ready`) the loop makes one of three things: nothing was sent, and the first
turn says why (`NoneSent`); all that was missing was sent again in one segment, and
perhaps new data after it, a chain of segments without a gap within the window (`AllSent`);
or one segment of what was missing filled the window of a timeout (`PartSent`).

`FlowInv` (`FlowInvariance`) is about both ends and the path. `WindowInv`: the highest ACK
the sender has seen is the head of its buffer, or one more after a probe whose byte was
accepted though the sender does not count it as sent; what is outstanding is within the
window. `ReachInv`: the receiver is never ahead of the sender but by that byte, and then
nothing else is under way. `DataInv`: on the path is nothing, a probe alone (`Probing`), or a
chain of segments that starts where the receiver waits, or before when it was sent again
(`Flowing`). `AckInv`: the ACKs under way and what they promise rise, each one of new data
promises at least what is outstanding, and one that repeats the head finds the window closed.
`ClosedInv`: a closed window leaves nothing outstanding, and at most one packet, or stale
ACKs, under way; this is why entering the persist state takes the retransmission timer from
no data. `LostInv`: when bytes are thought lost, they were all received and only their ACK was
lost, so that at most one segment is repeated before the ACK comes. `TimedInv`: without the
timer, everything outstanding was given up by a timeout whose `SendPendingData` was refused,
by the silly window test or by Nagle's (`HeldBackStalled`), or is about to be tried again.
`RetryInv`: losses pay for retries, but for one that a timeout with nothing to send may have
used; the ACK that returns it is then under way or owed.

### TcpConnection

For any retries, any set of writers, shutters, closers and slow readers, any number of
losses and any number of packets under way:

* `FinGuardedKept` - `FinGuarded`: an event that repeats the FIN is pending in `FIN_WAIT_1`
  and `CLOSING`, and in `LAST_ACK` unless the application called `Close`. It says nothing of
  `LAST_ACK` after `Close` nor of a FIN sent before `CLOSE_WAIT`: there the code leaves FINs
  without one, see the two ways described above;
* `AckedWasDeliveredKept` - `AckedWasDelivered`;
* `GracefulCloseKept` - `GracefulClose`;
* `TypesKept` - `TypeOK`, whose ranges say what repeated FINs do to the sequence numbers;
* `DataAbandonedKept` - `DataAbandoned`.

A handler is an operator from socket to socket, so the proofs follow the calls: each operator
has a lemma that cites those of the operators it calls, and an action only has to put the
outcome in its place. `Good` is what a single socket keeps: the ranges of its counters, that
its packets are packets, and that `m_retxEvent` is pending in `FIN_WAIT_1` and `CLOSING`
(`Guarded`). `AllGood` is inductive by itself. `FinGuarded` is more: the event must be one
that repeats the FIN (`RepeatsFin`). `Answers` says why it is, again of a single socket: no
event of a SYN outlives the handshake, which leaves the FIN's own and `ReTxTimeout` in
`FIN_WAIT_1` and `CLOSING`; and the ways to `LAST_ACK` without `Close` bring their event:
`DoPeerClose` schedules `LastAckTimeout`, `SendDataPacket` puts the FIN on the data its
timer repeats, `ShutdownSend` finds the buffer empty and no timer of data pending. It is kept
on top of `Inv`, which says that an application writes into an empty buffer.

`AckedWasDelivered` and `GracefulClose` say the same of two numbers of the peer: once one end
acknowledges, or has gone, past the first sequence number, the segment of the other is there,
or there was none and there will be none (`Settlement`). Neither follows from the socket
alone. `Own` is what a socket may hold and have under way: a FIN only once the application
has ended its data and everything `Send` accepted went out before it (`FinDue`), no ACK above
what came in, no SYN behind what only a connected socket sends (`Ordered`). `Same` says what
a handler without a packet leaves unchanged, `Takes` what one with a packet may change: the
expected number passes 1 only with data or with a bare FIN numbered 1 (`BareFin`), which
`PacketOwn` allows only to an end without data; the head passes 1 only for an ACK that does.
`Handshake` is needed because a listener whose fork is gone may make another one: it starts
afresh and would have lost what the first received. While a SYN is still on its way
(`Early`) the server has never been connected and the client has received nothing, because
SYNs leave before anything an established client sends and the path keeps their order. On
the path of this model no SYN reaches the listener once the server was connected.

The ranges of `TypeOK` are no invariant of one socket: `DiscardUpTo` moves the head to
whatever is acknowledged and `SetFinSequence` the expected number past whatever FIN comes,
so that a FIN which is sent again after its ACK goes out one higher, and moves the peer once
more if the peer still takes it. `Fitness` bounds that: `Marks` relates a socket's own
numbers (`m_nextTxSequence` is at most one above `m_highTxMark`, and only when everything was
acknowledged), `Near` what a socket has taken to what its peer has sent. An end takes a
number past its peer's mark by two only if the peer is `Frozen`, in a state in which nothing
it receives moves its numbers any more; `Lasting` and `FreshPacket` say the same of the FIN a
timer will repeat and of one that is under way: past the mark only where one of the two ends is frozen. So
the second move of a number is the last. `Timed` is there because a FIN is repeated by the
timer that was started for data, and `Stage` holds what the handlers break on their way
and restore: `ProcessWait` sets the FIN before it leaves FIN_WAIT_1.

`DataAbandoned` is about the moment a socket goes, and a socket goes out of nearly every
handler: an RST came, its FIN was acknowledged, a timer ran out, a close found data unread.
`Conduct`, on top of `Inv /\ Fitness`, is what holds of the two ends at that moment whoever
is first. For a socket by itself (`Tame`): `Shape` says how one that is gone may have gone
and that nothing of it is still timed, `Climbing` that what it has under way acknowledges
more and more, with an RST at the end. `Role` says which end sends a SYN or a SYN|ACK and
until when, `Ahead` that nothing under way acknowledges less than the other end has already
seen acknowledged; without it an old ACK could undo what was concluded from a later one.
`Beginning` is about the time when the client is connected and the server is not: the data
of the client stay behind the ACK that will connect the server, unless something was lost.
`Tidy` is the conclusion itself in inductive form: once the data were sent, or their socket
is gone, they are with the peer or under way (not `Owed`), and an end goes only after it has
what the peer wrote, or the peer has ended without data. It is claimed only while nothing
`Spoiled` it, that is no packet was lost, no retries used up, no data read late.

The handlers are shown once: `Moves` says what any of them may do to a socket, and `Exit`
why it is let go of if it is. `Passes` and `Sends` say the same of what a socket does unasked
(timers and the application), `Arrives` puts a handler between the two ends and the packet
it takes from the path. The step itself is then shown for an end that is still being
connected (`OpeningConduct` and the lemmas about the handshake) and for one that was
(`ConnectedConduct`, `ConnectedArrival`).

### What stays with TLC

Liveness under fairness is out of the prover's reach: `Settles`, `MarksAnswered` and
`ImplementsFairStream` of `TcpSender`, `Delivered` of `FlowControl`, `HandshakeEnds`,
`FinsNotEndless` and `ClosesUnlessLoss` of `TcpConnection`. Every invariant of the passing
runs is also a theorem.

## Not modelled, and the plan

1. `TcpConnection`: simultaneous open, a second `Connect`, the history entry of a SYN
   (`T:2803`), packets that overtake each other, `Close` from inside the callback of a peer's
   close, the negotiation of ECN. An abstract connection it implements.
2. `FlowControl`: window scaling and the 16 bits of the field, the window kept after a
   FIN, data in both directions, early timers.

SACK, pacing, option encoding, addresses and ICMP are left out: their logic is in classes
outside the repository or concerns formatting. The metrics beyond their divisions are sums
that no decision depends on. The scripts, parsers and plots run
once and keep no state.
