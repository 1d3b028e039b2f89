---------------------------- MODULE PeakHopperRto ----------------------------
(***************************************************************************)
(* The retransmission-timeout estimation of the modified ns-3 socket:      *)
(* RttMeanDeviation (rtt-estimator.cc) and every place of TcpSocketBase    *)
(* (tcp-socket-base.cc) that measures, resets, computes or backs off the   *)
(* RTO.  The estimator belongs to one socket; lastRtt is a global of the   *)
(* translation unit, so all the sockets of the simulation write it.        *)
(*                                                                         *)
(* Times are integers (Time counts integer ticks).  A gain is GainNum over *)
(* GainDen; the double arithmetic that scales a Time by it may round       *)
(* either way.                                                             *)
(***************************************************************************)
EXTENDS Integers, FiniteSets

CONSTANTS
    Clients,        \* sockets created by the application, which call Connect
    Servers,        \* sockets a listener forks for incoming connections
    PeakHopper,     \* the m_peakHopper attribute of both classes
    Samples,        \* RTT samples a connection may see
    GainNum, GainDen,   \* the Gain attribute of RttMeanDeviation
    GarbageGains,   \* numerators an uninitialised m_gain may show
    Granularity,    \* m_clockGranularity
    MinRto,         \* the MinRto attribute
    InitialRtt,     \* the InitialEstimation attribute
    CnTimeout,      \* m_cnTimeout, the delay before a SYN is sent again
    MaxRto,         \* the 60 seconds written in ReTxTimeout
    SynRetries,     \* m_synRetries
    DataRetries,    \* m_dataRetries
    EstCap          \* bound: estimates explored stay in -EstCap .. EstCap

Sockets == Clients \cup Servers

ASSUME SamplesAssumption == Samples \subseteq Nat \ {0}
ASSUME GainAssumption ==
    /\ GainNum \in Nat /\ GainDen \in Nat \ {0} /\ GainNum <= GainDen
    /\ GarbageGains \subseteq Nat
ASSUME TimeAssumption ==
    /\ Granularity \in Nat /\ MinRto \in Nat /\ InitialRtt \in Nat \ {0}
    /\ CnTimeout \in Nat /\ MaxRto \in Nat
ASSUME RetriesAssumption == SynRetries \in Nat \ {0} /\ DataRetries \in Nat
ASSUME SocketsAssumption == Clients \cap Servers = {} /\ PeakHopper \in BOOLEAN
ASSUME EstCapAssumption == EstCap \in Nat

VARIABLES
    state,      \* m_state, as far as the timers tell states apart
    est,        \* m_rtt->m_estimatedRtt
    var,        \* m_rtt->m_estimatedVariation
    sampled,    \* m_rtt->m_nSamples # 0
    rttPH,      \* m_rtt->m_peakHopper
    gain,       \* m_rtt->m_gain, a numerator over GainDen
    sockPH,     \* TcpSocketBase::m_peakHopper
    rto,        \* m_rto
    minRto,     \* m_minRto
    synCount,   \* m_synCount
    dataRetrCount,  \* m_dataRetrCount
    lastRtt     \* the global lastRtt

estimator == <<est, var, sampled>>
modes == <<rttPH, gain, sockPH>>
vars == <<state, est, var, sampled, rttPH, gain, sockPH, rto, minRto,
          synCount, dataRetrCount, lastRtt>>

----------------------------------------------------------------------------
(* Arithmetic *)

Larger(a, b) == IF a >= b THEN a ELSE b
Smaller(a, b) == IF a <= b THEN a ELSE b
Magnitude(a) == IF a >= 0 THEN a ELSE -a

\* Time::FromDouble (x * num/den): the tick below the product or the one above.
Scaled(x, num, den) ==
    LET q == (x * num) \div den
    IN  IF q * den = x * num THEN {q} ELSE {q, q + 1}

----------------------------------------------------------------------------
(* RttMeanDeviation.  An estimate is a pair <<rtt, variation>>. *)

\* Deviation for a mutation run: the error is taken with the wrong sign.
PeakHopperUpdateSwapped(e, v, g, m) ==
    {<<e + de, v>> : de \in Scaled(e - m, g, GainDen)}

\* FloatingPointUpdatePeakHopper: the gain is squared when the error is below
\* the variation, and the variation moves only on a sample above the estimate.
PeakHopperUpdate(e, v, g, m) ==
    LET err == m - e
        diff == err - v
        num == IF diff < 0 THEN g * g ELSE g
        den == IF diff < 0 THEN GainDen * GainDen ELSE GainDen
    IN  {<<e + de, v + dv>> : de \in Scaled(err, num, den),
                              dv \in IF err >= 0 THEN Scaled(diff, num, den) ELSE {0}}

\* Deviation for a mutation run: the sum is shifted one place too few.
IntegerUpdateWrongShift(e, v, m) ==
    <<(8 * e + (m - e)) \div 4, (4 * v + (Magnitude(m - e) - v)) \div 4>>

\* IntegerUpdate with the shifts of alpha = 1/8 and beta = 1/4.
IntegerUpdate(e, v, m) ==
    <<(8 * e + (m - e)) \div 8, (4 * v + (Magnitude(m - e) - v)) \div 4>>

\* Measurement.  With PeakHopper on, alpha and beta become (1/8)*.. and
\* (1/4)*.. in integer division, hence 0: the shifts are 0 and the
\* floating-point update is taken always.
Measurement(s, m) ==
    IF ~sampled[s] THEN {<<m, m \div 2>>}
    ELSE IF rttPH[s] THEN PeakHopperUpdate(est[s], var[s], gain[s], m)
    ELSE {IntegerUpdate(est[s], var[s], m)}

----------------------------------------------------------------------------
(* The RTO formulas of TcpSocketBase *)

\* Deviation for a mutation run: the minimum RTO is forgotten.
JacobsonRtoNoFloor(e, v, floor) == e + Larger(Granularity, 4 * v)

\* The RTO after a sample (EstimateRtt) and, out of PeakHopper, everywhere.
JacobsonRto(e, v, floor) == Larger(e + Larger(Granularity, 4 * v), floor)

\* Deviation for a mutation run: the estimate itself is left out.
RecomputedRtoNoEstimate(ph, e, v, floor, last) ==
    IF ph THEN last + 2 * Granularity ELSE JacobsonRto(e, v, floor)

\* "RFC 6298, clause 2.4" in NewAck and SendEmptyPacket.
RecomputedRto(ph, e, v, floor, last) ==
    IF ph THEN Larger(e + v, last + 2 * Granularity)
    ELSE JacobsonRto(e, v, floor)

\* SendEmptyPacket with SYN: exponential backoff of the connection timeout.
SynRto(count) == CnTimeout * 2 ^ (SynRetries - count)

----------------------------------------------------------------------------
(* Steps shared by the handlers *)

\* Deviation for a mutation run: the global is not refreshed.
EstimateRttKeepsLast(s, m) ==
    \E p \in Measurement(s, m) :
        /\ p[1] \in -EstCap .. EstCap /\ p[2] \in -EstCap .. EstCap
        /\ est' = [est EXCEPT ![s] = p[1]]
        /\ var' = [var EXCEPT ![s] = p[2]]
        /\ sampled' = [sampled EXCEPT ![s] = TRUE]
        /\ minRto' = [minRto EXCEPT ![s] =
              IF sockPH[s] THEN Larger(m, lastRtt) + 2 * Granularity ELSE @]
        /\ lastRtt' = lastRtt

\* EstimateRtt with a sample m # 0: the floor of the PeakHopper mode and the
\* global are overwritten, the RTO follows the new estimate.
EstimateRtt(s, m) ==
    \E p \in Measurement(s, m) :
        /\ p[1] \in -EstCap .. EstCap /\ p[2] \in -EstCap .. EstCap
        /\ est' = [est EXCEPT ![s] = p[1]]
        /\ var' = [var EXCEPT ![s] = p[2]]
        /\ sampled' = [sampled EXCEPT ![s] = TRUE]
        /\ minRto' = [minRto EXCEPT ![s] =
              IF sockPH[s] THEN Larger(m, lastRtt) + 2 * Granularity ELSE @]
        /\ lastRtt' = p[1]

\* m = 0: the ACK gave no usable sample.
NoSample == UNCHANGED <<est, var, sampled, minRto, lastRtt>>

RtoAfterSample(s) == JacobsonRto(est'[s], var'[s], minRto'[s])
RtoRecomputed(s) ==
    RecomputedRto(sockPH[s], est'[s], var'[s], minRto'[s], lastRtt')

\* SendEmptyPacket (SYN or SYN|ACK) with connection retries left.
SendSyn(s, count) ==
    /\ rto' = [rto EXCEPT ![s] = SynRto(count)]
    /\ synCount' = [synCount EXCEPT ![s] = count - 1]

----------------------------------------------------------------------------
Init ==
    /\ state = [s \in Sockets |-> "CLOSED"]
    /\ est = [s \in Sockets |-> InitialRtt]
    /\ var = [s \in Sockets |-> 0]
    /\ sampled = [s \in Sockets |-> FALSE]
    /\ rttPH = [s \in Sockets |-> PeakHopper]
    /\ gain = [s \in Sockets |-> GainNum]
    /\ sockPH = [s \in Sockets |-> PeakHopper]
    /\ rto = [s \in Sockets |-> 0]
    /\ minRto = [s \in Sockets |-> MinRto]
    /\ synCount = [s \in Sockets |-> 0]
    /\ dataRetrCount = [s \in Sockets |-> DataRetries]
    /\ lastRtt = 0

\* Connect and DoConnect on a closed socket: the estimator is reset, lastRtt
\* and m_minRto are not, and the first SYN goes out.
Connect(s) ==
    /\ s \in Clients /\ state[s] = "CLOSED"
    /\ est' = [est EXCEPT ![s] = InitialRtt]
    /\ var' = [var EXCEPT ![s] = 0]
    /\ sampled' = [sampled EXCEPT ![s] = FALSE]
    /\ dataRetrCount' = [dataRetrCount EXCEPT ![s] = DataRetries]
    /\ SendSyn(s, SynRetries)
    /\ state' = [state EXCEPT ![s] = "SYN_SENT"]
    /\ UNCHANGED <<modes, minRto, lastRtt>>

\* The copy constructor of RttMeanDeviation sets neither m_peakHopper nor m_gain.
CopyEstimator(s) ==
    \E ph \in BOOLEAN, g \in GarbageGains :
        /\ rttPH' = [rttPH EXCEPT ![s] = ph]
        /\ gain' = [gain EXCEPT ![s] = g]

\* The copy constructor of TcpSocketBase, on a listening socket: m_peakHopper is
\* not copied, its initialiser is false.
CopySocket(s) ==
    /\ sockPH' = [sockPH EXCEPT ![s] = FALSE]
    /\ CopyEstimator(s)
    /\ est' = [est EXCEPT ![s] = InitialRtt]
    /\ var' = [var EXCEPT ![s] = 0]
    /\ sampled' = [sampled EXCEPT ![s] = FALSE]
    /\ minRto' = [minRto EXCEPT ![s] = MinRto]
    /\ dataRetrCount' = [dataRetrCount EXCEPT ![s] = DataRetries]

\* Fork and CompleteFork: a copy of the listener answers with SYN|ACK.
CompleteFork(s) ==
    /\ s \in Servers /\ state[s] = "CLOSED"
    /\ CopySocket(s)
    /\ SendSyn(s, SynRetries)
    /\ state' = [state EXCEPT ![s] = "SYN_RCVD"]
    /\ UNCHANGED lastRtt

\* Deviation for a mutation run: the count is tested one retry too late.
SynTimeoutOffByOne(s) ==
    /\ state[s] \in {"SYN_SENT", "SYN_RCVD"}
    /\ SendSyn(s, synCount[s])
    /\ UNCHANGED <<state, estimator, modes, minRto, dataRetrCount, lastRtt>>

\* SendEmptyPacket from the retransmission timer of a SYN or SYN|ACK.
SynTimeout(s) ==
    /\ state[s] \in {"SYN_SENT", "SYN_RCVD"}
    /\ synCount[s] > 0
    /\ SendSyn(s, synCount[s])
    /\ UNCHANGED <<state, estimator, modes, minRto, dataRetrCount, lastRtt>>

\* The same with no connection retries left: the connection fails.
SynGiveUp(s) ==
    /\ state[s] \in {"SYN_SENT", "SYN_RCVD"}
    /\ synCount[s] = 0
    /\ rto' = [rto EXCEPT ![s] =
          RecomputedRto(sockPH[s], est[s], var[s], minRto[s], lastRtt)]
    /\ est' = [est EXCEPT ![s] = InitialRtt]
    /\ var' = [var EXCEPT ![s] = 0]
    /\ sampled' = [sampled EXCEPT ![s] = FALSE]
    /\ state' = [state EXCEPT ![s] = "CLOSED"]
    /\ UNCHANGED <<modes, minRto, synCount, dataRetrCount, lastRtt>>

\* A SYN|ACK in SYN_SENT: EstimateRtt, then the ACK of ProcessSynSent.
RecvSynAck(s, m) ==
    /\ state[s] = "SYN_SENT"
    /\ EstimateRtt(s, m)
    /\ rto' = [rto EXCEPT ![s] = RtoRecomputed(s)]
    /\ state' = [state EXCEPT ![s] = "ESTABLISHED"]
    /\ UNCHANGED <<modes, synCount, dataRetrCount>>

\* The ACK that ends the handshake in SYN_RCVD: EstimateRtt; ReceivedAck
\* finds nothing new and NewAck is not reached.
RecvHandshakeAck(s, m) ==
    /\ state[s] = "SYN_RCVD"
    /\ EstimateRtt(s, m)
    /\ rto' = [rto EXCEPT ![s] = RtoAfterSample(s)]
    /\ state' = [state EXCEPT ![s] = "ESTABLISHED"]
    /\ UNCHANGED <<modes, synCount, dataRetrCount>>

\* An ACK of new data: EstimateRtt when it gives a sample, then NewAck.
RecvAck(s, m) ==
    /\ state[s] = "ESTABLISHED"
    /\ \/ m \in Samples /\ EstimateRtt(s, m)
       \/ m = 0 /\ NoSample
    /\ rto' = [rto EXCEPT ![s] = RtoRecomputed(s)]
    /\ dataRetrCount' = [dataRetrCount EXCEPT ![s] = DataRetries]
    /\ UNCHANGED <<state, modes, synCount>>

\* A later partial ACK of a recovery: NewAck with resetRTO false.
RecvPartialAck(s, m) ==
    /\ state[s] = "ESTABLISHED"
    /\ EstimateRtt(s, m)
    /\ rto' = [rto EXCEPT ![s] = RtoAfterSample(s)]
    /\ dataRetrCount' = [dataRetrCount EXCEPT ![s] = DataRetries]
    /\ UNCHANGED <<state, modes, synCount>>

\* SendEmptyPacket without SYN (a pure ACK or a FIN) recomputes the RTO.
SendAck(s) ==
    /\ state[s] = "ESTABLISHED"
    /\ rto' = [rto EXCEPT ![s] =
          RecomputedRto(sockPH[s], est[s], var[s], minRto[s], lastRtt)]
    /\ UNCHANGED <<state, estimator, modes, minRto, synCount, dataRetrCount, lastRtt>>

\* Deviation for a mutation run: the doubled timer is not capped.
ReTxTimeoutUncapped(s) ==
    /\ state[s] = "ESTABLISHED"
    /\ dataRetrCount[s] > 0
    /\ rto' = [rto EXCEPT ![s] = @ + @]
    /\ dataRetrCount' = [dataRetrCount EXCEPT ![s] = @ - 1]
    /\ UNCHANGED <<state, estimator, modes, minRto, synCount, lastRtt>>

\* ReTxTimeout with data outstanding: back off.
ReTxTimeout(s) ==
    /\ state[s] = "ESTABLISHED"
    /\ dataRetrCount[s] > 0
    /\ rto' = [rto EXCEPT ![s] = Smaller(@ + @, MaxRto)]
    /\ dataRetrCount' = [dataRetrCount EXCEPT ![s] = @ - 1]
    /\ UNCHANGED <<state, estimator, modes, minRto, synCount, lastRtt>>

\* ReTxTimeout with no retries left: the endpoint is deallocated.
ReTxGiveUp(s) ==
    /\ state[s] = "ESTABLISHED"
    /\ dataRetrCount[s] = 0
    /\ state' = [state EXCEPT ![s] = "DROPPED"]
    /\ UNCHANGED <<estimator, modes, rto, minRto, synCount, dataRetrCount, lastRtt>>

\* The connection ends and the application closes; the socket can be reused.
CloseAndNotify(s) ==
    /\ state[s] \in {"SYN_SENT", "ESTABLISHED"}
    /\ state' = [state EXCEPT ![s] = "CLOSED"]
    /\ UNCHANGED <<estimator, modes, rto, minRto, synCount, dataRetrCount, lastRtt>>

Next ==
    \E s \in Sockets :
        \/ Connect(s) \/ CompleteFork(s) \/ SynTimeout(s) \/ SynGiveUp(s)
        \/ \E m \in Samples : RecvSynAck(s, m)
        \/ \E m \in Samples : RecvHandshakeAck(s, m)
        \/ \E m \in Samples \cup {0} : RecvAck(s, m)
        \/ \E m \in Samples : RecvPartialAck(s, m)
        \/ SendAck(s) \/ ReTxTimeout(s) \/ ReTxGiveUp(s) \/ CloseAndNotify(s)

Spec == Init /\ [][Next]_vars

----------------------------------------------------------------------------
(* Properties *)

\* Types; the retries of a SYN and of data stay within m_synRetries and
\* m_dataRetries in every mode of the estimator.
TypeOK ==
    /\ state \in [Sockets ->
          {"CLOSED", "SYN_SENT", "SYN_RCVD", "ESTABLISHED", "DROPPED"}]
    /\ est \in [Sockets -> Int] /\ var \in [Sockets -> Int]
    /\ sampled \in [Sockets -> BOOLEAN] /\ rttPH \in [Sockets -> BOOLEAN]
    /\ gain \in [Sockets -> Nat] /\ sockPH \in [Sockets -> BOOLEAN]
    /\ rto \in [Sockets -> Int] /\ minRto \in [Sockets -> Int]
    /\ synCount \in [Sockets -> 0 .. SynRetries]
    /\ dataRetrCount \in [Sockets -> 0 .. DataRetries]
    /\ lastRtt \in Int

Established(s) == state[s] = "ESTABLISHED"
GainInRange(s) == gain[s] <= GainDen

\* Whatever the rounding of the scaled error, the smoothed RTT of
\* RttMeanDeviation stays between samples the socket took and the variation
\* between 0 and one of them: neither update overshoots.
EstimateWithinSamples ==
    \A s \in Sockets : sampled[s] /\ GainInRange(s) =>
        /\ \E low \in Samples : low <= est[s]
        /\ \E high \in Samples : est[s] <= high
        /\ 0 <= var[s]
        /\ \E high \in Samples : var[s] <= high

\* The timer of an established connection never fires before the estimated
\* round trip and its variation have passed, unless the 60 s cap cuts it:
\* through samples, ACKs without one, pure ACKs and backoffs in any order,
\* and whatever the other sockets write to lastRtt.
RtoCoversEstimate ==
    \A s \in Sockets : Established(s) /\ GainInRange(s) =>
        rto[s] >= Smaller(est[s] + var[s], MaxRto)

\* With one socket in the program, lastRtt is that socket's estimate and the
\* PeakHopper timer keeps twice the clock granularity above it, although
\* NewAck and SendEmptyPacket read no variation floor and no minimum RTO.
LoneSocketMargin ==
    \A s \in Sockets : Established(s) /\ sockPH[s] =>
        rto[s] >= Smaller(est[s] + 2 * Granularity, MaxRto)

\* A socket out of PeakHopper mode respects the configured minimum RTO, a
\* forked one with an uninitialised estimator included.
JacobsonFloor ==
    \A s \in Sockets : Established(s) /\ ~sockPH[s] =>
        rto[s] >= Smaller(MinRto, MaxRto)

\* DoRetransmit and EstimateRtt divide by lastRtt: once a connection is
\* established, a sample has made it positive and it stays so.
RetransmitMetricDefined ==
    (\E s \in Sockets : Established(s)) => lastRtt >= 1

\* Neither the backoff nor the estimate lets the timer of an established
\* connection grow without bound.
RtoBounded ==
    \A s \in Sockets : Established(s) /\ GainInRange(s) =>
        \E high \in Samples :
            rto[s] <= Larger(Larger(5 * high + 2 * Granularity, MinRto), MaxRto)

----------------------------------------------------------------------------
(* What the report says of the algorithm (main.tex, "Algorithm Overview") *)

\* Step 6: the RTO does not fall below the minimum allowed RTO.
MinimumRtoRespected ==
    \A s \in Sockets : Established(s) => rto[s] >= Smaller(MinRto, MaxRto)
=============================================================================
