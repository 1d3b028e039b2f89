------------------------- MODULE PeakHopperRtoProofs -------------------------
(***************************************************************************)
(* What holds of the RTO estimation for every set of sockets, every set of *)
(* samples and every gain, configured delay and retry count.               *)
(***************************************************************************)
EXTENDS PeakHopperRto, TLAPS

----------------------------------------------------------------------------
(* Arithmetic of the estimator *)

\* A product is compared with another one over the same positive factor.
LEMMA MulOrder ==
    ASSUME NEW a \in Int, NEW b \in Int, NEW d \in Nat \ {0}
    PROVE  /\ a * d <= b * d => a <= b
           /\ a * d < b * d => a < b
           /\ a <= b => a * d <= b * d
  OBVIOUS

\* The quotient of floor division brackets the dividend.
LEMMA DivBracket ==
    ASSUME NEW p \in Int, NEW d \in Nat \ {0}
    PROVE  /\ p \div d \in Int
           /\ (p \div d) * d <= p
           /\ p < (p \div d) * d + d
  OBVIOUS

\* A Time scaled by a gain of at most 1 lies between 0 and the Time, however
\* the product is rounded.
LEMMA ScaledBetween ==
    ASSUME NEW x \in Int, NEW num \in Nat, NEW den \in Nat \ {0}, num <= den,
           NEW r \in Scaled(x, num, den)
    PROVE  /\ r \in Int
           /\ x >= 0 => 0 <= r /\ r <= x
           /\ x <= 0 => x <= r /\ r <= 0
<1> DEFINE p == x * num
           q == p \div den
<1>1. p \in Int /\ q \in Int /\ q * den <= p /\ p < q * den + den
  BY DivBracket
<1>2. x >= 0 => 0 <= p /\ p <= x * den
  OBVIOUS
<1>3. x <= 0 => x * den <= p /\ p <= 0
  OBVIOUS
<1>4. \/ r = q /\ q * den = p
      \/ r \in {q, q + 1} /\ q * den < p
  BY <1>1 DEF Scaled
<1>5. (q + 1) * den = q * den + den /\ 0 * den = 0
  BY <1>1
<1>6. x >= 0 => 0 <= q
  BY <1>1, <1>2, <1>5, MulOrder
<1>7. x >= 0 => q <= x /\ (q * den < p => q + 1 <= x)
  BY <1>1, <1>2, MulOrder
<1>8. x <= 0 => q <= 0 /\ (q * den < p => q + 1 <= 0)
  BY <1>1, <1>3, <1>5, MulOrder
<1>9. x <= 0 => x <= q + 1 /\ (q * den = p => x <= q) /\ x <= q
  BY <1>1, <1>3, <1>5, MulOrder
<1>10. QED
  BY <1>1, <1>4, <1>6, <1>7, <1>8, <1>9

\* FloatingPointUpdatePeakHopper moves the estimate towards the sample without
\* passing it, and the variation not above the larger of itself and the sample.
LEMMA PeakHopperUpdateRange ==
    ASSUME NEW e \in Nat, NEW v \in Nat, NEW g \in Nat, g <= GainDen,
           NEW m \in Nat, NEW p \in PeakHopperUpdate(e, v, g, m)
    PROVE  /\ p[1] \in Int /\ p[2] \in Int
           /\ e <= m => e <= p[1] /\ p[1] <= m
           /\ m <= e => m <= p[1] /\ p[1] <= e
           /\ 0 <= p[2] /\ (p[2] <= v \/ p[2] <= m)
<1> DEFINE err == m - e
           diff == err - v
           num == IF diff < 0 THEN g * g ELSE g
           den == IF diff < 0 THEN GainDen * GainDen ELSE GainDen
<1>1. GainDen \in Nat \ {0}
  BY GainAssumption
<1>2. g * g \in Nat /\ GainDen * GainDen \in Nat \ {0} /\ g * g <= GainDen * GainDen
  <2>1. g * g \in Nat /\ g * GainDen \in Nat /\ GainDen * GainDen \in Nat \ {0}
    BY <1>1
  <2>2. g * g <= GainDen * g
    BY <1>1, MulOrder, g = 0 \/ g \in Nat \ {0}
  <2>3. g * GainDen <= GainDen * GainDen
    BY <1>1, MulOrder
  <2>4. GainDen * g = g * GainDen
    BY <1>1
  <2>5. QED
    BY <2>1, <2>2, <2>3, <2>4
<1>3. num \in Nat /\ den \in Nat \ {0} /\ num <= den /\ err \in Int /\ diff \in Int
  BY <1>1, <1>2
<1>4. PICK de \in Scaled(err, num, den),
           dv \in IF err >= 0 THEN Scaled(diff, num, den) ELSE {0} :
        p = <<e + de, v + dv>>
  BY DEF PeakHopperUpdate
<1> HIDE DEF err, diff, num, den
<1>5. de \in Int /\ (err >= 0 => 0 <= de /\ de <= err)
                 /\ (err <= 0 => err <= de /\ de <= 0)
  BY <1>3, ScaledBetween
<1>6. err >= 0 => dv \in Int /\ (diff >= 0 => 0 <= dv /\ dv <= diff)
                             /\ (diff <= 0 => diff <= dv /\ dv <= 0)
  BY <1>3, <1>4, ScaledBetween
<1>7. ~(err >= 0) => dv = 0
  BY <1>4
<1>8. QED
  BY <1>3, <1>4, <1>5, <1>6, <1>7 DEF err, diff

\* So does IntegerUpdate.
LEMMA IntegerUpdateRange ==
    ASSUME NEW e \in Nat, NEW v \in Nat, NEW m \in Nat
    PROVE  LET p == IntegerUpdate(e, v, m)
           IN  /\ p[1] \in Int /\ p[2] \in Int
               /\ e <= m => e <= p[1] /\ p[1] <= m
               /\ m <= e => m <= p[1] /\ p[1] <= e
               /\ 0 <= p[2] /\ (p[2] <= v \/ p[2] <= m \/ p[2] <= e)
  BY DEF IntegerUpdate, Magnitude

\* The connection timeout stays an integer while retries are left.
LEMMA SynRtoType ==
    ASSUME NEW count \in 0 .. SynRetries
    PROVE  SynRto(count) \in Int
<1>1. SynRetries - count \in Nat
  BY RetriesAssumption
<1>2. 2 ^ (SynRetries - count) \in Int
  BY <1>1
<1>3. QED
  BY <1>2, TimeAssumption DEF SynRto

----------------------------------------------------------------------------
(* Type correctness *)

\* Every step that measures types the estimator.
LEMMA EstimateRttType ==
    ASSUME TypeOK, NEW s \in Sockets, NEW m \in Samples \cup {0},
           EstimateRtt(s, m) \/ NoSample
    PROVE  /\ est' \in [Sockets -> Int] /\ var' \in [Sockets -> Int]
           /\ sampled' \in [Sockets -> BOOLEAN]
           /\ minRto' \in [Sockets -> Int] /\ lastRtt' \in Int
<1>1. m \in Int /\ Granularity \in Int
  BY SamplesAssumption, TimeAssumption
<1>2. CASE NoSample
  BY <1>2 DEF NoSample, TypeOK
<1>3. CASE EstimateRtt(s, m)
  <2>1. PICK p \in Measurement(s, m) :
          /\ p[1] \in -EstCap .. EstCap /\ p[2] \in -EstCap .. EstCap
          /\ est' = [est EXCEPT ![s] = p[1]]
          /\ var' = [var EXCEPT ![s] = p[2]]
          /\ sampled' = [sampled EXCEPT ![s] = TRUE]
          /\ minRto' = [minRto EXCEPT ![s] =
                IF sockPH[s] THEN Larger(m, lastRtt) + 2 * Granularity ELSE @]
          /\ lastRtt' = p[1]
    BY <1>3, Zenon DEF EstimateRtt
  <2>2. p[1] \in Int /\ p[2] \in Int
    BY <2>1, EstCapAssumption
  <2>3. (IF sockPH[s] THEN Larger(m, lastRtt) + 2 * Granularity ELSE minRto[s]) \in Int
    BY <1>1 DEF TypeOK, Larger
  <2>4. QED
    BY <2>1, <2>2, <2>3 DEF TypeOK
<1>4. QED
  BY <1>2, <1>3

\* Both formulas give an integer.
LEMMA RtoTypes ==
    ASSUME NEW e \in Int, NEW v \in Int, NEW f \in Int, NEW l \in Int,
           NEW ph \in BOOLEAN
    PROVE  JacobsonRto(e, v, f) \in Int /\ RecomputedRto(ph, e, v, f, l) \in Int
  BY TimeAssumption DEF JacobsonRto, RecomputedRto, Larger

\* The sockets before any call.
LEMMA InitType == Init => TypeOK
  BY TimeAssumption, GainAssumption, RetriesAssumption, SocketsAssumption
  DEF Init, TypeOK

\* Every handler keeps the types, the count of retries included.
LEMMA NextType == TypeOK /\ [Next]_vars => TypeOK'
<1> SUFFICES ASSUME TypeOK, [Next]_vars PROVE TypeOK'
  OBVIOUS
<1> USE DEF TypeOK, estimator, modes
<1>1. ASSUME NEW s \in Sockets, Connect(s) PROVE TypeOK'
  <2>1. SynRto(SynRetries) \in Int /\ SynRetries - 1 \in 0 .. SynRetries
    BY SynRtoType, RetriesAssumption
  <2>2. QED
    BY <1>1, <2>1, TimeAssumption, RetriesAssumption DEF Connect, SendSyn
<1>2. ASSUME NEW s \in Sockets, CompleteFork(s) PROVE TypeOK'
  <2>1. SynRto(SynRetries) \in Int /\ SynRetries - 1 \in 0 .. SynRetries
    BY SynRtoType, RetriesAssumption
  <2>2. rttPH' \in [Sockets -> BOOLEAN] /\ gain' \in [Sockets -> Nat]
    BY <1>2, GainAssumption DEF CompleteFork, CopySocket, CopyEstimator
  <2>3. QED
    BY <1>2, <2>1, <2>2, TimeAssumption, RetriesAssumption
    DEF CompleteFork, CopySocket, CopyEstimator, SendSyn
<1>3. ASSUME NEW s \in Sockets, SynTimeout(s) PROVE TypeOK'
  <2>1. SynRto(synCount[s]) \in Int /\ synCount[s] - 1 \in 0 .. SynRetries
    BY <1>3, SynRtoType, RetriesAssumption DEF SynTimeout
  <2>2. QED
    BY <1>3, <2>1 DEF SynTimeout, SendSyn
<1>4. ASSUME NEW s \in Sockets, SynGiveUp(s) PROVE TypeOK'
  BY <1>4, RtoTypes, TimeAssumption DEF SynGiveUp
<1>5. ASSUME NEW s \in Sockets, NEW m \in Samples, RecvSynAck(s, m) PROVE TypeOK'
  <2>1. /\ est' \in [Sockets -> Int] /\ var' \in [Sockets -> Int]
        /\ sampled' \in [Sockets -> BOOLEAN]
        /\ minRto' \in [Sockets -> Int] /\ lastRtt' \in Int
    BY <1>5, EstimateRttType DEF RecvSynAck
  <2>2. RtoRecomputed(s) \in Int
    BY <2>1, RtoTypes DEF RtoRecomputed
  <2>3. QED
    BY <1>5, <2>1, <2>2 DEF RecvSynAck
<1>6. ASSUME NEW s \in Sockets, NEW m \in Samples, RecvHandshakeAck(s, m) PROVE TypeOK'
  <2>1. /\ est' \in [Sockets -> Int] /\ var' \in [Sockets -> Int]
        /\ sampled' \in [Sockets -> BOOLEAN]
        /\ minRto' \in [Sockets -> Int] /\ lastRtt' \in Int
    BY <1>6, EstimateRttType DEF RecvHandshakeAck
  <2>2. RtoAfterSample(s) \in Int
    BY <2>1, RtoTypes DEF RtoAfterSample
  <2>3. QED
    BY <1>6, <2>1, <2>2 DEF RecvHandshakeAck
<1>7. ASSUME NEW s \in Sockets, NEW m \in Samples \cup {0}, RecvAck(s, m) PROVE TypeOK'
  <2>1. /\ est' \in [Sockets -> Int] /\ var' \in [Sockets -> Int]
        /\ sampled' \in [Sockets -> BOOLEAN]
        /\ minRto' \in [Sockets -> Int] /\ lastRtt' \in Int
    BY <1>7, EstimateRttType DEF RecvAck
  <2>2. RtoRecomputed(s) \in Int
    BY <2>1, RtoTypes DEF RtoRecomputed
  <2>3. /\ rto' \in [Sockets -> Int]
        /\ dataRetrCount' \in [Sockets -> 0 .. DataRetries]
    BY <1>7, <2>2, RetriesAssumption DEF RecvAck
  <2>4. QED
    BY <1>7, <2>1, <2>3 DEF RecvAck
<1>8. ASSUME NEW s \in Sockets, NEW m \in Samples, RecvPartialAck(s, m) PROVE TypeOK'
  <2>1. /\ est' \in [Sockets -> Int] /\ var' \in [Sockets -> Int]
        /\ sampled' \in [Sockets -> BOOLEAN]
        /\ minRto' \in [Sockets -> Int] /\ lastRtt' \in Int
    BY <1>8, EstimateRttType DEF RecvPartialAck
  <2>2. RtoAfterSample(s) \in Int
    BY <2>1, RtoTypes DEF RtoAfterSample
  <2>3. /\ rto' \in [Sockets -> Int]
        /\ dataRetrCount' \in [Sockets -> 0 .. DataRetries]
    BY <1>8, <2>2, RetriesAssumption DEF RecvPartialAck
  <2>4. QED
    BY <1>8, <2>1, <2>3 DEF RecvPartialAck
<1>9. ASSUME NEW s \in Sockets, SendAck(s) PROVE TypeOK'
  BY <1>9, RtoTypes DEF SendAck
<1>10. ASSUME NEW s \in Sockets, ReTxTimeout(s) PROVE TypeOK'
  BY <1>10, TimeAssumption, RetriesAssumption DEF ReTxTimeout, Smaller
<1>11. ASSUME NEW s \in Sockets, ReTxGiveUp(s) PROVE TypeOK'
  BY <1>11 DEF ReTxGiveUp
<1>12. ASSUME NEW s \in Sockets, CloseAndNotify(s) PROVE TypeOK'
  BY <1>12 DEF CloseAndNotify
<1>13. CASE UNCHANGED vars
  BY <1>13 DEF vars
<1>14. QED
  BY <1>1, <1>2, <1>3, <1>4, <1>5, <1>6, <1>7, <1>8, <1>9, <1>10, <1>11,
     <1>12, <1>13 DEF Next

\* The variables keep their types: every state variable of the socket, of its
\* estimator and the shared global, through every handler.
THEOREM TypeCorrect == Spec => []TypeOK
  BY InitType, NextType, PTL DEF Spec

----------------------------------------------------------------------------
(* The estimate stays among the samples *)

\* Both kinds of measurement leave the estimate between samples, the first
\* one included, and not above both the sample and the estimate there was.
LEMMA MeasurementRange ==
    ASSUME TypeOK, EstimateWithinSamples, NEW s \in Sockets, GainInRange(s),
           NEW m \in Samples, NEW p \in Measurement(s, m)
    PROVE  /\ \E low \in Samples : low <= p[1]
           /\ \E high \in Samples : p[1] <= high
           /\ 0 <= p[2]
           /\ \E high \in Samples : p[2] <= high
           /\ p[1] <= m \/ (sampled[s] /\ p[1] <= est[s])
<1>1. m \in Nat /\ Samples \subseteq Nat
  BY SamplesAssumption
<1>2. CASE ~sampled[s]
  <2>1. p = <<m, m \div 2>>
    BY <1>2 DEF Measurement
  <2>2. m <= p[1] /\ p[1] <= m /\ 0 <= p[2] /\ p[2] <= m
    BY <1>1, <2>1
  <2>3. QED
    BY <2>2
<1>3. CASE sampled[s]
  <2> DEFINE e == est[s]
             v == var[s]
  <2>1. /\ e \in Int /\ v \in Int
        /\ \E low \in Samples : low <= e
        /\ \E high \in Samples : e <= high
        /\ 0 <= v
        /\ \E high \in Samples : v <= high
    BY <1>3 DEF TypeOK, EstimateWithinSamples
  <2>2. e \in Nat /\ v \in Nat
    <3>1. PICK low \in Samples : low <= e
      BY <2>1
    <3>2. low \in Nat
      BY <1>1, <3>1
    <3>3. QED
      BY <2>1, <3>1, <3>2
  <2>3. /\ p[1] \in Int /\ p[2] \in Int
        /\ e <= m => e <= p[1] /\ p[1] <= m
        /\ m <= e => m <= p[1] /\ p[1] <= e
        /\ 0 <= p[2] /\ (p[2] <= v \/ p[2] <= m \/ p[2] <= e)
    <3>1. CASE rttPH[s]
      <4>1. p \in PeakHopperUpdate(e, v, gain[s], m)
        BY <1>3, <3>1 DEF Measurement
      <4>2. gain[s] \in Nat /\ gain[s] <= GainDen
        BY DEF TypeOK, GainInRange
      <4>3. QED
        BY <1>1, <2>2, <4>1, <4>2, PeakHopperUpdateRange
    <3>2. CASE ~rttPH[s]
      <4>1. p = IntegerUpdate(e, v, m)
        BY <1>3, <3>2 DEF Measurement
      <4>2. QED
        BY <1>1, <2>2, <4>1, IntegerUpdateRange
    <3>3. QED
      BY <3>1, <3>2
  <2> HIDE DEF e, v
  <2>4. PICK low \in Samples : low <= e
    BY <2>1
  <2>5. PICK high \in Samples : e <= high
    BY <2>1
  <2>6. PICK top \in Samples : v <= top
    BY <2>1
  <2>7. (low <= p[1] \/ m <= p[1]) /\ (p[1] <= high \/ p[1] <= m)
    BY <1>1, <2>2, <2>3, <2>4, <2>5
  <2>8. p[2] <= top \/ p[2] <= m \/ p[2] <= high
    BY <1>1, <2>2, <2>3, <2>5, <2>6
  <2>9. p[1] <= m \/ p[1] <= e
    BY <1>1, <2>2, <2>3
  <2>10. QED
    BY <1>3, <2>3, <2>7, <2>8, <2>9 DEF e
<1>4. QED
  BY <1>2, <1>3

\* What a socket's mode and connection say of its estimator and its floor.
Linked ==
    \A s \in Sockets :
        /\ Established(s) => sampled[s]
        /\ ~sockPH[s] => minRto[s] = MinRto

\* A step that measures, or does not, keeps the estimates among the samples
\* and the floor of the sockets out of PeakHopper mode.
LEMMA EstimateRttRange ==
    ASSUME TypeOK, EstimateWithinSamples, Linked, UNCHANGED modes,
           NEW s \in Sockets,
           \/ \E m \in Samples : EstimateRtt(s, m)
           \/ NoSample
    PROVE  /\ EstimateWithinSamples'
           /\ \A t \in Sockets : sampled[t] => sampled'[t]
           /\ \A t \in Sockets : ~sockPH'[t] => minRto'[t] = MinRto
           /\ ~NoSample => sampled'[s]
           /\ \A t \in Sockets \ {s} : est'[t] = est[t] /\ var'[t] = var[t]
<1>1. CASE NoSample
  BY <1>1 DEF NoSample, EstimateWithinSamples, Linked, GainInRange, modes
<1>2. CASE \E m \in Samples : EstimateRtt(s, m)
  <2>1. PICK m \in Samples : EstimateRtt(s, m)
    BY <1>2
  <2>2. PICK p \in Measurement(s, m) :
          /\ est' = [est EXCEPT ![s] = p[1]]
          /\ var' = [var EXCEPT ![s] = p[2]]
          /\ sampled' = [sampled EXCEPT ![s] = TRUE]
          /\ minRto' = [minRto EXCEPT ![s] =
                IF sockPH[s] THEN Larger(m, lastRtt) + 2 * Granularity ELSE @]
    BY <2>1, Zenon DEF EstimateRtt
  <2>3. GainInRange(s) =>
          /\ \E low \in Samples : low <= p[1]
          /\ \E high \in Samples : p[1] <= high
          /\ 0 <= p[2]
          /\ \E high \in Samples : p[2] <= high
    BY MeasurementRange
  <2>4. EstimateWithinSamples'
    BY <2>2, <2>3 DEF EstimateWithinSamples, GainInRange, modes, TypeOK
  <2>5. QED
    BY <2>2, <2>4 DEF Linked, TypeOK, modes
<1>3. QED
  BY <1>1, <1>2

----------------------------------------------------------------------------
(* The timer covers the estimate and respects the floor *)

\* The two formulas, in either mode.
LEMMA FormulaBounds ==
    ASSUME NEW e \in Int, NEW v \in Int, NEW f \in Int, NEW l \in Int,
           NEW ph \in BOOLEAN
    PROVE  /\ v >= 0 => JacobsonRto(e, v, f) >= e + v
           /\ v >= 0 => RecomputedRto(ph, e, v, f, l) >= e + v
           /\ JacobsonRto(e, v, f) >= f
           /\ ~ph => RecomputedRto(ph, e, v, f, l) >= f
  BY TimeAssumption DEF JacobsonRto, RecomputedRto, Larger

\* The cap cuts the timer to the smaller of two times.
LEMMA SmallerBounds ==
    ASSUME NEW a \in Int, NEW b \in Int
    PROVE  Smaller(a, b) \in Int /\ Smaller(a, b) <= a /\ Smaller(a, b) <= b
  BY DEF Smaller

\* What the proofs use: the five parts of the inductive invariant.
SafetyInv ==
    /\ TypeOK
    /\ EstimateWithinSamples
    /\ Linked
    /\ RtoCoversEstimate
    /\ JacobsonFloor

\* A step on socket s whose other sockets keep their timers and estimates.
LEMMA OneSocketStep ==
    ASSUME RtoCoversEstimate, JacobsonFloor, NEW s \in Sockets,
           \A t \in Sockets \ {s} :
               /\ Established(t)' => Established(t)
               /\ est'[t] = est[t] /\ var'[t] = var[t] /\ rto'[t] = rto[t]
               /\ gain'[t] = gain[t] /\ sockPH'[t] = sockPH[t],
           Established(s)' /\ GainInRange(s)' =>
               rto'[s] >= Smaller(est'[s] + var'[s], MaxRto),
           Established(s)' /\ ~sockPH'[s] => rto'[s] >= Smaller(MinRto, MaxRto)
    PROVE  RtoCoversEstimate' /\ JacobsonFloor'
<1>1. RtoCoversEstimate'
  <2> SUFFICES ASSUME NEW t \in Sockets, Established(t)', GainInRange(t)'
               PROVE  rto'[t] >= Smaller(est'[t] + var'[t], MaxRto)
    BY DEF RtoCoversEstimate
  <2>1. CASE t = s
    BY <2>1
  <2>2. CASE t # s
    BY <2>2 DEF RtoCoversEstimate, GainInRange
  <2>3. QED
    BY <2>1, <2>2
<1>2. JacobsonFloor'
  BY DEF JacobsonFloor
<1>3. QED
  BY <1>1, <1>2

\* No socket has measured anything at first.
LEMMA InitSafe == Init => SafetyInv
<1> SUFFICES ASSUME Init PROVE SafetyInv
  OBVIOUS
<1>1. TypeOK
  BY InitType
<1>2. \A s \in Sockets : ~sampled[s] /\ ~Established(s) /\ minRto[s] = MinRto
  BY DEF Init, Established
<1>3. QED
  BY <1>1, <1>2 DEF SafetyInv, EstimateWithinSamples, Linked,
                    RtoCoversEstimate, JacobsonFloor

\* An ACK, with a sample or without: what EstimateRtt, ProcessSynSent, NewAck
\* and SendEmptyPacket leave in the timer.
LEMMA AckSafe ==
    ASSUME SafetyInv, TypeOK', NEW s \in Sockets, UNCHANGED modes,
           \/ \E m \in Samples : EstimateRtt(s, m)
           \/ Established(s) /\ NoSample,
           \A t \in Sockets \ {s} : Established(t)' <=> Established(t),
           \/ rto' = [rto EXCEPT ![s] = RtoAfterSample(s)]
           \/ rto' = [rto EXCEPT ![s] = RtoRecomputed(s)]
    PROVE  SafetyInv'
<1>1. /\ EstimateWithinSamples'
      /\ \A t \in Sockets : sampled[t] => sampled'[t]
      /\ \A t \in Sockets : ~sockPH'[t] => minRto'[t] = MinRto
      /\ ~NoSample => sampled'[s]
      /\ \A t \in Sockets \ {s} : est'[t] = est[t] /\ var'[t] = var[t]
  BY EstimateRttRange DEF SafetyInv
<1>2. sampled'[s]
  <2>1. CASE NoSample /\ Established(s)
    BY <1>1, <2>1 DEF SafetyInv, Linked
  <2>2. CASE ~NoSample
    BY <1>1, <2>2
  <2>3. CASE \E m \in Samples : EstimateRtt(s, m)
    <3>1. sampled' = [sampled EXCEPT ![s] = TRUE]
      BY <2>3 DEF EstimateRtt
    <3>2. QED
      BY <3>1 DEF SafetyInv, TypeOK
  <2>4. QED
    BY <2>1, <2>2, <2>3
<1>3. Linked'
  BY <1>1, <1>2 DEF Linked, SafetyInv
<1>4. /\ est'[s] \in Int /\ var'[s] \in Int /\ minRto'[s] \in Int
      /\ lastRtt' \in Int /\ sockPH[s] \in BOOLEAN /\ sockPH' = sockPH
  BY DEF SafetyInv, TypeOK, modes
<1>5. GainInRange(s)' => var'[s] >= 0
  <2>1. GainInRange(s)' => 0 <= var'[s]
    BY <1>1, <1>2 DEF EstimateWithinSamples
  <2>2. QED
    BY <1>4, <2>1
<1>6. rto'[s] = RtoAfterSample(s) \/ rto'[s] = RtoRecomputed(s)
  BY DEF SafetyInv, TypeOK
<1>7. GainInRange(s)' => rto'[s] >= est'[s] + var'[s]
  <2>1. var'[s] >= 0 => RtoAfterSample(s) >= est'[s] + var'[s]
    BY <1>4, FormulaBounds DEF RtoAfterSample
  <2>2. var'[s] >= 0 => RtoRecomputed(s) >= est'[s] + var'[s]
    BY <1>4, FormulaBounds DEF RtoRecomputed
  <2>3. QED
    BY <1>5, <1>6, <2>1, <2>2
<1>8. ~sockPH'[s] => rto'[s] >= MinRto
  <2>1. ~sockPH'[s] => rto'[s] >= minRto'[s]
    BY <1>4, <1>6, FormulaBounds DEF RtoAfterSample, RtoRecomputed
  <2>2. QED
    BY <1>1, <2>1
<1>9. rto'[s] \in Int
  BY DEF TypeOK
<1>10. /\ GainInRange(s)' => rto'[s] >= Smaller(est'[s] + var'[s], MaxRto)
       /\ ~sockPH'[s] => rto'[s] >= Smaller(MinRto, MaxRto)
  <2>1. est'[s] + var'[s] \in Int /\ MaxRto \in Int /\ MinRto \in Int
    BY <1>4, TimeAssumption
  <2>2. /\ Smaller(est'[s] + var'[s], MaxRto) \in Int
        /\ Smaller(est'[s] + var'[s], MaxRto) <= est'[s] + var'[s]
        /\ Smaller(MinRto, MaxRto) \in Int /\ Smaller(MinRto, MaxRto) <= MinRto
    BY <2>1, SmallerBounds
  <2> HIDE DEF Smaller
  <2>3. QED
    BY <1>7, <1>8, <1>9, <2>1, <2>2
<1>11. \A t \in Sockets \ {s} :
          /\ Established(t)' => Established(t)
          /\ est'[t] = est[t] /\ var'[t] = var[t] /\ rto'[t] = rto[t]
          /\ gain'[t] = gain[t] /\ sockPH'[t] = sockPH[t]
  <2>1. gain' = gain /\ sockPH' = sockPH
    BY DEF modes
  <2>2. \A t \in Sockets \ {s} : rto'[t] = rto[t]
    BY DEF SafetyInv, TypeOK
  <2>3. QED
    BY <1>1, <2>1, <2>2
<1>12. RtoCoversEstimate' /\ JacobsonFloor'
  BY <1>10, <1>11, OneSocketStep DEF SafetyInv
<1>13. QED
  BY <1>1, <1>3, <1>12 DEF SafetyInv

\* A step that takes no measurement and starts no timer on an estimate.
LEMMA QuietStep ==
    ASSUME SafetyInv, TypeOK', NEW s \in Sockets,
           \A t \in Sockets \ {s} :
               /\ state'[t] = state[t]
               /\ est'[t] = est[t] /\ var'[t] = var[t] /\ sampled'[t] = sampled[t]
               /\ gain'[t] = gain[t] /\ sockPH'[t] = sockPH[t]
               /\ rto'[t] = rto[t] /\ minRto'[t] = minRto[t],
           state'[s] # "ESTABLISHED",
           \/ ~sampled'[s]
           \/ est'[s] = est[s] /\ var'[s] = var[s] /\ sampled'[s] = sampled[s]
              /\ gain'[s] = gain[s],
           \/ minRto'[s] = MinRto
           \/ minRto'[s] = minRto[s] /\ sockPH'[s] = sockPH[s]
    PROVE  SafetyInv'
<1>1. ~Established(s)' /\ \A t \in Sockets \ {s} : Established(t)' <=> Established(t)
  BY DEF Established
<1>2. EstimateWithinSamples'
  BY DEF SafetyInv, EstimateWithinSamples, GainInRange
<1>3. Linked'
  BY <1>1 DEF SafetyInv, Linked
<1>4. RtoCoversEstimate' /\ JacobsonFloor'
  BY <1>1, OneSocketStep DEF SafetyInv
<1>5. QED
  BY <1>2, <1>3, <1>4 DEF SafetyInv

\* Every handler keeps the estimates and the timers they give within bounds.
LEMMA NextSafe == SafetyInv /\ [Next]_vars => SafetyInv'
<1> SUFFICES ASSUME SafetyInv, [Next]_vars PROVE SafetyInv'
  OBVIOUS
<1>0. TypeOK /\ TypeOK'
  BY NextType DEF SafetyInv
<1>1. ASSUME NEW s \in Sockets,
             Connect(s) \/ CompleteFork(s) \/ SynTimeout(s) \/ SynGiveUp(s)
             \/ ReTxGiveUp(s) \/ CloseAndNotify(s)
      PROVE  SafetyInv'
  <2>1. CASE CompleteFork(s)
    <3>1. \A t \in Sockets \ {s} :
            /\ state'[t] = state[t]
            /\ est'[t] = est[t] /\ var'[t] = var[t] /\ sampled'[t] = sampled[t]
            /\ rto'[t] = rto[t] /\ minRto'[t] = minRto[t]
      BY <1>0, <2>1 DEF TypeOK, CompleteFork, CopySocket, SendSyn
    <3>2. \A t \in Sockets \ {s} : gain'[t] = gain[t] /\ sockPH'[t] = sockPH[t]
      BY <1>0, <2>1 DEF TypeOK, CompleteFork, CopySocket, CopyEstimator
    <3>3. /\ state'[s] # "ESTABLISHED"
          /\ ~sampled'[s]
          /\ minRto'[s] = MinRto
      BY <1>0, <2>1 DEF TypeOK, CompleteFork, CopySocket
    <3>4. QED
      BY <1>0, <3>1, <3>2, <3>3, QuietStep
  <2>2. CASE Connect(s)
    <3>1. \A t \in Sockets \ {s} :
            /\ state'[t] = state[t]
            /\ est'[t] = est[t] /\ var'[t] = var[t] /\ sampled'[t] = sampled[t]
            /\ rto'[t] = rto[t] /\ minRto'[t] = minRto[t]
      BY <1>0, <2>2 DEF TypeOK, Connect, SendSyn
    <3>2. gain' = gain /\ sockPH' = sockPH
      BY <2>2 DEF Connect, modes
    <3>3. /\ state'[s] # "ESTABLISHED"
          /\ ~sampled'[s]
          /\ minRto'[s] = minRto[s]
      BY <1>0, <2>2 DEF TypeOK, Connect
    <3>4. QED
      BY <1>0, <3>1, <3>2, <3>3, QuietStep
  <2>3. CASE SynGiveUp(s)
    <3>1. \A t \in Sockets \ {s} :
            /\ state'[t] = state[t]
            /\ est'[t] = est[t] /\ var'[t] = var[t] /\ sampled'[t] = sampled[t]
            /\ rto'[t] = rto[t] /\ minRto'[t] = minRto[t]
      BY <1>0, <2>3 DEF TypeOK, SynGiveUp
    <3>2. gain' = gain /\ sockPH' = sockPH
      BY <2>3 DEF SynGiveUp, modes
    <3>3. /\ state'[s] # "ESTABLISHED"
          /\ ~sampled'[s]
          /\ minRto'[s] = minRto[s]
      BY <1>0, <2>3 DEF TypeOK, SynGiveUp
    <3>4. QED
      BY <1>0, <3>1, <3>2, <3>3, QuietStep
  <2> USE <1>0 DEF TypeOK, estimator, modes
  <2>4. CASE SynTimeout(s)
    BY <2>4, QuietStep DEF SynTimeout, SendSyn
  <2>5. CASE ReTxGiveUp(s)
    BY <2>5, QuietStep DEF ReTxGiveUp
  <2>6. CASE CloseAndNotify(s)
    BY <2>6, QuietStep DEF CloseAndNotify
  <2>7. QED
    BY <1>1, <2>1, <2>2, <2>3, <2>4, <2>5, <2>6
<1>2. ASSUME NEW s \in Sockets, NEW m \in Samples,
             RecvSynAck(s, m) \/ RecvHandshakeAck(s, m) \/ RecvPartialAck(s, m)
      PROVE  SafetyInv'
  <2>1. EstimateRtt(s, m) /\ UNCHANGED modes
    BY <1>2 DEF RecvSynAck, RecvHandshakeAck, RecvPartialAck
  <2>2. \A t \in Sockets \ {s} : Established(t)' <=> Established(t)
    BY <1>0, <1>2 DEF RecvSynAck, RecvHandshakeAck, RecvPartialAck, Established, TypeOK
  <2>3. \/ rto' = [rto EXCEPT ![s] = RtoAfterSample(s)]
        \/ rto' = [rto EXCEPT ![s] = RtoRecomputed(s)]
    BY <1>2 DEF RecvSynAck, RecvHandshakeAck, RecvPartialAck
  <2>4. QED
    BY <1>0, <2>1, <2>2, <2>3, AckSafe
<1>3. ASSUME NEW s \in Sockets, NEW m \in Samples \cup {0}, RecvAck(s, m)
      PROVE  SafetyInv'
  <2>1. /\ UNCHANGED modes
        /\ (\E n \in Samples : EstimateRtt(s, n)) \/ (Established(s) /\ NoSample)
        /\ rto' = [rto EXCEPT ![s] = RtoRecomputed(s)]
    BY <1>3 DEF RecvAck, Established
  <2>2. \A t \in Sockets \ {s} : Established(t)' <=> Established(t)
    BY <1>3 DEF RecvAck, Established
  <2>3. QED
    BY <1>0, <2>1, <2>2, AckSafe
<1>4. ASSUME NEW s \in Sockets, SendAck(s) PROVE SafetyInv'
  <2>1. /\ UNCHANGED modes /\ NoSample /\ Established(s)
        /\ rto' = [rto EXCEPT ![s] = RtoRecomputed(s)]
    BY <1>4 DEF SendAck, NoSample, Established, estimator, RtoRecomputed
  <2>2. \A t \in Sockets \ {s} : Established(t)' <=> Established(t)
    BY <1>4 DEF SendAck, Established
  <2>3. QED
    BY <1>0, <2>1, <2>2, AckSafe
<1>5. ASSUME NEW s \in Sockets, ReTxTimeout(s) PROVE SafetyInv'
  <2>1. /\ UNCHANGED <<state, est, var, sampled, rttPH, gain, sockPH, minRto>>
        /\ rto' = [rto EXCEPT ![s] = Smaller(rto[s] + rto[s], MaxRto)]
        /\ Established(s)
    BY <1>5 DEF ReTxTimeout, estimator, modes, Established
  <2>2. EstimateWithinSamples' /\ Linked'
    BY <2>1 DEF SafetyInv, EstimateWithinSamples, Linked, GainInRange, Established
  <2>3. rto'[s] = Smaller(rto[s] + rto[s], MaxRto) /\ rto[s] \in Int
        /\ est[s] \in Int /\ var[s] \in Int /\ MaxRto \in Nat /\ MinRto \in Nat
    BY <1>0, <2>1, TimeAssumption DEF TypeOK
  <2>4. GainInRange(s)' => rto'[s] >= Smaller(est'[s] + var'[s], MaxRto)
    <3> SUFFICES ASSUME GainInRange(s)'
                 PROVE  rto'[s] >= Smaller(est[s] + var[s], MaxRto)
      BY <2>1
    <3>1. rto[s] >= Smaller(est[s] + var[s], MaxRto)
      BY <2>1 DEF SafetyInv, RtoCoversEstimate, GainInRange
    <3>2. est[s] >= 0 /\ var[s] >= 0
      <4>1. sampled[s] /\ GainInRange(s)
        BY <2>1 DEF SafetyInv, Linked, GainInRange
      <4>2. PICK low \in Samples : low <= est[s]
        BY <4>1 DEF SafetyInv, EstimateWithinSamples
      <4>3. low \in Nat
        BY SamplesAssumption
      <4>4. 0 <= var[s]
        BY <4>1 DEF SafetyInv, EstimateWithinSamples
      <4>5. QED
        BY <2>3, <4>2, <4>3, <4>4
    <3>3. QED
      BY <2>3, <3>1, <3>2 DEF Smaller
  <2>5. ~sockPH'[s] => rto'[s] >= Smaller(MinRto, MaxRto)
    <3>1. ~sockPH[s] => rto[s] >= Smaller(MinRto, MaxRto)
      BY <2>1 DEF SafetyInv, JacobsonFloor
    <3>2. QED
      BY <2>1, <2>3, <3>1 DEF Smaller
  <2>6. \A t \in Sockets \ {s} :
          /\ Established(t)' => Established(t)
          /\ est'[t] = est[t] /\ var'[t] = var[t] /\ rto'[t] = rto[t]
          /\ gain'[t] = gain[t] /\ sockPH'[t] = sockPH[t]
    BY <1>0, <2>1 DEF Established, TypeOK
  <2>7. RtoCoversEstimate' /\ JacobsonFloor'
    BY <2>4, <2>5, <2>6, OneSocketStep DEF SafetyInv
  <2>8. QED
    BY <1>0, <2>2, <2>7 DEF SafetyInv
<1>6. CASE UNCHANGED vars
  BY <1>6 DEF vars, SafetyInv, TypeOK, EstimateWithinSamples, Linked,
              RtoCoversEstimate, JacobsonFloor, GainInRange, Established
<1>7. QED
  BY <1>1, <1>2, <1>3, <1>4, <1>5, <1>6 DEF Next

\* Every estimate an update with a gain of at most 1 makes lies between two
\* samples, and every variation between 0 and a sample: FloatingPointUpdate-
\* PeakHopper and IntegerUpdate never overshoot, whatever they round.
THEOREM EstimateSafe == Spec => []EstimateWithinSamples
<1>1. SafetyInv => EstimateWithinSamples
  BY DEF SafetyInv
<1>2. QED
  BY <1>1, InitSafe, NextSafe, PTL DEF Spec

\* The retransmission timer of an established connection never undercuts its
\* estimated round trip and variation, except by the 60 s cap.
THEOREM TimerCoversEstimate == Spec => []RtoCoversEstimate
<1>1. SafetyInv => RtoCoversEstimate
  BY DEF SafetyInv
<1>2. QED
  BY <1>1, InitSafe, NextSafe, PTL DEF Spec

\* A socket out of PeakHopper mode keeps the minimum RTO, forked sockets with
\* an uninitialised estimator included.
THEOREM FloorRespected == Spec => []JacobsonFloor
<1>1. SafetyInv => JacobsonFloor
  BY DEF SafetyInv
<1>2. QED
  BY <1>1, InitSafe, NextSafe, PTL DEF Spec

----------------------------------------------------------------------------
(* The metric lastRtt and the bound of the timer.  The copy constructor of  *)
(* RttMeanDeviation leaves the gain of a forked socket uninitialised; what  *)
(* follows holds when no socket is forked, or when what it finds is a gain. *)

TameGains == Servers = {} \/ GarbageGains \subseteq 0 .. GainDen

\* The largest timer that samples of at most high lead to.
RtoLimit(high) == Larger(Larger(5 * high + 2 * Granularity, MinRto), MaxRto)

MetricInv ==
    /\ TameGains
    /\ \A s \in Sockets : GainInRange(s)
    /\ \A s \in Sockets : sampled[s] => lastRtt >= 1
    /\ lastRtt = 0 \/ \E high \in Samples : lastRtt <= high
    /\ \A s \in Sockets :
           minRto[s] = MinRto \/ \E high \in Samples : minRto[s] <= high + 2 * Granularity
    /\ RtoBounded

\* Of two samples one bounds both.
LEMMA LargerSample ==
    ASSUME NEW a \in Samples, NEW b \in Samples
    PROVE  \E c \in Samples : a <= c /\ b <= c
<1>1. a \in Nat /\ b \in Nat
  BY SamplesAssumption
<1>2. CASE a <= b
  BY <1>1, <1>2
<1>3. CASE ~(a <= b)
  BY <1>1, <1>3
<1> QED
  BY <1>2, <1>3

\* Both formulas keep to the limit.
LEMMA FormulaLimit ==
    ASSUME NEW e \in Int, NEW v \in Int, NEW f \in Int, NEW l \in Int, NEW ph \in BOOLEAN,
           NEW h \in Nat, e <= h, v <= h, l <= h, f = MinRto \/ f <= h + 2 * Granularity
    PROVE  JacobsonRto(e, v, f) <= RtoLimit(h) /\ RecomputedRto(ph, e, v, f, l) <= RtoLimit(h)
  BY TimeAssumption DEF JacobsonRto, RecomputedRto, RtoLimit, Larger

\* No socket has measured anything at first.
LEMMA InitMetric ==
    ASSUME Init, TameGains
    PROVE  MetricInv
<1>1. /\ \A s \in Sockets :
             gain[s] = GainNum /\ ~sampled[s] /\ ~Established(s) /\ minRto[s] = MinRto
      /\ lastRtt = 0
  BY DEF Init, Established
<1> QED
  BY <1>1, GainAssumption DEF MetricInv, GainInRange, RtoBounded

\* Once s has an estimate the metric is the new estimate or stays what it was.
LEMMA MetricMeasured ==
    ASSUME SafetyInv, MetricInv, NEW s \in Sockets, UNCHANGED modes,
           \/ \E m \in Samples : EstimateRtt(s, m)
           \/ Established(s) /\ NoSample
    PROVE  /\ lastRtt' = est'[s] \/ (lastRtt' = lastRtt /\ sampled[s])
           /\ \/ minRto'[s] = minRto[s]
              \/ \E high \in Samples : minRto'[s] <= high + 2 * Granularity
           /\ \A t \in Sockets \ {s} :
                  sampled'[t] = sampled[t] /\ minRto'[t] = minRto[t]
<1>1. CASE Established(s) /\ NoSample
  BY <1>1 DEF NoSample, SafetyInv, Linked
<1>2. ASSUME NEW m \in Samples, EstimateRtt(s, m)
      PROVE  /\ lastRtt' = est'[s]
             /\ \/ minRto'[s] = minRto[s]
                \/ \E high \in Samples : minRto'[s] <= high + 2 * Granularity
             /\ \A t \in Sockets \ {s} :
                    sampled'[t] = sampled[t] /\ minRto'[t] = minRto[t]
  <2>1. PICK p \in Measurement(s, m) :
          /\ est' = [est EXCEPT ![s] = p[1]]
          /\ sampled' = [sampled EXCEPT ![s] = TRUE]
          /\ minRto' = [minRto EXCEPT ![s] =
                IF sockPH[s] THEN Larger(m, lastRtt) + 2 * Granularity ELSE @]
          /\ lastRtt' = p[1]
    BY <1>2, Zenon DEF EstimateRtt
  <2>2. lastRtt' = est'[s]
    BY <2>1 DEF SafetyInv, TypeOK
  <2>3. \A t \in Sockets \ {s} : sampled'[t] = sampled[t] /\ minRto'[t] = minRto[t]
    BY <2>1 DEF SafetyInv, TypeOK
  <2>4. minRto'[s] = minRto[s] \/ minRto'[s] = Larger(m, lastRtt) + 2 * Granularity
    BY <2>1 DEF SafetyInv, TypeOK
  <2>5. m \in Nat /\ Granularity \in Nat /\ lastRtt \in Int
    BY SamplesAssumption, TimeAssumption DEF SafetyInv, TypeOK
  <2>6. \E high \in Samples : Larger(m, lastRtt) <= high
    <3>1. CASE m >= lastRtt
      BY <2>5, <3>1 DEF Larger
    <3>2. CASE ~(m >= lastRtt)
      <4>1. lastRtt # 0
        BY <2>5, <3>2
      <4>2. PICK high \in Samples : lastRtt <= high
        BY <4>1 DEF MetricInv
      <4> QED
        BY <3>2, <4>2 DEF Larger
    <3> QED
      BY <3>1, <3>2
  <2>7. PICK high \in Samples : Larger(m, lastRtt) <= high
    BY <2>6
  <2>8. Larger(m, lastRtt) \in Int /\ high \in Int
    BY <2>5, SamplesAssumption DEF Larger
  <2>9. Larger(m, lastRtt) + 2 * Granularity <= high + 2 * Granularity
    BY <2>5, <2>7, <2>8
  <2> QED
    BY <2>2, <2>3, <2>4, <2>9
<1> QED
  BY <1>1, <1>2

\* An ACK, with a sample or without.
LEMMA MetricAck ==
    ASSUME SafetyInv, SafetyInv', MetricInv, NEW s \in Sockets, UNCHANGED modes,
           \/ \E m \in Samples : EstimateRtt(s, m)
           \/ Established(s) /\ NoSample,
           Established(s)',
           \A t \in Sockets \ {s} : Established(t)' <=> Established(t),
           \/ rto' = [rto EXCEPT ![s] = RtoAfterSample(s)]
           \/ rto' = [rto EXCEPT ![s] = RtoRecomputed(s)]
    PROVE  MetricInv'
<1>1. \A t \in Sockets : GainInRange(t)'
  BY DEF MetricInv, GainInRange, modes
<1>2. /\ est'[s] \in Int /\ var'[s] \in Int /\ minRto'[s] \in Int
      /\ lastRtt' \in Int /\ sockPH[s] \in BOOLEAN /\ sockPH' = sockPH
  BY DEF SafetyInv, TypeOK, modes
<1>3. /\ \E low \in Samples : low <= est'[s]
      /\ \E high \in Samples : est'[s] <= high
      /\ \E high \in Samples : var'[s] <= high
  <2>1. sampled'[s]
    BY DEF SafetyInv, Linked
  <2> QED
    BY <1>1, <2>1 DEF SafetyInv, EstimateWithinSamples
<1>4. /\ lastRtt' = est'[s] \/ (lastRtt' = lastRtt /\ sampled[s])
      /\ \/ minRto'[s] = minRto[s]
         \/ \E high \in Samples : minRto'[s] <= high + 2 * Granularity
      /\ \A t \in Sockets \ {s} : sampled'[t] = sampled[t] /\ minRto'[t] = minRto[t]
  BY MetricMeasured
<1>5. lastRtt' >= 1 /\ \E high \in Samples : lastRtt' <= high
  <2>1. CASE lastRtt' = est'[s]
    <3>1. PICK low \in Samples : low <= est'[s]
      BY <1>3
    <3>2. low \in Nat \ {0}
      BY SamplesAssumption
    <3>3. lastRtt' >= 1
      BY <1>2, <2>1, <3>1, <3>2
    <3> QED
      BY <1>3, <2>1, <3>3
  <2>2. CASE lastRtt' = lastRtt /\ sampled[s]
    BY <1>2, <2>2 DEF MetricInv
  <2> QED
    BY <1>4, <2>1, <2>2
<1>6. \A t \in Sockets :
         minRto'[t] = MinRto \/ \E high \in Samples : minRto'[t] <= high + 2 * Granularity
  BY <1>4 DEF MetricInv
<1>7. \E high \in Samples : rto'[s] <= RtoLimit(high)
  <2>1. PICK a \in Samples : est'[s] <= a
    BY <1>3
  <2>2. PICK b \in Samples : var'[s] <= b
    BY <1>3
  <2>3. PICK c \in Samples : lastRtt' <= c
    BY <1>5
  <2>4. PICK d \in Samples : minRto'[s] = MinRto \/ minRto'[s] <= d + 2 * Granularity
    BY <1>6, <2>1
  <2>5. PICK ab \in Samples : a <= ab /\ b <= ab
    BY LargerSample
  <2>6. PICK cd \in Samples : c <= cd /\ d <= cd
    BY LargerSample
  <2>7. PICK h \in Samples : ab <= h /\ cd <= h
    BY LargerSample
  <2>8. {a, b, c, d, ab, cd, h} \subseteq Nat /\ Granularity \in Nat
    BY SamplesAssumption, TimeAssumption
  <2>9. /\ h \in Nat /\ est'[s] <= h /\ var'[s] <= h /\ lastRtt' <= h
        /\ minRto'[s] = MinRto \/ minRto'[s] <= h + 2 * Granularity
    BY <1>2, <2>1, <2>2, <2>3, <2>4, <2>5, <2>6, <2>7, <2>8
  <2>10. RtoAfterSample(s) <= RtoLimit(h) /\ RtoRecomputed(s) <= RtoLimit(h)
    BY <1>2, <2>9, FormulaLimit DEF RtoAfterSample, RtoRecomputed
  <2>11. rto'[s] = RtoAfterSample(s) \/ rto'[s] = RtoRecomputed(s)
    BY DEF SafetyInv, TypeOK
  <2> QED
    BY <2>10, <2>11
<1>8. RtoBounded'
  <2> SUFFICES ASSUME NEW t \in Sockets, Established(t)'
               PROVE  \E high \in Samples : rto'[t] <= RtoLimit(high)
    BY DEF RtoBounded, RtoLimit
  <2>1. CASE t = s
    BY <1>7, <2>1
  <2>2. CASE t # s
    <3>1. rto'[t] = rto[t] /\ Established(t) /\ GainInRange(t)
      BY <2>2 DEF SafetyInv, TypeOK, MetricInv
    <3> QED
      BY <3>1 DEF MetricInv, RtoBounded, RtoLimit
  <2> QED
    BY <2>1, <2>2
<1> QED
  BY <1>1, <1>5, <1>6, <1>8 DEF MetricInv, TameGains

\* A step that leaves s out of ESTABLISHED and measures nothing.
LEMMA MetricQuiet ==
    ASSUME MetricInv, NEW s \in Sockets, lastRtt' = lastRtt,
           \A t \in Sockets \ {s} :
               /\ state'[t] = state[t] /\ sampled'[t] = sampled[t] /\ gain'[t] = gain[t]
               /\ rto'[t] = rto[t] /\ minRto'[t] = minRto[t],
           state'[s] # "ESTABLISHED", ~sampled'[s] \/ sampled'[s] = sampled[s],
           minRto'[s] \in {MinRto, minRto[s]}, GainInRange(s)'
    PROVE  MetricInv'
<1>1. ~Established(s)' /\ \A t \in Sockets \ {s} : Established(t)' <=> Established(t)
  BY DEF Established
<1>2. \A t \in Sockets : GainInRange(t)'
  BY DEF MetricInv, GainInRange
<1>3. \A t \in Sockets : sampled'[t] => sampled[t]
  OBVIOUS
<1>4. \A t \in Sockets :
         minRto'[t] = MinRto \/ \E high \in Samples : minRto'[t] <= high + 2 * Granularity
  BY DEF MetricInv
<1>5. RtoBounded'
  <2> SUFFICES ASSUME NEW t \in Sockets, Established(t)'
               PROVE  \E high \in Samples : rto'[t] <= RtoLimit(high)
    BY DEF RtoBounded, RtoLimit
  <2>1. rto'[t] = rto[t] /\ Established(t) /\ GainInRange(t)
    BY <1>1 DEF MetricInv
  <2> QED
    BY <2>1 DEF MetricInv, RtoBounded, RtoLimit
<1> QED
  BY <1>2, <1>3, <1>4, <1>5 DEF MetricInv, TameGains

\* Every handler keeps the metric and the limit.
LEMMA MetricStep ==
    ASSUME SafetyInv, SafetyInv', MetricInv, [Next]_vars
    PROVE  MetricInv'
<1>0. TypeOK /\ TypeOK'
  BY DEF SafetyInv
<1>1. ASSUME NEW s \in Sockets,
             Connect(s) \/ SynTimeout(s) \/ SynGiveUp(s) \/ ReTxGiveUp(s) \/ CloseAndNotify(s)
      PROVE  MetricInv'
  <2>1. gain' = gain /\ minRto' = minRto /\ lastRtt' = lastRtt
    BY <1>1 DEF Connect, SynTimeout, SynGiveUp, ReTxGiveUp, CloseAndNotify, modes, estimator
  <2>2. /\ state'[s] # "ESTABLISHED"
        /\ \A t \in Sockets \ {s} : state'[t] = state[t]
    BY <1>0, <1>1 DEF TypeOK, Connect, SynTimeout, SynGiveUp, ReTxGiveUp, CloseAndNotify
  <2>3. /\ ~sampled'[s] \/ sampled'[s] = sampled[s]
        /\ \A t \in Sockets \ {s} : sampled'[t] = sampled[t]
    BY <1>0, <1>1 DEF TypeOK, Connect, SynTimeout, SynGiveUp, ReTxGiveUp, CloseAndNotify, estimator
  <2>4. \A t \in Sockets \ {s} : rto'[t] = rto[t]
    BY <1>0, <1>1 DEF TypeOK, Connect, SynTimeout, SynGiveUp, ReTxGiveUp, CloseAndNotify, SendSyn
  <2>5. GainInRange(s)'
    BY <2>1 DEF MetricInv, GainInRange
  <2> QED
    BY <2>1, <2>2, <2>3, <2>4, <2>5, MetricQuiet
<1>2. ASSUME NEW s \in Sockets, CompleteFork(s) PROVE MetricInv'
  <2>1. \A t \in Sockets \ {s} :
          /\ state'[t] = state[t] /\ sampled'[t] = sampled[t]
          /\ rto'[t] = rto[t] /\ minRto'[t] = minRto[t]
    BY <1>0, <1>2 DEF TypeOK, CompleteFork, CopySocket, SendSyn
  <2>2. state'[s] # "ESTABLISHED" /\ ~sampled'[s] /\ minRto'[s] = MinRto /\ lastRtt' = lastRtt
    BY <1>0, <1>2 DEF TypeOK, CompleteFork, CopySocket
  <2>3. PICK g \in GarbageGains : gain' = [gain EXCEPT ![s] = g]
    BY <1>2 DEF CompleteFork, CopySocket, CopyEstimator
  <2>4. g \in 0 .. GainDen
    BY <1>2, <2>3 DEF MetricInv, TameGains, CompleteFork
  <2>5. GainInRange(s)' /\ \A t \in Sockets \ {s} : gain'[t] = gain[t]
    BY <1>0, <2>3, <2>4, GainAssumption DEF TypeOK, GainInRange
  <2> QED
    BY <2>1, <2>2, <2>5, MetricQuiet
<1>3. ASSUME NEW s \in Sockets, NEW m \in Samples,
             RecvSynAck(s, m) \/ RecvHandshakeAck(s, m) \/ RecvPartialAck(s, m)
      PROVE  MetricInv'
  <2>1. EstimateRtt(s, m) /\ UNCHANGED modes
    BY <1>3 DEF RecvSynAck, RecvHandshakeAck, RecvPartialAck
  <2>2. Established(s)' /\ \A t \in Sockets \ {s} : Established(t)' <=> Established(t)
    BY <1>0, <1>3 DEF RecvSynAck, RecvHandshakeAck, RecvPartialAck, Established, TypeOK
  <2>3. \/ rto' = [rto EXCEPT ![s] = RtoAfterSample(s)]
        \/ rto' = [rto EXCEPT ![s] = RtoRecomputed(s)]
    BY <1>3 DEF RecvSynAck, RecvHandshakeAck, RecvPartialAck
  <2> QED
    BY <2>1, <2>2, <2>3, MetricAck
<1>4. ASSUME NEW s \in Sockets, NEW m \in Samples \cup {0}, RecvAck(s, m)
      PROVE  MetricInv'
  <2>1. /\ UNCHANGED modes
        /\ (\E n \in Samples : EstimateRtt(s, n)) \/ (Established(s) /\ NoSample)
        /\ rto' = [rto EXCEPT ![s] = RtoRecomputed(s)]
    BY <1>4 DEF RecvAck, Established
  <2>2. Established(s)' /\ \A t \in Sockets \ {s} : Established(t)' <=> Established(t)
    BY <1>4 DEF RecvAck, Established
  <2> QED
    BY <2>1, <2>2, MetricAck
<1>5. ASSUME NEW s \in Sockets, SendAck(s) PROVE MetricInv'
  <2>1. /\ UNCHANGED modes /\ NoSample /\ Established(s)
        /\ rto' = [rto EXCEPT ![s] = RtoRecomputed(s)]
    BY <1>5 DEF SendAck, NoSample, Established, estimator, RtoRecomputed
  <2>2. Established(s)' /\ \A t \in Sockets \ {s} : Established(t)' <=> Established(t)
    BY <1>5 DEF SendAck, Established
  <2> QED
    BY <2>1, <2>2, MetricAck
<1>6. ASSUME NEW s \in Sockets, ReTxTimeout(s) PROVE MetricInv'
  <2>1. /\ UNCHANGED <<state, sampled, gain, minRto, lastRtt>>
        /\ rto' = [rto EXCEPT ![s] = Smaller(rto[s] + rto[s], MaxRto)]
        /\ Established(s)
    BY <1>6 DEF ReTxTimeout, estimator, modes, Established
  <2>2. /\ rto'[s] <= MaxRto /\ \A t \in Sockets \ {s} : rto'[t] = rto[t]
    BY <1>0, <2>1, TimeAssumption DEF TypeOK, Smaller
  <2>3. RtoBounded'
    <3> SUFFICES ASSUME NEW t \in Sockets, Established(t)'
                 PROVE  \E high \in Samples : rto'[t] <= RtoLimit(high)
      BY DEF RtoBounded, RtoLimit
    <3>1. PICK high \in Samples : rto[t] <= RtoLimit(high)
      BY <2>1 DEF MetricInv, RtoBounded, RtoLimit, Established
    <3>2. CASE t = s
      <4>1. rto'[s] \in Int /\ MaxRto <= RtoLimit(high) /\ RtoLimit(high) \in Int /\ MaxRto \in Int
        BY <1>0, SamplesAssumption, TimeAssumption DEF TypeOK, RtoLimit, Larger
      <4> QED
        BY <2>2, <3>2, <4>1
    <3>3. CASE t # s
      BY <2>2, <3>1, <3>3
    <3> QED
      BY <3>2, <3>3
  <2> QED
    BY <2>1, <2>3 DEF MetricInv, TameGains, GainInRange
<1>7. CASE UNCHANGED vars
  BY <1>7 DEF vars, MetricInv, TameGains, GainInRange, RtoBounded, Established
<1> QED
  BY <1>1, <1>2, <1>3, <1>4, <1>5, <1>6, <1>7 DEF Next

\* The invariant, for gains that are gains.
LEMMA MetricHolds == TameGains /\ Spec => [](SafetyInv /\ MetricInv)
<1>1. TameGains /\ Init => SafetyInv /\ MetricInv
  BY InitSafe, InitMetric
<1>2. SafetyInv /\ MetricInv /\ [Next]_vars => (SafetyInv /\ MetricInv)'
  BY NextSafe, MetricStep
<1> QED
  BY <1>1, <1>2, PTL DEF Spec

\* DoRetransmit and EstimateRtt never divide by a lastRtt of 0 in an established
\* connection, for any number of sockets that share it.
THEOREM MetricDefined == TameGains /\ Spec => []RetransmitMetricDefined
<1>1. SafetyInv /\ MetricInv => RetransmitMetricDefined
  BY DEF SafetyInv, Linked, MetricInv, RetransmitMetricDefined
<1> QED
  BY <1>1, MetricHolds, PTL

\* Nor does the timer grow without bound, whatever the sockets write to lastRtt
\* and however often the timer is backed off.
THEOREM TimerBounded == TameGains /\ Spec => []RtoBounded
<1>1. MetricInv => RtoBounded
  BY DEF MetricInv
<1> QED
  BY <1>1, MetricHolds, PTL

----------------------------------------------------------------------------
(* One socket: lastRtt is its estimate, and the timer keeps a margin to it *)

Lone == \A s, t \in Sockets : s = t

LoneInv ==
    /\ Lone
    /\ \A s \in Sockets : gain[s] = GainNum \/ ~sockPH[s]
    /\ \A s \in Sockets : sampled[s] => lastRtt = est[s]
    /\ LoneSocketMargin

\* A measurement raises the floor above the estimate it leads to.
LEMMA MeasuredMargin ==
    ASSUME SafetyInv, LoneInv, NEW s \in Sockets, GainInRange(s), sockPH[s],
           NEW m \in Samples, EstimateRtt(s, m)
    PROVE  est'[s] + 2 * Granularity <= minRto'[s]
<1>1. PICK p \in Measurement(s, m) :
        /\ est' = [est EXCEPT ![s] = p[1]]
        /\ minRto' = [minRto EXCEPT ![s] =
              IF sockPH[s] THEN Larger(m, lastRtt) + 2 * Granularity ELSE @]
        /\ lastRtt' = p[1]
  BY Zenon DEF EstimateRtt
<1>2. est'[s] = p[1] /\ minRto'[s] = Larger(m, lastRtt) + 2 * Granularity /\ lastRtt' = p[1]
  BY <1>1 DEF SafetyInv, TypeOK
<1>3. p[1] <= m \/ (sampled[s] /\ p[1] <= est[s])
  BY MeasurementRange DEF SafetyInv
<1>4. sampled[s] => lastRtt = est[s]
  BY DEF LoneInv
<1>5. m \in Int /\ Granularity \in Int /\ lastRtt \in Int /\ est[s] \in Int
  BY SamplesAssumption, TimeAssumption DEF SafetyInv, TypeOK
<1>6. p[1] \in Int
  <2>1. p[1] \in -EstCap .. EstCap
    <3>1. lastRtt' \in -EstCap .. EstCap
      BY DEF EstimateRtt
    <3> QED
      BY <1>2, <3>1
  <2> QED
    BY <2>1, EstCapAssumption
<1>7. p[1] <= Larger(m, lastRtt)
  BY <1>3, <1>4, <1>5, <1>6 DEF Larger
<1>8. Larger(m, lastRtt) \in Int
  BY <1>5 DEF Larger
<1>9. p[1] + 2 * Granularity <= Larger(m, lastRtt) + 2 * Granularity
  BY <1>5, <1>6, <1>7, <1>8
<1> QED
  BY <1>2, <1>9

\* An ACK, with a sample or without.
LEMMA LoneAck ==
    ASSUME SafetyInv, SafetyInv', LoneInv, NEW s \in Sockets, UNCHANGED modes,
           \/ Established(s)' /\ \E m \in Samples : EstimateRtt(s, m)
           \/ Established(s) /\ NoSample /\ rto' = [rto EXCEPT ![s] = RtoRecomputed(s)],
           \/ rto' = [rto EXCEPT ![s] = RtoAfterSample(s)]
           \/ rto' = [rto EXCEPT ![s] = RtoRecomputed(s)]
    PROVE  LoneInv'
<1>1. \A t \in Sockets : t = s
  BY DEF LoneInv, Lone
<1>2. /\ est'[s] \in Int /\ var'[s] \in Int /\ minRto'[s] \in Int /\ rto'[s] \in Int
      /\ lastRtt' \in Int /\ sockPH[s] \in BOOLEAN /\ sockPH' = sockPH /\ gain' = gain
  BY DEF SafetyInv, TypeOK, modes
<1>3. lastRtt' = est'[s]
  <2>1. CASE \E m \in Samples : EstimateRtt(s, m)
    <3>1. PICK m \in Samples : EstimateRtt(s, m)
      BY <2>1
    <3>2. PICK p \in Measurement(s, m) : est' = [est EXCEPT ![s] = p[1]] /\ lastRtt' = p[1]
      BY <3>1, Zenon DEF EstimateRtt
    <3> QED
      BY <3>2 DEF SafetyInv, TypeOK
  <2>2. CASE Established(s) /\ NoSample
    BY <2>2 DEF NoSample, SafetyInv, Linked, LoneInv
  <2> QED
    BY <2>1, <2>2
<1>4. sockPH[s] => GainInRange(s)
  BY GainAssumption DEF LoneInv, GainInRange
<1>5. ASSUME sockPH[s] PROVE rto'[s] >= Smaller(est'[s] + 2 * Granularity, MaxRto)
  <2>1. Granularity \in Nat /\ MaxRto \in Nat
    BY TimeAssumption
  <2>2. RtoRecomputed(s) >= est'[s] + 2 * Granularity
    BY <1>2, <1>3, <1>5, <2>1 DEF RtoRecomputed, RecomputedRto, Larger
  <2>3. rto'[s] = RtoAfterSample(s) \/ rto'[s] = RtoRecomputed(s)
    BY DEF SafetyInv, TypeOK
  <2>4. rto'[s] >= est'[s] + 2 * Granularity
    <3>1. CASE \E m \in Samples : EstimateRtt(s, m)
      <4>1. est'[s] + 2 * Granularity <= minRto'[s]
        BY <1>4, <1>5, <3>1, MeasuredMargin
      <4>2. RtoAfterSample(s) >= minRto'[s] /\ RtoAfterSample(s) \in Int
        BY <1>2, FormulaBounds, RtoTypes, TRUE \in BOOLEAN DEF RtoAfterSample
      <4>3. RtoAfterSample(s) >= est'[s] + 2 * Granularity
        BY <1>2, <2>1, <4>1, <4>2
      <4> QED
        BY <2>2, <2>3, <4>3
    <3>2. CASE rto' = [rto EXCEPT ![s] = RtoRecomputed(s)]
      BY <2>2, <3>2 DEF SafetyInv, TypeOK
    <3> QED
      BY <3>1, <3>2
  <2> QED
    BY <1>2, <2>1, <2>4 DEF Smaller
<1>6. LoneSocketMargin'
  <2> SUFFICES ASSUME NEW t \in Sockets, Established(t)', sockPH'[t]
               PROVE  rto'[t] >= Smaller(est'[t] + 2 * Granularity, MaxRto)
    BY DEF LoneSocketMargin
  <2> QED
    BY <1>1, <1>2, <1>5
<1>7. \A t \in Sockets : sampled'[t] => lastRtt' = est'[t]
  BY <1>1, <1>3
<1> QED
  BY <1>2, <1>6, <1>7 DEF LoneInv, Lone

\* Every handler keeps them.
LEMMA LoneStep ==
    ASSUME SafetyInv, SafetyInv', LoneInv, [Next]_vars
    PROVE  LoneInv'
<1>0. TypeOK /\ TypeOK' /\ \A s, t \in Sockets : s = t
  BY DEF SafetyInv, LoneInv, Lone
<1>1. ASSUME NEW s \in Sockets, state'[s] # "ESTABLISHED",
             \A t \in Sockets : gain'[t] = GainNum \/ ~sockPH'[t],
             ~sampled'[s] \/ (lastRtt' = lastRtt /\ est' = est /\ sampled' = sampled)
      PROVE  LoneInv'
  BY <1>0, <1>1 DEF LoneInv, Lone, LoneSocketMargin, Established
<1>2. ASSUME NEW s \in Sockets,
             Connect(s) \/ SynTimeout(s) \/ SynGiveUp(s) \/ ReTxGiveUp(s) \/ CloseAndNotify(s)
      PROVE  LoneInv'
  <2>1. state'[s] # "ESTABLISHED"
    BY <1>0, <1>2 DEF TypeOK, Connect, SynTimeout, SynGiveUp, ReTxGiveUp, CloseAndNotify
  <2>2. gain' = gain /\ sockPH' = sockPH
    BY <1>2 DEF Connect, SynTimeout, SynGiveUp, ReTxGiveUp, CloseAndNotify, modes
  <2>3. ~sampled'[s] \/ (lastRtt' = lastRtt /\ est' = est /\ sampled' = sampled)
    BY <1>0, <1>2 DEF TypeOK, Connect, SynTimeout, SynGiveUp, ReTxGiveUp, CloseAndNotify, estimator
  <2>4. \A t \in Sockets : gain'[t] = GainNum \/ ~sockPH'[t]
    BY <2>2 DEF LoneInv
  <2> QED
    BY <1>1, <2>1, <2>3, <2>4
<1>3. ASSUME NEW s \in Sockets, CompleteFork(s) PROVE LoneInv'
  <2>1. state'[s] # "ESTABLISHED" /\ ~sampled'[s] /\ ~sockPH'[s]
    BY <1>0, <1>3 DEF TypeOK, CompleteFork, CopySocket
  <2> QED
    BY <1>0, <1>1, <2>1
<1>4. ASSUME NEW s \in Sockets, NEW m \in Samples,
             RecvSynAck(s, m) \/ RecvHandshakeAck(s, m) \/ RecvPartialAck(s, m)
      PROVE  LoneInv'
  <2>1. EstimateRtt(s, m) /\ UNCHANGED modes
    BY <1>4 DEF RecvSynAck, RecvHandshakeAck, RecvPartialAck
  <2>2. Established(s)'
    BY <1>0, <1>4 DEF RecvSynAck, RecvHandshakeAck, RecvPartialAck, Established, TypeOK
  <2>3. \/ rto' = [rto EXCEPT ![s] = RtoAfterSample(s)]
        \/ rto' = [rto EXCEPT ![s] = RtoRecomputed(s)]
    BY <1>4 DEF RecvSynAck, RecvHandshakeAck, RecvPartialAck
  <2> QED
    BY <2>1, <2>2, <2>3, LoneAck
<1>5. ASSUME NEW s \in Sockets, NEW m \in Samples \cup {0}, RecvAck(s, m)
      PROVE  LoneInv'
  <2>1. /\ UNCHANGED modes /\ Established(s) /\ Established(s)'
        /\ (\E n \in Samples : EstimateRtt(s, n)) \/ NoSample
        /\ rto' = [rto EXCEPT ![s] = RtoRecomputed(s)]
    BY <1>5 DEF RecvAck, Established
  <2> QED
    BY <2>1, LoneAck
<1>6. ASSUME NEW s \in Sockets, SendAck(s) PROVE LoneInv'
  <2>1. /\ UNCHANGED modes /\ NoSample /\ Established(s)
        /\ rto' = [rto EXCEPT ![s] = RtoRecomputed(s)]
    BY <1>6 DEF SendAck, NoSample, Established, estimator, RtoRecomputed
  <2> QED
    BY <2>1, LoneAck
<1>7. ASSUME NEW s \in Sockets, ReTxTimeout(s) PROVE LoneInv'
  <2>1. /\ UNCHANGED <<state, est, sampled, gain, sockPH, lastRtt>>
        /\ rto' = [rto EXCEPT ![s] = Smaller(rto[s] + rto[s], MaxRto)]
        /\ Established(s)
    BY <1>7 DEF ReTxTimeout, estimator, modes, Established
  <2>2. rto'[s] = Smaller(rto[s] + rto[s], MaxRto) /\ rto[s] \in Int /\ est[s] \in Int
        /\ Granularity \in Nat /\ MaxRto \in Nat
    BY <1>0, <2>1, TimeAssumption DEF TypeOK
  <2>3. sockPH[s] => rto'[s] >= Smaller(est[s] + 2 * Granularity, MaxRto)
    <3> SUFFICES ASSUME sockPH[s] PROVE rto'[s] >= Smaller(est[s] + 2 * Granularity, MaxRto)
      OBVIOUS
    <3>1. rto[s] >= Smaller(est[s] + 2 * Granularity, MaxRto)
      BY <2>1 DEF LoneInv, LoneSocketMargin
    <3>2. est[s] >= 0
      <4>1. sampled[s] /\ GainInRange(s)
        BY <2>1, GainAssumption DEF SafetyInv, Linked, GainInRange, LoneInv
      <4>2. PICK low \in Samples : low <= est[s]
        BY <4>1 DEF SafetyInv, EstimateWithinSamples
      <4>3. low \in Nat
        BY SamplesAssumption
      <4> QED
        BY <2>2, <4>2, <4>3
    <3> QED
      BY <2>2, <3>1, <3>2 DEF Smaller
  <2>4. LoneSocketMargin'
    BY <1>0, <2>1, <2>3 DEF LoneSocketMargin
  <2> QED
    BY <2>1, <2>4 DEF LoneInv, Lone
<1>8. CASE UNCHANGED vars
  BY <1>8 DEF vars, LoneInv, Lone, LoneSocketMargin, Established
<1> QED
  BY <1>2, <1>3, <1>4, <1>5, <1>6, <1>7, <1>8 DEF Next

\* A program with one socket never lets its PeakHopper timer come closer to the
\* estimate than twice the clock granularity, except by the 60 s cap, although
\* NewAck and SendEmptyPacket read no variation floor and no minimum RTO.
THEOREM LoneMargin == Lone /\ Spec => []LoneSocketMargin
<1>1. Lone /\ Init => SafetyInv /\ LoneInv
  <2> SUFFICES ASSUME Lone, Init PROVE LoneInv
    BY InitSafe
  <2> QED
    BY DEF Init, LoneInv, LoneSocketMargin, Established
<1>2. SafetyInv /\ LoneInv /\ [Next]_vars => (SafetyInv /\ LoneInv)'
  BY NextSafe, LoneStep
<1>3. LoneInv => LoneSocketMargin
  BY DEF LoneInv
<1> QED
  BY <1>1, <1>2, <1>3, PTL DEF Spec
=============================================================================
