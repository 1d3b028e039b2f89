-------------------------- MODULE FlowControlProofs --------------------------
(***************************************************************************)
(* What holds of the advertised window for every size of buffers, segments *)
(* and windows, every number of losses and every pace of the application   *)
(* that reads: the sender never believes in more room than there is nor    *)
(* sends beyond it, it probes exactly while it believes in none, what is   *)
(* outstanding is covered by the retransmission timer unless transmission  *)
(* stalls, and only losses use up the retries.                             *)
(*                                                                         *)
(* First comes what the loop of SendPendingData sends, however many turns  *)
(* it takes: nothing, or a chain of segments without a gap that ends       *)
(* within the advertised window, or one segment of data thought lost.      *)
(*                                                                         *)
(* RoomInv and ProbeInv are inductive by themselves.  The rest is proved   *)
(* from FlowInv, which says in particular that the path carries a chain of *)
(* segments without a gap, or a probe alone, and that a closed window or a *)
(* timeout leaves nothing else under way.                                  *)
(***************************************************************************)
EXTENDS FlowControl, TcpTxBufferProofs

----------------------------------------------------------------------------
(* Turns *)

Turn(s, w, c) == IF MaySend(s, w, c) THEN SendDataPacket(s, w, c) ELSE s
NothingSent(b) == [buf |-> b, sent |-> <<>>]

\* g gives the outcomes after 0 to N turns.
LoopRun(g, b, w, c) ==
    g = [n \in 0 .. N |-> IF n = 0 THEN {NothingSent(b)}
                          ELSE {Turn(s, w, c) : s \in g[n - 1]}]

\* The recursive function that Loop is defined by exists: it can be built one
\* turn after the other, so there is no least number of turns it cannot do.
LEMMA LoopRuns ==
    ASSUME NEW b, NEW w, NEW c
    PROVE  \E g : LoopRun(g, b, w, c) /\ Loop(b, w, c) = g[N]
<1> DEFINE IsRun(g, m) ==
               g = [n \in 0 .. m |-> IF n = 0 THEN {NothingSent(b)}
                                     ELSE {Turn(s, w, c) : s \in g[n - 1]}]
           Undone == {m \in Nat : ~ \E g : IsRun(g, m)}
<1>1. SUFFICES ASSUME Undone # {} PROVE FALSE
  <2>1. N \in Nat
    BY BoundsAssumption
  <2>2. \E g : IsRun(g, N)
    BY <1>1, <2>1
  <2>3. IsRun(CHOOSE g : IsRun(g, N), N)
    BY <2>2, Zenon
  <2>4. Loop(b, w, c) = (CHOOSE g : IsRun(g, N))[N]
    BY Zenon DEF Loop, Turn, NothingSent
  <2> QED
    BY <2>3, <2>4, Zenon DEF LoopRun
<1>2. Undone \in SUBSET Nat /\ \A m \in Nat : m \notin Undone => \E g : IsRun(g, m)
  OBVIOUS
<1>3. PICK m \in Undone : \A k \in Undone : m <= k
  <2> HIDE DEF Undone
  <2> QED
    BY <1>1, <1>2, LeastNatural
<1>4. m \in Nat
  BY <1>2, <1>3
<1>5. CASE m = 0
  <2> DEFINE h == [n \in 0 .. 0 |-> {NothingSent(b)}]
  <2>1. IsRun(h, 0)
    OBVIOUS
  <2> QED
    BY <1>3, <1>5, <2>1
<1>6. CASE m # 0
  <2>1. m - 1 \in Nat /\ m - 1 \notin Undone
    <3> HIDE DEF Undone
    <3> QED
      BY <1>3, <1>4, <1>6
  <2>2. PICK g : IsRun(g, m - 1)
    BY <1>2, <2>1
  <2> DEFINE h == [n \in 0 .. m |-> IF n = m THEN {Turn(s, w, c) : s \in g[m - 1]} ELSE g[n]]
  <2>3. \A n \in 0 .. m - 1 : h[n] = g[n]
    BY <1>4
  <2>4. ASSUME NEW n \in 0 .. m
        PROVE  h[n] = IF n = 0 THEN {NothingSent(b)} ELSE {Turn(s, w, c) : s \in h[n - 1]}
    <3>1. CASE n = m
      <4>1. h[n] = {Turn(s, w, c) : s \in g[m - 1]}
        BY <3>1
      <4>2. h[n - 1] = g[m - 1]
        BY <2>1, <2>3, <3>1
      <4> QED
        BY <1>6, <3>1, <4>1, <4>2
    <3>2. CASE n # m
      <4>1. n \in 0 .. m - 1
        BY <1>4, <3>2
      <4>2. g[n] = IF n = 0 THEN {NothingSent(b)} ELSE {Turn(s, w, c) : s \in g[n - 1]}
        BY <2>2, <4>1
      <4>3. n # 0 => h[n - 1] = g[n - 1]
        BY <1>4, <2>3, <4>1
      <4>4. h[n] = g[n]
        BY <2>3, <4>1
      <4> HIDE DEF h
      <4> QED
        BY <4>2, <4>3, <4>4, Zenon
    <3> QED
      BY <3>1, <3>2
  <2>5. h = [n \in 0 .. m |-> h[n]]
    OBVIOUS
  <2> HIDE DEF h
  <2>6. IsRun(h, m)
    BY <2>4, <2>5
  <2> HIDE DEF IsRun
  <2> QED
    BY <1>3, <2>6
<1> QED
  BY <1>5, <1>6

\* What the first turn leads to and every turn keeps is an outcome of the loop.
LEMMA LoopInduction ==
    ASSUME NEW b, NEW w, NEW c, NEW S,
           Turn(NothingSent(b), w, c) \in S, \A s \in S : Turn(s, w, c) \in S
    PROVE  Loop(b, w, c) \subseteq S
<1>1. N \in Nat /\ N >= 1
  BY BoundsAssumption
<1>2. PICK g : LoopRun(g, b, w, c) /\ Loop(b, w, c) = g[N]
  BY LoopRuns
<1>3. /\ g[0] = {NothingSent(b)}
      /\ \A n \in 1 .. N : g[n] = {Turn(s, w, c) : s \in g[n - 1]}
  <2>1. 0 \in 0 .. N /\ \A n \in 1 .. N : n \in 0 .. N /\ n # 0
    BY <1>1
  <2>2. g[0] = {NothingSent(b)}
    BY <1>2, <2>1 DEF LoopRun
  <2>3. \A n \in 1 .. N : g[n] = {Turn(s, w, c) : s \in g[n - 1]}
    BY <1>2, <2>1 DEF LoopRun
  <2> QED
    BY <2>2, <2>3
<1> DEFINE Bad == {n \in 1 .. N : ~(g[n] \subseteq S)}
<1>4. SUFFICES ASSUME Bad # {} PROVE FALSE
  <2>1. N \in 1 .. N
    BY <1>1
  <2> QED
    BY <1>2, <2>1, Zenon
<1>5. Bad \in SUBSET Nat /\ Bad \in SUBSET (1 .. N)
  OBVIOUS
<1>6. PICK n \in Bad : \A k \in Bad : n <= k
  <2> HIDE DEF Bad
  <2> QED
    BY <1>4, <1>5, LeastNatural
<1>7. n \in 1 .. N /\ g[n] = {Turn(s, w, c) : s \in g[n - 1]} /\ ~(g[n] \subseteq S)
  BY <1>3, <1>6
<1>8. CASE n = 1
  BY <1>3, <1>7, <1>8
<1>9. CASE n # 1
  <2>1. n - 1 \in 1 .. N
    BY <1>1, <1>7, <1>9
  <2>2. n - 1 \notin Bad
    <3> HIDE DEF Bad
    <3> QED
      BY <1>5, <1>6
  <2>3. g[n - 1] \subseteq S
    BY <2>1, <2>2
  <2> QED
    BY <1>7, <2>3
<1> QED
  BY <1>8, <1>9

----------------------------------------------------------------------------
(* Chains of segments *)

Segments == [seq : Nat, size : 1 .. SegmentSize, probe : {FALSE}]
End(d) == d.seq + d.size

\* The segments q follow each other without a gap from byte a to byte z.
Chain(q, a, z) ==
    /\ q \in Seq(Segments) /\ Len(q) >= 1
    /\ q[1].seq = a /\ End(q[Len(q)]) = z
    /\ \A i \in 1 .. Len(q) - 1 : q[i + 1].seq = End(q[i])
    /\ \A i \in 1 .. Len(q) : a <= q[i].seq /\ End(q[i]) <= z
    /\ \A i, j \in 1 .. Len(q) : i < j => End(q[i]) <= q[j].seq

\* One segment is a chain.
LEMMA ChainOne ==
    ASSUME NEW a \in Nat, NEW n \in 1 .. SegmentSize
    PROVE  Chain(<<[seq |-> a, size |-> n, probe |-> FALSE]>>, a, a + n)
<1> DEFINE d == [seq |-> a, size |-> n, probe |-> FALSE]
           q == <<d>>
<1>1. SegmentSize \in Nat
  BY SocketAssumption
<1>2. d \in Segments /\ d.seq = a /\ End(d) = a + n
  BY DEF Segments, End
<1> HIDE DEF d
<1>3. q \in Seq(Segments) /\ Len(q) = 1 /\ q[1] = d
  BY <1>2
<1> HIDE DEF q
<1>4. \A i \in 1 .. Len(q) : i = 1
  BY <1>3
<1>5. \A i, j \in 1 .. Len(q) : ~(i < j)
  BY <1>4
<1>6. 1 .. Len(q) - 1 = {}
  BY <1>3
<1>7. a <= a /\ a + n <= a + n /\ 1 >= 1
  BY <1>1
<1> QED
  BY <1>2, <1>3, <1>4, <1>5, <1>6, <1>7 DEF Chain, q, d

\* What the members of a chain are.
LEMMA ChainMembers ==
    ASSUME NEW q, NEW a \in Nat, NEW z \in Nat, Chain(q, a, z)
    PROVE  /\ Len(q) \in Nat /\ Len(q) >= 1 /\ DOMAIN q = 1 .. Len(q)
           /\ \A i \in 1 .. Len(q) :
                  /\ q[i] \in Segments /\ q[i].seq \in Nat /\ q[i].size \in Nat \ {0}
                  /\ q[i].size \in 1 .. SegmentSize /\ ~q[i].probe
                  /\ End(q[i]) \in Nat /\ q[i].seq < End(q[i])
           /\ a < End(q[1]) /\ End(q[1]) <= z
           /\ Len(q) = 1 => End(q[1]) = z
           /\ Len(q) # 1 => End(q[1]) < z
<1>1. SegmentSize \in Nat
  BY SocketAssumption
<1>2. q \in Seq(Segments) /\ Len(q) >= 1
  BY DEF Chain
<1>3. Len(q) \in Nat /\ DOMAIN q = 1 .. Len(q) /\ \A i \in 1 .. Len(q) : q[i] \in Segments
  BY <1>2, LenProperties, ElementOfSeq
<1>4. ASSUME NEW d \in Segments
      PROVE  /\ d.seq \in Nat /\ d.size \in Nat \ {0} /\ d.size \in 1 .. SegmentSize /\ ~d.probe
             /\ End(d) \in Nat /\ d.seq < End(d)
  <2>1. d.seq \in Nat /\ d.size \in 1 .. SegmentSize /\ d.probe \in {FALSE}
    BY DEF Segments
  <2>2. ~d.probe
    BY <2>1, Zenon
  <2>3. d.size \in Nat \ {0} /\ d.seq + d.size \in Nat /\ d.seq < d.seq + d.size
    BY <1>1, <2>1
  <2> QED
    BY <2>1, <2>2, <2>3, Zenon DEF End
<1>5. 1 \in 1 .. Len(q) /\ Len(q) \in 1 .. Len(q)
  BY <1>2, <1>3
<1>6. q[1].seq = a /\ End(q[1]) <= z /\ End(q[Len(q)]) = z
  BY <1>5 DEF Chain
<1>7. a < End(q[1])
  BY <1>3, <1>4, <1>5, <1>6
<1>8. CASE Len(q) = 1
  BY <1>2, <1>3, <1>4, <1>6, <1>7, <1>8
<1>9. CASE Len(q) # 1
  <2>1. 1 < Len(q)
    BY <1>2, <1>3, <1>9
  <2>2. End(q[1]) <= q[Len(q)].seq
    BY <1>5, <2>1 DEF Chain
  <2>3. /\ q[Len(q)].seq \in Nat /\ End(q[1]) \in Nat /\ End(q[Len(q)]) \in Nat
        /\ q[Len(q)].seq < End(q[Len(q)])
    BY <1>3, <1>4, <1>5
  <2>4. End(q[1]) < z
    BY <1>6, <2>2, <2>3
  <2> QED
    BY <1>2, <1>3, <1>4, <1>6, <1>7, <1>9, <2>4
<1> QED
  BY <1>8, <1>9

\* Chains that meet are one chain.
LEMMA ChainConcat ==
    ASSUME NEW q, NEW p, NEW a \in Nat, NEW m \in Nat, NEW z \in Nat,
           Chain(q, a, m), Chain(p, m, z)
    PROVE  Chain(q \o p, a, z) /\ (q \o p)[1] = q[1]
<1> DEFINE r == q \o p
           k == Len(q)
           n == Len(p)
<1>1. /\ k \in Nat /\ k >= 1 /\ n \in Nat /\ n >= 1
      /\ q \in Seq(Segments) /\ p \in Seq(Segments)
      /\ \A i \in 1 .. k : q[i].seq \in Nat /\ End(q[i]) \in Nat
      /\ \A i \in 1 .. n : p[i].seq \in Nat /\ End(p[i]) \in Nat
      /\ a < m /\ m < z
  <2>1. /\ k \in Nat /\ k >= 1 /\ \A i \in 1 .. k : q[i].seq \in Nat /\ End(q[i]) \in Nat
        /\ a < End(q[1]) /\ End(q[1]) <= m
    BY ChainMembers
  <2>2. /\ n \in Nat /\ n >= 1 /\ \A i \in 1 .. n : p[i].seq \in Nat /\ End(p[i]) \in Nat
        /\ m < End(p[1]) /\ End(p[1]) <= z
    BY ChainMembers
  <2>3. q \in Seq(Segments) /\ p \in Seq(Segments)
    BY DEF Chain
  <2>4. End(q[1]) \in Nat /\ End(p[1]) \in Nat
    BY <2>1, <2>2
  <2> QED
    BY <2>1, <2>2, <2>3, <2>4
<1>2. /\ q[1].seq = a /\ End(q[k]) = m
      /\ \A i \in 1 .. k - 1 : q[i + 1].seq = End(q[i])
      /\ \A i \in 1 .. k : a <= q[i].seq /\ End(q[i]) <= m
      /\ \A i, j \in 1 .. k : i < j => End(q[i]) <= q[j].seq
  BY DEF Chain
<1>3. /\ p[1].seq = m /\ End(p[n]) = z
      /\ \A i \in 1 .. n - 1 : p[i + 1].seq = End(p[i])
      /\ \A i \in 1 .. n : m <= p[i].seq /\ End(p[i]) <= z
      /\ \A i, j \in 1 .. n : i < j => End(p[i]) <= p[j].seq
  BY DEF Chain
<1>4. /\ r \in Seq(Segments) /\ Len(r) = k + n
      /\ \A i \in 1 .. k + n : r[i] = IF i <= k THEN q[i] ELSE p[i - k]
  BY <1>1, ConcatProperties
<1> HIDE DEF r, k, n
<1>5. r[1] = q[1] /\ r[k + n] = p[n] /\ k + n >= 1
  <2>1. 1 \in 1 .. k + n /\ 1 <= k /\ k + n \in 1 .. k + n /\ ~(k + n <= k) /\ k + n - k = n
    BY <1>1
  <2> QED
    BY <1>1, <1>4, <2>1
<1>6. ASSUME NEW i \in 1 .. k + n - 1 PROVE r[i + 1].seq = End(r[i])
  <2>1. i \in 1 .. k + n /\ i + 1 \in 1 .. k + n
    BY <1>1
  <2>2. CASE i < k
    <3>1. i \in 1 .. k - 1 /\ r[i] = q[i] /\ r[i + 1] = q[i + 1]
      BY <1>1, <1>4, <2>1, <2>2
    <3> QED
      BY <1>2, <3>1
  <2>3. CASE i = k
    <3>1. r[i] = q[k] /\ r[i + 1] = p[1]
      BY <1>1, <1>4, <2>1, <2>3, SMTT(30)
    <3> QED
      BY <1>2, <1>3, <3>1
  <2>4. CASE i > k
    <3>1. i - k \in 1 .. n - 1 /\ r[i] = p[i - k] /\ r[i + 1] = p[(i - k) + 1]
      <4>1. i - k \in 1 .. n - 1 /\ ~(i <= k) /\ ~(i + 1 <= k)
        BY <1>1, <2>4
      <4>2. (i + 1) - k = (i - k) + 1
        BY <1>1
      <4> QED
        BY <1>4, <2>1, <4>1, <4>2
    <3> QED
      BY <1>3, <3>1
  <2> QED
    BY <1>1, <2>2, <2>3, <2>4
<1>7. ASSUME NEW i \in 1 .. k + n PROVE a <= r[i].seq /\ End(r[i]) <= z
  <2>1. CASE i <= k
    <3>1. i \in 1 .. k /\ r[i] = q[i]
      BY <1>1, <1>4, <2>1, SMTT(30)
    <3>2. a <= q[i].seq /\ End(q[i]) <= m /\ End(q[i]) \in Nat
      BY <1>1, <1>2, <3>1
    <3> QED
      BY <1>1, <3>1, <3>2
  <2>2. CASE ~(i <= k)
    <3>1. i - k \in 1 .. n /\ r[i] = p[i - k]
      BY <1>1, <1>4, <2>2, SMTT(30)
    <3>2. m <= p[i - k].seq /\ End(p[i - k]) <= z /\ p[i - k].seq \in Nat
      BY <1>1, <1>3, <3>1
    <3> QED
      BY <1>1, <3>1, <3>2
  <2> QED
    BY <2>1, <2>2
<1>8. ASSUME NEW i \in 1 .. k + n, NEW j \in 1 .. k + n, i < j PROVE End(r[i]) <= r[j].seq
  <2>1. CASE j <= k
    <3>1. i \in 1 .. k /\ j \in 1 .. k /\ r[i] = q[i] /\ r[j] = q[j]
      BY <1>1, <1>4, <1>8, <2>1
    <3> QED
      BY <1>2, <1>8, <3>1
  <2>2. CASE i <= k /\ ~(j <= k)
    <3>1. i \in 1 .. k /\ j - k \in 1 .. n /\ r[i] = q[i] /\ r[j] = p[j - k]
      BY <1>1, <1>4, <2>2
    <3>2. End(q[i]) <= m /\ m <= p[j - k].seq /\ End(q[i]) \in Nat /\ p[j - k].seq \in Nat
      BY <1>1, <1>2, <1>3, <3>1
    <3> QED
      BY <3>1, <3>2
  <2>3. CASE ~(i <= k)
    <3>1. /\ i - k \in 1 .. n /\ j - k \in 1 .. n /\ i - k < j - k
          /\ r[i] = p[i - k] /\ r[j] = p[j - k]
      BY <1>1, <1>4, <1>8, <2>3
    <3> QED
      BY <1>3, <3>1
  <2> QED
    BY <2>1, <2>2, <2>3
<1> QED
  BY <1>2, <1>3, <1>4, <1>5, <1>6, <1>7, <1>8, SMTT(30) DEF Chain, r

\* A chain without its first segment.
LEMMA ChainTail ==
    ASSUME NEW q, NEW a \in Nat, NEW z \in Nat, Chain(q, a, z), Len(q) # 1
    PROVE  Chain(Tail(q), End(q[1]), z) /\ Len(Tail(q)) = Len(q) - 1 /\ Tail(q)[1] = q[2]
<1> DEFINE r == Tail(q)
           k == Len(q)
<1>1. /\ k \in Nat /\ k >= 1 /\ q \in Seq(Segments)
      /\ \A i \in 1 .. k : q[i].seq \in Nat /\ End(q[i]) \in Nat
  BY ChainMembers DEF Chain
<1>2. /\ q[1].seq = a /\ End(q[k]) = z
      /\ \A i \in 1 .. k - 1 : q[i + 1].seq = End(q[i])
      /\ \A i \in 1 .. k : a <= q[i].seq /\ End(q[i]) <= z
      /\ \A i, j \in 1 .. k : i < j => End(q[i]) <= q[j].seq
  BY DEF Chain
<1>3. r \in Seq(Segments) /\ Len(r) = k - 1 /\ \A i \in 1 .. k - 1 : r[i] = q[i + 1]
  <2>1. q # <<>>
    BY <1>1
  <2> QED
    BY <1>1, <2>1, HeadTailProperties
<1>4. k # 1
  OBVIOUS
<1> HIDE DEF r, k
<1>5. k \in Nat /\ k >= 2
  BY <1>1, <1>4
<1>6. r[1] = q[2] /\ r[k - 1] = q[k] /\ q[2].seq = End(q[1])
  <2>1. 1 \in 1 .. k - 1 /\ k - 1 \in 1 .. k - 1 /\ (k - 1) + 1 = k /\ 1 + 1 = 2
    BY <1>5
  <2> QED
    BY <1>2, <1>3, <2>1
<1>7. ASSUME NEW i \in 1 .. k - 1 PROVE End(q[1]) <= r[i].seq /\ End(r[i]) <= z
  <2>1. 1 \in 1 .. k /\ i + 1 \in 1 .. k /\ 1 < i + 1 /\ r[i] = q[i + 1]
    BY <1>3, <1>5
  <2> QED
    BY <1>2, <2>1
<1>8. ASSUME NEW i \in 1 .. k - 1, NEW j \in 1 .. k - 1, i < j PROVE End(r[i]) <= r[j].seq
  <2>1. /\ i + 1 \in 1 .. k /\ j + 1 \in 1 .. k /\ i + 1 < j + 1
        /\ r[i] = q[i + 1] /\ r[j] = q[j + 1]
    BY <1>3, <1>5, <1>8
  <2> QED
    BY <1>2, <2>1
<1>9. ASSUME NEW i \in 1 .. (k - 1) - 1 PROVE r[i + 1].seq = End(r[i])
  <2>1. /\ i \in 1 .. k - 1 /\ i + 1 \in 1 .. k - 1
        /\ r[i] = q[i + 1] /\ r[i + 1] = q[(i + 1) + 1]
    BY <1>3, <1>5
  <2> QED
    BY <1>2, <2>1
<1>10. k - 1 >= 1
  BY <1>5
<1> QED
  BY <1>2, <1>3, <1>6, <1>7, <1>8, <1>9, <1>10 DEF Chain, r, k

----------------------------------------------------------------------------
(* One turn *)

\* The lesser of two and of three numbers.
LEMMA MinOfTwo ==
    ASSUME NEW a \in Nat, NEW b \in Nat
    PROVE  Min({a, b}) = IF a <= b THEN a ELSE b
<1>1. {a, b} \in SUBSET Nat /\ {a, b} # {}
  OBVIOUS
<1>2. Min({a, b}) \in {a, b} /\ \A y \in {a, b} : Min({a, b}) <= y
  BY <1>1, MinOfNaturals
<1> DEFINE m == Min({a, b})
<1> HIDE DEF m
<1>3. (m = a \/ m = b) /\ m <= a /\ m <= b
  BY <1>2 DEF m
<1> QED
  BY <1>3 DEF m

LEMMA MinOfThree ==
    ASSUME NEW a \in Nat, NEW b \in Nat, NEW c \in Nat
    PROVE  /\ Min({a, b, c}) \in {a, b, c}
           /\ Min({a, b, c}) <= a /\ Min({a, b, c}) <= b /\ Min({a, b, c}) <= c
<1>1. {a, b, c} \in SUBSET Nat /\ {a, b, c} # {}
  OBVIOUS
<1> QED
  BY <1>1, MinOfNaturals

\* How much is outstanding, and how much of it is thought under way.
LEMMA OutstandingSize ==
    ASSUME NEW b, Sound(b), b.sacked = {}
    PROVE  /\ Cardinality(Outstanding(b)) = b.next - b.head
           /\ Missing(b) = b.lost \ b.retrans
           /\ BytesInFlight(b) \in Nat
           /\ b.lost = Outstanding(b) => BytesInFlight(b) = Cardinality(b.retrans)
<1>1. /\ b.head \in Nat \ {0} /\ b.next \in Nat /\ b.head <= b.next
      /\ Missing(b) = b.lost \ b.retrans
  BY SoundFinite DEF Sound
<1>2. Cardinality(Outstanding(b)) = b.next - b.head
  <2>1. b.head \in Int /\ b.next - 1 \in Int
    BY <1>1
  <2>2. Cardinality(b.head .. b.next - 1) =
            IF b.head > b.next - 1 THEN 0 ELSE b.next - 1 - b.head + 1
    BY <2>1, FS_Interval
  <2> QED
    BY <1>1, <2>2 DEF Outstanding
<1>3. BytesInFlight(b) \in Nat
  BY InFlight
<1>4. ASSUME b.lost = Outstanding(b) PROVE BytesInFlight(b) = Cardinality(b.retrans)
  <2>1. Cardinality(b.sacked) = 0
    BY FS_EmptySet
  <2>2. IsFiniteSet(b.retrans) /\ Cardinality(b.retrans) \in Nat
    BY SoundFinite, FS_CardinalityType
  <2> QED
    BY <1>1, <1>2, <1>4, <2>1, <2>2 DEF BytesInFlight
<1> QED
  BY <1>1, <1>2, <1>3, <1>4

\* What a window leaves to be sent.
LEMMA AvailableBelow ==
    ASSUME NEW b, Sound(b), b.sacked = {}, NEW w \in Nat, NEW c \in Nat
    PROVE  /\ AvailableWindow(b, w, c) \in Nat
           /\ AvailableWindow(b, w, c) <= w /\ AvailableWindow(b, w, c) <= c
           /\ BytesInFlight(b) = 0 =>
                  AvailableWindow(b, w, c) = IF w <= c THEN w ELSE c
           /\ BytesInFlight(b) >= c => AvailableWindow(b, w, c) = 0
<1> DEFINE win == Min({w, c})
           f == BytesInFlight(b)
<1>1. win = (IF w <= c THEN w ELSE c) /\ f \in Nat
  BY MinOfTwo, OutstandingSize
<1>2. AvailableWindow(b, w, c) = IF f > win THEN 0 ELSE win - f
  BY DEF AvailableWindow
<1> HIDE DEF win, f
<1>3. win \in Nat /\ win <= w /\ win <= c
  BY <1>1
<1>4. f = 0 => AvailableWindow(b, w, c) = IF w <= c THEN w ELSE c
  BY <1>1, <1>2, <1>3
<1>5. f >= c => AvailableWindow(b, w, c) = 0
  BY <1>1, <1>2, <1>3
<1>6. /\ AvailableWindow(b, w, c) \in Nat
      /\ AvailableWindow(b, w, c) <= w /\ AvailableWindow(b, w, c) <= c
  BY <1>1, <1>2, <1>3
<1> QED
  BY <1>4, <1>5, <1>6 DEF f

\* New data is sent: n bytes, within what there is and what the window allows.
NewSent(b, w, q, y) ==
    \E n \in 1 .. SegmentSize :
        /\ b.next + n <= b.tail /\ b.next + n <= b.head + w
        /\ Sound(y.buf) /\ y.buf.sacked = {} /\ Missing(y.buf) = {}
        /\ y.buf.head = b.head /\ y.buf.next = b.next + n /\ y.buf.tail = b.tail
        /\ y.buf.lost = b.lost
        /\ y.sent = Append(q, [seq |-> b.next, size |-> n, probe |-> FALSE])

\* A turn with nothing missing sends new data within the window.
LEMMA TurnNew ==
    ASSUME NEW s, Sound(s.buf), s.buf.sacked = {}, Missing(s.buf) = {},
           NEW w \in Nat, NEW c \in Nat, MaySend(s, w, c)
    PROVE  NewSent(s.buf, w, s.sent, SendDataPacket(s, w, c))
<1> DEFINE old == s.buf
           avail == AvailableWindow(old, w, c)
           end == NextSegEnd(old, w)
           size == Min({avail, SegmentSize, end - old.next})
           x == MarkSent(old, {}, size)
           y == SendDataPacket(s, w, c)
<1>0. Sound(old) /\ old.sacked = {} /\ Missing(old) = {}
  OBVIOUS
<1>1. /\ old.head \in Nat /\ old.next \in Nat /\ old.tail \in Nat /\ SegmentSize \in Nat
      /\ SegmentSize >= 1 /\ old.head <= old.next /\ old.next <= old.tail
  BY <1>0, SoundFinite, SocketAssumption DEF Sound
<1>2. avail \in Nat /\ avail > 0
  BY <1>0, AvailableBelow DEF MaySend
<1>3. old.next < old.tail /\ old.next - old.head < w
  BY <1>0, OutstandingSize DEF MaySend, HasNextSeg
<1>4. end = Min({old.tail, old.head + w}) /\ NextSeq(old) = old.next
  BY <1>0 DEF NextSegEnd, NextSeq
<1>5. end = (IF old.tail <= old.head + w THEN old.tail ELSE old.head + w)
  <2>1. old.head + w \in Nat
    BY <1>1
  <2> QED
    BY <1>1, <1>4, <2>1, MinOfTwo
<1>6. /\ y.buf = x
      /\ y.sent = Append(s.sent, [seq |-> old.next, size |-> size, probe |-> FALSE])
  BY <1>0, <1>4 DEF SendDataPacket
<1> HIDE DEF avail, end, y
<1>7. end \in Nat /\ end <= old.tail /\ end <= old.head + w /\ old.next < end
  BY <1>1, <1>3, <1>5
<1>8. /\ size \in {avail, SegmentSize, end - old.next}
      /\ size <= avail /\ size <= SegmentSize /\ size <= end - old.next
  <2>1. end - old.next \in Nat
    BY <1>1, <1>7
  <2> QED
    BY <1>1, <1>2, <2>1, MinOfThree
<1> HIDE DEF size
<1>9. size \in 1 .. SegmentSize /\ old.next + size <= end
  BY <1>1, <1>2, <1>7, <1>8
<1>10. old.next + size <= old.tail /\ old.next + size <= old.head + w
  BY <1>1, <1>7, <1>9
<1>11. /\ Sound(x) /\ x.head = old.head /\ x.next = old.next + size /\ x.tail = old.tail
       /\ x.sacked = {} /\ x.lost = old.lost /\ x.retrans = old.retrans
  <2> DEFINE none == {}
  <2>1. size \in 0 .. old.tail - old.next
    BY <1>1, <1>9, <1>10
  <2>2. none = {} /\ old.retrans \cup none = old.retrans
    OBVIOUS
  <2>3. none \in SUBSET old.lost /\ Sound(old)
    OBVIOUS
  <2> DEFINE new == MarkSent(old, none, size)
  <2> HIDE DEF none, old, x
  <2>4. /\ Sound(new) /\ new.head = old.head /\ new.next = old.next + size
        /\ new.tail = old.tail
        /\ new.sacked = old.sacked /\ new.lost = old.lost
        /\ new.retrans = old.retrans \cup none
    BY ONLY <2>1, <2>3, MarkSentSound
  <2>5. x = new
    BY <2>2 DEF x
  <2> QED
    BY <1>0, <2>2, <2>4, <2>5
<1> HIDE DEF x, old
<1>12. Missing(x) = {}
  <2>1. Missing(x) = x.lost \ x.retrans /\ Missing(old) = old.lost \ old.retrans
    BY <1>0, <1>11, OutstandingSize
  <2> QED
    BY <1>0, <1>11, <2>1
<1>13. NewSent(old, w, s.sent, y)
  BY <1>6, <1>9, <1>10, <1>11, <1>12 DEF NewSent
<1> QED
  BY <1>13 DEF old, y

----------------------------------------------------------------------------
(* The outcomes of the loop *)

\* The first byte that is sent.
FirstSent(b) == IF Missing(b) = {} THEN b.next ELSE b.head

\* Nothing is sent, for the reason the first turn finds.
NoneSent(b, w, c, s) == s = NothingSent(b) /\ ~MaySend(NothingSent(b), w, c)

\* All that was missing is sent again, in one segment, and perhaps new data.
AllSent(b, w, s) ==
    /\ Sound(s.buf) /\ s.buf.sacked = {} /\ Missing(s.buf) = {}
    /\ s.buf.head = b.head /\ s.buf.tail = b.tail /\ s.buf.lost = b.lost
    /\ b.next <= s.buf.next /\ s.buf.next <= b.head + w
    /\ Chain(s.sent, FirstSent(b), s.buf.next)
    /\ Missing(b) # {} => End(s.sent[1]) = b.next

\* A segment of what is thought lost is sent again, which fills the window.
OneResent(b) == b.retrans = b.head .. b.head + SegmentSize - 1
PartSent(b, c, s) ==
    /\ Missing(b) # {} /\ c = SegmentSize
    /\ Sound(s.buf) /\ s.buf.sacked = {} /\ OneResent(s.buf)
    /\ s.buf.lost = Outstanding(s.buf)
    /\ s.buf.head = b.head /\ s.buf.next = b.next /\ s.buf.tail = b.tail
    /\ s.sent = <<[seq |-> b.head, size |-> SegmentSize, probe |-> FALSE]>>
    /\ b.head + SegmentSize < b.next

\* The buffers SendPendingData is called with: nothing is missing; or, after a
\* timeout, everything is, and the window is a segment; or that segment is sent.
Ready(b, w, c) ==
    \/ Missing(b) = {}
    \/ /\ b.lost = Outstanding(b) /\ c = SegmentSize
       /\ \/ b.retrans = {} /\ b.next <= b.head + w
          \/ OneResent(b)

\* With everything lost and nothing sent again, the first turn sends what is
\* missing, or a segment of it.
LEMMA TurnAgain ==
    ASSUME NEW b, Sound(b), b.sacked = {}, Missing(b) # {},
           b.lost = Outstanding(b), b.retrans = {},
           NEW w \in Nat, b.next <= b.head + w, MaySend(NothingSent(b), w, SegmentSize)
    PROVE  LET s == SendDataPacket(NothingSent(b), w, SegmentSize)
           IN  s.buf \in TxBuffers /\ (AllSent(b, w, s) \/ PartSent(b, SegmentSize, s))
<1> DEFINE avail == AvailableWindow(b, w, SegmentSize)
           size == Min({avail, SegmentSize, b.next - b.head})
           again == b.head .. b.head + size - 1
           s == SendDataPacket(NothingSent(b), w, SegmentSize)
           m == MarkSent(b, again, 0)
           d == [seq |-> b.head, size |-> size, probe |-> FALSE]
<1>1. /\ b.head \in Nat /\ b.next \in Nat /\ b.tail \in Nat /\ SegmentSize \in Nat
      /\ SegmentSize >= 1 /\ b.head <= b.next /\ b.next <= b.tail
  BY SoundFinite, SocketAssumption DEF Sound
<1>2. Missing(b) = b.head .. b.next - 1 /\ b.head < b.next
  <2>1. Missing(b) = b.head .. b.next - 1
    BY OutstandingSize DEF Outstanding
  <2> QED
    BY <1>1, <2>1
<1>3. NextSeq(b) = b.head
  <2>1. Min(Missing(b)) \in Missing(b) /\ \A y \in Missing(b) : Min(Missing(b)) <= y
    <3>1. Missing(b) \in SUBSET Nat
      BY <1>1, <1>2
    <3> QED
      BY <3>1, MinOfNaturals
  <2>2. b.head \in Missing(b)
    BY <1>1, <1>2
  <2>3. Min(Missing(b)) = b.head
    BY <1>1, <1>2, <2>1, <2>2
  <2> QED
    BY <2>3 DEF NextSeq
<1>4. NextSegEnd(b, w) = b.next
  <2>1. (b.head .. b.next) \ Missing(b) = {b.next}
    BY <1>1, <1>2
  <2>2. Min({b.next}) = b.next
    <3>1. {b.next} \in SUBSET Nat /\ {b.next} # {}
      BY <1>1
    <3> QED
      BY <3>1, MinOfNaturals
  <2> QED
    BY <1>3, <2>1, <2>2 DEF NextSegEnd
<1>5. s = [buf |-> m, sent |-> Append(<<>>, d)]
  BY <1>3, <1>4 DEF SendDataPacket, NothingSent
<1>6. BytesInFlight(b) = 0
  BY OutstandingSize, FS_EmptySet
<1>7. avail = (IF w <= SegmentSize THEN w ELSE SegmentSize) /\ avail > 0
  BY <1>1, <1>6, AvailableBelow DEF MaySend, NothingSent
<1> HIDE DEF avail
<1>8. /\ size \in {avail, SegmentSize, b.next - b.head}
      /\ size <= avail /\ size <= SegmentSize /\ size <= b.next - b.head
  <2>1. b.next - b.head \in Nat /\ avail \in Nat
    BY <1>1, <1>7
  <2> QED
    BY <1>1, <2>1, MinOfThree
<1> HIDE DEF size, s
<1>9. /\ size \in 1 .. SegmentSize /\ b.head + size <= b.next
      /\ b.head + size = b.next \/ (size = SegmentSize /\ b.head + SegmentSize < b.next)
  BY <1>1, <1>2, <1>7, <1>8
<1>10. again \in SUBSET b.lost
  <2>1. again \subseteq b.head .. b.next - 1
    BY <1>1, <1>9
  <2> QED
    BY <2>1 DEF Outstanding
<1> HIDE DEF again
<1>11. /\ Sound(m) /\ m.head = b.head /\ m.next = b.next /\ m.tail = b.tail
       /\ m.sacked = {} /\ m.lost = b.lost /\ m.retrans = again
  <2>1. 0 \in 0 .. b.tail - b.next /\ b.next + 0 = b.next
    BY <1>1
  <2>2. b.retrans \cup again = again
    OBVIOUS
  <2>3. /\ Sound(m) /\ m.head = b.head /\ m.next = b.next + 0 /\ m.tail = b.tail
        /\ m.sacked = b.sacked /\ m.lost = b.lost /\ m.retrans = b.retrans \cup again
    BY <1>10, <2>1, MarkSentSound, ZenonT(60)
  <2> HIDE DEF m
  <2> QED
    BY <2>1, <2>2, <2>3
<1> HIDE DEF m
<1>12. s.buf = m /\ s.sent = <<[seq |-> b.head, size |-> size, probe |-> FALSE]>>
  <2> HIDE DEF d
  <2>1. Append(<<>>, d) = <<d>>
    OBVIOUS
  <2>2. s.buf = m /\ s.sent = <<d>>
    BY <1>5, <2>1
  <2> QED
    BY <2>2 DEF d
<1> HIDE DEF d
<1>13. Chain(s.sent, b.head, b.head + size) /\ s.sent[1].seq = b.head
       /\ End(s.sent[1]) = b.head + size
  <2>1. Chain(s.sent, b.head, b.head + size)
    BY <1>1, <1>9, <1>12, ChainOne
  <2>2. End(s.sent[1]) = b.head + size /\ s.sent[1].seq = b.head
    BY <1>12 DEF End
  <2> QED
    BY <2>1, <2>2
<1>14. m \in TxBuffers
  BY <1>11 DEF Sound
<1>15. CASE b.head + size = b.next
  <2>1. again = b.head .. b.next - 1
    BY <1>1, <1>9, <1>15 DEF again
  <2>2. Missing(m) = {}
    BY <1>11, <2>1, OutstandingSize DEF Outstanding
  <2>3. b.next <= b.next
    BY <1>1
  <2>4. AllSent(b, w, s)
    BY <1>11, <1>12, <1>13, <1>15, <2>2, <2>3 DEF AllSent, FirstSent
  <2> QED
    BY <1>12, <1>14, <2>4 DEF s
<1>16. CASE size = SegmentSize /\ b.head + SegmentSize < b.next
  <2>1. m.retrans = m.head .. m.head + SegmentSize - 1
    BY <1>11, <1>16 DEF again
  <2>2. m.lost = Outstanding(m)
    BY <1>11 DEF Outstanding
  <2>3. PartSent(b, SegmentSize, s)
    BY <1>11, <1>12, <1>16, <2>1, <2>2 DEF PartSent, OneResent
  <2> QED
    BY <1>12, <1>14, <2>3 DEF s
<1> QED
  BY <1>9, <1>15, <1>16

\* A segment sent again fills a window of a segment.
LEMMA NoTurn ==
    ASSUME NEW s, Sound(s.buf), s.buf.sacked = {}, s.buf.lost = Outstanding(s.buf),
           OneResent(s.buf), NEW w \in Nat
    PROVE  ~MaySend(s, w, SegmentSize)
<1> DEFINE b == s.buf
<1>1. b.head \in Nat /\ SegmentSize \in Nat /\ SegmentSize >= 1
  BY SoundFinite, SocketAssumption
<1>2. Cardinality(b.retrans) = SegmentSize
  <2> DEFINE h == b.head
             z == b.head + SegmentSize - 1
  <2>1. h \in Int /\ z \in Int /\ z = h + SegmentSize - 1
    BY <1>1
  <2>2. b.retrans = h .. z
    BY DEF OneResent
  <2> HIDE DEF h, z
  <2>3. Cardinality(h .. z) = IF h > z THEN 0 ELSE z - h + 1
    BY <2>1, FS_Interval
  <2> QED
    BY <1>1, <2>1, <2>2, <2>3
<1>3. BytesInFlight(b) = SegmentSize
  BY <1>2, OutstandingSize
<1>4. BytesInFlight(b) >= SegmentSize
  BY <1>1, <1>3
<1>5. AvailableWindow(b, w, SegmentSize) = 0
  BY <1>1, <1>4, AvailableBelow
<1> QED
  BY <1>5 DEF MaySend

\* A further turn keeps what is said of the outcome.
LEMMA TurnMore ==
    ASSUME NEW b, Sound(b), NEW w \in Nat, NEW c \in Nat,
           NEW s, AllSent(b, w, s), MaySend(s, w, c)
    PROVE  LET t == SendDataPacket(s, w, c)
           IN  AllSent(b, w, t)
<1> DEFINE t == SendDataPacket(s, w, c)
           m == s.buf
           x == t.buf
<1>1. /\ Sound(m) /\ m.sacked = {} /\ Missing(m) = {}
      /\ m.head = b.head /\ m.tail = b.tail /\ m.lost = b.lost
      /\ b.next <= m.next /\ m.next <= b.head + w
      /\ Chain(s.sent, FirstSent(b), m.next)
  BY DEF AllSent
<1>2. NewSent(m, w, s.sent, t)
  BY <1>1, TurnNew
<1>3. PICK n \in 1 .. SegmentSize :
          /\ m.next + n <= m.tail /\ m.next + n <= m.head + w
          /\ Sound(x) /\ x.sacked = {} /\ Missing(x) = {}
          /\ x.head = m.head /\ x.next = m.next + n /\ x.tail = m.tail /\ x.lost = m.lost
          /\ t.sent = Append(s.sent, [seq |-> m.next, size |-> n, probe |-> FALSE])
  <2> HIDE DEF m, t
  <2> QED
    BY <1>2 DEF NewSent
<1> DEFINE first == FirstSent(b)
           e == m.next
           end == m.next + n
           d == [seq |-> e, size |-> n, probe |-> FALSE]
           sent == s.sent
           last == <<d>>
<1>4. /\ e \in Nat /\ n \in Nat /\ n >= 1 /\ first \in Nat /\ b.next \in Nat
  BY <1>1, SoundFinite, SocketAssumption DEF FirstSent
<1>5. t.sent = sent \o last
  <2>1. s.sent \in Seq(Segments)
    BY <1>1 DEF Chain
  <2> HIDE DEF d
  <2>2. Append(s.sent, d) = s.sent \o <<d>>
    BY <2>1
  <2> QED
    BY <1>3, <2>2 DEF d
<1>6. Chain(last, e, end)
  <2> HIDE DEF e
  <2> QED
    BY <1>4, ChainOne DEF e
<1>7. end \in Nat /\ b.next <= end /\ end <= b.head + w
  BY <1>1, <1>3, <1>4
<1>8. Chain(sent, first, e)
  BY <1>1
<1> HIDE DEF d, end, x, m, t, sent, last, e, first
<1>9. Chain(t.sent, first, end) /\ t.sent[1] = sent[1]
  <2>1. end \in Nat
    BY <1>7
  <2>2. Chain(sent \o last, first, end)
    BY <1>4, <1>6, <1>8, <2>1, ChainConcat
  <2>3. (sent \o last)[1] = sent[1]
    BY <1>6, <1>8 DEF Chain
  <2> QED
    BY <1>5, <2>2, <2>3
<1>10. Missing(b) # {} => End(t.sent[1]) = b.next
  BY <1>9 DEF AllSent, sent
<1>11. x.next = end /\ x.head = b.head /\ x.tail = b.tail /\ x.lost = b.lost
  BY <1>1, <1>3 DEF end, e
<1> QED
  BY <1>3, <1>7, <1>9, <1>10, <1>11 DEF AllSent, t, x, first

\* Nothing, all or part is sent.
LEMMA LoopOutcome ==
    ASSUME NEW b, Sound(b), b.sacked = {}, NEW w \in Nat, NEW c \in Nat, Ready(b, w, c),
           NEW s \in Loop(b, w, c)
    PROVE  NoneSent(b, w, c, s) \/ AllSent(b, w, s) \/ PartSent(b, c, s)
<1> DEFINE U == [buf : TxBuffers, sent : Seq(Segments)]
           Good(x) == NoneSent(b, w, c, x) \/ AllSent(b, w, x) \/ PartSent(b, c, x)
           S == {x \in U : Good(x)}
           z == NothingSent(b)
<1>1. /\ b.head \in Nat /\ b.next \in Nat /\ b.tail \in Nat /\ SegmentSize \in Nat
      /\ SegmentSize >= 1 /\ b \in TxBuffers
  BY SoundFinite, SocketAssumption DEF Sound
<1>2. z \in U
  BY <1>1 DEF NothingSent
<1>3. ASSUME NEW x, NEW y, MaySend(x, w, c), y = SendDataPacket(x, w, c), AllSent(b, w, y)
      PROVE  y \in U
  <2>1. y.buf \in TxBuffers /\ y.sent \in Seq(Segments)
    BY <1>3 DEF AllSent, Sound, Chain
  <2>2. y = [buf |-> y.buf, sent |-> y.sent]
    BY <1>3 DEF SendDataPacket
  <2> QED
    BY <2>1, <2>2
<1>4. ASSUME NEW y, y = SendDataPacket(z, w, c), PartSent(b, c, y)
      PROVE  y \in U
  <2>1. y.buf \in TxBuffers
    BY <1>4 DEF PartSent, Sound
  <2>2. y.sent \in Seq(Segments)
    <3> DEFINE d == [seq |-> b.head, size |-> SegmentSize, probe |-> FALSE]
    <3>1. d \in Segments
      BY <1>1 DEF Segments
    <3> HIDE DEF d
    <3>2. y.sent = <<d>>
      BY <1>4 DEF PartSent, d
    <3> QED
      BY <3>1, <3>2
  <2>3. y = [buf |-> y.buf, sent |-> y.sent]
    BY <1>4 DEF SendDataPacket
  <2> QED
    BY <2>1, <2>2, <2>3
<1> HIDE DEF U
<1>5. Turn(z, w, c) \in S
  <2>1. CASE ~MaySend(z, w, c)
    <3>1. Turn(z, w, c) = z /\ NoneSent(b, w, c, z)
      BY <2>1 DEF Turn, NoneSent
    <3> HIDE DEF z
    <3> QED
      BY <1>2, <3>1
  <2>2. CASE MaySend(z, w, c)
    <3> DEFINE y == SendDataPacket(z, w, c)
    <3>1. Turn(z, w, c) = y
      BY <2>2 DEF Turn
    <3>2. CASE Missing(b) = {}
      <4>1. z.buf = b /\ z.sent = <<>>
        BY DEF NothingSent
      <4>2. NewSent(b, w, <<>>, y)
        <5>1. NewSent(z.buf, w, z.sent, y)
          <6> HIDE DEF z
          <6> QED
            BY <2>2, <3>2, <4>1, TurnNew
        <5> QED
          BY <4>1, <5>1
      <4> DEFINE x == y.buf
      <4> HIDE DEF y
      <4>3. PICK n \in 1 .. SegmentSize :
                /\ b.next + n <= b.tail /\ b.next + n <= b.head + w
                /\ Sound(x) /\ x.sacked = {} /\ Missing(x) = {}
                /\ x.head = b.head /\ x.next = b.next + n /\ x.tail = b.tail
                /\ x.lost = b.lost
                /\ y.sent = Append(<<>>, [seq |-> b.next, size |-> n, probe |-> FALSE])
        BY <4>2 DEF NewSent
      <4> DEFINE d == [seq |-> b.next, size |-> n, probe |-> FALSE]
                 e == b.next + n
      <4>4. n \in Nat /\ n >= 1 /\ b.next <= e
        BY <1>1
      <4>5. y.sent = <<d>>
        <5> HIDE DEF d
        <5>1. Append(<<>>, d) = <<d>>
          OBVIOUS
        <5> QED
          BY <4>3, <5>1 DEF d
      <4>6. Chain(<<d>>, b.next, e)
        BY <1>1, ChainOne
      <4>7. FirstSent(b) = b.next
        BY <3>2 DEF FirstSent
      <4> HIDE DEF d, e, x
      <4>8. AllSent(b, w, y)
        BY <3>2, <4>3, <4>4, <4>5, <4>6, <4>7 DEF AllSent, e, x
      <4>9. y \in U
        BY <1>3, <2>2, <4>8 DEF y
      <4> QED
        BY <3>1, <4>8, <4>9
    <3>3. CASE Missing(b) # {}
      <4>1. b.lost = Outstanding(b) /\ c = SegmentSize
        BY <3>3 DEF Ready
      <4>2. ~OneResent(b)
        <5>1. OneResent(b) => ~MaySend(z, w, SegmentSize)
          <6>1. z.buf = b
            BY DEF NothingSent
          <6> HIDE DEF z
          <6> QED
            BY <4>1, <6>1, NoTurn
        <5> QED
          BY <2>2, <4>1, <5>1
      <4>3. b.retrans = {} /\ b.next <= b.head + w
        BY <3>3, <4>2 DEF Ready
      <4>4. AllSent(b, w, y) \/ PartSent(b, c, y)
        BY <2>2, <3>3, <4>1, <4>3, TurnAgain
      <4>5. y \in U
        BY <1>3, <1>4, <2>2, <4>4
      <4> HIDE DEF y
      <4> QED
        BY <3>1, <4>4, <4>5
    <3> QED
      BY <3>2, <3>3
  <2> QED
    BY <2>1, <2>2
<1>6. ASSUME NEW x \in S PROVE Turn(x, w, c) \in S
  <2>1. CASE ~MaySend(x, w, c)
    BY <2>1 DEF Turn
  <2>2. CASE MaySend(x, w, c)
    <3>1. ~NoneSent(b, w, c, x)
      BY <2>2 DEF NoneSent
    <3>2. ~PartSent(b, c, x)
      BY <2>2, NoTurn DEF PartSent
    <3>3. AllSent(b, w, x)
      BY <3>1, <3>2
    <3> DEFINE y == SendDataPacket(x, w, c)
    <3>4. AllSent(b, w, y)
      BY <2>2, <3>3, TurnMore
    <3>5. y \in U
      BY <1>3, <2>2, <3>4
    <3>6. Turn(x, w, c) = y
      BY <2>2 DEF Turn
    <3> HIDE DEF y
    <3> QED
      BY <3>4, <3>5, <3>6
  <2> QED
    BY <2>1, <2>2
<1>7. Loop(b, w, c) \subseteq S
  <2> HIDE DEF S
  <2> QED
    BY <1>5, <1>6, LoopInduction
<1> QED
  BY <1>7

----------------------------------------------------------------------------
(* The inductive invariant: every ACK under way promises the room of its    *)
(* time, which reading and receiving can only have enlarged since.          *)

Promised(a) == a.ack + a.wnd <= MaxRxSequence

RoomInv ==
    /\ rcvRead \in Nat /\ rcvNext \in Nat
    /\ rcvRead <= rcvNext /\ rcvNext <= MaxRxSequence
    /\ highRxAckMark \in Nat /\ rWnd \in Nat
    /\ acks \in Seq([ack : Nat, wnd : Nat])
    /\ \A i \in DOMAIN acks : Promised(acks[i])
    /\ RoomBelieved

\* The state RoomInv is about.
roomVars == <<rcvRead, rcvNext, highRxAckMark, rWnd, acks>>

\* It holds at the start, when nothing is under way.
LEMMA RoomInit == Init => RoomInv
<1> SUFFICES ASSUME Init PROVE RoomInv
  OBVIOUS
<1>1. RcvBufSize \in Nat \ {0}
  BY SocketAssumption
<1>2. acks = <<>> /\ acks \in Seq([ack : Nat, wnd : Nat])
  BY DEF Init
<1>3. QED
  BY <1>1, <1>2 DEF Init, RoomInv, RoomBelieved, MaxRxSequence

\* The ACK sent now promises what there is, and nothing else changes for the
\* worse when data is taken.
LEMMA RoomAckNow ==
    ASSUME RoomInv, AckNow, rcvNext' \in Nat, rcvNext <= rcvNext',
           rcvNext' <= MaxRxSequence, UNCHANGED <<rcvRead, highRxAckMark, rWnd>>
    PROVE  RoomInv'
<1> DEFINE new == [ack |-> rcvNext', wnd |-> MaxRxSequence - rcvNext']
<1>1. RcvBufSize \in Nat \ {0}
  BY SocketAssumption
<1>2. MaxRxSequence \in Nat /\ MaxRxSequence' = MaxRxSequence
  BY <1>1 DEF RoomInv, MaxRxSequence
<1>3. acks' = Append(acks, new)
  BY DEF AckNow, AdvertisedWindowSize
<1>4. new \in [ack : Nat, wnd : Nat] /\ Promised(new)
  <2>1. \A m, n \in Nat : n <= m => m - n \in Nat /\ n + (m - n) = m
    OBVIOUS
  <2>2. MaxRxSequence - rcvNext' \in Nat /\ rcvNext' + (MaxRxSequence - rcvNext') = MaxRxSequence
    BY <1>2, <2>1, rcvNext' \in Nat, rcvNext' <= MaxRxSequence, Zenon
  <2>3. new.ack = rcvNext' /\ new.wnd = MaxRxSequence - rcvNext'
    OBVIOUS
  <2>4. new.ack + new.wnd <= MaxRxSequence
    <3>1. \A m \in Nat : m <= m
      OBVIOUS
    <3>2. new.ack + new.wnd = MaxRxSequence
      BY <2>2, <2>3, Zenon
    <3>3. QED
      BY <3>1, <3>2, <1>2, Zenon
  <2>5. new \in [ack : Nat, wnd : Nat]
    BY <2>2, rcvNext' \in Nat, Zenon
  <2>6. QED
    BY <2>4, <2>5 DEF Promised
<1>5. acks' \in Seq([ack : Nat, wnd : Nat])
  BY <1>3, <1>4 DEF RoomInv
<1>6. ASSUME NEW i \in DOMAIN acks' PROVE Promised(acks'[i])
  <2>1. i \in 1 .. Len(acks) + 1 /\ Len(acks) \in Nat
    BY <1>3, <1>4 DEF RoomInv
  <2>2. CASE i = Len(acks) + 1
    <3>1. acks'[i] = new
      BY <2>1, <2>2, <1>3, <1>4 DEF RoomInv
    <3>2. QED
      BY <3>1, <1>4
  <2>3. CASE i \in 1 .. Len(acks)
    <3>1. acks'[i] = acks[i] /\ i \in DOMAIN acks
      BY <2>1, <2>3, <1>3, <1>4 DEF RoomInv
    <3>2. QED
      BY <3>1 DEF RoomInv
  <2>4. QED
    BY <2>1, <2>2, <2>3
<1>7. \A i \in DOMAIN acks' : acks'[i].ack + acks'[i].wnd <= MaxRxSequence'
  BY <1>2, <1>6 DEF Promised
<1>8. QED
  BY <1>2, <1>5, <1>7 DEF RoomInv, RoomBelieved, Promised

\* What the receive buffer takes ends within its room.
LEMMA TakenFits ==
    ASSUME RoomInv, NEW d
    PROVE  /\ Cardinality(Taken(d)) \in Nat
           /\ rcvNext + Cardinality(Taken(d)) <= MaxRxSequence
<1> DEFINE room == rcvNext .. MaxRxSequence - 1
<1>1. MaxRxSequence \in Nat /\ rcvNext \in Nat /\ rcvNext <= MaxRxSequence
  BY SocketAssumption DEF RoomInv, MaxRxSequence
<1>2. IsFiniteSet(room) /\ Cardinality(room) = MaxRxSequence - rcvNext
  <2>1. rcvNext \in Int /\ MaxRxSequence - 1 \in Int
    BY <1>1
  <2>2. /\ IsFiniteSet(rcvNext .. MaxRxSequence - 1)
        /\ Cardinality(rcvNext .. MaxRxSequence - 1) =
              IF rcvNext > MaxRxSequence - 1 THEN 0
              ELSE MaxRxSequence - 1 - rcvNext + 1
    BY <2>1, FS_Interval
  <2>3. QED
    BY <1>1, <2>2
<1>3. Taken(d) \in SUBSET room
  BY DEF Taken
<1>4. IsFiniteSet(Taken(d)) /\ Cardinality(Taken(d)) <= Cardinality(room)
  BY <1>2, <1>3, FS_Subset
<1>5. Cardinality(Taken(d)) \in Nat
  BY <1>4, FS_CardinalityType
<1>6. QED
  BY <1>1, <1>2, <1>4, <1>5

\* Steps that leave the windows, the ACKs and the receive buffer alone.
LEMMA RoomFrame ==
    ASSUME RoomInv, UNCHANGED roomVars
    PROVE  RoomInv'
  BY DEF roomVars, RoomInv, RoomBelieved, Promised, MaxRxSequence

\* An ACK arrives: the window it sets is the one it promised.
LEMMA RoomRecvAck ==
    ASSUME RoomInv, NEW i \in DOMAIN acks, RecvAck(i)
    PROVE  RoomInv'
<1> DEFINE a == acks[i]
<1>1. /\ a \in [ack : Nat, wnd : Nat] /\ Promised(a)
  BY ElementOfSeq, LenProperties DEF RoomInv
<1>2. /\ RemoveAt(acks, i) \in Seq([ack : Nat, wnd : Nat])
      /\ \A j \in DOMAIN RemoveAt(acks, i) : Promised(RemoveAt(acks, i)[j])
  <2>1. acks \in Seq([ack : Nat, wnd : Nat])
    BY DEF RoomInv
  <2>2. /\ RemoveAt(acks, i) \in Seq([ack : Nat, wnd : Nat])
        /\ \A j \in DOMAIN RemoveAt(acks, i) :
               \E k \in DOMAIN acks : RemoveAt(acks, i)[j] = acks[k]
    BY <2>1, RemoveAtRange
  <2>3. \A k \in DOMAIN acks : Promised(acks[k])
    BY DEF RoomInv
  <2>4. QED
    BY <2>2, <2>3, Zenon
<1>3. acks' = RemoveAt(acks, i) /\ UNCHANGED <<rcvNext, rcvRead>>
  BY DEF RecvAck, receiver
<1>4. /\ acks' \in Seq([ack : Nat, wnd : Nat])
      /\ \A j \in DOMAIN acks' : Promised(acks'[j])
  BY <1>2, <1>3, Zenon
<1>5. MaxRxSequence' = MaxRxSequence
  BY <1>3 DEF MaxRxSequence
<1>6. highRxAckMark' \in Nat /\ rWnd' \in Nat /\ highRxAckMark' + rWnd' <= MaxRxSequence
  <2>1. highRxAckMark \in Nat /\ rWnd \in Nat /\ highRxAckMark + rWnd <= MaxRxSequence
    BY DEF RoomInv, RoomBelieved
  <2>2. CASE status # "up"
    <3>1. UNCHANGED <<highRxAckMark, rWnd>>
      BY <2>2 DEF RecvAck, sender, peerWindow
    <3>2. QED
      BY <3>1, <2>1
  <2>3. CASE status = "up"
    <3>1. rWnd' = UpdateWindowSize(a) /\ highRxAckMark' = Max({a.ack, highRxAckMark})
      BY <2>3 DEF RecvAck
    <3>2. a.ack \in Nat /\ a.wnd \in Nat /\ a.ack + a.wnd <= MaxRxSequence
      BY <1>1 DEF Promised
    <3>3. highRxAckMark' = IF a.ack >= highRxAckMark THEN a.ack ELSE highRxAckMark
      BY <3>1, <3>2, <2>1, MaxOfTwo
    <3>4. rWnd' = IF a.ack > highRxAckMark \/ (a.ack = highRxAckMark /\ a.wnd > rWnd)
                  THEN a.wnd ELSE rWnd
      BY <3>1 DEF UpdateWindowSize
    <3>5. CASE a.ack > highRxAckMark
      BY <3>2, <3>3, <3>4, <3>5, <2>1
    <3>6. CASE a.ack = highRxAckMark
      BY <3>2, <3>3, <3>4, <3>6, <2>1
    <3>7. CASE a.ack < highRxAckMark
      BY <3>2, <3>3, <3>4, <3>7, <2>1
    <3>8. QED
      BY <3>2, <3>5, <3>6, <3>7, <2>1
  <2>4. QED
    BY <2>2, <2>3
<1>7. QED
  BY <1>3, <1>4, <1>5, <1>6 DEF RoomInv, RoomBelieved, Promised

\* An ACK is lost.
LEMMA RoomLoseAck ==
    ASSUME RoomInv, NEW i \in DOMAIN acks, LoseAck(i)
    PROVE  RoomInv'
<1>1. acks \in Seq([ack : Nat, wnd : Nat]) /\ \A k \in DOMAIN acks : Promised(acks[k])
  BY DEF RoomInv
<1>2. /\ acks' = RemoveAt(acks, i)
      /\ UNCHANGED <<rcvRead, rcvNext, highRxAckMark, rWnd>>
  BY DEF LoseAck, sender, receiver, peerWindow
<1>3. /\ acks' \in Seq([ack : Nat, wnd : Nat])
      /\ \A j \in DOMAIN acks' : \E k \in DOMAIN acks : acks'[j] = acks[k]
  BY <1>1, <1>2, RemoveAtRange
<1>4. \A j \in DOMAIN acks' : Promised(acks'[j])
  BY <1>1, <1>3, Zenon
<1>5. QED
  BY <1>2, <1>3, <1>4 DEF RoomInv, RoomBelieved, Promised, MaxRxSequence

\* The receiver takes data, or acknowledges what it has.
LEMMA RoomReceiver ==
    ASSUME RoomInv, RecvData \/ DelAckTimeout
    PROVE  RoomInv'
<1>1. rcvNext \in Nat /\ rcvNext <= MaxRxSequence
  BY DEF RoomInv
<1>2. CASE RecvData
  <2> DEFINE n == Cardinality(Taken(Head(data)))
  <2>1. n \in Nat /\ rcvNext + n <= MaxRxSequence
    BY TakenFits
  <2>2. rcvNext' = rcvNext + n /\ UNCHANGED <<rcvRead, highRxAckMark, rWnd>>
    BY <1>2 DEF RecvData, sender, peerWindow
  <2> HIDE DEF n
  <2>3. rcvNext' \in Nat /\ rcvNext <= rcvNext' /\ rcvNext' <= MaxRxSequence
    BY <1>1, <2>1, <2>2
  <2>4. UNCHANGED acks \/ AckNow
    BY <1>2 DEF RecvData
  <2>5. CASE UNCHANGED acks
    BY <2>2, <2>3, <2>5 DEF RoomInv, RoomBelieved, Promised, MaxRxSequence
  <2>6. CASE AckNow
    BY <2>2, <2>3, <2>6, RoomAckNow
  <2>7. QED
    BY <2>4, <2>5, <2>6
<1>3. CASE DelAckTimeout
  <2>1. AckNow /\ UNCHANGED <<rcvNext, rcvRead, highRxAckMark, rWnd>>
    BY <1>3 DEF DelAckTimeout, sender, peerWindow
  <2>2. rcvNext' \in Nat /\ rcvNext <= rcvNext' /\ rcvNext' <= MaxRxSequence
    BY <1>1, <2>1
  <2>3. QED
    BY <2>1, <2>2, RoomAckNow
<1>4. QED
  BY <1>2, <1>3

\* The application reads: there is more room than was promised.
LEMMA RoomRecv ==
    ASSUME RoomInv, NEW n \in 1 .. RcvBufSize, Recv(n)
    PROVE  RoomInv'
<1>1. RcvBufSize \in Nat /\ n \in Nat
  BY SocketAssumption
<1>2. /\ n <= rcvNext - rcvRead /\ rcvRead' = rcvRead + n
      /\ UNCHANGED <<rcvNext, highRxAckMark, rWnd, acks>>
  BY DEF Recv, sender, peerWindow
<1>3. rcvRead \in Nat /\ rcvNext \in Nat /\ highRxAckMark \in Nat /\ rWnd \in Nat
  BY DEF RoomInv
<1>4. MaxRxSequence' = MaxRxSequence + n /\ MaxRxSequence \in Nat
  BY <1>1, <1>2, <1>3 DEF MaxRxSequence
<1>5. \A i \in DOMAIN acks : acks[i].ack \in Nat /\ acks[i].wnd \in Nat
  <2>1. acks \in Seq([ack : Nat, wnd : Nat])
    BY DEF RoomInv
  <2>2. \A i \in DOMAIN acks : acks[i] \in [ack : Nat, wnd : Nat]
    BY <2>1, ElementOfSeq, LenProperties
  <2>3. QED
    BY <2>2
<1>6. ASSUME NEW i \in DOMAIN acks' PROVE Promised(acks[i])'
  <2>1. i \in DOMAIN acks /\ acks[i]' = acks[i]
    BY <1>2
  <2>2. acks[i].ack + acks[i].wnd <= MaxRxSequence
    BY <2>1 DEF RoomInv, Promised
  <2>3. acks[i].ack + acks[i].wnd <= MaxRxSequence + n
    BY <2>1, <2>2, <1>1, <1>4, <1>5
  <2>4. QED
    BY <2>1, <2>3, <1>4 DEF Promised
<1>7. rcvRead' \in Nat /\ rcvRead' <= rcvNext' /\ rcvNext' <= MaxRxSequence'
  BY <1>1, <1>2, <1>3, <1>4 DEF RoomInv
<1>8. (highRxAckMark + rWnd <= MaxRxSequence)'
  BY <1>1, <1>2, <1>3, <1>4 DEF RoomInv, RoomBelieved
<1>9. QED
  BY <1>2, <1>6, <1>7, <1>8 DEF RoomInv, RoomBelieved

\* One step per action of the specification.
LEMMA RoomStep == RoomInv /\ [Next]_vars => RoomInv'
<1> SUFFICES ASSUME RoomInv, [Next]_vars PROVE RoomInv'
  OBVIOUS
<1>1. ASSUME NEW n \in Chunks, Send(n) PROVE RoomInv'
  BY <1>1, RoomFrame DEF Send, roomVars, peerWindow, receiver
<1>2. CASE SendPendingDataEvent
  BY <1>2, RoomFrame DEF SendPendingDataEvent, roomVars, peerWindow, receiver
<1>3. ASSUME NEW i \in DOMAIN acks, RecvAck(i) PROVE RoomInv'
  BY <1>3, RoomRecvAck
<1>4. CASE ReTxTimeout
  BY <1>4, RoomFrame DEF ReTxTimeout, roomVars, peerWindow, receiver
<1>5. CASE ReTxGiveUp
  BY <1>5, RoomFrame DEF ReTxGiveUp, roomVars, peerWindow, receiver
<1>6. CASE PersistTimeout
  BY <1>6, RoomFrame DEF PersistTimeout, roomVars, peerWindow, receiver
<1>7. CASE PersistWithoutData
  BY <1>7, RoomFrame DEF PersistWithoutData, roomVars, peerWindow, receiver
<1>8. CASE RecvData \/ DelAckTimeout
  BY <1>8, RoomReceiver
<1>9. ASSUME NEW n \in 1 .. RcvBufSize, Recv(n) PROVE RoomInv'
  BY <1>9, RoomRecv
<1>10. ASSUME NEW i \in DOMAIN acks, LoseAck(i) PROVE RoomInv'
  BY <1>10, RoomLoseAck
<1>11. ASSUME NEW i \in DOMAIN data, LoseProbe(i) PROVE RoomInv'
  BY <1>11, RoomFrame DEF LoseProbe, roomVars, sender, peerWindow, receiver
<1>12. CASE UNCHANGED vars
  BY <1>12, RoomFrame DEF vars, roomVars, sender, peerWindow, receiver
<1>13. QED
  BY <1>1, <1>2, <1>3, <1>4, <1>5, <1>6, <1>7, <1>8, <1>9, <1>10, <1>11, <1>12 DEF Next

\* Whatever ACKs are lost or overtaken, and however slowly the peer reads, the
\* sender never believes in more room than the receiver has (UpdateWindowSize,
\* AdvertisedWindowSize): the first part of WithinOffer.
THEOREM RoomSafe == Spec => []RoomBelieved
<1>1. RoomInv => RoomBelieved
  BY DEF RoomInv
<1>2. QED
  BY RoomInit, RoomStep, <1>1, PTL DEF Spec

----------------------------------------------------------------------------
(* The persist timer *)

ProbeInv ==
    /\ persistRunning \in BOOLEAN
    /\ ZeroWindowProbed

\* The window is open at the start.
LEMMA ProbeInit == Init => ProbeInv
  BY SocketAssumption DEF Init, ProbeInv, ZeroWindowProbed

\* Steps that leave the window and the persist timer alone.
LEMMA ProbeFrame ==
    ASSUME ProbeInv, UNCHANGED <<rWnd, persistRunning, status>>
    PROVE  ProbeInv'
  BY DEF ProbeInv, ZeroWindowProbed

\* The two tests of DoForwardUp, before and after the segment is processed,
\* leave the persist timer running exactly if the window w is closed.
LEMMA PersistMatchesWindow ==
    ASSUME ProbeInv, NEW w
    PROVE  PersistAfter(w) \in BOOLEAN /\ (w = 0 <=> PersistAfter(w))
  BY DEF ProbeInv, PersistAfter, EntersPersist, LeavesPersist

\* Every step keeps the window and the persist timer together.
LEMMA ProbeStep == ProbeInv /\ [Next]_vars => ProbeInv'
<1> SUFFICES ASSUME ProbeInv, [Next]_vars PROVE ProbeInv'
  OBVIOUS
<1>1. ASSUME NEW n \in Chunks, Send(n) PROVE ProbeInv'
  BY <1>1, ProbeFrame DEF Send, peerWindow
<1>2. CASE SendPendingDataEvent
  BY <1>2, ProbeFrame DEF SendPendingDataEvent, peerWindow
<1>3. ASSUME NEW i \in DOMAIN acks, RecvAck(i) PROVE ProbeInv'
  <2>1. CASE status # "up"
    BY <1>3, <2>1, ProbeFrame DEF RecvAck, sender, timers, peerWindow
  <2>2. CASE status = "up"
    <3>1. persistRunning' = PersistAfter(rWnd')
      BY <1>3, <2>2 DEF RecvAck
    <3>2. QED
      BY <3>1, PersistMatchesWindow DEF ProbeInv, ZeroWindowProbed
  <2>3. QED
    BY <2>1, <2>2
<1>4. CASE ReTxTimeout
  BY <1>4, ProbeFrame DEF ReTxTimeout, peerWindow
<1>5. CASE ReTxGiveUp
  BY <1>5 DEF ReTxGiveUp, ProbeInv, ZeroWindowProbed
<1>6. CASE PersistTimeout
  BY <1>6, ProbeFrame DEF PersistTimeout, ProbeAgain, peerWindow
<1>7. CASE PersistWithoutData
  BY <1>7 DEF PersistWithoutData, ProbeInv, ZeroWindowProbed
<1>8. CASE RecvData \/ DelAckTimeout
  BY <1>8, ProbeFrame DEF RecvData, DelAckTimeout, sender, timers, peerWindow
<1>9. ASSUME NEW n \in 1 .. RcvBufSize, Recv(n) PROVE ProbeInv'
  BY <1>9, ProbeFrame DEF Recv, sender, timers, peerWindow
<1>10. ASSUME NEW i \in DOMAIN acks, LoseAck(i) PROVE ProbeInv'
  BY <1>10, ProbeFrame DEF LoseAck, sender, timers, peerWindow
<1>11. ASSUME NEW i \in DOMAIN data, LoseProbe(i) PROVE ProbeInv'
  BY <1>11, ProbeFrame DEF LoseProbe, sender, timers, peerWindow
<1>12. CASE UNCHANGED vars
  BY <1>12, ProbeFrame DEF vars, sender, timers, peerWindow
<1>13. QED
  BY <1>1, <1>2, <1>3, <1>4, <1>5, <1>6, <1>7, <1>8, <1>9, <1>10, <1>11, <1>12 DEF Next

\* The window the sender believes in is closed exactly while the persist timer
\* runs, whatever opens, closes or repeats it (DoForwardUp, PersistTimeout).
THEOREM ProbesExactlyWhenClosed == Spec => []ZeroWindowProbed
<1>1. ProbeInv => ZeroWindowProbed
  BY DEF ProbeInv
<1>2. QED
  BY ProbeInit, ProbeStep, <1>1, PTL DEF Spec

----------------------------------------------------------------------------
(* Data, ACKs, windows and timers together *)

\* One packet or one delayed ACK at most is under way.
AtMostOne ==
    \/ acks = <<>> /\ delAckCount = 0 /\ (data = <<>> \/ Len(data) = 1)
    \/ data = <<>> /\ acks = <<>>
    \/ data = <<>> /\ delAckCount = 0 /\ Len(acks) = 1

BufferInv == Sound(buf) /\ buf.sacked = {} /\ buf.tail <= N + 1

PlainTypes ==
    /\ cwnd \in SegmentSize .. MaxWindow
    /\ retxRunning \in BOOLEAN /\ sendEvent \in BOOLEAN
    /\ noDelay \in NoDelays
    /\ dataRetrCount \in 0 .. DataRetries
    /\ status \in {"up", "dropped", "aborted"}
    /\ losses \in 0 .. MaxLoss
    /\ delAckCount \in 0 .. DelAckMax - 1

\* The highest ACK is the head of the buffer, or one more after an accepted
\* probe; what is outstanding is within the offer.
WindowInv ==
    /\ buf.head <= highRxAckMark /\ highRxAckMark <= buf.head + 1
    /\ highRxAckMark <= rcvNext
    /\ buf.next <= MaxRxSequence
    /\ buf.head = buf.next \/ buf.next <= buf.head + rWnd

\* The receiver has nothing that was not sent, but for the byte of a probe.
ReachInv ==
    \/ rcvNext <= buf.next
    \/ /\ rcvNext = buf.next + 1 /\ buf.head = buf.next /\ buf.next < buf.tail
       /\ AtMostOne /\ (rWnd # 0 => Due)

\* What is under way is nothing, a probe alone, or a chain of segments that
\* starts where the receiver waits, or before when it is sent again.
Probing ==
    /\ data = <<[seq |-> buf.next, size |-> 1, probe |-> TRUE]>>
    /\ rWnd = 0 /\ buf.next <= rcvNext /\ buf.next < buf.tail
    /\ acks = <<>> /\ delAckCount = 0
Flowing(first, end) ==
    /\ Chain(data, first, end)
    /\ first <= rcvNext /\ end <= buf.next
    /\ Missing(buf) = {} => end = buf.next
    /\ Len(data) # 1 => rcvNext <= End(data[1])
    /\ End(data[1]) <= rcvNext =>
           acks = <<>> /\ delAckCount = 0 /\ buf.head < buf.next /\ buf.head < rcvNext
DataInv ==
    \/ data = <<>> /\ buf.next <= rcvNext
    \/ Probing
    \/ \E first, end \in Nat : Flowing(first, end)

\* ACKs under way rise, and so does what they promise.
Rising(q) ==
    \A i, j \in DOMAIN q :
        i < j => /\ q[i].ack < q[j].ack
                 /\ q[i].ack + q[i].wnd <= q[j].ack + q[j].wnd
AckInv ==
    /\ Rising(acks)
    /\ \A i \in DOMAIN acks : acks[i].ack <= rcvNext
    /\ \A i \in DOMAIN acks : acks[i].ack = buf.head => rWnd = 0
    /\ \A i \in DOMAIN acks :
           acks[i].ack > highRxAckMark =>
               /\ buf.next <= acks[i].ack + acks[i].wnd
               /\ highRxAckMark + rWnd <= acks[i].ack + acks[i].wnd
    /\ delAckCount > 0 =>
           buf.head < rcvNext /\ \A i \in DOMAIN acks : acks[i].ack < rcvNext

\* A closed window leaves nothing outstanding, and little under way.
ClosedInv ==
    rWnd = 0 =>
        /\ buf.head = buf.next
        /\ \/ AtMostOne
           \/ /\ data = <<>> /\ delAckCount = 0
              /\ \A i \in DOMAIN acks : acks[i].ack < buf.head

\* After a timeout everything outstanding has arrived.
LostInv ==
    Missing(buf) # {} =>
        /\ cwnd = SegmentSize /\ buf.lost = Outstanding(buf) /\ rcvNext = buf.next
        /\ \A i \in DOMAIN acks : acks[i].ack = buf.next
        /\ \/ buf.retrans = {} /\ Due
           \/ OneResent(buf) /\ (data = <<>> \/ Len(data) = 1)

\* Without the retransmission timer nothing is outstanding, or nothing is
\* under way and the last attempt to send was refused or is to be repeated.
TimedInv ==
    status = "up" /\ Outstanding(buf) # {} /\ ~retxRunning =>
        /\ Due /\ cwnd = SegmentSize
        /\ buf.lost = Outstanding(buf) /\ buf.retrans = {}
        /\ Stalled \/ sendEvent

\* Retries are used up by losses, but for one, which is returned by an ACK
\* that is under way or will be sent.
Used == DataRetries - dataRetrCount
RetryInv ==
    /\ status = "up" => Used <= losses + 1
    /\ status = "dropped" => DataRetries <= losses
    /\ status = "up" /\ losses < Used /\ retxRunning =>
           /\ ~Due /\ rWnd # 0
           /\ \A i \in DOMAIN acks : buf.head < acks[i].ack /\ acks[i].ack <= buf.next
    /\ status = "up" /\ losses < Used /\ ~retxRunning =>
           Due \/ (rWnd = 0 /\ AtMostOne)

FlowInv ==
    /\ RoomInv /\ ProbeInv /\ BufferInv /\ PlainTypes /\ WindowInv /\ ReachInv /\ DataInv
    /\ AckInv /\ ClosedInv /\ LostInv /\ TimedInv /\ RetryInv
----------------------------------------------------------------------------
(* What the parts of the invariant say of numbers *)

\* A buffer without guessed deliveries.
LEMMA BufferFacts ==
    ASSUME NEW b, Sound(b), b.sacked = {}
    PROVE  /\ b.head \in Nat /\ b.next \in Nat /\ b.tail \in Nat /\ b.head >= 1
           /\ b.head <= b.next /\ b.next <= b.tail
           /\ Missing(b) = b.lost \ b.retrans
           /\ b.lost \subseteq Outstanding(b) /\ b.retrans \subseteq b.lost
           /\ Outstanding(b) = {} <=> b.head = b.next
           /\ b.head = b.next => b.lost = {} /\ b.retrans = {} /\ Missing(b) = {}
<1>1. /\ b.head \in Nat /\ b.next \in Nat /\ b.tail \in Nat /\ b.head >= 1
      /\ b.head <= b.next /\ b.next <= b.tail
      /\ b.lost \subseteq Outstanding(b) /\ b.retrans \subseteq b.lost
  BY SoundFinite DEF Sound
<1>2. Missing(b) = b.lost \ b.retrans
  BY SoundFinite
<1>3. Outstanding(b) = {} <=> b.head = b.next
  <2>1. b.head = b.next => Outstanding(b) = {}
    BY <1>1 DEF Outstanding
  <2>2. b.head # b.next => b.head \in Outstanding(b)
    BY <1>1 DEF Outstanding
  <2> QED
    BY <2>1, <2>2
<1>4. b.head = b.next => b.lost = {} /\ b.retrans = {} /\ Missing(b) = {}
  BY <1>1, <1>2, <1>3
<1> QED
  BY <1>1, <1>2, <1>3, <1>4

\* The receiver, the windows and the ACKs under way.
LEMMA RoomFacts ==
    ASSUME RoomInv
    PROVE  /\ rcvNext \in Nat /\ rcvRead \in Nat /\ MaxRxSequence \in Nat
           /\ rcvNext <= MaxRxSequence
           /\ highRxAckMark \in Nat /\ rWnd \in Nat /\ highRxAckMark + rWnd <= MaxRxSequence
           /\ Len(acks) \in Nat /\ DOMAIN acks = 1 .. Len(acks)
           /\ \A i \in DOMAIN acks :
                  /\ acks[i].ack \in Nat /\ acks[i].wnd \in Nat
                  /\ acks[i].ack + acks[i].wnd <= MaxRxSequence
<1>1. /\ rcvNext \in Nat /\ rcvRead \in Nat /\ rcvNext <= MaxRxSequence
      /\ highRxAckMark \in Nat /\ rWnd \in Nat /\ highRxAckMark + rWnd <= MaxRxSequence
      /\ acks \in Seq([ack : Nat, wnd : Nat])
      /\ \A i \in DOMAIN acks : acks[i].ack + acks[i].wnd <= MaxRxSequence
  BY DEF RoomInv, RoomBelieved, Promised
<1>2. MaxRxSequence \in Nat
  BY <1>1, SocketAssumption DEF MaxRxSequence
<1>3. /\ Len(acks) \in Nat /\ DOMAIN acks = 1 .. Len(acks)
      /\ \A i \in DOMAIN acks : acks[i] \in [ack : Nat, wnd : Nat]
  BY <1>1, LenProperties, ElementOfSeq
<1>4. \A i \in DOMAIN acks : acks[i].ack \in Nat /\ acks[i].wnd \in Nat
  BY <1>3
<1> QED
  BY <1>1, <1>2, <1>3, <1>4

\* An empty sequence and a sequence of one.
LEMMA AcksEmpty ==
    ASSUME RoomInv
    PROVE  (acks = <<>> <=> Len(acks) = 0) /\ (acks = <<>> <=> DOMAIN acks = {})
<1>1. acks \in Seq([ack : Nat, wnd : Nat])
  BY DEF RoomInv
<1>2. Len(acks) \in Nat /\ DOMAIN acks = 1 .. Len(acks)
  BY RoomFacts
<1>3. acks = <<>> <=> Len(acks) = 0
  BY <1>1
<1>4. Len(acks) = 0 <=> DOMAIN acks = {}
  <2>1. Len(acks) # 0 => 1 \in DOMAIN acks
    BY <1>2
  <2>2. Len(acks) = 0 => DOMAIN acks = {}
    BY <1>2
  <2> QED
    BY <2>1, <2>2
<1> QED
  BY <1>3, <1>4

\* At the start nothing is sent and nothing is under way.
LEMMA FlowInit == Init => FlowInv
<1> SUFFICES ASSUME Init PROVE FlowInv
  OBVIOUS
<1>1. /\ N \in Nat /\ N >= 1 /\ SegmentSize \in Nat /\ SegmentSize >= 1 /\ RcvBufSize \in Nat
      /\ RcvBufSize >= 1 /\ DelAckMax \in Nat /\ DelAckMax >= 1 /\ DataRetries \in Nat
      /\ MaxWindow \in Nat /\ MaxWindow >= SegmentSize /\ MaxLoss \in Nat
  BY BoundsAssumption, SocketAssumption
<1>2. /\ buf = EmptyTxBuffer /\ cwnd = SegmentSize /\ rWnd = RcvBufSize /\ highRxAckMark = 1
      /\ noDelay \in NoDelays /\ retxRunning = FALSE /\ sendEvent = FALSE
      /\ dataRetrCount = DataRetries /\ status = "up"
      /\ data = <<>> /\ acks = <<>> /\ losses = 0 /\ rcvNext = 1 /\ rcvRead = 1 /\ delAckCount = 0
  BY DEF Init
<1>3. /\ buf.head = 1 /\ buf.next = 1 /\ buf.tail = 1
      /\ buf.sacked = {} /\ buf.lost = {} /\ buf.retrans = {}
  BY <1>2 DEF EmptyTxBuffer
<1>4. Outstanding(buf) = {} /\ Missing(buf) = {}
  BY <1>3 DEF Outstanding, Missing
<1>5. BufferInv
  <2>1. buf \in TxBuffers
    BY <1>2 DEF EmptyTxBuffer, TxBuffers
  <2>2. 1 <= 1 /\ 1 <= N + 1
    BY <1>1
  <2> QED
    BY <1>3, <1>4, <2>1, <2>2 DEF BufferInv, Sound
<1>6. PlainTypes
  <2>1. cwnd \in SegmentSize .. MaxWindow
    BY <1>1, <1>2
  <2>2. dataRetrCount \in 0 .. DataRetries /\ losses \in 0 .. MaxLoss
        /\ delAckCount \in 0 .. DelAckMax - 1
    BY <1>1, <1>2
  <2>3. /\ retxRunning \in BOOLEAN /\ sendEvent \in BOOLEAN /\ noDelay \in NoDelays
        /\ status \in {"up", "dropped", "aborted"}
    BY <1>2, Zenon
  <2> QED
    BY <2>1, <2>2, <2>3 DEF PlainTypes
<1>7. WindowInv /\ ReachInv
  BY <1>1, <1>2, <1>3 DEF WindowInv, ReachInv, MaxRxSequence
<1>8. DataInv
  BY <1>2, <1>3 DEF DataInv
<1>9. DOMAIN acks = {}
  BY <1>2
<1>10. AckInv /\ ClosedInv
  BY <1>1, <1>2, <1>9 DEF AckInv, ClosedInv, Rising
<1>11. LostInv /\ TimedInv
  BY <1>4 DEF LostInv, TimedInv
<1>12. RetryInv
  BY <1>1, <1>2, <1>9 DEF RetryInv, Used
<1> QED
  BY <1>5, <1>6, <1>7, <1>8, <1>10, <1>11, <1>12, RoomInit, ProbeInit DEF FlowInv

----------------------------------------------------------------------------
(* Applications *)

\* Send: more data in the buffer makes no silly window go away, and what
\* Nagle's test held back is about to be tried again.
LEMMA FlowSend ==
    ASSUME FlowInv, NEW n \in Chunks, Send(n), RoomInv', ProbeInv'
    PROVE  FlowInv'
<1>1. /\ n \in Nat /\ n >= 1 /\ N \in Nat /\ SegmentSize \in Nat /\ SegmentSize >= 1
  BY BoundsAssumption, SocketAssumption
<1>2. /\ buf.tail + n <= N + 1 /\ buf' = [buf EXCEPT !.tail = @ + n]
      /\ sendEvent' = (sendEvent \/ AvailableWindow(buf', rWnd, cwnd) > 0)
      /\ UNCHANGED <<cwnd, rWnd, highRxAckMark, noDelay, retxRunning, persistRunning,
                     dataRetrCount, status, data, acks, losses, rcvNext, rcvRead, delAckCount>>
  BY DEF Send, peerWindow, receiver
<1>3. Sound(buf) /\ buf.sacked = {} /\ buf \in TxBuffers
  BY DEF FlowInv, BufferInv, Sound
<1>4. /\ buf.head \in Nat /\ buf.next \in Nat /\ buf.tail \in Nat /\ buf.head <= buf.next
      /\ buf.next <= buf.tail
  BY <1>3, BufferFacts
<1>5. /\ buf'.head = buf.head /\ buf'.next = buf.next /\ buf'.tail = buf.tail + n
      /\ buf'.sacked = buf.sacked /\ buf'.lost = buf.lost /\ buf'.retrans = buf.retrans
      /\ buf' \in TxBuffers
  BY <1>1, <1>2, <1>3, <1>4 DEF TxBuffers
<1>6. Outstanding(buf)' = Outstanding(buf) /\ Missing(buf)' = Missing(buf)
      /\ OneResent(buf)' = OneResent(buf)
  BY <1>5 DEF Outstanding, Missing, OneResent
<1>7. BufferInv'
  BY <1>1, <1>2, <1>3, <1>4, <1>5, <1>6 DEF BufferInv, Sound
<1>8. AtMostOne' = AtMostOne /\ Due' = Due /\ MaxRxSequence' = MaxRxSequence
  BY <1>2 DEF AtMostOne, Due, MaxRxSequence
<1>9. PlainTypes'
  BY <1>2 DEF FlowInv, PlainTypes
<1>10. WindowInv'
  BY <1>2, <1>5, <1>8 DEF FlowInv, WindowInv
<1>11. ReachInv'
  BY <1>1, <1>2, <1>4, <1>5, <1>8 DEF FlowInv, ReachInv
<1>12. DataInv'
  <2>1. Probing => Probing'
    BY <1>1, <1>2, <1>4, <1>5 DEF Probing
  <2>2. ASSUME NEW first \in Nat, NEW end \in Nat, Flowing(first, end)
        PROVE  Flowing(first, end)'
    BY <1>2, <1>5, <1>6, <2>2 DEF Flowing
  <2> QED
    BY <1>2, <1>5, <2>1, <2>2 DEF FlowInv, DataInv
<1>13. AckInv' /\ ClosedInv'
  BY <1>2, <1>5, <1>8 DEF FlowInv, AckInv, ClosedInv
<1>14. LostInv'
  BY <1>2, <1>5, <1>6, <1>8 DEF FlowInv, LostInv
<1>15. TimedInv'
  <2> SUFFICES ASSUME status = "up", Outstanding(buf) # {}, ~retxRunning
               PROVE  TimedInv'
    BY <1>2, <1>6 DEF TimedInv
  <2>1. /\ Due /\ cwnd = SegmentSize
        /\ buf.lost = Outstanding(buf) /\ buf.retrans = {} /\ (Stalled \/ sendEvent)
    BY DEF FlowInv, TimedInv
  <2>2. AvailableWindow(buf', rWnd, cwnd) > 0
    <3>1. BytesInFlight(buf)' = BytesInFlight(buf) /\ BytesInFlight(buf) = 0
      <4>1. BytesInFlight(buf) = 0
        BY <1>3, <2>1, OutstandingSize, FS_EmptySet
      <4> QED
        BY <1>5, <1>6, <4>1 DEF BytesInFlight
    <3>2. rWnd \in Nat /\ rWnd # 0
      <4>1. buf.head # buf.next
        BY <1>3, BufferFacts
      <4> QED
        BY <4>1, RoomFacts DEF FlowInv, ClosedInv
    <3>3. Min({rWnd, cwnd}) = IF rWnd <= cwnd THEN rWnd ELSE cwnd
      BY <1>1, <2>1, <3>2, MinOfTwo
    <3>4. AvailableWindow(buf', rWnd, cwnd) =
              IF 0 > Min({rWnd, cwnd}) THEN 0 ELSE Min({rWnd, cwnd}) - 0
      BY <3>1 DEF AvailableWindow
    <3> QED
      BY <1>1, <2>1, <3>2, <3>3, <3>4
  <2>3. sendEvent' = TRUE
    BY <1>2, <2>2
  <2> QED
    BY <1>2, <1>5, <1>6, <1>8, <2>1, <2>3 DEF TimedInv
<1>16. RetryInv'
  BY <1>2, <1>5, <1>8 DEF FlowInv, RetryInv, Used
<1> QED
  BY <1>7, <1>9, <1>10, <1>11, <1>12, <1>13, <1>14, <1>15, <1>16 DEF FlowInv

\* Recv: there is more room.
LEMMA FlowRecv ==
    ASSUME FlowInv, NEW n \in 1 .. RcvBufSize, Recv(n), RoomInv', ProbeInv'
    PROVE  FlowInv'
<1>1. /\ UNCHANGED <<buf, cwnd, rWnd, highRxAckMark, noDelay, retxRunning, sendEvent,
                     dataRetrCount, status, data, acks, losses, rcvNext, delAckCount>>
      /\ rcvRead' = rcvRead + n
  BY DEF Recv, sender, peerWindow, timers
<1>2. AtMostOne' = AtMostOne /\ Due' = Due
  BY <1>1 DEF AtMostOne, Due
<1>3. MaxRxSequence <= MaxRxSequence' /\ MaxRxSequence \in Nat /\ MaxRxSequence' \in Nat
  <2>1. n \in Nat /\ rcvRead \in Nat /\ RcvBufSize \in Nat
    BY RoomFacts, SocketAssumption DEF FlowInv
  <2> QED
    BY <1>1, <2>1 DEF MaxRxSequence
<1>4. WindowInv'
  <2>1. buf.next \in Nat
    BY BufferFacts DEF FlowInv, BufferInv
  <2> QED
    BY <1>1, <1>3, <2>1 DEF FlowInv, WindowInv
<1>5. BufferInv' /\ PlainTypes' /\ ReachInv'
  BY <1>1, <1>2 DEF FlowInv, BufferInv, PlainTypes, ReachInv
<1>6. DataInv'
  BY <1>1 DEF FlowInv, DataInv, Probing, Flowing
<1>7. AckInv' /\ ClosedInv' /\ LostInv'
  BY <1>1, <1>2 DEF FlowInv, AckInv, ClosedInv, LostInv
<1>8. TimedInv' /\ RetryInv'
  BY <1>1, <1>2 DEF FlowInv, TimedInv, RetryInv, Stalled, Used
<1> QED
  BY <1>4, <1>5, <1>6, <1>7, <1>8 DEF FlowInv

\* What of the invariant the timers, the retries and the losses do not touch.
Quiescent ==
    UNCHANGED <<buf, cwnd, rWnd, highRxAckMark, noDelay, data, acks, receiver>>

\* Those steps keep all that says nothing of timers, retries and losses.
LEMMA FlowFrame ==
    ASSUME FlowInv, Quiescent
    PROVE  /\ BufferInv' /\ WindowInv' /\ ReachInv' /\ DataInv' /\ AckInv' /\ ClosedInv'
           /\ LostInv'
<1>1. UNCHANGED <<buf, cwnd, rWnd, highRxAckMark, noDelay, data, acks, rcvNext, rcvRead,
                 delAckCount>>
  BY DEF Quiescent, receiver
<1>2. AtMostOne' = AtMostOne /\ Due' = Due /\ MaxRxSequence' = MaxRxSequence
  BY <1>1 DEF AtMostOne, Due, MaxRxSequence
<1>3. BufferInv' /\ WindowInv' /\ ReachInv'
  BY <1>1, <1>2 DEF FlowInv, BufferInv, WindowInv, ReachInv
<1>4. DataInv'
  BY <1>1 DEF FlowInv, DataInv, Probing, Flowing
<1>5. AckInv' /\ ClosedInv' /\ LostInv'
  BY <1>1, <1>2 DEF FlowInv, AckInv, ClosedInv, LostInv
<1> QED
  BY <1>3, <1>4, <1>5

\* A step that changes nothing.
LEMMA FlowStutter == ASSUME FlowInv, UNCHANGED vars, RoomInv', ProbeInv' PROVE FlowInv'
<1>1. /\ Quiescent /\ UNCHANGED <<retxRunning, sendEvent, dataRetrCount, status, losses>>
  BY DEF vars, sender, timers, peerWindow, Quiescent
<1>2. UNCHANGED <<buf, cwnd, rWnd, highRxAckMark, noDelay, data, acks, rcvNext, rcvRead,
                 delAckCount>>
  BY <1>1 DEF Quiescent, receiver
<1>3. PlainTypes'
  BY <1>1, <1>2 DEF FlowInv, PlainTypes
<1>4. TimedInv' /\ RetryInv'
  BY <1>1, <1>2 DEF FlowInv, TimedInv, RetryInv, Stalled, Used, Due, AtMostOne
<1> QED
  BY <1>1, <1>3, <1>4, FlowFrame DEF FlowInv

\* ReTxTimeout with no retries left: every one of them was used up by a loss.
LEMMA FlowGiveUp ==
    ASSUME FlowInv, ReTxGiveUp, RoomInv', ProbeInv'
    PROVE  FlowInv'
<1>1. /\ Quiescent /\ status = "up" /\ retxRunning /\ Due /\ dataRetrCount \in 0 .. DataRetries
      /\ ~(dataRetrCount > 0) /\ status' = "dropped" /\ retxRunning' = FALSE /\ sendEvent' = FALSE
      /\ UNCHANGED <<dataRetrCount, losses, cwnd, noDelay, delAckCount>>
      /\ losses \in 0 .. MaxLoss
  BY DEF ReTxGiveUp, Quiescent, peerWindow, receiver, RetriesLeft, FlowInv, PlainTypes
<1>2. PlainTypes'
  BY <1>1 DEF FlowInv, PlainTypes
<1>3. TimedInv'
  BY <1>1 DEF TimedInv
<1>4. ~(losses < Used)
  BY <1>1 DEF FlowInv, RetryInv
<1>5. DataRetries <= losses
  <2>1. MaxLoss \in Nat /\ DataRetries \in Nat
    BY BoundsAssumption, SocketAssumption
  <2> QED
    BY <1>1, <1>4, <2>1 DEF Used
<1>6. RetryInv'
  BY <1>1, <1>5 DEF RetryInv
<1> QED
  BY <1>1, <1>2, <1>3, <1>6, FlowFrame DEF FlowInv

\* PersistTimeout without data ends the program, of which nothing more is said.
LEMMA FlowAbort ==
    ASSUME FlowInv, PersistWithoutData, RoomInv', ProbeInv'
    PROVE  FlowInv'
<1>1. /\ Quiescent /\ status' = "aborted" /\ retxRunning' = FALSE /\ sendEvent' = FALSE
      /\ UNCHANGED <<dataRetrCount, losses, cwnd, noDelay, delAckCount>>
  BY DEF PersistWithoutData, Quiescent, peerWindow, receiver
<1>2. PlainTypes'
  BY <1>1 DEF FlowInv, PlainTypes
<1>3. TimedInv' /\ RetryInv'
  BY <1>1 DEF TimedInv, RetryInv
<1> QED
  BY <1>1, <1>2, <1>3, FlowFrame DEF FlowInv

\* Without data under way everything sent has arrived.
LEMMA NothingUnderWay ==
    ASSUME FlowInv, data = <<>>
    PROVE  buf.next <= rcvNext
<1>1. ~Probing
  BY DEF Probing
<1>2. ASSUME NEW first \in Nat, NEW end \in Nat, Flowing(first, end) PROVE FALSE
  <2>1. Len(data) >= 1
    BY <1>2 DEF Flowing, Chain
  <2>2. Len(data) = 0
    OBVIOUS
  <2> QED
    BY <2>1, <2>2
<1> QED
  BY <1>1, <1>2 DEF FlowInv, DataInv

\* PersistTimeout: the probe is alone.
LEMMA FlowPersist ==
    ASSUME FlowInv, PersistTimeout, RoomInv', ProbeInv'
    PROVE  FlowInv'
<1> DEFINE d == [seq |-> buf.next, size |-> 1, probe |-> TRUE]
<1>1. /\ status = "up" /\ persistRunning /\ buf.next < buf.tail
      /\ data = <<>> /\ acks = <<>> /\ delAckCount = 0
      /\ data' = Append(data, d)
      /\ UNCHANGED <<buf, cwnd, rWnd, highRxAckMark, noDelay, retxRunning, sendEvent,
                     dataRetrCount, status, acks, losses, rcvNext, rcvRead, delAckCount>>
  BY DEF PersistTimeout, ProbeAgain, peerWindow, receiver, Due
<1>2. rWnd = 0
  BY <1>1 DEF FlowInv, ProbeInv, ZeroWindowProbed
<1>3. buf.next <= rcvNext
  BY <1>1, NothingUnderWay
<1> HIDE DEF d
<1>4. data' = <<d>>
  BY <1>1
<1>5. AtMostOne'
  BY <1>1, <1>4 DEF AtMostOne
<1>6. buf.head = buf.next /\ Outstanding(buf) = {} /\ Missing(buf) = {}
  BY <1>2, BufferFacts DEF FlowInv, BufferInv, ClosedInv
<1>7. BufferInv' /\ PlainTypes' /\ WindowInv'
  <2>1. MaxRxSequence' = MaxRxSequence
    BY <1>1 DEF MaxRxSequence
  <2> QED
    BY <1>1, <2>1 DEF FlowInv, BufferInv, PlainTypes, WindowInv
<1>8. ReachInv' /\ ClosedInv'
  BY <1>1, <1>2, <1>5, <1>6 DEF FlowInv, ReachInv, ClosedInv
<1>9. DataInv'
  <2>1. Probing'
    BY <1>1, <1>2, <1>3, <1>4 DEF Probing, d
  <2> QED
    BY <2>1 DEF DataInv
<1>10. AckInv'
  BY <1>1 DEF FlowInv, AckInv
<1>11. LostInv' /\ TimedInv'
  BY <1>1, <1>6 DEF LostInv, TimedInv
<1>12. RetryInv'
  <2>1. Due /\ Used' = Used
    BY <1>1 DEF Due, Used
  <2> QED
    BY <1>1, <1>2, <1>5, <2>1 DEF FlowInv, RetryInv
<1> QED
  BY <1>7, <1>8, <1>9, <1>10, <1>11, <1>12 DEF FlowInv

----------------------------------------------------------------------------
(* ACKs that leave the path *)

\* The ACKs that remain rise still, and are others.
LEMMA AcksRest ==
    ASSUME FlowInv, NEW i \in DOMAIN acks
    PROVE  LET p == RemoveAt(acks, i)
           IN  /\ Rising(p) /\ Len(p) = Len(acks) - 1 /\ DOMAIN p = 1 .. Len(acks) - 1
               /\ p = <<>> <=> Len(acks) = 1
               /\ \A j \in DOMAIN p : \E k \in DOMAIN acks : k # i /\ p[j] = acks[k]
<1> DEFINE p == RemoveAt(acks, i)
           n == Len(acks)
           f(j) == IF j < i THEN j ELSE j + 1
           T == [ack : Nat, wnd : Nat]
<1>1. acks \in Seq(T) /\ n \in Nat /\ DOMAIN acks = 1 .. n /\ i \in 1 .. n
  BY RoomFacts DEF FlowInv, RoomInv
<1>2. /\ p \in Seq(T) /\ Len(p) = n - 1
      /\ \A j \in 1 .. n - 1 : p[j] = IF j < i THEN acks[j] ELSE acks[j + 1]
  <2> HIDE DEF T
  <2> QED
    BY <1>1, RemoveAtOrder
<1>3. Rising(acks)
  BY DEF FlowInv, AckInv
<1> HIDE DEF p, n, T
<1>4. DOMAIN p = 1 .. n - 1 /\ (p = <<>> <=> n = 1)
  <2>1. DOMAIN p = 1 .. Len(p)
    BY <1>2, LenProperties
  <2>2. p = <<>> <=> Len(p) = 0
    <3>1. p \in Seq(T)
      BY <1>2
    <3> HIDE DEF f
    <3> QED
      BY ONLY <3>1, EmptySeq
  <2> QED
    BY <1>1, <1>2, <2>1, <2>2
<1>5. ASSUME NEW j \in 1 .. n - 1 PROVE f(j) \in 1 .. n /\ f(j) # i /\ p[j] = acks[f(j)]
  BY <1>1, <1>2
<1>6. ASSUME NEW j \in 1 .. n - 1, NEW k \in 1 .. n - 1, j < k
      PROVE  /\ p[j].ack < p[k].ack
             /\ p[j].ack + p[j].wnd <= p[k].ack + p[k].wnd
  <2>1. f(j) < f(k)
    BY <1>1, <1>6
  <2>2. f(j) \in DOMAIN acks /\ f(k) \in DOMAIN acks /\ p[j] = acks[f(j)] /\ p[k] = acks[f(k)]
    BY <1>1, <1>5
  <2> HIDE DEF f
  <2> QED
    BY <1>3, <2>1, <2>2 DEF Rising
<1>7. Rising(p)
  BY <1>4, <1>6 DEF Rising
<1>8. \A j \in DOMAIN p : \E k \in DOMAIN acks : k # i /\ p[j] = acks[k]
  BY <1>1, <1>4, <1>5
<1> QED
  BY <1>2, <1>4, <1>7, <1>8 DEF p, n

\* With an ACK under way, at most one thing under way is that ACK.
LEMMA AloneGone ==
    ASSUME FlowInv, NEW i \in DOMAIN acks, AtMostOne
    PROVE  data = <<>> /\ delAckCount = 0 /\ RemoveAt(acks, i) = <<>>
<1>1. acks # <<>>
  BY AcksEmpty DEF FlowInv
<1>2. data = <<>> /\ delAckCount = 0 /\ Len(acks) = 1
  BY <1>1 DEF AtMostOne
<1> QED
  BY <1>2, AcksRest

\* An ACK leaves the path, and nothing else that carries data changes.
AckGone(i) ==
    /\ acks' = RemoveAt(acks, i)
    /\ UNCHANGED <<buf, cwnd, rWnd, highRxAckMark, noDelay, data, receiver>>

\* Losing or ignoring an ACK keeps all but what is said of the timers and retries.
LEMMA FlowAckGone ==
    ASSUME FlowInv, NEW i \in DOMAIN acks, AckGone(i)
    PROVE  /\ BufferInv' /\ WindowInv' /\ ReachInv' /\ DataInv' /\ AckInv' /\ ClosedInv'
           /\ LostInv' /\ ~Due /\ (AtMostOne => Due')
<1>1. /\ acks' = RemoveAt(acks, i)
      /\ UNCHANGED <<buf, cwnd, rWnd, highRxAckMark, noDelay, data, rcvNext, rcvRead, delAckCount>>
  BY DEF AckGone, receiver
<1>2. MaxRxSequence' = MaxRxSequence
  BY <1>1 DEF MaxRxSequence
<1>3. acks # <<>> /\ ~Due
  BY AcksEmpty DEF FlowInv, Due
<1>4. AtMostOne => Due' /\ AtMostOne'
  BY <1>1, AloneGone DEF Due, AtMostOne
<1>5. /\ Rising(acks)' /\ \A j \in DOMAIN acks' : \E k \in DOMAIN acks : k # i /\ acks'[j] = acks[k]
  <2> DEFINE p == RemoveAt(acks, i)
  <2>1. Rising(p) /\ \A j \in DOMAIN p : \E k \in DOMAIN acks : k # i /\ p[j] = acks[k]
    BY AcksRest
  <2>2. acks' = p
    BY <1>1
  <2> HIDE DEF p
  <2> QED
    BY <2>1, <2>2 DEF Rising
<1>6. BufferInv' /\ WindowInv'
  BY <1>1, <1>2 DEF FlowInv, BufferInv, WindowInv
<1>7. ReachInv'
  BY <1>1, <1>4 DEF FlowInv, ReachInv
<1>8. DataInv'
  BY <1>1, <1>3 DEF FlowInv, DataInv, Probing, Flowing
<1>9. AckInv'
  BY <1>1, <1>5 DEF FlowInv, AckInv
<1>10. ClosedInv'
  BY <1>1, <1>4, <1>5 DEF FlowInv, ClosedInv
<1>11. LostInv'
  BY <1>1, <1>3, <1>5 DEF FlowInv, LostInv
<1> QED
  BY <1>3, <1>4, <1>6, <1>7, <1>8, <1>9, <1>10, <1>11

\* The path loses an ACK.
LEMMA FlowLoseAck ==
    ASSUME FlowInv, NEW i \in DOMAIN acks, LoseAck(i), RoomInv', ProbeInv'
    PROVE  FlowInv'
<1>1. /\ AckGone(i) /\ losses < MaxLoss /\ losses' = losses + 1 /\ losses \in 0 .. MaxLoss
      /\ UNCHANGED <<buf, cwnd, noDelay, retxRunning, sendEvent, dataRetrCount, status,
                     delAckCount>>
  BY DEF LoseAck, AckGone, sender, peerWindow, timers, receiver, FlowInv, PlainTypes
<1>2. MaxLoss \in Nat /\ DataRetries \in Nat /\ dataRetrCount \in 0 .. DataRetries
  BY BoundsAssumption, SocketAssumption DEF FlowInv, PlainTypes
<1>3. losses' \in 0 .. MaxLoss
  BY <1>1, <1>2
<1>4. PlainTypes'
  BY <1>1, <1>3 DEF FlowInv, PlainTypes
<1>5. TimedInv'
  <2>1. Outstanding(buf)' = Outstanding(buf)
    BY <1>1
  <2> QED
    BY <1>1, <2>1, FlowAckGone DEF FlowInv, TimedInv
<1>6. RetryInv'
  <2>1. Used \in Nat /\ Used' = Used
    BY <1>1, <1>2 DEF Used
  <2>2. status = "up" => Used <= losses + 1
    BY DEF FlowInv, RetryInv
  <2>3. status = "up" => Used <= losses' + 1 /\ ~(losses' < Used)
    BY <1>1, <1>2, <2>1, <2>2
  <2>4. status = "dropped" => DataRetries <= losses'
    BY <1>1, <1>2 DEF FlowInv, RetryInv
  <2> QED
    BY <1>1, <2>1, <2>3, <2>4 DEF RetryInv
<1> QED
  BY <1>1, <1>4, <1>5, <1>6, FlowAckGone DEF FlowInv

\* The path loses a probe, which is all that is under way.
LEMMA FlowLoseProbe ==
    ASSUME FlowInv, NEW i \in DOMAIN data, LoseProbe(i), RoomInv', ProbeInv'
    PROVE  FlowInv'
<1>1. /\ data[i].probe /\ data' = RemoveAt(data, i)
      /\ losses < MaxLoss /\ losses' = losses + 1 /\ losses \in 0 .. MaxLoss
      /\ UNCHANGED <<buf, cwnd, rWnd, highRxAckMark, noDelay, retxRunning, sendEvent,
                     dataRetrCount, status, acks, rcvNext, rcvRead, delAckCount>>
  BY DEF LoseProbe, sender, peerWindow, timers, receiver, FlowInv, PlainTypes
<1>2. Probing
  <2>1. ASSUME NEW first \in Nat, NEW end \in Nat, Flowing(first, end) PROVE FALSE
    <3>1. Chain(data, first, end)
      BY <2>1 DEF Flowing
    <3>2. data \in Seq(Segments) /\ i \in 1 .. Len(data)
      BY <3>1, LenProperties DEF Chain
    <3>3. data[i] \in Segments
      BY <3>2, ElementOfSeq
    <3> QED
      BY <1>1, <3>3 DEF Segments
  <2>2. data # <<>>
    OBVIOUS
  <2> QED
    BY <2>1, <2>2 DEF FlowInv, DataInv
<1> DEFINE d == [seq |-> buf.next, size |-> 1, probe |-> TRUE]
<1>3. data = <<d>> /\ rWnd = 0 /\ buf.next <= rcvNext /\ acks = <<>> /\ delAckCount = 0
  BY <1>2 DEF Probing
<1> HIDE DEF d
<1>4. data' = <<>>
  <2>1. data \in Seq({d}) /\ Len(data) = 1 /\ i = 1
    BY <1>3
  <2>2. /\ RemoveAt(data, i) \in Seq({d})
        /\ Len(RemoveAt(data, i)) = Len(data) - 1
    BY <2>1, RemoveAtOrder
  <2>3. Len(RemoveAt(data, i)) = 0
    BY <2>1, <2>2
  <2> QED
    BY <1>1, <2>2, <2>3
<1>5. buf.head = buf.next /\ Outstanding(buf) = {} /\ Missing(buf) = {}
  BY <1>3, BufferFacts DEF FlowInv, BufferInv, ClosedInv
<1>6. AtMostOne' /\ Due'
  BY <1>1, <1>3, <1>4 DEF AtMostOne, Due
<1>7. MaxLoss \in Nat /\ DataRetries \in Nat /\ dataRetrCount \in 0 .. DataRetries
  BY BoundsAssumption, SocketAssumption DEF FlowInv, PlainTypes
<1>8. losses' \in 0 .. MaxLoss
  BY <1>1, <1>7
<1>9. BufferInv' /\ PlainTypes' /\ WindowInv'
  <2>1. MaxRxSequence' = MaxRxSequence
    BY <1>1 DEF MaxRxSequence
  <2> QED
    BY <1>1, <1>8, <2>1 DEF FlowInv, BufferInv, PlainTypes, WindowInv
<1>10. ReachInv' /\ DataInv' /\ AckInv'
  BY <1>1, <1>3, <1>4, <1>6 DEF FlowInv, ReachInv, DataInv, AckInv
<1>11. ClosedInv' /\ LostInv' /\ TimedInv'
  BY <1>1, <1>5, <1>6 DEF ClosedInv, LostInv, TimedInv
<1>12. RetryInv'
  <2>1. Used \in Nat /\ Used' = Used
    BY <1>1, <1>7 DEF Used
  <2>2. status = "up" => Used <= losses + 1
    BY DEF FlowInv, RetryInv
  <2>3. status = "up" => Used <= losses' + 1 /\ ~(losses' < Used)
    BY <1>1, <1>7, <2>1, <2>2
  <2>4. status = "dropped" => DataRetries <= losses'
    BY <1>1, <1>7 DEF FlowInv, RetryInv
  <2> QED
    BY <1>1, <2>1, <2>3, <2>4 DEF RetryInv
<1> QED
  BY <1>9, <1>10, <1>11, <1>12 DEF FlowInv

----------------------------------------------------------------------------
(* The receiver *)

\* AckNow: the new ACK is the last, the highest, and promises what there is.
LEMMA AckAdded ==
    ASSUME FlowInv, NEW p \in Nat, rcvNext <= p, p <= MaxRxSequence,
           buf.head < p \/ rWnd = 0, \A i \in DOMAIN acks : acks[i].ack < p
    PROVE  LET x == [ack |-> p, wnd |-> MaxRxSequence - p]
               q == Append(acks, x)
           IN  /\ Rising(q) /\ Len(q) = Len(acks) + 1 /\ q # <<>>
               /\ \A i \in DOMAIN q : q[i].ack = p \/ \E k \in DOMAIN acks : q[i] = acks[k]
               /\ \A i \in DOMAIN q : q[i].ack <= p
               /\ \A i \in DOMAIN q : q[i].ack = buf.head => rWnd = 0
               /\ \A i \in DOMAIN q :
                      q[i].ack > highRxAckMark =>
                          /\ buf.next <= q[i].ack + q[i].wnd
                          /\ highRxAckMark + rWnd <= q[i].ack + q[i].wnd
<1> DEFINE x == [ack |-> p, wnd |-> MaxRxSequence - p]
           q == Append(acks, x)
           n == Len(acks)
           T == [ack : Nat, wnd : Nat]
<1>1. /\ acks \in Seq(T) /\ n \in Nat /\ DOMAIN acks = 1 .. n /\ MaxRxSequence \in Nat
      /\ highRxAckMark + rWnd <= MaxRxSequence
      /\ \A i \in DOMAIN acks :
             acks[i].ack \in Nat /\ acks[i].ack + acks[i].wnd <= MaxRxSequence
      /\ rcvNext \in Nat
  BY RoomFacts DEF FlowInv, RoomInv
<1>2. /\ Rising(acks) /\ buf.next <= MaxRxSequence /\ buf.head \in Nat
      /\ \A i \in DOMAIN acks : acks[i].ack = buf.head => rWnd = 0
      /\ \A i \in DOMAIN acks :
             acks[i].ack > highRxAckMark =>
                 /\ buf.next <= acks[i].ack + acks[i].wnd
                 /\ highRxAckMark + rWnd <= acks[i].ack + acks[i].wnd
  BY BufferFacts DEF FlowInv, BufferInv, WindowInv, AckInv
<1>3. x \in T /\ x.ack = p /\ x.ack + x.wnd = MaxRxSequence
  <2> DEFINE m == MaxRxSequence
  <2>1. m \in Nat /\ p <= m
    BY <1>1
  <2> HIDE DEF m
  <2>2. m - p \in Nat /\ p + (m - p) = m
    BY <2>1
  <2> QED
    BY <2>2 DEF m
<1> HIDE DEF x, T
<1>4. /\ q \in Seq(T) /\ Len(q) = n + 1 /\ q[n + 1] = x
      /\ \A i \in 1 .. n : q[i] = acks[i]
  BY <1>1, <1>3, AppendProperties
<1>5. DOMAIN q = 1 .. n + 1 /\ q # <<>>
  BY <1>1, <1>4, LenProperties
<1> HIDE DEF q, n
<1>6. ASSUME NEW i \in 1 .. n + 1
      PROVE  \/ i = n + 1 /\ q[i] = x
             \/ i \in 1 .. n /\ q[i] = acks[i] /\ i \in DOMAIN acks
  BY <1>1, <1>4
<1>7. ASSUME NEW i \in 1 .. n + 1, NEW j \in 1 .. n + 1, i < j
      PROVE  q[i].ack < q[j].ack /\ q[i].ack + q[i].wnd <= q[j].ack + q[j].wnd
  <2>1. i \in 1 .. n /\ q[i] = acks[i] /\ i \in DOMAIN acks
    BY <1>1, <1>4, <1>7
  <2>2. CASE j = n + 1
    <3>1. /\ q[j].ack = p /\ q[j].ack + q[j].wnd = MaxRxSequence
          /\ acks[i].ack < p /\ acks[i].ack + acks[i].wnd <= MaxRxSequence
      BY <1>1, <1>3, <1>4, <2>1, <2>2
    <3> QED
      BY <2>1, <3>1
  <2>3. CASE j # n + 1
    <3>1. j \in DOMAIN acks /\ q[j] = acks[j]
      BY <1>1, <1>6, <2>3
    <3> QED
      BY <1>2, <1>7, <2>1, <3>1 DEF Rising
  <2> QED
    BY <2>2, <2>3
<1>8. Rising(q)
  BY <1>5, <1>7 DEF Rising
<1>9. ASSUME NEW i \in DOMAIN q
      PROVE  /\ q[i].ack = p \/ \E k \in DOMAIN acks : q[i] = acks[k]
             /\ q[i].ack <= p
             /\ q[i].ack = buf.head => rWnd = 0
             /\ q[i].ack > highRxAckMark =>
                    /\ buf.next <= q[i].ack + q[i].wnd
                    /\ highRxAckMark + rWnd <= q[i].ack + q[i].wnd
  <2>1. i \in 1 .. n + 1
    BY <1>5
  <2>2. CASE q[i] = x
    <3>1. q[i].ack = p /\ q[i].ack + q[i].wnd = MaxRxSequence
      BY <1>3, <2>2
    <3>2. p = buf.head => rWnd = 0
      BY <1>2
    <3> QED
      BY <1>1, <1>2, <3>1, <3>2
  <2>3. CASE i \in DOMAIN acks /\ q[i] = acks[i]
    <3>1. acks[i].ack < p /\ acks[i].ack \in Nat
      BY <1>1, <2>3
    <3>2. acks[i].ack <= p
      BY <3>1
    <3> QED
      BY <1>2, <2>3, <3>2
  <2> QED
    BY <1>6, <2>1, <2>2, <2>3
<1> QED
  BY <1>4, <1>5, <1>8, <1>9 DEF q, x, n

\* DelAckTimeout.
LEMMA FlowDelAck ==
    ASSUME FlowInv, DelAckTimeout, RoomInv', ProbeInv'
    PROVE  FlowInv'
<1> DEFINE q == Append(acks, [ack |-> rcvNext, wnd |-> MaxRxSequence - rcvNext])
<1>1. /\ delAckCount > 0 /\ delAckCount' = 0
      /\ UNCHANGED <<buf, cwnd, rWnd, highRxAckMark, noDelay, retxRunning, sendEvent,
                     dataRetrCount, status, data, losses, rcvNext, rcvRead>>
  BY DEF DelAckTimeout, AckNow, sender, peerWindow, timers
<1>2. acks' = q
  BY <1>1 DEF DelAckTimeout, AckNow, AdvertisedWindowSize
<1>3. MaxRxSequence' = MaxRxSequence /\ rcvNext \in Nat /\ rcvNext <= MaxRxSequence
  BY <1>1, RoomFacts DEF MaxRxSequence, FlowInv
<1>4. buf.head < rcvNext /\ \A i \in DOMAIN acks : acks[i].ack < rcvNext
  BY <1>1 DEF FlowInv, AckInv
<1>5. /\ Rising(q) /\ Len(q) = Len(acks) + 1 /\ q # <<>>
      /\ \A i \in DOMAIN q : q[i].ack = rcvNext \/ \E k \in DOMAIN acks : q[i] = acks[k]
      /\ \A i \in DOMAIN q : q[i].ack <= rcvNext
      /\ \A i \in DOMAIN q : q[i].ack = buf.head => rWnd = 0
      /\ \A i \in DOMAIN q :
             q[i].ack > highRxAckMark =>
                 /\ buf.next <= q[i].ack + q[i].wnd
                 /\ highRxAckMark + rWnd <= q[i].ack + q[i].wnd
  <2> DEFINE p == rcvNext
  <2>1. p \in Nat /\ rcvNext <= p /\ p <= MaxRxSequence /\ buf.head < p
        /\ \A i \in DOMAIN acks : acks[i].ack < p
    BY <1>3, <1>4
  <2> HIDE DEF p
  <2>2. LET x == [ack |-> p, wnd |-> MaxRxSequence - p]
            y == Append(acks, x)
        IN  /\ Rising(y) /\ Len(y) = Len(acks) + 1 /\ y # <<>>
            /\ \A i \in DOMAIN y : y[i].ack = p \/ \E k \in DOMAIN acks : y[i] = acks[k]
            /\ \A i \in DOMAIN y : y[i].ack <= p
            /\ \A i \in DOMAIN y : y[i].ack = buf.head => rWnd = 0
            /\ \A i \in DOMAIN y :
                   y[i].ack > highRxAckMark =>
                       /\ buf.next <= y[i].ack + y[i].wnd
                       /\ highRxAckMark + rWnd <= y[i].ack + y[i].wnd
    BY <2>1, AckAdded
  <2> QED
    BY <2>2 DEF p
<1>6. ~Due /\ (AtMostOne => AtMostOne')
  <2>1. ~Due
    BY <1>1 DEF Due
  <2>2. ASSUME AtMostOne PROVE data = <<>> /\ Len(acks) = 0
    <3>1. delAckCount # 0
      BY <1>1
    <3>2. data = <<>> /\ acks = <<>>
      BY <2>2, <3>1 DEF AtMostOne
    <3> QED
      BY <3>2
  <2>3. AtMostOne => AtMostOne'
    BY <1>1, <1>2, <1>5, <2>2 DEF AtMostOne
  <2> QED
    BY <2>1, <2>3
<1> HIDE DEF q
<1>7. BufferInv' /\ WindowInv'
  BY <1>1, <1>3 DEF FlowInv, BufferInv, WindowInv
<1>8. PlainTypes'
  <2>1. delAckCount' \in 0 .. DelAckMax - 1
    BY <1>1, SocketAssumption
  <2> QED
    BY <1>1, <2>1 DEF FlowInv, PlainTypes
<1>9. ReachInv'
  BY <1>1, <1>6 DEF FlowInv, ReachInv
<1>10. DataInv'
  <2>1. delAckCount # 0
    BY <1>1
  <2>2. ASSUME NEW first \in Nat, NEW end \in Nat, Flowing(first, end)
        PROVE  Flowing(first, end)'
    BY <1>1, <2>1, <2>2 DEF Flowing
  <2>3. ~Probing
    BY <2>1 DEF Probing
  <2> QED
    BY <1>1, <2>2, <2>3 DEF FlowInv, DataInv
<1>11. AckInv'
  BY <1>1, <1>2, <1>5 DEF AckInv
<1>12. ClosedInv'
  BY <1>1, <1>6 DEF FlowInv, ClosedInv
<1>13. LostInv'
  <2>1. Missing(buf) # {} => rcvNext = buf.next /\ \A i \in DOMAIN acks : acks[i].ack = buf.next
    BY DEF FlowInv, LostInv
  <2>2. Missing(buf) # {} => \A i \in DOMAIN q : q[i].ack = buf.next
    BY <1>5, <2>1
  <2> QED
    BY <1>1, <1>2, <1>6, <2>2 DEF FlowInv, LostInv
<1>14. TimedInv'
  <2>1. Outstanding(buf)' = Outstanding(buf)
    BY <1>1
  <2> QED
    BY <1>1, <1>6, <2>1 DEF FlowInv, TimedInv
<1>15. RetryInv'
  <2>1. Used' = Used
    BY <1>1 DEF Used
  <2>2. ASSUME status = "up", losses < Used, retxRunning
        PROVE  ~Due' /\ rWnd # 0 /\ \A i \in DOMAIN q : buf.head < q[i].ack /\ q[i].ack <= buf.next
    <3>1. rWnd # 0 /\ \A i \in DOMAIN acks : buf.head < acks[i].ack /\ acks[i].ack <= buf.next
      BY <2>2 DEF FlowInv, RetryInv
    <3>2. rcvNext <= buf.next
      BY <1>6, <3>1 DEF FlowInv, ReachInv
    <3>3. ~Due'
      BY <1>2, <1>5 DEF Due
    <3>4. ASSUME NEW i \in DOMAIN q PROVE buf.head < q[i].ack /\ q[i].ack <= buf.next
      <4>1. CASE q[i].ack = rcvNext
        BY <1>4, <3>2, <4>1
      <4>2. CASE \E k \in DOMAIN acks : q[i] = acks[k]
        BY <3>1, <4>2
      <4> QED
        BY <1>5, <4>1, <4>2
    <3> QED
      BY <3>1, <3>3, <3>4
  <2> QED
    BY <1>1, <1>2, <1>6, <2>1, <2>2 DEF FlowInv, RetryInv
<1> QED
  BY <1>7, <1>8, <1>9, <1>10, <1>11, <1>12, <1>13, <1>14, <1>15 DEF FlowInv

\* TcpRxBuffer::Add takes what lies beyond what it has.
LEMMA TakenOf ==
    ASSUME RoomInv, NEW d, d.seq \in Nat, d.size \in Nat, d.seq <= rcvNext
    PROVE  /\ End(d) <= rcvNext => Taken(d) = {} /\ Cardinality(Taken(d)) = 0
           /\ End(d) > rcvNext /\ End(d) <= MaxRxSequence =>
                  Taken(d) # {} /\ rcvNext + Cardinality(Taken(d)) = End(d)
<1> DEFINE s == d.seq
           e == d.seq + d.size
           m == MaxRxSequence
           r == rcvNext
           T == (s .. e - 1) \cap (r .. m - 1)
<1>1. /\ s \in Nat /\ e \in Nat /\ m \in Nat /\ r \in Nat /\ s <= r
  BY RoomFacts
<1>2. Taken(d) = T
  BY DEF Taken
<1>3. End(d) = e
  BY DEF End
<1> HIDE DEF s, e, m, r
<1>4. ASSUME e <= r PROVE T = {} /\ Cardinality(T) = 0
  <2>1. T = {}
    BY <1>1, <1>4
  <2> QED
    BY <2>1, FS_EmptySet
<1>5. ASSUME e > r, e <= m PROVE T # {} /\ r + Cardinality(T) = e
  <2>1. T = r .. e - 1 /\ r \in T
    BY <1>1, <1>5
  <2>2. r \in Int /\ e - 1 \in Int
    BY <1>1
  <2>3. Cardinality(r .. e - 1) = IF r > e - 1 THEN 0 ELSE e - 1 - r + 1
    BY <2>2, FS_Interval
  <2>4. Cardinality(r .. e - 1) = e - r
    <3> HIDE DEF T
    <3> QED
      BY <1>1, <1>5, <2>3
  <2>5. Cardinality(T) = e - r
    BY <2>1, <2>4
  <2>6. r + Cardinality(T) = e
    <3> DEFINE c == Cardinality(T)
    <3>1. c = e - r
      BY <2>5
    <3> HIDE DEF c, T
    <3>2. r + c = e
      BY <1>1, <3>1
    <3> QED
      BY <3>2 DEF c
  <2> QED
    BY <2>1, <2>6
<1> HIDE DEF T
<1> QED
  BY <1>2, <1>3, <1>4, <1>5 DEF m, r

\* The answer to a segment: none yet, or an ACK of all that was received.
Counted(p) ==
    /\ delAckCount + 1 < DelAckMax /\ delAckCount' = delAckCount + 1
    /\ UNCHANGED acks /\ rcvNext < p /\ buf.head < p
Answered(p) ==
    /\ delAckCount' = 0
    /\ acks' = Append(acks, [ack |-> p, wnd |-> MaxRxSequence - p])

\* What the receiver answers, or owes an answer for, keeps the ACKs in order.
LEMMA FlowAnswer ==
    ASSUME FlowInv, NEW p \in Nat, rcvNext' = p, rcvNext <= p, p <= MaxRxSequence,
           buf.head < p \/ rWnd = 0, \A i \in DOMAIN acks : acks[i].ack < p,
           Counted(p) \/ Answered(p),
           UNCHANGED <<sender, losses, rcvRead>>
    PROVE  /\ AckInv' /\ PlainTypes' /\ BufferInv' /\ WindowInv' /\ ~Due'
           /\ \A i \in DOMAIN acks' : acks'[i].ack = p \/ \E k \in DOMAIN acks : acks'[i] = acks[k]
           /\ acks = <<>> =>
                  \/ acks' = <<>>
                  \/ delAckCount' = 0 /\ Len(acks') = 1
<1> DEFINE q == Append(acks, [ack |-> p, wnd |-> MaxRxSequence - p])
<1>1. /\ UNCHANGED <<buf, cwnd, rWnd, highRxAckMark, noDelay, retxRunning, sendEvent,
                     dataRetrCount, status, losses, rcvRead>>
  BY DEF sender, peerWindow, timers
<1>2. /\ MaxRxSequence' = MaxRxSequence /\ rcvNext \in Nat
      /\ delAckCount \in Nat /\ highRxAckMark \in Nat
  <2>1. delAckCount \in Nat
    BY SocketAssumption DEF FlowInv, PlainTypes
  <2> QED
    BY <1>1, <2>1, RoomFacts DEF MaxRxSequence, FlowInv
<1>3. BufferInv' /\ WindowInv'
  <2>1. highRxAckMark <= p
    BY <1>2 DEF FlowInv, WindowInv
  <2> QED
    BY <1>1, <1>2, <2>1 DEF FlowInv, BufferInv, WindowInv
<1>4. /\ Rising(q) /\ Len(q) = Len(acks) + 1 /\ q # <<>>
      /\ \A i \in DOMAIN q : q[i].ack = p \/ \E k \in DOMAIN acks : q[i] = acks[k]
      /\ \A i \in DOMAIN q : q[i].ack <= p
      /\ \A i \in DOMAIN q : q[i].ack = buf.head => rWnd = 0
      /\ \A i \in DOMAIN q :
             q[i].ack > highRxAckMark =>
                 /\ buf.next <= q[i].ack + q[i].wnd
                 /\ highRxAckMark + rWnd <= q[i].ack + q[i].wnd
  BY AckAdded
<1> HIDE DEF q
<1>5. CASE Counted(p)
  <2>1. AckInv'
    <3>1. \A i \in DOMAIN acks : acks[i].ack <= p
      BY RoomFacts DEF FlowInv
    <3> QED
      BY <1>1, <1>5, <3>1 DEF FlowInv, AckInv, Counted
  <2>2. delAckCount' \in 0 .. DelAckMax - 1 /\ delAckCount' # 0
    BY <1>2, <1>5, SocketAssumption DEF Counted
  <2>3. PlainTypes'
    BY <1>1, <2>2 DEF FlowInv, PlainTypes
  <2>4. ~Due'
    BY <2>2 DEF Due
  <2> QED
    BY <1>3, <1>5, <2>1, <2>3, <2>4 DEF Counted
<1>6. CASE Answered(p)
  <2>1. delAckCount' = 0 /\ acks' = q
    BY <1>6 DEF Answered, q
  <2>2. AckInv'
    BY <1>1, <1>4, <2>1 DEF AckInv
  <2>3. delAckCount' \in 0 .. DelAckMax - 1
    BY <2>1, SocketAssumption
  <2>4. PlainTypes'
    BY <1>1, <2>3 DEF FlowInv, PlainTypes
  <2>5. ~Due'
    BY <1>4, <2>1 DEF Due
  <2>6. acks = <<>> => Len(acks') = 1
    BY <1>4, <2>1
  <2> QED
    BY <1>3, <1>4, <2>1, <2>2, <2>4, <2>5, <2>6
<1> QED
  BY <1>5, <1>6

\* RecvData with a probe: it is taken or refused.
LEMMA FlowRecvProbe ==
    ASSUME FlowInv, RecvData, Probing, RoomInv', ProbeInv'
    PROVE  FlowInv'
<1> DEFINE d == [seq |-> buf.next, size |-> 1, probe |-> TRUE]
           p == rcvNext'
           n == buf.next
<1>1. /\ data = <<d>> /\ rWnd = 0 /\ n <= rcvNext /\ n < buf.tail
      /\ acks = <<>> /\ delAckCount = 0
  BY DEF Probing
<1>2. /\ n \in Nat /\ buf.head = n /\ Outstanding(buf) = {} /\ Missing(buf) = {}
  BY <1>1, BufferFacts DEF FlowInv, BufferInv, ClosedInv
<1>3. rcvNext \in Nat /\ MaxRxSequence \in Nat /\ rcvNext <= MaxRxSequence /\ n <= MaxRxSequence
  BY RoomFacts DEF FlowInv, WindowInv
<1>4. rcvNext = n \/ rcvNext = n + 1
  BY <1>1, <1>2, <1>3 DEF FlowInv, ReachInv
<1>5. /\ data' = <<>> /\ Head(data) = d
      /\ UNCHANGED <<buf, cwnd, rWnd, highRxAckMark, noDelay, retxRunning, sendEvent,
                     dataRetrCount, status, losses, rcvRead>>
      /\ UNCHANGED <<sender, losses, rcvRead>>
  <2> HIDE DEF d
  <2>1. Tail(data) = <<>> /\ Head(data) = d
    BY <1>1
  <2> QED
    BY <2>1 DEF RecvData, sender, peerWindow, timers
<1>6. /\ rcvNext' = rcvNext + Cardinality(Taken(d))
      /\ IF Taken(d) # {} /\ delAckCount + 1 < DelAckMax
         THEN delAckCount' = delAckCount + 1 /\ UNCHANGED acks
         ELSE AckNow
  <2> HIDE DEF d
  <2> QED
    BY <1>5 DEF RecvData
<1>7. \/ Taken(d) = {} /\ p = rcvNext
      \/ Taken(d) # {} /\ rcvNext = n /\ p = n + 1 /\ p <= MaxRxSequence
  <2>1. d.seq = n /\ d.size = 1 /\ End(d) = n + 1
    BY DEF End
  <2> HIDE DEF d
  <2>2. /\ End(d) <= rcvNext => Taken(d) = {} /\ Cardinality(Taken(d)) = 0
        /\ End(d) > rcvNext /\ End(d) <= MaxRxSequence =>
               Taken(d) # {} /\ rcvNext + Cardinality(Taken(d)) = End(d)
    BY <1>1, <1>2, <2>1, TakenOf DEF FlowInv
  <2>3. CASE rcvNext = n + 1
    BY <1>2, <1>3, <1>6, <2>1, <2>2, <2>3
  <2>4. CASE rcvNext = n /\ n + 1 <= MaxRxSequence
    BY <1>2, <1>3, <1>6, <2>1, <2>2, <2>4
  <2>5. CASE rcvNext = n /\ n = MaxRxSequence
    <3>1. Taken(d) = {}
      BY <1>2, <2>5 DEF Taken
    <3>2. Cardinality(Taken(d)) = 0
      BY <3>1, FS_EmptySet
    <3> QED
      BY <1>3, <1>6, <3>1, <3>2
  <2> QED
    BY <1>2, <1>3, <1>4, <2>3, <2>4, <2>5
<1>8. p \in Nat /\ rcvNext <= p /\ p <= MaxRxSequence /\ n <= p /\ (p = n \/ p = n + 1)
  BY <1>1, <1>2, <1>3, <1>4, <1>7
<1>9. Counted(p) \/ Answered(p)
  <2>1. AckNow => Answered(p)
    <3>1. MaxRxSequence' = MaxRxSequence
      BY <1>5 DEF MaxRxSequence
    <3> QED
      BY <3>1 DEF AckNow, Answered, AdvertisedWindowSize
  <2>2. Taken(d) # {} /\ delAckCount + 1 < DelAckMax /\ ~AckNow => Counted(p)
    <3> HIDE DEF d
    <3> QED
      BY <1>2, <1>6, <1>7 DEF Counted
  <2> QED
    BY <1>6, <2>1, <2>2
<1>10. \A i \in DOMAIN acks : acks[i].ack < p
  BY <1>1
<1> HIDE DEF d, n
<1>11. /\ AckInv' /\ PlainTypes' /\ BufferInv' /\ WindowInv' /\ ~Due'
       /\ acks' = <<>> \/ (delAckCount' = 0 /\ Len(acks') = 1)
  <2>1. rcvNext' = p
    OBVIOUS
  <2> HIDE DEF p
  <2> QED
    BY <1>1, <1>5, <1>8, <1>9, <1>10, <2>1, FlowAnswer
<1>12. AtMostOne'
  BY <1>5, <1>11 DEF AtMostOne
<1>13. ReachInv'
  BY <1>1, <1>2, <1>5, <1>8, <1>12 DEF ReachInv, n
<1>14. DataInv'
  BY <1>5, <1>8 DEF DataInv, n
<1>15. ClosedInv' /\ LostInv' /\ TimedInv'
  BY <1>2, <1>5, <1>12 DEF ClosedInv, LostInv, TimedInv, n
<1>16. RetryInv'
  <2>1. Used' = Used
    BY <1>5 DEF Used
  <2> QED
    BY <1>1, <1>5, <1>12, <2>1 DEF FlowInv, RetryInv
<1> QED
  BY <1>11, <1>13, <1>14, <1>15, <1>16 DEF FlowInv

\* RecvData with a segment: what of it is new is in sequence and fits; one that
\* was received before is alone on the path.
LEMMA FlowRecvSegment ==
    ASSUME FlowInv, RecvData, NEW first \in Nat, NEW end \in Nat, Flowing(first, end),
           RoomInv', ProbeInv'
    PROVE  FlowInv'
<1> DEFINE d == data[1]
           e == End(data[1])
           p == rcvNext'
           n == buf.next
           h == buf.head
           r == rcvNext
           old == e <= r
<1>1. /\ Chain(data, first, end) /\ first <= r /\ end <= n
      /\ Missing(buf) = {} => end = n
      /\ Len(data) # 1 => r <= e
      /\ old => acks = <<>> /\ delAckCount = 0 /\ h < n /\ h < r
  BY DEF Flowing
<1>2. /\ Len(data) \in Nat /\ Len(data) >= 1 /\ data \in Seq(Segments)
      /\ d.seq = first /\ d.size \in Nat /\ e \in Nat /\ first < e /\ e <= end
      /\ Len(data) = 1 => e = end
  <2>1. /\ Len(data) \in Nat /\ Len(data) >= 1 /\ data \in Seq(Segments) /\ d.seq = first
        /\ Len(data) = 1 => e = end
    BY <1>1, ChainMembers DEF Chain
  <2>2. e \in Nat /\ first < e /\ e <= end
    BY <1>1, <2>1, ChainMembers
  <2>3. d \in Segments
    BY <2>1, ElementOfSeq
  <2>4. d.size \in Nat
    <3> HIDE DEF d
    <3>1. d.size \in 1 .. SegmentSize
      BY <2>3 DEF Segments
    <3> QED
      BY <3>1, SocketAssumption
  <2> QED
    BY <2>1, <2>2, <2>4
<1>3. h \in Nat /\ n \in Nat /\ h <= n
  BY BufferFacts DEF FlowInv, BufferInv
<1>4. r \in Nat /\ MaxRxSequence \in Nat /\ r <= MaxRxSequence /\ n <= MaxRxSequence
      /\ highRxAckMark \in Nat /\ h <= highRxAckMark /\ highRxAckMark <= r
  BY RoomFacts DEF FlowInv, WindowInv
<1>5. /\ UNCHANGED <<buf, cwnd, rWnd, highRxAckMark, noDelay, retxRunning, sendEvent,
                     dataRetrCount, status, losses, rcvRead>>
      /\ UNCHANGED <<sender, losses, rcvRead>>
      /\ data' = Tail(data) /\ Head(data) = d
  <2>1. Head(data) = data[1]
    BY <1>2
  <2> QED
    BY <2>1 DEF RecvData, sender, peerWindow, timers
<1>6. /\ rcvNext' = rcvNext + Cardinality(Taken(d))
      /\ IF Taken(d) # {} /\ delAckCount + 1 < DelAckMax
         THEN delAckCount' = delAckCount + 1 /\ UNCHANGED acks
         ELSE AckNow
  <2> HIDE DEF d
  <2> QED
    BY <1>5 DEF RecvData
<1>7. h < n /\ rWnd # 0
  <2>1. h < n
    <3>1. CASE old
      BY <1>1, <3>1
    <3>2. CASE ~old
      BY <1>1, <1>2, <1>3, <1>4, <3>2
    <3> QED
      BY <3>1, <3>2
  <2> QED
    BY <1>3, <2>1 DEF FlowInv, ClosedInv
<1>8. r <= n
  BY <1>3, <1>7 DEF FlowInv, ReachInv
<1>9. \/ old /\ Taken(d) = {} /\ p = r
      \/ ~old /\ Taken(d) # {} /\ p = e
  <2>1. /\ e <= r => Taken(d) = {} /\ Cardinality(Taken(d)) = 0
        /\ e > r /\ e <= MaxRxSequence => Taken(d) # {} /\ r + Cardinality(Taken(d)) = e
    <3> HIDE DEF d
    <3>1. d.seq \in Nat /\ d.size \in Nat /\ d.seq <= r
      BY <1>1, <1>2
    <3>2. End(d) = e
      BY DEF d
    <3> HIDE DEF e, r
    <3> QED
      BY <3>1, <3>2, TakenOf DEF FlowInv, r
  <2>2. e <= MaxRxSequence
    BY <1>1, <1>2, <1>3, <1>4
  <2> HIDE DEF d, e
  <2>3. CASE old
    BY <1>4, <1>6, <2>1, <2>3
  <2>4. CASE ~old
    BY <1>2, <1>4, <1>6, <2>1, <2>2, <2>4
  <2> QED
    BY <2>3, <2>4
<1>10. p \in Nat /\ r <= p /\ p <= n /\ p <= MaxRxSequence /\ h < p
  <2>1. CASE old
    BY <1>1, <1>4, <1>8, <1>9, <2>1
  <2>2. CASE ~old
    <3> HIDE DEF e, p
    <3>1. p = e
      BY <1>9, <2>2
    <3> QED
      BY <1>1, <1>2, <1>3, <1>4, <2>2, <3>1
  <2> QED
    BY <2>1, <2>2
<1>11. \A i \in DOMAIN acks : acks[i].ack < p
  <2>1. CASE old
    BY <1>1, <2>1
  <2>2. CASE ~old
    <3> HIDE DEF e, p
    <3>1. p = e
      BY <1>9, <2>2
    <3>2. \A i \in DOMAIN acks : acks[i].ack \in Nat /\ acks[i].ack <= r
      BY RoomFacts DEF FlowInv, AckInv
    <3> QED
      BY <1>2, <1>4, <2>2, <3>1, <3>2
  <2> QED
    BY <2>1, <2>2
<1>12. Counted(p) \/ Answered(p)
  <2>1. AckNow => Answered(p)
    <3>1. MaxRxSequence' = MaxRxSequence
      BY <1>5 DEF MaxRxSequence
    <3> QED
      BY <3>1 DEF AckNow, Answered, AdvertisedWindowSize
  <2>2. Taken(d) # {} /\ delAckCount + 1 < DelAckMax /\ ~AckNow => Counted(p)
    <3> HIDE DEF d, e
    <3> QED
      BY <1>2, <1>4, <1>6, <1>9, <1>10 DEF Counted
  <2> QED
    BY <1>6, <2>1, <2>2
<1> HIDE DEF d
<1>13. /\ AckInv' /\ PlainTypes' /\ BufferInv' /\ WindowInv' /\ ~Due'
       /\ \A i \in DOMAIN acks' : acks'[i].ack = p \/ \E k \in DOMAIN acks : acks'[i] = acks[k]
       /\ acks = <<>> => acks' = <<>> \/ (delAckCount' = 0 /\ Len(acks') = 1)
  <2>1. rcvNext' = p
    OBVIOUS
  <2> HIDE DEF p
  <2> QED
    BY <1>4, <1>5, <1>10, <1>11, <1>12, <2>1, FlowAnswer
<1>14. ReachInv'
  BY <1>5, <1>10 DEF ReachInv
<1>15. Missing(buf) # {} => r = n
  BY DEF FlowInv, LostInv
<1>16. Len(data) # 1 => p = e
  <2> HIDE DEF e
  <2> QED
    BY <1>1, <1>2, <1>4, <1>9
<1>17. DataInv'
  <2>1. CASE Len(data) = 1
    <3>1. data' = <<>>
      BY <1>2, <1>5, <2>1
    <3>2. n <= p
      <4> HIDE DEF e, p
      <4>1. CASE Missing(buf) # {}
        BY <1>10, <1>15, <4>1
      <4>2. CASE Missing(buf) = {}
        BY <1>1, <1>2, <1>3, <1>4, <1>9, <2>1, <4>2
      <4> QED
        BY <4>1, <4>2
    <3> QED
      BY <1>5, <3>1, <3>2 DEF DataInv
  <2>2. CASE Len(data) # 1
    <3> DEFINE q == Tail(data)
    <3>1. Chain(q, e, end) /\ q[1] = data[2]
      BY <1>1, <2>2, ChainTail
    <3> HIDE DEF q
    <3>2. e < End(q[1]) /\ End(q[1]) \in Nat
      <4> HIDE DEF e
      <4>1. e \in Nat /\ end \in Nat
        BY <1>2
      <4> QED
        BY <3>1, <4>1, ChainMembers
    <3>3. PICK m \in Nat : m = e
      BY <1>2
    <3>4. Flowing(m, end)'
      <4>1. p = m /\ data' = q
        BY <1>5, <1>16, <2>2, <3>3 DEF q
      <4>2. Missing(buf)' = Missing(buf) /\ buf' = buf
        BY <1>5
      <4>3. ~(End(q[1]) <= p) /\ p <= End(q[1]) /\ m <= p
        <5> HIDE DEF e, p
        <5> QED
          BY <3>2, <3>3, <4>1
      <4>4. rcvNext' = p
        BY DEF p
      <4>5. Chain(q, m, end) /\ end <= n /\ (Missing(buf) = {} => end = n)
        BY <1>1, <3>1, <3>3
      <4> HIDE DEF p
      <4> QED
        BY <4>1, <4>2, <4>3, <4>4, <4>5 DEF Flowing
    <3> QED
      BY <1>2, <3>4 DEF DataInv
  <2> QED
    BY <2>1, <2>2
<1>18. ClosedInv'
  BY <1>5, <1>7 DEF ClosedInv
<1>19. ~Due
  <2>1. data # <<>>
    BY DEF RecvData
  <2> QED
    BY <2>1 DEF Due
<1>20. LostInv'
  <2> SUFFICES ASSUME Missing(buf) # {} PROVE LostInv'
    BY <1>5 DEF LostInv
  <2>1. old
    <3> HIDE DEF e
    <3> QED
      BY <1>1, <1>2, <1>3, <1>15
  <2>2. p = n /\ acks = <<>> /\ r = n
    BY <1>1, <1>9, <1>15, <2>1
  <2>3. /\ cwnd = SegmentSize /\ buf.lost = Outstanding(buf)
        /\ OneResent(buf) /\ (data = <<>> \/ Len(data) = 1)
    BY <1>19 DEF FlowInv, LostInv
  <2>4. data' = <<>>
    <3>1. Len(data) = 1
      BY <1>2, <2>3
    <3> QED
      BY <1>2, <1>5, <3>1
  <2>5. \A i \in DOMAIN acks' : acks'[i].ack = n
    BY <1>13, <2>2
  <2> QED
    BY <1>5, <2>2, <2>3, <2>4, <2>5 DEF LostInv
<1>21. TimedInv'
  <2>1. Outstanding(buf)' = Outstanding(buf)
    BY <1>5
  <2> QED
    BY <1>5, <1>19, <2>1 DEF FlowInv, TimedInv
<1>22. RetryInv'
  <2>1. Used' = Used
    BY <1>5 DEF Used
  <2>2. ASSUME status = "up", losses < Used, retxRunning
        PROVE  \A i \in DOMAIN acks' : h < acks'[i].ack /\ acks'[i].ack <= n
    <3>1. \A i \in DOMAIN acks : h < acks[i].ack /\ acks[i].ack <= n
      BY <2>2 DEF FlowInv, RetryInv
    <3> HIDE DEF p
    <3> QED
      BY <1>10, <1>13, <3>1
  <2>3. ~(status = "up" /\ losses < Used /\ ~retxRunning)
    BY <1>7, <1>19 DEF FlowInv, RetryInv
  <2> QED
    BY <1>5, <1>7, <1>13, <2>1, <2>2, <2>3 DEF FlowInv, RetryInv
<1> QED
  BY <1>13, <1>14, <1>17, <1>18, <1>20, <1>21, <1>22 DEF FlowInv

\* RecvData takes a probe or a segment.
LEMMA FlowRecvData ==
    ASSUME FlowInv, RecvData, RoomInv', ProbeInv'
    PROVE  FlowInv'
<1>1. data # <<>>
  BY DEF RecvData
<1> QED
  BY <1>1, FlowRecvProbe, FlowRecvSegment DEF FlowInv, DataInv

----------------------------------------------------------------------------
(* What SendPendingData does *)

\* A first turn that sends nothing is the last.
LEMMA LoopRefused ==
    ASSUME NEW b, NEW w, NEW c, ~MaySend(NothingSent(b), w, c)
    PROVE  Loop(b, w, c) \subseteq {NothingSent(b)}
<1>1. Turn(NothingSent(b), w, c) = NothingSent(b)
  BY DEF Turn
<1> QED
  BY <1>1, LoopInduction

\* With everything lost and nothing sent again, only the silly window test or
\* Nagle's holds the transmission back.
LEMMA HeldBackStalled ==
    ASSUME NEW b, Sound(b), b.sacked = {}, Outstanding(b) # {},
           b.lost = Outstanding(b), b.retrans = {},
           NEW w \in Nat, w # 0, ~MaySend(NothingSent(b), w, SegmentSize)
    PROVE  \/ w \in 1 .. SegmentSize - 1 /\ b.tail > b.head + w
           \/ ~noDelay /\ b.tail - b.head < SegmentSize
<1> DEFINE avail == AvailableWindow(b, w, SegmentSize)
<1>1. /\ b.head \in Nat /\ b.next \in Nat /\ b.tail \in Nat /\ SegmentSize \in Nat
      /\ SegmentSize >= 1
  BY BufferFacts, SocketAssumption
<1>2. Missing(b) = b.head .. b.next - 1 /\ b.head < b.next /\ BytesInFlight(b) = 0
  <2>1. Missing(b) = b.lost \ b.retrans /\ BytesInFlight(b) = Cardinality(b.retrans)
    BY OutstandingSize
  <2>2. Missing(b) = b.head .. b.next - 1
    BY <2>1 DEF Outstanding
  <2>3. Cardinality(b.retrans) = 0
    BY FS_EmptySet
  <2>4. b.head # b.next /\ b.head <= b.next
    BY BufferFacts
  <2> QED
    BY <1>1, <2>1, <2>2, <2>3, <2>4
<1>3. NextSeq(b) = b.head
  <2>1. Missing(b) \in SUBSET Nat /\ Missing(b) # {}
    BY <1>1, <1>2
  <2>2. Min(Missing(b)) \in Missing(b) /\ \A y \in Missing(b) : Min(Missing(b)) <= y
    BY <2>1, MinOfNaturals
  <2>3. b.head \in Missing(b)
    BY <1>1, <1>2
  <2> DEFINE m == Min(Missing(b))
  <2> HIDE DEF m
  <2>4. m \in Nat /\ m >= b.head /\ m <= b.head
    BY <1>1, <1>2, <2>2, <2>3 DEF m
  <2> QED
    BY <1>1, <2>1, <2>4 DEF NextSeq, m
<1>4. avail = (IF w <= SegmentSize THEN w ELSE SegmentSize)
  BY <1>1, <1>2, AvailableBelow
<1>5. HasNextSeg(b, w)
  BY <1>1, <1>2 DEF HasNextSeg
<1>6. AvailableData(b) = b.tail - b.head
  BY <1>3 DEF AvailableData
<1>7. avail > 0
  BY <1>1, <1>4
<1>8. SillyWindow(b, avail) \/ NagleWaits(b)
  <2>1. NothingSent(b).buf = b
    BY DEF NothingSent
  <2> QED
    BY <1>5, <1>7, <2>1 DEF MaySend
<1> HIDE DEF avail
<1>9. CASE SillyWindow(b, avail)
  <2>1. avail < SegmentSize /\ b.tail - b.head > avail
    BY <1>6, <1>9 DEF SillyWindow
  <2>2. w \in 1 .. SegmentSize - 1 /\ b.tail > b.head + w
    BY <1>1, <1>4, <2>1
  <2> QED
    BY <2>2
<1>10. CASE NagleWaits(b)
  BY <1>6, <1>10 DEF NagleWaits
<1> QED
  BY <1>8, <1>9, <1>10

\* SendPendingData sends nothing, everything that was missing and more, or one
\* segment of what was missing.
HeldBack(b, w, c, armed) ==
    /\ ~MaySend(NothingSent(b), w, c)
    /\ buf' = b /\ data' = data /\ retxRunning' = armed
Carries(s) == buf' = s.buf /\ data' = data \o s.sent /\ retxRunning' = TRUE

\* The outcomes are all there are.
LEMMA SendOutcome ==
    ASSUME FlowInv, NEW b, Sound(b), b.sacked = {}, NEW w \in Nat, NEW c \in Nat,
           Ready(b, w, c), NEW armed \in BOOLEAN, SendPendingData(b, w, c, armed)
    PROVE  \/ HeldBack(b, w, c, armed)
           \/ /\ \E s : (AllSent(b, w, s) \/ PartSent(b, c, s)) /\ Carries(s)
              /\ MaySend(NothingSent(b), w, c)
<1>1. PICK s \in Loop(b, w, c) :
          /\ buf' = s.buf /\ data' = data \o s.sent
          /\ retxRunning' = (armed \/ s.sent # <<>>)
  BY DEF SendPendingData
<1>2. CASE ~MaySend(NothingSent(b), w, c)
  <2>1. s = NothingSent(b)
    BY <1>2, LoopRefused
  <2>2. s.buf = b /\ s.sent = <<>>
    BY <2>1 DEF NothingSent
  <2>3. data \o <<>> = data
    <3>1. ASSUME NEW first \in Nat, NEW end \in Nat, Flowing(first, end)
          PROVE  data \o <<>> = data
      BY <3>1 DEF Flowing, Chain
    <3>2. CASE Probing
      <4> DEFINE d == [seq |-> buf.next, size |-> 1, probe |-> TRUE]
      <4>1. data = <<d>>
        BY <3>2 DEF Probing
      <4> HIDE DEF d
      <4>2. data \in Seq({d})
        BY <4>1
      <4> QED
        BY <4>2
    <3>3. CASE data = <<>>
      BY <3>3
    <3> QED
      BY <3>1, <3>2, <3>3 DEF FlowInv, DataInv
  <2>4. retxRunning' = armed
    BY <1>1, <2>2
  <2> QED
    BY <1>1, <1>2, <2>2, <2>3, <2>4 DEF HeldBack
<1>3. CASE MaySend(NothingSent(b), w, c)
  <2>1. AllSent(b, w, s) \/ PartSent(b, c, s)
    <3>1. ~NoneSent(b, w, c, s)
      BY <1>3 DEF NoneSent
    <3> QED
      BY <3>1, LoopOutcome
  <2>2. s.sent # <<>>
    <3>1. CASE AllSent(b, w, s)
      <4>1. Len(s.sent) >= 1
        BY <3>1 DEF AllSent, Chain
      <4>2. Len(<<>>) = 0
        OBVIOUS
      <4> QED
        BY <4>1, <4>2
    <3>2. CASE PartSent(b, c, s)
      BY <3>2 DEF PartSent
    <3> QED
      BY <2>1, <3>1, <3>2
  <2>3. retxRunning' = TRUE
    BY <1>1, <2>2
  <2> QED
    BY <1>1, <1>3, <2>1, <2>3 DEF Carries
<1> QED
  BY <1>2, <1>3

\* A closed window holds everything back.
LEMMA ClosedHeldBack ==
    ASSUME NEW b, Sound(b), b.sacked = {}, NEW c \in Nat
    PROVE  ~MaySend(NothingSent(b), 0, c)
<1>1. AvailableWindow(b, 0, c) \in Nat /\ AvailableWindow(b, 0, c) <= 0
  BY AvailableBelow
<1>2. NothingSent(b).buf = b
  BY DEF NothingSent
<1>3. ~(AvailableWindow(b, 0, c) > 0)
  <2> DEFINE n == AvailableWindow(b, 0, c)
  <2> HIDE DEF n
  <2>1. n \in Nat /\ n <= 0
    BY <1>1 DEF n
  <2>2. ~(n > 0)
    BY <2>1
  <2> QED
    BY <2>2 DEF n
<1> QED
  BY <1>2, <1>3 DEF MaySend

\* The buffer b is about to be sent from, with nothing on the path: the windows
\* are w and c and the retransmission timer is armed or not.
AboutToSend(b, w, c, armed) ==
    /\ Sound(b) /\ b.sacked = {} /\ b.tail <= N + 1
    /\ w \in Nat /\ c \in SegmentSize .. MaxWindow /\ armed \in BOOLEAN
    /\ b.next <= rcvNext /\ rcvNext <= b.next + 1
    /\ rcvNext = b.next + 1 => b.head = b.next /\ b.next < b.tail
    /\ b.next <= MaxRxSequence
    /\ b.head = b.next \/ b.next <= b.head + w
    /\ w = 0 => b.head = b.next
    /\ Missing(b) # {} =>
           b.lost = Outstanding(b) /\ b.retrans = {} /\ c = SegmentSize /\ rcvNext = b.next
    /\ ~armed /\ Outstanding(b) # {} => Missing(b) # {}

\* The rest of the new state: the path is empty, the windows are w and c, the
\* retries and losses are those RetryInv allows.
Resting(b, w, c, armed) ==
    /\ data = <<>> /\ acks' = <<>> /\ delAckCount' = 0
    /\ UNCHANGED <<rcvNext, rcvRead, losses, noDelay>>
    /\ status' = "up" /\ cwnd' = c /\ rWnd' = w
    /\ b.head <= highRxAckMark' /\ highRxAckMark' <= b.head + 1
    /\ highRxAckMark' <= rcvNext
    /\ dataRetrCount' \in 0 .. DataRetries /\ sendEvent' \in BOOLEAN
    /\ Used' <= losses + 1 /\ (armed => Used' <= losses)

\* What the three outcomes have in common.
LEMMA RestingTypes ==
    ASSUME FlowInv, NEW b, NEW w, NEW c, NEW armed, AboutToSend(b, w, c, armed),
           Resting(b, w, c, armed), retxRunning' \in BOOLEAN, RoomInv'
    PROVE  /\ PlainTypes' /\ MaxRxSequence' = MaxRxSequence /\ MaxRxSequence \in Nat
           /\ b.head \in Nat /\ b.next \in Nat /\ b.tail \in Nat /\ b.head <= b.next
           /\ rcvNext \in Nat /\ w \in Nat /\ highRxAckMark' \in Nat
           /\ highRxAckMark' + w <= MaxRxSequence
           /\ losses \in Nat /\ Used' \in Nat /\ DOMAIN acks' = {}
           /\ SegmentSize \in Nat /\ SegmentSize >= 1
<1>1. /\ SegmentSize \in Nat /\ SegmentSize >= 1 /\ DelAckMax \in Nat /\ DelAckMax >= 1
      /\ DataRetries \in Nat /\ MaxLoss \in Nat
  BY SocketAssumption, BoundsAssumption
<1>2. MaxRxSequence' = MaxRxSequence
  BY DEF Resting, MaxRxSequence
<1>3. MaxRxSequence \in Nat /\ rcvNext \in Nat
  BY RoomFacts DEF FlowInv
<1>4. /\ b.head \in Nat /\ b.next \in Nat /\ b.tail \in Nat /\ b.head <= b.next
  BY BufferFacts DEF AboutToSend
<1>5. highRxAckMark' \in Nat /\ highRxAckMark' + rWnd' <= MaxRxSequence'
  BY DEF RoomInv, RoomBelieved
<1>6. losses \in 0 .. MaxLoss
  BY DEF FlowInv, PlainTypes
<1>7. Used' \in Nat
  <2>1. dataRetrCount' \in 0 .. DataRetries
    BY DEF Resting
  <2> DEFINE k == dataRetrCount'
  <2>2. Used' = DataRetries - k
    BY DEF Used
  <2>3. k \in 0 .. DataRetries
    BY <2>1
  <2> HIDE DEF k
  <2>4. DataRetries - k \in Nat
    BY <1>1, <2>3
  <2> QED
    BY <2>2, <2>4
<1>8. PlainTypes'
  <2>1. delAckCount' \in 0 .. DelAckMax - 1
    BY <1>1 DEF Resting
  <2>2. noDelay \in NoDelays
    BY DEF FlowInv, PlainTypes
  <2> QED
    BY <1>6, <2>1, <2>2 DEF PlainTypes, Resting, AboutToSend
<1>9. DOMAIN acks' = {}
  BY DEF Resting
<1>10. highRxAckMark' + w <= MaxRxSequence /\ w \in Nat
  BY <1>2, <1>5 DEF Resting, AboutToSend
<1>11. losses \in Nat
  BY <1>1, <1>6
<1> QED
  BY <1>1, <1>2, <1>3, <1>4, <1>5, <1>7, <1>8, <1>9, <1>10, <1>11

\* Nothing is sent.
LEMMA AloneHeldBack ==
    ASSUME FlowInv, NEW b, NEW w, NEW c, NEW armed, AboutToSend(b, w, c, armed),
           Resting(b, w, c, armed), HeldBack(b, w, c, armed), RoomInv', ProbeInv'
    PROVE  FlowInv'
<1>1. /\ buf' = b /\ data' = <<>> /\ acks' = <<>> /\ delAckCount' = 0 /\ rcvNext' = rcvNext
      /\ retxRunning' = armed /\ armed \in BOOLEAN /\ cwnd' = c /\ rWnd' = w
      /\ losses' = losses /\ noDelay' = noDelay /\ status' = "up"
      /\ ~MaySend(NothingSent(b), w, c)
  BY DEF Resting, HeldBack, AboutToSend
<1>2. /\ PlainTypes' /\ MaxRxSequence' = MaxRxSequence /\ DOMAIN acks' = {}
      /\ b.next \in Nat /\ rcvNext \in Nat /\ losses \in Nat /\ Used' \in Nat
      /\ w \in Nat
  <2>1. retxRunning' \in BOOLEAN
    BY <1>1
  <2> QED
    BY <2>1, RestingTypes
<1>3. AtMostOne' /\ Due'
  BY <1>1 DEF AtMostOne, Due
<1>4. BufferInv' /\ WindowInv'
  BY <1>1, <1>2 DEF AboutToSend, Resting, BufferInv, WindowInv
<1>5. ReachInv' /\ DataInv'
  <2>1. b.next <= rcvNext /\ (rcvNext = b.next \/ rcvNext = b.next + 1)
        /\ (rcvNext = b.next + 1 => b.head = b.next /\ b.next < b.tail)
    BY <1>2 DEF AboutToSend
  <2> QED
    BY <1>1, <1>2, <1>3, <2>1 DEF ReachInv, DataInv
<1>6. AckInv'
  BY <1>1, <1>2 DEF AckInv, Rising
<1>7. ClosedInv'
  BY <1>1, <1>3 DEF AboutToSend, ClosedInv
<1>8. LostInv'
  BY <1>1, <1>2, <1>3 DEF AboutToSend, LostInv
<1>9. TimedInv'
  <2> SUFFICES ASSUME Outstanding(b) # {}, ~armed PROVE TimedInv'
    BY <1>1 DEF TimedInv
  <2>1. /\ b.lost = Outstanding(b) /\ b.retrans = {} /\ c = SegmentSize
    BY DEF AboutToSend
  <2>2. w # 0 /\ Sound(b) /\ b.sacked = {}
    BY BufferFacts DEF AboutToSend
  <2>3. \/ w \in 1 .. SegmentSize - 1 /\ b.tail > b.head + w
        \/ ~noDelay /\ b.tail - b.head < SegmentSize
    BY <1>1, <1>2, <2>1, <2>2, HeldBackStalled
  <2>4. Stalled'
    BY <1>1, <2>3 DEF Stalled
  <2> QED
    BY <1>1, <1>3, <2>1, <2>4 DEF TimedInv
<1>10. RetryInv'
  <2>1. Used' <= losses + 1 /\ (armed => Used' <= losses)
    BY DEF Resting
  <2>2. armed => ~(losses < Used')
    BY <1>2, <2>1
  <2> QED
    BY <1>1, <1>3, <2>1, <2>2 DEF RetryInv
<1> QED
  BY <1>2, <1>4, <1>5, <1>6, <1>7, <1>8, <1>9, <1>10 DEF FlowInv

\* All that was missing is sent, or new data is.
LEMMA AloneAllSent ==
    ASSUME FlowInv, NEW b, NEW w, NEW c, NEW armed, AboutToSend(b, w, c, armed),
           Resting(b, w, c, armed), NEW s, AllSent(b, w, s), Carries(s), RoomInv', ProbeInv'
    PROVE  FlowInv'
<1> DEFINE x == s.buf
           q == s.sent
           end == s.buf.next
           first == FirstSent(b)
           n == b.next
           h == b.head
<1>1. /\ buf' = x /\ acks' = <<>> /\ delAckCount' = 0 /\ rcvNext' = rcvNext
      /\ retxRunning' = TRUE /\ cwnd' = c /\ rWnd' = w
      /\ losses' = losses /\ noDelay' = noDelay /\ status' = "up"
      /\ data = <<>> /\ data' = data \o q
  BY DEF Resting, Carries
<1>2. /\ Sound(x) /\ x.sacked = {} /\ Missing(x) = {} /\ x.head = h /\ x.tail = b.tail
      /\ n <= end /\ end <= h + w /\ Chain(q, first, end)
      /\ Missing(b) # {} => End(q[1]) = n
  BY DEF AllSent
<1>3. data' = q
  <2>1. q \in Seq(Segments)
    BY <1>2 DEF Chain
  <2> QED
    BY <1>1, <2>1
<1>4. /\ PlainTypes' /\ MaxRxSequence' = MaxRxSequence /\ MaxRxSequence \in Nat
      /\ h \in Nat /\ n \in Nat /\ b.tail \in Nat /\ h <= n
      /\ rcvNext \in Nat /\ w \in Nat /\ highRxAckMark' \in Nat
      /\ highRxAckMark' + w <= MaxRxSequence
      /\ losses \in Nat /\ Used' \in Nat /\ DOMAIN acks' = {}
  <2>1. retxRunning' \in BOOLEAN
    BY <1>1
  <2> QED
    BY <2>1, RestingTypes
<1>5. end \in Nat /\ first \in Nat
  BY <1>2, <1>4, BufferFacts DEF FirstSent
<1>6. first < end /\ first < End(q[1]) /\ End(q[1]) \in Nat
  <2> HIDE DEF first, end, q
  <2> QED
    BY <1>2, <1>5, ChainMembers
<1>7. /\ n <= rcvNext /\ rcvNext <= n + 1 /\ (rcvNext = n + 1 => h = n)
      /\ Missing(b) # {} => rcvNext = n
      /\ h <= highRxAckMark' /\ highRxAckMark' <= h + 1 /\ highRxAckMark' <= rcvNext
  BY DEF AboutToSend, Resting
<1>8. Missing(b) # {} => first = h /\ h < n
  BY <1>4, BufferFacts DEF FirstSent, AboutToSend
<1>9. Missing(b) = {} => first = n
  BY DEF FirstSent
<1> HIDE DEF x, q, end, first, n, h
<1>10. /\ n <= end /\ h < end /\ end <= MaxRxSequence /\ w # 0 /\ rcvNext <= end
       /\ first <= rcvNext /\ rcvNext <= End(q[1])
       /\ End(q[1]) <= rcvNext => h < rcvNext
  <2> DEFINE e == End(q[1])
             m == highRxAckMark'
             r == rcvNext
             max == MaxRxSequence
  <2>1. /\ h \in Nat /\ n \in Nat /\ r \in Nat /\ w \in Nat /\ end \in Nat /\ first \in Nat
        /\ e \in Nat /\ m \in Nat /\ max \in Nat
        /\ h <= n /\ m + w <= max /\ h <= m /\ n <= end /\ end <= h + w
        /\ first < end /\ first < e /\ n <= r /\ r <= n + 1 /\ (r = n + 1 => h = n)
    BY <1>2, <1>4, <1>5, <1>6, <1>7
  <2>2. \/ first = n
        \/ first = h /\ h < n /\ r = n /\ e = n
    BY <1>2, <1>7, <1>8, <1>9
  <2> HIDE DEF e, m, r, max
  <2>3. /\ n <= end /\ h < end /\ end <= max /\ w # 0
    BY ONLY <2>1, <2>2
  <2>4. r <= end /\ first <= r /\ r <= e /\ (e <= r => h < r)
    BY ONLY <2>1, <2>2
  <2> QED
    BY <2>3, <2>4 DEF e, r, max
<1>11. buf'.head = h /\ buf'.next = end /\ buf'.tail = b.tail /\ Missing(buf)' = {}
  BY <1>1, <1>2 DEF x, end
<1>12. ~Due' /\ DOMAIN acks' = {}
  <2>1. Len(q) >= 1
    BY <1>2 DEF Chain
  <2>2. data' # <<>>
    BY <1>3, <2>1
  <2> QED
    BY <1>4, <2>2 DEF Due
<1>13. BufferInv' /\ WindowInv'
  BY <1>1, <1>2, <1>4, <1>7, <1>10, <1>11 DEF AboutToSend, BufferInv, WindowInv
<1>14. ReachInv'
  BY <1>1, <1>10, <1>11 DEF ReachInv
<1>15. DataInv'
  <2>1. Flowing(first, end)'
    BY <1>1, <1>2, <1>3, <1>5, <1>10, <1>11 DEF Flowing
  <2> QED
    BY <1>5, <2>1 DEF DataInv
<1>16. AckInv' /\ ClosedInv' /\ LostInv' /\ TimedInv'
  BY <1>1, <1>10, <1>11, <1>12 DEF AckInv, Rising, ClosedInv, LostInv, TimedInv
<1>17. RetryInv'
  <2>1. Used' <= losses + 1
    BY DEF Resting
  <2> QED
    BY <1>1, <1>10, <1>12, <2>1 DEF RetryInv
<1> QED
  BY <1>4, <1>13, <1>14, <1>15, <1>16, <1>17 DEF FlowInv

\* A segment of what was missing is sent.
LEMMA AlonePartSent ==
    ASSUME FlowInv, NEW b, NEW w, NEW c, NEW armed, AboutToSend(b, w, c, armed),
           Resting(b, w, c, armed), NEW s, PartSent(b, c, s), Carries(s), RoomInv', ProbeInv'
    PROVE  FlowInv'
<1> DEFINE d == [seq |-> b.head, size |-> SegmentSize, probe |-> FALSE]
           n == b.next
           h == b.head
           end == b.head + SegmentSize
<1>1. /\ buf' = s.buf /\ acks' = <<>> /\ delAckCount' = 0 /\ rcvNext' = rcvNext
      /\ retxRunning' = TRUE /\ cwnd' = c /\ rWnd' = w
      /\ losses' = losses /\ noDelay' = noDelay /\ status' = "up"
      /\ data = <<>> /\ data' = data \o s.sent
  BY DEF Resting, Carries
<1>2. /\ Sound(s.buf) /\ s.buf.sacked = {} /\ OneResent(s.buf)
      /\ s.buf.lost = Outstanding(s.buf)
      /\ s.buf.head = h /\ s.buf.next = n /\ s.buf.tail = b.tail
      /\ s.sent = <<d>> /\ end < n /\ c = SegmentSize /\ Missing(b) # {}
  BY DEF PartSent
<1>3. /\ PlainTypes' /\ MaxRxSequence' = MaxRxSequence /\ MaxRxSequence \in Nat
      /\ h \in Nat /\ n \in Nat /\ b.tail \in Nat /\ h <= n
      /\ rcvNext \in Nat /\ w \in Nat /\ highRxAckMark' \in Nat
      /\ highRxAckMark' + w <= MaxRxSequence
      /\ losses \in Nat /\ Used' \in Nat /\ DOMAIN acks' = {}
      /\ SegmentSize \in Nat /\ SegmentSize >= 1
  <2>1. retxRunning' \in BOOLEAN
    BY <1>1
  <2> QED
    BY <2>1, RestingTypes
<1>4. Chain(<<d>>, h, end)
  BY <1>3, ChainOne
<1>5. end \in Nat /\ h < end /\ h < n /\ End(d) = end
  BY <1>2, <1>3 DEF End
<1>6. /\ rcvNext = n /\ h <= highRxAckMark' /\ highRxAckMark' <= h + 1
      /\ highRxAckMark' <= rcvNext /\ n <= MaxRxSequence
      /\ w # 0 /\ n <= h + w
  BY <1>2, <1>3, <1>5 DEF AboutToSend, Resting
<1> HIDE DEF d, end
<1>7. data' = <<d>> /\ Len(data') = 1
  BY <1>1, <1>2
<1>8. Missing(buf)' # {}
  <2>1. Missing(s.buf) = s.buf.lost \ s.buf.retrans
    BY <1>2, BufferFacts
  <2>2. end \in Outstanding(s.buf) /\ end \notin s.buf.retrans
    BY <1>2, <1>3, <1>5 DEF Outstanding, OneResent, end
  <2> QED
    BY <1>1, <1>2, <2>1, <2>2
<1>9. /\ buf'.head = h /\ buf'.next = n /\ buf'.tail = b.tail
      /\ Outstanding(buf)' = Outstanding(s.buf)
  BY <1>1, <1>2
<1> HIDE DEF n, h
<1>10. BufferInv' /\ WindowInv'
  BY <1>1, <1>2, <1>3, <1>6, <1>9 DEF AboutToSend, BufferInv, WindowInv
<1>11. ReachInv'
  BY <1>1, <1>3, <1>6, <1>9 DEF ReachInv
<1>12. DataInv'
  <2>1. /\ Chain(data', h, end) /\ End(data'[1]) = end /\ h <= rcvNext /\ end <= n
    BY <1>2, <1>3, <1>4, <1>5, <1>6, <1>7
  <2>2. Flowing(h, end)'
    BY <1>1, <1>3, <1>5, <1>6, <1>7, <1>8, <1>9, <2>1 DEF Flowing
  <2> QED
    BY <1>3, <1>5, <2>2 DEF DataInv
<1>13. ~Due'
  BY <1>7 DEF Due
<1>14. LostInv'
  <2>1. OneResent(buf)'
    BY <1>1, <1>2 DEF OneResent
  <2> QED
    BY <1>1, <1>2, <1>3, <1>6, <1>7, <1>9, <2>1 DEF LostInv
<1>15. AckInv' /\ ClosedInv' /\ TimedInv'
  BY <1>1, <1>3, <1>6 DEF AckInv, Rising, ClosedInv, TimedInv
<1>16. RetryInv'
  <2>1. Used' <= losses + 1
    BY DEF Resting
  <2> QED
    BY <1>1, <1>3, <1>6, <1>13, <2>1 DEF RetryInv
<1> QED
  BY <1>3, <1>10, <1>11, <1>12, <1>14, <1>15, <1>16 DEF FlowInv

\* SendPendingData with nothing on the path.
LEMMA AloneSends ==
    ASSUME FlowInv, NEW b, NEW w, NEW c, NEW armed, AboutToSend(b, w, c, armed),
           Resting(b, w, c, armed), SendPendingData(b, w, c, armed), RoomInv', ProbeInv'
    PROVE  FlowInv'
<1>1. /\ Sound(b) /\ b.sacked = {} /\ w \in Nat /\ armed \in BOOLEAN
      /\ c \in SegmentSize .. MaxWindow
  BY DEF AboutToSend
<1>2. c \in Nat
  BY <1>1, SocketAssumption
<1>3. Ready(b, w, c)
  <2>1. Missing(b) # {} => b.next <= b.head + w
    BY <1>1, BufferFacts DEF AboutToSend
  <2> QED
    BY <2>1 DEF AboutToSend, Ready
<1> QED
  BY <1>1, <1>2, <1>3, SendOutcome, AloneHeldBack, AloneAllSent, AlonePartSent

\* With nothing missing, or an ACK under way, the last segment under way is the
\* last one sent.
LEMMA FlowingReaches ==
    ASSUME FlowInv, NEW first \in Nat, NEW end \in Nat, Flowing(first, end),
           Missing(buf) = {} \/ acks # <<>>
    PROVE  end = buf.next
<1> DEFINE t == End(data[1])
           n == buf.next
<1>1. /\ Chain(data, first, end) /\ end <= n /\ (Missing(buf) = {} => end = n)
      /\ t <= rcvNext => acks = <<>>
  BY DEF Flowing
<1>2. t \in Nat /\ t <= end
  <2>1. Len(data) \in Nat /\ Len(data) >= 1
    BY <1>1, ChainMembers
  <2> QED
    BY <1>1, <2>1, ChainMembers
<1>3. n \in Nat
  BY BufferFacts DEF FlowInv, BufferInv
<1>4. ASSUME Missing(buf) # {} PROVE FALSE
  <2>1. rcvNext = n
    BY <1>4 DEF FlowInv, LostInv
  <2> HIDE DEF t, n
  <2>2. t <= rcvNext
    BY <1>1, <1>2, <1>3, <2>1
  <2> QED
    BY <1>1, <1>4, <2>2
<1> QED
  BY <1>1, <1>4

\* What is sent follows what is under way.
LEMMA DataMore ==
    ASSUME FlowInv, NEW end \in Nat, NEW q, Chain(q, buf.next, end),
           Missing(buf) = {} \/ acks # <<>>, rcvNext <= buf.next, rWnd # 0,
           data' = data \o q, buf'.next = end, Missing(buf)' = {}, rcvNext' = rcvNext,
           acks # <<>> \/ (UNCHANGED <<acks, delAckCount>> /\ buf'.head = buf.head)
    PROVE  DataInv' /\ data' # <<>>
<1> DEFINE n == buf.next
           r == rcvNext
           e == End(q[1])
<1>1. n \in Nat /\ r \in Nat /\ r <= n
  BY BufferFacts, RoomFacts DEF FlowInv, BufferInv
<1>2. Len(q) >= 1 /\ Len(q) \in Nat /\ q \in Seq(Segments)
  <2>1. q \in Seq(Segments) /\ Len(q) >= 1
    BY DEF Chain
  <2> QED
    BY <2>1
<1>3. n < e /\ e \in Nat /\ n < end
  <2>1. Chain(q, n, end)
    OBVIOUS
  <2> HIDE DEF n
  <2> QED
    BY <1>1, <2>1, ChainMembers
<1>4. ASSUME data = <<>> PROVE DataInv' /\ data' # <<>>
  <2>1. r = n
    BY <1>1, <1>4, NothingUnderWay
  <2>2. data' = q
    BY <1>2, <1>4
  <2>3. q # <<>>
    BY <1>2
  <2>4. r <= e /\ ~(e <= r) /\ n <= r
    <3> HIDE DEF n, r, e
    <3> QED
      BY <1>1, <1>3, <2>1
  <2>5. PICK m \in Nat : m = n
    BY <1>1
  <2>6. Flowing(m, end)'
    <3>1. Chain(q, m, end) /\ m <= rcvNext
      BY <2>4, <2>5
    <3> QED
      BY <2>2, <2>4, <3>1 DEF Flowing
  <2> QED
    BY <2>2, <2>3, <2>6 DEF DataInv
<1>5. ASSUME NEW first \in Nat, NEW z \in Nat, Flowing(first, z)
      PROVE  DataInv' /\ data' # <<>>
  <2> DEFINE p == data \o q
             t == End(data[1])
  <2>1. /\ Chain(data, first, z) /\ first <= r /\ z = n
        /\ Len(data) # 1 => r <= t
        /\ t <= r => acks = <<>> /\ delAckCount = 0 /\ buf.head < n /\ buf.head < r
    BY <1>5, FlowingReaches DEF Flowing
  <2>2. /\ Len(data) = 1 => t = z
        /\ Len(data) \in Nat /\ Len(data) >= 1 /\ data \in Seq(Segments)
    BY <2>1, ChainMembers DEF Chain
  <2>3. Chain(p, first, end) /\ p[1] = data[1]
    <3>1. Chain(q, z, end)
      BY <2>1
    <3> HIDE DEF p
    <3> QED
      BY <2>1, <3>1, ChainConcat DEF p
  <2>4. p # <<>>
    <3>1. Len(p) >= 1
      BY <2>3 DEF Chain
    <3> HIDE DEF p
    <3> QED
      BY <3>1
  <2>5. r <= t
    <3> HIDE DEF r, n, t
    <3> QED
      BY <1>1, <2>1, <2>2
  <2>6. t <= r => acks' = <<>> /\ delAckCount' = 0 /\ buf'.head < end /\ buf'.head < r
    <3>1. buf.head \in Nat
      BY BufferFacts DEF FlowInv, BufferInv
    <3> HIDE DEF t, r, n, p
    <3> QED
      BY <1>1, <1>3, <2>1, <3>1
  <2> HIDE DEF p
  <2>7. Flowing(first, end)'
    <3>1. data' = p /\ End(p[1]) = t
      BY <2>3 DEF p
    <3> HIDE DEF t
    <3> QED
      BY <2>1, <2>3, <2>5, <2>6, <3>1 DEF Flowing
  <2> QED
    BY <2>4, <2>7 DEF DataInv, p
<1>6. ~Probing
  BY DEF Probing
<1> QED
  BY <1>4, <1>5, <1>6 DEF FlowInv, DataInv

\* m_sendPendingDataEvent when it sends nothing: the transmission stalls, if
\* anything is outstanding that no timer covers.
LEMMA EventHeldBack ==
    ASSUME FlowInv, SendPendingDataEvent, HeldBack(buf, rWnd, cwnd, retxRunning),
           RoomInv', ProbeInv'
    PROVE  FlowInv'
<1>1. /\ Quiescent /\ sendEvent' = FALSE /\ retxRunning' = retxRunning
      /\ UNCHANGED <<buf, cwnd, rWnd, noDelay, data, acks, delAckCount, rcvNext,
                     dataRetrCount, status, losses>>
      /\ ~MaySend(NothingSent(buf), rWnd, cwnd)
  BY DEF SendPendingDataEvent, HeldBack, Quiescent, peerWindow, receiver
<1>2. PlainTypes'
  BY <1>1 DEF FlowInv, PlainTypes
<1>3. Due' = Due /\ AtMostOne' = AtMostOne /\ Used' = Used
  BY <1>1 DEF Due, AtMostOne, Used
<1>4. TimedInv'
  <2> SUFFICES ASSUME status = "up", Outstanding(buf) # {}, ~retxRunning PROVE TimedInv'
    BY <1>1 DEF TimedInv
  <2>1. /\ Due /\ cwnd = SegmentSize /\ buf.lost = Outstanding(buf) /\ buf.retrans = {}
    BY DEF FlowInv, TimedInv
  <2>2. rWnd # 0 /\ rWnd \in Nat /\ Sound(buf) /\ buf.sacked = {}
    BY BufferFacts, RoomFacts DEF FlowInv, BufferInv, ClosedInv
  <2>3. \/ rWnd \in 1 .. SegmentSize - 1 /\ buf.tail > buf.head + rWnd
        \/ ~noDelay /\ buf.tail - buf.head < SegmentSize
    <3> DEFINE b == buf
               w == rWnd
    <3>1. /\ Sound(b) /\ b.sacked = {} /\ Outstanding(b) # {} /\ b.lost = Outstanding(b)
          /\ b.retrans = {} /\ w \in Nat /\ w # 0 /\ ~MaySend(NothingSent(b), w, SegmentSize)
      BY <1>1, <2>1, <2>2
    <3> HIDE DEF b, w
    <3>2. \/ w \in 1 .. SegmentSize - 1 /\ b.tail > b.head + w
          \/ ~noDelay /\ b.tail - b.head < SegmentSize
      BY <3>1, HeldBackStalled
    <3> QED
      BY <3>2 DEF b, w
  <2>4. Stalled'
    BY <1>1, <2>3 DEF Stalled
  <2> QED
    BY <1>1, <1>3, <2>1, <2>4 DEF TimedInv
<1>5. RetryInv'
  BY <1>1, <1>3 DEF FlowInv, RetryInv
<1> QED
  BY <1>1, <1>2, <1>4, <1>5, FlowFrame DEF FlowInv

\* m_sendPendingDataEvent when it sends while something is under way.
LEMMA EventSends ==
    ASSUME FlowInv, SendPendingDataEvent, ~Due, Missing(buf) = {}, rWnd # 0,
           NEW s, AllSent(buf, rWnd, s), Carries(s), RoomInv', ProbeInv'
    PROVE  FlowInv'
<1> DEFINE x == s.buf
           q == s.sent
           end == s.buf.next
           n == buf.next
           h == buf.head
           r == rcvNext
           H == highRxAckMark
           w == rWnd
           max == MaxRxSequence
<1>1. /\ status = "up" /\ buf' = x /\ data' = data \o q /\ retxRunning' = TRUE /\ sendEvent' = FALSE
      /\ UNCHANGED <<cwnd, rWnd, highRxAckMark, noDelay, dataRetrCount, status, acks, losses,
                     rcvNext, rcvRead, delAckCount>>
  BY DEF SendPendingDataEvent, Carries, peerWindow, receiver
<1>2. /\ Sound(x) /\ x.sacked = {} /\ Missing(x) = {} /\ x.head = h /\ x.tail = buf.tail
      /\ n <= end /\ end <= h + w /\ Chain(q, n, end)
  BY DEF AllSent, FirstSent
<1>3. /\ h \in Nat /\ n \in Nat /\ h <= n /\ r \in Nat /\ H \in Nat /\ w \in Nat /\ max \in Nat
      /\ H + w <= max /\ h <= H /\ H <= r /\ end \in Nat
  <2>1. end \in Nat
    BY <1>2, BufferFacts
  <2> QED
    BY <2>1, BufferFacts, RoomFacts DEF FlowInv, BufferInv, WindowInv
<1>4. r <= n
  BY DEF FlowInv, ReachInv
<1>5. DataInv' /\ data' # <<>>
  BY <1>1, <1>2, <1>3, <1>4, DataMore
<1>6. MaxRxSequence' = MaxRxSequence /\ Used' = Used
  BY <1>1 DEF MaxRxSequence, Used
<1>7. end <= max /\ end <= H + w /\ r <= end
  <2> HIDE DEF end, n, h, r, H, w, max
  <2> QED
    BY <1>2, <1>3, <1>4
<1>8. buf'.head = h /\ buf'.next = end /\ buf'.tail = buf.tail /\ Missing(buf)' = {}
  BY <1>1, <1>2
<1>9. BufferInv' /\ WindowInv'
  <2>1. BufferInv'
    BY <1>1, <1>2 DEF FlowInv, BufferInv
  <2>2. WindowInv'
    BY <1>1, <1>2, <1>6, <1>7, <1>8 DEF FlowInv, WindowInv
  <2> QED
    BY <2>1, <2>2
<1>10. PlainTypes' /\ ReachInv'
  BY <1>1, <1>7, <1>8 DEF FlowInv, PlainTypes, ReachInv
<1>11. AckInv'
  <2>1. ASSUME NEW i \in DOMAIN acks, acks[i].ack > highRxAckMark
        PROVE  end <= acks[i].ack + acks[i].wnd
    <3> DEFINE k == acks[i].ack + acks[i].wnd
    <3>1. H + w <= k /\ k \in Nat
      BY <2>1, RoomFacts DEF FlowInv, AckInv
    <3> HIDE DEF k, H, w, end
    <3>2. end <= k
      BY <1>3, <1>7, <3>1
    <3> QED
      BY <3>2 DEF k
  <2> QED
    BY <1>1, <1>8, <2>1 DEF FlowInv, AckInv
<1>12. ClosedInv' /\ LostInv' /\ TimedInv'
  BY <1>1, <1>8 DEF ClosedInv, LostInv, TimedInv
<1>13. RetryInv'
  <2>1. ASSUME losses < Used
        PROVE  \A i \in DOMAIN acks : h < acks[i].ack /\ acks[i].ack <= end
    <3>1. retxRunning
      BY <1>1, <2>1 DEF FlowInv, RetryInv, PlainTypes
    <3>2. \A i \in DOMAIN acks : h < acks[i].ack /\ acks[i].ack <= n /\ acks[i].ack \in Nat
      BY <1>1, <2>1, <3>1, RoomFacts DEF FlowInv, RetryInv
    <3> HIDE DEF n, end, h
    <3> QED
      BY <1>2, <1>3, <3>2
  <2>2. ~Due'
    BY <1>5 DEF Due
  <2> QED
    BY <1>1, <1>6, <1>8, <2>1, <2>2 DEF FlowInv, RetryInv
<1> QED
  BY <1>5, <1>9, <1>10, <1>11, <1>12, <1>13 DEF FlowInv

\* m_sendPendingDataEvent with nothing on the path and no segment sent again.
LEMMA EventAlone ==
    ASSUME FlowInv, SendPendingDataEvent, Due, Missing(buf) # {} => buf.retrans = {}
    PROVE  /\ AboutToSend(buf, rWnd, cwnd, retxRunning)
           /\ Resting(buf, rWnd, cwnd, retxRunning)
<1>1. /\ status = "up" /\ data = <<>> /\ acks = <<>> /\ delAckCount = 0 /\ sendEvent' = FALSE
      /\ UNCHANGED <<cwnd, rWnd, highRxAckMark, noDelay, dataRetrCount, status, acks, losses,
                     rcvNext, rcvRead, delAckCount>>
  BY DEF SendPendingDataEvent, peerWindow, receiver, Due
<1>2. buf.next \in Nat /\ rcvNext \in Nat /\ rWnd \in Nat /\ buf.next <= rcvNext
  BY <1>1, BufferFacts, RoomFacts, NothingUnderWay DEF FlowInv, BufferInv
<1>3. /\ rcvNext <= buf.next + 1
      /\ rcvNext = buf.next + 1 => buf.head = buf.next /\ buf.next < buf.tail
  BY <1>2 DEF FlowInv, ReachInv
<1>4. ~retxRunning /\ Outstanding(buf) # {} => Missing(buf) # {}
  <2>1. Missing(buf) = buf.lost \ buf.retrans
    BY BufferFacts DEF FlowInv, BufferInv
  <2> QED
    BY <1>1, <2>1 DEF FlowInv, TimedInv
<1>5. AboutToSend(buf, rWnd, cwnd, retxRunning)
  BY <1>2, <1>3, <1>4 DEF FlowInv, BufferInv, PlainTypes, WindowInv, ClosedInv, LostInv, AboutToSend
<1>6. Used' <= losses + 1 /\ (retxRunning => Used' <= losses)
  <2>1. Used' = Used /\ Used <= losses + 1
    BY <1>1 DEF Used, FlowInv, RetryInv
  <2>2. retxRunning => ~(losses < Used)
    BY <1>1 DEF FlowInv, RetryInv
  <2>3. losses \in Nat /\ Used \in Int
    BY SocketAssumption, BoundsAssumption DEF FlowInv, PlainTypes, Used
  <2> QED
    BY <2>1, <2>2, <2>3
<1>7. Resting(buf, rWnd, cwnd, retxRunning)
  BY <1>1, <1>6 DEF FlowInv, PlainTypes, WindowInv, Resting
<1> QED
  BY <1>5, <1>7

\* m_sendPendingDataEvent.
LEMMA FlowEvent ==
    ASSUME FlowInv, SendPendingDataEvent, RoomInv', ProbeInv'
    PROVE  FlowInv'
<1> DEFINE b == buf
           w == rWnd
           c == cwnd
<1>1. /\ Sound(b) /\ b.sacked = {} /\ w \in Nat /\ c \in Nat /\ retxRunning \in BOOLEAN
      /\ SendPendingData(b, w, c, retxRunning)
  <2>1. c \in Nat
    BY SocketAssumption DEF FlowInv, PlainTypes
  <2> QED
    BY <2>1, RoomFacts DEF FlowInv, BufferInv, PlainTypes, SendPendingDataEvent
<1>2. Missing(b) # {} => /\ b.lost = Outstanding(b) /\ c = SegmentSize
                         /\ (b.retrans = {} /\ Due) \/ OneResent(b)
                         /\ b.next <= b.head + w
  <2>1. Missing(b) # {} => b.next <= b.head + w
    BY BufferFacts DEF FlowInv, BufferInv, WindowInv
  <2> QED
    BY <2>1 DEF FlowInv, LostInv
<1>3. Ready(b, w, c)
  BY <1>2 DEF Ready
<1>4. \/ HeldBack(b, w, c, retxRunning)
      \/ /\ \E s : (AllSent(b, w, s) \/ PartSent(b, c, s)) /\ Carries(s)
         /\ MaySend(NothingSent(b), w, c)
  <2> HIDE DEF b, w, c
  <2> QED
    BY <1>1, <1>3, SendOutcome
<1>5. CASE HeldBack(b, w, c, retxRunning)
  BY <1>5, EventHeldBack
<1>6. ASSUME NEW s, AllSent(b, w, s) \/ PartSent(b, c, s), Carries(s),
             MaySend(NothingSent(b), w, c)
      PROVE  FlowInv'
  <2>1. w # 0
    BY <1>1, <1>6, ClosedHeldBack
  <2>2. Missing(b) # {} => b.retrans = {} /\ Due
    <3> SUFFICES ASSUME Missing(b) # {}, OneResent(b) PROVE FALSE
      BY <1>2
    <3> DEFINE z == NothingSent(b)
    <3>1. z.buf = b
      BY DEF NothingSent
    <3> HIDE DEF b, w, c, z
    <3>2. Sound(z.buf) /\ z.buf.sacked = {} /\ z.buf.lost = Outstanding(z.buf) /\ OneResent(z.buf)
      BY <1>1, <1>2, <3>1
    <3>3. ~MaySend(z, w, SegmentSize)
      BY <1>1, <3>2, NoTurn
    <3> QED
      BY <1>2, <1>6, <3>3 DEF z
  <2>3. CASE Due
    <3>1. AboutToSend(b, w, c, retxRunning) /\ Resting(b, w, c, retxRunning)
      BY <2>2, <2>3, EventAlone
    <3> HIDE DEF b, w, c
    <3> QED
      BY <1>6, <3>1, AloneAllSent, AlonePartSent
  <2>4. CASE ~Due
    <3>1. Missing(b) = {} /\ ~PartSent(b, c, s)
      BY <2>2, <2>4 DEF PartSent
    <3> QED
      BY <1>6, <2>1, <2>4, <3>1, EventSends
  <2> QED
    BY <2>3, <2>4
<1> QED
  BY <1>4, <1>5, <1>6

\* ReTxTimeout: what was sent is lost, and the retry is paid for by a loss or
\* is the one that will be returned.
LEMMA FlowTimeout ==
    ASSUME FlowInv, ReTxTimeout, RoomInv', ProbeInv'
    PROVE  FlowInv'
<1> DEFINE b == SetSentListLost(buf)
           w == rWnd
           n == buf.next
           h == buf.head
           r == rcvNext
<1>1. /\ status = "up" /\ retxRunning /\ Due /\ data = <<>> /\ acks = <<>> /\ delAckCount = 0
      /\ dataRetrCount > 0 /\ dataRetrCount' = dataRetrCount - 1 /\ cwnd' = SegmentSize
      /\ SendPendingData(b, w, SegmentSize, FALSE)
      /\ UNCHANGED <<rWnd, highRxAckMark, noDelay, sendEvent, status, acks, losses,
                     rcvNext, rcvRead, delAckCount>>
  BY DEF ReTxTimeout, peerWindow, receiver, Due, RetriesLeft
<1>2. /\ Sound(b) /\ b.head = h /\ b.next = n /\ b.tail = buf.tail
      /\ b.sacked = {} /\ b.lost = Outstanding(buf) /\ b.retrans = {}
  <2>1. Sound(buf) /\ buf.sacked = {} /\ buf \in TxBuffers
    BY DEF FlowInv, BufferInv, Sound
  <2>2. ResetRenoSack(buf) = buf
    BY <2>1 DEF ResetRenoSack, TxBuffers
  <2> QED
    BY <2>1, <2>2, SetSentListLostSound
<1> HIDE DEF b
<1>3. Outstanding(b) = Outstanding(buf) /\ Missing(b) = Outstanding(b)
  BY <1>2 DEF Outstanding, Missing
<1>4. /\ n \in Nat /\ r \in Nat /\ w \in Nat /\ h \in Nat /\ n <= r /\ highRxAckMark \in Nat
      /\ SegmentSize \in Nat /\ MaxWindow \in Nat /\ SegmentSize <= MaxWindow
      /\ DataRetries \in Nat /\ MaxLoss \in Nat
  BY <1>1, BufferFacts, RoomFacts, NothingUnderWay, SocketAssumption, BoundsAssumption
     DEF FlowInv, BufferInv
<1>5. /\ r <= n + 1 /\ (r = n + 1 => h = n /\ n < buf.tail)
  BY <1>4 DEF FlowInv, ReachInv
<1>6. Outstanding(buf) # {} => h # n /\ r = n
  <2>1. Outstanding(buf) # {} => h # n
    BY BufferFacts DEF FlowInv, BufferInv
  <2> QED
    BY <1>4, <1>5, <2>1
<1>7. AboutToSend(b, w, SegmentSize, FALSE)
  <2>1. SegmentSize \in SegmentSize .. MaxWindow
    BY <1>4
  <2>2. Missing(b) # {} => b.lost = Outstanding(b) /\ b.retrans = {} /\ rcvNext = b.next
    BY <1>2, <1>3, <1>6
  <2> QED
    BY <1>2, <1>3, <1>4, <1>5, <2>1, <2>2
       DEF FlowInv, BufferInv, WindowInv, ClosedInv, AboutToSend
<1>8. dataRetrCount' \in 0 .. DataRetries /\ Used' <= losses + 1
  <2>1. dataRetrCount \in 0 .. DataRetries /\ losses \in 0 .. MaxLoss
    BY DEF FlowInv, PlainTypes
  <2>2. ~(losses < Used)
    BY <1>1 DEF FlowInv, RetryInv
  <2>3. Used = DataRetries - dataRetrCount /\ Used' = DataRetries - dataRetrCount'
    BY DEF Used
  <2>4. Used' = Used + 1 /\ Used \in Int /\ losses \in Int
    BY <1>1, <1>4, <2>1, <2>3
  <2> QED
    BY <1>1, <1>4, <2>1, <2>2, <2>4
<1>9. Resting(b, w, SegmentSize, FALSE)
  BY <1>1, <1>2, <1>8 DEF FlowInv, PlainTypes, WindowInv, Resting
<1> HIDE DEF w
<1> QED
  BY <1>1, <1>7, <1>9, AloneSends

----------------------------------------------------------------------------
(* An ACK arrives *)

\* What UpdateWindowSize makes of an ACK.
LEMMA WindowUpdated ==
    ASSUME FlowInv, NEW i \in DOMAIN acks
    PROVE  LET a == acks[i]
           IN  /\ a.ack \in Nat /\ a.wnd \in Nat /\ UpdateWindowSize(a) \in Nat
               /\ Max({a.ack, highRxAckMark}) =
                      IF a.ack >= highRxAckMark THEN a.ack ELSE highRxAckMark
<1>1. acks[i].ack \in Nat /\ acks[i].wnd \in Nat /\ highRxAckMark \in Nat /\ rWnd \in Nat
  BY RoomFacts DEF FlowInv
<1>2. UpdateWindowSize(acks[i]) \in Nat
  BY <1>1 DEF UpdateWindowSize
<1> DEFINE k == acks[i].ack
<1>3. k \in Nat
  BY <1>1
<1> HIDE DEF k
<1>4. Max({k, highRxAckMark}) = IF k >= highRxAckMark THEN k ELSE highRxAckMark
  BY <1>1, <1>3, MaxOfTwo
<1> QED
  BY <1>1, <1>2, <1>4 DEF k

\* What RecvAck of a connection that is up changes.
Acked(i, w) ==
    /\ acks' = RemoveAt(acks, i)
    /\ rWnd' = w
    /\ highRxAckMark' = Max({acks[i].ack, highRxAckMark})
    /\ persistRunning' = PersistAfter(w)
    /\ UNCHANGED <<sendEvent, noDelay, status, losses, receiver>>

\* An ACK that repeats nothing new leaves the connection as it was.
LEMMA FlowPassed ==
    ASSUME FlowInv, NEW i \in DOMAIN acks, AckGone(i),
           UNCHANGED <<retxRunning, sendEvent, dataRetrCount, status, losses>>,
           status = "up" => acks[i].ack < buf.head, RoomInv', ProbeInv'
    PROVE  FlowInv'
<1>1. UNCHANGED <<buf, cwnd, rWnd, highRxAckMark, noDelay, data, rcvNext, rcvRead, delAckCount>>
  BY DEF AckGone, receiver
<1>2. PlainTypes'
  BY <1>1 DEF FlowInv, PlainTypes
<1>3. ~Due /\ (AtMostOne => Due')
  BY FlowAckGone
<1>4. TimedInv'
  BY <1>1, <1>3 DEF FlowInv, TimedInv
<1>5. RetryInv'
  <2>1. Used' = Used
    BY DEF Used
  <2>2. ASSUME status = "up", losses < Used, retxRunning PROVE FALSE
    <3>1. buf.head < acks[i].ack /\ acks[i].ack < buf.head
      BY <2>2 DEF FlowInv, RetryInv
    <3>2. buf.head \in Nat /\ acks[i].ack \in Nat
      BY BufferFacts, RoomFacts DEF FlowInv, BufferInv
    <3> DEFINE a == acks[i].ack
               h == buf.head
    <3> HIDE DEF a, h
    <3>3. h < a /\ a < h /\ h \in Nat /\ a \in Nat
      BY <3>1, <3>2 DEF a, h
    <3> QED
      BY <3>3
  <2> QED
    BY <1>1, <1>3, <2>1, <2>2 DEF FlowInv, RetryInv
<1> QED
  BY <1>2, <1>4, <1>5, FlowAckGone DEF FlowInv

\* The answer to a probe: nothing else is under way, and the window is opened
\* or stays closed.
LEMMA FlowProbeAnswered ==
    ASSUME FlowInv, NEW i \in DOMAIN acks, NEW w \in Nat, Acked(i, w), status = "up",
           rWnd = 0, acks[i].ack = rcvNext \/ acks[i].ack = buf.next, AtMostOne,
           acks[i].ack >= buf.next,
           UNCHANGED <<cwnd, dataRetrCount>>,
           \/ SendPendingData(buf, w, cwnd, RetxAfterEntry(w))
           \/ w = 0 /\ retxRunning' = RetxAfterEntry(w) /\ UNCHANGED <<buf, data>>,
           RoomInv', ProbeInv'
    PROVE  FlowInv'
<1> DEFINE n == buf.next
           h == buf.head
           r == rcvNext
           a == acks[i].ack
           H == highRxAckMark
<1>1. data = <<>> /\ delAckCount = 0 /\ RemoveAt(acks, i) = <<>>
  BY AloneGone
<1>2. /\ acks' = <<>> /\ delAckCount' = 0 /\ rWnd' = w /\ status' = "up"
      /\ UNCHANGED <<sendEvent, noDelay, losses, rcvNext, rcvRead, cwnd, dataRetrCount>>
  BY <1>1 DEF Acked, receiver
<1>3. h = n /\ Outstanding(buf) = {} /\ Missing(buf) = {}
  BY BufferFacts DEF FlowInv, BufferInv, ClosedInv
<1>4. /\ n \in Nat /\ r \in Nat /\ a \in Nat /\ H \in Nat
      /\ n <= r /\ h <= H /\ H <= h + 1 /\ H <= r
  BY <1>1, BufferFacts, RoomFacts, NothingUnderWay DEF FlowInv, BufferInv, WindowInv
<1>5. /\ r <= n + 1 /\ (r = n + 1 => n < buf.tail)
  BY <1>4 DEF FlowInv, ReachInv
<1>6. highRxAckMark' = IF a >= H THEN a ELSE H
  BY WindowUpdated DEF Acked
<1>7. RetxAfterEntry(w) = retxRunning /\ retxRunning \in BOOLEAN
  <2>1. persistRunning /\ retxRunning \in BOOLEAN
    BY DEF FlowInv, ProbeInv, ZeroWindowProbed, PlainTypes
  <2> QED
    BY <2>1 DEF RetxAfterEntry, EntersPersist
<1>8. h <= highRxAckMark' /\ highRxAckMark' <= h + 1 /\ highRxAckMark' <= r
  <2>1. a = r \/ a = n
    OBVIOUS
  <2> DEFINE m == highRxAckMark'
  <2> HIDE DEF a, n, h, r, H, m
  <2>2. m = IF a >= H THEN a ELSE H
    BY <1>6 DEF m
  <2>3. h <= m /\ m <= h + 1 /\ m <= r
    BY <1>3, <1>4, <1>5, <2>1, <2>2
  <2> QED
    BY <2>3 DEF m
<1>9. AboutToSend(buf, w, cwnd, retxRunning)
  BY <1>3, <1>4, <1>5, <1>7 DEF FlowInv, BufferInv, PlainTypes, WindowInv, AboutToSend
<1>10. Resting(buf, w, cwnd, retxRunning)
  <2>1. Used' = Used /\ Used <= losses + 1
    BY <1>2 DEF Used, FlowInv, RetryInv
  <2>2. retxRunning => ~(losses < Used)
    BY DEF FlowInv, RetryInv
  <2>3. losses \in Nat /\ Used \in Int
    BY SocketAssumption, BoundsAssumption DEF FlowInv, PlainTypes, Used
  <2>4. retxRunning => Used' <= losses
    BY <2>1, <2>2, <2>3
  <2> QED
    BY <1>1, <1>2, <1>8, <2>1, <2>4 DEF FlowInv, PlainTypes, Resting
<1>11. CASE SendPendingData(buf, w, cwnd, RetxAfterEntry(w))
  <2> DEFINE b == buf
             c == cwnd
             armed == retxRunning
  <2>1. /\ AboutToSend(b, w, c, armed) /\ Resting(b, w, c, armed)
        /\ SendPendingData(b, w, c, armed)
    BY <1>7, <1>9, <1>10, <1>11
  <2> HIDE DEF b, c, armed
  <2> QED
    BY <2>1, AloneSends
<1>12. CASE w = 0 /\ retxRunning' = RetxAfterEntry(w) /\ UNCHANGED <<buf, data>>
  <2> DEFINE b == buf
             c == cwnd
             armed == retxRunning
  <2>1. ~MaySend(NothingSent(b), w, c)
    <3>1. Sound(b) /\ b.sacked = {} /\ c \in Nat
      BY SocketAssumption DEF FlowInv, BufferInv, PlainTypes
    <3> HIDE DEF b, c
    <3> QED
      BY <1>12, <3>1, ClosedHeldBack
  <2>2. HeldBack(b, w, c, armed)
    BY <1>7, <1>12, <2>1 DEF HeldBack
  <2>3. AboutToSend(b, w, c, armed) /\ Resting(b, w, c, armed)
    BY <1>9, <1>10
  <2> HIDE DEF b, c, armed
  <2> QED
    BY <2>2, <2>3, AloneHeldBack
<1> QED
  BY <1>11, <1>12

\* The ACK of new data: the windows it sets, and what is promised beyond it.
LEMMA NewAckWindow ==
    ASSUME FlowInv, NEW i \in DOMAIN acks, buf.head < acks[i].ack, acks[i].ack <= buf.next
    PROVE  LET a == acks[i].ack
               w == UpdateWindowSize(acks[i])
           IN  /\ highRxAckMark <= a /\ buf.next <= a + w /\ rWnd # 0
               /\ \A k \in DOMAIN acks :
                      k # i =>
                          /\ acks[k].ack # a
                          /\ acks[k].ack > a =>
                                 /\ buf.next <= acks[k].ack + acks[k].wnd
                                 /\ a + w <= acks[k].ack + acks[k].wnd
<1> DEFINE a == acks[i].ack
           v == acks[i].wnd
           w == UpdateWindowSize(acks[i])
           n == buf.next
           h == buf.head
           H == highRxAckMark
           z == rWnd
<1>1. /\ a \in Nat /\ v \in Nat /\ n \in Nat /\ h \in Nat /\ H \in Nat /\ z \in Nat
      /\ h < a /\ a <= n /\ h <= H /\ H <= h + 1
  BY BufferFacts, RoomFacts DEF FlowInv, BufferInv, WindowInv
<1>2. w = IF a > H \/ (a = H /\ v > z) THEN v ELSE z
  BY DEF UpdateWindowSize
<1>3. /\ a > H => n <= a + v
      /\ n <= h + z
  <2>1. h # n
    BY <1>1
  <2> QED
    BY <2>1 DEF FlowInv, AckInv, WindowInv
<1>4. z # 0
  <2>1. h # n
    BY <1>1
  <2> QED
    BY <2>1 DEF FlowInv, ClosedInv
<1> HIDE DEF w, n, h, H, z, a, v
<1>5. H <= a /\ n <= a + w /\ (w = v \/ (a = H /\ w = z)) /\ w \in Nat
  BY <1>1, <1>2, <1>3
<1>6. ASSUME NEW k \in DOMAIN acks, k # i
      PROVE  /\ acks[k].ack # a
             /\ acks[k].ack > a =>
                    /\ n <= acks[k].ack + acks[k].wnd
                    /\ a + w <= acks[k].ack + acks[k].wnd
  <2> DEFINE y == acks[k].ack
             x == acks[k].ack + acks[k].wnd
  <2>1. k \in Nat /\ i \in Nat /\ y \in Nat /\ x \in Nat
    BY RoomFacts, SMTT(30) DEF FlowInv
  <2>2. \/ k < i /\ y < a
        \/ i < k /\ a < y /\ a + v <= x
    <3>1. k < i \/ i < k
      BY <1>6, <2>1
    <3>2. Rising(acks)
      BY DEF FlowInv, AckInv
    <3> QED
      BY <3>1, <3>2 DEF Rising, a, v
  <2>3. y > H => n <= x /\ H + z <= x
    BY DEF FlowInv, AckInv, n, H, z
  <2> HIDE DEF y, x
  <2>4. y # a /\ (y > a => n <= x /\ a + w <= x)
    BY <1>1, <1>5, <2>1, <2>2, <2>3
  <2> QED
    BY <2>4 DEF y, x
<1> QED
  BY <1>4, <1>5, <1>6 DEF w, n, h, H, z, a

\* The buffer x is what is left after the ACK a of new data, perhaps with more
\* sent from it, within the window w.
SentAfter(x, a, w) ==
    /\ Sound(x) /\ x.sacked = {} /\ Missing(x) = {}
    /\ x.head = a /\ x.tail = buf.tail /\ buf.next <= x.next /\ x.next <= a + w
    /\ \/ x.next = buf.next /\ data' = data
       \/ \E q : Chain(q, buf.next, x.next) /\ data' = data \o q

\* What is under way follows still.
LEMMA NewAckData ==
    ASSUME FlowInv, NEW i \in DOMAIN acks, buf.head < acks[i].ack, acks[i].ack <= buf.next,
           NEW x, NEW w, SentAfter(x, acks[i].ack, w), buf' = x, rcvNext' = rcvNext
    PROVE  DataInv' /\ ReachInv'
<1>1. acks # <<>>
  BY AcksEmpty DEF FlowInv
<1>2. /\ buf.head \in Nat /\ buf.next \in Nat /\ acks[i].ack \in Nat /\ rcvNext \in Nat
      /\ x.next \in Nat /\ buf.next <= x.next
  BY BufferFacts, RoomFacts DEF FlowInv, BufferInv, SentAfter
<1>3. buf.head # buf.next
  BY <1>2
<1>4. rcvNext <= buf.next
  BY <1>3 DEF FlowInv, ReachInv
<1>5. ReachInv'
  <2> DEFINE n == buf.next
             z == x.next
  <2> HIDE DEF n, z
  <2>1. rcvNext <= z
    BY <1>2, <1>4 DEF n, z
  <2> QED
    BY <2>1 DEF ReachInv, z
<1>6. rWnd # 0
  BY NewAckWindow
<1>7. CASE x.next = buf.next /\ data' = data
  <2>1. data = <<>> => DataInv'
    BY <1>7, NothingUnderWay DEF DataInv
  <2>2. ~Probing
    BY <1>6 DEF Probing
  <2>3. ASSUME NEW first \in Nat, NEW end \in Nat, Flowing(first, end) PROVE DataInv'
    <3>1. end = buf.next
      BY <1>1, <2>3, FlowingReaches
    <3>2. Flowing(first, end)'
      BY <1>1, <1>7, <2>3, <3>1 DEF Flowing, SentAfter
    <3> QED
      BY <3>2 DEF DataInv
  <2> QED
    BY <1>5, <2>1, <2>2, <2>3 DEF FlowInv, DataInv
<1>8. ASSUME NEW q, Chain(q, buf.next, x.next), data' = data \o q PROVE DataInv' /\ ReachInv'
  <2> DEFINE end == x.next
  <2>1. end \in Nat /\ Chain(q, buf.next, end) /\ buf'.next = end /\ Missing(buf)' = {}
    BY <1>2, <1>8 DEF SentAfter
  <2> HIDE DEF end
  <2> QED
    BY <1>1, <1>4, <1>5, <1>6, <1>8, <2>1, DataMore
<1> QED
  BY <1>5, <1>7, <1>8 DEF SentAfter

\* NewAck: the retries are returned, the timer covers what is left, and a window
\* it closes leaves nothing but old ACKs under way.
LEMMA FlowNewAckSent ==
    ASSUME FlowInv, NEW i \in DOMAIN acks, buf.head < acks[i].ack, acks[i].ack <= buf.next,
           status = "up", NEW w, w = UpdateWindowSize(acks[i]), Acked(i, w),
           NEW x, SentAfter(x, acks[i].ack, w), buf' = x,
           cwnd' \in SegmentSize .. MaxWindow, retxRunning' \in BOOLEAN,
           Outstanding(x) # {} => retxRunning', ResetRetries,
           RoomInv', ProbeInv'
    PROVE  FlowInv'
<1> DEFINE a == acks[i].ack
           p == RemoveAt(acks, i)
           n == buf.next
           h == buf.head
           r == rcvNext
           H == highRxAckMark
           z == x.next
           max == MaxRxSequence
<1>1. /\ acks' = p /\ rWnd' = w /\ status' = "up" /\ dataRetrCount' = DataRetries
      /\ UNCHANGED <<sendEvent, noDelay, losses, rcvNext, rcvRead, delAckCount>>
  BY DEF Acked, receiver, ResetRetries
<1>2. /\ Sound(x) /\ x.sacked = {} /\ Missing(x) = {} /\ x.head = a /\ x.tail = buf.tail
      /\ n <= z /\ z <= a + w
  BY DEF SentAfter
<1>3. /\ a \in Nat /\ n \in Nat /\ h \in Nat /\ H \in Nat /\ r \in Nat /\ z \in Nat /\ w \in Nat
      /\ h < a /\ a <= n /\ a <= r
  BY <1>2, BufferFacts, RoomFacts, WindowUpdated DEF FlowInv, BufferInv, AckInv
<1>4. /\ H <= a /\ n <= a + w /\ rWnd # 0
      /\ \A k \in DOMAIN acks :
             k # i => /\ acks[k].ack # a
                      /\ acks[k].ack > a =>
                             /\ n <= acks[k].ack + acks[k].wnd
                             /\ a + w <= acks[k].ack + acks[k].wnd
  BY NewAckWindow
<1>5. highRxAckMark' = a
  <2>1. highRxAckMark' = IF a >= H THEN a ELSE H
    BY WindowUpdated DEF Acked
  <2> QED
    BY <1>3, <1>4, <2>1
<1>6. MaxRxSequence' = MaxRxSequence /\ max \in Nat /\ a + w <= max
  <2>1. MaxRxSequence' = MaxRxSequence
    BY <1>1 DEF MaxRxSequence
  <2>2. highRxAckMark' + rWnd' <= MaxRxSequence'
    BY DEF RoomInv, RoomBelieved
  <2> QED
    BY <1>1, <1>5, <2>1, <2>2, RoomFacts DEF FlowInv
<1>7. Rising(p) /\ \A j \in DOMAIN p : \E k \in DOMAIN acks : k # i /\ p[j] = acks[k]
  BY AcksRest
<1>8. DataInv' /\ ReachInv'
  BY <1>1, NewAckData
<1> HIDE DEF p, n, h, r, H, z, max
<1>9. /\ buf'.head = a /\ buf'.next = z /\ buf'.tail = buf.tail
      /\ Missing(buf)' = {} /\ Outstanding(buf)' = Outstanding(x)
  BY <1>2 DEF z
<1>10. BufferInv'
  BY <1>2, <1>9 DEF FlowInv, BufferInv
<1>11. PlainTypes'
  <2>1. dataRetrCount' \in 0 .. DataRetries
    BY <1>1, SocketAssumption
  <2> QED
    BY <1>1, <2>1 DEF FlowInv, PlainTypes
<1>12. WindowInv'
  <2>1. z <= max /\ a <= a + 1 /\ a <= a
    BY <1>2, <1>3, <1>6
  <2> HIDE DEF a
  <2> QED
    BY <1>1, <1>2, <1>3, <1>5, <1>6, <1>9, <2>1 DEF WindowInv, max, r
<1>13. ASSUME NEW j \in DOMAIN p
       PROVE  /\ p[j].ack <= r /\ p[j].ack \in Nat /\ p[j].ack # a
              /\ p[j].ack > a => z <= p[j].ack + p[j].wnd /\ a + w <= p[j].ack + p[j].wnd
              /\ delAckCount > 0 => p[j].ack < r
  <2>1. PICK k \in DOMAIN acks : k # i /\ p[j] = acks[k]
    BY <1>7
  <2> DEFINE y == acks[k].ack
             s == acks[k].ack + acks[k].wnd
  <2>2. /\ y \in Nat /\ s \in Nat /\ y <= r /\ y # a /\ (y > a => a + w <= s)
        /\ delAckCount > 0 => y < r
    BY <1>4, <2>1, RoomFacts, SMTT(30) DEF FlowInv, AckInv, r
  <2> HIDE DEF y, s, a
  <2>3. y > a => z <= s /\ a + w <= s
    BY <1>2, <1>3, <2>2
  <2> QED
    BY <2>1, <2>2, <2>3 DEF y, s
<1>14. delAckCount > 0 => a < r
  BY DEF FlowInv, AckInv, r
<1>15. AckInv'
  BY <1>1, <1>5, <1>7, <1>9, <1>13, <1>14 DEF AckInv, r
<1>16. ClosedInv'
  <2> SUFFICES ASSUME w = 0 PROVE ClosedInv'
    BY <1>1 DEF ClosedInv
  <2>1. r <= n
    <3>1. h # n
      BY <1>3
    <3> QED
      BY <3>1 DEF FlowInv, ReachInv, h, n, r
  <2>2. z = a /\ n = a /\ r = a
    <3> HIDE DEF a
    <3> QED
      BY <1>2, <1>3, <2>1
  <2>3. delAckCount = 0
    <3>1. ~(delAckCount > 0)
      BY <1>3, <1>14, <2>2
    <3>2. delAckCount \in Nat
      BY SocketAssumption DEF FlowInv, PlainTypes
    <3> QED
      BY <3>1, <3>2
  <2>4. \A j \in DOMAIN p : p[j].ack < a
    <3> HIDE DEF a
    <3> QED
      BY <1>3, <1>13, <2>2
  <2>5. data = <<>>
    <3>1. ~Probing
      BY <1>4 DEF Probing
    <3>2. ASSUME NEW first \in Nat, NEW end \in Nat, Flowing(first, end) PROVE FALSE
      <4> DEFINE t == End(data[1])
      <4>1. Chain(data, first, end) /\ end <= n /\ (t <= r => acks = <<>>)
        BY <3>2 DEF Flowing, n, r
      <4>2. t \in Nat /\ t <= end
        <5>1. Len(data) \in Nat /\ Len(data) >= 1
          BY <4>1, ChainMembers
        <5> QED
          BY <4>1, <5>1, ChainMembers
      <4>3. acks # <<>>
        BY AcksEmpty DEF FlowInv
      <4> HIDE DEF t, a
      <4>4. t <= r
        BY <1>3, <2>2, <4>1, <4>2
      <4> QED
        BY <4>1, <4>3, <4>4
    <3> QED
      BY <3>1, <3>2 DEF FlowInv, DataInv
  <2>6. data' = <<>>
    <3>1. ASSUME NEW q, Chain(q, buf.next, x.next) PROVE FALSE
      <4>1. Chain(q, n, z) /\ n \in Nat /\ z \in Nat
        BY <1>3, <3>1 DEF n, z
      <4> DEFINE t == End(q[1])
      <4>2. t \in Nat /\ n < t /\ t <= z
        <5>1. Len(q) \in Nat /\ Len(q) >= 1
          BY <4>1, ChainMembers
        <5> QED
          BY <4>1, <5>1, ChainMembers
      <4> HIDE DEF t, a
      <4> QED
        BY <1>3, <2>2, <4>2
    <3> QED
      BY <2>5, <3>1 DEF SentAfter
  <2> QED
    BY <1>1, <1>9, <2>2, <2>3, <2>4, <2>6 DEF ClosedInv
<1>17. LostInv' /\ TimedInv'
  BY <1>1, <1>9 DEF LostInv, TimedInv
<1>18. RetryInv'
  <2>1. Used' = 0
    BY <1>1, SocketAssumption DEF Used
  <2>2. losses \in Nat
    BY BoundsAssumption DEF FlowInv, PlainTypes
  <2>3. ~(losses < 0) /\ 0 <= losses + 1
    BY <2>2
  <2> QED
    BY <1>1, <2>1, <2>3 DEF RetryInv
<1> QED
  BY <1>8, <1>10, <1>11, <1>12, <1>15, <1>16, <1>17, <1>18 DEF FlowInv

\* NewAck: what the ACK leaves is no longer thought lost, whatever was, so that
\* SendPendingData sends new data or none.
LEMMA FlowNewAck ==
    ASSUME FlowInv, NEW i \in DOMAIN acks, status = "up",
           NEW w, w = UpdateWindowSize(acks[i]), Acked(i, w), NewAck(acks[i], w),
           RoomInv', ProbeInv'
    PROVE  FlowInv'
<1> DEFINE a == acks[i].ack
           b == DiscardUpTo(buf, a)
           n == buf.next
           armed == ArmedByNewAck(b)
<1>1. PICK c \in IncreaseWindow(cwnd) : cwnd' = c /\ SendPendingData(b, w, c, armed)
  BY DEF NewAck
<1>2. buf.head < a /\ a <= n /\ ResetRetries
  BY DEF NewAck
<1>3. /\ Sound(buf) /\ buf.sacked = {} /\ buf.head \in Nat /\ n \in Nat /\ a \in Nat
      /\ buf.lost \subseteq Outstanding(buf) /\ Missing(buf) = buf.lost \ buf.retrans
      /\ n <= buf.tail /\ w \in Nat /\ rcvNext \in Nat
  BY BufferFacts, RoomFacts, WindowUpdated DEF FlowInv, BufferInv
<1>4. /\ Sound(b) /\ b.head = a /\ b.next = n /\ b.tail = buf.tail
      /\ b.sacked = {} /\ b.lost = buf.lost \cap (a .. n - 1)
      /\ b.retrans = buf.retrans \cap (a .. n - 1)
  <2> DEFINE x == buf
  <2>1. a \in x.head + 1 .. x.next /\ Sound(x) /\ x.sacked = {}
    BY <1>2, <1>3
  <2> HIDE DEF x, a
  <2>2. /\ Sound(DiscardUpTo(x, a))
        /\ DiscardUpTo(x, a).head = a /\ DiscardUpTo(x, a).next = x.next
        /\ DiscardUpTo(x, a).tail = x.tail
        /\ DiscardUpTo(x, a).sacked = {} /\ DiscardUpTo(x, a).lost = x.lost \cap (a .. x.next - 1)
        /\ DiscardUpTo(x, a).retrans = x.retrans \cap (a .. x.next - 1)
    BY <2>1, DiscardUnguessed
  <2> QED
    BY <2>2 DEF x
<1> HIDE DEF b
<1>5. Missing(b) = {}
  <2>1. Missing(b) = b.lost \ b.retrans
    BY <1>4, BufferFacts
  <2>2. CASE Missing(buf) = {}
    BY <1>3, <1>4, <2>1, <2>2
  <2>3. CASE Missing(buf) # {}
    <3>1. a = n
      BY <2>3 DEF FlowInv, LostInv
    <3> QED
      BY <1>4, <3>1, BufferFacts
  <2> QED
    BY <2>2, <2>3
<1>6. c \in SegmentSize .. MaxWindow /\ c \in Nat
  <2>1. cwnd \in SegmentSize .. MaxWindow /\ SegmentSize \in Nat /\ MaxWindow \in Nat
    BY SocketAssumption, BoundsAssumption DEF FlowInv, PlainTypes
  <2> DEFINE m == cwnd + SegmentSize
  <2>2. m \in Nat
    BY <2>1
  <2> HIDE DEF m
  <2>3. Min({m, MaxWindow}) = IF m <= MaxWindow THEN m ELSE MaxWindow
    BY <2>1, <2>2, MinOfTwo
  <2>4. c \in cwnd .. Min({m, MaxWindow})
    BY <1>1 DEF IncreaseWindow, m
  <2>5. c \in SegmentSize .. MaxWindow
    BY <2>1, <2>2, <2>3, <2>4
  <2> QED
    BY <2>1, <2>5
<1>7. armed \in BOOLEAN /\ (Outstanding(b) # {} => armed)
  <2>1. Outstanding(b) # {} => a < n
    BY <1>2, <1>3, <1>4, BufferFacts
  <2>2. buf.tail \in Nat
    BY BufferFacts DEF FlowInv, BufferInv
  <2>3. a < n => buf.tail - a > 0
    BY <1>3, <2>2
  <2>4. armed = (buf.tail - a > 0)
    BY <1>4 DEF ArmedByNewAck, BufferSize
  <2> HIDE DEF armed, a, n
  <2>5. armed \in BOOLEAN
    BY <2>4
  <2>6. Outstanding(b) # {} => armed
    BY <2>1, <2>3, <2>4
  <2> QED
    BY <2>5, <2>6
<1>8. n <= a + w
  BY <1>2, NewAckWindow
<1> HIDE DEF armed
<1>9. \/ HeldBack(b, w, c, armed)
      \/ \E s : (AllSent(b, w, s) \/ PartSent(b, c, s)) /\ Carries(s)
  <2>1. Ready(b, w, c)
    BY <1>5 DEF Ready
  <2> QED
    BY <1>1, <1>3, <1>4, <1>6, <1>7, <2>1, SendOutcome
<1>10. ASSUME NEW x, SentAfter(x, a, w), buf' = x, retxRunning' \in BOOLEAN,
              Outstanding(x) # {} => retxRunning'
       PROVE  FlowInv'
  <2> HIDE DEF b
  <2> QED
    BY <1>1, <1>2, <1>6, <1>10, FlowNewAckSent
<1>11. CASE HeldBack(b, w, c, armed)
  <2>1. buf' = b /\ data' = data /\ retxRunning' = armed
    BY <1>11 DEF HeldBack
  <2>2. n <= n
    BY <1>3
  <2>3. SentAfter(b, a, w)
    BY <1>4, <1>5, <1>8, <2>1, <2>2 DEF SentAfter
  <2> QED
    BY <1>7, <1>10, <2>1, <2>3
<1>12. ASSUME NEW s, AllSent(b, w, s), Carries(s) PROVE FlowInv'
  <2> DEFINE x == s.buf
             q == s.sent
  <2>1. buf' = x /\ data' = data \o q /\ retxRunning' = TRUE
    BY <1>12 DEF Carries
  <2>2. /\ Sound(x) /\ x.sacked = {} /\ Missing(x) = {} /\ x.head = a /\ x.tail = buf.tail
        /\ n <= x.next /\ x.next <= a + w /\ Chain(q, n, x.next)
    BY <1>4, <1>5, <1>12 DEF AllSent, FirstSent
  <2> HIDE DEF x, q
  <2>3. SentAfter(x, a, w)
    BY <2>1, <2>2 DEF SentAfter
  <2> QED
    BY <1>10, <2>1, <2>3
<1>13. ASSUME NEW s, PartSent(b, c, s) PROVE FALSE
  BY <1>5, <1>13 DEF PartSent
<1> QED
  BY <1>9, <1>11, <1>12, <1>13

\* RecvAck: the ACK is old, or answers a probe, or acknowledges new data.
LEMMA FlowRecvAck ==
    ASSUME FlowInv, NEW i \in DOMAIN acks, RecvAck(i), RoomInv', ProbeInv'
    PROVE  FlowInv'
<1> DEFINE a == acks[i].ack
           w == UpdateWindowSize(acks[i])
           n == buf.next
           h == buf.head
           r == rcvNext
           H == highRxAckMark
<1>1. /\ a \in Nat /\ n \in Nat /\ h \in Nat /\ r \in Nat /\ H \in Nat /\ w \in Nat /\ rWnd \in Nat
      /\ h <= n /\ h <= H /\ a <= r
  BY BufferFacts, RoomFacts, WindowUpdated DEF FlowInv, BufferInv, WindowInv, AckInv
<1>2. CASE status # "up"
  <2>1. AckGone(i) /\ UNCHANGED <<retxRunning, sendEvent, dataRetrCount, status, losses>>
    BY <1>2 DEF RecvAck, AckGone, sender, peerWindow, timers
  <2> QED
    BY <1>2, <2>1, FlowPassed
<1>3. CASE status = "up"
  <2>1. Acked(i, w) /\ (IgnoredAck(acks[i], w) \/ RepeatedAck(acks[i], w) \/ NewAck(acks[i], w))
    BY <1>3 DEF RecvAck, Acked
  <2>2. rWnd = 0 <=> persistRunning
    BY <1>3 DEF FlowInv, ProbeInv, ZeroWindowProbed
  <2>3. persistRunning \in BOOLEAN /\ retxRunning \in BOOLEAN
    BY DEF FlowInv, ProbeInv, PlainTypes
  <2>4. ASSUME IgnoredAck(acks[i], w), a < h PROVE FlowInv'
    <3>1. w = rWnd /\ ~(a > H) /\ highRxAckMark' = H
      <4>1. a < H
        BY <1>1, <2>4
      <4>2. ~(a > H) /\ a # H /\ ~(a >= H)
        BY <1>1, <4>1
      <4>3. highRxAckMark' = IF a >= H THEN a ELSE H
        BY <2>1, WindowUpdated DEF Acked
      <4> QED
        BY <4>2, <4>3 DEF UpdateWindowSize
    <3>2. ~EntersPersist(w) /\ ~LeavesPersist(w)
      BY <2>2, <3>1 DEF EntersPersist, LeavesPersist
    <3>3. retxRunning' = retxRunning /\ UNCHANGED <<buf, data, cwnd, dataRetrCount>>
      BY <2>3, <2>4, <3>2 DEF IgnoredAck, RetxAfterEntry
    <3>4. AckGone(i) /\ UNCHANGED <<retxRunning, sendEvent, dataRetrCount, status, losses>>
      BY <2>1, <3>1, <3>3 DEF Acked, AckGone
    <3> QED
      BY <2>4, <3>4, FlowPassed
  <2>5. ASSUME IgnoredAck(acks[i], w), ~(a < h) PROVE FlowInv'
    <3>1. a > n
      BY <2>5 DEF IgnoredAck
    <3>2. ~(r <= n)
      <4> HIDE DEF a, n, r
      <4> QED
        BY <1>1, <3>1
    <3>3. r = n + 1 /\ AtMostOne /\ (rWnd # 0 => Due)
      BY <3>2 DEF FlowInv, ReachInv
    <3>4. rWnd = 0
      BY <3>3, AcksEmpty DEF FlowInv, Due
    <3>5. a = r /\ a >= n
      <4> HIDE DEF a, n, r
      <4> QED
        BY <1>1, <3>1, <3>3
    <3>6. \/ SendPendingData(buf, w, cwnd, RetxAfterEntry(w))
          \/ w = 0 /\ retxRunning' = RetxAfterEntry(w) /\ UNCHANGED <<buf, data>>
      BY <2>2, <2>5, <3>4 DEF IgnoredAck, LeavesPersist
    <3>7. UNCHANGED <<cwnd, dataRetrCount>>
      BY <2>5 DEF IgnoredAck
    <3> HIDE DEF w
    <3> QED
      BY <1>1, <1>3, <2>1, <3>3, <3>4, <3>5, <3>6, <3>7, FlowProbeAnswered
  <2>6. ASSUME RepeatedAck(acks[i], w) PROVE FlowInv'
    <3>1. a = h /\ a = n /\ SendPendingData(buf, w, cwnd, RetxAfterEntry(w))
          /\ UNCHANGED <<cwnd, dataRetrCount>>
      BY <2>6 DEF RepeatedAck
    <3>2. rWnd = 0
      BY <3>1 DEF FlowInv, AckInv
    <3>3. AtMostOne
      <4>1. ~(a < h)
        BY <1>1, <3>1
      <4> QED
        BY <3>2, <4>1 DEF FlowInv, ClosedInv
    <3>4. a >= n
      BY <1>1, <3>1
    <3> HIDE DEF w
    <3> QED
      BY <1>1, <1>3, <2>1, <3>1, <3>2, <3>3, <3>4, FlowProbeAnswered
  <2>7. ASSUME NewAck(acks[i], w) PROVE FlowInv'
    BY <1>3, <2>1, <2>7, FlowNewAck
  <2> QED
    BY <2>1, <2>4, <2>5, <2>6, <2>7
<1> QED
  BY <1>2, <1>3

\* Every step keeps the invariant.
LEMMA FlowStep == FlowInv /\ [Next]_vars => FlowInv'
<1> SUFFICES ASSUME FlowInv, [Next]_vars PROVE FlowInv'
  OBVIOUS
<1>1. RoomInv' /\ ProbeInv'
  BY RoomStep, ProbeStep DEF FlowInv
<1>2. CASE UNCHANGED vars
  BY <1>1, <1>2, FlowStutter
<1>3. ASSUME NEW n \in Chunks, Send(n) PROVE FlowInv'
  BY <1>1, <1>3, FlowSend
<1>4. CASE SendPendingDataEvent
  BY <1>1, <1>4, FlowEvent
<1>5. ASSUME NEW i \in DOMAIN acks, RecvAck(i) PROVE FlowInv'
  BY <1>1, <1>5, FlowRecvAck
<1>6. CASE ReTxTimeout
  BY <1>1, <1>6, FlowTimeout
<1>7. CASE ReTxGiveUp
  BY <1>1, <1>7, FlowGiveUp
<1>8. CASE PersistTimeout
  BY <1>1, <1>8, FlowPersist
<1>9. CASE PersistWithoutData
  BY <1>1, <1>9, FlowAbort
<1>10. CASE RecvData
  BY <1>1, <1>10, FlowRecvData
<1>11. CASE DelAckTimeout
  BY <1>1, <1>11, FlowDelAck
<1>12. ASSUME NEW n \in 1 .. RcvBufSize, Recv(n) PROVE FlowInv'
  BY <1>1, <1>12, FlowRecv
<1>13. ASSUME NEW i \in DOMAIN acks, LoseAck(i) PROVE FlowInv'
  BY <1>1, <1>13, FlowLoseAck
<1>14. ASSUME NEW i \in DOMAIN data, LoseProbe(i) PROVE FlowInv'
  BY <1>1, <1>14, FlowLoseProbe
<1> QED
  BY <1>2, <1>3, <1>4, <1>5, <1>6, <1>7, <1>8, <1>9, <1>10, <1>11, <1>12, <1>13, <1>14 DEF Next

\* The whole invariant holds of every reachable state.
THEOREM FlowInvariance == Spec => []FlowInv
<1> QED
  BY FlowInit, FlowStep, PTL DEF Spec

----------------------------------------------------------------------------
(* What the runs check *)

\* The windows ACKs carry are no larger than the receiver's buffer.
WindowSizes ==
    /\ rcvRead >= 1 /\ rWnd \in 0 .. RcvBufSize
    /\ acks \in Seq([ack : Nat, wnd : 0 .. RcvBufSize])

\* An ACK sent now carries what is left of the buffer.
LEMMA SizesAckNow ==
    ASSUME RoomInv, WindowSizes, AckNow, RoomInv', UNCHANGED <<rcvRead, rWnd>>
    PROVE  WindowSizes'
<1> DEFINE p == rcvNext'
           v == AdvertisedWindowSize
           x == [ack |-> p, wnd |-> v]
<1>1. rcvRead \in Nat /\ p \in Nat /\ rcvRead <= p /\ p <= MaxRxSequence /\ RcvBufSize \in Nat
  <2>1. rcvRead' <= p /\ p \in Nat /\ p <= MaxRxSequence'
    BY DEF RoomInv
  <2> QED
    BY <2>1, SocketAssumption DEF RoomInv, MaxRxSequence
<1>2. v = (rcvRead + RcvBufSize) - p
  <2>1. v = MaxRxSequence - p
    BY DEF AdvertisedWindowSize
  <2>2. MaxRxSequence = rcvRead + RcvBufSize
    BY DEF MaxRxSequence
  <2> HIDE DEF v, p
  <2> QED
    BY <2>1, <2>2
<1>3. v \in 0 .. RcvBufSize
  <2>1. p <= rcvRead + RcvBufSize
    BY <1>1 DEF MaxRxSequence
  <2> HIDE DEF p, v
  <2> QED
    BY <1>1, <1>2, <2>1
<1>4. x \in [ack : Nat, wnd : 0 .. RcvBufSize]
  <2> HIDE DEF p, v
  <2> QED
    BY <1>1, <1>3
<1>5. acks' = Append(acks, x)
  BY DEF AckNow
<1> HIDE DEF x
<1>6. acks' \in Seq([ack : Nat, wnd : 0 .. RcvBufSize])
  BY <1>4, <1>5 DEF WindowSizes
<1> QED
  BY <1>6 DEF WindowSizes

\* Every step keeps the sizes.
LEMMA SizesStep == FlowInv /\ WindowSizes /\ [Next]_vars => WindowSizes'
<1> SUFFICES ASSUME FlowInv, WindowSizes, [Next]_vars PROVE WindowSizes'
  OBVIOUS
<1>1. RoomInv /\ RoomInv'
  BY RoomStep DEF FlowInv
<1>2. CASE UNCHANGED <<rcvRead, rWnd, acks>>
  BY <1>2 DEF WindowSizes
<1>3. UNCHANGED vars => UNCHANGED <<rcvRead, rWnd, acks>>
  BY DEF vars, sender, peerWindow, receiver
<1>4. ASSUME NEW n \in Chunks, Send(n) PROVE UNCHANGED <<rcvRead, rWnd, acks>>
  BY <1>4 DEF Send, peerWindow, receiver
<1>5. SendPendingDataEvent \/ ReTxTimeout \/ ReTxGiveUp \/ PersistTimeout \/ PersistWithoutData
          => UNCHANGED <<rcvRead, rWnd, acks>>
  BY DEF SendPendingDataEvent, ReTxTimeout, ReTxGiveUp, PersistTimeout, PersistWithoutData,
         peerWindow, receiver
<1>6. ASSUME NEW i \in DOMAIN acks, RecvAck(i) \/ LoseAck(i) PROVE WindowSizes'
  <2>1. RemoveAt(acks, i) \in Seq([ack : Nat, wnd : 0 .. RcvBufSize])
    BY RemoveAtOrder DEF WindowSizes
  <2>2. acks[i].wnd \in 0 .. RcvBufSize
    <3>1. acks \in Seq([ack : Nat, wnd : 0 .. RcvBufSize])
      BY DEF WindowSizes
    <3>2. acks[i] \in [ack : Nat, wnd : 0 .. RcvBufSize]
      BY <3>1, LenProperties, ElementOfSeq
    <3> QED
      BY <3>2
  <2>3. rWnd' = rWnd \/ rWnd' = acks[i].wnd
    <3>1. LoseAck(i) => rWnd' = rWnd
      BY DEF LoseAck, sender, peerWindow
    <3>2. RecvAck(i) => rWnd' = rWnd \/ rWnd' = acks[i].wnd
      BY DEF RecvAck, sender, peerWindow, UpdateWindowSize
    <3> QED
      BY <1>6, <3>1, <3>2
  <2>4. acks' = RemoveAt(acks, i) /\ rcvRead' = rcvRead
    BY <1>6 DEF RecvAck, LoseAck, receiver
  <2> QED
    BY <2>1, <2>2, <2>3, <2>4 DEF WindowSizes
<1>7. CASE RecvData \/ DelAckTimeout
  <2>1. rcvRead' = rcvRead /\ rWnd' = rWnd /\ (AckNow \/ UNCHANGED acks)
    BY <1>7 DEF RecvData, DelAckTimeout, sender, peerWindow
  <2> QED
    BY <1>1, <1>2, <2>1, SizesAckNow
<1>8. ASSUME NEW n \in 1 .. RcvBufSize, Recv(n) PROVE WindowSizes'
  <2>1. rcvRead' = rcvRead + n /\ UNCHANGED <<rWnd, acks>>
    BY <1>8 DEF Recv, sender, peerWindow
  <2>2. rcvRead \in Nat
    BY <1>1 DEF RoomInv
  <2>3. rcvRead + n >= 1
    BY <2>2, SocketAssumption DEF WindowSizes
  <2> QED
    BY <2>1, <2>3 DEF WindowSizes
<1>9. ASSUME NEW i \in DOMAIN data, LoseProbe(i) PROVE UNCHANGED <<rcvRead, rWnd, acks>>
  BY <1>9 DEF LoseProbe, sender, peerWindow, receiver
<1> QED
  BY <1>2, <1>3, <1>4, <1>5, <1>6, <1>7, <1>8, <1>9 DEF Next

\* Everything that is under way has the size of a segment at most and is in
\* sequence.
LEMMA UnderWay ==
    ASSUME FlowInv
    PROVE  /\ \A i \in DOMAIN data : data[i].size \in 1 .. SegmentSize
           /\ data # <<>> => Head(data).seq <= rcvNext
<1>1. CASE data = <<>>
  <2>1. DOMAIN data = {}
    BY <1>1
  <2> QED
    BY <1>1, <2>1
<1>2. CASE Probing
  <2> DEFINE d == [seq |-> buf.next, size |-> 1, probe |-> TRUE]
  <2>1. data = <<d>> /\ d.seq <= rcvNext /\ d.size = 1
    BY <1>2 DEF Probing
  <2> HIDE DEF d
  <2>2. DOMAIN data = {1} /\ data[1] = d /\ Head(data) = d
    BY <2>1
  <2>3. 1 \in 1 .. SegmentSize
    BY SocketAssumption
  <2> QED
    BY <2>1, <2>2, <2>3
<1>3. ASSUME NEW first \in Nat, NEW end \in Nat, Flowing(first, end)
      PROVE  /\ \A i \in DOMAIN data : data[i].size \in 1 .. SegmentSize
             /\ data # <<>> => Head(data).seq <= rcvNext
  <2>1. Chain(data, first, end) /\ first <= rcvNext
    BY <1>3 DEF Flowing
  <2>2. DOMAIN data = 1 .. Len(data) /\ \A i \in 1 .. Len(data) : data[i].size \in 1 .. SegmentSize
    BY <2>1, ChainMembers
  <2>3. data \in Seq(Segments) /\ data[1].seq = first
    BY <2>1 DEF Chain
  <2>4. data # <<>> => Head(data) = data[1]
    BY <2>3
  <2> QED
    BY <2>1, <2>2, <2>3, <2>4
<1> QED
  BY <1>1, <1>2, <1>3 DEF FlowInv, DataInv

\* The types, and the scope of the model: data reaches the receiver in sequence
\* and no ACK is a duplicate ACK (DoForwardUp, ReceivedAck).
THEOREM FlowTypesKept == Spec => []TypeOK
<1>1. Init => WindowSizes
  BY SocketAssumption DEF Init, WindowSizes
<1>2. FlowInv /\ WindowSizes => TypeOK
  <2> SUFFICES ASSUME FlowInv, WindowSizes PROVE TypeOK
    OBVIOUS
  <2>1. /\ buf.head \in Nat /\ buf.next \in Nat /\ buf.tail \in Nat /\ buf.head >= 1
        /\ buf.head <= buf.next /\ buf.next <= buf.tail
        /\ buf.lost \subseteq Outstanding(buf) /\ buf.retrans \subseteq buf.lost
        /\ buf.sacked = {} /\ buf.tail <= N + 1
    BY BufferFacts DEF FlowInv, BufferInv
  <2>2. /\ rcvNext \in Nat /\ rcvRead \in Nat /\ highRxAckMark \in Nat
        /\ buf.head <= highRxAckMark /\ highRxAckMark <= rcvNext
        /\ rcvRead <= rcvNext /\ rcvRead >= 1
    BY RoomFacts DEF FlowInv, WindowInv, RoomInv, WindowSizes
  <2>3. N \in Nat
    BY BoundsAssumption
  <2>4. rcvNext <= N + 1
    <3>1. rcvNext <= buf.next \/ (rcvNext = buf.next + 1 /\ buf.next < buf.tail)
      BY DEF FlowInv, ReachInv
    <3> QED
      BY <2>1, <2>2, <2>3, <3>1
  <2>5. /\ buf.head \in 1 .. N + 1 /\ buf.next \in buf.head .. N + 1
        /\ buf.tail \in buf.next .. N + 1
        /\ highRxAckMark \in 1 .. N + 1
        /\ rcvNext \in 1 .. N + 1 /\ rcvRead \in 1 .. rcvNext
    BY <2>1, <2>2, <2>3, <2>4
  <2>6. {retxRunning, persistRunning, sendEvent} \subseteq BOOLEAN
    BY DEF FlowInv, PlainTypes, ProbeInv
  <2>7. \A i \in DOMAIN acks : acks[i].ack = buf.head => buf.head = buf.next
    BY DEF FlowInv, AckInv, ClosedInv
  <2> QED
    BY <2>1, <2>5, <2>6, <2>7, UnderWay DEF TypeOK, FlowInv, PlainTypes, WindowSizes
<1> QED
  BY <1>1, <1>2, FlowInit, FlowStep, SizesStep, PTL DEF Spec

\* The sender never believes in more room than the receiver has, and what it
\* has sent (a probe apart) is within that room (UpdateWindowSize, NextSeg).
THEOREM OfferRespected == Spec => []WithinOffer
<1>1. FlowInv => WithinOffer
  BY DEF FlowInv, RoomInv, WindowInv, WithinOffer
<1> QED
  BY <1>1, FlowInvariance, PTL

\* Outstanding data never faces a closed window, and is covered by the
\* retransmission timer unless the transmission stalls or is about to be tried
\* again (SendPendingData, NewAck, ReTxTimeout, DoForwardUp).
THEOREM OutstandingTimedKept == Spec => []OutstandingTimed
<1>1. FlowInv => OutstandingTimed
  <2> SUFFICES ASSUME FlowInv, status = "up", Outstanding(buf) # {}
               PROVE  rWnd # 0 /\ (retxRunning \/ Stalled \/ sendEvent)
    BY DEF OutstandingTimed
  <2>1. rWnd # 0
    BY BufferFacts DEF FlowInv, BufferInv, ClosedInv
  <2>2. retxRunning \/ Stalled \/ sendEvent
    BY DEF FlowInv, TimedInv
  <2> QED
    BY <2>1, <2>2
<1> QED
  BY <1>1, FlowInvariance, PTL

\* The connection is given up only after as many losses as there are retries
\* (ReTxTimeout, NewAck).
THEOREM GivenUpAfterLossesKept == Spec => []GivenUpAfterLosses
<1>1. FlowInv => GivenUpAfterLosses
  <2> SUFFICES ASSUME FlowInv, status = "dropped" PROVE losses >= DataRetries
    BY DEF GivenUpAfterLosses
  <2>1. DataRetries <= losses /\ losses \in Nat /\ DataRetries \in Nat
    BY SocketAssumption, BoundsAssumption DEF FlowInv, PlainTypes, RetryInv
  <2> QED
    BY <2>1
<1> QED
  BY <1>1, FlowInvariance, PTL
=============================================================================
