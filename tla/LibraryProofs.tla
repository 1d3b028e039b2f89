---------------------------- MODULE LibraryProofs ----------------------------
(***************************************************************************)
(* Facts about numbers, finite sets and the operators of the community     *)
(* modules that the proofs about the socket rest on.                       *)
(***************************************************************************)
EXTENDS Integers, Sequences, SequencesExt, FiniteSetTheorems, SequenceTheorems,
        WellFoundedInduction, TLAPS

----------------------------------------------------------------------------
(* Least and greatest members *)

\* A set of natural numbers that is not empty has a least member: what stands
\* in for induction on the natural numbers in these proofs.
LEMMA LeastNatural ==
    ASSUME NEW S \in SUBSET Nat, S # {}
    PROVE  \E n \in S : \A m \in S : n <= m
<1> DEFINE R == OpToRel(<, Nat)
<1>1. IsWellFoundedOn(R, Nat)
  BY NatLessThanWellFounded
<1>2. \A x, y \in Nat : <<y, x>> \in R <=> y < x
  BY DEF OpToRel
<1> HIDE DEF R
<1>3. \E x \in S : \A y \in S : ~(<<y, x>> \in R)
  BY <1>1, WFMin
<1>4. PICK x \in S : \A y \in S : ~(<<y, x>> \in R)
  BY <1>3
<1>5. ASSUME NEW m \in S PROVE x <= m
  <2>1. m \in Nat /\ x \in Nat
    OBVIOUS
  <2>2. ~(m < x)
    BY <1>2, <1>4, <2>1, Zenon
  <2>3. QED
    BY <2>1, <2>2
<1>6. QED
  BY <1>5

\* Min of a set of natural numbers is its least member.
LEMMA MinOfNaturals ==
    ASSUME NEW S \in SUBSET Nat, S # {}
    PROVE  Min(S) \in S /\ \A y \in S : Min(S) <= y
BY LeastNatural DEF Min

\* A bounded set of natural numbers that is not empty has a greatest member.
LEMMA GreatestNatural ==
    ASSUME NEW S \in SUBSET Nat, S # {}, NEW b \in Nat, \A x \in S : x <= b
    PROVE  \E n \in S : \A m \in S : m <= n
<1> DEFINE U == {u \in Nat : \A x \in S : x <= u}
<1>1. U \in SUBSET Nat /\ U # {}
  OBVIOUS
<1>2. PICK u \in U : \A v \in U : u <= v
  BY <1>1, LeastNatural
<1>3. u \in S
  <2>1. SUFFICES ASSUME u \notin S PROVE FALSE
    OBVIOUS
  <2>2. PICK x \in S : TRUE
    OBVIOUS
  <2>3. u \in Nat /\ x \in Nat /\ x <= u /\ x # u
    BY <2>1
  <2>4. u - 1 \in Nat /\ \A y \in S : y <= u - 1
    BY <2>1, <2>3
  <2>5. u - 1 \in U /\ ~(u <= u - 1)
    BY <2>3, <2>4
  <2>6. QED
    BY <1>2, <2>5
<1>4. QED
  BY <1>2, <1>3

\* An interval of natural numbers is a finite set of them.
LEMMA IntervalOfNaturals ==
    ASSUME NEW a \in Nat, NEW b \in Int
    PROVE  a .. b \in SUBSET Nat /\ IsFiniteSet(a .. b)
<1>1. a .. b \in SUBSET Nat
  OBVIOUS
<1>2. IsFiniteSet(a .. b)
  BY FS_Interval
<1> QED
  BY <1>1, <1>2

\* A finite set of natural numbers is bounded.
LEMMA FiniteBounded ==
    ASSUME NEW S \in SUBSET Nat, IsFiniteSet(S)
    PROVE  \E b \in Nat : \A x \in S : x <= b
<1> DEFINE Bounded(T) == \E b \in Nat : \A x \in T : x <= b
           Loose == {n \in Nat : \E T \in SUBSET S : Cardinality(T) = n /\ ~Bounded(T)}
<1>1. SUFFICES ASSUME Loose # {} PROVE FALSE
  <2>1. ~Bounded(S) => Cardinality(S) \in Loose
    BY FS_CardinalityType
  <2> QED
    BY <2>1
<1>2. Loose \in SUBSET Nat
  OBVIOUS
<1>3. PICK n \in Loose : \A m \in Loose : n <= m
  BY <1>1, <1>2, LeastNatural
<1>4. PICK T \in SUBSET S : Cardinality(T) = n /\ ~Bounded(T)
  BY <1>3
<1>5. IsFiniteSet(T) /\ T \subseteq Nat /\ n \in Nat
  BY FS_Subset
<1>6. PICK x \in T : TRUE
  BY <1>4
<1>7. T \ {x} \in SUBSET S /\ Cardinality(T \ {x}) = n - 1
  BY <1>4, <1>5, <1>6, FS_RemoveElement
<1>8. n - 1 \in Nat
  BY <1>5, <1>7, FS_RemoveElement, FS_CardinalityType
<1>9. Bounded(T \ {x})
  <2>1. n - 1 \notin Loose
    BY <1>3, <1>5
  <2> QED
    BY <1>7, <1>8, <2>1
<1>10. PICK b \in Nat : \A y \in T \ {x} : y <= b
  BY <1>9
<1>11. b + x \in Nat /\ \A y \in T : y <= b + x
  BY <1>5, <1>6, <1>10
<1> QED
  BY <1>4, <1>11

\* The larger of two numbers.
LEMMA MaxOfTwo ==
    ASSUME NEW a \in Nat, NEW b \in Nat
    PROVE  Max({a, b}) = IF a >= b THEN a ELSE b
<1>1. PICK m \in {a, b} : \A y \in {a, b} : m >= y
  OBVIOUS
<1>2. Max({a, b}) \in {a, b} /\ \A y \in {a, b} : Max({a, b}) >= y
  BY <1>1 DEF Max
<1>3. QED
  BY <1>2

\* A function on 1 .. n is a sequence of length n.
LEMMA SeqOfFunction ==
    ASSUME NEW S, NEW n \in Nat, NEW f \in [1 .. n -> S]
    PROVE  f \in Seq(S) /\ Len(f) = n /\ DOMAIN f = 1 .. n
OBVIOUS

\* A sequence without one of its members has the others.
LEMMA RemoveAtRange ==
    ASSUME NEW S, NEW s \in Seq(S), NEW i \in DOMAIN s
    PROVE  /\ RemoveAt(s, i) \in Seq(S)
           /\ \A j \in DOMAIN RemoveAt(s, i) : \E k \in DOMAIN s : RemoveAt(s, i)[j] = s[k]
<1> DEFINE front == SubSeq(s, 1, i - 1)
           back == SubSeq(s, i + 1, Len(s))
           rest == front \o back
<1>1. Len(s) \in Nat /\ DOMAIN s = 1 .. Len(s) /\ i \in 1 .. Len(s)
  BY LenProperties
<1>2. \A k \in 1 .. Len(s) : s[k] \in S
  BY ElementOfSeq
<1>3. /\ front \in Seq(S) /\ Len(front) = i - 1
      /\ \A j \in 1 .. i - 1 : front[j] = s[j]
  <2>1. 1 \in Int /\ i - 1 \in Int /\ \A k \in 1 .. i - 1 : s[k] \in S
    BY <1>1, <1>2
  <2> HIDE DEF front
  <2>2. /\ front \in Seq(S) /\ Len(front) = IF 1 <= i - 1 THEN i - 1 - 1 + 1 ELSE 0
        /\ \A j \in 1 .. i - 1 - 1 + 1 : front[j] = s[1 + j - 1]
    BY <2>1, SubSeqProperties DEF front
  <2>3. QED
    BY <2>2, <1>1
<1>4. /\ back \in Seq(S) /\ Len(back) = Len(s) - i
      /\ \A j \in 1 .. Len(s) - i : back[j] = s[i + j]
  <2>1. i + 1 \in Int /\ Len(s) \in Int /\ \A k \in i + 1 .. Len(s) : s[k] \in S
    BY <1>1, <1>2
  <2> HIDE DEF back
  <2>2. /\ back \in Seq(S)
        /\ Len(back) = IF i + 1 <= Len(s) THEN Len(s) - (i + 1) + 1 ELSE 0
        /\ \A j \in 1 .. Len(s) - (i + 1) + 1 : back[j] = s[i + 1 + j - 1]
    BY <2>1, SubSeqProperties DEF back
  <2>3. ASSUME NEW j \in 1 .. Len(s) - i PROVE back[j] = s[i + j]
    <3>1. j \in 1 .. Len(s) - (i + 1) + 1 /\ i + 1 + j - 1 = i + j
      BY <1>1
    <3>2. QED
      BY <2>2, <3>1
  <2>4. Len(back) = Len(s) - i
    BY <2>2, <1>1
  <2>5. QED
    BY <2>2, <2>3, <2>4
<1> HIDE DEF front, back
<1>5. /\ rest \in Seq(S) /\ Len(rest) = Len(front) + Len(back)
      /\ \A j \in 1 .. Len(front) + Len(back) :
             rest[j] = IF j <= Len(front) THEN front[j] ELSE back[j - Len(front)]
  BY <1>3, <1>4, ConcatProperties
<1> HIDE DEF rest
<1>6. /\ Len(rest) = Len(s) - 1
      /\ \A j \in 1 .. Len(s) - 1 :
             rest[j] = IF j <= i - 1 THEN front[j] ELSE back[j - (i - 1)]
  BY <1>1, <1>3, <1>4, <1>5
<1>7. ASSUME NEW j \in 1 .. Len(s) - 1
      PROVE  \E k \in 1 .. Len(s) : rest[j] = s[k]
  <2>1. CASE j <= i - 1
    BY <2>1, <1>1, <1>3, <1>6
  <2>2. CASE j > i - 1
    <3>1. j - (i - 1) \in 1 .. Len(s) - i /\ i + (j - (i - 1)) \in 1 .. Len(s)
      BY <2>2, <1>1
    <3>2. rest[j] = s[i + (j - (i - 1))]
      BY <2>2, <3>1, <1>1, <1>4, <1>6
    <3>3. QED
      BY <3>1, <3>2
  <2>3. QED
    BY <2>1, <2>2, <1>1
<1>8. DOMAIN rest = 1 .. Len(s) - 1
  BY <1>5, <1>6, LenProperties
<1>9. RemoveAt(s, i) = rest
  BY DEF RemoveAt, rest, front, back
<1>10. QED
  BY <1>1, <1>5, <1>7, <1>8, <1>9

\* A sequence without its first member.
LEMMA RemoveAtOne ==
    ASSUME NEW S, NEW s \in Seq(S), Len(s) # 0
    PROVE  /\ RemoveAt(s, 1) \in Seq(S) /\ Len(RemoveAt(s, 1)) = Len(s) - 1
           /\ \A j \in 1 .. Len(s) - 1 : RemoveAt(s, 1)[j] = s[j + 1]
<1> DEFINE front == SubSeq(s, 1, 1 - 1)
           back == SubSeq(s, 1 + 1, Len(s))
<1>1. Len(s) \in Nat /\ Len(s) >= 1 /\ \A k \in 1 .. Len(s) : s[k] \in S
  BY LenProperties, ElementOfSeq
<1>2. front \in Seq(S) /\ Len(front) = 0
  OBVIOUS
<1>3. /\ back \in Seq(S) /\ Len(back) = Len(s) - 1
      /\ \A j \in 1 .. Len(s) - 1 : back[j] = s[j + 1]
  <2>1. 2 \in Int /\ Len(s) \in Int /\ \A k \in 2 .. Len(s) : s[k] \in S
    BY <1>1
  <2>2. back = SubSeq(s, 2, Len(s))
    OBVIOUS
  <2> HIDE DEF back
  <2>3. /\ back \in Seq(S) /\ Len(back) = IF 2 <= Len(s) THEN Len(s) - 2 + 1 ELSE 0
        /\ \A j \in 1 .. Len(s) - 2 + 1 : back[j] = s[2 + j - 1]
    BY <2>1, <2>2, SubSeqProperties
  <2>4. ASSUME NEW j \in 1 .. Len(s) - 1 PROVE back[j] = s[j + 1]
    <3>1. j \in 1 .. Len(s) - 2 + 1 /\ 2 + j - 1 = j + 1
      BY <1>1
    <3> QED
      BY <2>3, <3>1
  <2>5. Len(back) = Len(s) - 1
    <3> DEFINE n == Len(s)
    <3>1. Len(back) = IF 2 <= n THEN n - 2 + 1 ELSE 0
      BY <2>3
    <3>2. n \in Nat /\ n >= 1
      BY <1>1
    <3> HIDE DEF n
    <3>3. Len(back) = n - 1
      BY <3>1, <3>2
    <3> QED
      BY <3>3 DEF n
  <2> QED
    BY <2>3, <2>4, <2>5
<1> HIDE DEF front, back
<1>4. RemoveAt(s, 1) = front \o back
  BY DEF RemoveAt, front, back
<1> DEFINE rest == front \o back
<1>5. /\ rest \in Seq(S) /\ Len(rest) = 0 + (Len(s) - 1)
      /\ \A j \in 1 .. 0 + (Len(s) - 1) : rest[j] = IF j <= 0 THEN front[j] ELSE back[j - 0]
  BY <1>2, <1>3, ConcatProperties
<1>6. ASSUME NEW j \in 1 .. Len(s) - 1 PROVE rest[j] = s[j + 1]
  <2>1. j \in 1 .. 0 + (Len(s) - 1) /\ ~(j <= 0) /\ j - 0 = j
    BY <1>1
  <2> QED
    BY <1>3, <1>5, <2>1
<1>7. Len(rest) = Len(s) - 1
  BY <1>1, <1>5
<1>8. RemoveAt(s, 1) = rest /\ rest \in Seq(S)
  BY <1>4, <1>5
<1> HIDE DEF rest
<1>9. /\ rest \in Seq(S) /\ Len(rest) = Len(s) - 1
      /\ \A j \in 1 .. Len(s) - 1 : rest[j] = s[j + 1]
  BY <1>6, <1>7, <1>8
<1>10. QED
  BY <1>8, <1>9

\* The members RemoveAt leaves keep their order.
LEMMA RemoveAtOrder ==
    ASSUME NEW S, NEW s \in Seq(S), NEW i \in DOMAIN s
    PROVE  /\ RemoveAt(s, i) \in Seq(S) /\ Len(RemoveAt(s, i)) = Len(s) - 1
           /\ \A j \in 1 .. Len(s) - 1 :
                  RemoveAt(s, i)[j] = IF j < i THEN s[j] ELSE s[j + 1]
<1> DEFINE front == SubSeq(s, 1, i - 1)
           back == SubSeq(s, i + 1, Len(s))
           rest == front \o back
           len == Len(s)
<1>1. len \in Nat /\ DOMAIN s = 1 .. len /\ i \in 1 .. len
  BY LenProperties
<1>2. \A k \in 1 .. len : s[k] \in S
  BY ElementOfSeq
<1>3. /\ front \in Seq(S) /\ Len(front) = i - 1
      /\ \A j \in 1 .. i - 1 : front[j] = s[j]
  <2>1. 1 \in Int /\ i - 1 \in Int /\ \A k \in 1 .. i - 1 : s[k] \in S
    BY <1>1, <1>2
  <2> HIDE DEF front
  <2>2. /\ front \in Seq(S) /\ Len(front) = IF 1 <= i - 1 THEN i - 1 - 1 + 1 ELSE 0
        /\ \A j \in 1 .. i - 1 - 1 + 1 : front[j] = s[1 + j - 1]
    BY <2>1, SubSeqProperties DEF front
  <2>3. QED
    BY <2>2, <1>1
<1>4. /\ back \in Seq(S) /\ Len(back) = len - i
      /\ \A j \in 1 .. len - i : back[j] = s[i + j]
  <2>1. i + 1 \in Int /\ len \in Int /\ \A k \in i + 1 .. len : s[k] \in S
    BY <1>1, <1>2
  <2> HIDE DEF back
  <2>2. /\ back \in Seq(S)
        /\ Len(back) = IF i + 1 <= len THEN len - (i + 1) + 1 ELSE 0
        /\ \A j \in 1 .. len - (i + 1) + 1 : back[j] = s[i + 1 + j - 1]
    BY <2>1, SubSeqProperties DEF back
  <2>3. ASSUME NEW j \in 1 .. len - i PROVE back[j] = s[i + j]
    <3>1. j \in 1 .. len - (i + 1) + 1 /\ i + 1 + j - 1 = i + j
      BY <1>1
    <3>2. QED
      BY <2>2, <3>1
  <2>4. Len(back) = len - i
    BY <2>2, <1>1
  <2>5. QED
    BY <2>2, <2>3, <2>4
<1> HIDE DEF front, back
<1>5. /\ rest \in Seq(S) /\ Len(rest) = Len(front) + Len(back)
      /\ \A j \in 1 .. Len(front) + Len(back) :
             rest[j] = IF j <= Len(front) THEN front[j] ELSE back[j - Len(front)]
  BY <1>3, <1>4, ConcatProperties
<1> HIDE DEF rest, len
<1>6. /\ Len(rest) = len - 1
      /\ \A j \in 1 .. len - 1 :
             rest[j] = IF j <= i - 1 THEN front[j] ELSE back[j - (i - 1)]
  BY <1>1, <1>3, <1>4, <1>5
<1>7. ASSUME NEW j \in 1 .. len - 1
      PROVE  rest[j] = IF j < i THEN s[j] ELSE s[j + 1]
  <2>1. CASE j < i
    <3>1. j <= i - 1 /\ j \in 1 .. i - 1
      BY <1>1, <2>1
    <3> QED
      BY <1>3, <1>6, <2>1, <3>1
  <2>2. CASE ~(j < i)
    <3>1. ~(j <= i - 1) /\ j - (i - 1) \in 1 .. len - i /\ i + (j - (i - 1)) = j + 1
      BY <1>1, <2>2
    <3>2. rest[j] = back[j - (i - 1)]
      BY <1>6, <3>1
    <3>3. back[j - (i - 1)] = s[i + (j - (i - 1))]
      BY <1>4, <3>1
    <3> QED
      BY <2>2, <3>1, <3>2, <3>3
  <2>3. QED
    BY <2>1, <2>2
<1>8. RemoveAt(s, i) = rest
  BY DEF RemoveAt, rest, front, back
<1> QED
  BY <1>5, <1>6, <1>7, <1>8 DEF len
=============================================================================
