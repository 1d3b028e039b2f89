-------------------------- MODULE TcpTxBufferProofs --------------------------
(***************************************************************************)
(* What the operations of the transmission buffer do to its flags, for     *)
(* every buffer whose flags are consistent.                                *)
(***************************************************************************)
EXTENDS TcpTxBuffer, LibraryProofs

TxBuffers ==
    [head : Nat \ {0}, next : Nat, tail : Nat,
     sacked : SUBSET Nat, lost : SUBSET Nat, retrans : SUBSET Nat]

\* The flags of the sent list do not contradict each other.
Sound(b) ==
    /\ b \in TxBuffers
    /\ b.head <= b.next /\ b.next <= b.tail
    /\ b.sacked \subseteq Outstanding(b) \ {b.head}
    /\ b.lost \subseteq Outstanding(b)
    /\ b.retrans \subseteq b.lost
    /\ b.sacked \cap b.lost = {}

----------------------------------------------------------------------------
(* The k lowest members of a set *)

\* The rank of a natural number in a finite set counts, and grows with the number.
LEMMA RankGrows ==
    ASSUME NEW S \in SUBSET Nat, IsFiniteSet(S)
    PROVE  /\ \A x \in Nat : Rank(S, x) \in Nat
           /\ \A x, y \in Nat : x <= y => Rank(S, x) <= Rank(S, y)
           /\ \A x \in S : Rank(S, x) >= 1
<1> DEFINE Upto(x) == {z \in S : z <= x}
<1>1. \A x \in Nat : IsFiniteSet(Upto(x))
  <2> TAKE x \in Nat
  <2>1. Upto(x) \in SUBSET S
    OBVIOUS
  <2> QED
    BY <2>1, FS_Subset
<1>2. \A x \in Nat : Rank(S, x) = Cardinality(Upto(x)) /\ Rank(S, x) \in Nat
  BY <1>1, FS_CardinalityType DEF Rank
<1>3. ASSUME NEW x \in Nat, NEW y \in Nat, x <= y
      PROVE  Rank(S, x) <= Rank(S, y)
  <2>1. \A z \in S : z <= x => z <= y
    BY <1>3
  <2>2. Upto(x) \in SUBSET Upto(y)
    BY <2>1
  <2> QED
    BY <1>1, <1>2, <2>2, FS_Subset
<1>4. ASSUME NEW x \in S
      PROVE  Rank(S, x) >= 1
  <2>1. x \in Nat /\ x \in Upto(x)
    OBVIOUS
  <2>2. Cardinality(Upto(x)) # 0
    BY <1>1, <2>1, FS_EmptySet
  <2> QED
    BY <1>2, <2>1, <2>2
<1> QED
  BY <1>2, <1>3, <1>4

\* Lowest takes members from below: whatever is below one it takes is taken.
LEMMA LowestBelow ==
    ASSUME NEW S \in SUBSET Nat, IsFiniteSet(S), NEW k \in Nat
    PROVE  /\ Lowest(S, k) \subseteq S
           /\ IsFiniteSet(Lowest(S, k)) /\ Cardinality(Lowest(S, k)) \in Nat
           /\ \A x \in Lowest(S, k), y \in S : y <= x => y \in Lowest(S, k)
<1>1. Lowest(S, k) \in SUBSET S
  BY DEF Lowest
<1>2. IsFiniteSet(Lowest(S, k)) /\ Cardinality(Lowest(S, k)) \in Nat
  BY <1>1, FS_Subset, FS_CardinalityType
<1>3. ASSUME NEW x \in Lowest(S, k), NEW y \in S, y <= x
      PROVE  y \in Lowest(S, k)
  <2>1. x \in Nat /\ y \in Nat /\ Rank(S, x) <= k
    BY <1>1 DEF Lowest
  <2>2. Rank(S, y) <= Rank(S, x) /\ Rank(S, x) \in Nat /\ Rank(S, y) \in Nat
    BY <1>3, <2>1, RankGrows
  <2>3. Rank(S, y) <= k
    BY <2>1, <2>2
  <2> QED
    BY <2>3 DEF Lowest
<1> QED
  BY <1>1, <1>2, <1>3

\* It takes at most k of them.
LEMMA LowestAtMost ==
    ASSUME NEW S \in SUBSET Nat, IsFiniteSet(S), NEW k \in Nat
    PROVE  Cardinality(Lowest(S, k)) <= k
<1> DEFINE L == Lowest(S, k)
<1>1. L \in SUBSET S /\ IsFiniteSet(L) /\ L \in SUBSET Nat
  BY LowestBelow
<1>2. CASE L = {}
  BY <1>2, FS_EmptySet
<1>3. CASE L # {}
  <2>1. PICK b \in Nat : \A x \in S : x <= b
    BY FiniteBounded
  <2>2. PICK m \in L : \A x \in L : x <= m
    BY <1>1, <1>3, <2>1, GreatestNatural
  <2>3. L \subseteq {z \in S : z <= m}
    BY <1>1, <2>2
  <2>4. IsFiniteSet({z \in S : z <= m})
    <3>1. {z \in S : z <= m} \in SUBSET S
      OBVIOUS
    <3> QED
      BY <3>1, FS_Subset
  <2>5. Cardinality(L) <= Cardinality({z \in S : z <= m})
    BY <2>3, <2>4, FS_Subset
  <2>6. Cardinality({z \in S : z <= m}) <= k
    BY <2>2 DEF Lowest, Rank
  <2>7. Cardinality(L) \in Nat /\ Cardinality({z \in S : z <= m}) \in Nat
    BY <1>1, <2>4, FS_CardinalityType
  <2> QED
    BY <2>5, <2>6, <2>7
<1> QED
  BY <1>2, <1>3

\* It takes fewer only when it takes all.
LEMMA LowestFewer ==
    ASSUME NEW S \in SUBSET Nat, IsFiniteSet(S), NEW k \in Nat,
           Cardinality(Lowest(S, k)) < k
    PROVE  Lowest(S, k) = S
<1> DEFINE L == Lowest(S, k)
<1>1. L \subseteq S /\ IsFiniteSet(L) /\ Cardinality(L) \in Nat
  BY LowestBelow
<1>2. SUFFICES ASSUME S \ L # {} PROVE FALSE
  BY <1>1
<1>3. S \ L \in SUBSET Nat
  OBVIOUS
<1>4. PICK x \in S \ L : \A y \in S \ L : x <= y
  BY <1>2, <1>3, LeastNatural
<1>5. {z \in S : z <= x} \subseteq L \cup {x}
  <2> SUFFICES ASSUME NEW z \in S, z <= x, z \notin L PROVE z = x
    OBVIOUS
  <2>1. x <= z /\ x \in Nat /\ z \in Nat
    BY <1>4
  <2> QED
    BY <2>1
<1>6. IsFiniteSet(L \cup {x}) /\ Cardinality(L \cup {x}) = Cardinality(L) + 1
  BY <1>1, <1>4, FS_AddElement
<1>7. Rank(S, x) <= Cardinality(L) + 1
  BY <1>5, <1>6, FS_Subset DEF Rank
<1>8. ~(Rank(S, x) <= k) /\ Rank(S, x) \in Nat
  BY <1>4, RankGrows DEF Lowest
<1> QED
  BY <1>1, <1>7, <1>8

\* It takes the least member when it takes any.
LEMMA LowestLeast ==
    ASSUME NEW S \in SUBSET Nat, IsFiniteSet(S), S # {}, NEW k \in Nat, k >= 1
    PROVE  Min(S) \in Lowest(S, k)
<1>1. Min(S) \in S /\ \A y \in S : Min(S) <= y
  BY MinOfNaturals
<1> DEFINE m == Min(S)
<1> HIDE DEF m
<1>2. m \in S /\ m \in Nat /\ \A y \in S : m <= y
  BY <1>1 DEF m
<1>3. {z \in S : z <= m} = {m}
  <2> SUFFICES ASSUME NEW z \in S, z <= m PROVE z = m
    BY <1>2
  <2>1. z \in Nat /\ m <= z
    BY <1>2
  <2> QED
    BY <1>2, <2>1
<1>4. Rank(S, m) = 1
  BY <1>3, FS_Singleton DEF Rank
<1> QED
  BY <1>2, <1>4 DEF Lowest, m

\* Each rank up to the size of a set is that of one of its members.
LEMMA RankReached ==
    ASSUME NEW S \in SUBSET Nat, IsFiniteSet(S), NEW k \in 1 .. Cardinality(S)
    PROVE  \E x \in S : Rank(S, x) = k
<1> DEFINE Upto(x) == {z \in S : z <= x}
           High == {x \in S : Rank(S, x) >= k}
<1>1. PICK b \in Nat : \A x \in S : x <= b
  BY FiniteBounded
<1>2. Cardinality(S) \in Nat /\ S # {} /\ k \in Nat
  BY FS_CardinalityType, FS_EmptySet
<1>3. PICK m \in S : \A x \in S : x <= m
  BY <1>1, <1>2, GreatestNatural
<1>4. Upto(m) = S
  BY <1>3
<1>5. m \in High
  BY <1>2, <1>4 DEF Rank
<1>6. High \in SUBSET Nat /\ High # {}
  BY <1>5
<1>7. PICK x \in High : \A y \in High : x <= y
  BY <1>6, LeastNatural
<1>8. x \in S /\ x \in Nat /\ Rank(S, x) >= k /\ Rank(S, x) \in Nat
  BY <1>7, RankGrows
<1> DEFINE below == {z \in S : z < x}
<1>9. below \in SUBSET S /\ IsFiniteSet(below) /\ x \notin below
  <2>1. below \in SUBSET S
    OBVIOUS
  <2>2. x \notin below
    BY <1>8
  <2> QED
    BY <2>1, <2>2, FS_Subset
<1>10. Upto(x) = below \cup {x}
  <2>1. \A z \in S : z <= x <=> z < x \/ z = x
    BY <1>8
  <2> QED
    BY <1>8, <2>1
<1>11. Rank(S, x) = Cardinality(below) + 1
  BY <1>9, <1>10, FS_AddElement DEF Rank
<1>12. Cardinality(below) \in Nat /\ Cardinality(below) < k
  <2>1. Cardinality(below) \in Nat
    BY <1>9, FS_CardinalityType
  <2>2. CASE below = {}
    <3>1. Cardinality(below) = 0
      BY <2>2, FS_EmptySet
    <3> QED
      BY <1>2, <3>1
  <2>3. CASE below # {}
    <3>1. below \in SUBSET Nat /\ \A z \in below : z <= b
      BY <1>1
    <3>2. PICK y \in below : \A z \in below : z <= y
      BY <2>3, <3>1, GreatestNatural
    <3>3. y \in S /\ y \in Nat /\ y < x
      OBVIOUS
    <3>4. Upto(y) = below
      <4>1. ASSUME NEW z \in S PROVE z <= y <=> z < x
        <5>1. z \in Nat
          OBVIOUS
        <5>2. z <= y => z < x
          BY <1>8, <3>3, <5>1
        <5>3. z < x => z <= y
          BY <3>2
        <5> QED
          BY <5>2, <5>3
      <4> QED
        BY <4>1
    <3>5. ~(Rank(S, y) >= k)
      <4>1. y \notin High
        BY <1>7, <1>8, <3>3
      <4> QED
        BY <3>3, <4>1
    <3>6. Rank(S, y) = Cardinality(below)
      BY <3>4 DEF Rank
    <3> HIDE DEF below
    <3> QED
      BY <1>2, <2>1, <3>5, <3>6
  <2> QED
    BY <2>1, <2>2, <2>3
<1> HIDE DEF below
<1>13. Rank(S, x) = k
  BY <1>2, <1>8, <1>11, <1>12
<1> QED
  BY <1>8, <1>13

\* Ascending lists members of the set.
LEMMA AscendingRange ==
    ASSUME NEW S \in SUBSET Nat, IsFiniteSet(S)
    PROVE  Ascending(S) \in Seq(S) /\ DOMAIN Ascending(S) = 1 .. Cardinality(S)
<1>1. Cardinality(S) \in Nat
  BY FS_CardinalityType
<1>2. \A k \in 1 .. Cardinality(S) : (CHOOSE x \in S : Rank(S, x) = k) \in S
  BY RankReached
<1>3. Ascending(S) \in [1 .. Cardinality(S) -> S]
  BY <1>2 DEF Ascending
<1> QED
  BY <1>1, <1>3, SeqOfFunction

----------------------------------------------------------------------------
(* The operations *)

\* The fields of a consistent buffer are numbers and finite sets.
LEMMA SoundFinite ==
    ASSUME NEW b, Sound(b)
    PROVE  /\ b.head \in Nat \ {0} /\ b.next \in Nat /\ b.tail \in Nat
           /\ b.sacked \in SUBSET Nat /\ b.lost \in SUBSET Nat /\ b.retrans \in SUBSET Nat
           /\ Outstanding(b) \in SUBSET Nat /\ IsFiniteSet(Outstanding(b))
           /\ IsFiniteSet(b.sacked) /\ IsFiniteSet(b.lost) /\ IsFiniteSet(b.retrans)
           /\ Missing(b) = b.lost \ b.retrans
           /\ Missing(b) \in SUBSET Nat /\ IsFiniteSet(Missing(b))
<1>1. /\ b.head \in Nat \ {0} /\ b.next \in Nat /\ b.tail \in Nat
      /\ b.sacked \in SUBSET Nat /\ b.lost \in SUBSET Nat /\ b.retrans \in SUBSET Nat
  BY DEF Sound, TxBuffers
<1>2. Outstanding(b) \in SUBSET Nat /\ IsFiniteSet(Outstanding(b))
  <2>1. b.next - 1 \in Int
    BY <1>1
  <2> QED
    BY <1>1, <2>1, IntervalOfNaturals DEF Outstanding
<1>3. /\ b.sacked \in SUBSET Outstanding(b) /\ b.lost \in SUBSET Outstanding(b)
      /\ b.retrans \in SUBSET Outstanding(b)
  BY DEF Sound
<1>4. IsFiniteSet(b.sacked) /\ IsFiniteSet(b.lost) /\ IsFiniteSet(b.retrans)
  BY <1>2, <1>3, FS_Subset
<1>5. Missing(b) = b.lost \ b.retrans /\ Missing(b) \in SUBSET b.lost
  BY DEF Sound, Missing
<1> QED
  BY <1>1, <1>2, <1>4, <1>5, FS_Subset

\* The count of segments in flight, unsigned in the code, does not wrap; it is
\* zero when nothing is outstanding and when all that is was lost.
LEMMA InFlight ==
    ASSUME NEW b, Sound(b)
    PROVE  /\ BytesInFlight(b) \in Nat
           /\ Outstanding(b) = {} => BytesInFlight(b) = 0
           /\ b.lost = Outstanding(b) /\ b.retrans = {} => BytesInFlight(b) = 0
<1> DEFINE o == Cardinality(Outstanding(b))
           s == Cardinality(b.sacked)
           l == Cardinality(b.lost)
           r == Cardinality(b.retrans)
<1>1. o \in Nat /\ s \in Nat /\ l \in Nat /\ r \in Nat
  BY SoundFinite, FS_CardinalityType
<1>2. s + l <= o
  <2>1. b.sacked \cup b.lost \in SUBSET Outstanding(b) /\ b.sacked \cap b.lost = {}
    BY DEF Sound
  <2>2. Cardinality(b.sacked \cup b.lost) = s + l - 0
    BY <2>1, SoundFinite, FS_Union, FS_EmptySet
  <2>3. Cardinality(b.sacked \cup b.lost) <= o
    BY <2>1, SoundFinite, FS_Subset
  <2> QED
    BY <1>1, <2>2, <2>3
<1>3. BytesInFlight(b) = o - s - l + r
  BY DEF BytesInFlight
<1>4. ASSUME Outstanding(b) = {} PROVE o = 0 /\ s = 0 /\ l = 0 /\ r = 0
  <2>1. b.sacked = {} /\ b.lost = {} /\ b.retrans = {}
    BY <1>4 DEF Sound
  <2> QED
    BY <1>4, <2>1, FS_EmptySet
<1>5. ASSUME b.lost = Outstanding(b), b.retrans = {} PROVE o = l /\ s = 0 /\ r = 0
  <2>1. b.sacked = {}
    BY <1>5 DEF Sound
  <2> QED
    BY <1>5, <2>1, FS_EmptySet
<1> HIDE DEF o, s, l, r
<1>6. o - s - l + r \in Nat
  BY <1>1, <1>2
<1>7. Outstanding(b) = {} => o - s - l + r = 0
  BY <1>4
<1>8. b.lost = Outstanding(b) /\ b.retrans = {} => o - s - l + r = 0
  BY <1>1, <1>5
<1> QED
  BY <1>3, <1>6, <1>7, <1>8

\* Sending lost segments again and new ones for the first time keeps the flags consistent.
LEMMA MarkSentSound ==
    ASSUME NEW b, Sound(b), NEW R \in SUBSET b.lost, NEW n \in 0 .. b.tail - b.next
    PROVE  LET c == MarkSent(b, R, n)
           IN  /\ Sound(c)
               /\ c.head = b.head /\ c.next = b.next + n /\ c.tail = b.tail
               /\ c.sacked = b.sacked /\ c.lost = b.lost /\ c.retrans = b.retrans \cup R
<1> DEFINE c == MarkSent(b, R, n)
<1>1. b \in TxBuffers /\ b.head <= b.next /\ b.next <= b.tail
  BY DEF Sound
<1>2. /\ c.head = b.head /\ c.next = b.next + n /\ c.tail = b.tail
      /\ c.sacked = b.sacked /\ c.lost = b.lost /\ c.retrans = b.retrans \cup R
  BY <1>1 DEF MarkSent, TxBuffers
<1>3. c \in TxBuffers
  <2>1. b.lost \in SUBSET Nat /\ b.retrans \in SUBSET Nat /\ b.next \in Nat /\ b.tail \in Nat
    BY <1>1 DEF TxBuffers
  <2>2. b.next + n \in Nat
    BY <2>1
  <2>3. b.retrans \cup R \in SUBSET Nat
    BY <2>1
  <2> QED
    BY <1>1, <2>2, <2>3 DEF MarkSent, TxBuffers
<1> HIDE DEF c
<1>4. n \in Nat /\ b.next + n <= b.tail /\ b.head <= b.next + n
  BY <1>1 DEF TxBuffers
<1>5. Outstanding(b) \subseteq Outstanding(c)
  BY <1>1, <1>2, <1>4 DEF Outstanding, TxBuffers
<1>6. Sound(c)
  BY <1>2, <1>3, <1>4, <1>5 DEF Sound
<1> QED
  BY <1>2, <1>6 DEF c

\* So does guessing that a segment after the head was received.
LEMMA AddRenoSackSound ==
    ASSUME NEW b, Sound(b), b.lost \subseteq {b.head}
    PROVE  LET c == AddRenoSack(b)
           IN  /\ Sound(c)
               /\ c.head = b.head /\ c.next = b.next /\ c.tail = b.tail
               /\ c.lost = b.lost /\ c.retrans = b.retrans
<1> DEFINE c == AddRenoSack(b)
           room == (b.head + 1 .. b.next - 1) \ b.sacked
           new == Lowest(room, 1)
<1>1. b \in TxBuffers /\ b.head <= b.next /\ b.next <= b.tail
  BY DEF Sound
<1>2. new \subseteq b.head + 1 .. b.next - 1
  BY DEF Lowest
<1>3. b.sacked \cup new \in SUBSET Nat
  <2>1. b.head + 1 .. b.next - 1 \in SUBSET Nat /\ b.sacked \in SUBSET Nat
    <3>1. b.head + 1 \in Nat /\ b.next - 1 \in Int /\ b.sacked \in SUBSET Nat
      BY <1>1 DEF TxBuffers
    <3> QED
      BY <3>1, IntervalOfNaturals
  <2> HIDE DEF new
  <2> QED
    BY <1>2, <2>1
<1>4. c = [b EXCEPT !.sacked = @ \cup new]
  BY DEF AddRenoSack
<1> HIDE DEF new
<1>5. /\ c.head = b.head /\ c.next = b.next /\ c.tail = b.tail
      /\ c.sacked = b.sacked \cup new /\ c.lost = b.lost /\ c.retrans = b.retrans
      /\ c \in TxBuffers
  BY <1>1, <1>3, <1>4 DEF TxBuffers
<1> HIDE DEF c
<1>6. new \subseteq Outstanding(b) \ {b.head} /\ Outstanding(c) = Outstanding(b)
  BY <1>1, <1>2, <1>5 DEF Outstanding, TxBuffers
<1>7. Sound(c)
  BY <1>5, <1>6 DEF Sound
<1> QED
  BY <1>5, <1>7 DEF c

\* So does marking the head as lost, which forgets that it was sent again.
LEMMA MarkHeadAsLostSound ==
    ASSUME NEW b, Sound(b), Outstanding(b) # {}
    PROVE  LET c == MarkHeadAsLost(b)
           IN  /\ Sound(c)
               /\ c.head = b.head /\ c.next = b.next /\ c.tail = b.tail
               /\ c.sacked = b.sacked /\ c.lost = b.lost \cup {b.head}
               /\ c.retrans = b.retrans \ {b.head}
<1> DEFINE c == MarkHeadAsLost(b)
<1>1. b \in TxBuffers /\ b.head <= b.next /\ b.next <= b.tail
  BY DEF Sound
<1>2. c = [b EXCEPT !.sacked = @ \ {b.head}, !.retrans = @ \ {b.head},
                    !.lost = @ \cup {b.head}]
  BY DEF MarkHeadAsLost
<1>3. b.sacked \ {b.head} = b.sacked
  BY DEF Sound
<1>4. /\ c.head = b.head /\ c.next = b.next /\ c.tail = b.tail
      /\ c.sacked = b.sacked \ {b.head} /\ c.lost = b.lost \cup {b.head}
      /\ c.retrans = b.retrans \ {b.head}
      /\ c \in TxBuffers
  <2>1. /\ b.sacked \ {b.head} \in SUBSET Nat /\ b.lost \cup {b.head} \in SUBSET Nat
        /\ b.retrans \ {b.head} \in SUBSET Nat
    BY <1>1 DEF TxBuffers
  <2> HIDE DEF c
  <2> QED
    BY <1>1, <1>2, <2>1 DEF TxBuffers
<1> HIDE DEF c
<1>5. b.head \in Outstanding(b) /\ Outstanding(c) = Outstanding(b)
  BY <1>1, <1>4 DEF Outstanding, TxBuffers
<1>6. Sound(c)
  BY <1>3, <1>4, <1>5 DEF Sound
<1> QED
  BY <1>3, <1>4, <1>6 DEF c

\* After a timeout everything outstanding is lost and nothing was sent again.
LEMMA SetSentListLostSound ==
    ASSUME NEW b, Sound(b)
    PROVE  LET c == SetSentListLost(ResetRenoSack(b))
           IN  /\ Sound(c)
               /\ c.head = b.head /\ c.next = b.next /\ c.tail = b.tail
               /\ c.sacked = {} /\ c.lost = Outstanding(b) /\ c.retrans = {}
<1> DEFINE d == ResetRenoSack(b)
           c == SetSentListLost(d)
<1>1. b \in TxBuffers /\ b.head <= b.next /\ b.next <= b.tail
  BY DEF Sound
<1>2. d \in TxBuffers /\ d.head = b.head /\ d.next = b.next /\ d.tail = b.tail
  BY <1>1 DEF ResetRenoSack, TxBuffers
<1> HIDE DEF d
<1>3. Outstanding(d) = Outstanding(b) /\ Outstanding(b) \in SUBSET Nat
  BY <1>1, <1>2, SoundFinite DEF Outstanding
<1>4. /\ c.head = b.head /\ c.next = b.next /\ c.tail = b.tail
      /\ c.sacked = {} /\ c.lost = Outstanding(b) /\ c.retrans = {}
      /\ c \in TxBuffers
  BY <1>2, <1>3 DEF SetSentListLost, TxBuffers
<1> HIDE DEF c
<1>5. Outstanding(c) = Outstanding(b)
  BY <1>4 DEF Outstanding
<1>6. Sound(c)
  BY <1>1, <1>4, <1>5 DEF Sound
<1> QED
  BY <1>4, <1>6 DEF c, d

\* Discarding up to an ACK of nothing new changes nothing.
LEMMA DiscardNothing ==
    ASSUME NEW b, Sound(b)
    PROVE  LET c == DiscardUpTo(b, b.head)
           IN  /\ Sound(c)
               /\ c.head = b.head /\ c.next = b.next /\ c.tail = b.tail
               /\ c.sacked = b.sacked /\ c.lost = b.lost /\ c.retrans = b.retrans
<1> DEFINE kept == b.head .. b.next - 1
           d == [b EXCEPT !.head = b.head, !.sacked = @ \cap kept,
                          !.lost = @ \cap kept, !.retrans = @ \cap kept]
<1>1. b \in TxBuffers /\ b.head <= b.next /\ b.next <= b.tail
  BY DEF Sound
<1>2. b.sacked \cap kept = b.sacked /\ b.lost \cap kept = b.lost /\ b.retrans \cap kept = b.retrans
  BY DEF Sound, Outstanding
<1>3. /\ d.head = b.head /\ d.next = b.next /\ d.tail = b.tail
      /\ d.sacked = b.sacked \cap kept /\ d.lost = b.lost \cap kept
      /\ d.retrans = b.retrans \cap kept /\ d \in TxBuffers
  BY <1>1 DEF TxBuffers
<1>4. DiscardUpTo(b, b.head) = IF b.head \in d.sacked
        THEN MarkHeadAsLost(AddRenoSack([d EXCEPT !.sacked = @ \ {b.head}])) ELSE d
  BY DEF DiscardUpTo
<1> HIDE DEF d
<1>5. b.head \notin d.sacked
  BY <1>2, <1>3 DEF Sound
<1>6. DiscardUpTo(b, b.head) = d
  BY <1>4, <1>5
<1>7. Outstanding(d) = Outstanding(b)
  BY <1>3 DEF Outstanding
<1>8. Sound(d)
  BY <1>1, <1>2, <1>3, <1>7 DEF Sound
<1> QED
  BY <1>2, <1>3, <1>6, <1>8

\* Discarding what is acknowledged keeps the flags consistent, and at most the
\* new head lost, where at most the head was lost before.
LEMMA DiscardSound ==
    ASSUME NEW b, Sound(b), NEW ack \in b.head + 1 .. b.next, b.lost \subseteq {b.head}
    PROVE  LET c == DiscardUpTo(b, ack)
           IN  /\ Sound(c)
               /\ c.head = ack /\ c.next = b.next /\ c.tail = b.tail
               /\ c.lost \subseteq {ack} /\ c.retrans = {}
<1> DEFINE kept == ack .. b.next - 1
           d == [b EXCEPT !.head = ack, !.sacked = @ \cap kept,
                          !.lost = @ \cap kept, !.retrans = @ \cap kept]
           f == [d EXCEPT !.sacked = @ \ {ack}]
<1>1. b \in TxBuffers /\ b.head <= b.next /\ b.next <= b.tail
  BY DEF Sound
<1>2. ack \in Nat \ {0} /\ b.head < ack /\ ack <= b.next
  BY <1>1 DEF TxBuffers
<1>3. b.head \notin kept
  BY <1>1, <1>2 DEF TxBuffers
<1>4. b.lost \cap kept = {} /\ b.retrans \cap kept = {}
  BY <1>3 DEF Sound
<1>5. /\ d.head = ack /\ d.next = b.next /\ d.tail = b.tail
      /\ d.sacked = b.sacked \cap kept /\ d.lost = {} /\ d.retrans = {}
      /\ d \in TxBuffers
  BY <1>1, <1>2, <1>4 DEF TxBuffers
<1>6. DiscardUpTo(b, ack) = IF ack \in d.sacked THEN MarkHeadAsLost(AddRenoSack(f)) ELSE d
  BY DEF DiscardUpTo
<1> HIDE DEF d
<1>7. /\ f.head = ack /\ f.next = b.next /\ f.tail = b.tail
      /\ f.sacked = (b.sacked \cap kept) \ {ack} /\ f.lost = {} /\ f.retrans = {}
      /\ f \in TxBuffers
  BY <1>5 DEF TxBuffers
<1> HIDE DEF f
<1>8. Outstanding(d) = kept /\ Outstanding(f) = kept
  BY <1>5, <1>7 DEF Outstanding
<1> HIDE DEF kept
<1>9. CASE ack \in d.sacked
  <2> DEFINE g == AddRenoSack(f)
             h == MarkHeadAsLost(g)
  <2>1. Sound(f)
    BY <1>1, <1>2, <1>7, <1>8 DEF Sound
  <2>2. /\ Sound(g) /\ g.head = ack /\ g.next = b.next /\ g.tail = b.tail
        /\ g.lost = {} /\ g.retrans = {}
    BY <1>7, <2>1, AddRenoSackSound
  <2>3. Outstanding(g) # {}
    <3>1. Outstanding(g) = kept
      BY <2>2 DEF Outstanding, kept
    <3> QED
      BY <1>5, <1>9, <3>1
  <2> HIDE DEF g
  <2>4. /\ Sound(h) /\ h.head = ack /\ h.next = b.next /\ h.tail = b.tail
        /\ h.lost = {} \cup {ack} /\ h.retrans = {} \ {ack}
    BY <2>2, <2>3, MarkHeadAsLostSound
  <2> QED
    BY <1>6, <1>9, <2>4 DEF g
<1>10. CASE ack \notin d.sacked
  <2>1. Sound(d)
    BY <1>1, <1>2, <1>5, <1>8, <1>10 DEF Sound
  <2> QED
    BY <1>5, <1>6, <1>10, <2>1
<1> QED
  BY <1>9, <1>10

\* Where no segment is guessed to be received, the flags that remain are those
\* of the segments that remain.
LEMMA DiscardUnguessed ==
    ASSUME NEW b, Sound(b), NEW ack \in b.head + 1 .. b.next, b.sacked = {}
    PROVE  LET c == DiscardUpTo(b, ack)
           IN  /\ Sound(c)
               /\ c.head = ack /\ c.next = b.next /\ c.tail = b.tail
               /\ c.sacked = {} /\ c.lost = b.lost \cap (ack .. b.next - 1)
               /\ c.retrans = b.retrans \cap (ack .. b.next - 1)
<1> DEFINE kept == ack .. b.next - 1
           d == [b EXCEPT !.head = ack, !.sacked = @ \cap kept,
                          !.lost = @ \cap kept, !.retrans = @ \cap kept]
<1>1. b \in TxBuffers /\ b.head <= b.next /\ b.next <= b.tail
  BY DEF Sound
<1>2. ack \in Nat \ {0} /\ b.head < ack /\ ack <= b.next
  BY <1>1 DEF TxBuffers
<1>3. /\ d.head = ack /\ d.next = b.next /\ d.tail = b.tail
      /\ d.sacked = {} /\ d.lost = b.lost \cap kept /\ d.retrans = b.retrans \cap kept
      /\ d \in TxBuffers
  BY <1>1, <1>2 DEF TxBuffers
<1>4. DiscardUpTo(b, ack) = IF ack \in d.sacked
        THEN MarkHeadAsLost(AddRenoSack([d EXCEPT !.sacked = @ \ {ack}])) ELSE d
  BY DEF DiscardUpTo
<1> HIDE DEF d
<1>5. DiscardUpTo(b, ack) = d
  BY <1>3, <1>4
<1>6. Outstanding(d) = kept
  BY <1>3 DEF Outstanding
<1> HIDE DEF kept
<1>7. Sound(d)
  BY <1>1, <1>2, <1>3, <1>6 DEF Sound
<1> QED
  BY <1>3, <1>5, <1>7 DEF kept
=============================================================================
