------------------------- MODULE GatewayReachProofs --------------------------
(***************************************************************************)
(* What filtering, slicing and turning pages do to a list of any length,   *)
(* what a stable sort is, and what follows for the panel that says how far *)
(* a gateway reaches, the nearest gateway of a meter and the box the map   *)
(* is fitted to: for any positions, statuses, radii and numbers of meters. *)
(*                                                                         *)
(* The library's induction theorems take an operator as a parameter; here  *)
(* induction is stated with a set (SmallestSubset, Counting).              *)
(***************************************************************************)
EXTENDS GatewayReach, FiniteSetTheorems, WellFoundedInduction, SequenceTheorems, TLAPS

-----------------------------------------------------------------------------
(* Induction, over finite sets and over the numbers.                        *)

\* A set of subsets that is not empty has one that contains no other.
LEMMA SmallestSubset ==
  ASSUME NEW S, IsFiniteSet(S), NEW F \in SUBSET (SUBSET S), F # {}
  PROVE  \E A \in F : \A B \in F : B \subseteq A => B = A
<1>1. IsWellFoundedOn(StrictSubsetOrdering(S), SUBSET S)
  BY FS_StrictSubsetOrderingWellFounded, FS_FiniteSubsetsOfFinite
<1> HIDE DEF StrictSubsetOrdering
<1>2. PICK A \in F : \A B \in F : ~ (<<B, A>> \in StrictSubsetOrdering(S))
  BY <1>1, WFMin
<1>3. ASSUME NEW B \in F, B \subseteq A
      PROVE  B = A
  BY <1>2, <1>3 DEF StrictSubsetOrdering
<1> QED BY <1>2, <1>3

\* Induction over the numbers, with a set where others have an operator.
LEMMA Counting ==
  ASSUME NEW Good, 0 \in Good, \A n \in Nat : n \in Good => n + 1 \in Good
  PROVE  \A n \in Nat : n \in Good
<1> SUFFICES ASSUME NEW n \in Nat, n \notin Good PROVE FALSE
  OBVIOUS
<1> DEFINE All == 0 .. n
           Bad == {0 .. k : k \in {k \in All : k \notin Good}}
<1>1. Bad \in SUBSET (SUBSET All) /\ Bad # {}
  OBVIOUS
<1>2. IsFiniteSet(All)
  BY FS_Interval
<1>3. PICK A \in Bad : \A B \in Bad : B \subseteq A => B = A
  <2> HIDE DEF Bad, All
  <2> QED BY <1>1, <1>2, SmallestSubset
<1>4. PICK k \in 0 .. n : k \notin Good /\ A = 0 .. k
  OBVIOUS
<1>5. k # 0 /\ k - 1 \in 0 .. n
  BY <1>4
<1>6. k - 1 \notin Good
  BY <1>4, <1>5
<1>7. 0 .. (k - 1) \in Bad
  BY <1>5, <1>6
<1>8. 0 .. (k - 1) \subseteq A /\ k \in A /\ k \notin 0 .. (k - 1)
  BY <1>4, <1>5
<1> QED BY <1>3, <1>7, <1>8

-----------------------------------------------------------------------------
(* Lists.                                                                   *)

\* Rows of any kind.
IsList(s) == \E n \in Nat : \E S : s \in [1 .. n -> S]

LEMMA ListLength ==
  ASSUME NEW s, IsList(s)
  PROVE  Len(s) \in Nat /\ DOMAIN s = 1 .. Len(s)
<1>1. PICK n \in Nat : \E S : s \in [1 .. n -> S]
  BY DEF IsList
<1>2. PICK S : s \in [1 .. n -> S]
  BY <1>1
<1> QED BY <1>2

\* One list before another.
LEMMA Joined ==
  ASSUME NEW s, NEW u, IsList(s), IsList(u)
  PROVE  /\ IsList(s \o u) /\ Len(s \o u) = Len(s) + Len(u)
         /\ \A i \in DOMAIN s : (s \o u)[i] = s[i]
         /\ \A i \in DOMAIN u : (s \o u)[Len(s) + i] = u[i]
<1>1. PICK m \in Nat : \E S : s \in [1 .. m -> S]
  BY DEF IsList
<1>2. PICK S : s \in [1 .. m -> S]
  BY <1>1
<1>3. PICK n \in Nat : \E T : u \in [1 .. n -> T]
  BY DEF IsList
<1>4. PICK T : u \in [1 .. n -> T]
  BY <1>3
<1> DEFINE A == S \cup T
<1>5. s \in Seq(A) /\ u \in Seq(A) /\ Len(s) = m /\ Len(u) = n
  <2>1. s \in [1 .. m -> A] /\ u \in [1 .. n -> A]
    BY <1>2, <1>4
  <2> HIDE DEF A
  <2> QED BY <2>1
<1>6. DOMAIN s = 1 .. m /\ DOMAIN u = 1 .. n
  BY <1>2, <1>4
<1> HIDE DEF A
<1>7. /\ s \o u \in Seq(A) /\ Len(s \o u) = m + n
      /\ \A i \in 1 .. m + n : (s \o u)[i] = IF i <= m THEN s[i] ELSE u[i - m]
  BY <1>5, ConcatProperties
<1>8. s \o u \in [1 .. m + n -> A] /\ m + n \in Nat
  BY <1>7, LenProperties
<1>9. IsList(s \o u)
  BY <1>8 DEF IsList
<1>10. ASSUME NEW i \in 1 .. n
       PROVE  (s \o u)[m + i] = u[i]
  <2>1. PICK k \in 1 .. m + n : k = m + i /\ ~ (k <= m) /\ k - m = i
    OBVIOUS
  <2>2. (s \o u)[k] = u[i]
    BY <1>7, <2>1
  <2> QED BY <2>1, <2>2
<1>11. ASSUME NEW i \in 1 .. m
       PROVE  (s \o u)[i] = s[i]
  BY <1>7
<1> QED BY <1>5, <1>6, <1>7, <1>9, <1>10, <1>11

\* How many of some places are up to one of them: each of them has a rank of its own, and
\* every rank is one's.
UpTo(places, v) == {j \in places : j <= v}

RankOf(places, v) == Cardinality(UpTo(places, v))

LEMMA OneStepUp ==
  ASSUME NEW m \in Nat, NEW places \in SUBSET (1 .. m), NEW v \in Nat
  PROVE  /\ RankOf(places, v) \in Nat
         /\ v + 1 \in places => RankOf(places, v + 1) = RankOf(places, v) + 1
         /\ v + 1 \notin places => RankOf(places, v + 1) = RankOf(places, v)
<1>0. \A i \in places : i \in Nat /\ 1 <= i /\ i <= m
  OBVIOUS
<1>1. IsFiniteSet(places)
  <2>1. IsFiniteSet(1 .. m) /\ places \subseteq 1 .. m
    BY FS_Interval
  <2> QED BY <2>1, FS_Subset
<1>2. \A w : IsFiniteSet(UpTo(places, w)) /\ Cardinality(UpTo(places, w)) \in Nat
  <2> SUFFICES ASSUME NEW w PROVE IsFiniteSet(UpTo(places, w)) /\ Cardinality(UpTo(places, w)) \in Nat
    OBVIOUS
  <2>1. UpTo(places, w) \subseteq places
    BY DEF UpTo
  <2> QED BY <1>1, <2>1, FS_Subset, FS_CardinalityType
<1>3. CASE v + 1 \in places
  <2>0. \A j \in places : (j <= v + 1) <=> (j <= v \/ j = v + 1)
    BY <1>0
  <2>1. UpTo(places, v + 1) = UpTo(places, v) \cup {v + 1} /\ v + 1 \notin UpTo(places, v)
    <3> DEFINE w == v + 1
    <3>1. w \in places /\ ~ (w <= v) /\ \A j \in places : (j <= w) <=> (j <= v \/ j = w)
      BY <1>3, <2>0
    <3> HIDE DEF w
    <3>2. UpTo(places, w) = UpTo(places, v) \cup {w} /\ w \notin UpTo(places, v)
      BY <3>1 DEF UpTo
    <3> QED BY <3>2 DEF w
  <2>2. IsFiniteSet(UpTo(places, v))
    BY <1>2
  <2>3. Cardinality(UpTo(places, v) \cup {v + 1}) = Cardinality(UpTo(places, v)) + 1
    BY <2>1, <2>2, FS_AddElement
  <2> QED BY <1>2, <1>3, <2>1, <2>3 DEF RankOf
<1>4. CASE v + 1 \notin places
  <2>0. \A j \in places : (j <= v + 1) <=> (j <= v)
    <3> SUFFICES ASSUME NEW j \in places PROVE (j <= v + 1) <=> (j <= v)
      OBVIOUS
    <3>1. j \in Nat /\ j # v + 1
      BY <1>0, <1>4
    <3> QED BY <3>1
  <2>1. UpTo(places, v + 1) = UpTo(places, v)
    BY <2>0 DEF UpTo
  <2> QED BY <1>2, <1>4, <2>1 DEF RankOf
<1> QED BY <1>3, <1>4

LEMMA EveryRank ==
  ASSUME NEW m \in Nat, NEW places \in SUBSET (1 .. m)
  PROVE  /\ Cardinality(places) \in Nat
         /\ \A i \in places : RankOf(places, i) \in 1 .. Cardinality(places)
         /\ \A i, j \in places : i < j => RankOf(places, i) < RankOf(places, j)
         /\ \A k \in 1 .. Cardinality(places) : \E i \in places : RankOf(places, i) = k
<1>0. \A i \in places : i \in Nat /\ 1 <= i /\ i <= m
  OBVIOUS
<1>1. RankOf(places, 0) = 0
  <2>0. \A j \in places : ~ (j <= 0)
    BY <1>0
  <2>1. UpTo(places, 0) = {}
    BY <2>0 DEF UpTo
  <2> QED BY <2>1, FS_EmptySet DEF RankOf
<1>2. RankOf(places, m) = Cardinality(places)
  <2>1. UpTo(places, m) = places
    BY <1>0 DEF UpTo
  <2> QED BY <2>1 DEF RankOf
<1>3. \A v \in Nat : /\ RankOf(places, v) \in Nat
                     /\ v + 1 \in places => RankOf(places, v + 1) = RankOf(places, v) + 1
                     /\ v + 1 \notin places => RankOf(places, v + 1) = RankOf(places, v)
  BY OneStepUp
<1> HIDE DEF RankOf
\* no rank is left out on the way up
<1>4. \A v \in Nat : \A k \in 1 .. RankOf(places, v) : \E i \in places : i <= v /\ RankOf(places, i) = k
  <2> DEFINE Good == {v \in Nat : \A k \in 1 .. RankOf(places, v) :
                                    \E i \in places : i <= v /\ RankOf(places, i) = k}
  <2>1. 0 \in Good
    BY <1>1
  <2>2. ASSUME NEW v \in Nat, v \in Good
        PROVE  v + 1 \in Good
    <3> SUFFICES ASSUME NEW k \in 1 .. RankOf(places, v + 1)
                 PROVE  \E i \in places : i <= v + 1 /\ RankOf(places, i) = k
      OBVIOUS
    <3>1. CASE k \in 1 .. RankOf(places, v)
      <4>1. PICK i \in places : i <= v /\ RankOf(places, i) = k
        BY <2>2, <3>1
      <4> QED BY <4>1
    <3>2. CASE k \notin 1 .. RankOf(places, v)
      BY <1>3, <3>2
    <3> QED BY <3>1, <3>2
  <2> HIDE DEF Good
  <2>3. \A v \in Nat : v \in Good
    BY <2>1, <2>2, Counting
  <2> QED BY <2>3 DEF Good
\* ranks grow
<1>5. \A d \in Nat : \A v \in Nat : RankOf(places, v) <= RankOf(places, v + d)
  <2> DEFINE Good == {d \in Nat : \A v \in Nat : RankOf(places, v) <= RankOf(places, v + d)}
  <2>1. 0 \in Good
    BY <1>3
  <2>2. ASSUME NEW d \in Nat, d \in Good
        PROVE  d + 1 \in Good
    <3> SUFFICES ASSUME NEW v \in Nat PROVE RankOf(places, v) <= RankOf(places, v + (d + 1))
      OBVIOUS
    <3>1. RankOf(places, v) <= RankOf(places, v + d) /\ v + d \in Nat /\ v + (d + 1) = (v + d) + 1
      BY <2>2
    <3>2. RankOf(places, v + d) <= RankOf(places, (v + d) + 1) /\ RankOf(places, v) \in Nat
          /\ RankOf(places, v + d) \in Nat /\ RankOf(places, (v + d) + 1) \in Nat
      <4> DEFINE w == v + d
      <4>1. w \in Nat /\ w + 1 \in Nat
        BY <3>1
      <4> HIDE DEF w
      <4>2. RankOf(places, w) <= RankOf(places, w + 1) /\ RankOf(places, w) \in Nat /\ RankOf(places, w + 1) \in Nat
        BY <1>3, <4>1
      <4> QED BY <1>3, <4>2 DEF w
    <3> QED BY <3>1, <3>2
  <2> HIDE DEF Good
  <2>3. \A d \in Nat : d \in Good
    BY <2>1, <2>2, Counting
  <2> QED BY <2>3 DEF Good
<1>6. ASSUME NEW i \in places, NEW j \in places, i < j
      PROVE  RankOf(places, i) < RankOf(places, j)
  <2>1. PICK v \in Nat : j = v + 1 /\ i <= v
    <3>1. j - 1 \in Nat /\ j = (j - 1) + 1 /\ i <= j - 1
      BY <1>6
    <3> QED BY <3>1
  <2>2. PICK d \in Nat : v = i + d
    <3>1. v - i \in Nat /\ v = i + (v - i)
      BY <2>1
    <3> QED BY <3>1
  <2>3. i \in Nat
    OBVIOUS
  <2>4. RankOf(places, i) <= RankOf(places, v)
    BY <1>5, <2>2, <2>3
  <2> QED BY <1>3, <2>1, <2>3, <2>4
<1>7. ASSUME NEW i \in places
      PROVE  RankOf(places, i) \in 1 .. Cardinality(places)
  <2>1. PICK v \in Nat : i = v + 1
    <3>1. i - 1 \in Nat /\ i = (i - 1) + 1
      OBVIOUS
    <3> QED BY <3>1
  <2>2. RankOf(places, i) \in Nat /\ RankOf(places, i) >= 1
    <3>1. RankOf(places, v) \in Nat /\ RankOf(places, v + 1) = RankOf(places, v) + 1
      BY <1>3, <2>1
    <3> QED BY <2>1, <3>1
  <2>3. PICK d \in Nat : m = i + d
    <3>1. m - i \in Nat /\ m = i + (m - i)
      OBVIOUS
    <3> QED BY <3>1
  <2>4. RankOf(places, i) <= RankOf(places, m)
    BY <1>5, <2>3
  <2>5. RankOf(places, m) \in Nat
    BY <1>3
  <2> QED BY <1>2, <2>2, <2>4, <2>5
<1>8. \A k \in 1 .. Cardinality(places) : \E i \in places : RankOf(places, i) = k
  BY <1>2, <1>4
<1>9. Cardinality(places) \in Nat
  BY <1>2, <1>3
<1> QED BY <1>6, <1>7, <1>8, <1>9

\* rows.filter: the rows at those places and no others, in their order.
LEMMA KeptRows ==
  ASSUME NEW s, IsList(s), NEW places \in SUBSET (DOMAIN s)
  PROVE  /\ IsList(RowsAt(s, places))
         /\ Cardinality(places) \in Nat /\ Len(RowsAt(s, places)) = Cardinality(places)
         /\ \A i \in places : /\ RankOf(places, i) \in 1 .. Cardinality(places)
                              /\ RowsAt(s, places)[RankOf(places, i)] = s[i]
         /\ \A k \in DOMAIN RowsAt(s, places) :
              \E i \in places : RankOf(places, i) = k /\ RowsAt(s, places)[k] = s[i]
         /\ Members(RowsAt(s, places)) = {s[i] : i \in places}
<1>1. DOMAIN s = 1 .. Len(s) /\ Len(s) \in Nat
  BY ListLength
<1> DEFINE n == Cardinality(places)
           m == Len(s)
           out == RowsAt(s, places)
           At(k) == CHOOSE i \in places : RankOf(places, i) = k
<1>2. /\ n \in Nat
      /\ \A i \in places : RankOf(places, i) \in 1 .. n
      /\ \A i, j \in places : i < j => RankOf(places, i) < RankOf(places, j)
      /\ \A k \in 1 .. n : \E i \in places : RankOf(places, i) = k
  <2>1. m \in Nat /\ places \in SUBSET (1 .. m)
    BY <1>1
  <2> HIDE DEF m
  <2> QED BY <2>1, EveryRank
<1>3. out = [k \in 1 .. n |-> s[At(k)]]
  BY DEF RowsAt, RankOf, UpTo
<1>4. \A i \in places : i \in Nat
  BY <1>1
<1> HIDE DEF n, RankOf
<1>5. ASSUME NEW k \in 1 .. n
      PROVE  At(k) \in places /\ RankOf(places, At(k)) = k
  BY <1>2, <1>5
<1>6. ASSUME NEW i \in places
      PROVE  At(RankOf(places, i)) = i
  <2>1. RankOf(places, i) \in 1 .. n
    BY <1>2
  <2>2. At(RankOf(places, i)) \in places /\ RankOf(places, At(RankOf(places, i))) = RankOf(places, i)
    BY <1>5, <2>1
  <2> DEFINE a == At(RankOf(places, i))
  <2> HIDE DEF a
  <2>3. a \in places /\ RankOf(places, a) = RankOf(places, i)
    BY <2>2 DEF a
  <2>4. ~ (a < i) /\ ~ (i < a)
    BY <1>2, <2>1, <2>3
  <2>5. a = i
    BY <1>4, <2>3, <2>4
  <2> QED BY <2>5 DEF a
<1> HIDE DEF At
<1>7. DOMAIN out = 1 .. n /\ \A k \in 1 .. n : out[k] = s[At(k)]
  BY <1>3
<1> HIDE DEF out
<1>8. out \in [1 .. n -> {s[At(k)] : k \in 1 .. n}]
  BY <1>3
<1>9. IsList(out) /\ Len(out) = n
  <2> DEFINE T == {s[At(k)] : k \in 1 .. n}
  <2>1. out \in [1 .. n -> T]
    BY <1>8
  <2> HIDE DEF T
  <2>2. out \in Seq(T) /\ Len(out) = n
    BY <1>2, <2>1
  <2> QED BY <1>2, <2>1, <2>2 DEF IsList
<1>10. \A i \in places : RankOf(places, i) \in 1 .. n /\ out[RankOf(places, i)] = s[i]
  BY <1>2, <1>6, <1>7
<1>11. \A k \in DOMAIN out : \E i \in places : RankOf(places, i) = k /\ out[k] = s[i]
  BY <1>5, <1>7
<1>12. Members(out) = {s[i] : i \in places}
  <2>1. ASSUME NEW x \in Members(out)
        PROVE  x \in {s[i] : i \in places}
    BY <1>11, <2>1 DEF Members
  <2>2. ASSUME NEW i \in places
        PROVE  s[i] \in Members(out)
    BY <1>7, <1>10 DEF Members
  <2> QED BY <2>1, <2>2
<1> QED BY <1>2, <1>9, <1>10, <1>11, <1>12 DEF n, out

LEMMA TimesGrows ==
  ASSUME NEW a \in Nat, NEW b \in Nat, NEW size \in Nat, a <= b
  PROVE  a * size <= b * size /\ a * size \in Nat /\ b * size \in Nat
<1>1. PICK d \in Nat : b = a + d
  <2>1. b - a \in Nat /\ b = a + (b - a)
    OBVIOUS
  <2> QED BY <2>1
<1>2. (a + d) * size = a * size + d * size
  OBVIOUS
<1>3. a * size \in Nat /\ d * size \in Nat /\ (a + d) * size \in Nat
  OBVIOUS
<1> QED BY <1>1, <1>2, <1>3

LEMMA Divided ==
  ASSUME NEW x \in Nat, NEW size \in Nat \ {0}
  PROVE  x \div size \in Nat /\ (x \div size) * size <= x /\ x < (x \div size) * size + size
OBVIOUS

LEMMA PlusOne ==
  ASSUME NEW p \in Nat, NEW size \in Nat
  PROVE  (p + 1) * size = p * size + size
OBVIOUS

\* A part of a list: what stands after so many rows, and how many at most.
LEMMA SliceRows ==
  ASSUME NEW s, IsList(s), NEW from \in Nat, NEW size \in Nat
  PROVE  /\ IsList(Slice(s, from, size))
         /\ Len(Slice(s, from, size)) <= size
         /\ \A k \in DOMAIN Slice(s, from, size) :
              from + k \in DOMAIN s /\ k <= size /\ Slice(s, from, size)[k] = s[from + k]
         /\ \A i \in DOMAIN s : from < i /\ i <= from + size =>
              i - from \in DOMAIN Slice(s, from, size) /\ Slice(s, from, size)[i - from] = s[i]
         /\ Slice(s, from, size) = <<>> => size = 0 \/ Len(s) <= from
<1>1. DOMAIN s = 1 .. Len(s) /\ Len(s) \in Nat
  BY ListLength
<1> DEFINE n == Len(s)
           to == IF from + size < n THEN from + size ELSE n
           S == {s[i] : i \in DOMAIN s}
           out == Slice(s, from, size)
           len == IF from + 1 <= to THEN to - from ELSE 0
<1>2. n \in Nat /\ to \in Nat /\ len \in Nat /\ len <= size
  BY <1>1
<1>3. out = SubSeq(s, from + 1, to)
  BY DEF Slice
<1>4. \A i \in from + 1 .. to : s[i] \in S
  BY <1>1
<1> HIDE DEF S, out
<1>5. /\ out \in Seq(S) /\ Len(out) = len
      /\ \A k \in 1 .. to - from : out[k] = s[from + k]
  <2> DEFINE m == from + 1
  <2>1. m \in Int /\ to \in Int /\ \A i \in m .. to : s[i] \in S
    BY <1>2, <1>4
  <2> HIDE DEF m, to
  <2>2. /\ SubSeq(s, m, to) \in Seq(S)
        /\ Len(SubSeq(s, m, to)) = IF m <= to THEN to - m + 1 ELSE 0
        /\ \A k \in 1 .. to - m + 1 : SubSeq(s, m, to)[k] = s[m + k - 1]
    BY <2>1, SubSeqProperties
  <2>3. out = SubSeq(s, m, to)
    BY <1>3 DEF m
  <2> USE DEF m
  <2>4. to - m + 1 = to - from /\ \A k \in 1 .. to - from : m + k - 1 = from + k
    BY <1>2
  <2> QED BY <1>2, <2>2, <2>3, <2>4
<1>6. DOMAIN out = 1 .. len
  BY <1>5
<1>7. out \in [1 .. len -> S]
  BY <1>5
<1>8. IsList(out)
  BY <1>2, <1>7 DEF IsList
<1>9. ASSUME NEW k \in DOMAIN out
      PROVE  from + k \in DOMAIN s /\ k <= size /\ out[k] = s[from + k]
  <2>1. k \in 1 .. to - from /\ k <= size
    BY <1>2, <1>6, <1>9
  <2>2. from + k \in DOMAIN s
    BY <1>1, <1>2, <2>1
  <2> QED BY <1>5, <2>1, <2>2
<1>10. ASSUME NEW i \in DOMAIN s, from < i, i <= from + size
       PROVE  i - from \in DOMAIN out /\ out[i - from] = s[i]
  <2>1. i \in Nat /\ i <= n /\ i - from \in 1 .. to - from /\ from + (i - from) = i
    BY <1>1, <1>2, <1>10
  <2> QED BY <1>2, <1>5, <1>6, <2>1
<1>11. out = <<>> => size = 0 \/ n <= from
  <2> SUFFICES ASSUME out = <<>> PROVE size = 0 \/ n <= from
    OBVIOUS
  <2>1. len = 0
    BY <1>5
  <2> QED BY <1>2, <2>1
<1> QED BY <1>2, <1>5, <1>8, <1>9, <1>10, <1>11 DEF out

\* Page after page: the pages up to the last hold every row.
LEMMA EveryPage ==
  ASSUME NEW s, IsList(s), NEW size \in Nat \ {0}, NEW last \in Nat,
         last + 1 >= PageCount(Len(s), size),
         NEW i \in DOMAIN s
  PROVE  \E p \in 0 .. last : \E k \in DOMAIN Chunk(s, p, size) : Chunk(s, p, size)[k] = s[i]
<1>1. DOMAIN s = 1 .. Len(s) /\ Len(s) \in Nat
  BY ListLength
<1> DEFINE n == Len(s)
           q == PageCount(n, size)
           x == i - 1
           p == x \div size
<1>2. x \in Nat /\ i = x + 1 /\ i <= n /\ n + size - 1 \in Nat
  BY <1>1
<1>3. q \in Nat /\ n + size - 1 < q * size + size
  <2> DEFINE y == n + size - 1
  <2>1. y \in Nat
    BY <1>2
  <2> HIDE DEF y
  <2>2. y \div size \in Nat /\ y < (y \div size) * size + size
    BY <2>1, Divided
  <2>3. q = y \div size
    BY DEF PageCount, y
  <2> HIDE DEF q
  <2>4. q \in Nat /\ y < q * size + size
    BY <2>2, <2>3
  <2> QED BY <2>4 DEF y
<1>4. p \in Nat /\ p * size <= x /\ x < p * size + size
  <2> HIDE DEF x
  <2> QED BY <1>2, Divided
<1> HIDE DEF p, q, x
<1>5. q * size <= (last + 1) * size /\ (last + 1) * size \in Nat /\ q * size \in Nat
  <2>1. last + 1 \in Nat /\ q <= last + 1
    BY <1>3 DEF q
  <2> DEFINE l == last + 1
  <2> HIDE DEF l
  <2>2. l \in Nat /\ q <= l
    BY <2>1 DEF l
  <2>3. q * size <= l * size /\ q * size \in Nat /\ l * size \in Nat
    BY <1>3, <2>2, TimesGrows
  <2> QED BY <2>3 DEF l
<1>6. n <= q * size
  BY <1>1, <1>3, <1>5
<1>7. p <= last
  <2> SUFFICES ASSUME last + 1 <= p PROVE FALSE
    BY <1>4
  <2> DEFINE l == last + 1
  <2>1. l \in Nat /\ l <= p
    OBVIOUS
  <2> HIDE DEF l
  <2>2. l * size <= p * size /\ p * size \in Nat /\ l * size \in Nat
    BY <1>4, <2>1, TimesGrows
  <2>3. l * size = (last + 1) * size
    BY DEF l
  <2> QED BY <1>1, <1>2, <1>4, <1>5, <1>6, <2>2, <2>3
<1>8. Chunk(s, p, size) = Slice(s, p * size, size)
  BY DEF Chunk
<1>9. p * size \in Nat /\ p * size < i /\ i <= p * size + size
  BY <1>2, <1>4
<1>10. i - p * size \in DOMAIN Slice(s, p * size, size) /\ Slice(s, p * size, size)[i - p * size] = s[i]
  <2> DEFINE f == p * size
  <2>1. f \in Nat /\ f < i /\ i <= f + size
    BY <1>9
  <2> HIDE DEF f
  <2>2. i - f \in DOMAIN Slice(s, f, size) /\ Slice(s, f, size)[i - f] = s[i]
    BY <2>1, SliceRows
  <2> QED BY <2>2 DEF f
<1> QED BY <1>4, <1>7, <1>8, <1>10

\* A page is a part of its list.
LEMMA PageRows ==
  ASSUME NEW s, IsList(s), NEW size \in Nat, NEW p \in Nat
  PROVE  /\ IsList(Chunk(s, p, size)) /\ Members(Chunk(s, p, size)) \subseteq Members(s)
         /\ p = 0 /\ size # 0 /\ Chunk(s, p, size) = <<>> => Members(s) = {}
<1> DEFINE f == p * size
<1>1. f \in Nat /\ (p = 0 => f = 0)
  OBVIOUS
<1>2. Chunk(s, p, size) = Slice(s, f, size)
  BY DEF Chunk
<1> HIDE DEF f
<1> DEFINE out == Slice(s, f, size)
<1>3. /\ IsList(out)
      /\ \A k \in DOMAIN out : f + k \in DOMAIN s /\ out[k] = s[f + k]
      /\ out = <<>> => size = 0 \/ Len(s) <= f
  BY <1>1, SliceRows
<1>4. DOMAIN s = 1 .. Len(s) /\ Len(s) \in Nat
  BY ListLength
<1> HIDE DEF out
<1>5. Members(out) \subseteq Members(s)
  BY <1>3 DEF Members
<1>6. p = 0 /\ size # 0 /\ out = <<>> => Members(s) = {}
  <2> SUFFICES ASSUME p = 0, size # 0, out = <<>> PROVE Members(s) = {}
    OBVIOUS
  <2>1. Len(s) = 0
    BY <1>1, <1>3, <1>4
  <2>2. DOMAIN s = {}
    BY <1>4, <2>1
  <2> QED BY <2>2 DEF Members
<1> QED BY <1>2, <1>3, <1>5, <1>6 DEF out

\* Whoever has seen the pages up to the last has seen the rows.
LEMMA WholeList ==
  ASSUME NEW s, IsList(s), NEW size \in Nat \ {0}, NEW last \in Nat,
         last + 1 >= PageCount(Len(s), size),
         NEW P \in SUBSET Nat, 0 .. last \subseteq P
  PROVE  UNION {Members(Chunk(s, p, size)) : p \in P} = Members(s)
<1>1. ASSUME NEW p \in P
      PROVE  Members(Chunk(s, p, size)) \subseteq Members(s)
  BY PageRows
<1>2. ASSUME NEW x \in Members(s)
      PROVE  \E p \in P : x \in Members(Chunk(s, p, size))
  <2>1. PICK i \in DOMAIN s : x = s[i]
    BY <1>2 DEF Members
  <2>2. PICK p \in 0 .. last : \E k \in DOMAIN Chunk(s, p, size) : Chunk(s, p, size)[k] = s[i]
    BY EveryPage
  <2> QED BY <2>1, <2>2 DEF Members
<1> QED BY <1>1, <1>2

LEMMA EmptyIsList == IsList(<<>>)
<1>1. <<>> \in [1 .. 0 -> {}]
  OBVIOUS
<1> QED BY <1>1 DEF IsList

NoneTwice(s) == \A m, n \in DOMAIN s : s[m] = s[n] => m = n

LEMMA NoneTwiceCounted ==
  ASSUME NEW s, IsList(s), NoneTwice(s)
  PROVE  Cardinality(Members(s)) = Len(s)
<1>1. DOMAIN s = 1 .. Len(s) /\ Len(s) \in Nat
  BY ListLength
<1> DEFINE n == Len(s)
           T == Members(s)
           f == [k \in 1 .. n |-> s[k]]
<1>2. f \in [1 .. n -> T]
  BY <1>1 DEF Members
<1>3. \A a, b \in 1 .. n : f[a] = f[b] => a = b
  BY <1>1 DEF NoneTwice
<1>4. \A t \in T : \E a \in 1 .. n : f[a] = t
  BY <1>1 DEF Members
<1> HIDE DEF f, T
<1>5. f \in Bijection(1 .. n, T)
  BY <1>2, <1>3, <1>4 DEF Bijection, Injection, Surjection, IsInjective
<1>6. ExistsBijection(1 .. n, T)
  BY <1>5 DEF ExistsBijection
<1>7. n \in Nat
  BY <1>1
<1> HIDE DEF n
<1>8. IsFiniteSet(1 .. n) /\ Cardinality(1 .. n) = n
  BY <1>7, FS_Interval
<1>9. Cardinality(1 .. n) = Cardinality(T)
  BY <1>6, <1>8, FS_Bijection
<1> QED BY <1>8, <1>9 DEF n, T

LEMMA NoneTwiceAt ==
  ASSUME NEW s, IsList(s), NoneTwice(s), NEW places \in SUBSET (DOMAIN s)
  PROVE  NoneTwice(RowsAt(s, places))
<1> DEFINE out == RowsAt(s, places)
<1>1. \A k \in DOMAIN out : \E i \in places : RankOf(places, i) = k /\ out[k] = s[i]
  BY KeptRows
<1> HIDE DEF out, RankOf
<1>2. ASSUME NEW m \in DOMAIN out, NEW n \in DOMAIN out, out[m] = out[n]
      PROVE  m = n
  <2>1. PICK i \in places : RankOf(places, i) = m /\ out[m] = s[i]
    BY <1>1
  <2>2. PICK j \in places : RankOf(places, j) = n /\ out[n] = s[j]
    BY <1>1
  <2>3. i = j
    BY <1>2, <2>1, <2>2 DEF NoneTwice
  <2> QED BY <2>1, <2>2, <2>3
<1> QED BY <1>2 DEF NoneTwice, out

LEMMA NoneTwiceIn ==
  ASSUME NEW s, IsList(s), NoneTwice(s), NEW from \in Nat, NEW size \in Nat
  PROVE  NoneTwice(Slice(s, from, size))
<1> DEFINE out == Slice(s, from, size)
<1>1. /\ IsList(out)
      /\ \A k \in DOMAIN out : from + k \in DOMAIN s /\ k <= size /\ out[k] = s[from + k]
  BY SliceRows
<1> HIDE DEF out
<1>2. \A k \in DOMAIN out : k \in Nat
  BY <1>1, ListLength
<1>3. ASSUME NEW m \in DOMAIN out, NEW n \in DOMAIN out, out[m] = out[n]
      PROVE  m = n
  <2>1. from + m = from + n
    BY <1>1, <1>3 DEF NoneTwice
  <2> QED BY <1>2, <2>1
<1> QED BY <1>3 DEF NoneTwice, out

LEMMA NoneTwiceJoined ==
  ASSUME NEW s, NEW u, IsList(s), IsList(u), NoneTwice(s), NoneTwice(u),
         \A x \in Members(u) : x \notin Members(s)
  PROVE  /\ IsList(s \o u) /\ NoneTwice(s \o u)
         /\ Members(s \o u) = Members(s) \cup Members(u)
<1>0. /\ IsList(s \o u) /\ Len(s \o u) = Len(s) + Len(u)
      /\ \A i \in DOMAIN s : (s \o u)[i] = s[i]
      /\ \A i \in DOMAIN u : (s \o u)[Len(s) + i] = u[i]
  <2>1. IsList(s \o u) /\ Len(s \o u) = Len(s) + Len(u)
    BY Joined
  <2>2. \A i \in DOMAIN s : (s \o u)[i] = s[i]
    BY Joined
  <2>3. \A i \in DOMAIN u : (s \o u)[Len(s) + i] = u[i]
    BY Joined
  <2> QED BY <2>1, <2>2, <2>3
<1> DEFINE a == s \o u
<1> HIDE DEF a
<1>1. /\ IsList(a) /\ Len(a) = Len(s) + Len(u)
      /\ \A i \in DOMAIN s : a[i] = s[i]
      /\ \A i \in DOMAIN u : a[Len(s) + i] = u[i]
  BY <1>0 DEF a
<1>2. /\ DOMAIN s = 1 .. Len(s) /\ Len(s) \in Nat /\ DOMAIN u = 1 .. Len(u) /\ Len(u) \in Nat
      /\ DOMAIN a = 1 .. (Len(s) + Len(u))
  BY <1>1, ListLength
<1>3. ASSUME NEW k \in DOMAIN a
      PROVE  \/ k \in DOMAIN s /\ a[k] = s[k]
             \/ \E i \in DOMAIN u : k = Len(s) + i /\ a[k] = u[i]
  <2>1. CASE k <= Len(s)
    BY <1>1, <1>2, <2>1
  <2>2. CASE ~ (k <= Len(s))
    <3>1. PICK i \in 1 .. Len(u) : k = Len(s) + i
      <4>1. k - Len(s) \in 1 .. Len(u) /\ k = Len(s) + (k - Len(s))
        BY <1>2, <2>2
      <4> QED BY <4>1
    <3> QED BY <1>1, <1>2, <3>1
  <2> QED BY <2>1, <2>2
<1>4. ASSUME NEW m \in DOMAIN a, NEW n \in DOMAIN a, a[m] = a[n]
      PROVE  m = n
  <2>1. CASE m \in DOMAIN s /\ a[m] = s[m] /\ n \in DOMAIN s /\ a[n] = s[n]
    BY <1>4, <2>1 DEF NoneTwice
  <2>2. ASSUME NEW x \in DOMAIN s, NEW i \in DOMAIN u, s[x] = u[i]
        PROVE  FALSE
    BY <2>2 DEF Members
  <2>3. ASSUME NEW i \in DOMAIN u, NEW j \in DOMAIN u, u[i] = u[j]
        PROVE  i = j
    BY <2>3 DEF NoneTwice
  <2> QED BY <1>3, <1>4, <2>1, <2>2, <2>3
<1>5. Members(a) \subseteq Members(s) \cup Members(u)
  BY <1>3 DEF Members
<1>6. \A i \in DOMAIN s : i \in DOMAIN a
  BY <1>2
<1>7. \A i \in DOMAIN u : Len(s) + i \in DOMAIN a
  BY <1>2
<1>8. Members(s) \cup Members(u) \subseteq Members(a)
  BY <1>1, <1>6, <1>7 DEF Members
<1> QED BY <1>1, <1>4, <1>5, <1>8 DEF NoneTwice, a

-----------------------------------------------------------------------------
(* Ranks, and what they say of a stable sort.                               *)

DownTo(n, B, i) == {j \in 1 .. n : <<j, i>> \in B}
RankIn(n, B, i) == Cardinality(DownTo(n, B, i))

TotalOrder(n, B) ==
  /\ \A i \in 1 .. n : <<i, i>> \in B
  /\ \A i, j \in 1 .. n : <<i, j>> \in B \/ <<j, i>> \in B
  /\ \A i, j \in 1 .. n : <<i, j>> \in B /\ <<j, i>> \in B => i = j
  /\ \A i, j, k \in 1 .. n : <<i, j>> \in B /\ <<j, k>> \in B => <<i, k>> \in B

LEMMA EachRanked ==
  ASSUME NEW n \in Nat, NEW B, TotalOrder(n, B)
  PROVE  /\ \A i \in 1 .. n : RankIn(n, B, i) \in 1 .. n
         /\ \A i, j \in 1 .. n : RankIn(n, B, i) <= RankIn(n, B, j) => <<i, j>> \in B
         /\ \A i, j \in 1 .. n : RankIn(n, B, i) = RankIn(n, B, j) => i = j
         /\ \A k \in 1 .. n : \E i \in 1 .. n : RankIn(n, B, i) = k
<1>1. IsFiniteSet(1 .. n) /\ Cardinality(1 .. n) = n
  BY FS_Interval
<1>2. ASSUME NEW i \in 1 .. n
      PROVE  IsFiniteSet(DownTo(n, B, i)) /\ RankIn(n, B, i) \in 1 .. n
  <2> DEFINE d == DownTo(n, B, i)
  <2>1. d \in SUBSET (1 .. n) /\ i \in d
    BY DEF DownTo, TotalOrder
  <2> HIDE DEF d
  <2>2. IsFiniteSet(d) /\ Cardinality(d) <= n
    BY <1>1, <2>1, FS_Subset
  <2>3. Cardinality(d) \in Nat /\ Cardinality(d) # 0
    BY <2>1, <2>2, FS_EmptySet, FS_CardinalityType
  <2>4. Cardinality(d) \in 1 .. n
    BY <2>2, <2>3
  <2> QED BY <2>2, <2>4 DEF d, RankIn
<1>3. ASSUME NEW i \in 1 .. n, NEW j \in 1 .. n, <<i, j>> \notin B
      PROVE  RankIn(n, B, j) < RankIn(n, B, i)
  <2> DEFINE a == DownTo(n, B, j)
             b == DownTo(n, B, i)
  <2>1. <<j, i>> \in B
    BY <1>3 DEF TotalOrder
  <2>2. a \in SUBSET b
    BY <2>1 DEF DownTo, TotalOrder
  <2>3. i \in b /\ i \notin a
    BY <1>3 DEF DownTo, TotalOrder
  <2>4. IsFiniteSet(b) /\ Cardinality(b) \in Nat /\ Cardinality(a) \in Nat
    BY <1>2 DEF RankIn
  <2> HIDE DEF a, b
  <2>5. Cardinality(a) <= Cardinality(b) /\ Cardinality(a) # Cardinality(b)
    BY <2>2, <2>3, <2>4, FS_Subset
  <2>6. Cardinality(a) < Cardinality(b)
    BY <2>4, <2>5
  <2> QED BY <2>6 DEF RankIn, a, b
<1>4. ASSUME NEW i \in 1 .. n, NEW j \in 1 .. n, RankIn(n, B, i) <= RankIn(n, B, j)
      PROVE  <<i, j>> \in B
  <2>1. RankIn(n, B, i) \in Nat /\ RankIn(n, B, j) \in Nat
    BY <1>2
  <2> QED BY <1>3, <1>4, <2>1
<1>5. ASSUME NEW i \in 1 .. n, NEW j \in 1 .. n, RankIn(n, B, i) = RankIn(n, B, j)
      PROVE  i = j
  <2>1. RankIn(n, B, i) \in Nat /\ RankIn(n, B, j) \in Nat
    BY <1>2
  <2>2. <<i, j>> \in B /\ <<j, i>> \in B
    BY <1>4, <1>5, <2>1
  <2> QED BY <2>2 DEF TotalOrder
<1> DEFINE f == [i \in 1 .. n |-> RankIn(n, B, i)]
<1> HIDE DEF RankIn
<1>6. f \in [1 .. n -> 1 .. n] /\ \A i \in 1 .. n : f[i] = RankIn(n, B, i)
  BY <1>2
<1> HIDE DEF f
<1>7. f \in Injection(1 .. n, 1 .. n)
  BY <1>5, <1>6 DEF Injection, IsInjective
<1>8. f \in Surjection(1 .. n, 1 .. n)
  BY <1>1, <1>7, FS_Injection
<1>9. \A k \in 1 .. n : \E i \in 1 .. n : RankIn(n, B, i) = k
  BY <1>6, <1>8 DEF Surjection
<1> QED BY <1>2, <1>4, <1>5, <1>9

-----------------------------------------------------------------------------
(* How far a gateway reaches: the meters by their distance.                 *)

\* A list of things that have a place.
HasPlaces(list) == IsList(list) /\ \A i \in DOMAIN list : list[i].at \in Int

LEMMA ListsPlaced ==
  ASSUME NEW list \in MeterPoints \cup {GatewayRow}
  PROVE  HasPlaces(list)
<1> DEFINE S == Members(list)
<1>1. list \in Seq(S) /\ \A p \in S : p.at \in Int
  BY ReachAssumption
<1>2. \A i \in DOMAIN list : list[i] \in S
  BY DEF Members
<1> HIDE DEF S
<1>3. list \in [1 .. Len(list) -> S] /\ Len(list) \in Nat
  BY <1>1
<1> QED BY <1>1, <1>2, <1>3 DEF HasPlaces, IsList

NearFirst(r, n, gw) ==
  /\ r \in [1 .. n -> 1 .. n]
  /\ \A i \in 1 .. n : \E k \in 1 .. n : r[k] = i
  /\ \A k, l \in 1 .. n : r[k] = r[l] => k = l
  /\ \A k, l \in 1 .. n : k <= l => DistanceTo(gw, r[k]) <= DistanceTo(gw, r[l])

LEMMA DistanceIsNat ==
  ASSUME HasPlaces(reachPoints), NEW gw, gw.at \in Int, NEW i \in DOMAIN reachPoints
  PROVE  DistanceTo(gw, i) \in Nat
BY DEF HasPlaces, DistanceTo, Distance

LEMMA NearestFirst ==
  ASSUME HasPlaces(reachPoints), NEW gw, gw.at \in Int
  PROVE  NearFirst(ByDistance(gw), Len(reachPoints), gw)
<1> DEFINE n == Len(reachPoints)
           B == {p \in (1 .. n) \X (1 .. n) :
                   \/ DistanceTo(gw, p[1]) < DistanceTo(gw, p[2])
                   \/ DistanceTo(gw, p[1]) = DistanceTo(gw, p[2]) /\ p[1] <= p[2]}
           r == ByDistance(gw)
<1>1. DOMAIN reachPoints = 1 .. n /\ n \in Nat
  BY ListLength DEF HasPlaces
<1>2. \A i \in 1 .. n : DistanceTo(gw, i) \in Nat
  BY <1>1, DistanceIsNat
<1> HIDE DEF n
<1>3. \A i, j \in 1 .. n :
        (<<i, j>> \in B) <=> \/ DistanceTo(gw, i) < DistanceTo(gw, j)
                            \/ (DistanceTo(gw, i) = DistanceTo(gw, j) /\ i <= j)
  OBVIOUS
<1> HIDE DEF B
<1>4. TotalOrder(n, B)
  BY <1>1, <1>2, <1>3 DEF TotalOrder
<1>5. ASSUME NEW i \in 1 .. n
      PROVE  DistanceRank(gw, i) = RankIn(n, B, i)
  <2> DEFINE a == {j \in DOMAIN reachPoints : \/ DistanceTo(gw, j) < DistanceTo(gw, i)
                                              \/ DistanceTo(gw, j) = DistanceTo(gw, i) /\ j <= i}
             b == {j \in 1 .. n : <<j, i>> \in B}
  <2>1. a = b
    BY <1>1, <1>3
  <2> HIDE DEF a, b
  <2> QED BY <2>1 DEF a, b, DistanceRank, RankIn, DownTo
<1>6. /\ \A i \in 1 .. n : RankIn(n, B, i) \in 1 .. n
      /\ \A i, j \in 1 .. n : RankIn(n, B, i) <= RankIn(n, B, j) => <<i, j>> \in B
      /\ \A i, j \in 1 .. n : RankIn(n, B, i) = RankIn(n, B, j) => i = j
      /\ \A k \in 1 .. n : \E i \in 1 .. n : RankIn(n, B, i) = k
  BY <1>1, <1>4, EachRanked
<1> DEFINE At(k) == CHOOSE i \in 1 .. n : DistanceRank(gw, i) = k
<1>7. r = [k \in 1 .. n |-> At(k)]
  BY <1>1 DEF ByDistance
<1>8. ASSUME NEW k \in 1 .. n
      PROVE  At(k) \in 1 .. n /\ RankIn(n, B, At(k)) = k
  <2>1. \E i \in 1 .. n : DistanceRank(gw, i) = k
    BY <1>5, <1>6
  <2>2. At(k) \in 1 .. n /\ DistanceRank(gw, At(k)) = k
    BY <2>1
  <2> HIDE DEF At
  <2> QED BY <1>5, <2>2
<1> HIDE DEF At, r
<1>9. r \in [1 .. n -> 1 .. n] /\ \A k \in 1 .. n : r[k] \in 1 .. n /\ RankIn(n, B, r[k]) = k
  BY <1>7, <1>8
<1>10. \A i \in 1 .. n : r[RankIn(n, B, i)] = i /\ RankIn(n, B, i) \in 1 .. n
  BY <1>6, <1>9
<1>11. \A k, l \in 1 .. n : r[k] = r[l] => k = l
  BY <1>9
<1>12. ASSUME NEW k \in 1 .. n, NEW l \in 1 .. n, k <= l
       PROVE  DistanceTo(gw, r[k]) <= DistanceTo(gw, r[l])
  <2>1. <<r[k], r[l]>> \in B
    BY <1>6, <1>9, <1>12
  <2>2. PICK a \in 1 .. n : a = r[k]
    BY <1>9
  <2>3. PICK b \in 1 .. n : b = r[l]
    BY <1>9
  <2>4. DistanceTo(gw, a) < DistanceTo(gw, b) \/ DistanceTo(gw, a) = DistanceTo(gw, b)
    BY <1>3, <2>1, <2>2, <2>3
  <2>5. DistanceTo(gw, a) <= DistanceTo(gw, b)
    BY <1>2, <2>4
  <2> QED BY <2>2, <2>3, <2>5
<1> QED BY <1>9, <1>10, <1>11, <1>12 DEF NearFirst, n, r

\* As many as the places they are at.
LEMMA CountedAlike ==
  ASSUME NEW n \in Nat, NEW r \in [1 .. n -> 1 .. n], \A k, l \in 1 .. n : r[k] = r[l] => k = l,
         NEW places \in SUBSET (1 .. n)
  PROVE  /\ IsFiniteSet(places) /\ Cardinality(places) \in Nat
         /\ Cardinality({r[k] : k \in places}) = Cardinality(places)
<1>1. IsFiniteSet(1 .. n)
  BY FS_Interval
<1>2. IsFiniteSet(places) /\ Cardinality(places) \in Nat
  BY <1>1, FS_Subset, FS_CardinalityType
<1> DEFINE T == {r[k] : k \in places}
           f == [k \in places |-> r[k]]
<1>3. f \in [places -> T] /\ (\A a, b \in places : f[a] = f[b] => a = b) /\ \A t \in T : \E a \in places : f[a] = t
  OBVIOUS
<1> HIDE DEF f, T
<1>4. f \in Bijection(places, T)
  BY <1>3 DEF Bijection, Injection, Surjection, IsInjective
<1>5. Cardinality(T) = Cardinality(places)
  BY <1>2, <1>4, FS_Bijection DEF ExistsBijection
<1> QED BY <1>2, <1>5 DEF T

\* The first so many of them.
LEMMA FirstOnes ==
  ASSUME NEW n \in Nat, NEW places \in SUBSET (1 .. n),
         \A k \in places : \A l \in 1 .. n : l <= k => l \in places
  PROVE  Cardinality(places) \in 0 .. n /\ places = 1 .. Cardinality(places)
<1> DEFINE c == Cardinality(places)
<1>1. IsFiniteSet(1 .. n) /\ Cardinality(1 .. n) = n
  BY FS_Interval
<1>2. IsFiniteSet(places) /\ c \in Nat /\ c <= n
  BY <1>1, FS_Subset, FS_CardinalityType
<1>3. ASSUME NEW k \in places
      PROVE  k \in 1 .. c
  <2>1. k \in 1 .. n
    OBVIOUS
  <2>2. 1 .. k \in SUBSET places
    BY <2>1
  <2>3. Cardinality(1 .. k) = k
    BY <2>1, FS_Interval
  <2>4. Cardinality(1 .. k) <= c
    BY <1>2, <2>2, FS_Subset
  <2> QED BY <1>2, <2>1, <2>3, <2>4
<1> HIDE DEF c
<1>4. Cardinality(1 .. c) = c /\ IsFiniteSet(1 .. c)
  BY <1>2, FS_Interval
<1>5. 1 .. c = places
  BY <1>3, <1>4, FS_Subset DEF c
<1> QED BY <1>2, <1>5 DEF c

\* Running totals.
NearestSuch(gw, such, m) == {k \in 1 .. m : ByDistance(gw)[k] \in such}

LEMMA RunningTold ==
  ASSUME HasPlaces(reachPoints), NEW gw, NEW such, NEW m \in 0 .. Len(reachPoints)
  PROVE  Running(gw, such)[m] = Cardinality(NearestSuch(gw, such, m))
<1> DEFINE n == Len(reachPoints)
           r == ByDistance(gw)
           c(k) == {j \in 1 .. k : r[j] \in such}
           Totals(f) == f = [k \in 0 .. n |-> IF k = 0 THEN 0 ELSE f[k - 1] + (IF r[k] \in such THEN 1 ELSE 0)]
           g == [k \in 0 .. n |-> Cardinality(c(k))]
           run == CHOOSE f : Totals(f)
<1>0. n \in Nat
  BY ListLength DEF HasPlaces
<1>1. Running(gw, such) = run
  BY DEF Running
<1> HIDE DEF n, r
<1>2. ASSUME NEW k \in Nat
      PROVE  IsFiniteSet(c(k)) /\ Cardinality(c(k)) \in Nat
  <2>1. IsFiniteSet(1 .. k)
    BY FS_Interval
  <2>2. c(k) \in SUBSET (1 .. k)
    OBVIOUS
  <2> HIDE DEF c
  <2> QED BY <2>1, <2>2, FS_Subset, FS_CardinalityType
<1>3. Cardinality(c(0)) = 0
  <2>1. c(0) = {}
    OBVIOUS
  <2> HIDE DEF c
  <2> QED BY <2>1, FS_EmptySet
<1>4. ASSUME NEW k \in Nat \ {0}
      PROVE  Cardinality(c(k)) = Cardinality(c(k - 1)) + (IF r[k] \in such THEN 1 ELSE 0)
  <2>0. k - 1 \in Nat
    OBVIOUS
  <2>1. CASE r[k] \in such
    <3>1. c(k) = c(k - 1) \cup {k} /\ k \notin c(k - 1)
      BY <2>1
    <3>2. IsFiniteSet(c(k - 1))
      BY <1>2, <2>0
    <3> HIDE DEF c
    <3> QED BY <2>1, <3>1, <3>2, FS_AddElement
  <2>2. CASE r[k] \notin such
    <3>1. c(k) = c(k - 1)
      BY <2>2
    <3>2. Cardinality(c(k - 1)) \in Nat
      BY <1>2, <2>0
    <3> HIDE DEF c
    <3> QED BY <2>2, <3>1, <3>2
  <2> QED BY <2>1, <2>2
<1> HIDE DEF c
<1>5. Totals(g)
  <2>1. ASSUME NEW k \in 0 .. n
        PROVE  g[k] = IF k = 0 THEN 0 ELSE g[k - 1] + (IF r[k] \in such THEN 1 ELSE 0)
    <3>1. CASE k = 0
      BY <1>0, <1>3, <3>1
    <3>2. CASE k # 0
      <4>1. k \in Nat \ {0} /\ k - 1 \in 0 .. n
        BY <1>0, <3>2
      <4>2. g[k] = Cardinality(c(k)) /\ g[k - 1] = Cardinality(c(k - 1))
        BY <4>1
      <4> HIDE DEF g
      <4> QED BY <1>4, <3>2, <4>1, <4>2
    <3> QED BY <3>1, <3>2
  <2>2. g = [k \in 0 .. n |-> g[k]]
    OBVIOUS
  <2> HIDE DEF g
  <2> DEFINE step(k) == IF k = 0 THEN 0 ELSE g[k - 1] + (IF r[k] \in such THEN 1 ELSE 0)
  <2>3. \A k \in 0 .. n : g[k] = step(k)
    BY <2>1
  <2> HIDE DEF step
  <2>4. g = [k \in 0 .. n |-> step(k)]
    BY <2>2, <2>3
  <2> QED BY <2>4 DEF step
<1>6. Totals(run)
  <2> HIDE DEF Totals, g
  <2>1. \E f : Totals(f)
    BY <1>5
  <2> QED BY <2>1
<1> HIDE DEF run, g
<1>7. \A k \in 0 .. n : run[k] = IF k = 0 THEN 0 ELSE run[k - 1] + (IF r[k] \in such THEN 1 ELSE 0)
  BY <1>6
<1> HIDE DEF Totals
<1> DEFINE Good == {k \in Nat : k <= n => run[k] = Cardinality(c(k))}
<1>8. 0 \in Good
  BY <1>0, <1>3, <1>7
<1>9. ASSUME NEW k \in Nat, k \in Good
      PROVE  k + 1 \in Good
  <2> SUFFICES ASSUME k + 1 <= n PROVE run[k + 1] = Cardinality(c(k + 1))
    OBVIOUS
  <2>1. run[k] = Cardinality(c(k))
    BY <1>0, <1>9
  <2> DEFINE l == k + 1
  <2>2. l \in Nat \ {0} /\ l - 1 = k /\ l \in 0 .. n
    BY <1>0
  <2> HIDE DEF l
  <2>3. run[l] = run[l - 1] + (IF r[l] \in such THEN 1 ELSE 0)
    BY <1>7, <2>2
  <2>4. Cardinality(c(l)) = Cardinality(c(l - 1)) + (IF r[l] \in such THEN 1 ELSE 0)
    BY <1>4, <2>2
  <2>5. run[l] = Cardinality(c(l))
    BY <2>1, <2>2, <2>3, <2>4
  <2> QED BY <2>5 DEF l
<1>10. \A k \in Nat : k \in Good
  <2> HIDE DEF Good
  <2> QED BY <1>8, <1>9, Counting
<1>11. m \in Nat /\ m <= n
  BY <1>0 DEF n
<1> QED BY <1>1, <1>10, <1>11 DEF c, r, NearestSuch

-----------------------------------------------------------------------------
(* The binary search.                                                       *)

Searches(w, r, n, gw, radius) ==
  w = [b \in (0 .. n) \X (0 .. n) |->
        LET lo == b[1] hi == b[2] mid == (lo + hi) \div 2
        IN IF lo >= hi THEN lo
           ELSE IF DistanceTo(gw, r[mid + 1]) <= radius THEN w[<<mid + 1, hi>>]
           ELSE w[<<lo, mid>>]]

\* Where a search between two bounds must end if "last" is the last one inside.
EndsAt(last, lo, hi) == IF lo >= hi THEN lo ELSE IF last < lo THEN lo ELSE IF last > hi THEN hi ELSE last

LEMMA SearchEnds ==
  ASSUME NEW n \in Nat, NEW r, NEW gw, NEW radius, NEW last \in 0 .. n,
         \A k \in 1 .. n : DistanceTo(gw, r[k]) <= radius <=> k <= last
  PROVE  /\ \E w : Searches(w, r, n, gw, radius)
         /\ \A w : Searches(w, r, n, gw, radius) => w[<<0, n>>] = last
<1> DEFINE step(w, lo, hi) == IF lo >= hi THEN lo
                              ELSE IF (lo + hi) \div 2 + 1 <= last THEN w[<<(lo + hi) \div 2 + 1, hi>>]
                              ELSE w[<<lo, (lo + hi) \div 2>>]
<1>1. ASSUME NEW lo \in 0 .. n, NEW hi \in 0 .. n, lo < hi
      PROVE  /\ (lo + hi) \div 2 \in 0 .. n /\ (lo + hi) \div 2 + 1 \in 1 .. n
             /\ lo <= (lo + hi) \div 2 /\ (lo + hi) \div 2 < hi
             /\ hi - ((lo + hi) \div 2 + 1) < hi - lo /\ (lo + hi) \div 2 - lo < hi - lo
  BY <1>1
<1>2. ASSUME NEW w
      PROVE  Searches(w, r, n, gw, radius)
               <=> w = [b \in (0 .. n) \X (0 .. n) |-> step(w, b[1], b[2])]
  <2> DEFINE now(b) == LET lo == b[1] hi == b[2] mid == (lo + hi) \div 2
                       IN IF lo >= hi THEN lo
                          ELSE IF DistanceTo(gw, r[mid + 1]) <= radius THEN w[<<mid + 1, hi>>]
                          ELSE w[<<lo, mid>>]
             then(b) == step(w, b[1], b[2])
  <2>1. ASSUME NEW lo \in 0 .. n, NEW hi \in 0 .. n
        PROVE  now(<<lo, hi>>) = then(<<lo, hi>>)
    <3>1. CASE lo >= hi
      BY <3>1
    <3>2. CASE lo < hi
      <4> DEFINE m == (lo + hi) \div 2 + 1
      <4>1. m \in 1 .. n /\ ~ (lo >= hi)
        BY <1>1, <3>2
      <4>2. DistanceTo(gw, r[m]) <= radius <=> m <= last
        <5> HIDE DEF m
        <5> QED BY <4>1
      <4> QED BY <4>1, <4>2
    <3> QED BY <3>1, <3>2
  <2>2. \A b \in (0 .. n) \X (0 .. n) : now(b) = then(b)
    <3> TAKE b \in (0 .. n) \X (0 .. n)
    <3>1. PICK lo \in 0 .. n, hi \in 0 .. n : b = <<lo, hi>>
      OBVIOUS
    <3> HIDE DEF now, then
    <3> QED BY <2>1, <3>1
  <2>3. Searches(w, r, n, gw, radius) <=> w = [b \in (0 .. n) \X (0 .. n) |-> now(b)]
    BY DEF Searches
  <2> HIDE DEF now, then
  <2>4. [b \in (0 .. n) \X (0 .. n) |-> now(b)] = [b \in (0 .. n) \X (0 .. n) |-> then(b)]
    BY <2>2
  <2>5. Searches(w, r, n, gw, radius) <=> w = [b \in (0 .. n) \X (0 .. n) |-> then(b)]
    BY <2>3, <2>4
  <2> QED BY <2>5 DEF then
<1>3. ASSUME NEW lo \in 0 .. n, NEW hi \in 0 .. n, lo < hi, NEW m, m = (lo + hi) \div 2
      PROVE  /\ m + 1 <= last => EndsAt(last, m + 1, hi) = EndsAt(last, lo, hi)
             /\ ~ (m + 1 <= last) => EndsAt(last, lo, m) = EndsAt(last, lo, hi)
  <2>1. m \in 0 .. n /\ lo <= m /\ m < hi
    BY <1>1, <1>3
  <2> QED BY <1>3, <2>1 DEF EndsAt
<1> DEFINE g == [b \in (0 .. n) \X (0 .. n) |-> EndsAt(last, b[1], b[2])]
<1>4. \A lo \in 0 .. n, hi \in 0 .. n : g[<<lo, hi>>] = EndsAt(last, lo, hi)
  OBVIOUS
<1>5. ASSUME NEW lo \in 0 .. n, NEW hi \in 0 .. n
      PROVE  g[<<lo, hi>>] = step(g, lo, hi)
  <2>1. CASE lo >= hi
    BY <1>4, <2>1 DEF EndsAt
  <2>2. CASE lo < hi
    <3> DEFINE m == (lo + hi) \div 2
    <3>1. m \in 0 .. n /\ m + 1 \in 0 .. n /\ ~ (lo >= hi)
      BY <1>1, <2>2
    <3>2. /\ m + 1 <= last => EndsAt(last, m + 1, hi) = EndsAt(last, lo, hi)
          /\ ~ (m + 1 <= last) => EndsAt(last, lo, m) = EndsAt(last, lo, hi)
      BY <1>3, <2>2
    <3>3. step(g, lo, hi) = IF m + 1 <= last THEN g[<<m + 1, hi>>] ELSE g[<<lo, m>>]
      BY <3>1
    <3> HIDE DEF g, m
    <3>4. g[<<m + 1, hi>>] = EndsAt(last, m + 1, hi) /\ g[<<lo, m>>] = EndsAt(last, lo, m)
      BY <1>4, <3>1
    <3> HIDE DEF step
    <3> QED BY <1>4, <3>2, <3>3, <3>4
  <2> QED BY <2>1, <2>2
<1>6. Searches(g, r, n, gw, radius)
  <2> DEFINE then(b) == step(g, b[1], b[2])
  <2>1. ASSUME NEW b \in (0 .. n) \X (0 .. n)
        PROVE  g[b] = then(b)
    <3>1. PICK lo \in 0 .. n, hi \in 0 .. n : b = <<lo, hi>>
      OBVIOUS
    <3>2. b[1] = lo /\ b[2] = hi
      BY <3>1
    <3> HIDE DEF g, step
    <3> QED BY <1>5, <3>1, <3>2
  <2>2. g = [b \in (0 .. n) \X (0 .. n) |-> g[b]]
    OBVIOUS
  <2> HIDE DEF g, then
  <2>3. g = [b \in (0 .. n) \X (0 .. n) |-> then(b)]
    BY <2>1, <2>2
  <2>4. g = [b \in (0 .. n) \X (0 .. n) |-> step(g, b[1], b[2])]
    BY <2>3 DEF then
  <2> HIDE DEF step
  <2> QED BY <1>2, <2>4
<1>7. ASSUME NEW w, Searches(w, r, n, gw, radius)
      PROVE  w[<<0, n>>] = last
  <2> DEFINE Good == {d \in Nat : \A e \in Nat : e <= d =>
                        \A lo \in 0 .. n, hi \in 0 .. n : hi - lo <= e => w[<<lo, hi>>] = EndsAt(last, lo, hi)}
  <2>1. \A lo \in 0 .. n, hi \in 0 .. n : w[<<lo, hi>>] = step(w, lo, hi)
    <3>1. w = [b \in (0 .. n) \X (0 .. n) |-> step(w, b[1], b[2])]
      BY <1>2, <1>7
    <3> DEFINE then(b) == step(w, b[1], b[2])
    <3> HIDE DEF step
    <3>2. w = [b \in (0 .. n) \X (0 .. n) |-> then(b)]
      BY <3>1
    <3>3. \A b \in (0 .. n) \X (0 .. n) : w[b] = then(b)
      <4> HIDE DEF then
      <4> QED BY <3>2
    <3>4. ASSUME NEW lo \in 0 .. n, NEW hi \in 0 .. n
          PROVE  w[<<lo, hi>>] = step(w, lo, hi)
      <4> DEFINE b == <<lo, hi>>
      <4>1. b \in (0 .. n) \X (0 .. n) /\ b[1] = lo /\ b[2] = hi
        OBVIOUS
      <4> HIDE DEF b
      <4>2. w[b] = step(w, lo, hi)
        BY <3>3, <4>1
      <4> QED BY <4>2 DEF b
    <3> QED BY <3>4
  <2>2. ASSUME NEW lo \in 0 .. n, NEW hi \in 0 .. n, lo >= hi
        PROVE  w[<<lo, hi>>] = EndsAt(last, lo, hi)
    BY <2>1, <2>2 DEF EndsAt
  <2>3. 0 \in Good
    <3> SUFFICES ASSUME NEW e \in Nat, e <= 0, NEW lo \in 0 .. n, NEW hi \in 0 .. n, hi - lo <= e
                 PROVE  w[<<lo, hi>>] = EndsAt(last, lo, hi)
      OBVIOUS
    <3>1. lo >= hi
      OBVIOUS
    <3> QED BY <2>2, <3>1
  <2>4. ASSUME NEW d \in Nat, d \in Good
        PROVE  d + 1 \in Good
    <3> SUFFICES ASSUME NEW e \in Nat, e <= d + 1, NEW lo \in 0 .. n, NEW hi \in 0 .. n, hi - lo <= e
                 PROVE  w[<<lo, hi>>] = EndsAt(last, lo, hi)
      OBVIOUS
    <3>1. CASE lo >= hi
      BY <2>2, <3>1
    <3>2. CASE lo < hi
      <4> DEFINE m == (lo + hi) \div 2
      <4>1. /\ m \in 0 .. n /\ m + 1 \in 0 .. n /\ ~ (lo >= hi)
            /\ hi - (m + 1) <= d /\ m - lo <= d
        BY <1>1, <3>2
      <4>2. /\ m + 1 <= last => EndsAt(last, m + 1, hi) = EndsAt(last, lo, hi)
            /\ ~ (m + 1 <= last) => EndsAt(last, lo, m) = EndsAt(last, lo, hi)
        BY <1>3, <3>2
      <4>3. w[<<lo, hi>>] = IF m + 1 <= last THEN w[<<m + 1, hi>>] ELSE w[<<lo, m>>]
        BY <2>1, <4>1
      <4> HIDE DEF m
      <4>4. w[<<m + 1, hi>>] = EndsAt(last, m + 1, hi) /\ w[<<lo, m>>] = EndsAt(last, lo, m)
        BY <2>4, <4>1
      <4> QED BY <4>2, <4>3, <4>4
    <3> QED BY <3>1, <3>2
  <2>5. n \in Good
    <3> HIDE DEF Good
    <3> QED BY <2>3, <2>4, Counting
  <2>6. w[<<0, n>>] = EndsAt(last, 0, n)
    BY <2>5
  <2> QED BY <2>6 DEF EndsAt
<1> QED BY <1>6, <1>7

\* The search counts the meters in the circle: they come first.
LEMMA CircleCounted ==
  ASSUME HasPlaces(reachPoints), NEW gw, gw.at \in Int, NEW radius \in Int
  PROVE  /\ CountWithin(gw, radius) \in 0 .. Len(reachPoints)
         /\ Inside(gw, radius) = {ByDistance(gw)[k] : k \in 1 .. CountWithin(gw, radius)}
<1> DEFINE n == Len(reachPoints)
           r == ByDistance(gw)
           places == {k \in 1 .. n : DistanceTo(gw, r[k]) <= radius}
           last == Cardinality(places)
<1>1. DOMAIN reachPoints = 1 .. n /\ n \in Nat
  BY ListLength DEF HasPlaces
<1>2. \A i \in 1 .. n : DistanceTo(gw, i) \in Nat
  BY <1>1, DistanceIsNat
<1>3. /\ r \in [1 .. n -> 1 .. n]
      /\ \A i \in 1 .. n : \E k \in 1 .. n : r[k] = i
      /\ \A k, l \in 1 .. n : k <= l => DistanceTo(gw, r[k]) <= DistanceTo(gw, r[l])
  BY NearestFirst DEF NearFirst
<1>4. CountWithin(gw, radius) = (CHOOSE w : Searches(w, r, n, gw, radius))[<<0, n>>]
  BY DEF CountWithin, Searches
<1> HIDE DEF n, r
<1>5. places \in SUBSET (1 .. n) /\ \A k \in places : \A l \in 1 .. n : l <= k => l \in places
  <2>1. ASSUME NEW k \in places, NEW l \in 1 .. n, l <= k
        PROVE  DistanceTo(gw, r[l]) <= radius
    <3>1. r[l] \in 1 .. n /\ r[k] \in 1 .. n /\ k \in 1 .. n
      BY <1>3
    <3> DEFINE a == DistanceTo(gw, r[l])
               b == DistanceTo(gw, r[k])
    <3>2. a \in Nat /\ b \in Nat /\ a <= b /\ b <= radius
      BY <1>2, <1>3, <2>1, <3>1
    <3> HIDE DEF a, b
    <3>3. a <= radius
      BY <3>2
    <3> QED BY <3>3 DEF a
  <2> QED BY <2>1
<1>6. last \in 0 .. n /\ places = 1 .. last
  <2> HIDE DEF places
  <2> QED BY <1>1, <1>5, FirstOnes
<1> HIDE DEF last
<1>7. \A k \in 1 .. n : DistanceTo(gw, r[k]) <= radius <=> k <= last
  <2>1. \A k \in 1 .. n : k \in places <=> k <= last
    <3> HIDE DEF places
    <3> QED BY <1>1, <1>6
  <2> QED BY <2>1
<1>8. CountWithin(gw, radius) = last
  <2>1. /\ \E w : Searches(w, r, n, gw, radius)
        /\ \A w : Searches(w, r, n, gw, radius) => w[<<0, n>>] = last
    BY <1>1, <1>6, <1>7, SearchEnds
  <2> QED BY <1>4, <2>1
<1>9. ASSUME NEW i
      PROVE  i \in Inside(gw, radius) <=> i \in {r[k] : k \in 1 .. last}
  <2>1. \A k \in 1 .. last : k \in 1 .. n
    BY <1>1, <1>6
  <2>2. ASSUME i \in Inside(gw, radius)
        PROVE  i \in {r[k] : k \in 1 .. last}
    <3>1. i \in 1 .. n /\ DistanceTo(gw, i) <= radius
      BY <1>1, <2>2 DEF Inside
    <3>2. PICK k \in 1 .. n : r[k] = i
      BY <1>3, <3>1
    <3>3. k \in places
      BY <3>1, <3>2
    <3> QED BY <1>6, <3>2, <3>3
  <2>3. ASSUME NEW k \in 1 .. last, i = r[k]
        PROVE  i \in Inside(gw, radius)
    <3>1. k \in places /\ k \in 1 .. n
      BY <1>6, <2>1
    <3>2. i \in 1 .. n /\ DistanceTo(gw, i) <= radius
      BY <1>3, <2>3, <3>1
    <3> QED BY <1>1, <3>2 DEF Inside
  <2> QED BY <2>2, <2>3
<1> QED BY <1>6, <1>8, <1>9 DEF n, r

\* How many of the meters in the circle are such.
SuchInside(gw, radius, such) == {i \in Inside(gw, radius) : i \in such}

LEMMA CircleTold ==
  ASSUME HasPlaces(reachPoints), NEW gw, gw.at \in Int, NEW radius \in Int, NEW such
  PROVE  /\ Running(gw, such)[CountWithin(gw, radius)] = Cardinality(SuchInside(gw, radius, such))
         /\ CountWithin(gw, radius) = Cardinality(Inside(gw, radius))
<1> DEFINE n == Len(reachPoints)
           r == ByDistance(gw)
           c == CountWithin(gw, radius)
           places == {k \in 1 .. c : r[k] \in such}
<1>1. n \in Nat
  BY ListLength DEF HasPlaces
<1>2. r \in [1 .. n -> 1 .. n] /\ \A k, l \in 1 .. n : r[k] = r[l] => k = l
  BY NearestFirst DEF NearFirst
<1>3. c \in 0 .. n /\ Inside(gw, radius) = {r[k] : k \in 1 .. c}
  BY CircleCounted
<1>4. Running(gw, such)[c] = Cardinality(places)
  <2>1. c \in 0 .. Len(reachPoints)
    BY <1>3
  <2> HIDE DEF c
  <2>2. Running(gw, such)[c] = Cardinality(NearestSuch(gw, such, c))
    BY <2>1, RunningTold
  <2> QED BY <2>2 DEF NearestSuch
<1> HIDE DEF n, r, c
<1>5. places \in SUBSET (1 .. n) /\ 1 .. c \in SUBSET (1 .. n)
  BY <1>1, <1>3
<1>6. SuchInside(gw, radius, such) = {r[k] : k \in places}
  BY <1>3 DEF SuchInside
<1> HIDE DEF places
<1>7. Cardinality({r[k] : k \in places}) = Cardinality(places)
  BY <1>1, <1>2, <1>5, CountedAlike
<1> DEFINE P == 1 .. c
<1>8. Cardinality({r[k] : k \in P}) = Cardinality(P)
  <2> HIDE DEF P
  <2>1. P \in SUBSET (1 .. n)
    BY <1>5 DEF P
  <2> QED BY <1>1, <1>2, <2>1, CountedAlike
<1>9. Cardinality(P) = c
  <2>1. c \in Nat
    BY <1>1, <1>3
  <2> QED BY <2>1, FS_Interval
<1> QED BY <1>3, <1>4, <1>6, <1>7, <1>8, <1>9 DEF c

\* The meters of a gateway, the nearest of them and the farthest.
LEMMA OwnTold ==
  ASSUME HasPlaces(reachPoints), NEW gw, gw.at \in Int,
         NEW mine, mine = {i \in DOMAIN reachPoints : reachPoints[i].gateway = gw.id}
  PROVE  /\ mine = {} => Nearest(gw) = 0 /\ Farthest(gw) = 0
         /\ mine # {} => Nearest(gw) \in mine /\ Farthest(gw) \in mine
         /\ \A i \in mine : /\ DistanceTo(gw, Nearest(gw)) <= DistanceTo(gw, i)
                            /\ DistanceTo(gw, i) <= DistanceTo(gw, Farthest(gw))
<1> DEFINE n == Len(reachPoints)
           r == ByDistance(gw)
           places == {k \in DOMAIN reachPoints : GroupOf(gw, reachPoints[r[k]]) = "this"}
           o == RowsAt(r, places)
<1>1. DOMAIN reachPoints = 1 .. n /\ n \in Nat
  BY ListLength DEF HasPlaces
<1>2. /\ r \in [1 .. n -> 1 .. n]
      /\ \A i \in 1 .. n : \E k \in 1 .. n : r[k] = i
      /\ \A k, l \in 1 .. n : k <= l => DistanceTo(gw, r[k]) <= DistanceTo(gw, r[l])
  BY NearestFirst DEF NearFirst
<1>3. Own(gw) = o
  BY DEF Own
<1> HIDE DEF n, r
<1>4. places \in SUBSET (1 .. n) /\ \A k \in 1 .. n : k \in places <=> r[k] \in mine
  <2>1. \A i : GroupOf(gw, i) = "this" <=> i.gateway = gw.id
    BY DEF GroupOf
  <2> QED BY <1>1, <1>2, <2>1
<1> HIDE DEF places
<1>5. IsList(r) /\ DOMAIN r = 1 .. n
  BY <1>1, <1>2 DEF IsList
<1> DEFINE c == Cardinality(places)
<1>6. /\ IsList(o) /\ c \in Nat /\ Len(o) = c
      /\ \A k \in places : RankOf(places, k) \in 1 .. c
      /\ \A k \in DOMAIN o : \E i \in places : RankOf(places, i) = k /\ o[k] = r[i]
      /\ Members(o) = {r[i] : i \in places}
  <2>1. places \in SUBSET (DOMAIN r)
    BY <1>4, <1>5
  <2> QED BY <1>5, <2>1, KeptRows
<1>7. \A i, j \in places : i < j => RankOf(places, i) < RankOf(places, j)
  BY <1>1, <1>4, EveryRank
<1>8. DOMAIN o = 1 .. c
  BY <1>6, ListLength
<1> HIDE DEF o, c, RankOf
<1>9. Members(o) = mine
  <2>1. \A i \in mine : i \in 1 .. n
    BY <1>1
  <2>2. ASSUME NEW i \in mine
        PROVE  i \in {r[k] : k \in places}
    BY <1>2, <1>4, <2>1
  <2> QED BY <1>4, <1>6, <2>2
<1>10. mine = {} <=> c = 0
  <2>1. ASSUME c = 0
        PROVE  mine = {}
    <3>1. DOMAIN o = {}
      BY <1>8, <2>1
    <3> QED BY <1>9, <3>1 DEF Members
  <2>2. ASSUME c # 0
        PROVE  mine # {}
    <3>1. 1 \in DOMAIN o
      BY <1>6, <1>8, <2>2
    <3> QED BY <1>9, <3>1 DEF Members
  <2> QED BY <2>1, <2>2
<1>11. o = <<>> <=> c = 0
  <2>1. Len(<<>>) = 0
    OBVIOUS
  <2>2. ASSUME c = 0
        PROVE  o = <<>>
    <3>1. PICK m \in Nat : \E S : o \in [1 .. m -> S]
      BY <1>6 DEF IsList
    <3>2. PICK S : o \in [1 .. m -> S]
      BY <3>1
    <3>3. o \in Seq(S) /\ Len(o) = 0
      BY <1>6, <2>2, <3>2
    <3> QED BY <3>3, EmptySeq
  <2> QED BY <1>6, <2>1, <2>2
<1>12. CASE c = 0
  <2>1. Nearest(gw) = 0 /\ Farthest(gw) = 0 /\ mine = {}
    BY <1>3, <1>10, <1>11, <1>12 DEF Nearest, Farthest
  <2> QED BY <2>1
<1>13. CASE c # 0
  <2>1. Nearest(gw) = o[1] /\ Farthest(gw) = o[c] /\ 1 \in DOMAIN o /\ c \in DOMAIN o
    <3>1. Nearest(gw) = o[1] /\ Farthest(gw) = o[Len(o)]
      BY <1>3, <1>11, <1>13 DEF Nearest, Farthest
    <3> QED BY <1>6, <1>8, <1>13, <3>1
  <2>2. PICK i \in places : RankOf(places, i) = 1 /\ o[1] = r[i]
    BY <1>6, <2>1
  <2>3. PICK j \in places : RankOf(places, j) = c /\ o[c] = r[j]
    BY <1>6, <2>1
  <2>4. o[1] \in mine /\ o[c] \in mine
    BY <1>9, <2>1 DEF Members
  <2>5. ASSUME NEW x \in mine
        PROVE  DistanceTo(gw, o[1]) <= DistanceTo(gw, x) /\ DistanceTo(gw, x) <= DistanceTo(gw, o[c])
    <3>1. PICK k \in places : r[k] = x
      BY <1>6, <1>9
    <3>2. RankOf(places, k) \in 1 .. c
      BY <1>6
    <3>3. i \in 1 .. n /\ j \in 1 .. n /\ k \in 1 .. n
      BY <1>4
    <3>4. ~ (RankOf(places, k) < 1) /\ ~ (c < RankOf(places, k))
      BY <1>6, <3>2
    <3>5. ~ (k < i) /\ ~ (j < k)
      BY <1>7, <2>2, <2>3, <3>4
    <3>6. i <= k /\ k <= j
      BY <3>3, <3>5
    <3> QED BY <1>2, <2>2, <2>3, <3>1, <3>3, <3>6
  <2> QED BY <1>10, <1>13, <2>1, <2>4, <2>5
<1> QED BY <1>12, <1>13

LEMMA PanelTold ==
  ASSUME HasPlaces(reachPoints), HasPlaces(GatewayRow), reachGateway \in DOMAIN GatewayRow, reachRadius \in Int
  PROVE  ReachTold
<1> DEFINE gw == OpenGateway
           c == CountWithin(gw, reachRadius)
           told == CoverageAt(gw, reachRadius)
           mine == {i \in DOMAIN reachPoints : reachPoints[i].gateway = gw.id}
           circle == Inside(gw, reachRadius)
           ofGroup(g) == {i \in DOMAIN reachPoints : GroupOf(gw, reachPoints[i]) = g}
           ofStatus(s) == {i \in DOMAIN reachPoints : reachPoints[i].status = s}
<1>1. gw.at \in Int
  BY DEF HasPlaces, OpenGateway
<1> HIDE DEF gw
<1>2. /\ told.total = c
      /\ DOMAIN told.groups = {"this", "other", "none"}
      /\ \A g \in {"this", "other", "none"} : told.groups[g] = Running(gw, ofGroup(g))[c]
      /\ DOMAIN told.statuses = {"connected", "disconnected", "never"}
      /\ \A s \in {"connected", "disconnected", "never"} : told.statuses[s] = Running(gw, ofStatus(s))[c]
  BY DEF CoverageAt
<1>3. c = Cardinality(circle)
  BY <1>1, CircleTold
<1>4. ASSUME NEW g
      PROVE  Running(gw, ofGroup(g))[c] = Cardinality({i \in circle : GroupOf(gw, reachPoints[i]) = g})
  <2>1. {i \in circle : i \in ofGroup(g)} = {i \in circle : GroupOf(gw, reachPoints[i]) = g}
    BY DEF Inside
  <2> DEFINE such == ofGroup(g)
  <2> HIDE DEF such
  <2>2. Running(gw, such)[c] = Cardinality(SuchInside(gw, reachRadius, such))
    BY <1>1, CircleTold
  <2> QED BY <2>1, <2>2 DEF such, SuchInside
<1>5. ASSUME NEW s
      PROVE  Running(gw, ofStatus(s))[c] = Cardinality({i \in circle : reachPoints[i].status = s})
  <2>1. {i \in circle : i \in ofStatus(s)} = {i \in circle : reachPoints[i].status = s}
    BY DEF Inside
  <2> DEFINE such == ofStatus(s)
  <2> HIDE DEF such
  <2>2. Running(gw, such)[c] = Cardinality(SuchInside(gw, reachRadius, such))
    BY <1>1, CircleTold
  <2> QED BY <2>1, <2>2 DEF such, SuchInside
<1>6. /\ mine = {} => Nearest(gw) = 0 /\ Farthest(gw) = 0
      /\ mine # {} => Nearest(gw) \in mine /\ Farthest(gw) \in mine
      /\ \A i \in mine : /\ DistanceTo(gw, Nearest(gw)) <= DistanceTo(gw, i)
                         /\ DistanceTo(gw, i) <= DistanceTo(gw, Farthest(gw))
  BY <1>1, OwnTold
<1> DEFINE IsMine(i) == IF mine = {} THEN i = 0 ELSE i \in mine
<1>7. IsMine(Nearest(gw)) /\ IsMine(Farthest(gw))
  BY <1>6
<1> HIDE DEF ofGroup, ofStatus, c
<1>8. \A g \in DOMAIN told.groups : told.groups[g] = Cardinality({i \in circle : GroupOf(gw, reachPoints[i]) = g})
  BY <1>2, <1>4
<1>9. \A s \in DOMAIN told.statuses : told.statuses[s] = Cardinality({i \in circle : reachPoints[i].status = s})
  BY <1>2, <1>5
<1>10. told.total = Cardinality(circle)
  BY <1>2, <1>3
<1> QED BY <1>6, <1>7, <1>8, <1>9, <1>10 DEF ReachTold, gw

-----------------------------------------------------------------------------
(* The nearest gateway of a meter.                                          *)

Bests(f, n, p) ==
  f = [i \in 0 .. n |->
        IF i = 0 THEN 0
        ELSE LET b == f[i - 1] IN
          IF b = 0 \/ Distance(p.at, GatewayRow[i].at) < Distance(p.at, GatewayRow[b].at)
            THEN i ELSE b]

LEMMA BestsExist ==
  ASSUME NEW p, NEW m \in Nat
  PROVE  \E f : Bests(f, m, p)
<1> DEFINE step(f, i) == IF f[i - 1] = 0 \/ Distance(p.at, GatewayRow[i].at) < Distance(p.at, GatewayRow[f[i - 1]].at)
                           THEN i ELSE f[i - 1]
           fits(f, n) == f = [i \in 0 .. n |-> f[i]] /\ f[0] = 0 /\ \A i \in 1 .. n : f[i] = step(f, i)
           Good == {n \in Nat : \E f : fits(f, n)}
<1>1. 0 \in Good
  <2> DEFINE f == [i \in 0 .. 0 |-> 0]
  <2>1. fits(f, 0)
    OBVIOUS
  <2> HIDE DEF f, fits
  <2> QED BY <2>1
<1>2. ASSUME NEW n \in Nat, n \in Good
      PROVE  n + 1 \in Good
  <2>1. PICK f : fits(f, n)
    BY <1>2
  <2> DEFINE g == [i \in 0 .. n + 1 |-> IF i <= n THEN f[i] ELSE step(f, n + 1)]
  <2>6. g = [i \in 0 .. n + 1 |-> g[i]]
    OBVIOUS
  <2>7. f[0] = 0 /\ \A i \in 1 .. n : f[i] = step(f, i)
    BY <2>1
  <2>2. g[0] = 0 /\ \A i \in 0 .. n : g[i] = f[i]
    BY <2>7
  <2>3. g[n + 1] = step(f, n + 1)
    <3> HIDE DEF step
    <3> QED OBVIOUS
  <2> HIDE DEF g
  <2>4. ASSUME NEW i \in 1 .. n + 1
        PROVE  g[i] = step(g, i)
    <3>1. i - 1 \in 0 .. n /\ g[i - 1] = f[i - 1]
      <4>1. i - 1 \in 0 .. n
        OBVIOUS
      <4> QED BY <2>2, <4>1
    <3>2. step(g, i) = step(f, i)
      BY <3>1
    <3>3. CASE i \in 1 .. n
      <4>1. g[i] = f[i]
        BY <2>2, <3>3
      <4> HIDE DEF step
      <4> QED BY <2>7, <3>2, <3>3, <4>1
    <3>4. CASE i = n + 1
      <4> HIDE DEF step
      <4> QED BY <2>3, <3>2, <3>4
    <3> QED BY <3>3, <3>4
  <2>5. fits(g, n + 1)
    <3> HIDE DEF step
    <3> QED BY <2>2, <2>4, <2>6
  <2> HIDE DEF fits
  <2> QED BY <2>5
<1>3. m \in Good
  <2> HIDE DEF Good
  <2> QED BY <1>1, <1>2, Counting
<1>4. PICK f : fits(f, m)
  BY <1>3
<1> HIDE DEF Good
<1>5. Bests(f, m, p)
  <2> DEFINE at(i) == IF i = 0 THEN 0 ELSE step(f, i)
  <2>1. f = [i \in 0 .. m |-> f[i]]
    BY <1>4
  <2>2. \A i \in 0 .. m : f[i] = at(i)
    <3>1. f[0] = 0 /\ \A i \in 1 .. m : f[i] = step(f, i)
      BY <1>4
    <3> HIDE DEF step
    <3> QED BY <3>1
  <2> HIDE DEF at
  <2>3. f = [i \in 0 .. m |-> at(i)]
    BY <2>1, <2>2
  <2> QED BY <2>3 DEF at, Bests
<1> QED BY <1>5

LEMMA NearestIsNearest ==
  ASSUME HasPlaces(GatewayRow), NEW p, p.at \in Int, DOMAIN GatewayRow # {}
  PROVE  /\ NearestGateway(p) \in DOMAIN GatewayRow
         /\ \A g \in DOMAIN GatewayRow :
              Distance(p.at, GatewayRow[NearestGateway(p)].at) <= Distance(p.at, GatewayRow[g].at)
<1> DEFINE m == Len(GatewayRow)
           f == CHOOSE f : Bests(f, m, p)
           d(i) == Distance(p.at, GatewayRow[i].at)
<1>1. DOMAIN GatewayRow = 1 .. m /\ m \in Nat /\ m # 0
  BY ListLength DEF HasPlaces
<1>2. NearestGateway(p) = f[m]
  BY DEF NearestGateway, Bests
<1>3. \A i \in 1 .. m : d(i) \in Nat
  BY <1>1 DEF HasPlaces, Distance
<1> HIDE DEF m
<1>4. Bests(f, m, p)
  BY <1>1, BestsExist
<1> HIDE DEF f
<1>5. /\ f[0] = 0
      /\ \A i \in 1 .. m : f[i] = IF f[i - 1] = 0 \/ d(i) < d(f[i - 1]) THEN i ELSE f[i - 1]
  BY <1>1, <1>4 DEF Bests
<1> HIDE DEF d
<1> DEFINE right(i) == f[i] \in 1 .. i /\ \A g \in 1 .. i : d(f[i]) <= d(g)
           Good == {i \in Nat : i \in 1 .. m => right(i)}
<1>6. 0 \in Good
  OBVIOUS
<1>7. ASSUME NEW i \in Nat, i \in Good
      PROVE  i + 1 \in Good
  <2> SUFFICES ASSUME i + 1 \in 1 .. m PROVE right(i + 1)
    OBVIOUS
  <2>0. f[i + 1] = IF f[i] = 0 \/ d(i + 1) < d(f[i]) THEN i + 1 ELSE f[i]
    <3> DEFINE j == i + 1
    <3>1. j \in 1 .. m /\ j - 1 = i
      OBVIOUS
    <3> HIDE DEF j
    <3>2. f[j] = IF f[j - 1] = 0 \/ d(j) < d(f[j - 1]) THEN j ELSE f[j - 1]
      BY <1>5, <3>1
    <3>3. f[j] = IF f[i] = 0 \/ d(j) < d(f[i]) THEN j ELSE f[i]
      BY <3>1, <3>2
    <3> QED BY <3>3 DEF j
  <2>1. CASE i = 0
    <3>1. f[1] = 1 /\ i + 1 = 1
      BY <1>5, <2>0, <2>1
    <3>2. d(1) \in Nat
      BY <1>3, <2>1
    <3>3. \A g \in 1 .. 1 : g = 1
      OBVIOUS
    <3>4. right(1)
      BY <3>1, <3>2, <3>3
    <3> QED BY <3>1, <3>4
  <2>2. CASE i # 0
    <3>1. f[i] \in 1 .. i /\ \A g \in 1 .. i : d(f[i]) <= d(g)
      BY <1>1, <1>7, <2>2
    <3>2. f[i] # 0 /\ f[i] \in 1 .. m /\ d(f[i]) \in Nat /\ d(i + 1) \in Nat
      BY <1>1, <1>3, <3>1
    <3>3. \A g \in 1 .. i : d(g) \in Nat
      BY <1>1, <1>3
    <3>4. CASE d(i + 1) < d(f[i])
      <4>1. f[i + 1] = i + 1
        BY <2>0, <3>4
      <4>2. ASSUME NEW g \in 1 .. i + 1
            PROVE  d(i + 1) <= d(g)
        <5>1. CASE g = i + 1
          BY <3>2, <5>1
        <5>2. CASE g \in 1 .. i
          BY <3>1, <3>2, <3>3, <3>4, <5>2
        <5> QED BY <5>1, <5>2
      <4> QED BY <4>1, <4>2
    <3>5. CASE ~ (d(i + 1) < d(f[i]))
      <4>1. f[i + 1] = f[i]
        BY <2>0, <3>2, <3>5
      <4>2. ASSUME NEW g \in 1 .. i + 1
            PROVE  d(f[i]) <= d(g)
        <5>1. CASE g = i + 1
          BY <3>2, <3>5, <5>1
        <5>2. CASE g \in 1 .. i
          BY <3>1, <5>2
        <5> QED BY <5>1, <5>2
      <4>3. f[i] \in 1 .. i + 1
        BY <3>1
      <4> QED BY <4>1, <4>2, <4>3
    <3> QED BY <3>4, <3>5
  <2> QED BY <2>1, <2>2
<1>8. m \in Good
  <2> HIDE DEF Good
  <2> QED BY <1>1, <1>6, <1>7, Counting
<1>9. right(m)
  BY <1>1, <1>8
<1> QED BY <1>1, <1>2, <1>9 DEF d

LEMMA LeastOne ==
  ASSUME NEW S \in SUBSET Nat, S # {}
  PROVE  \E i \in S : \A j \in S : i <= j
<1> SUFFICES ASSUME \A i \in S : \E j \in S : ~ (i <= j) PROVE FALSE
  OBVIOUS
<1> DEFINE Good == {n \in Nat : \A k \in S : ~ (k <= n)}
<1>1. 0 \in Good
  <2>1. \A k \in S : k <= 0 => \A j \in S : k <= j
    OBVIOUS
  <2> QED BY <2>1
<1>2. ASSUME NEW n \in Nat, n \in Good
      PROVE  n + 1 \in Good
  <2>1. \A k \in S : k <= n + 1 => \A j \in S : k <= j
    BY <1>2
  <2> QED BY <2>1
<1>3. \A n \in Nat : n \in Good
  <2> HIDE DEF Good
  <2> QED BY <1>1, <1>2, Counting
<1>4. PICK k \in S : k \in Nat
  OBVIOUS
<1>5. k \in Good
  BY <1>3, <1>4
<1> QED BY <1>4, <1>5

LEMMA LastNotNearer ==
  ASSUME HasPlaces(GatewayRow), NEW p, p.at \in Int, DOMAIN GatewayRow # {}, LastGateway(p).distance >= 0
  PROVE  Distance(p.at, GatewayRow[NearestGateway(p)].at) <= LastGateway(p).distance
<1> DEFINE known == {i \in DOMAIN GatewayRow : GatewayRow[i].id = p.gateway}
           first == CHOOSE i \in known : \A j \in known : i <= j
<1>1. p.gateway # NoGatewayId /\ known # {} /\ LastGateway(p).distance = Distance(p.at, GatewayRow[first].at)
  BY DEF LastGateway
<1>2. first \in DOMAIN GatewayRow
  <2>1. DOMAIN GatewayRow = 1 .. Len(GatewayRow)
    BY ListLength DEF HasPlaces
  <2>2. known \in SUBSET Nat
    BY <2>1
  <2>3. \E i \in known : \A j \in known : i <= j
    <3> HIDE DEF known
    <3> QED BY <1>1, <2>2, LeastOne
  <2> QED BY <2>3
<1> QED BY <1>1, <1>2, NearestIsNearest

-----------------------------------------------------------------------------
(* The box the map is fitted to.                                            *)

Below(list, a) == {i \in DOMAIN list : list[i].at < a}
NotAbove(list, a) == {i \in DOMAIN list : list[i].at <= a}

\* The k-th of the places in their order.
LEMMA KthPlace ==
  ASSUME NEW list, HasPlaces(list), NEW k \in DOMAIN list
  PROVE  /\ SortedPlaces(list)[k] \in Int
         /\ \A a \in Int : IsFiniteSet(Below(list, a)) /\ IsFiniteSet(NotAbove(list, a))
         /\ Cardinality(Below(list, SortedPlaces(list)[k])) < k
         /\ Cardinality(NotAbove(list, SortedPlaces(list)[k])) >= k
<1> DEFINE n == Len(list)
           B == {p \in (1 .. n) \X (1 .. n) :
                   \/ list[p[1]].at < list[p[2]].at
                   \/ (list[p[1]].at = list[p[2]].at /\ p[1] <= p[2])}
           V == {list[i].at : i \in DOMAIN list}
<1>1. DOMAIN list = 1 .. n /\ n \in Nat
  BY ListLength DEF HasPlaces
<1>2. \A i \in 1 .. n : list[i].at \in Int
  BY <1>1 DEF HasPlaces
<1> DEFINE chosen == CHOOSE a \in V : /\ Cardinality(Below(list, a)) < k
                                      /\ Cardinality(NotAbove(list, a)) >= k
<1>3. SortedPlaces(list)[k] = chosen
  BY DEF SortedPlaces, Below, NotAbove
<1> HIDE DEF n
<1>4. \A i, j \in 1 .. n :
        (<<i, j>> \in B) <=> \/ list[i].at < list[j].at
                            \/ (list[i].at = list[j].at /\ i <= j)
  OBVIOUS
<1> HIDE DEF B
<1>5. TotalOrder(n, B)
  BY <1>1, <1>2, <1>4 DEF TotalOrder
<1>6. k \in 1 .. n /\ IsFiniteSet(1 .. n)
  BY <1>1, FS_Interval
<1>7. PICK i \in 1 .. n : RankIn(n, B, i) = k
  BY <1>1, <1>5, <1>6, EachRanked
<1> DEFINE a == list[i].at
<1>8. \A b \in Int : IsFiniteSet(Below(list, b)) /\ IsFiniteSet(NotAbove(list, b))
  <2> TAKE b \in Int
  <2>1. Below(list, b) \in SUBSET (1 .. n) /\ NotAbove(list, b) \in SUBSET (1 .. n)
    BY <1>1 DEF Below, NotAbove
  <2> QED BY <1>6, <2>1, FS_Subset
<1> DEFINE d == DownTo(n, B, i)
<1>9. a \in Int /\ a \in V
  BY <1>1, <1>2
<1>10. d \in SUBSET (1 .. n) /\ i \in d /\ Cardinality(d) = k
  BY <1>5, <1>7 DEF DownTo, RankIn, TotalOrder
<1>11. Below(list, a) \in SUBSET (d \ {i})
  BY <1>1, <1>2, <1>4 DEF Below, DownTo
<1>12. d \in SUBSET NotAbove(list, a)
  BY <1>1, <1>2, <1>4 DEF NotAbove, DownTo
<1> HIDE DEF a, d, V
<1>13. IsFiniteSet(d) /\ IsFiniteSet(d \ {i}) /\ Cardinality(d \ {i}) = k - 1
  <2>1. IsFiniteSet(d)
    BY <1>6, <1>10, FS_Subset
  <2> QED BY <1>10, <2>1, FS_RemoveElement
<1>14. Cardinality(Below(list, a)) < k
  <2>1. Cardinality(Below(list, a)) <= k - 1
    BY <1>11, <1>13, FS_Subset
  <2>2. Cardinality(Below(list, a)) \in Nat
    BY <1>8, <1>9, FS_CardinalityType
  <2> QED BY <1>6, <2>1, <2>2
<1>15. Cardinality(NotAbove(list, a)) >= k
  BY <1>8, <1>9, <1>10, <1>12, FS_Subset, FS_CardinalityType
<1>16. chosen \in V /\ Cardinality(Below(list, chosen)) < k /\ Cardinality(NotAbove(list, chosen)) >= k
  BY <1>9, <1>14, <1>15
<1>17. \A b \in V : b \in Int
  BY <1>1, <1>2 DEF V
<1> QED BY <1>3, <1>8, <1>16, <1>17

\* A box leaves out no more than the cut on each side.
LEMMA BoxCut ==
  ASSUME NEW list, HasPlaces(list), NEW trim \in BOOLEAN, list # <<>>
  PROVE  /\ TrimmedBox(list, trim).from \in Int /\ TrimmedBox(list, trim).to \in Int
         /\ TrimmedBox(list, trim).from <= TrimmedBox(list, trim).to
         /\ \A i \in DOMAIN list : ~trim => /\ TrimmedBox(list, trim).from <= list[i].at
                                            /\ list[i].at <= TrimmedBox(list, trim).to
         /\ Cardinality(Below(list, TrimmedBox(list, trim).from)) * TrimPart <= Len(list)
         /\ Cardinality({i \in DOMAIN list : list[i].at > TrimmedBox(list, trim).to}) * TrimPart <= Len(list)
         /\ Len(list) < TrimFrom =>
              /\ Below(list, TrimmedBox(list, trim).from) = {}
              /\ {i \in DOMAIN list : list[i].at > TrimmedBox(list, trim).to} = {}
<1> DEFINE n == Len(list)
           c == Cut(list, trim)
           lo == SortedPlaces(list)[1 + c]
           hi == SortedPlaces(list)[n - c]
           above == {i \in DOMAIN list : list[i].at > hi}
<1>0. TrimFrom \in Nat \ {0} /\ TrimPart \in Nat \ {0} /\ TrimPart > 2
  <2>1. {RoundTo, TrimFrom, TrimPart} \subseteq Nat \ {0} /\ TrimPart > 2
    BY ReachAssumption
  <2> QED BY <2>1
<1>1. DOMAIN list = 1 .. n /\ n \in Nat /\ n # 0
  <2>1. DOMAIN list = 1 .. n /\ n \in Nat
    BY ListLength DEF HasPlaces
  <2>2. n # 0
    <3>1. PICK m \in Nat : \E S : list \in [1 .. m -> S]
      BY DEF HasPlaces, IsList
    <3>2. PICK S : list \in [1 .. m -> S]
      BY <3>1
    <3>3. list \in Seq(S) /\ Len(list) = m
      BY <3>2
    <3> QED BY <3>3, EmptySeq
  <2> QED BY <2>1, <2>2
<1>2. TrimmedBox(list, trim) = [from |-> lo, to |-> hi]
  BY DEF TrimmedBox
<1>3. /\ c \in Nat /\ c * TrimPart <= n /\ 3 * c <= n
      /\ ~trim \/ n < TrimFrom => c = 0
  <2>1. CASE trim /\ n >= TrimFrom
    <3>1. c = n \div TrimPart
      BY <2>1 DEF Cut
    <3>2. c \in Nat /\ c * TrimPart <= n
      <4> HIDE DEF n, c
      <4> QED BY <1>0, <1>1, <3>1, Divided
    <3> HIDE DEF n, c
    <3>3. 3 * c <= TrimPart * c
      BY <1>0, <3>2, TimesGrows
    <3>4. TrimPart * c = c * TrimPart
      BY <1>0, <3>2
    <3>5. c * TrimPart \in Nat
      BY <1>0, <3>2
    <3> QED BY <1>0, <1>1, <2>1, <3>2, <3>3, <3>4, <3>5
  <2>2. CASE ~ (trim /\ n >= TrimFrom)
    <3>1. c = 0
      BY <2>2 DEF Cut
    <3> HIDE DEF c
    <3> QED BY <1>0, <1>1, <3>1
  <2> QED BY <2>1, <2>2
<1> HIDE DEF c, n
<1>4. 1 + c \in 1 .. n /\ n - c \in 1 .. n /\ c < n - c
  BY <1>1, <1>3
<1> DEFINE j == 1 + c
           k == n - c
<1>5. j \in DOMAIN list /\ k \in DOMAIN list
  BY <1>1, <1>4
<1> HIDE DEF j, k
<1>6. /\ SortedPlaces(list)[j] \in Int
      /\ Cardinality(Below(list, SortedPlaces(list)[j])) < j
      /\ \A a \in Int : IsFiniteSet(Below(list, a)) /\ IsFiniteSet(NotAbove(list, a))
  BY <1>5, KthPlace
<1>7. /\ SortedPlaces(list)[k] \in Int
      /\ Cardinality(NotAbove(list, SortedPlaces(list)[k])) >= k
  BY <1>5, KthPlace
<1>8. /\ lo \in Int /\ hi \in Int
      /\ Cardinality(Below(list, lo)) < 1 + c /\ Cardinality(NotAbove(list, hi)) >= n - c
  BY <1>6, <1>7 DEF j, k
<1> HIDE DEF lo, hi
<1>9. /\ IsFiniteSet(Below(list, lo)) /\ Cardinality(Below(list, lo)) \in Nat
      /\ IsFiniteSet(NotAbove(list, hi)) /\ Cardinality(NotAbove(list, hi)) \in Nat
  BY <1>6, <1>8, FS_CardinalityType
<1>10. lo <= hi
  <2> SUFFICES ASSUME hi < lo PROVE FALSE
    BY <1>8
  <2>1. NotAbove(list, hi) \in SUBSET Below(list, lo)
    BY <1>8 DEF NotAbove, Below, HasPlaces
  <2>2. Cardinality(NotAbove(list, hi)) <= Cardinality(Below(list, lo))
    BY <1>9, <2>1, FS_Subset
  <2> QED BY <1>1, <1>3, <1>4, <1>8, <1>9, <2>2
<1>11. /\ IsFiniteSet(1 .. n) /\ Cardinality(1 .. n) = n
  BY <1>1, FS_Interval
<1>12. IsFiniteSet(above) /\ Cardinality(above) \in Nat /\ Cardinality(above) <= c
  <2>1. above = (1 .. n) \ NotAbove(list, hi)
    BY <1>1, <1>8 DEF NotAbove, HasPlaces
  <2>2. NotAbove(list, hi) \in SUBSET (1 .. n)
    BY <1>1 DEF NotAbove
  <2>3. IsFiniteSet(above)
    <3>1. above \in SUBSET (1 .. n)
      BY <1>1
    <3> HIDE DEF above
    <3> QED BY <1>11, <3>1, FS_Subset
  <2>4. Cardinality((1 .. n) \ NotAbove(list, hi)) = Cardinality(1 .. n) - Cardinality((1 .. n) \cap NotAbove(list, hi))
    BY <1>9, <1>11, FS_Difference
  <2>5. (1 .. n) \cap NotAbove(list, hi) = NotAbove(list, hi)
    BY <2>2
  <2>6. Cardinality(above) = n - Cardinality(NotAbove(list, hi))
    BY <1>11, <2>1, <2>4, <2>5
  <2> HIDE DEF above
  <2>7. Cardinality(above) \in Nat
    BY <2>3, FS_CardinalityType
  <2> QED BY <1>1, <1>3, <1>8, <1>9, <2>3, <2>6, <2>7
<1> HIDE DEF above
<1>13. Cardinality(Below(list, lo)) <= c
  BY <1>3, <1>8, <1>9
<1>14. ASSUME NEW x \in Nat, x <= c
       PROVE  x * TrimPart <= n
  <2>1. x * TrimPart <= c * TrimPart /\ x * TrimPart \in Nat /\ c * TrimPart \in Nat
    BY <1>0, <1>3, <1>14, TimesGrows
  <2> QED BY <1>1, <1>3, <2>1
<1>15. ASSUME c = 0
       PROVE  Below(list, lo) = {} /\ above = {}
  <2>1. Cardinality(Below(list, lo)) = 0 /\ Cardinality(above) = 0
    BY <1>9, <1>12, <1>13, <1>15
  <2> QED BY <1>9, <1>12, <2>1, FS_EmptySet
<1>16. ASSUME NEW i \in DOMAIN list, c = 0
       PROVE  lo <= list[i].at /\ list[i].at <= hi
  <2>1. i \notin Below(list, lo) /\ i \notin above
    BY <1>15, <1>16
  <2> QED BY <1>8, <2>1 DEF Below, above, HasPlaces
<1>17. Cardinality(Below(list, lo)) * TrimPart <= n /\ Cardinality(above) * TrimPart <= n
  BY <1>9, <1>12, <1>13, <1>14
<1>18. TrimmedBox(list, trim).from = lo /\ TrimmedBox(list, trim).to = hi
  BY <1>2
<1> DEFINE f == TrimmedBox(list, trim).from
           t == TrimmedBox(list, trim).to
<1>19. f = lo /\ t = hi
  BY <1>18
<1>20. {i \in DOMAIN list : list[i].at > t} = above
  BY <1>19 DEF above
<1> HIDE DEF f, t
<1>21. /\ f \in Int /\ t \in Int /\ f <= t
       /\ \A i \in DOMAIN list : ~trim => f <= list[i].at /\ list[i].at <= t
       /\ Cardinality(Below(list, f)) * TrimPart <= n
       /\ Cardinality({i \in DOMAIN list : list[i].at > t}) * TrimPart <= n
       /\ n < TrimFrom => Below(list, f) = {} /\ {i \in DOMAIN list : list[i].at > t} = {}
  BY <1>3, <1>8, <1>10, <1>15, <1>16, <1>17, <1>19, <1>20
<1> QED BY <1>21 DEF f, t, n

\* The union of two boxes holds each of them that there is.
LEMMA FittedHolds ==
  ASSUME HasPlaces(reachPoints), HasPlaces(GatewayRow), NEW trim \in BOOLEAN,
         NEW list \in {reachPoints, GatewayRow}, list # <<>>
  PROVE  /\ FittedBox(trim).from \in Int /\ FittedBox(trim).from <= TrimmedBox(list, trim).from
         /\ FittedBox(trim).to \in Int /\ TrimmedBox(list, trim).to <= FittedBox(trim).to
<1> DEFINE a == TrimmedBox(reachPoints, trim)
           b == TrimmedBox(GatewayRow, trim)
           u == FittedBox(trim)
<1>1. u = UnionBox(a, b) /\ NoBox.from = 1 /\ NoBox.to = 0
  BY DEF FittedBox, NoBox
<1>2. /\ reachPoints = <<>> => a = NoBox
      /\ GatewayRow = <<>> => b = NoBox
  BY DEF TrimmedBox
<1>3. /\ reachPoints # <<>> => a.from \in Int /\ a.to \in Int /\ a.from <= a.to
      /\ GatewayRow # <<>> => b.from \in Int /\ b.to \in Int /\ b.from <= b.to
  BY BoxCut
<1> HIDE DEF a, b, u
<1>4. /\ reachPoints # <<>> => a # NoBox
      /\ GatewayRow # <<>> => b # NoBox
  BY <1>1, <1>3
<1>5. CASE reachPoints = <<>>
  <2>1. list = GatewayRow /\ u = b
    BY <1>1, <1>2, <1>5 DEF UnionBox
  <2> QED BY <1>3, <2>1 DEF b, u
<1>6. CASE GatewayRow = <<>>
  <2>1. list = reachPoints /\ u = a
    BY <1>1, <1>2, <1>4, <1>6 DEF UnionBox
  <2> QED BY <1>3, <2>1 DEF a, u
<1>7. CASE reachPoints # <<>> /\ GatewayRow # <<>>
  <2>1. u.from = Smaller(a.from, b.from) /\ u.to = Larger(a.to, b.to)
    BY <1>1, <1>4, <1>7 DEF UnionBox
  <2>2. /\ u.from \in Int /\ u.from <= a.from /\ u.from <= b.from
        /\ u.to \in Int /\ a.to <= u.to /\ b.to <= u.to
    BY <1>3, <1>7, <2>1 DEF Smaller, Larger
  <2> QED BY <2>2 DEF a, b, u
<1> QED BY <1>5, <1>6, <1>7

\* What the map leaves out of a list.
LEMMA FittedCut ==
  ASSUME HasPlaces(reachPoints), HasPlaces(GatewayRow), NEW trim \in BOOLEAN,
         NEW list \in {reachPoints, GatewayRow}
  PROVE  LET before == {i \in DOMAIN list : list[i].at < FittedBox(trim).from}
             after == {i \in DOMAIN list : list[i].at > FittedBox(trim).to}
         IN /\ Cardinality(before) * TrimPart <= Len(list)
            /\ Cardinality(after) * TrimPart <= Len(list)
            /\ ~trim \/ Len(list) < TrimFrom => before = {} /\ after = {}
<1> DEFINE u == FittedBox(trim)
           own == TrimmedBox(list, trim)
           before == {i \in DOMAIN list : list[i].at < u.from}
           after == {i \in DOMAIN list : list[i].at > u.to}
           low == Below(list, own.from)
           high == {i \in DOMAIN list : list[i].at > own.to}
<1>0. TrimPart \in Nat \ {0}
  <2>1. {RoundTo, TrimFrom, TrimPart} \subseteq Nat \ {0}
    BY ReachAssumption
  <2> QED BY <2>1
<1>1. HasPlaces(list) /\ DOMAIN list = 1 .. Len(list) /\ Len(list) \in Nat
  BY ListLength DEF HasPlaces
<1>2. CASE list = <<>>
  <2>1. DOMAIN list = {} /\ Len(list) = 0
    BY <1>2
  <2>2. before = {} /\ after = {} /\ Cardinality({}) = 0
    BY <2>1, FS_EmptySet
  <2> HIDE DEF before, after
  <2>3. /\ Cardinality(before) * TrimPart <= Len(list)
        /\ Cardinality(after) * TrimPart <= Len(list)
    BY <1>0, <2>1, <2>2
  <2> QED BY <2>2, <2>3 DEF before, after, u
<1>3. CASE list # <<>>
  <2>1. /\ own.from \in Int /\ own.to \in Int
        /\ Cardinality(low) * TrimPart <= Len(list) /\ Cardinality(high) * TrimPart <= Len(list)
        /\ Len(list) < TrimFrom => low = {} /\ high = {}
        /\ \A i \in DOMAIN list : ~trim => own.from <= list[i].at /\ list[i].at <= own.to
    BY <1>1, <1>3, BoxCut
  <2>2. u.from \in Int /\ u.from <= own.from /\ u.to \in Int /\ own.to <= u.to
    BY <1>3, FittedHolds
  <2> HIDE DEF u, own
  <2>3. \A i \in DOMAIN list : list[i].at \in Int
    BY <1>1 DEF HasPlaces
  <2>4. before \in SUBSET low /\ after \in SUBSET high /\ low \in SUBSET DOMAIN list /\ high \in SUBSET DOMAIN list
    BY <2>1, <2>2, <2>3 DEF Below
  <2>5. ~trim => low = {} /\ high = {}
    BY <2>1, <2>3 DEF Below
  <2> HIDE DEF before, after, low, high
  <2>6. IsFiniteSet(low) /\ IsFiniteSet(high)
    <3>1. IsFiniteSet(1 .. Len(list))
      BY <1>1, FS_Interval
    <3> QED BY <1>1, <2>4, <3>1, FS_Subset
  <2>7. /\ Cardinality(before) \in Nat /\ Cardinality(low) \in Nat /\ Cardinality(before) <= Cardinality(low)
        /\ Cardinality(after) \in Nat /\ Cardinality(high) \in Nat /\ Cardinality(after) <= Cardinality(high)
    BY <2>4, <2>6, FS_Subset, FS_CardinalityType
  <2>8. ASSUME NEW x \in Nat, NEW y \in Nat, x <= y, y * TrimPart <= Len(list)
        PROVE  x * TrimPart <= Len(list)
    <3>1. x * TrimPart <= y * TrimPart /\ x * TrimPart \in Nat /\ y * TrimPart \in Nat
      BY <1>0, <2>8, TimesGrows
    <3> QED BY <1>1, <2>8, <3>1
  <2>9. /\ Cardinality(before) * TrimPart <= Len(list)
        /\ Cardinality(after) * TrimPart <= Len(list)
        /\ ~trim \/ Len(list) < TrimFrom => before = {} /\ after = {}
    BY <2>1, <2>4, <2>5, <2>7, <2>8
  <2> QED BY <2>9 DEF before, after, u
<1> QED BY <1>2, <1>3

LEMMA PlacesAreTold ==
  ASSUME HasPlaces(reachPoints), HasPlaces(GatewayRow)
  PROVE  PlacesTold
<1>1. ASSUME NEW i \in DOMAIN reachPoints, NEW p, p = reachPoints[i]
      PROVE  /\ \A g \in DOMAIN GatewayRow :
                  Distance(p.at, GatewayRow[NearestGateway(p)].at) <= Distance(p.at, GatewayRow[g].at)
             /\ LastGateway(p).distance >= 0 =>
                  Distance(p.at, GatewayRow[NearestGateway(p)].at) <= LastGateway(p).distance
  <2>1. p.at \in Int
    BY <1>1 DEF HasPlaces
  <2>2. CASE DOMAIN GatewayRow # {}
    BY <2>1, <2>2, NearestIsNearest, LastNotNearer
  <2>3. CASE DOMAIN GatewayRow = {}
    <3>1. LastGateway(p).distance = -1
      BY <2>3 DEF LastGateway
    <3> QED BY <2>3, <3>1
  <2> QED BY <2>2, <2>3
<1>2. \A i \in DOMAIN reachPoints :
        /\ \A g \in DOMAIN GatewayRow :
             Distance(reachPoints[i].at, GatewayRow[NearestGateway(reachPoints[i])].at)
               <= Distance(reachPoints[i].at, GatewayRow[g].at)
        /\ LastGateway(reachPoints[i]).distance >= 0 =>
             Distance(reachPoints[i].at, GatewayRow[NearestGateway(reachPoints[i])].at)
               <= LastGateway(reachPoints[i]).distance
  BY <1>1
<1> QED BY <1>2, FittedCut DEF PlacesTold

ReachInv ==
  /\ HasPlaces(reachPoints) /\ HasPlaces(GatewayRow)
  /\ reachGateway \in DOMAIN GatewayRow /\ reachRadius \in Int

LEMMA PanelIsTold == ReachInv => ReachTold /\ PlacesTold
BY PanelTold, PlacesAreTold DEF ReachInv

LEMMA RadiusStored ==
  ASSUME reachGateway \in DOMAIN GatewayRow
  PROVE  StoredRadius(OpenGateway) \in Nat
<1>1. OpenGateway \in Members(GatewayRow)
  BY DEF OpenGateway, Members
<1>2. OpenGateway.radius \in Nat /\ {MinRadius, Nudge, LeastMax, UsualRadius} \subseteq Nat
  BY <1>1, ReachAssumption
<1>3. UsualRadius \in Nat
  BY <1>2
<1> QED BY <1>2, <1>3 DEF StoredRadius

LEMMA ReachInitially == ReachInit => ReachInv
<1> SUFFICES ASSUME ReachInit PROVE ReachInv
  OBVIOUS
<1>1. HasPlaces(reachPoints) /\ HasPlaces(GatewayRow)
  BY ListsPlaced DEF ReachInit
<1>2. reachGateway \in DOMAIN GatewayRow /\ reachRadius = StoredRadius(OpenGateway)
  BY DEF ReachInit
<1> QED BY <1>1, <1>2, RadiusStored DEF ReachInv

LEMMA ReachKept ==
  ASSUME ReachInv, [ReachNext]_reachVars
  PROVE  ReachInv'
<1>1. StoredRadius(OpenGateway) \in Nat
  BY RadiusStored DEF ReachInv
<1>2. MinRadius \in Nat /\ Nudge \in Nat /\ LeastMax \in Nat /\ RoundTo \in Nat \ {0}
  <2>1. {MinRadius, Nudge, LeastMax, UsualRadius} \subseteq Nat /\ {RoundTo, TrimFrom, TrimPart} \subseteq Nat \ {0}
    BY ReachAssumption
  <2> QED BY <2>1
<1>3. MaxRadius(OpenGateway) \in Int
  <2> DEFINE x == 2 * StoredRadius(OpenGateway) + RoundTo - 1
             y == x \div RoundTo
  <2>1. x \in Nat
    BY <1>1, <1>2
  <2>2. y \in Nat
    <3> HIDE DEF x
    <3> QED BY <1>2, <2>1, Divided
  <2>3. MaxRadius(OpenGateway) = Larger(LeastMax, y * RoundTo)
    BY DEF MaxRadius
  <2> HIDE DEF y
  <2>4. y * RoundTo \in Int
    BY <1>2, <2>2
  <2> QED BY <1>2, <2>3, <2>4 DEF Larger
<1>4. ASSUME NEW x \in Int, SetRadius(x)
      PROVE  ReachInv'
  <2>1. reachRadius' \in Int
    BY <1>2, <1>3, <1>4 DEF SetRadius, ClampRadius, Smaller, Larger
  <2>2. UNCHANGED <<reachPoints, reachGateway>>
    BY <1>4 DEF SetRadius
  <2> QED BY <2>1, <2>2 DEF ReachInv, HasPlaces
<1>5. CASE UNCHANGED reachVars
  BY <1>5 DEF reachVars, ReachInv, HasPlaces
<1>6. CASE ShrinkRadius \/ GrowRadius
  <2>1. reachRadius - Nudge \in Int /\ reachRadius + Nudge \in Int
    BY <1>2 DEF ReachInv
  <2> QED BY <1>4, <1>6, <2>1 DEF ShrinkRadius, GrowRadius
<1>7. CASE ResetRadius
  BY <1>1, <1>4, <1>7 DEF ResetRadius
<1>8. ASSUME NEW x \in 0 .. (MaxRadius(OpenGateway) + 1), TypeRadius(x)
      PROVE  ReachInv'
  <2>1. x \in Int
    BY <1>3
  <2> QED BY <1>4, <1>8, <2>1 DEF TypeRadius
<1> QED BY <1>5, <1>6, <1>7, <1>8 DEF ReachNext

\* (coverage.ts:46, networkModel.ts:57) Whatever gateway is open and however its radius is
\* moved: the panel's counts are those of the meters in the circle, the nearest and the
\* farthest are the gateway's own, no gateway is nearer to a meter than its nearest, and
\* the map leaves out no more than the outer part of a long list.
THEOREM ReachIsTold == ReachInit /\ [][ReachNext]_reachVars => [](ReachTold /\ PlacesTold)
BY ReachInitially, ReachKept, PanelIsTold, PTL
=============================================================================
