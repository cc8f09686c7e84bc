------------------------ MODULE GatewayPlanningProofs ------------------------
(***************************************************************************)
(* What the planners of gateways and the caches around them promise, for   *)
(* every map, every input and every bound.                                 *)
(*                                                                         *)
(* New gateways: the count of who reaches a meter is that of the gateways  *)
(* in place, greedy and local search pick what trying everything would     *)
(* pick, and the report adds up.  Moves and removals; the answers and      *)
(* plans the server keeps; and the planners and caches as they are run     *)
(* together.                                                               *)
(*                                                                         *)
(* The lemmas come first: induction over finite sets and numbers (stated   *)
(* with a set where others have an operator), what a gateway reaches and   *)
(* what placing and lifting one does to the coverage, and what the lists   *)
(* of gateways count.                                                      *)
(***************************************************************************)
EXTENDS MCGatewayPlanning, FiniteSetTheorems, WellFoundedInduction, SequenceTheorems, TLAPS

-----------------------------------------------------------------------------
(* Induction over finite sets and over the numbers                         *)

\* A set of subsets that is not empty has one that contains no other.
LEMMA SmallestSubset ==
  ASSUME NEW S, IsFiniteSet(S), NEW F \in SUBSET (SUBSET S), F # {}
  PROVE  \E A \in F : \A B \in F : B \subseteq A => B = A
<1>1. IsWellFoundedOn(StrictSubsetOrdering(S), SUBSET S)
  BY FS_StrictSubsetOrderingWellFounded, FS_FiniteSubsetsOfFinite
<1> HIDE DEF StrictSubsetOrdering
<1>2. PICK A \in F : \A B \in F : ~ (<<B, A>> \in StrictSubsetOrdering(S))
  BY <1>1, WFMin
<1>3. ASSUME NEW B \in F, B \subseteq A
      PROVE  B = A
  BY <1>2, <1>3 DEF StrictSubsetOrdering
<1> QED BY <1>2, <1>3

\* What holds of the empty set, and of a set with one more element, holds of every
\* subset of a finite set.
LEMMA SubsetInduction ==
  ASSUME NEW S, IsFiniteSet(S), NEW Good, {} \in Good,
         \A T \in SUBSET S : \A x \in S \ T : T \in Good => T \cup {x} \in Good
  PROVE  \A T \in SUBSET S : T \in Good
<1> DEFINE Bad == {T \in SUBSET S : T \notin Good}
<1> SUFFICES ASSUME Bad # {} PROVE FALSE
  OBVIOUS
<1>0. Bad \in SUBSET (SUBSET S)
  OBVIOUS
<1>1. PICK A \in Bad : \A B \in Bad : B \subseteq A => B = A
  <2> HIDE DEF Bad
  <2> QED BY <1>0, SmallestSubset
<1>2. PICK x \in A : TRUE
  OBVIOUS
<1>3. A \ {x} \in Good
  BY <1>1, <1>2
<1>4. (A \ {x}) \cup {x} = A /\ x \in S \ (A \ {x}) /\ A \ {x} \in SUBSET S
  BY <1>2
<1> QED BY <1>3, <1>4

\* Of the elements of a finite set one beats all the others, when of any two one beats
\* the other and beating is transitive.
LEMMA Champion ==
  ASSUME NEW S, IsFiniteSet(S), S # {}, NEW R0,
         \A x, y, z \in S : <<x, y>> \in R0 /\ <<y, z>> \in R0 => <<x, z>> \in R0,
         \A x, y \in S : x = y \/ <<x, y>> \in R0 \/ <<y, x>> \in R0
  PROVE  \E x \in S : \A y \in S \ {x} : <<x, y>> \in R0
<1> DEFINE Good == {T \in SUBSET S : T # {} => \E x \in T : \A y \in T \ {x} : <<x, y>> \in R0}
<1>1. {} \in Good
  OBVIOUS
<1>2. ASSUME NEW T \in SUBSET S, NEW a \in S \ T, T \in Good
      PROVE  T \cup {a} \in Good
  <2>1. CASE T = {}
    BY <2>1
  <2>2. CASE T # {}
    <3>1. PICK x \in T : \A y \in T \ {x} : <<x, y>> \in R0
      BY <1>2, <2>2
    <3>2. CASE <<x, a>> \in R0
      <4>1. \A y \in (T \cup {a}) \ {x} : <<x, y>> \in R0
        BY <3>1, <3>2
      <4> QED BY <4>1
    <3>3. CASE <<a, x>> \in R0
      <4>1. \A y \in (T \cup {a}) \ {a} : <<a, y>> \in R0
        BY <3>1, <3>3
      <4> QED BY <4>1
    <3>4. x # a
      BY <1>2
    <3> QED BY <3>2, <3>3, <3>4
  <2> QED BY <2>1, <2>2
<1> HIDE DEF Good
<1>3. S \in Good
  BY <1>1, <1>2, SubsetInduction
<1> QED BY <1>3 DEF Good

\* Induction over the numbers.
LEMMA NumberInduction ==
  ASSUME NEW Good, 0 \in Good, \A n \in Nat : n \in Good => n + 1 \in Good
  PROVE  \A n \in Nat : n \in Good
<1> SUFFICES ASSUME NEW n \in Nat, n \notin Good PROVE FALSE
  OBVIOUS
<1> DEFINE All == 0 .. n
           Bad == {0 .. k : k \in {k \in All : k \notin Good}}
<1>1. IsFiniteSet(All)
  BY FS_Interval
<1>2. Bad \in SUBSET (SUBSET All) /\ Bad # {}
  OBVIOUS
<1> HIDE DEF Bad, All
<1>3. PICK A \in Bad : \A B \in Bad : B \subseteq A => B = A
  BY <1>1, <1>2, SmallestSubset
<1>4. PICK k \in 0 .. n : k \notin Good /\ A = 0 .. k
  BY DEF Bad, All
<1>5. k # 0 /\ k - 1 \in Nat /\ k - 1 \in 0 .. n
  BY <1>4
<1>6. k - 1 \notin Good
  BY <1>4, <1>5
<1>7. 0 .. (k - 1) \in Bad
  BY <1>5, <1>6 DEF Bad, All
<1>8. 0 .. (k - 1) \subseteq A /\ k \in A /\ k \notin 0 .. (k - 1)
  BY <1>4, <1>5
<1> QED BY <1>3, <1>7, <1>8

-----------------------------------------------------------------------------
(* Reach, gain and coverage                                                *)

Counts == [Meter -> Nat]

LEMMA ReachFinite ==
  ASSUME NEW s \in Spot
  PROVE  /\ Reach[s] \subseteq Meter
         /\ IsFiniteSet(Reach[s])
         /\ IsFiniteSet(Meter)
<1>1. Reach[s] \subseteq Meter
  BY DEF Reach, InRange
<1> QED BY <1>1, SpaceAssumption, FS_Subset

LEMMA CoveredFinite ==
  ASSUME NEW cv
  PROVE  /\ IsFiniteSet({m \in Meter : cv[m] # 0})
         /\ Covered(cv) \in Nat
<1>1. IsFiniteSet({m \in Meter : cv[m] # 0})
  BY SpaceAssumption, FS_Subset
<1> QED BY <1>1, FS_CardinalityType DEF Covered

\* What a spot newly reaches, or alone reaches, is a number of meters.
LEMMA GainBounds ==
  ASSUME NEW cv, NEW s \in Spot
  PROVE  /\ FreeGain(cv, s) \in Nat /\ FreeGain(cv, s) <= N /\ N \in Nat
         /\ OnlyReach(cv, s) \in Nat
         /\ FreeGain(cv, s) <= Cardinality(Reach[s]) /\ Cardinality(Reach[s]) \in Nat
<1>1. /\ {m \in Reach[s] : cv[m] = 0} \subseteq Reach[s]
      /\ {m \in Reach[s] : cv[m] = 1} \subseteq Reach[s]
      /\ {m \in Reach[s] : cv[m] = 0} \subseteq Meter
  BY ReachFinite
<1>2. IsFiniteSet(Reach[s]) /\ IsFiniteSet(Meter)
  BY ReachFinite
<1>3. /\ IsFiniteSet({m \in Reach[s] : cv[m] = 0})
      /\ IsFiniteSet({m \in Reach[s] : cv[m] = 1})
      /\ Cardinality({m \in Reach[s] : cv[m] = 0}) <= Cardinality(Reach[s])
      /\ Cardinality({m \in Reach[s] : cv[m] = 0}) <= Cardinality(Meter)
  BY <1>1, <1>2, FS_Subset
<1> QED BY <1>2, <1>3, FS_CardinalityType DEF FreeGain, OnlyReach, N

\* A gateway that is put down covers what it newly reaches, and nothing else.
LEMMA PlacedCovers ==
  ASSUME NEW cv \in Counts, NEW s \in Spot
  PROVE  /\ Placed(cv, s) \in Counts
         /\ Covered(Placed(cv, s)) = Covered(cv) + FreeGain(cv, s)
<1> DEFINE before == {m \in Meter : cv[m] # 0}
           after  == {m \in Meter : Placed(cv, s)[m] # 0}
           new    == {m \in Reach[s] : cv[m] = 0}
<1>1. Reach[s] \subseteq Meter /\ IsFiniteSet(Meter)
  BY ReachFinite
<1>2. Placed(cv, s) \in Counts
  BY DEF Placed, Counts
<1>3. after = before \cup new /\ before \cap new = {}
  BY <1>1 DEF Placed, Counts
<1>4. IsFiniteSet(before) /\ IsFiniteSet(new)
  BY <1>1, FS_Subset
<1>5. Cardinality(after) = Cardinality(before) + Cardinality(new)
  <2>1. Cardinality(before \cup new)
          = Cardinality(before) + Cardinality(new) - Cardinality(before \cap new)
    BY <1>4, FS_Union
  <2>2. Cardinality(before \cap new) = 0
    BY <1>3, FS_EmptySet
  <2>3. Cardinality(before) \in Nat /\ Cardinality(new) \in Nat
    BY <1>4, FS_CardinalityType
  <2> HIDE DEF before, after, new
  <2> QED BY <1>3, <2>1, <2>2, <2>3
<1> QED BY <1>2, <1>5 DEF Covered, FreeGain

\* A gateway that is lifted uncovers what it alone reached, which is what it would
\* newly reach from then on.
LEMMA LiftedCovers ==
  ASSUME NEW cv \in Counts, NEW s \in Spot, \A m \in Reach[s] : cv[m] > 0
  PROVE  /\ Lifted(cv, s) \in Counts
         /\ Covered(Lifted(cv, s)) = Covered(cv) - OnlyReach(cv, s)
         /\ FreeGain(Lifted(cv, s), s) = OnlyReach(cv, s)
         /\ Placed(Lifted(cv, s), s) = cv
<1>1. Reach[s] \subseteq Meter
  BY ReachFinite
<1>2. Lifted(cv, s) \in Counts
  BY <1>1 DEF Lifted, Counts
<1>3. Placed(Lifted(cv, s), s) = cv
  BY <1>1 DEF Placed, Lifted, Counts
<1>4. {m \in Reach[s] : Lifted(cv, s)[m] = 0} = {m \in Reach[s] : cv[m] = 1}
  BY <1>1 DEF Lifted, Counts
<1>5. FreeGain(Lifted(cv, s), s) = OnlyReach(cv, s)
  BY <1>4 DEF FreeGain, OnlyReach
<1>6. Covered(cv) = Covered(Lifted(cv, s)) + OnlyReach(cv, s)
  BY <1>2, <1>3, <1>5, PlacedCovers
<1>7. Covered(cv) \in Nat /\ Covered(Lifted(cv, s)) \in Nat /\ OnlyReach(cv, s) \in Nat
  BY CoveredFinite, GainBounds
<1> QED BY <1>2, <1>3, <1>5, <1>6, <1>7

\* A finite set of numbers has a largest.
LEMMA Largest ==
  ASSUME NEW S \in SUBSET Int, IsFiniteSet(S), S # {}
  PROVE  \E x \in S : \A y \in S : y <= x
<1> DEFINE R0 == {p \in Int \X Int : p[2] <= p[1]}
<1>1. \A x, y, z \in S : <<x, y>> \in R0 /\ <<y, z>> \in R0 => <<x, z>> \in R0
  OBVIOUS
<1>2. \A x, y \in S : x = y \/ <<x, y>> \in R0 \/ <<y, x>> \in R0
  OBVIOUS
<1>3. \A x, y \in Int : <<x, y>> \in R0 => y <= x
  OBVIOUS
<1> HIDE DEF R0
<1>4. PICK x \in S : \A y \in S \ {x} : <<x, y>> \in R0
  BY <1>1, <1>2, Champion
<1>5. ASSUME NEW y \in S PROVE y <= x
  <2>1. CASE y = x
    BY <2>1
  <2>2. CASE y # x
    BY <1>3, <1>4, <2>2
  <2> QED BY <2>1, <2>2
<1> QED BY <1>5

-----------------------------------------------------------------------------
(* Distances.                                                              *)
LEMMA Root ==
  ASSUME NEW d \in Int, NEW r \in Nat, d * d <= r * r
  PROVE  d <= r
<1> SUFFICES ASSUME d > r PROVE FALSE
  OBVIOUS
<1>1. d * d > r * r
  OBVIOUS
<1> QED BY <1>1

\* Whoever is within r on a line is in the same stretch of length r or in the next.
LEMMA Stretches ==
  ASSUME NEW x \in Int, NEW y \in Int, NEW r \in Nat \ {0}, x - y <= r
  PROVE  (x \div r) - (y \div r) <= 1
<1> DEFINE a == x \div r
           b == y \div r
<1>1. /\ a \in Int /\ r * a <= x /\ x < r * a + r
      /\ b \in Int /\ r * b <= y /\ y < r * b + r
  OBVIOUS
<1> HIDE DEF a, b
<1>2. r * (a - b) = r * a - r * b
  BY <1>1
<1>3. a - b >= 2 => r * (a - b) >= r * 2
  BY <1>1
<1>4. a - b <= 1
  BY <1>1, <1>2, <1>3
<1> QED BY <1>4 DEF a, b

\* The block of cells holds all that is within the radius.
LEMMA ReachByDistance ==
  ASSUME NEW s \in Spot, NEW m \in Meter
  PROVE  m \in Reach[s] <=> Dist2(MeterAt[m], SpotAt[s]) <= R * R
<1> DEFINE p == MeterAt[m]
           q == SpotAt[s]
<1>1. p \in Int \X Int /\ q \in Int \X Int /\ R \in Nat \ {0}
  BY SpaceAssumption
<1> HIDE DEF p, q
<1>2. PICK px \in Int, py \in Int, qx \in Int, qy \in Int : p = <<px, py>> /\ q = <<qx, qy>>
  BY <1>1
<1>3. ASSUME Dist2(p, q) <= R * R
      PROVE  Cell(p) \in Block(q)
  <2>1. (px - qx) * (px - qx) + (py - qy) * (py - qy) <= R * R
    BY <1>2, <1>3 DEF Dist2
  <2>2. (px - qx) * (px - qx) >= 0 /\ (py - qy) * (py - qy) >= 0
    OBVIOUS
  <2>3. /\ (px - qx) * (px - qx) <= R * R /\ (qx - px) * (qx - px) <= R * R
        /\ (py - qy) * (py - qy) <= R * R /\ (qy - py) * (qy - py) <= R * R
    BY <1>1, <2>1, <2>2
  <2>4. px - qx <= R /\ qx - px <= R /\ py - qy <= R /\ qy - py <= R
    BY <1>1, <2>3, Root
  <2> DEFINE ax == px \div R
             ay == py \div R
             bx == qx \div R
             by == qy \div R
  <2>5. ax \in Int /\ ay \in Int /\ bx \in Int /\ by \in Int
    BY <1>1
  <2>6. ax - bx <= 1 /\ bx - ax <= 1 /\ ay - by <= 1 /\ by - ay <= 1
    BY <1>1, <2>4, Stretches
  <2>7. Cell(p) = <<ax, ay>> /\ Cell(q) = <<bx, by>>
    BY <1>2 DEF Cell
  <2> HIDE DEF ax, ay, bx, by
  <2>8. ax - bx \in -1 .. 1 /\ ay - by \in -1 .. 1
    BY <2>5, <2>6
  <2>9. <<ax, ay>> = <<bx + (ax - bx), by + (ay - by)>>
    BY <2>5
  <2> QED BY <2>7, <2>8, <2>9 DEF Block
<1>4. m \in Reach[s] <=> Cell(p) \in Block(q) /\ Dist2(p, q) <= R * R
  BY DEF Reach, InRange, p, q
<1> QED BY <1>3, <1>4 DEF p, q

\* No meter is in reach of two spots that are more than two radii apart.
LEMMA FarApart ==
  ASSUME NEW s \in Spot, NEW t \in Spot,
         ~ (Dist2(SpotAt[s], SpotAt[t]) <= (2 * R) * (2 * R))
  PROVE  Reach[s] \cap Reach[t] = {}
<1> SUFFICES ASSUME NEW m \in Reach[s] \cap Reach[t] PROVE FALSE
  OBVIOUS
<1>1. m \in Meter /\ R \in Int
  BY ReachFinite, SpaceAssumption
<1>2. Dist2(MeterAt[m], SpotAt[s]) <= R * R /\ Dist2(MeterAt[m], SpotAt[t]) <= R * R
  BY <1>1, ReachByDistance
<1> DEFINE o == MeterAt[m]
           p == SpotAt[s]
           q == SpotAt[t]
<1>3. o \in Int \X Int /\ p \in Int \X Int /\ q \in Int \X Int
  BY <1>1, SpaceAssumption
<1>4. Dist2(o, p) <= R * R /\ Dist2(o, q) <= R * R /\ ~ (Dist2(p, q) <= (2 * R) * (2 * R))
  BY <1>2
<1> HIDE DEF o, p, q
<1>5. PICK ox \in Int, oy \in Int : o = <<ox, oy>>
  BY <1>3
<1>6. PICK px \in Int, py \in Int : p = <<px, py>>
  BY <1>3
<1>7. PICK qx \in Int, qy \in Int : q = <<qx, qy>>
  BY <1>3
<1> DEFINE a == px - ox
           b == py - oy
           c == ox - qx
           d == oy - qy
<1>8. a \in Int /\ b \in Int /\ c \in Int /\ d \in Int
  OBVIOUS
<1>9. a * a + b * b <= R * R
  <2>1. (ox - px) * (ox - px) + (oy - py) * (oy - py) <= R * R
    BY <1>4, <1>5, <1>6 DEF Dist2
  <2>2. (ox - px) * (ox - px) = a * a /\ (oy - py) * (oy - py) = b * b
    OBVIOUS
  <2> QED BY <2>1, <2>2
<1>10. c * c + d * d <= R * R
  BY <1>4, <1>5, <1>7 DEF Dist2
<1>11. a + c = px - qx /\ b + d = py - qy
  OBVIOUS
<1> HIDE DEF a, b, c, d
<1>12. (a - c) * (a - c) >= 0 /\ (b - d) * (b - d) >= 0
  BY <1>8
<1>13. (a + c) * (a + c) + (a - c) * (a - c) = 2 * (a * a) + 2 * (c * c)
  BY <1>8
<1>14. (b + d) * (b + d) + (b - d) * (b - d) = 2 * (b * b) + 2 * (d * d)
  BY <1>8
<1>15. (2 * R) * (2 * R) = 4 * (R * R)
  BY <1>1
<1>16. (a + c) * (a + c) + (b + d) * (b + d) <= (2 * R) * (2 * R)
  BY <1>1, <1>8, <1>9, <1>10, <1>12, <1>13, <1>14, <1>15
<1>17. Dist2(p, q) = (a + c) * (a + c) + (b + d) * (b + d)
  BY <1>6, <1>7, <1>11 DEF Dist2
<1> QED BY <1>4, <1>16, <1>17

\* Fewer gateways over a meter leave more to be newly reached.
LEMMA GainFalls ==
  ASSUME NEW low \in Counts, NEW high \in Counts, NEW s \in Spot,
         \A m \in Reach[s] : low[m] <= high[m]
  PROVE  FreeGain(high, s) <= FreeGain(low, s)
<1>1. Reach[s] \subseteq Meter /\ IsFiniteSet(Reach[s])
  BY ReachFinite
<1>2. {m \in Reach[s] : high[m] = 0} \subseteq {m \in Reach[s] : low[m] = 0}
  BY <1>1 DEF Counts
<1>3. IsFiniteSet({m \in Reach[s] : low[m] = 0})
  BY <1>1, FS_Subset
<1> QED BY <1>2, <1>3, FS_Subset DEF FreeGain

LEMMA SameGain ==
  ASSUME NEW low, NEW high, NEW s \in Spot,
         \A m \in Reach[s] : low[m] = high[m]
  PROVE  FreeGain(high, s) = FreeGain(low, s)
<1>1. {m \in Reach[s] : high[m] = 0} = {m \in Reach[s] : low[m] = 0}
  OBVIOUS
<1> QED BY <1>1 DEF FreeGain

-----------------------------------------------------------------------------
(* Lists of gateways, and their counts                                     *)

\* The place of an element in a strict order: every place is taken once.
Ordered(S, R0) ==
  /\ IsFiniteSet(S)
  /\ \A x, y, z \in S : <<x, y>> \in R0 /\ <<y, z>> \in R0 => <<x, z>> \in R0
  /\ \A x, y \in S : x = y \/ <<x, y>> \in R0 \/ <<y, x>> \in R0
  /\ \A x \in S : <<x, x>> \notin R0

LEMMA Ranks ==
  ASSUME NEW S, NEW R0, Ordered(S, R0), NEW k \in 0 .. Cardinality(S) - 1
  PROVE  \E x \in S : /\ Cardinality({y \in S : <<y, x>> \in R0}) = k
                      /\ \A z \in S : Cardinality({y \in S : <<y, z>> \in R0}) = k => z = x
<1> DEFINE below(x) == {y \in S : <<y, x>> \in R0}
           place == [x \in S |-> Cardinality(below(x))]
           T == 0 .. Cardinality(S) - 1
<1> USE DEF Ordered
<1>1. \A x \in S : IsFiniteSet(below(x)) /\ below(x) \subseteq S \ {x}
  <2>1. \A x \in S : below(x) \subseteq S \ {x}
    OBVIOUS
  <2>2. \A x \in S : IsFiniteSet(below(x))
    BY FS_Subset
  <2> QED BY <2>1, <2>2
<1>2. ASSUME NEW x \in S
      PROVE  place[x] \in T
  <2>1. IsFiniteSet(S \ {x}) /\ Cardinality(S \ {x}) = Cardinality(S) - 1
    BY FS_RemoveElement
  <2>2. Cardinality(below(x)) <= Cardinality(S \ {x})
    BY <1>1, <2>1, FS_Subset
  <2>3. Cardinality(below(x)) \in Nat /\ Cardinality(S) \in Nat
    BY <1>1, FS_CardinalityType
  <2>4. Cardinality(below(x)) \in 0 .. Cardinality(S) - 1
    BY <2>1, <2>2, <2>3
  <2> QED BY <2>4
<1>3. ASSUME NEW x \in S, NEW y \in S, <<x, y>> \in R0
      PROVE  place[x] < place[y]
  <2>1. below(x) \cup {x} \subseteq below(y) /\ x \notin below(x)
    BY <1>3
  <2>2. Cardinality(below(x) \cup {x}) = Cardinality(below(x)) + 1
    BY <1>1, <2>1, FS_AddElement
  <2>3. Cardinality(below(x) \cup {x}) <= Cardinality(below(y))
    BY <1>1, <2>1, FS_Subset
  <2>4. Cardinality(below(x)) \in Nat /\ Cardinality(below(y)) \in Nat
    BY <1>1, FS_CardinalityType
  <2> QED BY <2>2, <2>3, <2>4
<1>4. \A x \in S : place[x] = Cardinality({y \in S : <<y, x>> \in R0})
  OBVIOUS
<1>5. place \in [S -> T]
  BY <1>2
<1> HIDE DEF place
<1>6. \A x, y \in S : place[x] = place[y] => x = y
  <2> SUFFICES ASSUME NEW x \in S, NEW y \in S, place[x] = place[y], x # y PROVE FALSE
    OBVIOUS
  <2>1. place[x] \in Int /\ place[y] \in Int
    BY <1>5
  <2>2. CASE <<x, y>> \in R0
    <3>1. place[x] < place[y]
      BY <1>3, <2>2
    <3> QED BY <2>1, <3>1
  <2>3. CASE <<y, x>> \in R0
    <3>1. place[y] < place[x]
      BY <1>3, <2>3
    <3> QED BY <2>1, <3>1
  <2> QED BY <2>2, <2>3
<1> HIDE DEF T
<1>7. place \in Injection(S, T)
  BY <1>5, <1>6 DEF Injection, IsInjective
<1>8. IsFiniteSet(T) /\ Cardinality(T) = Cardinality(S)
  <2>1. Cardinality(S) \in Nat
    BY FS_CardinalityType
  <2> QED BY <2>1, FS_Interval DEF T
<1>9. place \in Surjection(S, T)
  BY <1>7, <1>8, FS_Injection
<1>10. PICK x \in S : place[x] = k
  BY <1>9 DEF Surjection, T
<1>11. \A z \in S : Cardinality({y \in S : <<y, z>> \in R0}) = k => z = x
  <2> SUFFICES ASSUME NEW z \in S, Cardinality({y \in S : <<y, z>> \in R0}) = k PROVE z = x
    OBVIOUS
  <2>1. place[z] = k
    BY <1>4
  <2> QED BY <1>6, <1>10, <2>1
<1>12. Cardinality({y \in S : <<y, x>> \in R0}) = k
  BY <1>4, <1>10
<1> QED BY <1>11, <1>12

-----------------------------------------------------------------------------
(* Lists of gateways                                                       *)

LEMMA CountType ==
  ASSUME NEW list \in Seq(Spot), NEW m
  PROVE  /\ CountOf(list, m) \in Nat
         /\ IsFiniteSet({t \in DOMAIN list : m \in Reach[list[t]]})
         /\ (\E t \in DOMAIN list : m \in Reach[list[t]]) <=> CountOf(list, m) # 0
<1>1. DOMAIN list = 1 .. Len(list) /\ Len(list) \in Nat
  BY LenProperties
<1>2. IsFiniteSet(DOMAIN list)
  BY <1>1, FS_Interval
<1>3. IsFiniteSet({t \in DOMAIN list : m \in Reach[list[t]]})
  BY <1>2, FS_Subset
<1>4. CountOf(list, m) = 0 <=> {t \in DOMAIN list : m \in Reach[list[t]]} = {}
  BY <1>3, FS_EmptySet DEF CountOf
<1> QED BY <1>3, <1>4, FS_CardinalityType DEF CountOf

LEMMA CountNone ==
  ASSUME NEW m
  PROVE  CountOf(<<>>, m) = 0
<1>1. {t \in DOMAIN <<>> : m \in Reach[<<>>[t]]} = {}
  OBVIOUS
<1> QED BY <1>1, FS_EmptySet DEF CountOf

LEMMA CountAppend ==
  ASSUME NEW list \in Seq(Spot), NEW s \in Spot, NEW m
  PROVE  CountOf(Append(list, s), m) = CountOf(list, m) + (IF m \in Reach[s] THEN 1 ELSE 0)
<1> DEFINE longer == Append(list, s)
           n == Len(list)
           A == {t \in DOMAIN list : m \in Reach[list[t]]}
           B == {t \in DOMAIN longer : m \in Reach[longer[t]]}
<1>1. /\ DOMAIN list = 1 .. n /\ n \in Nat /\ DOMAIN longer = 1 .. n + 1
      /\ \A t \in 1 .. n : longer[t] = list[t]
      /\ longer[n + 1] = s
  BY LenProperties, AppendProperties
<1>2. IsFiniteSet(A)
  BY CountType
<1>6. n + 1 \notin A
  BY <1>1
<1>3. B = IF m \in Reach[s] THEN A \cup {n + 1} ELSE A
  BY <1>1
<1>7. CountOf(list, m) = Cardinality(A) /\ CountOf(longer, m) = Cardinality(B)
  BY DEF CountOf
<1> HIDE DEF A, B, longer
<1>4. Cardinality(A) \in Nat
  BY <1>2, FS_CardinalityType
<1>5. Cardinality(B) = Cardinality(A) + (IF m \in Reach[s] THEN 1 ELSE 0)
  <2>1. IsFiniteSet(A \cup {n + 1}) /\ Cardinality(A \cup {n + 1}) = Cardinality(A) + 1
    BY <1>2, <1>6, FS_AddElement
  <2> QED BY <1>3, <1>4, <2>1
<1> QED BY <1>5, <1>7 DEF longer

\* One of them is put elsewhere.
Replaced(list, i, s, other) == other = [list EXCEPT ![i] = s]

LEMMA CountReplaced ==
  ASSUME NEW list \in Seq(Spot), NEW i \in DOMAIN list, NEW s \in Spot,
         NEW other, Replaced(list, i, s, other), NEW m
  PROVE  /\ CountOf(other, m) = CountOf(list, m) - (IF m \in Reach[list[i]] THEN 1 ELSE 0)
                                                 + (IF m \in Reach[s] THEN 1 ELSE 0)
         /\ other \in Seq(Spot)
         /\ Len(other) = Len(list)
<1> DEFINE A == {t \in DOMAIN list : m \in Reach[list[t]]}
           B == {t \in DOMAIN other : m \in Reach[other[t]]}
<1>1. DOMAIN other = DOMAIN list /\ other[i] = s /\ \A t \in DOMAIN list \ {i} : other[t] = list[t]
  BY DEF Replaced
<1>2. IsFiniteSet(A)
  BY CountType
<1>4. B = IF m \in Reach[s] THEN (A \ {i}) \cup {i} ELSE A \ {i}
  BY <1>1
<1>10. i \in A <=> m \in Reach[list[i]]
  OBVIOUS
<1>11. CountOf(list, m) = Cardinality(A) /\ CountOf(other, m) = Cardinality(B)
  BY DEF CountOf
<1> HIDE DEF A, B
<1>3. Cardinality(A \ {i}) = Cardinality(A) - (IF m \in Reach[list[i]] THEN 1 ELSE 0)
  <2>1. Cardinality(A) \in Nat
    BY <1>2, FS_CardinalityType
  <2>2. Cardinality(A \ {i}) = IF i \in A THEN Cardinality(A) - 1 ELSE Cardinality(A)
    BY <1>2, FS_RemoveElement
  <2> QED BY <1>10, <2>1, <2>2
<1>5. IsFiniteSet(A \ {i}) /\ Cardinality(A \ {i}) \in Nat /\ i \notin A \ {i}
  BY <1>2, FS_CardinalityType, FS_RemoveElement
<1>6. Cardinality(B) = Cardinality(A \ {i}) + (IF m \in Reach[s] THEN 1 ELSE 0)
  <2>1. Cardinality((A \ {i}) \cup {i}) = Cardinality(A \ {i}) + 1
    BY <1>5, FS_AddElement
  <2> QED BY <1>4, <1>5, <2>1
<1>7. Cardinality(A) \in Nat
  BY <1>2, FS_CardinalityType
<1>8. CountOf(other, m) = CountOf(list, m) - (IF m \in Reach[list[i]] THEN 1 ELSE 0)
                                 + (IF m \in Reach[s] THEN 1 ELSE 0)
  BY <1>3, <1>6, <1>7, <1>11
<1>9. other \in Seq(Spot) /\ Len(other) = Len(list)
  BY LenProperties, ExceptSeq DEF Replaced
<1> QED BY <1>8, <1>9

\* A list taken from the places of another: what reaches a meter is what reached it
\* from those places.
LEMMA CountTaken ==
  ASSUME NEW list, NEW n \in Nat, NEW keep, NEW h \in Bijection(1 .. n, keep),
         NEW m
  PROVE  CountOf([k \in 1 .. n |-> list[h[k]]], m) = Cardinality({i \in keep : m \in Reach[list[i]]})
<1> DEFINE taken == [k \in 1 .. n |-> list[h[k]]]
           A == {k \in 1 .. n : m \in Reach[taken[k]]}
           B == {i \in keep : m \in Reach[list[i]]}
           g == [k \in A |-> h[k]]
<1>1. h \in [1 .. n -> keep] /\ (\A k, l \in 1 .. n : h[k] = h[l] => k = l)
      /\ \A i \in keep : \E k \in 1 .. n : h[k] = i
  BY DEF Bijection, Injection, Surjection, IsInjective
<1>2. g \in [A -> B] /\ \A k, l \in A : g[k] = g[l] => k = l
  BY <1>1
<1>3. \A i \in B : \E k \in A : g[k] = i
  BY <1>1
<1>4. g \in Bijection(A, B)
  BY <1>2, <1>3 DEF Bijection, Injection, Surjection, IsInjective
<1>5. IsFiniteSet(A)
  <2>1. IsFiniteSet(1 .. n) /\ A \subseteq 1 .. n
    BY FS_Interval
  <2> HIDE DEF A
  <2> QED BY <2>1, FS_Subset
<1> HIDE DEF A, B, g
<1>6. Cardinality(A) = Cardinality(B)
  BY <1>4, <1>5, FS_Bijection DEF ExistsBijection
<1> QED BY <1>6 DEF CountOf, A, B

\* What is left of a list stands in the order it had.
LEMMA WithoutTakes ==
  ASSUME NEW list \in Seq(Spot), NEW out
  PROVE  \E h \in Bijection(1 .. Cardinality(DOMAIN list \ out), DOMAIN list \ out) :
           Without(list, out) = [k \in 1 .. Cardinality(DOMAIN list \ out) |-> list[h[k]]]
<1> DEFINE keep == DOMAIN list \ out
           n == Cardinality(keep)
           nth(k) == CHOOSE i \in keep : Cardinality({j \in keep : j <= i}) = k
           h == [k \in 1 .. n |-> nth(k)]
           R0 == {p \in keep \X keep : p[1] < p[2]}
<1>1. /\ keep \subseteq Nat /\ IsFiniteSet(keep) /\ n \in Nat
  <2>1. DOMAIN list = 1 .. Len(list) /\ Len(list) \in Nat
    BY LenProperties
  <2>2. IsFiniteSet(keep)
    <3>1. IsFiniteSet(1 .. Len(list)) /\ keep \subseteq 1 .. Len(list)
      BY <2>1, FS_Interval
    <3> QED BY <3>1, FS_Subset
  <2> QED BY <2>1, <2>2, FS_CardinalityType
<1> HIDE DEF keep
<1>2. \A x, y \in keep : <<x, y>> \in R0 <=> x < y
  OBVIOUS
<1> HIDE DEF R0
<1>3. \A x, y \in keep : x \in Int /\ y \in Int
  BY <1>1
<1>4. ASSUME NEW x \in keep
      PROVE  Cardinality({j \in keep : j <= x}) = Cardinality({j \in keep : <<j, x>> \in R0}) + 1
  <2> DEFINE A == {j \in keep : <<j, x>> \in R0}
  <2>1. {j \in keep : j <= x} = A \cup {x} /\ x \notin A
    BY <1>2, <1>3
  <2>2. IsFiniteSet(A)
    BY <1>1, FS_Subset
  <2> HIDE DEF A
  <2>3. Cardinality(A \cup {x}) = Cardinality(A) + 1
    BY <2>1, <2>2, FS_AddElement
  <2> QED BY <2>1, <2>3 DEF A
<1>5. ASSUME NEW k \in 1 .. n
      PROVE  \E i \in keep : /\ Cardinality({j \in keep : j <= i}) = k
                             /\ \A z \in keep : Cardinality({j \in keep : j <= z}) = k => z = i
  <2>1. \A x, y, z \in keep : <<x, y>> \in R0 /\ <<y, z>> \in R0 => <<x, z>> \in R0
    BY <1>2, <1>3
  <2>2. \A x, y \in keep : x = y \/ <<x, y>> \in R0 \/ <<y, x>> \in R0
    <3> SUFFICES ASSUME NEW x \in keep, NEW y \in keep, x # y PROVE <<x, y>> \in R0 \/ <<y, x>> \in R0
      OBVIOUS
    <3>1. x < y \/ y < x
      BY <1>3
    <3> QED BY <1>2, <3>1
  <2>3. \A x \in keep : <<x, x>> \notin R0
    BY <1>2, <1>3
  <2>4. k - 1 \in 0 .. Cardinality(keep) - 1
    BY <1>1
  <2> HIDE DEF n
  <2>9. Ordered(keep, R0)
    BY <1>1, <2>1, <2>2, <2>3 DEF Ordered
  <2>10. ASSUME NEW p \in 0 .. Cardinality(keep) - 1
         PROVE  \E i \in keep : /\ Cardinality({j \in keep : <<j, i>> \in R0}) = p
                                /\ \A z \in keep : Cardinality({j \in keep : <<j, z>> \in R0}) = p => z = i
    BY SMTT(60), <2>9, Ranks
  <2>5. PICK i \in keep : /\ Cardinality({j \in keep : <<j, i>> \in R0}) = k - 1
                          /\ \A z \in keep : Cardinality({j \in keep : <<j, z>> \in R0}) = k - 1 => z = i
    BY <2>4, <2>10
  <2>6. \A z \in keep : Cardinality({j \in keep : <<j, z>> \in R0}) \in Nat
    <3>1. \A z \in keep : IsFiniteSet({j \in keep : <<j, z>> \in R0})
      BY <1>1, FS_Subset
    <3> QED BY <3>1, FS_CardinalityType
  <2>7. Cardinality({j \in keep : j <= i}) = k
    BY <1>4, <2>5
  <2>8. ASSUME NEW z \in keep, Cardinality({j \in keep : j <= z}) = k
        PROVE  z = i
    <3>1. Cardinality({j \in keep : <<j, z>> \in R0}) + 1 = k
      BY <1>4, <2>8
    <3>2. Cardinality({j \in keep : <<j, z>> \in R0}) = k - 1
      BY <2>6, <3>1
    <3> QED BY <2>5, <3>2
  <2> QED BY <2>7, <2>8
<1>6. \A k \in 1 .. n : nth(k) \in keep /\ Cardinality({j \in keep : j <= nth(k)}) = k
  BY <1>5
<1>7. \A k \in 1 .. n : h[k] = nth(k)
  OBVIOUS
<1>8. h \in [1 .. n -> keep]
  BY <1>6
<1> HIDE DEF nth, h, n
<1>9. \A k, l \in 1 .. n : h[k] = h[l] => k = l
  BY <1>6, <1>7
<1>10. ASSUME NEW i \in keep
       PROVE  \E k \in 1 .. n : h[k] = i
  <2> DEFINE B == {j \in keep : j <= i}
  <2>1. B \subseteq keep /\ B # {} /\ IsFiniteSet(B)
    <3>1. i \in B
      BY <1>3
    <3> QED BY <1>1, <3>1, FS_Subset
  <2>2. Cardinality(B) \in 1 .. n
    <3> HIDE DEF B
    <3>1. Cardinality(B) \in Nat /\ Cardinality(B) # 0 /\ Cardinality(B) <= n
      BY <1>1, <2>1, FS_CardinalityType, FS_EmptySet, FS_Subset DEF n
    <3> QED BY <1>1, <3>1
  <2>3. PICK u \in keep : \A z \in keep : Cardinality({j \in keep : j <= z}) = Cardinality(B) => z = u
    BY <1>5, <2>2
  <2>4. nth(Cardinality(B)) \in keep /\ Cardinality({j \in keep : j <= nth(Cardinality(B))}) = Cardinality(B)
    BY <1>6, <2>2
  <2>5. nth(Cardinality(B)) = i
    BY <2>3, <2>4
  <2> QED BY <1>7, <2>2, <2>5
<1>11. h \in Bijection(1 .. n, keep)
  BY <1>8, <1>9, <1>10 DEF Bijection, Injection, Surjection, IsInjective
<1>12. Without(list, out) = [k \in 1 .. n |-> list[nth(k)]]
  BY DEF Without, nth, n, keep
<1>13. Without(list, out) = [k \in 1 .. n |-> list[h[k]]]
  BY <1>7, <1>12
<1> QED BY <1>11, <1>13 DEF n, keep

LEMMA WithoutCounts ==
  ASSUME NEW list \in Seq(Spot), NEW out
  PROVE  /\ Without(list, out) \in Seq(Spot)
         /\ Len(Without(list, out)) = Cardinality(DOMAIN list \ out)
         /\ \A m : CountOf(Without(list, out), m) = Cardinality({i \in DOMAIN list \ out : m \in Reach[list[i]]})
<1> DEFINE keep == DOMAIN list \ out
           n == Cardinality(keep)
<1>1. PICK h \in Bijection(1 .. n, keep) : Without(list, out) = [k \in 1 .. n |-> list[h[k]]]
  BY WithoutTakes
<1>2. n \in Nat
  <2>1. IsFiniteSet(keep)
    BY LenProperties, FS_Interval, FS_Subset
  <2> QED BY <2>1, FS_CardinalityType
<1>3. h \in [1 .. n -> keep]
  BY DEF Bijection, Injection
<1>4. \A i \in keep : list[i] \in Spot
  BY LenProperties, ElementOfSeq
<1> HIDE DEF keep, n
<1>5. Without(list, out) \in [1 .. n -> Spot]
  BY <1>1, <1>3, <1>4
<1>6. Without(list, out) \in Seq(Spot) /\ Len(Without(list, out)) = n
  BY <1>2, <1>5
<1>7. ASSUME NEW m
      PROVE  CountOf(Without(list, out), m) = Cardinality({i \in keep : m \in Reach[list[i]]})
  BY <1>1, <1>2, CountTaken
<1> QED BY <1>6, <1>7 DEF keep, n

LEMMA WithoutOne ==
  ASSUME NEW list \in Seq(Spot), NEW t \in DOMAIN list
  PROVE  /\ Without(list, {t}) \in Seq(Spot)
         /\ Len(Without(list, {t})) = Len(list) - 1
         /\ \A m : CountOf(Without(list, {t}), m) = CountOf(list, m) - (IF m \in Reach[list[t]] THEN 1 ELSE 0)
<1>1. /\ Without(list, {t}) \in Seq(Spot)
      /\ Len(Without(list, {t})) = Cardinality(DOMAIN list \ {t})
      /\ \A m : CountOf(Without(list, {t}), m) = Cardinality({i \in DOMAIN list \ {t} : m \in Reach[list[i]]})
  BY WithoutCounts
<1>2. IsFiniteSet(DOMAIN list) /\ Cardinality(DOMAIN list) = Len(list) /\ Len(list) \in Nat
  BY LenProperties, FS_Interval
<1>3. Cardinality(DOMAIN list \ {t}) = Len(list) - 1
  BY <1>2, FS_RemoveElement
<1>4. ASSUME NEW m
      PROVE  CountOf(Without(list, {t}), m) = CountOf(list, m) - (IF m \in Reach[list[t]] THEN 1 ELSE 0)
  <2> DEFINE A == {i \in DOMAIN list : m \in Reach[list[i]]}
  <2>1. {i \in DOMAIN list \ {t} : m \in Reach[list[i]]} = A \ {t} /\ (t \in A <=> m \in Reach[list[t]])
    OBVIOUS
  <2>2. IsFiniteSet(A)
    BY CountType
  <2>3. CountOf(list, m) = Cardinality(A)
    BY DEF CountOf
  <2>5. CountOf(Without(list, {t}), m) = Cardinality(A \ {t})
    BY <1>1, <2>1
  <2> HIDE DEF A
  <2>4. Cardinality(A \ {t}) = (IF t \in A THEN Cardinality(A) - 1 ELSE Cardinality(A)) /\ Cardinality(A) \in Nat
    BY <2>2, FS_RemoveElement, FS_CardinalityType
  <2> QED BY <2>1, <2>3, <2>4, <2>5
<1> QED BY <1>1, <1>3, <1>4

LEMMA CountConcat ==
  ASSUME NEW a \in Seq(Spot), NEW b \in Seq(Spot), NEW m
  PROVE  CountOf(a \o b, m) = CountOf(a, m) + CountOf(b, m)
<1> DEFINE n == Len(a)
           A == {t \in DOMAIN a : m \in Reach[a[t]]}
           B == {t \in DOMAIN b : m \in Reach[b[t]]}
           D == {t \in DOMAIN (a \o b) : m \in Reach[(a \o b)[t]]}
           E == {t \in D : t > n}
           g == [t \in B |-> t + n]
<1>1. /\ a \o b \in Seq(Spot) /\ Len(a \o b) = Len(a) + Len(b) /\ Len(a) \in Nat /\ Len(b) \in Nat
      /\ DOMAIN a = 1 .. Len(a) /\ DOMAIN b = 1 .. Len(b) /\ DOMAIN (a \o b) = 1 .. Len(a) + Len(b)
      /\ \A t \in 1 .. Len(a) + Len(b) : (a \o b)[t] = IF t <= Len(a) THEN a[t] ELSE b[t - Len(a)]
  BY ConcatProperties, LenProperties
<1>2. D = A \cup E /\ A \cap E = {}
  BY <1>1
<1>3. g \in [B -> E] /\ \A t, u \in B : g[t] = g[u] => t = u
  <2>1. ASSUME NEW t \in B PROVE t + n \in E
    BY <1>1
  <2> QED BY <1>1, <2>1
<1>4. \A e \in E : \E t \in B : g[t] = e
  <2> SUFFICES ASSUME NEW e \in E PROVE \E t \in B : g[t] = e
    OBVIOUS
  <2>1. e - n \in B
    BY <1>1
  <2> QED BY SMTT(60), <1>1, <2>1
<1>5. g \in Bijection(B, E)
  BY <1>3, <1>4 DEF Bijection, Injection, Surjection, IsInjective
<1>6. IsFiniteSet(A) /\ IsFiniteSet(B)
  BY CountType
<1>7. CountOf(a, m) = Cardinality(A) /\ CountOf(b, m) = Cardinality(B) /\ CountOf(a \o b, m) = Cardinality(D)
  BY DEF CountOf
<1> HIDE DEF A, B, D, E, g
<1>8. IsFiniteSet(E) /\ Cardinality(E) = Cardinality(B)
  BY <1>5, <1>6, FS_Bijection DEF ExistsBijection
<1>9. Cardinality(D) = Cardinality(A) + Cardinality(E) - Cardinality({})
  BY <1>2, <1>6, <1>8, FS_Union
<1>10. Cardinality(A) \in Nat /\ Cardinality(E) \in Nat /\ Cardinality({}) = 0
  BY <1>6, <1>8, FS_CardinalityType, FS_EmptySet
<1> QED BY <1>7, <1>8, <1>9, <1>10

-----------------------------------------------------------------------------
(* The walk from the strongest candidate                                   *)

\* A walk from the candidate that could bring the most, which stops where no other
\* could beat the best so far, does not miss the first of the best.
Walk(S, g, w, R0, floor, top) ==
  /\ IsFiniteSet(S) /\ g \in [S -> Nat] /\ w \in [S -> Nat]
  /\ \A j \in S : g[j] <= w[j]
  /\ \A x, y, z \in S : <<x, y>> \in R0 /\ <<y, z>> \in R0 => <<x, z>> \in R0
  /\ \A x, y \in S : x = y \/ <<x, y>> \in R0 \/ <<y, x>> \in R0
  /\ \A x \in S : <<x, x>> \notin R0
  /\ floor \in Nat /\ top \in S /\ g[top] > floor
  /\ \A j \in S : g[j] <= g[top]

LEMMA WalkFinds ==
  ASSUME NEW S, NEW g, NEW w, NEW R0, NEW floor, NEW top, Walk(S, g, w, R0, floor, top)
  PROVE  \E j \in S : /\ g[j] = g[top]
                      /\ \A i \in S : g[i] = g[top] => <<i, j>> \notin R0
                      /\ \A i \in S \ {j} : g[i] = g[top] => <<j, i>> \in R0
                      /\ w[j] > floor
                      /\ \A i \in S : <<i, j>> \in R0 => w[j] > g[i]
<1> DEFINE T == {j \in S : g[j] = g[top]}
<1> USE DEF Walk
<1>1. T \subseteq S /\ T # {} /\ IsFiniteSet(T)
  BY FS_Subset
<1>2. PICK j \in T : \A i \in T \ {j} : <<j, i>> \in R0
  <2> HIDE DEF T
  <2>1. \A x, y, z \in T : <<x, y>> \in R0 /\ <<y, z>> \in R0 => <<x, z>> \in R0
    BY <1>1
  <2>2. \A x, y \in T : x = y \/ <<x, y>> \in R0 \/ <<y, x>> \in R0
    BY <1>1
  <2> QED BY SMTT(60), <1>1, <2>1, <2>2, Champion
<1>3. j \in S /\ g[j] = g[top]
  OBVIOUS
<1>4. ASSUME NEW i \in S, g[i] = g[top]
      PROVE  <<i, j>> \notin R0
  <2>1. i = j \/ <<j, i>> \in R0
    BY <1>2, <1>4
  <2> QED BY <1>3, <2>1
<1>5. ASSUME NEW i \in S, <<i, j>> \in R0
      PROVE  w[j] > g[i]
  <2>1. g[i] # g[top]
    BY <1>4, <1>5
  <2>2. g[i] \in Nat /\ g[top] \in Nat /\ g[i] <= g[top] /\ w[j] \in Nat /\ g[j] <= w[j]
    BY <1>3
  <2> QED BY <1>3, <2>1, <2>2
<1>6. w[j] > floor
  <2>1. w[j] \in Nat /\ g[j] <= w[j] /\ g[j] \in Nat
    BY <1>3
  <2> QED BY <1>3, <2>1
<1> QED BY <1>2, <1>3, <1>4, <1>5, <1>6

-----------------------------------------------------------------------------
(* The invariant                                                           *)

\* How many gateways reach a meter: the existing ones, the plan's and those beyond it.
Total(ex, ch, pk) == [m \in Meter |-> CountOf(ex, m) + CountOf(ch, m) + CountOf(pk, m)]

PlacePhases == {"idle", "round", "greedy", "refine", "pairs", "put", "judge", "prune",
                "stop", "snap", "rank", "curve", "done"}

PlaceTypes ==
  /\ ask \in Asks
  /\ phase \in PlacePhases
  /\ chosen \in Seq(Spot) /\ picks \in Seq(Spot)
  /\ stamp \in Nat
  /\ loop \in [t : Int, from : Int, pass : Nat, improved : BOOLEAN, for : {"round", "try", "pairs"}]
  /\ pair \in [attempt : Nat, tries : Nat, before : Nat, saved : Seq(Spot), put : 0 .. 2,
               improved : BOOLEAN]

\* The count is that of the gateways in place, those beyond the plan only in the curve.
Booked ==
  /\ cov = Total(ask.existing, chosen, IF phase = "curve" THEN picks ELSE <<>>)
  /\ phase \notin {"curve", "done"} => picks = <<>>

\* The heap has at most one entry per candidate, none worth more than it says, and
\* exact those of this stamp; whoever still reaches something new is in it.
Heaped ==
  /\ IsFiniteSet(heap) /\ heap \subseteq [gain : Nat, cand : Candidate, stamp : Nat]
  /\ phase \notin {"greedy", "curve"} => heap = {}
  /\ \A e, f \in heap : e.cand = f.cand => e = f
  /\ \A e \in heap : /\ e.gain >= FreeGain(cov, e.cand) /\ e.stamp <= stamp
                     /\ e.stamp = stamp => e.gain = FreeGain(cov, e.cand)
  /\ phase = "greedy" \/ (phase = "curve" /\ Len(chosen) < CurveLimit) =>
       \A j \in Candidate : FreeGain(cov, j) > 0 => \E e \in heap : e.cand = j

\* A move of two is under way.
Trying == phase \in {"put", "judge"} \/ (phase = "refine" /\ loop.for = "try")

\* What is put back fits, and what is there now is two fewer and those put down since,
\* unless everything is covered, when fewer may do.
Fits ==
  /\ Len(pair.saved) >= 2 /\ Len(pair.saved) <= ask.k
  /\ pair.tries <= Len(pair.saved) \/ pair.before = N
  /\ pair.before = Covered(Total(ask.existing, pair.saved, <<>>))
  /\ \/ Covered(cov) = N /\ Len(chosen) <= Len(pair.saved)
     \/ Len(chosen) = Len(pair.saved) - 2 + (IF phase = "put" THEN pair.put ELSE 2)

\* Never more gateways than asked for; a search that starts before the first gateway
\* starts when everything is covered, so that it puts nothing down.
Sizes ==
  /\ Len(chosen) <= ask.k
  /\ Trying => Fits
  /\ phase = "pairs" => pair.tries <= Len(chosen) \/ Covered(cov) = N
  /\ phase = "refine" /\ (loop.t < 1 \/ loop.from < 1) => Covered(cov) = N

PlaceInv == PlaceTypes /\ Booked /\ Heaped /\ Sizes

\* What is reached before place k of a list, and what the gateway at t would add there.
Had(ex, list, k) == {m \in Meter : CountOf(ex, m) > 0 \/ \E t \in 1 .. k - 1 : m \in Reach[list[t]]}
Adding(ex, list, k, t) == Cardinality(Reach[list[t]] \ Had(ex, list, k))

\* The gateways ranked so far are told with what they add at their place, which falls,
\* and none that is left would add more at the last place than who has it.
Ranked ==
  LET added == report.added
      G == Len(chosen)
  IN  /\ {"added", "curve"} \subseteq DOMAIN report /\ added \in Seq(Nat)
      /\ phase \notin {"rank", "curve", "done"} => added = <<>>
      /\ Len(added) <= G
      /\ phase \in {"curve", "done"} => Len(added) = G
      /\ \A k \in 1 .. Len(added) : added[k] = Adding(ask.existing, chosen, k, k)
      /\ \A k \in 1 .. Len(added) - 1 : added[k] >= added[k + 1]
      /\ \A k \in 1 .. Len(added) : k = Len(added) =>
           \A t \in k + 1 .. G : Adding(ask.existing, chosen, k, t) <= added[k]
      /\ CurveTrue

-----------------------------------------------------------------------------
(* The sums                                                                *)

LEMMA TotalType ==
  ASSUME NEW ex \in Seq(Spot), NEW ch \in Seq(Spot), NEW pk \in Seq(Spot)
  PROVE  /\ Total(ex, ch, pk) \in Counts
         /\ \A m \in Meter : /\ Total(ex, ch, pk)[m] = CountOf(ex, m) + CountOf(ch, m) + CountOf(pk, m)
                             /\ CountOf(ex, m) \in Nat /\ CountOf(ch, m) \in Nat /\ CountOf(pk, m) \in Nat
<1>1. \A m \in Meter : CountOf(ex, m) \in Nat /\ CountOf(ch, m) \in Nat /\ CountOf(pk, m) \in Nat
  BY CountType
<1> QED BY <1>1 DEF Total, Counts

LEMMA TotalPlaced ==
  ASSUME NEW ex \in Seq(Spot), NEW ch \in Seq(Spot), NEW pk \in Seq(Spot), NEW s \in Spot
  PROVE  /\ Placed(Total(ex, ch, pk), s) = Total(ex, Append(ch, s), pk)
         /\ Placed(Total(ex, ch, pk), s) = Total(ex, ch, Append(pk, s))
<1>1. \A m \in Meter : /\ Total(ex, ch, pk)[m] = CountOf(ex, m) + CountOf(ch, m) + CountOf(pk, m)
                       /\ CountOf(ex, m) \in Nat /\ CountOf(ch, m) \in Nat /\ CountOf(pk, m) \in Nat
  BY TotalType
<1>2. \A m \in Meter : /\ CountOf(Append(ch, s), m) = CountOf(ch, m) + (IF m \in Reach[s] THEN 1 ELSE 0)
                       /\ CountOf(Append(pk, s), m) = CountOf(pk, m) + (IF m \in Reach[s] THEN 1 ELSE 0)
  BY CountAppend
<1>3. \A m \in Meter : Placed(Total(ex, ch, pk), s)[m] = Total(ex, Append(ch, s), pk)[m]
  BY <1>1, <1>2 DEF Placed, Total
<1>4. \A m \in Meter : Placed(Total(ex, ch, pk), s)[m] = Total(ex, ch, Append(pk, s))[m]
  BY <1>1, <1>2 DEF Placed, Total
<1> QED BY <1>3, <1>4 DEF Placed, Total

LEMMA TotalLifted ==
  ASSUME NEW ex \in Seq(Spot), NEW ch \in Seq(Spot), NEW pk \in Seq(Spot), NEW t \in DOMAIN ch
  PROVE  /\ Lifted(Total(ex, ch, pk), ch[t]) = Total(ex, Without(ch, {t}), pk)
         /\ \A m \in Reach[ch[t]] : Total(ex, ch, pk)[m] > 0
         /\ ch[t] \in Spot
<1>1. \A m \in Meter : /\ Total(ex, ch, pk)[m] = CountOf(ex, m) + CountOf(ch, m) + CountOf(pk, m)
                       /\ CountOf(ex, m) \in Nat /\ CountOf(ch, m) \in Nat /\ CountOf(pk, m) \in Nat
  BY TotalType
<1>2. \A m : CountOf(Without(ch, {t}), m) = CountOf(ch, m) - (IF m \in Reach[ch[t]] THEN 1 ELSE 0)
  BY WithoutOne
<1>3. \A m \in Meter : Lifted(Total(ex, ch, pk), ch[t])[m] = Total(ex, Without(ch, {t}), pk)[m]
  <2> SUFFICES ASSUME NEW m \in Meter
               PROVE  Lifted(Total(ex, ch, pk), ch[t])[m] = Total(ex, Without(ch, {t}), pk)[m]
    OBVIOUS
  <2>1. CountOf(Without(ch, {t}), m) = CountOf(ch, m) - (IF m \in Reach[ch[t]] THEN 1 ELSE 0)
    BY <1>2
  <2> QED BY <1>1, <2>1 DEF Lifted, Total
<1>4. ch[t] \in Spot
  BY LenProperties, ElementOfSeq
<1>5. Reach[ch[t]] \subseteq Meter
  BY <1>4, ReachFinite
<1>6. \A m \in Reach[ch[t]] : CountOf(ch, m) # 0
  BY CountType
<1>7. \A m \in Reach[ch[t]] : Total(ex, ch, pk)[m] > 0
  BY <1>1, <1>5, <1>6
<1> QED BY <1>3, <1>4, <1>7 DEF Lifted, Total

\* A gateway is lifted and put elsewhere in its place of the list.
LEMMA TotalMoved ==
  ASSUME NEW ex \in Seq(Spot), NEW ch \in Seq(Spot), NEW pk \in Seq(Spot), NEW t \in DOMAIN ch,
         NEW p \in Spot, NEW moved, Replaced(ch, t, p, moved)
  PROVE  Placed(Lifted(Total(ex, ch, pk), ch[t]), p) = Total(ex, moved, pk)
<1>1. \A m \in Meter : /\ Total(ex, ch, pk)[m] = CountOf(ex, m) + CountOf(ch, m) + CountOf(pk, m)
                       /\ CountOf(ex, m) \in Nat /\ CountOf(ch, m) \in Nat /\ CountOf(pk, m) \in Nat
  BY TotalType
<1>3. \A m \in Meter : Placed(Lifted(Total(ex, ch, pk), ch[t]), p)[m] = Total(ex, moved, pk)[m]
  <2> SUFFICES ASSUME NEW m \in Meter
               PROVE  Placed(Lifted(Total(ex, ch, pk), ch[t]), p)[m] = Total(ex, moved, pk)[m]
    OBVIOUS
  <2>1. CountOf(moved, m) = CountOf(ch, m) - (IF m \in Reach[ch[t]] THEN 1 ELSE 0)
                                                        + (IF m \in Reach[p] THEN 1 ELSE 0)
    BY CountReplaced
  <2> QED BY <1>1, <2>1 DEF Lifted, Placed, Total
<1> QED BY <1>3 DEF Placed, Total

LEMMA TotalMovedAlone ==
  ASSUME NEW ex \in Seq(Spot), NEW ch \in Seq(Spot), NEW t \in DOMAIN ch, NEW p \in Spot,
         NEW moved, Replaced(ch, t, p, moved)
  PROVE  Placed(Lifted(Total(ex, ch, <<>>), ch[t]), p) = Total(ex, moved, <<>>)
<1> DEFINE none == <<>>
<1>1. none \in Seq(Spot)
  OBVIOUS
<1> HIDE DEF none
<1>2. Placed(Lifted(Total(ex, ch, none), ch[t]), p) = Total(ex, moved, none)
  BY <1>1, TotalMoved
<1> QED BY <1>2 DEF none

\* A list is taken up and another one put down.
LEMMA TotalExchanged ==
  ASSUME NEW ex \in Seq(Spot), NEW ch \in Seq(Spot), NEW to \in Seq(Spot)
  PROVE  /\ Exchanged(Total(ex, ch, <<>>), ch, to) = Total(ex, to, <<>>)
         /\ Exchanged(Total(ex, ch, to), to, <<>>) = Total(ex, ch, <<>>)
<1>1. <<>> \in Seq(Spot) /\ \A m : CountOf(<<>>, m) = 0
  BY CountNone
<1>2. \A m \in Meter : CountOf(ex, m) \in Nat /\ CountOf(ch, m) \in Nat /\ CountOf(to, m) \in Nat
  BY CountType
<1>3. ASSUME NEW m \in Meter
      PROVE  /\ Exchanged(Total(ex, ch, <<>>), ch, to)[m] = Total(ex, to, <<>>)[m]
             /\ Exchanged(Total(ex, ch, to), to, <<>>)[m] = Total(ex, ch, <<>>)[m]
  <2>1. CountOf(<<>>, m) = 0
    BY <1>1
  <2> QED BY <1>2, <2>1 DEF Exchanged, Total
<1> QED BY <1>3 DEF Exchanged, Total

LEMMA BaseIs ==
  ASSUME ask.existing \in Seq(Spot)
  PROVE  /\ Base = Total(ask.existing, <<>>, <<>>)
         /\ Base \in Counts
         /\ \A ch, pk \in Seq(Spot) : \A m \in Meter : Base[m] <= Total(ask.existing, ch, pk)[m]
<1>1. \A m \in Meter : CountOf(ask.existing, m) \in Nat /\ CountOf(<<>>, m) = 0
  BY CountType, CountNone
<1>2. Base = Total(ask.existing, <<>>, <<>>) /\ Base \in Counts
  BY <1>1 DEF Base, Total, Counts
<1>3. ASSUME NEW ch \in Seq(Spot), NEW pk \in Seq(Spot), NEW m \in Meter
      PROVE  Base[m] <= Total(ask.existing, ch, pk)[m]
  <2>1. CountOf(ch, m) \in Nat /\ CountOf(pk, m) \in Nat /\ CountOf(ask.existing, m) \in Nat
    BY CountType
  <2> QED BY <2>1 DEF Base, Total
<1> QED BY <1>2, <1>3

-----------------------------------------------------------------------------
(* The search                                                              *)

LEMMA Candidates ==
  /\ Candidate \subseteq Spot /\ Candidate \subseteq Nat /\ IsFiniteSet(Candidate)
<1>1. Candidate \subseteq Spot /\ Candidate \subseteq Nat
  BY SpaceAssumption DEF Candidate
<1>2. IsFiniteSet(Candidate)
  BY SpaceAssumption, FS_Interval DEF Candidate
<1> QED BY <1>1, <1>2

\* Nothing is newly reached from any candidate only when everything is reached.
LEMMA NothingLeft ==
  ASSUME NEW cv \in Counts
  PROVE  /\ (\A j \in Candidate : FreeGain(cv, j) = 0) <=> Covered(cv) = N
         /\ Covered(cv) = N => \A s \in Spot : FreeGain(cv, s) = 0
         /\ Covered(cv) <= N
<1> DEFINE S == {m \in Meter : cv[m] # 0}
<1>1. IsFiniteSet(S) /\ S \subseteq Meter /\ IsFiniteSet(Meter) /\ Covered(cv) = Cardinality(S)
  BY CoveredFinite, SpaceAssumption DEF Covered
<1>2. Covered(cv) <= N /\ (Covered(cv) = N => S = Meter)
  <2> HIDE DEF S
  <2> QED BY <1>1, FS_Subset DEF N
<1>3. ASSUME Covered(cv) = N, NEW s \in Spot
      PROVE  FreeGain(cv, s) = 0
  <2>1. {m \in Reach[s] : cv[m] = 0} = {}
    BY <1>2, <1>3, ReachFinite
  <2> QED BY <2>1, FS_EmptySet DEF FreeGain
<1>4. ASSUME \A j \in Candidate : FreeGain(cv, j) = 0
      PROVE  Covered(cv) = N
  <2>1. ASSUME NEW m \in Meter
        PROVE  cv[m] # 0
    <3>1. PICK j \in Candidate : m \in Reach[j]
      BY PlacementAssumption DEF CandidateForEach
    <3>2. j \in Spot
      BY Candidates
    <3>3. IsFiniteSet({i \in Reach[j] : cv[i] = 0})
      BY <3>2, ReachFinite, FS_Subset
    <3>4. {i \in Reach[j] : cv[i] = 0} = {}
      BY <1>4, <3>3, FS_EmptySet DEF FreeGain
    <3> QED BY <3>1, <3>4
  <2>2. S = Meter
    BY <2>1
  <2> QED BY <1>1, <2>2 DEF N
<1> QED BY <1>2, <1>3, <1>4, Candidates

\* The walk that stops early finds the best of all candidates, if any beats the floor.
LEMMA ScannedExact ==
  ASSUME ask.existing \in Seq(Spot),
         NEW cv \in Counts, \A m \in Meter : Base[m] <= cv[m], NEW floor \in Nat,
         NEW beats, beats = {j \in Scanned(cv, floor) : FreeGain(cv, j) > floor}
  PROVE  /\ beats = {} => \A j \in Candidate : FreeGain(cv, j) <= floor
         /\ beats # {} => /\ First(cv, beats) \in beats /\ First(cv, beats) \in Candidate
                          /\ \A j \in Candidate : FreeGain(cv, j) <= FreeGain(cv, First(cv, beats))
<1> DEFINE gain == [j \in Candidate |-> FreeGain(cv, j)]
           initial == [j \in Candidate |-> InitialGain(j)]
           R0 == {x \in Candidate \X Candidate : Before(x[1], x[2])}
<1>1. \A j \in Candidate : /\ FreeGain(cv, j) \in Nat /\ InitialGain(j) \in Nat
                           /\ FreeGain(cv, j) <= InitialGain(j) /\ j \in Nat
  <2> SUFFICES ASSUME NEW j \in Candidate
               PROVE  /\ FreeGain(cv, j) \in Nat /\ InitialGain(j) \in Nat
                      /\ FreeGain(cv, j) <= InitialGain(j) /\ j \in Nat
    OBVIOUS
  <2>1. j \in Spot /\ j \in Nat
    BY Candidates
  <2>2. Base \in Counts
    BY BaseIs
  <2>3. Reach[j] \subseteq Meter
    BY <2>1, ReachFinite
  <2>4. FreeGain(cv, j) <= FreeGain(Base, j)
    BY <2>1, <2>2, <2>3, GainFalls
  <2> QED BY <2>1, <2>4, GainBounds DEF InitialGain
<1>2. \A x, y \in Candidate : <<x, y>> \in R0 <=> Before(x, y)
  OBVIOUS
<1>3. /\ gain \in [Candidate -> Nat] /\ initial \in [Candidate -> Nat] /\ \A j \in Candidate : gain[j] <= initial[j]
      /\ \A j \in Candidate : gain[j] = FreeGain(cv, j) /\ initial[j] = InitialGain(j)
  BY <1>1
<1> HIDE DEF R0, gain, initial
<1>4. \A x, y, z \in Candidate : <<x, y>> \in R0 /\ <<y, z>> \in R0 => <<x, z>> \in R0
  <2>1. \A x, y, z \in Candidate : Before(x, y) /\ Before(y, z) => Before(x, z)
    BY <1>1 DEF Before
  <2> QED BY <1>2, <2>1
<1>5. \A x, y \in Candidate : x = y \/ <<x, y>> \in R0 \/ <<y, x>> \in R0
  <2>1. \A x, y \in Candidate : x = y \/ Before(x, y) \/ Before(y, x)
    BY <1>1 DEF Before
  <2> QED BY <1>2, <2>1
<1>6. \A x \in Candidate : <<x, x>> \notin R0
  <2>1. \A x \in Candidate : ~Before(x, x)
    BY <1>1 DEF Before
  <2> QED BY <1>2, <2>1
<1>7. beats \subseteq Candidate
  BY DEF Scanned
<1>8. CASE \A j \in Candidate : FreeGain(cv, j) <= floor
  <2>1. beats = {}
    <3> SUFFICES ASSUME NEW j \in beats PROVE FALSE
      OBVIOUS
    <3>1. j \in Candidate /\ FreeGain(cv, j) > floor
      BY <1>7
    <3> QED BY <1>1, <1>8, <3>1
  <2> QED BY <1>8, <2>1
<1>9. CASE \E j \in Candidate : ~ (FreeGain(cv, j) <= floor)
  <2>1. PICK j0 \in Candidate : ~ (FreeGain(cv, j0) <= floor)
    BY <1>9
  <2>2. \E top \in Candidate : \A j \in Candidate : FreeGain(cv, j) <= FreeGain(cv, top)
    <3> DEFINE Q == {x \in Candidate \X Candidate : FreeGain(cv, x[2]) <= FreeGain(cv, x[1])}
    <3>1. \A x, y \in Candidate : <<x, y>> \in Q <=> FreeGain(cv, y) <= FreeGain(cv, x)
      OBVIOUS
    <3> HIDE DEF Q
    <3>2. \A x, y, z \in Candidate : <<x, y>> \in Q /\ <<y, z>> \in Q => <<x, z>> \in Q
      BY <1>1, <3>1
    <3>3. \A x, y \in Candidate : x = y \/ <<x, y>> \in Q \/ <<y, x>> \in Q
      <4> SUFFICES ASSUME NEW x \in Candidate, NEW y \in Candidate PROVE <<x, y>> \in Q \/ <<y, x>> \in Q
        OBVIOUS
      <4>1. FreeGain(cv, x) <= FreeGain(cv, y) \/ FreeGain(cv, y) <= FreeGain(cv, x)
        BY <1>1
      <4> QED BY <3>1, <4>1
    <3>6. Candidate # {} /\ IsFiniteSet(Candidate)
      BY <2>1, Candidates
    <3>4. PICK top \in Candidate : \A j \in Candidate \ {top} : <<top, j>> \in Q
      BY <3>2, <3>3, <3>6, Champion
    <3>5. ASSUME NEW j \in Candidate
          PROVE  FreeGain(cv, j) <= FreeGain(cv, top)
      <4>1. j # top => FreeGain(cv, j) <= FreeGain(cv, top)
        BY <3>1, <3>4
      <4>2. FreeGain(cv, top) <= FreeGain(cv, top)
        BY <1>1
      <4> QED BY <4>1, <4>2
    <3> QED BY <3>5
  <2>3. PICK top \in Candidate : \A j \in Candidate : FreeGain(cv, j) <= FreeGain(cv, top)
    BY <2>2
  <2>4. FreeGain(cv, top) > floor
    BY <1>1, <2>1, <2>3
  <2>5. Walk(Candidate, gain, initial, R0, floor, top)
    BY <1>3, <1>4, <1>5, <1>6, <2>3, <2>4, Candidates DEF Walk
  <2>6. PICK b \in Candidate : /\ gain[b] = gain[top]
                               /\ \A i \in Candidate : gain[i] = gain[top] => <<i, b>> \notin R0
                               /\ initial[b] > floor
                               /\ \A i \in Candidate : <<i, b>> \in R0 => initial[b] > gain[i]
    BY <2>5, WalkFinds
  <2>7. FreeGain(cv, b) = FreeGain(cv, top)
    BY <1>3, <2>6
  <2>8. b \in beats
    <3>1. b \in Scanned(cv, floor)
      BY <1>2, <1>3, <2>6 DEF Scanned
    <3> QED BY <2>4, <2>7, <3>1
  <2>9. \A i \in beats : \/ FreeGain(cv, i) < FreeGain(cv, b)
                         \/ FreeGain(cv, i) = FreeGain(cv, b) /\ ~Before(i, b)
    <3> SUFFICES ASSUME NEW i \in beats
                 PROVE  \/ FreeGain(cv, i) < FreeGain(cv, b)
                        \/ FreeGain(cv, i) = FreeGain(cv, b) /\ ~Before(i, b)
      OBVIOUS
    <3>1. i \in Candidate /\ FreeGain(cv, i) \in Nat /\ FreeGain(cv, b) \in Nat /\ FreeGain(cv, i) <= FreeGain(cv, b)
      BY <1>1, <1>7, <2>3, <2>7
    <3>2. FreeGain(cv, i) = FreeGain(cv, b) => ~Before(i, b)
      BY <1>2, <1>3, <2>6, <2>7, <3>1
    <3> QED BY <3>1, <3>2
  <2>10. /\ First(cv, beats) \in beats
         /\ \A i \in beats : \/ FreeGain(cv, i) < FreeGain(cv, First(cv, beats))
                             \/ FreeGain(cv, i) = FreeGain(cv, First(cv, beats)) /\ ~Before(i, First(cv, beats))
    BY <2>8, <2>9 DEF First
  <2>11. First(cv, beats) \in Candidate
    BY <1>7, <2>10
  <2>12. FreeGain(cv, b) <= FreeGain(cv, First(cv, beats))
    BY SMTT(60), <1>1, <2>8, <2>10, <2>11
  <2>13. \A j \in Candidate : FreeGain(cv, j) <= FreeGain(cv, First(cv, beats))
    BY <1>1, <2>3, <2>7, <2>11, <2>12
  <2> QED BY <2>8, <2>10, <2>11, <2>13
<1> QED BY <1>8, <1>9

\* What refine finds for a gateway is no worse than any candidate and than where it was.
LEMMA BestsExact ==
  ASSUME ask.existing \in Seq(Spot),
         NEW cv \in Counts, \A m \in Meter : Base[m] <= cv[m],
         NEW at \in SUBSET Spot, at = {} \/ (\E a \in Spot : at = {a}),
         NEW near \in SUBSET Candidate
  PROVE  /\ \A b \in Bests(cv, at, near) :
              /\ b \in Spot
              /\ \A j \in Candidate : FreeGain(cv, j) <= FreeGain(cv, b)
              /\ \A s \in at : FreeGain(cv, s) <= FreeGain(cv, b)
         /\ Bests(cv, at, near) = {} => at = {}
         /\ at = {} /\ Covered(cv) = N => Bests(cv, at, near) = {}
<1> DEFINE own    == {FreeGain(cv, s) : s \in at} \cup {0}
           start  == CHOOSE g \in own : \A h \in own : h <= g
           better == {j \in near : FreeGain(cv, j) > start}
           firsts == {j \in better : \A i \in better : FreeGain(cv, i) <= FreeGain(cv, j)}
           floor  == IF firsts = {} THEN start ELSE FreeGain(cv, CHOOSE j \in firsts : TRUE)
           beats  == {j \in Scanned(cv, floor) : FreeGain(cv, j) > floor}
           bests  == IF beats # {} THEN {First(cv, beats)} ELSE IF firsts # {} THEN firsts ELSE at
<1>1. Bests(cv, at, near) = bests
  BY DEF Bests
<1>2. \A s \in Spot : FreeGain(cv, s) \in Nat
  BY GainBounds
<1>3. start \in Nat /\ start \in own /\ \A s \in at : FreeGain(cv, s) <= start
  <2>1. CASE at = {}
    <3>1. own = {0}
      BY <2>1
    <3> QED BY <2>1, <3>1
  <2>2. CASE \E a \in Spot : at = {a}
    <3>1. PICK a \in Spot : at = {a}
      BY <2>2
    <3>2. own = {FreeGain(cv, a), 0} /\ FreeGain(cv, a) \in Nat
      BY <1>2, <3>1
    <3>3. FreeGain(cv, a) \in own /\ \A h \in own : h <= FreeGain(cv, a)
      BY <3>2
    <3> HIDE DEF own
    <3>4. start \in own /\ \A h \in own : h <= start
      BY <3>3
    <3> QED BY <3>1, <3>2, <3>4
  <2> QED BY <2>1, <2>2
<1>4. near \subseteq Spot
  BY Candidates
<1> HIDE DEF start
<1>5. firsts # {} \/ better = {}
  <2> SUFFICES ASSUME better # {} PROVE firsts # {}
    OBVIOUS
  <2> DEFINE Q == {x \in better \X better : FreeGain(cv, x[2]) <= FreeGain(cv, x[1])}
  <2>1. \A x, y \in better : <<x, y>> \in Q <=> FreeGain(cv, y) <= FreeGain(cv, x)
    OBVIOUS
  <2>2. \A x \in better : FreeGain(cv, x) \in Nat
    BY <1>2, <1>4
  <2>3. IsFiniteSet(better)
    <3>1. better \subseteq Candidate
      OBVIOUS
    <3> HIDE DEF better
    <3> QED BY <3>1, Candidates, FS_Subset
  <2>0. better # {}
    OBVIOUS
  <2> HIDE DEF Q, better
  <2>4. \A x, y, z \in better : <<x, y>> \in Q /\ <<y, z>> \in Q => <<x, z>> \in Q
    BY <2>1, <2>2
  <2>5. \A x, y \in better : x = y \/ <<x, y>> \in Q \/ <<y, x>> \in Q
    <3> SUFFICES ASSUME NEW x \in better, NEW y \in better PROVE <<x, y>> \in Q \/ <<y, x>> \in Q
      OBVIOUS
    <3>1. FreeGain(cv, x) <= FreeGain(cv, y) \/ FreeGain(cv, y) <= FreeGain(cv, x)
      BY <2>2
    <3> QED BY <2>1, <3>1
  <2>6. PICK top \in better : \A j \in better \ {top} : <<top, j>> \in Q
    BY <2>0, <2>3, <2>4, <2>5, Champion
  <2>7. ASSUME NEW j \in better
        PROVE  FreeGain(cv, j) <= FreeGain(cv, top)
    <3>1. j # top => FreeGain(cv, j) <= FreeGain(cv, top)
      BY <2>1, <2>6
    <3>2. FreeGain(cv, top) <= FreeGain(cv, top)
      BY <2>2
    <3> QED BY <3>1, <3>2
  <2>8. top \in firsts
    BY <2>7
  <2> QED BY <2>8
<1>6. \A j \in firsts : j \in Spot /\ FreeGain(cv, j) > start /\ \A i \in firsts : FreeGain(cv, i) = FreeGain(cv, j)
  <2>1. \A j \in firsts : j \in Spot /\ FreeGain(cv, j) > start
    BY <1>4
  <2>2. \A i, j \in firsts : FreeGain(cv, i) <= FreeGain(cv, j)
    OBVIOUS
  <2>3. \A i, j \in firsts : FreeGain(cv, i) = FreeGain(cv, j)
    BY <1>2, <2>1, <2>2
  <2> QED BY <2>1, <2>3
<1> HIDE DEF firsts, better
<1>7. /\ floor \in Nat /\ start <= floor
      /\ \A j \in firsts : FreeGain(cv, j) = floor
      /\ firsts = {} => floor = start
  <2>1. CASE firsts = {}
    BY <1>3, <2>1
  <2>2. CASE firsts # {}
    <3>1. (CHOOSE j \in firsts : TRUE) \in firsts
      BY <2>2
    <3>2. floor = FreeGain(cv, CHOOSE j \in firsts : TRUE)
      BY <2>2
    <3> HIDE DEF floor
    <3> QED BY <1>2, <1>3, <1>6, <2>2, <3>1, <3>2
  <2> QED BY <2>1, <2>2
<1> HIDE DEF floor
<1>8. /\ beats = {} => \A j \in Candidate : FreeGain(cv, j) <= floor
      /\ beats # {} => /\ First(cv, beats) \in beats /\ First(cv, beats) \in Candidate
                       /\ \A j \in Candidate : FreeGain(cv, j) <= FreeGain(cv, First(cv, beats))
  <2> DEFINE b == beats
  <2>1. b = {j \in Scanned(cv, floor) : FreeGain(cv, j) > floor}
    OBVIOUS
  <2> HIDE DEF b
  <2>2. /\ b = {} => \A j \in Candidate : FreeGain(cv, j) <= floor
        /\ b # {} => /\ First(cv, b) \in b /\ First(cv, b) \in Candidate
                     /\ \A j \in Candidate : FreeGain(cv, j) <= FreeGain(cv, First(cv, b))
    BY <1>7, <2>1, ScannedExact
  <2> QED BY <2>2 DEF b
<1>9. \A j \in beats : FreeGain(cv, j) > floor
  OBVIOUS
<1>10. \A s \in at : FreeGain(cv, s) \in Nat
  BY <1>2
<1> HIDE DEF beats
<1>11. ASSUME NEW b \in bests
       PROVE  /\ b \in Spot
              /\ \A j \in Candidate : FreeGain(cv, j) <= FreeGain(cv, b)
              /\ \A s \in at : FreeGain(cv, s) <= FreeGain(cv, b)
  <2>1. CASE beats # {}
    <3>1. b = First(cv, beats) /\ b \in Candidate /\ b \in Spot
      BY <1>8, <2>1, Candidates
    <3>2. FreeGain(cv, b) > floor /\ FreeGain(cv, b) \in Nat
      BY <1>2, <1>8, <1>9, <2>1, <3>1
    <3>3. \A s \in at : FreeGain(cv, s) <= FreeGain(cv, b)
      BY <1>3, <1>7, <1>10, <3>2
    <3> QED BY <1>8, <2>1, <3>1, <3>3
  <2>2. CASE beats = {} /\ firsts # {}
    <3>1. b \in firsts /\ b \in Spot /\ FreeGain(cv, b) = floor
      BY <1>6, <1>7, <2>2
    <3>3. \A s \in at : FreeGain(cv, s) <= FreeGain(cv, b)
      BY <1>3, <1>7, <1>10, <3>1
    <3> QED BY <1>8, <2>2, <3>1, <3>3
  <2>3. CASE beats = {} /\ firsts = {}
    <3>1. b \in at /\ at = {b} /\ b \in Spot /\ floor = start
      BY <1>7, <2>3
    <3>2. own = {FreeGain(cv, b), 0} /\ FreeGain(cv, b) \in Nat /\ FreeGain(cv, b) <= start
      BY <1>2, <1>3, <3>1
    <3>3. start = FreeGain(cv, b)
      BY <1>3, <3>2
    <3> QED BY <1>8, <2>3, <3>1, <3>2, <3>3
  <2> QED BY <2>1, <2>2, <2>3
<1>12. bests = {} => at = {}
  OBVIOUS
<1>13. ASSUME at = {}, Covered(cv) = N
       PROVE  bests = {}
  <2>1. \A j \in Candidate : FreeGain(cv, j) = 0
    BY <1>13, NothingLeft
  <2>2. beats = {}
    BY <1>7, <1>8, <1>9, <2>1
  <2>3. firsts = {}
    BY <1>3, <1>6, <2>1 DEF firsts, better
  <2> QED BY <1>13, <2>2, <2>3
<1> QED BY <1>1, <1>11, <1>12, <1>13

LEMMA AskTypes ==
  ASSUME ask \in Asks
  PROVE  ask.existing \in Seq(Spot) /\ ask.k \in Nat /\ ask.min \in Nat \ {0} /\ ask.target \in Nat
BY PlacementAssumption

\* What the invariant says of the count.
LEMMA CovIs ==
  ASSUME PlaceInv
  PROVE  /\ cov \in Counts
         /\ \A m \in Meter : Base[m] <= cov[m]
         /\ Covered(cov) \in Nat /\ Covered(cov) <= N /\ N \in Nat
         /\ phase # "curve" => cov = Total(ask.existing, chosen, <<>>)
         /\ phase = "curve" => cov = Total(ask.existing, chosen, picks)
<1> DEFINE beyond == IF phase = "curve" THEN picks ELSE <<>>
<1>1. ask.existing \in Seq(Spot) /\ chosen \in Seq(Spot) /\ beyond \in Seq(Spot)
      /\ cov = Total(ask.existing, chosen, beyond)
  BY AskTypes DEF PlaceInv, PlaceTypes, Booked
<1> HIDE DEF beyond
<1>2. cov \in Counts
  BY <1>1, TotalType
<1>3. \A m \in Meter : Base[m] <= cov[m]
  BY <1>1, BaseIs
<1>4. Covered(cov) \in Nat
  BY CoveredFinite
<1>5. Covered(cov) <= N
  BY <1>2, NothingLeft
<1>6. N \in Nat
  BY SpaceAssumption, FS_CardinalityType DEF N
<1> QED BY <1>1, <1>2, <1>3, <1>4, <1>5, <1>6 DEF beyond

-----------------------------------------------------------------------------
(* The heap                                                                *)

LEMMA PushedIs ==
  ASSUME NEW cv \in Counts
  PROVE  /\ IsFiniteSet(Pushed(cv))
         /\ Pushed(cv) \subseteq [gain : Nat, cand : Candidate, stamp : Nat]
         /\ \A e, f \in Pushed(cv) : e.cand = f.cand => e = f
         /\ \A e \in Pushed(cv) : e.gain = FreeGain(cv, e.cand) /\ e.stamp = 0
         /\ \A j \in Candidate : FreeGain(cv, j) > 0 => \E e \in Pushed(cv) : e.cand = j
<1> DEFINE S == {j \in Candidate : FreeGain(cv, j) > 0}
           entry(j) == [gain |-> FreeGain(cv, j), cand |-> j, stamp |-> 0]
           f == [j \in S |-> entry(j)]
           T == Pushed(cv)
<1>1. T = {entry(j) : j \in S}
  BY DEF Pushed
<1>2. \A j \in S : FreeGain(cv, j) \in Nat /\ j \in Candidate
  BY Candidates, GainBounds
<1>3. IsFiniteSet(S)
  <2>1. S \subseteq Candidate
    OBVIOUS
  <2> HIDE DEF S
  <2> QED BY <2>1, Candidates, FS_Subset
<1>4. f \in Surjection(S, T)
  <2>1. f \in [S -> T]
    BY <1>1
  <2>2. \A e \in T : \E j \in S : f[j] = e
    BY <1>1
  <2> HIDE DEF f, T, S
  <2> QED BY <2>1, <2>2 DEF Surjection
<1>5. IsFiniteSet(T)
  <2> HIDE DEF f, T, S
  <2> QED BY <1>3, <1>4, FS_Surjection
<1>6. T \subseteq [gain : Nat, cand : Candidate, stamp : Nat]
  BY <1>1, <1>2
<1>7. \A e \in T : e.gain = FreeGain(cv, e.cand) /\ e.stamp = 0
  BY <1>1
<1>8. \A e, g \in T : e.cand = g.cand => e = g
  BY <1>1
<1>9. \A j \in Candidate : FreeGain(cv, j) > 0 => \E e \in T : e.cand = j
  <2> SUFFICES ASSUME NEW j \in Candidate, FreeGain(cv, j) > 0 PROVE \E e \in T : e.cand = j
    OBVIOUS
  <2>1. entry(j) \in T /\ entry(j).cand = j
    BY <1>1
  <2> QED BY <2>1
<1> QED BY <1>5, <1>6, <1>7, <1>8, <1>9

\* The top is above all the others.
LEMMA TopIs ==
  ASSUME Heaped, heap # {}
  PROVE  /\ Top \in heap
         /\ \A f \in heap \ {Top} : Above(Top, f)
<1> DEFINE Q == {x \in heap \X heap : Above(x[1], x[2])}
<1>1. \A x, y \in heap : <<x, y>> \in Q <=> Above(x, y)
  OBVIOUS
<1>2. \A x \in heap : x.gain \in Nat /\ x.cand \in Nat
  BY Candidates DEF Heaped
<1> HIDE DEF Q
<1>3. \A x, y, z \in heap : <<x, y>> \in Q /\ <<y, z>> \in Q => <<x, z>> \in Q
  <2>1. \A x, y, z \in heap : Above(x, y) /\ Above(y, z) => Above(x, z)
    BY <1>2 DEF Above
  <2> QED BY <1>1, <2>1
<1>4. \A x, y \in heap : x = y \/ <<x, y>> \in Q \/ <<y, x>> \in Q
  <2>1. \A x, y \in heap : x.cand # y.cand => Above(x, y) \/ Above(y, x)
    BY <1>2 DEF Above
  <2>2. \A x, y \in heap : x.cand = y.cand => x = y
    BY DEF Heaped
  <2> QED BY <1>1, <2>1, <2>2
<1>5. IsFiniteSet(heap)
  BY DEF Heaped
<1>6. PICK e \in heap : \A f \in heap \ {e} : <<e, f>> \in Q
  BY <1>3, <1>4, <1>5, Champion
<1>7. \A f \in heap \ {e} : Above(e, f)
  BY <1>1, <1>6
<1> QED BY <1>6, <1>7 DEF Top

\* Where nothing is searched there is no heap.
LEMMA QuietHeap ==
  ASSUME Heaped, phase \notin {"greedy", "curve"}, phase' \notin {"greedy", "curve"}, heap' = heap
  PROVE  Heaped'
<1>1. heap = {} /\ heap' = {}
  BY DEF Heaped
<1>2. IsFiniteSet(heap')
  BY <1>1, FS_EmptySet
<1> QED BY <1>1, <1>2 DEF Heaped

-----------------------------------------------------------------------------
LEMMA PlaceInitially ==
  ASSUME PlaceStart("round") \/ PlaceStart("idle")
  PROVE  PlaceInv
<1> USE DEF PlaceStart
<1>1. <<>> \in Seq(Spot) /\ Len(<<>>) = 0
  OBVIOUS
<1>2. PlaceTypes
  <2>1. NoLoop \in [t : Int, from : Int, pass : Nat, improved : BOOLEAN, for : {"round", "try", "pairs"}]
    BY DEF NoLoop
  <2>2. NoPair \in [attempt : Nat, tries : Nat, before : Nat, saved : Seq(Spot), put : 0 .. 2,
                    improved : BOOLEAN]
    BY <1>1 DEF NoPair
  <2>3. phase \in PlacePhases
    BY DEF PlacePhases
  <2>4. ask \in Asks /\ chosen = <<>> /\ picks = <<>> /\ stamp = 0 /\ loop = NoLoop /\ pair = NoPair
    OBVIOUS
  <2> QED BY <1>1, <2>1, <2>2, <2>3, <2>4 DEF PlaceTypes
<1>3. cov = Base /\ ask.existing \in Seq(Spot) /\ chosen = <<>> /\ picks = <<>> /\ heap = {}
      /\ phase \in {"idle", "round"} /\ ask.k \in Nat
  BY AskTypes
<1>4. Booked
  BY <1>3, BaseIs DEF Booked
<1>5. Heaped
  BY <1>3, FS_EmptySet DEF Heaped
<1>6. Sizes
  BY <1>1, <1>3 DEF Sizes, Trying
<1> QED BY <1>2, <1>4, <1>5, <1>6 DEF PlaceInv

LEMMA StartRoundKeeps ==
  ASSUME PlaceInv, StartRound
  PROVE  PlaceInv'
<1> USE DEF StartRound
<1>1. PlaceTypes'
  BY DEF PlaceInv, PlaceTypes, PlacePhases
<1>2. Booked'
  BY DEF PlaceInv, Booked
<1>3. Heaped'
  <2>1. heap' = Pushed(cov) /\ cov' = cov /\ stamp' = 0
    OBVIOUS
  <2>2. /\ IsFiniteSet(heap') /\ heap' \subseteq [gain : Nat, cand : Candidate, stamp : Nat]
        /\ \A e, f \in heap' : e.cand = f.cand => e = f
        /\ \A e \in heap' : e.gain = FreeGain(cov, e.cand) /\ e.stamp = 0
        /\ \A j \in Candidate : FreeGain(cov, j) > 0 => \E e \in heap' : e.cand = j
    BY <2>1, CovIs, PushedIs
  <2>3. \A e \in heap' : e.gain \in Nat
    BY <2>2
  <2>4. \A e \in heap' : /\ e.gain >= FreeGain(cov, e.cand) /\ e.stamp <= 0
                         /\ e.stamp = 0 => e.gain = FreeGain(cov, e.cand)
    BY <2>2, <2>3
  <2> QED BY <2>1, <2>2, <2>4 DEF Heaped
<1>4. Sizes'
  BY DEF PlaceInv, Sizes, Trying
<1> QED BY <1>1, <1>2, <1>3, <1>4 DEF PlaceInv

LEMMA RefreshKeeps ==
  ASSUME PlaceInv, Refresh
  PROVE  PlaceInv'
<1> USE DEF Refresh
<1>1. PlaceTypes'
  BY DEF PlaceInv, PlaceTypes
<1>2. Booked'
  BY DEF PlaceInv, Booked
<1>3. Heaped'
  <2> DEFINE g == FreeGain(cov, Top.cand)
             fresh == [gain |-> g, cand |-> Top.cand, stamp |-> stamp]
             rest == heap \ {Top}
  <2>1. Heaped /\ Top \in heap /\ cov' = cov /\ stamp' = stamp /\ phase' = phase /\ chosen' = chosen
        /\ stamp \in Nat /\ phase \in {"greedy", "curve"}
    BY TopIs DEF PlaceInv, PlaceTypes
  <2>2. heap' = IF g > 0 THEN rest \cup {fresh} ELSE rest
    OBVIOUS
  <2>3. Top.cand \in Candidate /\ g \in Nat
    BY <2>1, Candidates, GainBounds DEF Heaped
  <2>4. fresh \in [gain : Nat, cand : Candidate, stamp : Nat] /\ fresh.gain = g
        /\ fresh.cand = Top.cand /\ fresh.stamp = stamp
    BY <2>1, <2>3
  <2>5. \A e \in rest : e \in heap /\ e.cand # Top.cand
    BY <2>1 DEF Heaped
  <2>6. IsFiniteSet(rest) /\ IsFiniteSet(rest \cup {fresh})
    BY <2>1, FS_RemoveElement, FS_AddElement DEF Heaped
  <2> HIDE DEF rest, fresh
  <2>7. IsFiniteSet(heap')
    BY <2>2, <2>6
  <2>8. heap' \subseteq [gain : Nat, cand : Candidate, stamp : Nat]
    BY <2>1, <2>2, <2>4, <2>5 DEF Heaped
  <2>9. \A e, f \in heap' : e.cand = f.cand => e = f
    <3>1. \A e, f \in rest : e.cand = f.cand => e = f
      BY <2>1, <2>5 DEF Heaped
    <3> QED BY <2>2, <2>4, <2>5, <3>1
  <2>10. \A e \in heap' : /\ e.gain >= FreeGain(cov, e.cand) /\ e.stamp <= stamp
                          /\ e.stamp = stamp => e.gain = FreeGain(cov, e.cand)
    <3>1. \A e \in rest : /\ e.gain >= FreeGain(cov, e.cand) /\ e.stamp <= stamp
                          /\ e.stamp = stamp => e.gain = FreeGain(cov, e.cand)
      BY <2>1, <2>5 DEF Heaped
    <3>2. fresh.gain >= FreeGain(cov, fresh.cand) /\ fresh.stamp <= stamp /\ fresh.gain = FreeGain(cov, fresh.cand)
      BY <2>1, <2>3, <2>4
    <3> QED BY <2>2, <3>1, <3>2
  <2>11. ASSUME phase = "greedy" \/ (phase = "curve" /\ Len(chosen) < CurveLimit),
                NEW j \in Candidate, FreeGain(cov, j) > 0
         PROVE  \E e \in heap' : e.cand = j
    <3>1. PICK e \in heap : e.cand = j
      BY <2>1, <2>11 DEF Heaped
    <3>2. CASE e = Top
      <4>1. fresh \in heap' /\ fresh.cand = j
        BY <2>2, <2>4, <2>11, <3>1, <3>2
      <4> QED BY <4>1
    <3>3. CASE e # Top
      BY <2>2, <3>1, <3>3 DEF rest
    <3> QED BY <3>2, <3>3
  <2> QED BY <2>1, <2>7, <2>8, <2>9, <2>10, <2>11 DEF Heaped
<1>4. Sizes'
  BY DEF PlaceInv, Sizes, Trying, Fits
<1> QED BY <1>1, <1>2, <1>3, <1>4 DEF PlaceInv

\* What is picked is current, is worth it, and nothing is worth more.
LEMMA PickedIsBest ==
  ASSUME PlaceInv, Pick
  PROVE  /\ Top \in heap /\ Top.cand \in Candidate /\ FreeGain(cov, Top.cand) > 0
         /\ \A j \in Candidate : \/ FreeGain(cov, j) < FreeGain(cov, Top.cand)
                                 \/ FreeGain(cov, j) = FreeGain(cov, Top.cand) /\ Top.cand <= j
<1>1. /\ Heaped /\ heap # {} /\ Top.stamp = stamp /\ Top.gain >= Goal.min
      /\ Len(Goal.list) < Goal.limit /\ phase \in {"greedy", "curve"}
  BY DEF Pick, Current, Worth, PlaceInv
<1>2. Top \in heap /\ \A f \in heap \ {Top} : Above(Top, f)
  BY <1>1, TopIs
<1>3. Top.cand \in Candidate /\ Top.gain = FreeGain(cov, Top.cand) /\ Top.gain \in Nat
  BY <1>1, <1>2 DEF Heaped
<1>4. Goal.min \in Nat \ {0}
  <2>1. ask.min \in Nat \ {0}
    BY AskTypes DEF PlaceInv, PlaceTypes
  <2> QED BY <2>1 DEF Goal
<1>5. Top.gain > 0
  BY <1>1, <1>3, <1>4
<1>6. phase = "greedy" \/ (phase = "curve" /\ Len(chosen) < CurveLimit)
  <2> SUFFICES ASSUME phase = "curve" PROVE Len(chosen) < CurveLimit
    BY <1>1
  <2>1. Goal.list = picks /\ Goal.limit = CurveLimit - Len(chosen)
    BY DEF Goal
  <2>2. Len(picks) \in Nat /\ Len(chosen) \in Nat /\ CurveLimit \in Nat
    BY LenProperties, PlacementAssumption DEF PlaceInv, PlaceTypes
  <2> QED BY <1>1, <2>1, <2>2
<1>7. ASSUME NEW j \in Candidate
      PROVE  \/ FreeGain(cov, j) < FreeGain(cov, Top.cand)
             \/ FreeGain(cov, j) = FreeGain(cov, Top.cand) /\ Top.cand <= j
  <2>1. FreeGain(cov, j) \in Nat /\ j \in Nat /\ Top.cand \in Nat
    BY <1>3, Candidates, GainBounds
  <2>2. CASE FreeGain(cov, j) = 0
    BY <1>3, <1>5, <2>2
  <2>3. CASE FreeGain(cov, j) > 0
    <3>1. PICK e \in heap : e.cand = j
      BY <1>1, <1>6, <2>3 DEF Heaped
    <3>2. e.gain >= FreeGain(cov, j) /\ e.gain \in Nat
      BY <1>1, <3>1 DEF Heaped
    <3>3. CASE e = Top
      BY <1>3, <2>1, <3>1, <3>3
    <3>4. CASE e # Top
      <4>1. Top.gain > e.gain \/ (Top.gain = e.gain /\ Top.cand < e.cand)
        BY <1>2, <3>4 DEF Above
      <4> QED BY <1>3, <2>1, <3>1, <3>2, <4>1
    <3> QED BY <3>3, <3>4
  <2> QED BY <2>1, <2>2, <2>3
<1> QED BY <1>2, <1>3, <1>5, <1>7

LEMMA PickKeeps ==
  ASSUME PlaceInv, Pick
  PROVE  PlaceInv'
<1> DEFINE c == Top.cand
<1>1. /\ phase \in {"greedy", "curve"} /\ phase' = phase /\ ask' = ask /\ loop' = loop /\ pair' = pair
      /\ cov' = Placed(cov, c) /\ heap' = heap \ {Top} /\ stamp' = stamp + 1
      /\ phase = "greedy" => chosen' = Append(chosen, c) /\ picks' = picks
      /\ phase = "curve" => picks' = Append(picks, c) /\ chosen' = chosen
      /\ Len(Goal.list) < Goal.limit
  BY DEF Pick, Worth
<1>2. Top \in heap /\ c \in Candidate /\ c \in Spot
  BY PickedIsBest, Candidates
<1>3. /\ ask.existing \in Seq(Spot) /\ ask.k \in Nat /\ chosen \in Seq(Spot) /\ picks \in Seq(Spot)
      /\ stamp \in Nat /\ Len(chosen) \in Nat /\ <<>> \in Seq(Spot)
  BY AskTypes, LenProperties DEF PlaceInv, PlaceTypes
<1>4. /\ Append(chosen, c) \in Seq(Spot) /\ Append(picks, c) \in Seq(Spot)
      /\ Len(Append(chosen, c)) = Len(chosen) + 1
  BY <1>2, <1>3, AppendProperties
<1> HIDE DEF c
<1>5. PlaceTypes'
  <2>1. chosen' \in Seq(Spot) /\ picks' \in Seq(Spot)
    <3>1. CASE phase = "greedy"
      BY <1>1, <1>3, <1>4, <3>1
    <3>2. CASE phase = "curve"
      BY <1>1, <1>3, <1>4, <3>2
    <3> QED BY <1>1, <3>1, <3>2
  <2>2. stamp' \in Nat
    BY <1>1, <1>3
  <2> QED BY <1>1, <2>1, <2>2 DEF PlaceInv, PlaceTypes
<1>6. Booked'
  <2>1. CASE phase = "greedy"
    <3>1. cov = Total(ask.existing, chosen, <<>>) /\ picks = <<>>
      BY <2>1, CovIs DEF PlaceInv, Booked
    <3>2. cov' = Total(ask.existing, Append(chosen, c), <<>>)
      BY ZenonT(60), <1>1, <1>2, <1>3, <3>1, TotalPlaced
    <3> QED BY <1>1, <2>1, <3>1, <3>2 DEF Booked
  <2>2. CASE phase = "curve"
    <3>1. cov = Total(ask.existing, chosen, picks)
      BY <2>2, CovIs
    <3>2. cov' = Total(ask.existing, chosen, Append(picks, c))
      BY <1>1, <1>2, <1>3, <3>1, TotalPlaced
    <3> QED BY <1>1, <2>2, <3>2 DEF Booked
  <2> QED BY <1>1, <2>1, <2>2
<1>7. \A j \in Candidate : FreeGain(cov', j) <= FreeGain(cov, j) /\ FreeGain(cov', j) \in Nat /\ FreeGain(cov, j) \in Nat
  <2> SUFFICES ASSUME NEW j \in Candidate
               PROVE  FreeGain(Placed(cov, c), j) <= FreeGain(cov, j) /\ FreeGain(Placed(cov, c), j) \in Nat
                      /\ FreeGain(cov, j) \in Nat
    BY <1>1
  <2>1. j \in Spot /\ cov \in Counts /\ Placed(cov, c) \in Counts
    BY <1>2, Candidates, CovIs, PlacedCovers
  <2>2. \A m \in Reach[j] : cov[m] <= Placed(cov, c)[m]
    BY <2>1, ReachFinite DEF Placed, Counts
  <2> QED BY <2>1, <2>2, GainFalls, GainBounds
<1>8. FreeGain(cov', c) = 0
  <2>1. \A m \in Reach[c] : m \in Meter /\ cov[m] \in Nat
    BY <1>2, CovIs, ReachFinite DEF Counts
  <2>2. {m \in Reach[c] : Placed(cov, c)[m] = 0} = {}
    BY <2>1 DEF Placed
  <2> QED BY <1>1, <2>2, FS_EmptySet DEF FreeGain
<1>9. Heaped'
  <2>1. Heaped
    BY DEF PlaceInv
  <2>2. IsFiniteSet(heap')
    BY <1>1, <2>1, FS_RemoveElement DEF Heaped
  <2>3. heap' \subseteq [gain : Nat, cand : Candidate, stamp : Nat] /\ (\A e, f \in heap' : e.cand = f.cand => e = f)
    BY <1>1, <2>1 DEF Heaped
  <2>4. ASSUME NEW e \in heap'
        PROVE  /\ e.gain >= FreeGain(cov', e.cand) /\ e.stamp <= stamp'
               /\ e.stamp = stamp' => e.gain = FreeGain(cov', e.cand)
    <3>1. e \in heap /\ e.gain \in Nat /\ e.cand \in Candidate /\ e.stamp \in Nat
          /\ e.gain >= FreeGain(cov, e.cand) /\ e.stamp <= stamp
      BY <1>1, <2>1 DEF Heaped
    <3> QED BY <1>1, <1>3, <1>7, <3>1
  <2>5. ASSUME phase' = "greedy" \/ (phase' = "curve" /\ Len(chosen') < CurveLimit),
               NEW j \in Candidate, FreeGain(cov', j) > 0
        PROVE  \E e \in heap' : e.cand = j
    <3>1. phase = "greedy" \/ (phase = "curve" /\ Len(chosen) < CurveLimit)
      BY <1>1, <2>5
    <3>2. FreeGain(cov, j) > 0 /\ j # c
      BY <1>7, <1>8, <2>5
    <3>3. PICK e \in heap : e.cand = j
      BY <2>1, <3>1, <3>2 DEF Heaped
    <3>4. e # Top
      BY <3>2, <3>3 DEF c
    <3> QED BY <1>1, <3>3, <3>4
  <2> QED BY <1>1, <2>2, <2>3, <2>4, <2>5 DEF Heaped
<1>10. Sizes'
  <2>1. Len(chosen') <= ask'.k
    <3>1. CASE phase = "greedy"
      <4>1. Goal.list = chosen /\ Goal.limit = ask.k
        BY <3>1 DEF Goal
      <4> QED BY <1>1, <1>3, <1>4, <3>1, <4>1
    <3>2. CASE phase = "curve"
      BY <1>1, <3>2 DEF PlaceInv, Sizes
    <3> QED BY <1>1, <3>1, <3>2
  <2> QED BY <1>1, <2>1 DEF Sizes, Trying
<1> QED BY <1>5, <1>6, <1>9, <1>10 DEF PlaceInv

\* Greedy is over, for the plan.
LEMMA EndGreedyKeeps ==
  ASSUME PlaceInv, EndGreedy
  PROVE  PlaceInv'
<1> USE DEF EndGreedy, RefineFrom
<1>1. PlaceTypes'
  <2>1. loop' \in [t : Int, from : Int, pass : Nat, improved : BOOLEAN, for : {"round", "try", "pairs"}]
    OBVIOUS
  <2> QED BY <2>1 DEF PlaceInv, PlaceTypes, PlacePhases
<1>2. Booked'
  BY DEF PlaceInv, Booked
<1>3. Heaped'
  BY FS_EmptySet DEF Heaped
<1>4. Sizes'
  BY DEF PlaceInv, Sizes, Trying
<1> QED BY <1>1, <1>2, <1>3, <1>4 DEF PlaceInv

-----------------------------------------------------------------------------
(* The local search                                                        *)

\* A step of refine leaves things as they are, or moves one gateway to where no
\* candidate reaches more and it reaches no less than before.
LEMMA ImproveDoes ==
  ASSUME PlaceInv, Improve
  PROVE  \/ loop.t < 1 /\ chosen' = chosen /\ cov' = cov
         \/ /\ loop.t \in DOMAIN chosen
            /\ \E p \in Spot :
                 LET lifted == Lifted(cov, chosen[loop.t])
                 IN  /\ chosen' = [chosen EXCEPT ![loop.t] = p]
                     /\ cov' = Placed(lifted, p)
                     /\ lifted \in Counts
                     /\ FreeGain(lifted, chosen[loop.t]) <= FreeGain(lifted, p)
                     /\ \A j \in Candidate : FreeGain(lifted, j) <= FreeGain(lifted, p)
                     /\ Covered(cov) <= Covered(cov')
<1> DEFINE t == loop.t
           at == IF t < 1 THEN {} ELSE {chosen[t]}
           lifted == IF t < 1 THEN cov ELSE Lifted(cov, chosen[t])
           near == UNION {Near(s) : s \in at}
           bests == Bests(lifted, at, near)
<1>1. /\ phase = "refine" /\ t <= Len(chosen) /\ t \in Int
      /\ ask.existing \in Seq(Spot) /\ chosen \in Seq(Spot) /\ <<>> \in Seq(Spot)
      /\ cov = Total(ask.existing, chosen, <<>>) /\ cov \in Counts
  <2>1. phase = "refine" /\ t <= Len(chosen)
    BY DEF Improve
  <2>2. t \in Int /\ ask.existing \in Seq(Spot) /\ chosen \in Seq(Spot) /\ <<>> \in Seq(Spot)
    BY AskTypes DEF PlaceInv, PlaceTypes
  <2> QED BY <2>1, <2>2, CovIs
<1>2. /\ bests = {} => chosen' = chosen /\ cov' = cov
      /\ bests # {} => \E best \in bests : \E p \in Polished(lifted, FreeGain(lifted, best)) :
                         /\ chosen' = IF at = {} THEN chosen ELSE [chosen EXCEPT ![t] = p]
                         /\ cov' = Placed(lifted, p)
  BY DEF Improve
<1>3. near \in SUBSET Candidate
  BY DEF Near
<1>4. CASE t < 1
  <2>1. Covered(cov) = N
    BY <1>1, <1>4 DEF PlaceInv, Sizes
  <2>2. at = {} /\ lifted = cov
    BY <1>4
  <2>3. bests = {}
    <3> HIDE DEF at, lifted, near
    <3>1. cov \in Counts /\ \A m \in Meter : Base[m] <= cov[m]
      BY CovIs
    <3>2. at \in SUBSET Spot
      BY <2>2
    <3> QED BY <1>1, <1>3, <2>1, <2>2, <3>1, <3>2, BestsExact
  <2> QED BY <1>2, <1>4, <2>3
<1>5. CASE ~ (t < 1)
  <2>1. t \in DOMAIN chosen
    BY <1>1, <1>5, LenProperties
  <2> DEFINE a == chosen[t]
  <2>2. at = {a} /\ lifted = Lifted(cov, a)
    BY <1>5
  <2>3. a \in Spot /\ lifted = Total(ask.existing, Without(chosen, {t}), <<>>) /\ \A m \in Reach[a] : cov[m] > 0
    <3> HIDE DEF t, at, near
    <3> QED BY <1>1, <2>1, <2>2, TotalLifted
  <2>4. lifted \in Counts /\ \A m \in Meter : Base[m] <= lifted[m]
    <3>1. Without(chosen, {t}) \in Seq(Spot)
      BY <1>1, <2>1, WithoutOne
    <3> HIDE DEF lifted, t
    <3> QED BY <1>1, <2>3, <3>1, TotalType, BaseIs
  <2> HIDE DEF at, lifted, near, a
  <2>5. /\ \A b \in bests : /\ b \in Spot
                            /\ \A j \in Candidate : FreeGain(lifted, j) <= FreeGain(lifted, b)
                            /\ \A s \in at : FreeGain(lifted, s) <= FreeGain(lifted, b)
        /\ bests # {}
    <3>1. at \in SUBSET Spot /\ (\E s \in Spot : at = {s}) /\ at # {}
      BY <2>2, <2>3
    <3> QED BY <1>1, <1>3, <2>4, <3>1, BestsExact
  <2>6. PICK best \in bests, p \in Spot :
                         /\ FreeGain(lifted, p) >= FreeGain(lifted, best)
                         /\ chosen' = [chosen EXCEPT ![t] = p]
                         /\ cov' = Placed(lifted, p)
    BY <1>2, <2>2, <2>5 DEF Polished
  <2>7. \A s \in Spot : FreeGain(lifted, s) \in Nat
    BY GainBounds
  <2>11. /\ best \in Spot /\ FreeGain(lifted, best) \in Nat /\ FreeGain(lifted, p) \in Nat
         /\ FreeGain(lifted, a) <= FreeGain(lifted, best)
         /\ \A j \in Candidate : FreeGain(lifted, j) <= FreeGain(lifted, best)
    BY <2>2, <2>5, <2>6, <2>7
  <2>8. FreeGain(lifted, a) <= FreeGain(lifted, p)
    <3>1. FreeGain(lifted, a) \in Nat
      BY <2>3, <2>7
    <3> QED BY <2>6, <2>11, <3>1
  <2>9. \A j \in Candidate : FreeGain(lifted, j) <= FreeGain(lifted, p)
    BY <2>6, <2>7, <2>11, Candidates
  <2>10. Covered(cov) <= Covered(cov')
    <3>1. cov = Placed(lifted, a)
      BY <1>1, <2>2, <2>3, LiftedCovers
    <3>2. Covered(cov) = Covered(lifted) + FreeGain(lifted, a)
      BY <2>3, <2>4, <3>1, PlacedCovers
    <3>3. Covered(cov') = Covered(lifted) + FreeGain(lifted, p)
      BY <2>4, <2>6, PlacedCovers
    <3>4. Covered(lifted) \in Nat
      BY CoveredFinite
    <3>5. FreeGain(lifted, a) \in Nat /\ FreeGain(lifted, p) \in Nat
      BY <2>3, <2>7
    <3> QED BY <2>8, <3>2, <3>3, <3>4, <3>5
  <2> QED BY <2>1, <2>2, <2>4, <2>6, <2>8, <2>9, <2>10 DEF a
<1> QED BY <1>4, <1>5

LEMMA ImproveKeeps ==
  ASSUME PlaceInv, Improve
  PROVE  PlaceInv'
<1>1. /\ phase = "refine" /\ phase' = "refine" /\ ask' = ask /\ pair' = pair /\ picks' = picks /\ heap' = heap
      /\ stamp' = stamp /\ loop.t \in Int
      /\ chosen \in Seq(Spot) /\ Len(chosen) \in Nat /\ ask.existing \in Seq(Spot) /\ <<>> \in Seq(Spot)
  <2>1. /\ phase = "refine" /\ phase' = "refine" /\ ask' = ask /\ pair' = pair /\ picks' = picks /\ heap' = heap
        /\ stamp' = stamp
    BY DEF Improve
  <2>2. loop.t \in Int /\ chosen \in Seq(Spot) /\ ask.existing \in Seq(Spot) /\ <<>> \in Seq(Spot)
    BY AskTypes DEF PlaceInv, PlaceTypes
  <2> QED BY <2>1, <2>2, LenProperties
<1>2. /\ loop'.t = loop.t + 1 /\ loop'.from = loop.from /\ loop'.for = loop.for
      /\ loop' \in [t : Int, from : Int, pass : Nat, improved : BOOLEAN, for : {"round", "try", "pairs"}]
  <2>1. \/ loop' = [loop EXCEPT !.t = @ + 1]
        \/ \E gain, start : loop' = [loop EXCEPT !.t = @ + 1, !.improved = @ \/ gain > start]
    BY DEF Improve
  <2>2. loop \in [t : Int, from : Int, pass : Nat, improved : BOOLEAN, for : {"round", "try", "pairs"}]
    BY DEF PlaceInv, PlaceTypes
  <2>3. ASSUME NEW gain, NEW start, loop' = [loop EXCEPT !.t = @ + 1, !.improved = @ \/ gain > start]
        PROVE  /\ loop'.t = loop.t + 1 /\ loop'.from = loop.from /\ loop'.for = loop.for
               /\ loop' \in [t : Int, from : Int, pass : Nat, improved : BOOLEAN, for : {"round", "try", "pairs"}]
    <3>1. (loop.improved \/ gain > start) \in BOOLEAN /\ loop.t + 1 \in Int
      BY <2>2
    <3> QED BY <2>2, <2>3, <3>1
  <2>4. CASE loop' = [loop EXCEPT !.t = @ + 1]
    BY <2>2, <2>4
  <2> QED BY <2>1, <2>3, <2>4
<1>3. /\ chosen' \in Seq(Spot) /\ Len(chosen') = Len(chosen)
      /\ cov' = Total(ask.existing, chosen', <<>>)
      /\ Covered(cov) <= Covered(cov')
  <2>1. cov = Total(ask.existing, chosen, <<>>)
    BY <1>1, CovIs
  <2>2. CASE chosen' = chosen /\ cov' = cov
    BY <1>1, <2>1, <2>2, CovIs
  <2>3. CASE loop.t \in DOMAIN chosen /\ \E p \in Spot :
                 /\ chosen' = [chosen EXCEPT ![loop.t] = p]
                 /\ cov' = Placed(Lifted(cov, chosen[loop.t]), p)
                 /\ Covered(cov) <= Covered(cov')
    <3>1. PICK p \in Spot : /\ chosen' = [chosen EXCEPT ![loop.t] = p]
                            /\ cov' = Placed(Lifted(cov, chosen[loop.t]), p)
                            /\ Covered(cov) <= Covered(cov')
      BY <2>3
    <3>2. loop.t \in DOMAIN chosen
      BY <2>3
    <3>3. chosen' \in Seq(Spot) /\ Len(chosen') = Len(chosen)
      <4>1. Replaced(chosen, loop.t, p, chosen')
        BY <3>1 DEF Replaced
      <4> QED BY <1>1, <3>2, <4>1, CountReplaced
    <3>4. cov' = Total(ask.existing, chosen', <<>>)
      <4>1. p \in Spot /\ chosen \in Seq(Spot) /\ ask.existing \in Seq(Spot) /\ <<>> \in Seq(Spot)
        BY <1>1
      <4>2. Replaced(chosen, loop.t, p, chosen')
        BY <3>1 DEF Replaced
      <4>3. Placed(Lifted(Total(ask.existing, chosen, <<>>), chosen[loop.t]), p) = Total(ask.existing, chosen', <<>>)
        BY <3>2, <4>1, <4>2, TotalMovedAlone
      <4> QED BY <2>1, <3>1, <4>3
    <3> QED BY <3>1, <3>3, <3>4
  <2> QED BY <2>2, <2>3, ImproveDoes
<1>4. PlaceTypes'
  BY <1>1, <1>2, <1>3 DEF PlaceInv, PlaceTypes
<1>5. Booked'
  BY <1>1, <1>3 DEF PlaceInv, Booked
<1>6. Heaped'
  BY <1>1, QuietHeap DEF PlaceInv
<1>7. Covered(cov) = N => Covered(cov') = N
  <2>1. cov' \in Counts
    BY <1>1, <1>3, TotalType
  <2>2. Covered(cov') <= N /\ Covered(cov') \in Nat /\ N \in Nat
    BY <2>1, CoveredFinite, NothingLeft, CovIs
  <2> QED BY <1>3, <2>2
<1>8. Sizes'
  <2>1. loop'.t < 1 \/ loop'.from < 1 => Covered(cov') = N
    BY <1>1, <1>2, <1>7 DEF PlaceInv, Sizes
  <2>2. Trying' => Fits'
    <3> SUFFICES ASSUME loop.for = "try" PROVE Fits'
      BY <1>1, <1>2 DEF Trying
    <3>1. Fits
      BY <1>1 DEF PlaceInv, Sizes, Trying
    <3> QED BY <1>1, <1>3, <1>7, <3>1 DEF Fits
  <2>3. Len(chosen') <= ask'.k
    BY <1>1, <1>3 DEF PlaceInv, Sizes
  <2> QED BY <1>1, <2>1, <2>2, <2>3 DEF Sizes
<1> QED BY <1>4, <1>5, <1>6, <1>8 DEF PlaceInv

LEMMA TwoElements ==
  ASSUME NEW a, NEW b, b # a
  PROVE  Cardinality({a, b}) = 2
<1>1. IsFiniteSet({a}) /\ Cardinality({a}) = 1
  BY FS_Singleton
<1>2. Cardinality({a} \cup {b}) = Cardinality({a}) + 1
  BY <1>1, FS_AddElement
<1>3. {a} \cup {b} = {a, b}
  OBVIOUS
<1> QED BY <1>1, <1>2, <1>3

LEMMA NextPassKeeps ==
  ASSUME PlaceInv, NextPass
  PROVE  PlaceInv'
<1> USE DEF NextPass
<1>1. loop.t \in Int /\ loop.from \in Int /\ Len(chosen) \in Nat
  BY LenProperties DEF PlaceInv, PlaceTypes
<1>2. /\ loop' \in [t : Int, from : Int, pass : Nat, improved : BOOLEAN, for : {"round", "try", "pairs"}]
      /\ loop'.t = loop.from /\ loop'.from = loop.from /\ loop'.for = loop.for
  <2>1. loop \in [t : Int, from : Int, pass : Nat, improved : BOOLEAN, for : {"round", "try", "pairs"}]
    BY DEF PlaceInv, PlaceTypes
  <2>2. loop' = [loop EXCEPT !.t = loop.from, !.pass = loop.pass + 1, !.improved = FALSE]
    OBVIOUS
  <2>3. loop.from \in Int /\ loop.pass + 1 \in Nat /\ FALSE \in BOOLEAN
    BY <2>1
  <2> HIDE DEF NextPass
  <2> QED BY <2>1, <2>2, <2>3
<1>3. PlaceTypes'
  BY <1>2 DEF PlaceInv, PlaceTypes
<1>4. Booked'
  BY DEF PlaceInv, Booked
<1>5. Heaped'
  BY QuietHeap DEF PlaceInv
<1>6. Sizes'
  <2>1. Trying' => Trying
    BY <1>2 DEF Trying
  <2>2. Fits => Fits'
    BY DEF Fits
  <2>3. loop'.t < 1 \/ loop'.from < 1 => Covered(cov') = N
    BY <1>2 DEF PlaceInv, Sizes
  <2> QED BY <2>1, <2>2, <2>3 DEF PlaceInv, Sizes
<1> QED BY <1>3, <1>4, <1>5, <1>6 DEF PlaceInv

LEMMA EndRefineKeeps ==
  ASSUME PlaceInv, EndRefine
  PROVE  PlaceInv'
<1>1. /\ phase = "refine" /\ ask' = ask /\ chosen' = chosen /\ cov' = cov /\ heap' = heap /\ stamp' = stamp
      /\ picks' = picks /\ loop' = NoLoop
      /\ loop.for = "round" => phase' = "pairs" /\ pair' = [NoPair EXCEPT !.tries = Least(Len(chosen), MaxTries)]
      /\ loop.for = "try" => phase' = "judge" /\ pair' = pair
      /\ loop.for = "pairs" => phase' = "prune" /\ pair' = pair
      /\ loop.for \in {"round", "try", "pairs"} /\ <<>> \in Seq(Spot)
  BY DEF EndRefine, PlaceInv, PlaceTypes
<1>2. Len(chosen) \in Nat /\ Least(Len(chosen), MaxTries) \in Nat /\ Least(Len(chosen), MaxTries) <= Len(chosen)
  BY LenProperties, PlacementAssumption DEF Least, PlaceInv, PlaceTypes
<1>3. PlaceTypes'
  <2>1. NoLoop \in [t : Int, from : Int, pass : Nat, improved : BOOLEAN, for : {"round", "try", "pairs"}]
    BY DEF NoLoop
  <2>2. pair' \in [attempt : Nat, tries : Nat, before : Nat, saved : Seq(Spot), put : 0 .. 2, improved : BOOLEAN]
    <3>1. [NoPair EXCEPT !.tries = Least(Len(chosen), MaxTries)]
            \in [attempt : Nat, tries : Nat, before : Nat, saved : Seq(Spot), put : 0 .. 2, improved : BOOLEAN]
      <4>1. NoPair \in [attempt : Nat, tries : Nat, before : Nat, saved : Seq(Spot), put : 0 .. 2, improved : BOOLEAN]
        BY <1>1 DEF NoPair
      <4> QED BY <1>2, <4>1
    <3> QED BY <1>1, <3>1 DEF PlaceInv, PlaceTypes
  <2>3. phase' \in PlacePhases
    BY <1>1 DEF PlacePhases
  <2> QED BY <1>1, <2>1, <2>2, <2>3 DEF PlaceInv, PlaceTypes
<1>4. Booked'
  BY <1>1 DEF PlaceInv, Booked
<1>5. Heaped'
  BY <1>1, QuietHeap DEF PlaceInv
<1>6. Sizes'
  <2>1. CASE loop.for = "round"
    <3>1. pair'.tries = Least(Len(chosen), MaxTries)
      BY <1>1, <2>1 DEF NoPair
    <3> QED BY <1>1, <1>2, <2>1, <3>1 DEF PlaceInv, Sizes, Trying
  <2>2. CASE loop.for = "try"
    <3>1. Fits
      BY <1>1, <2>2 DEF PlaceInv, Sizes, Trying
    <3>2. Fits'
      BY <1>1, <2>2, <3>1 DEF Fits
    <3> QED BY <1>1, <2>2, <3>2 DEF PlaceInv, Sizes
  <2>3. CASE loop.for = "pairs"
    BY <1>1, <2>3 DEF PlaceInv, Sizes, Trying
  <2> QED BY <1>1, <2>1, <2>2, <2>3
<1> QED BY <1>3, <1>4, <1>5, <1>6 DEF PlaceInv

-----------------------------------------------------------------------------
(* Moves of two                                                            *)

\* Of two gateways of the list one is weaker.
LEMMA WeakerOrders ==
  ASSUME chosen \in Seq(Spot), NEW R0,
         \A a, b \in Indexes : <<a, b>> \in R0 <=> Weaker(a, b)
  PROVE  Ordered(Indexes, R0)
<1>1. IsFiniteSet(Indexes) /\ Indexes \subseteq Nat
  BY LenProperties, FS_Interval DEF Indexes
<1>2. \A a \in Indexes : chosen[a] \in Nat /\ OnlyReach(cov, chosen[a]) \in Nat /\ a \in Nat
  <2>1. \A a \in Indexes : chosen[a] \in Spot
    BY ElementOfSeq DEF Indexes
  <2>2. Spot \subseteq Nat
    BY SpaceAssumption
  <2> QED BY <1>1, <2>1, <2>2, GainBounds
<1> DEFINE o(a) == OnlyReach(cov, chosen[a])
<1>3. \A a, b \in Indexes : Weaker(a, b) <=> \/ o(a) < o(b)
                                             \/ o(a) = o(b) /\ chosen[a] < chosen[b]
                                             \/ chosen[a] = chosen[b] /\ a < b
  BY DEF Weaker
<1>4. \A a, b \in Indexes : chosen[a] = chosen[b] => o(a) = o(b)
  OBVIOUS
<1>5. \A a \in Indexes : o(a) \in Nat
  BY <1>2
<1> HIDE DEF o
<1>6. \A x, y, z \in Indexes : <<x, y>> \in R0 /\ <<y, z>> \in R0 => <<x, z>> \in R0
  <2> SUFFICES ASSUME NEW x \in Indexes, NEW y \in Indexes, NEW z \in Indexes, Weaker(x, y), Weaker(y, z)
               PROVE  Weaker(x, z)
    OBVIOUS
  <2>1. /\ o(x) \in Nat /\ o(y) \in Nat /\ o(z) \in Nat /\ x \in Nat /\ y \in Nat /\ z \in Nat
        /\ chosen[x] \in Nat /\ chosen[y] \in Nat /\ chosen[z] \in Nat
    BY <1>2, <1>5
  <2> QED BY <1>3, <1>4, <2>1
<1>7. \A x, y \in Indexes : x = y \/ <<x, y>> \in R0 \/ <<y, x>> \in R0
  <2> SUFFICES ASSUME NEW x \in Indexes, NEW y \in Indexes, x # y
               PROVE  Weaker(x, y) \/ Weaker(y, x)
    OBVIOUS
  <2>1. o(x) \in Nat /\ o(y) \in Nat /\ x \in Nat /\ y \in Nat /\ chosen[x] \in Nat /\ chosen[y] \in Nat
    BY <1>2, <1>5
  <2> QED BY <1>3, <1>4, <2>1
<1>8. \A x \in Indexes : <<x, x>> \notin R0
  BY <1>2, <1>3, <1>5
<1> QED BY <1>1, <1>6, <1>7, <1>8 DEF Ordered

LEMMA WeakestIs ==
  ASSUME chosen \in Seq(Spot), chosen # <<>>
  PROVE  Weakest \in DOMAIN chosen
<1> DEFINE R0 == {x \in Indexes \X Indexes : Weaker(x[1], x[2])}
<1>1. \A a, b \in Indexes : <<a, b>> \in R0 <=> Weaker(a, b)
  OBVIOUS
<1> HIDE DEF R0
<1>2. Ordered(Indexes, R0)
  BY <1>1, WeakerOrders
<1>3. Indexes # {} /\ Indexes = DOMAIN chosen
  <2>1. Indexes = DOMAIN chosen /\ Len(chosen) \in Nat
    BY LenProperties DEF Indexes
  <2>2. Len(chosen) \in Nat \ {0}
    BY EmptySeq
  <2>3. 1 \in Indexes
    BY <2>2 DEF Indexes
  <2> QED BY <2>1, <2>3
<1>4. PICK t \in Indexes : \A u \in Indexes \ {t} : <<t, u>> \in R0
  <2>1. IsFiniteSet(Indexes) /\ Indexes # {}
    BY <1>2, <1>3 DEF Ordered
  <2>2. \A x, y, z \in Indexes : <<x, y>> \in R0 /\ <<y, z>> \in R0 => <<x, z>> \in R0
    BY <1>2 DEF Ordered
  <2>3. \A x, y \in Indexes : x = y \/ <<x, y>> \in R0 \/ <<y, x>> \in R0
    BY <1>2 DEF Ordered
  <2> QED BY <2>1, <2>2, <2>3, Champion
<1>5. \A u \in Indexes \ {t} : Weaker(t, u)
  BY <1>1, <1>4
<1> QED BY <1>3, <1>5 DEF Weakest

\* An attempt takes out two gateways, or none when there are fewer than attempts.
LEMMA PairOutIs ==
  ASSUME chosen \in Seq(Spot), Len(chosen) >= 2, pair.attempt \in Nat
  PROVE  /\ PairOut \subseteq DOMAIN chosen
         /\ pair.attempt < Len(chosen) => Cardinality(PairOut) = 2
         /\ ~ (pair.attempt < Len(chosen)) => PairOut = {}
<1> DEFINE R0 == {x \in Indexes \X Indexes : Weaker(x[1], x[2])}
           order(t) == Cardinality({u \in Indexes : Weaker(u, t)})
           far(a, b) == Dist2(SpotAt[chosen[a]], SpotAt[chosen[b]])
           nearest(a, b) == \A c \in Indexes \ {a} :
                              far(a, b) < far(a, c) \/ (far(a, b) = far(a, c) /\ b <= c)
           other(a) == CHOOSE b \in Indexes \ {a} : nearest(a, b)
           taken == {t \in Indexes : order(t) = pair.attempt}
<1>1. PairOut = UNION {{a, other(a)} : a \in taken}
  BY DEF PairOut
<1>2. \A a, b \in Indexes : <<a, b>> \in R0 <=> Weaker(a, b)
  OBVIOUS
<1>3. Ordered(Indexes, R0)
  <2> HIDE DEF R0
  <2> QED BY <1>2, WeakerOrders
<1>4. Indexes = DOMAIN chosen /\ Len(chosen) \in Nat /\ IsFiniteSet(Indexes) /\ Cardinality(Indexes) = Len(chosen)
      /\ Indexes = 1 .. Len(chosen)
  BY LenProperties, FS_Interval DEF Indexes
<1>5. ASSUME NEW a \in Indexes
      PROVE  other(a) \in Indexes \ {a}
  <2> DEFINE S == Indexes \ {a}
             Q == {x \in S \X S : far(a, x[1]) < far(a, x[2]) \/ (far(a, x[1]) = far(a, x[2]) /\ x[1] <= x[2])}
  <2>1. \A b, c \in S : <<b, c>> \in Q <=> far(a, b) < far(a, c) \/ (far(a, b) = far(a, c) /\ b <= c)
    OBVIOUS
  <2>2. \A b \in S : far(a, b) \in Int /\ b \in Int
    <3> SUFFICES ASSUME NEW b \in S PROVE far(a, b) \in Int /\ b \in Int
      OBVIOUS
    <3>1. chosen[a] \in Spot /\ chosen[b] \in Spot /\ b \in Int
      BY <1>4, ElementOfSeq
    <3>2. SpotAt[chosen[a]] \in Int \X Int /\ SpotAt[chosen[b]] \in Int \X Int
      BY <3>1, SpaceAssumption
    <3>3. PICK p \in Int \X Int, q \in Int \X Int : SpotAt[chosen[a]] = p /\ SpotAt[chosen[b]] = q
      BY <3>2
    <3>4. p[1] \in Int /\ p[2] \in Int /\ q[1] \in Int /\ q[2] \in Int
      OBVIOUS
    <3>5. Dist2(p, q) \in Int
      BY <3>4 DEF Dist2
    <3> QED BY <3>1, <3>3, <3>5
  <2>3. S # {} /\ IsFiniteSet(S)
    <3>1. 1 \in Indexes /\ 2 \in Indexes
      BY <1>4
    <3>2. S # {}
      BY <3>1
    <3>3. IsFiniteSet(Indexes \ {a})
      BY <1>4, FS_RemoveElement
    <3> QED BY <3>2, <3>3
  <2> HIDE DEF Q, far
  <2>4. \A x, y, z \in S : <<x, y>> \in Q /\ <<y, z>> \in Q => <<x, z>> \in Q
    BY <2>1, <2>2
  <2>5. \A x, y \in S : x = y \/ <<x, y>> \in Q \/ <<y, x>> \in Q
    <3> SUFFICES ASSUME NEW x \in S, NEW y \in S PROVE <<x, y>> \in Q \/ <<y, x>> \in Q
      OBVIOUS
    <3>1. far(a, x) \in Int /\ far(a, y) \in Int /\ x \in Int /\ y \in Int
      BY <2>2
    <3> QED BY <2>1, <3>1
  <2>6. PICK b \in S : \A c \in S \ {b} : <<b, c>> \in Q
    <3> HIDE DEF S
    <3> QED BY <2>3, <2>4, <2>5, Champion
  <2>7. ASSUME NEW c \in S
        PROVE  far(a, b) < far(a, c) \/ (far(a, b) = far(a, c) /\ b <= c)
    <3>1. CASE c = b
      BY <2>2, <3>1
    <3>2. CASE c # b
      BY <2>1, <2>6, <3>2
    <3> QED BY <3>1, <3>2
  <2> QED BY <2>7
<1>6. \A t \in Indexes : order(t) = Cardinality({u \in Indexes : <<u, t>> \in R0})
  <2>1. \A t \in Indexes : {u \in Indexes : Weaker(u, t)} = {u \in Indexes : <<u, t>> \in R0}
    OBVIOUS
  <2> QED BY <2>1
<1> HIDE DEF R0, other
<1>7. PairOut \subseteq DOMAIN chosen
  <2>1. taken \subseteq Indexes
    OBVIOUS
  <2> HIDE DEF taken
  <2> QED BY <1>1, <1>4, <1>5, <2>1
<1>8. ASSUME pair.attempt < Len(chosen)
      PROVE  Cardinality(PairOut) = 2
  <2>1. pair.attempt \in 0 .. Cardinality(Indexes) - 1
    BY <1>4, <1>8
  <2> DEFINE p == pair.attempt
  <2> HIDE DEF p
  <2>9. p \in 0 .. Cardinality(Indexes) - 1
    BY <2>1 DEF p
  <2>2. PICK a \in Indexes : /\ Cardinality({u \in Indexes : <<u, a>> \in R0}) = p
                             /\ \A z \in Indexes : Cardinality({u \in Indexes : <<u, z>> \in R0}) = p => z = a
    BY <1>3, <2>9, Ranks
  <2>3. taken = {a}
    <3> HIDE DEF order
    <3> QED BY <1>6, <2>2 DEF p
  <2>4. PairOut = {a, other(a)}
    <3> HIDE DEF taken
    <3> QED BY <1>1, <2>3
  <2>5. other(a) # a
    BY <1>5
  <2> QED BY <2>4, <2>5, TwoElements
<1>9. ASSUME ~ (pair.attempt < Len(chosen))
      PROVE  PairOut = {}
  <2>1. ASSUME NEW t \in Indexes
        PROVE  order(t) # pair.attempt
    <3> DEFINE S == {u \in Indexes : <<u, t>> \in R0}
    <3>1. S \subseteq Indexes \ {t}
      BY <1>3 DEF Ordered
    <3>2. IsFiniteSet(Indexes \ {t}) /\ Cardinality(Indexes \ {t}) = Len(chosen) - 1
      BY <1>4, FS_RemoveElement
    <3>3. Cardinality(S) <= Len(chosen) - 1 /\ Cardinality(S) \in Nat
      <4> HIDE DEF S
      <4> QED BY <3>1, <3>2, FS_Subset, FS_CardinalityType
    <3> QED BY SMTT(60), <1>4, <1>6, <1>9, <3>3
  <2>2. taken = {}
    BY <2>1
  <2> QED BY <1>1, <2>2
<1> QED BY <1>7, <1>8, <1>9

PairType == [attempt : Nat, tries : Nat, before : Nat, saved : Seq(Spot), put : 0 .. 2, improved : BOOLEAN]
LoopType == [t : Int, from : Int, pass : Nat, improved : BOOLEAN, for : {"round", "try", "pairs"}]

LEMMA TakePairKeeps ==
  ASSUME PlaceInv, TakePair
  PROVE  PlaceInv'
<1> DEFINE out == PairOut
<1>1. /\ phase = "pairs" /\ phase' = "put" /\ pair.attempt < pair.tries /\ Len(chosen) >= 2
      /\ pair' = [pair EXCEPT !.saved = chosen, !.before = Covered(cov), !.put = 0]
      /\ chosen' = Without(chosen, out) /\ cov' = Exchanged(cov, chosen, chosen')
      /\ ask' = ask /\ heap' = heap /\ stamp' = stamp /\ loop' = loop /\ picks' = picks
  BY DEF TakePair
<1>2. /\ ask.existing \in Seq(Spot) /\ ask.k \in Nat /\ chosen \in Seq(Spot) /\ Len(chosen) \in Nat
      /\ pair \in PairType /\ pair.attempt \in Nat /\ pair.tries \in Nat
  BY AskTypes, LenProperties DEF PlaceInv, PlaceTypes, PairType
<1>3. cov = Total(ask.existing, chosen, <<>>) /\ Covered(cov) \in Nat
  BY <1>1, CovIs
<1>4. /\ out \subseteq DOMAIN chosen
      /\ pair.attempt < Len(chosen) => Cardinality(out) = 2
      /\ ~ (pair.attempt < Len(chosen)) => out = {}
  BY <1>1, <1>2, PairOutIs
<1> HIDE DEF out
<1>5. /\ chosen' \in Seq(Spot) /\ Len(chosen') = Cardinality(DOMAIN chosen \ out)
      /\ \A m : CountOf(chosen', m) = Cardinality({i \in DOMAIN chosen \ out : m \in Reach[chosen[i]]})
  BY <1>1, <1>2, WithoutCounts
<1>6. IsFiniteSet(DOMAIN chosen) /\ Cardinality(DOMAIN chosen) = Len(chosen)
  <2>1. DOMAIN chosen = 1 .. Len(chosen)
    BY <1>2, LenProperties
  <2>2. IsFiniteSet(1 .. Len(chosen)) /\ Cardinality(1 .. Len(chosen)) = Len(chosen)
    <3>1. Len(chosen) \in Int /\ 1 \in Int /\ Len(chosen) \in Nat
      BY <1>2
    <3>2. /\ IsFiniteSet(1 .. Len(chosen))
          /\ Cardinality(1 .. Len(chosen)) = IF 1 > Len(chosen) THEN 0 ELSE Len(chosen) - 1 + 1
      BY <3>1, FS_Interval
    <3> QED BY <3>1, <3>2
  <2> QED BY <2>1, <2>2
<1>7. cov' = Total(ask.existing, chosen', <<>>)
  BY <1>1, <1>2, <1>3, <1>5, TotalExchanged
<1>8. /\ pair' \in PairType /\ pair'.saved = chosen /\ pair'.before = Covered(cov) /\ pair'.put = 0
      /\ pair'.tries = pair.tries
  <2>1. pair' = [pair EXCEPT !.saved = chosen, !.before = Covered(cov), !.put = 0] /\ 0 \in 0 .. 2
    BY <1>1
  <2> QED BY <1>2, <1>3, <2>1 DEF PairType
<1>9. PlaceTypes'
  BY <1>1, <1>5, <1>8 DEF PlaceInv, PlaceTypes, PlacePhases, PairType
<1>10. Booked'
  BY <1>1, <1>7 DEF PlaceInv, Booked
<1>11. Heaped'
  BY <1>1, QuietHeap DEF PlaceInv
<1>12. CASE pair.attempt < Len(chosen)
  <2>1. Cardinality(DOMAIN chosen \ out) = Len(chosen) - 2
    <3>1. DOMAIN chosen \cap out = out /\ Cardinality(out) = 2
      BY <1>4, <1>12
    <3>2. Cardinality(DOMAIN chosen \ out) = Cardinality(DOMAIN chosen) - Cardinality(DOMAIN chosen \cap out)
      BY <1>6, FS_Difference
    <3> QED BY <1>6, <3>1, <3>2
  <2>2. Len(chosen') = Len(chosen) - 2
    BY <1>5, <2>1
  <2>3. Fits'
    BY <1>1, <1>2, <1>3, <1>8, <2>2 DEF Fits, PlaceInv, Sizes
  <2>4. Sizes'
    BY <1>1, <1>2, <2>2, <2>3 DEF Sizes, PlaceInv
  <2> QED BY <1>9, <1>10, <1>11, <2>4 DEF PlaceInv
<1>13. CASE ~ (pair.attempt < Len(chosen))
  <2>1. DOMAIN chosen \ out = DOMAIN chosen
    BY <1>4, <1>13
  <2>2. Len(chosen') = Len(chosen)
    BY <1>5, <1>6, <2>1
  <2>3. \A m \in Meter : CountOf(chosen', m) = CountOf(chosen, m)
    BY <1>5, <2>1 DEF CountOf
  <2>4. cov' = cov
    BY <1>3, <1>7, <2>3 DEF Total
  <2>5. Covered(cov) = N
    BY <1>1, <1>2, <1>13 DEF PlaceInv, Sizes
  <2>6. Fits'
    BY <1>1, <1>2, <1>3, <1>8, <2>2, <2>4, <2>5 DEF Fits, PlaceInv, Sizes
  <2>7. Sizes'
    BY <1>1, <1>2, <2>2, <2>6 DEF Sizes, PlaceInv
  <2> QED BY <1>9, <1>10, <1>11, <2>7 DEF PlaceInv
<1> QED BY <1>12, <1>13

LEMMA PutBestKeeps ==
  ASSUME PlaceInv, PutBest
  PROVE  PlaceInv'
<1> DEFINE tried == {j \in Scanned(cov, 0) : FreeGain(cov, j) > 0}
           best == First(cov, tried)
<1>1. /\ phase = "put"
      /\ ask' = ask /\ heap' = heap /\ stamp' = stamp /\ picks' = picks
      /\ pair.put < 2 /\ tried # {} =>
           /\ chosen' = Append(chosen, best) /\ cov' = Placed(cov, best)
           /\ pair' = [pair EXCEPT !.put = @ + 1] /\ phase' = phase /\ loop' = loop
      /\ ~ (pair.put < 2 /\ tried # {}) =>
           /\ phase' = "refine" /\ chosen' = chosen /\ cov' = cov /\ pair' = pair
           /\ loop' = [t |-> Len(chosen) - 1, from |-> Len(chosen) - 1, pass |-> 1, improved |-> FALSE, for |-> "try"]
  BY DEF PutBest, RefineFrom
<1>2. /\ ask.existing \in Seq(Spot) /\ ask.k \in Nat /\ chosen \in Seq(Spot) /\ Len(chosen) \in Nat
      /\ pair \in PairType /\ pair.put \in 0 .. 2 /\ pair.saved \in Seq(Spot) /\ <<>> \in Seq(Spot)
      /\ Len(pair.saved) \in Nat
  BY AskTypes, LenProperties DEF PlaceInv, PlaceTypes, PairType
<1>3. cov = Total(ask.existing, chosen, <<>>) /\ cov \in Counts /\ \A m \in Meter : Base[m] <= cov[m]
  BY <1>1, CovIs
<1>4. Fits
  BY <1>1 DEF PlaceInv, Sizes, Trying
<1>5. /\ tried = {} => \A j \in Candidate : FreeGain(cov, j) <= 0
      /\ tried # {} => best \in tried /\ best \in Candidate
  <2> DEFINE b == tried
  <2>1. b = {j \in Scanned(cov, 0) : FreeGain(cov, j) > 0}
    OBVIOUS
  <2> HIDE DEF b
  <2>2. /\ b = {} => \A j \in Candidate : FreeGain(cov, j) <= 0
        /\ b # {} => First(cov, b) \in b /\ First(cov, b) \in Candidate
    BY <1>2, <1>3, <2>1, ScannedExact
  <2> QED BY <2>2 DEF b
<1>6. \A j \in Candidate : FreeGain(cov, j) \in Nat
  BY Candidates, GainBounds
<1>7. tried = {} => Covered(cov) = N
  <2>1. ASSUME tried = {}
        PROVE  \A j \in Candidate : FreeGain(cov, j) = 0
    BY <1>5, <1>6, <2>1
  <2> HIDE DEF tried
  <2> QED BY <1>3, <2>1, NothingLeft
<1>8. tried # {} => Covered(cov) # N
  <2>1. ASSUME tried # {}
        PROVE  FreeGain(cov, best) > 0 /\ best \in Candidate /\ best \in Spot
    BY <1>5, <2>1, Candidates
  <2>2. Covered(cov) = N => \A s \in Spot : FreeGain(cov, s) = 0
    BY <1>3, NothingLeft
  <2> QED BY <2>1, <2>2
<1> HIDE DEF tried, best
<1>9. Heaped'
  BY <1>1, QuietHeap DEF PlaceInv
<1>10. CASE pair.put < 2 /\ tried # {}
  <2>1. best \in Spot
    BY <1>5, <1>10, Candidates
  <2>10. chosen' = Append(chosen, best) /\ cov' = Placed(cov, best)
    BY <1>1, <1>10
  <2>2. chosen' \in Seq(Spot) /\ Len(chosen') = Len(chosen) + 1
    <3>1. Append(chosen, best) \in Seq(Spot) /\ Len(Append(chosen, best)) = Len(chosen) + 1
      BY <1>2, <2>1, AppendProperties
    <3> QED BY <2>10, <3>1
  <2>3. cov' = Total(ask.existing, chosen', <<>>)
    BY ZenonT(60), <1>2, <1>3, <2>1, <2>10, TotalPlaced
  <2>4. pair' \in PairType /\ pair'.put = pair.put + 1 /\ pair'.saved = pair.saved /\ pair'.tries = pair.tries
        /\ pair'.before = pair.before
    <3>1. pair' = [pair EXCEPT !.put = pair.put + 1] /\ pair.put + 1 \in 0 .. 2
      BY <1>1, <1>2, <1>10
    <3> QED BY <1>2, <3>1 DEF PairType
  <2>5. PlaceTypes'
    BY <1>1, <1>10, <2>2, <2>4 DEF PlaceInv, PlaceTypes, PairType
  <2>6. Booked'
    BY <1>1, <1>10, <2>3 DEF PlaceInv, Booked
  <2>7. Fits'
    BY <1>1, <1>2, <1>4, <1>8, <1>10, <2>2, <2>4 DEF Fits
  <2>8. Len(chosen') <= ask'.k
    <3>1. Len(chosen) = Len(pair.saved) - 2 + pair.put /\ Len(pair.saved) <= ask.k
      BY <1>1, <1>4, <1>8, <1>10 DEF Fits
    <3> QED BY <1>1, <1>2, <1>10, <2>2, <3>1
  <2>9. Sizes'
    BY <1>1, <1>10, <2>7, <2>8 DEF Sizes
  <2> QED BY <1>9, <2>5, <2>6, <2>9 DEF PlaceInv
<1>11. CASE ~ (pair.put < 2 /\ tried # {})
  <2>1. loop' \in LoopType /\ loop'.t = Len(chosen) - 1 /\ loop'.from = Len(chosen) - 1 /\ loop'.for = "try"
    <3>1. loop' = [t |-> Len(chosen) - 1, from |-> Len(chosen) - 1, pass |-> 1, improved |-> FALSE, for |-> "try"]
      BY <1>1, <1>11
    <3>2. Len(chosen) - 1 \in Int
      BY <1>2
    <3> QED BY <3>1, <3>2 DEF LoopType
  <2>2. PlaceTypes'
    BY <1>1, <1>11, <2>1 DEF PlaceInv, PlaceTypes, PlacePhases, LoopType
  <2>3. Booked'
    BY <1>1, <1>11 DEF PlaceInv, Booked
  <2>4. pair.put = 2 \/ Covered(cov) = N
    BY <1>2, <1>7, <1>11
  <2>5. Len(chosen) <= Len(pair.saved) /\ (Covered(cov) = N \/ Len(chosen) = Len(pair.saved))
    BY <1>1, <1>2, <1>4, <2>4 DEF Fits
  <2>6. Fits'
    BY <1>1, <1>2, <1>4, <1>11, <2>5 DEF Fits
  <2>7. loop'.t < 1 \/ loop'.from < 1 => Covered(cov') = N
    <3>1. Len(pair.saved) >= 2
      BY <1>4 DEF Fits
    <3> QED BY <1>1, <1>2, <1>11, <2>1, <2>5, <3>1
  <2>8. Len(chosen') <= ask'.k
    BY <1>1, <1>11 DEF PlaceInv, Sizes
  <2>9. Sizes'
    BY <1>1, <1>11, <2>6, <2>7, <2>8 DEF Sizes
  <2> QED BY <1>9, <2>2, <2>3, <2>9 DEF PlaceInv
<1> QED BY <1>10, <1>11

LEMMA JudgeKeeps ==
  ASSUME PlaceInv, Judge
  PROVE  PlaceInv'
<1>1. /\ phase = "judge" /\ phase' = "pairs"
      /\ pair' = [pair EXCEPT !.attempt = @ + 1, !.improved = @ \/ Better]
      /\ chosen' = IF Better THEN chosen ELSE pair.saved
      /\ cov' = Exchanged(cov, chosen, chosen')
      /\ ask' = ask /\ heap' = heap /\ stamp' = stamp /\ loop' = loop /\ picks' = picks
  BY DEF Judge
<1>2. /\ ask.existing \in Seq(Spot) /\ ask.k \in Nat /\ chosen \in Seq(Spot) /\ Len(chosen) \in Nat
      /\ pair \in PairType /\ pair.saved \in Seq(Spot) /\ Len(pair.saved) \in Nat /\ pair.before \in Nat
      /\ pair.attempt + 1 \in Nat /\ (pair.improved \/ Better) \in BOOLEAN
  BY AskTypes, LenProperties DEF PlaceInv, PlaceTypes, PairType
<1>3. cov = Total(ask.existing, chosen, <<>>) /\ Covered(cov) \in Nat /\ Covered(cov) <= N /\ N \in Nat
  BY <1>1, CovIs
<1>4. Fits /\ Len(chosen) <= ask.k
  BY <1>1 DEF PlaceInv, Sizes, Trying
<1>5. pair' \in PairType /\ pair'.tries = pair.tries
  <2>1. pair' = [pair EXCEPT !.attempt = pair.attempt + 1, !.improved = pair.improved \/ Better]
    BY <1>1
  <2> HIDE DEF Better
  <2> QED BY <1>2, <2>1 DEF PairType
<1>6. chosen' \in Seq(Spot)
  BY <1>1, <1>2
<1>7. cov' = Total(ask.existing, chosen', <<>>)
  BY <1>1, <1>2, <1>3, <1>6, TotalExchanged
<1>8. PlaceTypes'
  BY <1>1, <1>5, <1>6 DEF PlaceInv, PlaceTypes, PlacePhases, PairType
<1>9. Booked'
  BY <1>1, <1>7 DEF PlaceInv, Booked
<1>10. Heaped'
  BY <1>1, QuietHeap DEF PlaceInv
<1>11. Len(chosen') <= ask'.k /\ (pair'.tries <= Len(chosen') \/ Covered(cov') = N)
  <2>1. CASE Better
    <3>1. Covered(cov) > pair.before /\ chosen' = chosen /\ cov' = cov
      BY <1>1, <1>3, <1>7, <2>1 DEF Better
    <3> QED BY <1>1, <1>2, <1>3, <1>4, <1>5, <3>1 DEF Fits
  <2>2. CASE ~Better
    <3>1. chosen' = pair.saved /\ Covered(cov') = pair.before
      BY <1>1, <1>4, <1>7, <2>2 DEF Fits
    <3> QED BY <1>1, <1>4, <1>5, <3>1 DEF Fits
  <2> QED BY <2>1, <2>2
<1>12. Sizes'
  BY <1>1, <1>11 DEF Sizes, Trying
<1> QED BY <1>8, <1>9, <1>10, <1>12 DEF PlaceInv

LEMMA EndPairsKeeps ==
  ASSUME PlaceInv, EndPairs
  PROVE  PlaceInv'
<1>1. /\ phase = "pairs" /\ ask' = ask /\ chosen' = chosen /\ cov' = cov /\ heap' = heap /\ stamp' = stamp
      /\ picks' = picks /\ pair' = NoPair
      /\ \/ /\ phase' = "refine"
            /\ loop' = [t |-> 1, from |-> 1, pass |-> 1, improved |-> FALSE, for |-> "pairs"]
         \/ phase' = "prune" /\ loop' = loop
  BY DEF EndPairs, RefineFrom
<1>2. NoPair \in PairType
  BY DEF NoPair, PairType
<1>3. loop' \in LoopType /\ (phase' = "refine" => loop'.t = 1 /\ loop'.from = 1 /\ loop'.for = "pairs")
  <2>1. [t |-> 1, from |-> 1, pass |-> 1, improved |-> FALSE, for |-> "pairs"] \in LoopType
    BY DEF LoopType
  <2>2. loop \in LoopType
    BY DEF PlaceInv, PlaceTypes, LoopType
  <2>3. CASE loop' = [t |-> 1, from |-> 1, pass |-> 1, improved |-> FALSE, for |-> "pairs"]
    BY <2>1, <2>3
  <2>4. CASE phase' = "prune" /\ loop' = loop
    BY <2>2, <2>4
  <2> QED BY <1>1, <2>3, <2>4
<1>4. PlaceTypes'
  BY <1>1, <1>2, <1>3 DEF PlaceInv, PlaceTypes, PlacePhases, PairType, LoopType
<1>5. Booked'
  BY <1>1 DEF PlaceInv, Booked
<1>6. Heaped'
  BY <1>1, QuietHeap DEF PlaceInv
<1>7. Sizes'
  BY <1>1, <1>3 DEF PlaceInv, Sizes, Trying
<1> QED BY <1>4, <1>5, <1>6, <1>7 DEF PlaceInv

-----------------------------------------------------------------------------
(* Pruning, the end of a round and the report                              *)

LEMMA DropKeeps ==
  ASSUME PlaceInv, Drop
  PROVE  PlaceInv'
<1> DEFINE w == Weakest
<1>1. /\ phase = "prune" /\ phase' = phase /\ chosen' = Without(chosen, {w}) /\ cov' = Lifted(cov, chosen[w])
      /\ ask' = ask /\ heap' = heap /\ stamp' = stamp /\ loop' = loop /\ pair' = pair /\ picks' = picks
      /\ chosen # <<>>
  BY DEF Drop, Droppable
<1>2. ask.existing \in Seq(Spot) /\ chosen \in Seq(Spot) /\ Len(chosen) \in Nat /\ ask.k \in Nat
  BY AskTypes, LenProperties DEF PlaceInv, PlaceTypes
<1>3. w \in DOMAIN chosen
  BY <1>1, <1>2, WeakestIs
<1>4. cov = Total(ask.existing, chosen, <<>>)
  BY <1>1, CovIs
<1> HIDE DEF w
<1>5. chosen' \in Seq(Spot) /\ Len(chosen') = Len(chosen) - 1
  BY <1>1, <1>2, <1>3, WithoutOne
<1>6. cov' = Total(ask.existing, chosen', <<>>)
  <2> DEFINE none == <<>>
  <2>1. none \in Seq(Spot)
    OBVIOUS
  <2>2. cov = Total(ask.existing, chosen, none)
    BY <1>4
  <2> HIDE DEF none
  <2>3. cov' = Total(ask.existing, chosen', none)
    BY <1>1, <1>2, <1>3, <2>1, <2>2, TotalLifted
  <2> QED BY <2>3 DEF none
<1>7. PlaceTypes'
  BY <1>1, <1>5 DEF PlaceInv, PlaceTypes
<1>8. Booked'
  BY <1>1, <1>6 DEF PlaceInv, Booked
<1>9. Heaped'
  BY <1>1, QuietHeap DEF PlaceInv
<1>10. Sizes'
  BY <1>1, <1>2, <1>5 DEF PlaceInv, Sizes, Trying
<1> QED BY <1>7, <1>8, <1>9, <1>10 DEF PlaceInv

LEMMA EndRoundKeeps ==
  ASSUME PlaceInv, EndRound \/ Stop
  PROVE  PlaceInv'
<1>1. /\ phase \in {"prune", "stop"} /\ phase' \in {"stop", "round", "snap"}
      /\ ask' = ask /\ chosen' = chosen /\ cov' = cov /\ heap' = heap /\ stamp' = stamp /\ loop' = loop
      /\ pair' = pair /\ picks' = picks
  BY DEF EndRound, Stop
<1>2. PlaceTypes'
  BY <1>1 DEF PlaceInv, PlaceTypes, PlacePhases
<1>3. Booked'
  BY <1>1 DEF PlaceInv, Booked
<1>4. Heaped'
  BY <1>1, QuietHeap DEF PlaceInv
<1>5. Sizes'
  BY <1>1 DEF PlaceInv, Sizes, Trying
<1> QED BY <1>2, <1>3, <1>4, <1>5 DEF PlaceInv

LEMMA SnappedKeeps ==
  ASSUME PlaceInv, Snapped
  PROVE  PlaceInv'
<1>1. /\ phase = "snap" /\ phase' = "rank" /\ cov' = Exchanged(cov, chosen, chosen')
      /\ chosen' \in [Indexes -> UNION {Snap[chosen[t]] : t \in Indexes}]
      /\ ask' = ask /\ heap' = heap /\ stamp' = stamp /\ loop' = loop /\ pair' = pair /\ picks' = picks
  BY DEF Snapped
<1>2. ask.existing \in Seq(Spot) /\ chosen \in Seq(Spot) /\ Len(chosen) \in Nat /\ Indexes = 1 .. Len(chosen)
  BY AskTypes, LenProperties DEF PlaceInv, PlaceTypes, Indexes
<1>3. UNION {Snap[chosen[t]] : t \in Indexes} \subseteq Spot
  <2>1. \A t \in Indexes : chosen[t] \in Spot
    BY <1>2, ElementOfSeq
  <2>2. \A s \in Spot : Snap[s] \subseteq Spot
    BY SpaceAssumption
  <2> QED BY <2>1, <2>2
<1>4. chosen' \in Seq(Spot) /\ Len(chosen') = Len(chosen)
  <2>1. chosen' \in [1 .. Len(chosen) -> Spot]
    BY <1>1, <1>2, <1>3
  <2> QED BY <1>2, <2>1
<1>5. cov = Total(ask.existing, chosen, <<>>)
  BY <1>1, CovIs
<1>6. cov' = Total(ask.existing, chosen', <<>>)
  BY <1>1, <1>2, <1>4, <1>5, TotalExchanged
<1>7. PlaceTypes'
  BY <1>1, <1>4 DEF PlaceInv, PlaceTypes, PlacePhases
<1>8. Booked'
  BY <1>1, <1>6 DEF PlaceInv, Booked
<1>9. Heaped'
  BY <1>1, QuietHeap DEF PlaceInv
<1>10. Sizes'
  BY <1>1, <1>4 DEF PlaceInv, Sizes, Trying
<1> QED BY <1>7, <1>8, <1>9, <1>10 DEF PlaceInv

\* One of the list is taken to the front of those that are not ranked yet.
LEMMA Reordered ==
  ASSUME NEW list \in Seq(Spot), NEW k \in 1 .. Len(list), NEW b \in k .. Len(list),
         NEW new,
         new = SubSeq(list, 1, k - 1) \o <<list[b]>> \o Without(SubSeq(list, k, Len(list)), {b - k + 1})
  PROVE  /\ new \in Seq(Spot) /\ Len(new) = Len(list)
         /\ \A m : CountOf(new, m) = CountOf(list, m)
<1> DEFINE head == SubSeq(list, 1, k - 1)
           one == <<list[b]>>
           tail == SubSeq(list, k, Len(list))
           rest == Without(tail, {b - k + 1})
<1>1. Len(list) \in Nat /\ k \in Nat /\ b \in Nat /\ b - k + 1 \in Nat /\ k >= 1 /\ k <= b /\ b <= Len(list)
      /\ DOMAIN list = 1 .. Len(list)
  BY LenProperties
<1>2. \A i \in 1 .. Len(list) : list[i] \in Spot
  BY ElementOfSeq
<1>3. head \in Seq(Spot) /\ Len(head) = k - 1
  <2>1. \A i \in 1 .. k - 1 : list[i] \in Spot
    BY <1>1, <1>2
  <2>2. head \in Seq(Spot) /\ Len(head) = IF 1 <= k - 1 THEN k - 1 - 1 + 1 ELSE 0
    BY <1>1, <2>1, SubSeqProperties
  <2> QED BY <1>1, <2>2
<1>4. tail \in Seq(Spot) /\ Len(tail) = Len(list) - k + 1 /\ \A i \in 1 .. Len(list) - k + 1 : tail[i] = list[k + i - 1]
  <2>1. \A i \in k .. Len(list) : list[i] \in Spot
    BY <1>1, <1>2
  <2>2. /\ tail \in Seq(Spot) /\ Len(tail) = IF k <= Len(list) THEN Len(list) - k + 1 ELSE 0
        /\ \A i \in 1 .. Len(list) - k + 1 : tail[i] = list[k + i - 1]
    BY SMTT(60), <1>1, <2>1, SubSeqProperties
  <2>3. k <= Len(list)
    BY <1>1
  <2> HIDE DEF tail
  <2> QED BY <2>2, <2>3
<1>5. head \o tail = list
  <2>1. head \o SubSeq(list, (k - 1) + 1, Len(list)) = SubSeq(list, 1, Len(list))
    <3>1. 1 \in 1 .. Len(list) + 1 /\ k - 1 \in (1 - 1) .. Len(list) /\ Len(list) \in (k - 1) .. Len(list)
      BY <1>1
    <3> QED BY <3>1, ConcatAdjacentSubSeq
  <2>2. (k - 1) + 1 = k
    BY <1>1
  <2>3. SubSeq(list, 1, Len(list)) = list
    BY SubSeqFull
  <2> QED BY <2>1, <2>2, <2>3
<1>6. one \in Seq(Spot) /\ Len(one) = 1
  BY <1>1, <1>2
<1>7. b - k + 1 \in DOMAIN tail /\ tail[b - k + 1] = list[b]
  <2>1. DOMAIN tail = 1 .. Len(list) - k + 1
    BY <1>4, LenProperties
  <2>2. b - k + 1 \in 1 .. Len(list) - k + 1 /\ k + (b - k + 1) - 1 = b
    BY <1>1
  <2> QED BY <1>4, <2>1, <2>2
<1>8. new = (head \o one) \o rest
  OBVIOUS
<1>9. \A m : CountOf(one, m) = IF m \in Reach[list[b]] THEN 1 ELSE 0
  <2>1. one = Append(<<>>, list[b]) /\ <<>> \in Seq(Spot) /\ list[b] \in Spot
    BY <1>1, <1>2
  <2>2. \A m : CountOf(Append(<<>>, list[b]), m) = CountOf(<<>>, m) + (IF m \in Reach[list[b]] THEN 1 ELSE 0)
    BY <2>1, CountAppend
  <2>3. ASSUME NEW m
        PROVE  CountOf(one, m) = IF m \in Reach[list[b]] THEN 1 ELSE 0
    <3>1. CountOf(<<>>, m) = 0
      BY CountNone
    <3>2. CountOf(one, m) = CountOf(<<>>, m) + (IF m \in Reach[list[b]] THEN 1 ELSE 0)
      BY <2>1, <2>2
    <3> QED BY <3>1, <3>2
  <2> QED BY <2>3
<1> DEFINE q == b - k + 1
<1>14. /\ rest \in Seq(Spot) /\ Len(rest) = Len(tail) - 1
       /\ \A m : CountOf(rest, m) = CountOf(tail, m) - (IF m \in Reach[tail[q]] THEN 1 ELSE 0)
  <2>1. q \in DOMAIN tail
    BY <1>7
  <2>2. rest = Without(tail, {q})
    OBVIOUS
  <2> HIDE DEF tail, q, rest
  <2> QED BY <1>4, <2>1, <2>2, WithoutOne
<1>15. tail[q] = list[b]
  BY <1>7
<1> HIDE DEF head, one, tail, rest, q
<1>10. head \o one \in Seq(Spot) /\ Len(head \o one) = k
  <2>1. Len(head \o one) = Len(head) + Len(one)
    BY <1>3, <1>6, ConcatProperties
  <2> QED BY <1>1, <1>3, <1>6, <2>1, ConcatProperties
<1>11. new \in Seq(Spot) /\ Len(new) = Len(list)
  <2>1. (head \o one) \o rest \in Seq(Spot) /\ Len((head \o one) \o rest) = Len(head \o one) + Len(rest)
    BY <1>10, <1>14, ConcatProperties
  <2>2. Len(new) = k + (Len(list) - k + 1 - 1)
    <3>1. Len(head \o one) = k /\ Len(rest) = Len(tail) - 1 /\ Len(tail) = Len(list) - k + 1
      BY <1>4, <1>10, <1>14
    <3>2. Len(new) = Len(head \o one) + Len(rest)
      BY <1>8, <2>1
    <3> QED BY <3>1, <3>2
  <2>3. k + (Len(list) - k + 1 - 1) = Len(list)
    BY <1>1
  <2> QED BY <1>8, <2>1, <2>2, <2>3
<1>12. ASSUME NEW m
       PROVE  CountOf(new, m) = CountOf(list, m)
  <2>1. CountOf(new, m) = CountOf(head \o one, m) + CountOf(rest, m)
    <3>1. CountOf((head \o one) \o rest, m) = CountOf(head \o one, m) + CountOf(rest, m)
      BY <1>10, <1>14, CountConcat
    <3> QED BY <1>8, <3>1
  <2>2. CountOf(head \o one, m) = CountOf(head, m) + CountOf(one, m)
    BY <1>3, <1>6, CountConcat
  <2>3. CountOf(list, m) = CountOf(head, m) + CountOf(tail, m)
    BY <1>3, <1>4, <1>5, CountConcat
  <2>4. CountOf(rest, m) = CountOf(tail, m) - (IF m \in Reach[list[b]] THEN 1 ELSE 0)
    BY <1>14, <1>15
  <2>5. CountOf(head, m) \in Nat /\ CountOf(tail, m) \in Nat
    BY <1>3, <1>4, CountType
  <2>6. CountOf(one, m) = IF m \in Reach[list[b]] THEN 1 ELSE 0
    BY <1>9
  <2> QED BY <2>1, <2>2, <2>3, <2>4, <2>5, <2>6
<1> QED BY <1>11, <1>12

\* The first of those that would add most.
LEMMA RankedIs ==
  ASSUME chosen \in Seq(Spot), NEW k \in 1 .. Len(chosen)
  PROVE  \E t \in k .. Len(chosen) : \A u \in (k .. Len(chosen)) \ {t} :
           \/ Adds(k, t) > Adds(k, u)
           \/ Adds(k, t) = Adds(k, u) /\ chosen[t] < chosen[u]
           \/ Adds(k, t) = Adds(k, u) /\ chosen[t] = chosen[u] /\ t < u
<1> DEFINE left == k .. Len(chosen)
           ahead(t, u) == \/ Adds(k, t) > Adds(k, u)
                          \/ Adds(k, t) = Adds(k, u) /\ chosen[t] < chosen[u]
                          \/ Adds(k, t) = Adds(k, u) /\ chosen[t] = chosen[u] /\ t < u
           R0 == {x \in left \X left : ahead(x[1], x[2])}
<1>1. Len(chosen) \in Nat /\ k \in Nat /\ k \in left /\ left \subseteq 1 .. Len(chosen) /\ left # {}
  BY LenProperties
<1>2. IsFiniteSet(left)
  BY <1>1, FS_Interval
<1>3. \A t \in left : Adds(k, t) \in Nat /\ chosen[t] \in Nat /\ t \in Nat
  <2> SUFFICES ASSUME NEW t \in left PROVE Adds(k, t) \in Nat /\ chosen[t] \in Nat /\ t \in Nat
    OBVIOUS
  <2>1. chosen[t] \in Spot
    BY <1>1, ElementOfSeq
  <2>2. IsFiniteSet(Reach[chosen[t]] \ Taken(k))
    BY <2>1, ReachFinite, FS_Difference
  <2>3. Adds(k, t) \in Nat
    BY <2>2, FS_CardinalityType DEF Adds
  <2>4. Spot \subseteq Nat
    BY SpaceAssumption
  <2>5. t \in Nat
    BY <1>1
  <2> QED BY <2>1, <2>3, <2>4, <2>5
<1>4. \A t, u \in left : <<t, u>> \in R0 <=> ahead(t, u)
  OBVIOUS
<1> HIDE DEF R0
<1>5. \A x, y, z \in left : <<x, y>> \in R0 /\ <<y, z>> \in R0 => <<x, z>> \in R0
  <2> SUFFICES ASSUME NEW x \in left, NEW y \in left, NEW z \in left, ahead(x, y), ahead(y, z)
               PROVE  ahead(x, z)
    BY <1>4
  <2> QED BY <1>3
<1>6. \A x, y \in left : x = y \/ <<x, y>> \in R0 \/ <<y, x>> \in R0
  <2> SUFFICES ASSUME NEW x \in left, NEW y \in left, x # y PROVE ahead(x, y) \/ ahead(y, x)
    BY <1>4
  <2> QED BY <1>3
<1>7. PICK t \in left : \A u \in left \ {t} : <<t, u>> \in R0
  <2> HIDE DEF left
  <2> QED BY <1>1, <1>2, <1>5, <1>6, Champion
<1>8. \A u \in left \ {t} : ahead(t, u)
  BY <1>4, <1>7
<1> QED BY <1>8

\* What a step of the ranking does.
LEMMA RankDoes ==
  ASSUME chosen \in Seq(Spot), report.added \in Seq(Nat), Rank
  PROVE  LET k == Len(report.added) + 1
         IN  /\ k \in 1 .. Len(chosen)
             /\ \E b \in k .. Len(chosen) :
                  /\ report' = [report EXCEPT !.added = Append(@, Adds(k, b))]
                  /\ chosen' = SubSeq(chosen, 1, k - 1) \o <<chosen[b]>>
                                 \o Without(SubSeq(chosen, k, Len(chosen)), {b - k + 1})
                  /\ Adds(k, b) \in Nat
                  /\ \A u \in k .. Len(chosen) : Adds(k, u) \in Nat /\ Adds(k, u) <= Adds(k, b)
<1> DEFINE k == Len(report.added) + 1
           ahead(t, u) == \/ Adds(k, t) > Adds(k, u)
                          \/ Adds(k, t) = Adds(k, u) /\ chosen[t] < chosen[u]
                          \/ Adds(k, t) = Adds(k, u) /\ chosen[t] = chosen[u] /\ t < u
           left == k .. Len(chosen)
           best == CHOOSE t \in left : \A u \in left \ {t} : ahead(t, u)
<1>1. k \in 1 .. Len(chosen)
  <2>1. Len(report.added) \in Nat /\ Len(chosen) \in Nat
    BY LenProperties
  <2>2. Len(report.added) < Len(chosen)
    BY DEF Rank
  <2> QED BY <2>1, <2>2
<1>2. /\ report' = [report EXCEPT !.added = Append(@, Adds(k, best))]
      /\ chosen' = SubSeq(chosen, 1, k - 1) \o <<chosen[best]>>
                     \o Without(SubSeq(chosen, k, Len(chosen)), {best - k + 1})
  BY DEF Rank
<1>3. \E t \in left : \A u \in left \ {t} : ahead(t, u)
  <2> HIDE DEF k
  <2> QED BY <1>1, RankedIs
<1>4. best \in left /\ \A u \in left \ {best} : ahead(best, u)
  <2> HIDE DEF ahead, left
  <2> QED BY <1>3
<1>5. \A u \in left : Adds(k, u) \in Nat
  <2> SUFFICES ASSUME NEW u \in left PROVE Adds(k, u) \in Nat
    OBVIOUS
  <2>1. Len(chosen) \in Nat /\ k \in Nat /\ k >= 1 /\ u \in Nat /\ u >= k /\ u <= Len(chosen)
    <3> HIDE DEF k
    <3> QED BY <1>1, LenProperties
  <2>2. chosen[u] \in Spot
    <3>1. u \in 1 .. Len(chosen)
      BY <2>1
    <3> QED BY <3>1, ElementOfSeq
  <2>3. IsFiniteSet(Reach[chosen[u]] \ Taken(k))
    BY <2>2, ReachFinite, FS_Difference
  <2> QED BY <2>3, FS_CardinalityType DEF Adds
<1>6. \A u \in left : Adds(k, u) <= Adds(k, best)
  <2> SUFFICES ASSUME NEW u \in left PROVE Adds(k, u) <= Adds(k, best)
    OBVIOUS
  <2> HIDE DEF k, best, left
  <2>1. CASE u = best
    BY <1>5, <2>1
  <2>2. CASE u # best
    <3>1. ahead(best, u)
      BY <1>4, <2>2
    <3>2. Adds(k, u) \in Nat /\ Adds(k, best) \in Nat
      BY <1>4, <1>5
    <3> QED BY <3>1, <3>2
  <2> QED BY <2>1, <2>2
<1> HIDE DEF best
<1> QED BY <1>1, <1>2, <1>4, <1>5, <1>6

LEMMA RankKeeps ==
  ASSUME PlaceInv, report.added \in Seq(Nat), Rank
  PROVE  PlaceInv'
<1>1. /\ phase = "rank" /\ phase' = phase /\ cov' = cov /\ ask' = ask /\ heap' = heap /\ stamp' = stamp
      /\ loop' = loop /\ pair' = pair /\ picks' = picks
  BY DEF Rank
<1>2. ask.existing \in Seq(Spot) /\ chosen \in Seq(Spot) /\ Len(chosen) \in Nat
  BY AskTypes, LenProperties DEF PlaceInv, PlaceTypes
<1> DEFINE k == Len(report.added) + 1
<1>3. PICK b \in k .. Len(chosen) :
        chosen' = SubSeq(chosen, 1, k - 1) \o <<chosen[b]>> \o Without(SubSeq(chosen, k, Len(chosen)), {b - k + 1})
  BY <1>2, RankDoes
<1>4. k \in 1 .. Len(chosen)
  BY <1>2, RankDoes
<1> HIDE DEF k
<1>5. /\ chosen' \in Seq(Spot) /\ Len(chosen') = Len(chosen)
      /\ \A m : CountOf(chosen', m) = CountOf(chosen, m)
  BY ZenonT(60), <1>2, <1>3, <1>4, Reordered
<1>6. cov = Total(ask.existing, chosen, <<>>)
  BY <1>1, CovIs
<1>7. cov' = Total(ask.existing, chosen', <<>>)
  BY <1>1, <1>5, <1>6 DEF Total
<1>8. PlaceTypes'
  BY <1>1, <1>5 DEF PlaceInv, PlaceTypes
<1>9. Booked'
  BY <1>1, <1>7 DEF PlaceInv, Booked
<1>10. Heaped'
  BY <1>1, QuietHeap DEF PlaceInv
<1>11. Sizes'
  BY <1>1, <1>5 DEF PlaceInv, Sizes, Trying
<1> QED BY <1>8, <1>9, <1>10, <1>11 DEF PlaceInv

LEMMA StartCurveKeeps ==
  ASSUME PlaceInv, StartCurve
  PROVE  PlaceInv'
<1>1. /\ phase = "rank" /\ phase' = "curve" /\ cov' = cov /\ ask' = ask /\ stamp' = 0
      /\ chosen' = chosen /\ loop' = loop /\ pair' = pair /\ picks' = picks
      /\ heap' = IF Covered(cov) < N /\ Len(chosen) < CurveLimit THEN Pushed(cov) ELSE {}
  BY DEF StartCurve
<1>2. chosen \in Seq(Spot) /\ Len(chosen) \in Nat /\ picks = <<>> /\ CurveLimit \in Nat
  BY <1>1, LenProperties, PlacementAssumption DEF PlaceInv, PlaceTypes, Booked
<1>3. cov \in Counts /\ Covered(cov) \in Nat /\ Covered(cov) <= N /\ N \in Nat
      /\ cov = Total(ask.existing, chosen, <<>>)
  BY <1>1, CovIs
<1>4. PlaceTypes'
  BY <1>1 DEF PlaceInv, PlaceTypes, PlacePhases
<1>5. Booked'
  BY <1>1, <1>2, <1>3 DEF Booked
<1>6. Heaped'
  <2>1. CASE Covered(cov) < N /\ Len(chosen) < CurveLimit
    <3>1. heap' = Pushed(cov)
      BY <1>1, <2>1
    <3>2. \A j \in Candidate : FreeGain(cov, j) \in Nat
      BY <1>3, GainBounds, Candidates
    <3>3. /\ IsFiniteSet(heap') /\ heap' \subseteq [gain : Nat, cand : Candidate, stamp : Nat]
          /\ \A e, f \in heap' : e.cand = f.cand => e = f
          /\ \A e \in heap' : e.gain = FreeGain(cov, e.cand) /\ e.stamp = 0
          /\ \A j \in Candidate : FreeGain(cov, j) > 0 => \E e \in heap' : e.cand = j
      BY <1>3, <3>1, PushedIs
    <3>4. \A e \in heap' : e.gain >= FreeGain(cov, e.cand) /\ e.stamp <= stamp'
                           /\ (e.stamp = stamp' => e.gain = FreeGain(cov, e.cand))
      <4> SUFFICES ASSUME NEW e \in heap'
                   PROVE  e.gain >= FreeGain(cov, e.cand) /\ e.stamp <= stamp'
                          /\ (e.stamp = stamp' => e.gain = FreeGain(cov, e.cand))
        OBVIOUS
      <4>1. e.cand \in Candidate
        BY <3>3
      <4> QED BY <1>1, <3>2, <3>3, <4>1
    <3> QED BY <1>1, <3>3, <3>4 DEF Heaped
  <2>2. CASE ~ (Covered(cov) < N /\ Len(chosen) < CurveLimit)
    <3>1. heap' = {}
      BY <1>1, <2>2
    <3>2. Len(chosen) < CurveLimit => Covered(cov) = N
      BY <1>2, <1>3, <2>2
    <3>3. Len(chosen) < CurveLimit => \A j \in Candidate : FreeGain(cov, j) = 0
      BY <1>3, <3>2, NothingLeft
    <3>4. IsFiniteSet({})
      BY FS_EmptySet
    <3>5. (phase' = "greedy" \/ (phase' = "curve" /\ Len(chosen') < CurveLimit)) =>
            \A j \in Candidate : FreeGain(cov', j) > 0 => \E e \in heap' : e.cand = j
      <4>1. ASSUME Len(chosen) < CurveLimit, NEW j \in Candidate
            PROVE  ~ (FreeGain(cov', j) > 0)
        <5>1. FreeGain(cov, j) = 0
          BY <3>3, <4>1
        <5> QED BY <1>1, <5>1
      <4> QED BY <1>1, <4>1
    <3> QED BY <1>1, <3>1, <3>4, <3>5 DEF Heaped
  <2> QED BY <2>1, <2>2
<1>7. Sizes'
  BY <1>1 DEF PlaceInv, Sizes, Trying
<1> QED BY <1>4, <1>5, <1>6, <1>7 DEF PlaceInv

LEMMA EndCurveKeeps ==
  ASSUME PlaceInv, EndCurve
  PROVE  /\ PlaceInv'
         /\ cov' = Total(ask.existing, chosen, <<>>)
<1>1. /\ phase = "curve" /\ phase' = "done" /\ cov' = Exchanged(cov, picks, <<>>) /\ heap' = {} /\ ask' = ask
      /\ chosen' = chosen /\ loop' = loop /\ pair' = pair /\ picks' = picks /\ stamp' = stamp
  BY DEF EndCurve
<1>2. ask.existing \in Seq(Spot) /\ chosen \in Seq(Spot) /\ picks \in Seq(Spot)
  BY AskTypes DEF PlaceInv, PlaceTypes
<1>3. cov = Total(ask.existing, chosen, picks)
  BY <1>1, CovIs
<1>4. cov' = Total(ask.existing, chosen, <<>>)
  BY <1>1, <1>2, <1>3, TotalExchanged
<1>5. PlaceTypes'
  BY <1>1 DEF PlaceInv, PlaceTypes, PlacePhases
<1>6. Booked'
  BY <1>1, <1>4 DEF PlaceInv, Booked
<1>7. Heaped'
  <2>1. IsFiniteSet({})
    BY FS_EmptySet
  <2> QED BY <1>1, <2>1 DEF Heaped
<1>8. Sizes'
  BY <1>1 DEF PlaceInv, Sizes, Trying
<1> QED BY <1>4, <1>5, <1>6, <1>7, <1>8 DEF PlaceInv

-----------------------------------------------------------------------------
(* The report: ranking and curve                                           *)

\* What is taken to the front is the one chosen, those before it stay, and behind it is
\* what was behind it or beside it.
LEMMA ReorderedElements ==
  ASSUME NEW list \in Seq(Spot), NEW k \in 1 .. Len(list), NEW b \in k .. Len(list),
         NEW new,
         new = SubSeq(list, 1, k - 1) \o <<list[b]>> \o Without(SubSeq(list, k, Len(list)), {b - k + 1})
  PROVE  /\ \A i \in 1 .. k - 1 : new[i] = list[i]
         /\ new[k] = list[b]
         /\ \A t \in k + 1 .. Len(list) : new[t] \in {list[u] : u \in k .. Len(list)}
<1> DEFINE head == SubSeq(list, 1, k - 1)
           one == <<list[b]>>
           tail == SubSeq(list, k, Len(list))
           rest == Without(tail, {b - k + 1})
<1>1. Len(list) \in Nat /\ k \in Nat /\ b \in Nat /\ b - k + 1 \in Nat /\ k >= 1 /\ k <= b /\ b <= Len(list)
  BY LenProperties
<1>2. \A i \in 1 .. Len(list) : list[i] \in Spot
  BY ElementOfSeq
<1>3. head \in Seq(Spot) /\ Len(head) = k - 1 /\ \A i \in 1 .. k - 1 : head[i] = list[i]
  <2>1. \A i \in 1 .. k - 1 : list[i] \in Spot
    BY <1>1, <1>2
  <2>2. /\ head \in Seq(Spot) /\ Len(head) = IF 1 <= k - 1 THEN k - 1 - 1 + 1 ELSE 0
        /\ \A i \in 1 .. (k - 1 - 1 + 1) : head[i] = list[1 + i - 1]
    BY <1>1, <2>1, SubSeqProperties
  <2> QED BY <1>1, <2>2
<1>4. tail \in Seq(Spot) /\ Len(tail) = Len(list) - k + 1 /\ \A i \in 1 .. Len(list) - k + 1 : tail[i] = list[k + i - 1]
  <2>1. \A i \in k .. Len(list) : list[i] \in Spot
    BY <1>1, <1>2
  <2>2. /\ tail \in Seq(Spot) /\ Len(tail) = IF k <= Len(list) THEN Len(list) - k + 1 ELSE 0
        /\ \A i \in 1 .. Len(list) - k + 1 : tail[i] = list[k + i - 1]
    BY <1>1, <2>1, SubSeqProperties
  <2> QED BY <1>1, <2>2
<1>5. one \in Seq(Spot) /\ Len(one) = 1 /\ one[1] = list[b]
  BY <1>1, <1>2
<1>6. DOMAIN tail = 1 .. Len(list) - k + 1 /\ b - k + 1 \in DOMAIN tail
  <2>1. DOMAIN tail = 1 .. Len(list) - k + 1
    BY <1>4, LenProperties
  <2> QED BY <1>1, <2>1
<1>7. rest \in Seq(Spot) /\ Len(rest) = Len(list) - k
  <2> DEFINE q == b - k + 1
  <2>1. q \in DOMAIN tail
    BY <1>6
  <2>2. rest = Without(tail, {q})
    OBVIOUS
  <2> HIDE DEF tail, q, rest
  <2>3. rest \in Seq(Spot) /\ Len(rest) = Len(tail) - 1
    BY <1>4, <2>1, <2>2, WithoutOne
  <2> QED BY <1>1, <1>4, <2>3
<1>8. \A i \in 1 .. Len(list) - k : \E u \in k .. Len(list) : rest[i] = list[u]
  <2> DEFINE keep == DOMAIN tail \ {b - k + 1}
             n == Cardinality(keep)
  <2>1. \E h \in Bijection(1 .. n, keep) : rest = [i \in 1 .. n |-> tail[h[i]]]
    <3> DEFINE out == {b - k + 1}
    <3>1. \E h \in Bijection(1 .. Cardinality(DOMAIN tail \ out), DOMAIN tail \ out) :
             Without(tail, out) = [i \in 1 .. Cardinality(DOMAIN tail \ out) |-> tail[h[i]]]
      <4>1. tail \in Seq(Spot)
        BY <1>4
      <4> HIDE DEF tail, out
      <4> QED BY <4>1, WithoutTakes
    <3> QED BY <3>1
  <2>2. PICK h \in Bijection(1 .. n, keep) : rest = [i \in 1 .. n |-> tail[h[i]]]
    BY <2>1
  <2>3. h \in [1 .. n -> keep]
    BY DEF Bijection, Injection
  <2> SUFFICES ASSUME NEW i \in 1 .. Len(list) - k
               PROVE  \E u \in k .. Len(list) : rest[i] = list[u]
    OBVIOUS
  <2> HIDE DEF rest, keep, n
  <2>4. DOMAIN rest = 1 .. Len(list) - k
    BY <1>7, LenProperties
  <2>5. i \in 1 .. n
    BY <2>2, <2>4
  <2>6. h[i] \in 1 .. Len(list) - k + 1
    BY <1>6, <2>3, <2>5 DEF keep
  <2>7. rest[i] = tail[h[i]]
    BY <2>2, <2>5
  <2>8. tail[h[i]] = list[k + h[i] - 1]
    BY <1>4, <2>6
  <2>9. k + h[i] - 1 \in k .. Len(list)
    BY <1>1, <2>6
  <2> QED BY <2>7, <2>8, <2>9
<1> HIDE DEF head, one, tail, rest
<1>9. new = (head \o one) \o rest
  BY DEF head, one, rest, tail
<1>10. /\ head \o one \in Seq(Spot) /\ Len(head \o one) = k
       /\ \A i \in 1 .. k - 1 : (head \o one)[i] = list[i]
       /\ (head \o one)[k] = list[b]
  <2>1. /\ head \o one \in Seq(Spot) /\ Len(head \o one) = Len(head) + Len(one)
        /\ \A i \in 1 .. Len(head) + Len(one) : (head \o one)[i] =
             IF i <= Len(head) THEN head[i] ELSE one[i - Len(head)]
    BY <1>3, <1>5, ConcatProperties
  <2>2. \A i \in 1 .. k : (head \o one)[i] = IF i <= k - 1 THEN head[i] ELSE one[i - (k - 1)]
    BY <1>1, <1>3, <1>5, <2>1
  <2>3. Len(head \o one) = k
    BY <1>1, <1>3, <1>5, <2>1
  <2>4. \A i \in 1 .. k - 1 : (head \o one)[i] = list[i]
    BY <1>1, <1>3, <2>2
  <2>5. (head \o one)[k] = one[k - (k - 1)]
    <3>1. k \in 1 .. k /\ ~ (k <= k - 1)
      BY <1>1
    <3> QED BY <2>2, <3>1
  <2>6. k - (k - 1) = 1
    BY <1>1
  <2> QED BY <1>5, <2>1, <2>3, <2>4, <2>5, <2>6
<1> DEFINE front == head \o one
<1>11. /\ front \in Seq(Spot) /\ Len(front) = k /\ new = front \o rest
       /\ \A i \in 1 .. k - 1 : front[i] = list[i]
       /\ front[k] = list[b]
  BY <1>9, <1>10
<1> HIDE DEF front
<1>12. \A i \in 1 .. Len(list) : new[i] = IF i <= k THEN front[i] ELSE rest[i - k]
  <2>1. \A i \in 1 .. Len(front) + Len(rest) : (front \o rest)[i] =
             IF i <= Len(front) THEN front[i] ELSE rest[i - Len(front)]
    BY <1>7, <1>11, ConcatProperties
  <2>2. k + (Len(list) - k) = Len(list)
    BY <1>1
  <2> QED BY <1>7, <1>11, <2>1, <2>2
<1>13. \A i \in 1 .. k - 1 : new[i] = list[i]
  BY SMTT(60), <1>1, <1>11, <1>12
<1>14. new[k] = list[b]
  <2>1. k \in 1 .. Len(list) /\ k <= k
    BY <1>1
  <2> QED BY <1>11, <1>12, <2>1
<1>15. ASSUME NEW t \in k + 1 .. Len(list)
       PROVE  \E u \in k .. Len(list) : new[t] = list[u]
  <2>1. t \in 1 .. Len(list) /\ ~ (t <= k) /\ t - k \in 1 .. Len(list) - k
    BY <1>1
  <2>2. new[t] = rest[t - k]
    BY <1>12, <2>1
  <2> QED BY <1>8, <2>1, <2>2
<1>16. \A t \in k + 1 .. Len(list) : new[t] \in {list[u] : u \in k .. Len(list)}
  BY <1>15
<1> QED BY <1>13, <1>14, <1>16

\* The more of a list is counted as there, the less a spot adds.
LEMMA AddingFalls ==
  ASSUME NEW ex, NEW list, NEW k \in Nat, NEW t, list[t] \in Spot
  PROVE  /\ Adding(ex, list, k, t) \in Nat
         /\ Adding(ex, list, k + 1, t) <= Adding(ex, list, k, t)
<1>1. Had(ex, list, k) \subseteq Had(ex, list, k + 1)
  <2>1. 1 .. k - 1 \subseteq 1 .. (k + 1) - 1
    OBVIOUS
  <2> QED BY <2>1 DEF Had
<1>2. IsFiniteSet(Reach[list[t]] \ Had(ex, list, k))
  BY ReachFinite, FS_Difference
<1>3. Reach[list[t]] \ Had(ex, list, k + 1) \subseteq Reach[list[t]] \ Had(ex, list, k)
  BY <1>1
<1> DEFINE A == Reach[list[t]] \ Had(ex, list, k)
           B == Reach[list[t]] \ Had(ex, list, k + 1)
<1>4. IsFiniteSet(A) /\ B \subseteq A
  BY <1>2, <1>3
<1> HIDE DEF A, B
<1>5. IsFiniteSet(B) /\ Cardinality(B) <= Cardinality(A)
  BY <1>4, FS_Subset
<1>6. Cardinality(A) \in Nat
  BY <1>4, FS_CardinalityType
<1> QED BY <1>5, <1>6 DEF Adding, A, B

\* What counts as there does not ask for the rest of the list.
LEMMA SameHad ==
  ASSUME NEW ex, NEW list, NEW new, NEW k \in Nat, \A i \in 1 .. k - 1 : new[i] = list[i]
  PROVE  Had(ex, new, k) = Had(ex, list, k)
BY DEF Had

\* What is there and one more of the list.
LEMMA HadGrows ==
  ASSUME NEW ex, NEW list, NEW k \in Nat, k >= 1, list[k] \in Spot
  PROVE  Cardinality(Had(ex, list, k + 1)) = Cardinality(Had(ex, list, k)) + Adding(ex, list, k, k)
<1> DEFINE A == Had(ex, list, k)
           B == Reach[list[k]] \ A
<1>1. Had(ex, list, k + 1) = A \cup B
  <2>1. 1 .. (k + 1) - 1 = (1 .. k - 1) \cup {k}
    OBVIOUS
  <2>2. Reach[list[k]] \subseteq Meter
    BY ReachFinite
  <2> QED BY <2>1, <2>2 DEF Had
<1>2. IsFiniteSet(A) /\ IsFiniteSet(B)
  <2>1. A \subseteq Meter /\ IsFiniteSet(Meter) /\ IsFiniteSet(Reach[list[k]])
    BY ReachFinite DEF Had
  <2> HIDE DEF A
  <2> QED BY <2>1, FS_Subset, FS_Difference
<1>3. A \cap B = {}
  OBVIOUS
<1>4. Adding(ex, list, k, k) = Cardinality(B)
  BY DEF Adding
<1> HIDE DEF A, B
<1>5. Cardinality(A \cup B) = Cardinality(A) + Cardinality(B) - Cardinality(A \cap B)
  BY <1>2, FS_Union
<1>6. Cardinality({}) = 0 /\ Cardinality(A) \in Nat /\ Cardinality(B) \in Nat
  BY <1>2, FS_EmptySet, FS_CardinalityType
<1>7. Cardinality(A \cap B) = 0
  BY <1>3, <1>6
<1>8. Cardinality(A \cup B) = Cardinality(A) + Cardinality(B)
  BY <1>5, <1>6, <1>7
<1> QED BY <1>1, <1>4, <1>8 DEF A

LEMMA AddsIs ==
  ASSUME NEW k, NEW t
  PROVE  /\ Taken(k) = Had(ask.existing, chosen, k)
         /\ Adds(k, t) = Adding(ask.existing, chosen, k, t)
<1>1. Taken(k) = Had(ask.existing, chosen, k)
  BY DEF Taken, Had, Base
<1> QED BY <1>1 DEF Adds, Adding

\* Before the ranking begins nothing is ranked.
LEMMA NothingRanked ==
  ASSUME chosen \in Seq(Spot), {"added", "curve"} \subseteq DOMAIN report, report.added = <<>>,
         phase \notin {"curve", "done"}
  PROVE  Ranked
<1>1. Len(report.added) = 0 /\ report.added \in Seq(Nat) /\ Len(chosen) \in Nat
  BY LenProperties
<1>2. CurveTrue
  BY DEF CurveTrue
<1> QED BY <1>1, <1>2 DEF Ranked

LEMMA NothingRankedThen ==
  ASSUME chosen' \in Seq(Spot), {"added", "curve"} \subseteq DOMAIN report', report'.added = <<>>,
         phase' \notin {"curve", "done"}
  PROVE  Ranked'
<1>1. Len(report'.added) = 0 /\ report'.added \in Seq(Nat) /\ Len(chosen') \in Nat
  BY LenProperties
<1>2. CurveTrue'
  BY DEF CurveTrue
<1> QED BY <1>1, <1>2 DEF Ranked

\* What is ranked stays ranked when nothing of it changes.
LEMMA RankedStays ==
  ASSUME Ranked, report' = report, chosen' = chosen, ask' = ask,
         \/ phase \in {"rank", "curve"} /\ phase' = phase
         \/ phase = "rank" /\ phase' = "curve" /\ Len(report.added) = Len(chosen)
  PROVE  Ranked'
<1>1. CurveTrue'
  BY DEF CurveTrue
<1> QED BY <1>1 DEF Ranked

LEMMA RankRanked ==
  ASSUME PlaceInv, Ranked, Rank
  PROVE  Ranked'
<1> DEFINE ex == ask.existing
           L == Len(report.added)
           k == L + 1
           G == Len(chosen)
<1>1. /\ phase = "rank" /\ phase' = phase /\ ask' = ask
  BY DEF Rank
<1>2. /\ chosen \in Seq(Spot) /\ report.added \in Seq(Nat) /\ L \in Nat /\ G \in Nat
      /\ {"added", "curve"} \subseteq DOMAIN report
  BY LenProperties DEF PlaceInv, PlaceTypes, Ranked
<1>3. PICK b \in k .. G :
        /\ report' = [report EXCEPT !.added = Append(@, Adds(k, b))]
        /\ chosen' = SubSeq(chosen, 1, k - 1) \o <<chosen[b]>> \o Without(SubSeq(chosen, k, G), {b - k + 1})
        /\ Adds(k, b) \in Nat
        /\ \A u \in k .. G : Adds(k, u) \in Nat /\ Adds(k, u) <= Adds(k, b)
  BY <1>2, RankDoes
<1>4. k \in 1 .. G
  BY <1>2, RankDoes
<1> DEFINE added == report.added
           new == chosen'
           a == Adding(ex, chosen, k, b)
<1>5. a \in Nat /\ \A u \in k .. G : Adding(ex, chosen, k, u) <= a
  <2>1. Adds(k, b) = a
    BY AddsIs
  <2>2. \A u \in k .. G : Adds(k, u) = Adding(ex, chosen, k, u)
    BY AddsIs
  <2> QED BY <1>3, <2>1, <2>2
<1>6. /\ report'.added = Append(added, a) /\ DOMAIN report' = DOMAIN report
  <2>1. Adds(k, b) = a
    BY AddsIs
  <2> QED BY <1>2, <1>3, <2>1
<1>7. /\ report'.added \in Seq(Nat) /\ Len(report'.added) = k
      /\ \A i \in 1 .. L : report'.added[i] = added[i]
      /\ report'.added[k] = a
  <2>1. /\ Append(added, a) \in Seq(Nat) /\ Len(Append(added, a)) = L + 1
        /\ \A i \in 1 .. L : Append(added, a)[i] = added[i]
        /\ Append(added, a)[L + 1] = a
    <3> HIDE DEF a
    <3> QED BY <1>2, <1>5, AppendProperties
  <2> QED BY <1>6, <2>1
<1>8. /\ new \in Seq(Spot) /\ Len(new) = G
      /\ \A i \in 1 .. k - 1 : new[i] = chosen[i]
      /\ new[k] = chosen[b]
      /\ \A t \in k + 1 .. G : \E u \in k .. G : new[t] = chosen[u]
  <2>1. new = SubSeq(chosen, 1, k - 1) \o <<chosen[b]>> \o Without(SubSeq(chosen, k, G), {b - k + 1})
    BY <1>3
  <2>2. b \in k .. Len(chosen) /\ k \in 1 .. Len(chosen)
    BY <1>4
  <2> HIDE DEF new, k
  <2>3. new \in Seq(Spot) /\ Len(new) = Len(chosen)
    BY <1>2, <2>1, <2>2, Reordered
  <2>4. /\ \A i \in 1 .. k - 1 : new[i] = chosen[i]
        /\ new[k] = chosen[b]
        /\ \A t \in k + 1 .. Len(chosen) : \E u \in k .. Len(chosen) : new[t] = chosen[u]
    <3> DEFINE was == chosen
    <3>1. was \in Seq(Spot) /\ k \in 1 .. Len(was) /\ b \in k .. Len(was)
      BY <1>2, <2>2
    <3>2. new = SubSeq(was, 1, k - 1) \o <<was[b]>> \o Without(SubSeq(was, k, Len(was)), {b - k + 1})
      BY <2>1
    <3> HIDE DEF was
    <3>3. \A i \in 1 .. k - 1 : new[i] = was[i]
      BY ONLY <3>1, <3>2, ReorderedElements
    <3>4. new[k] = was[b]
      BY ONLY <3>1, <3>2, ReorderedElements
    <3>5. \A t \in k + 1 .. Len(was) : new[t] \in {was[u] : u \in k .. Len(was)}
      BY ONLY <3>1, <3>2, ReorderedElements
    <3> QED BY <3>3, <3>4, <3>5 DEF was
  <2> QED BY <2>3, <2>4
<1>9. /\ \A i \in 1 .. L : added[i] = Adding(ex, chosen, i, i)
      /\ \A i \in 1 .. L - 1 : added[i] >= added[i + 1]
      /\ L >= 1 => \A t \in L + 1 .. G : Adding(ex, chosen, L, t) <= added[L]
  <2>1. L >= 1 => L \in 1 .. L
    BY <1>2
  <2> QED BY <2>1 DEF Ranked
<1>10. \A i \in 1 .. G : chosen[i] \in Spot
  BY <1>2, ElementOfSeq
<1>11. \A i \in 1 .. k : Had(ex, new, i) = Had(ex, chosen, i)
  <2> SUFFICES ASSUME NEW i \in 1 .. k PROVE Had(ex, new, i) = Had(ex, chosen, i)
    OBVIOUS
  <2>1. i \in Nat /\ \A j \in 1 .. i - 1 : new[j] = chosen[j]
    BY <1>2, <1>8
  <2> HIDE DEF new, ex
  <2> QED BY <2>1, SameHad
<1>12. \A i \in 1 .. L : Adding(ex, new, i, i) = Adding(ex, chosen, i, i)
  <2> SUFFICES ASSUME NEW i \in 1 .. L PROVE Adding(ex, new, i, i) = Adding(ex, chosen, i, i)
    OBVIOUS
  <2>1. i \in 1 .. k - 1 /\ i \in 1 .. k
    BY <1>2
  <2>2. new[i] = chosen[i] /\ Had(ex, new, i) = Had(ex, chosen, i)
    BY <1>8, <1>11, <2>1
  <2> QED BY <2>2 DEF Adding
<1>13. Had(ex, new, k) = Had(ex, chosen, k)
  <2>1. k \in 1 .. k
    BY <1>2
  <2> QED BY <1>11, <2>1
<1>14. Adding(ex, new, k, k) = a
  BY <1>8, <1>13 DEF Adding
<1>15. \A t \in k + 1 .. G : Adding(ex, new, k, t) <= a
  <2> SUFFICES ASSUME NEW t \in k + 1 .. G PROVE Adding(ex, new, k, t) <= a
    OBVIOUS
  <2>1. PICK u \in k .. G : new[t] = chosen[u]
    BY <1>8
  <2>2. Adding(ex, new, k, t) = Adding(ex, chosen, k, u)
    BY <1>13, <2>1 DEF Adding
  <2>3. Adding(ex, chosen, k, u) <= a
    BY <1>5
  <2> HIDE DEF a, k, new, ex
  <2> QED BY <2>2, <2>3
<1>16. L >= 1 => added[L] >= a
  <2> SUFFICES ASSUME L >= 1 PROVE added[L] >= a
    OBVIOUS
  <2>1. b \in 1 .. G /\ b \in L + 1 .. G
    BY <1>2
  <2>2. chosen[b] \in Spot
    BY <1>10, <2>1
  <2>3. a <= Adding(ex, chosen, L, b) /\ Adding(ex, chosen, L, b) \in Nat
    <3> HIDE DEF L, ex
    <3> QED BY <1>2, <2>2, AddingFalls
  <2>4. Adding(ex, chosen, L, b) <= added[L]
    BY <1>9, <2>1
  <2>5. added[L] \in Nat
    BY <1>2, ElementOfSeq
  <2> HIDE DEF a, L, added, ex
  <2> QED BY <1>5, <2>3, <2>4, <2>5
<1>17. CurveTrue'
  BY <1>1 DEF CurveTrue
<1> DEFINE after == report'.added
<1>18. after \in Seq(Nat) /\ Len(after) = k /\ k <= G
  BY <1>2, <1>4, <1>7
<1>19. \A i \in 1 .. k : after[i] = Adding(ex, new, i, i)
  <2> SUFFICES ASSUME NEW i \in 1 .. k PROVE after[i] = Adding(ex, new, i, i)
    OBVIOUS
  <2>1. i \in 1 .. L \/ i = k
    BY <1>2
  <2>2. CASE i = k
    BY <1>7, <1>14, <2>2
  <2>3. CASE i \in 1 .. L
    BY <1>7, <1>9, <1>12, <2>3
  <2> QED BY <2>1, <2>2, <2>3
<1>20. \A i \in 1 .. k - 1 : after[i] >= after[i + 1]
  <2> SUFFICES ASSUME NEW i \in 1 .. k - 1 PROVE after[i] >= after[i + 1]
    OBVIOUS
  <2>1. i \in 1 .. L - 1 \/ (i = L /\ L >= 1 /\ i + 1 = k)
    BY <1>2
  <2>2. CASE i \in 1 .. L - 1
    <3>1. i \in 1 .. L /\ i + 1 \in 1 .. L
      BY <1>2, <2>2
    <3> QED BY <1>7, <1>9, <2>2, <3>1
  <2>3. CASE i = L /\ L >= 1 /\ i + 1 = k
    <3>1. i \in 1 .. L
      BY <1>2, <2>3
    <3> QED BY <1>7, <1>16, <2>3, <3>1
  <2> QED BY <2>1, <2>2, <2>3
<1>21. \A t \in k + 1 .. G : Adding(ex, new, k, t) <= after[k]
  BY <1>7, <1>15
<1>22. ex = ask'.existing /\ phase' \notin {"curve", "done"} /\ phase' = "rank"
       /\ {"added", "curve"} \subseteq DOMAIN report'
  BY <1>1, <1>2, <1>6
<1> HIDE DEF k, a, L
<1> QED BY <1>8, <1>17, <1>18, <1>19, <1>20, <1>21, <1>22 DEF Ranked

\* More gateways cover no fewer meters.
LEMMA CoveredRises ==
  ASSUME NEW a \in Counts, NEW b \in Counts, \A m \in Meter : a[m] <= b[m]
  PROVE  Covered(a) <= Covered(b) /\ Covered(a) \in Nat /\ Covered(b) \in Nat
<1> DEFINE A == {m \in Meter : a[m] # 0}
           B == {m \in Meter : b[m] # 0}
<1>1. A \subseteq B
  BY DEF Counts
<1>2. IsFiniteSet(B)
  BY CoveredFinite
<1>3. Covered(a) \in Nat /\ Covered(b) \in Nat
  BY CoveredFinite
<1>4. Covered(a) = Cardinality(A) /\ Covered(b) = Cardinality(B)
  BY DEF Covered
<1> HIDE DEF A, B
<1>5. Cardinality(A) <= Cardinality(B)
  BY <1>1, <1>2, FS_Subset
<1> QED BY <1>3, <1>4, <1>5

\* The first so many of a list reach a meter no more often than the first more of it.
LEMMA FirstOnes ==
  ASSUME NEW list \in Seq(Spot), NEW k \in 0 .. Len(list)
  PROVE  /\ SubSeq(list, 1, k) \in Seq(Spot)
         /\ k > 0 => \A m : CountOf(SubSeq(list, 1, k - 1), m) <= CountOf(SubSeq(list, 1, k), m)
<1>1. Len(list) \in Nat /\ k \in Nat /\ k <= Len(list)
  BY LenProperties
<1>2. \A i \in 1 .. Len(list) : list[i] \in Spot
  BY ElementOfSeq
<1>3. ASSUME NEW n \in Nat, n <= Len(list)
      PROVE  SubSeq(list, 1, n) \in Seq(Spot) /\ Len(SubSeq(list, 1, n)) = n
             /\ \A i \in 1 .. n : SubSeq(list, 1, n)[i] = list[i]
  <2>1. \A i \in 1 .. n : list[i] \in Spot
    BY <1>1, <1>2, <1>3
  <2>2. /\ SubSeq(list, 1, n) \in Seq(Spot) /\ Len(SubSeq(list, 1, n)) = IF 1 <= n THEN n - 1 + 1 ELSE 0
        /\ \A i \in 1 .. (n - 1 + 1) : SubSeq(list, 1, n)[i] = list[1 + i - 1]
    BY <1>1, <2>1, SubSeqProperties
  <2> QED BY <1>3, <2>2
<1>4. ASSUME k > 0, NEW m
      PROVE  CountOf(SubSeq(list, 1, k - 1), m) <= CountOf(SubSeq(list, 1, k), m)
  <2> DEFINE a == SubSeq(list, 1, k - 1)
             b == SubSeq(list, 1, k)
  <2>1. k - 1 \in Nat /\ k - 1 <= Len(list)
    BY <1>1, <1>4
  <2>2. /\ a \in Seq(Spot) /\ Len(a) = k - 1 /\ \A i \in 1 .. k - 1 : a[i] = list[i]
        /\ b \in Seq(Spot) /\ Len(b) = k /\ \A i \in 1 .. k : b[i] = list[i]
    BY <1>1, <1>3, <2>1
  <2> HIDE DEF a, b
  <2>3. DOMAIN a = 1 .. k - 1 /\ DOMAIN b = 1 .. k
    BY <2>2, LenProperties
  <2> DEFINE A == {t \in DOMAIN a : m \in Reach[a[t]]}
             B == {t \in DOMAIN b : m \in Reach[b[t]]}
  <2>4. A \subseteq B
    <3>1. 1 .. k - 1 \subseteq 1 .. k
      BY <1>1
    <3> QED BY <2>2, <2>3, <3>1
  <2>5. IsFiniteSet(B)
    BY <2>2, CountType
  <2>6. CountOf(a, m) = Cardinality(A) /\ CountOf(b, m) = Cardinality(B)
    BY DEF CountOf
  <2> HIDE DEF A, B
  <2>7. Cardinality(A) <= Cardinality(B)
    BY <2>4, <2>5, FS_Subset
  <2> QED BY <2>6, <2>7 DEF a, b
<1> QED BY <1>1, <1>3, <1>4

\* What is there before the first of a list, and after the last of it.
LEMMA HadEnds ==
  ASSUME NEW ex \in Seq(Spot), NEW list \in Seq(Spot)
  PROVE  /\ Cardinality(Had(ex, list, 1)) = Covered(Total(ex, <<>>, <<>>))
         /\ Cardinality(Had(ex, list, Len(list) + 1)) = Covered(Total(ex, list, <<>>))
<1> DEFINE none == <<>>
<1>1. none \in Seq(Spot) /\ Len(list) \in Nat /\ DOMAIN list = 1 .. Len(list)
  BY LenProperties
<1>2. \A m : CountOf(none, m) = 0
  BY CountNone
<1> HIDE DEF none
<1>3. \A m \in Meter : Total(ex, none, none)[m] = CountOf(ex, m)
  <2> SUFFICES ASSUME NEW m \in Meter PROVE Total(ex, none, none)[m] = CountOf(ex, m)
    OBVIOUS
  <2>1. Total(ex, none, none)[m] = CountOf(ex, m) + CountOf(none, m) + CountOf(none, m)
    BY <1>1, TotalType
  <2>2. CountOf(ex, m) \in Nat
    BY CountType
  <2> QED BY <1>2, <2>1, <2>2
<1>4. Had(ex, list, 1) = {m \in Meter : Total(ex, none, none)[m] # 0}
  <2>1. 1 .. 1 - 1 = {}
    OBVIOUS
  <2>2. \A m \in Meter : CountOf(ex, m) > 0 <=> CountOf(ex, m) # 0
    <3> SUFFICES ASSUME NEW m \in Meter PROVE CountOf(ex, m) > 0 <=> CountOf(ex, m) # 0
      OBVIOUS
    <3>1. CountOf(ex, m) \in Nat
      BY CountType
    <3> QED BY <3>1
  <2>3. Had(ex, list, 1) = {m \in Meter : CountOf(ex, m) > 0}
    BY <2>1 DEF Had
  <2> QED BY <1>3, <2>2, <2>3
<1>5. Had(ex, list, Len(list) + 1) = {m \in Meter : Total(ex, list, none)[m] # 0}
  <2>1. 1 .. (Len(list) + 1) - 1 = DOMAIN list
    BY <1>1
  <2>2. Had(ex, list, Len(list) + 1) = {m \in Meter : CountOf(ex, m) > 0 \/ \E t \in DOMAIN list : m \in Reach[list[t]]}
    BY <2>1 DEF Had
  <2>3. ASSUME NEW m \in Meter
        PROVE  (CountOf(ex, m) > 0 \/ \E t \in DOMAIN list : m \in Reach[list[t]]) <=> Total(ex, list, none)[m] # 0
    <3>1. Total(ex, list, none)[m] = CountOf(ex, m) + CountOf(list, m) + CountOf(none, m)
      BY <1>1, TotalType
    <3>2. CountOf(ex, m) \in Nat /\ CountOf(list, m) \in Nat
      BY CountType
    <3>3. (\E t \in DOMAIN list : m \in Reach[list[t]]) <=> CountOf(list, m) # 0
      BY CountType
    <3> QED BY <1>2, <3>1, <3>2, <3>3
  <2> QED BY <2>2, <2>3
<1> QED BY <1>4, <1>5 DEF Covered, none

\* When the curve is over and has room left, everything is reached.
LEMMA CurveReachesAll ==
  ASSUME PlaceInv, EndCurve, 1 + Len(chosen) + Len(picks) <= CurveLimit
  PROVE  Covered(cov) = N
<1>1. phase = "curve" /\ GreedyOver
  BY DEF EndCurve
<1>2. /\ Len(chosen) \in Nat /\ Len(picks) \in Nat /\ CurveLimit \in Nat
      /\ Goal.min = 1 /\ Goal.stopAt = N /\ Goal.list = picks /\ Goal.limit = CurveLimit - Len(chosen)
  <2>1. Len(chosen) \in Nat /\ Len(picks) \in Nat
    BY LenProperties DEF PlaceInv, PlaceTypes
  <2> QED BY <1>1, <2>1, PlacementAssumption DEF Goal
<1>3. cov \in Counts /\ Covered(cov) \in Nat /\ Covered(cov) <= N /\ N \in Nat
  BY CovIs
<1>4. Len(chosen) < CurveLimit /\ Len(picks) < CurveLimit - Len(chosen)
  BY <1>2
<1>5. CASE Enough
  BY <1>2, <1>3, <1>5 DEF Enough
<1>6. CASE ~Enough
  <2>1. \A j \in Candidate : FreeGain(cov, j) > 0 => \E e \in heap : e.cand = j
    BY <1>1, <1>4 DEF PlaceInv, Heaped
  <2>2. \A j \in Candidate : FreeGain(cov, j) = 0
    <3> SUFFICES ASSUME NEW j \in Candidate, FreeGain(cov, j) # 0 PROVE FALSE
      OBVIOUS
    <3>1. FreeGain(cov, j) \in Nat
      BY GainBounds, Candidates
    <3>2. PICK e \in heap : e.cand = j
      BY <2>1, <3>1
    <3>3. Top \in heap /\ \A f \in heap \ {Top} : Above(Top, f)
      BY <3>2, TopIs DEF PlaceInv
    <3>4. Top.stamp = stamp /\ ~ (Top.gain >= 1)
      BY <1>1, <1>2, <1>4, <1>6, <3>2 DEF GreedyOver, Current, Worth
    <3>5. /\ e.gain >= FreeGain(cov, e.cand) /\ e.gain \in Nat /\ Top.gain \in Nat
      BY <3>2, <3>3 DEF PlaceInv, Heaped
    <3>6. Top.gain >= e.gain
      <4>1. CASE e = Top
        BY <3>5, <4>1
      <4>2. CASE e # Top
        BY <3>2, <3>3, <3>5, <4>2 DEF Above
      <4> QED BY <4>1, <4>2
    <3> QED BY <3>1, <3>2, <3>4, <3>5, <3>6
  <2> QED BY <1>3, <2>2, NothingLeft
<1> QED BY <1>5, <1>6

Running(total, L, c, a, first) ==
  /\ L \in Nat /\ c \in [1 .. L + 1 -> Nat] /\ a \in [1 .. L -> Nat] /\ first = c[1]
  /\ \A n \in 1 .. L : c[n + 1] = c[n] + a[n]
  /\ total = CHOOSE f : f = [n \in 0 .. L |-> IF n = 0 THEN first ELSE f[n - 1] + a[n]]

\* What the running total tells is what is there.
LEMMA TotalIs ==
  ASSUME NEW L, NEW c, NEW a, NEW first, NEW total, Running(total, L, c, a, first)
  PROVE  total \in [0 .. L -> Nat] /\ \A n \in 0 .. L : total[n] = c[n + 1]
<1>0. /\ L \in Nat /\ c \in [1 .. L + 1 -> Nat] /\ a \in [1 .. L -> Nat] /\ first = c[1]
      /\ \A n \in 1 .. L : c[n + 1] = c[n] + a[n]
  BY DEF Running
<1> DEFINE d == [n \in 0 .. L |-> c[n + 1]]
<1>1. d = [n \in 0 .. L |-> IF n = 0 THEN first ELSE d[n - 1] + a[n]]
  <2>1. ASSUME NEW n \in 0 .. L, n # 0
        PROVE  d[n] = d[n - 1] + a[n]
    <3>1. n - 1 \in 0 .. L /\ n \in 1 .. L /\ (n - 1) + 1 = n
      BY <1>0, <2>1
    <3>2. d[n - 1] = c[n] /\ d[n] = c[n + 1]
      BY <3>1
    <3> QED BY <1>0, <3>1, <3>2
  <2>2. d[0] = first
    BY <1>0
  <2> QED BY <2>1, <2>2
<1> HIDE DEF d
<1>2. total = [n \in 0 .. L |-> IF n = 0 THEN first ELSE total[n - 1] + a[n]]
  BY <1>1 DEF Running
<1>3. \A n \in 0 .. L : total[n] = d[n]
  <2> DEFINE Good == {n \in Nat : n <= L => total[n] = d[n]}
  <2>1. 0 \in Good
    <3>1. 0 \in 0 .. L
      BY <1>0
    <3>2. total[0] = first
      BY <1>2, <3>1
    <3>3. d[0] = first
      BY <1>1, <3>1
    <3> QED BY <3>2, <3>3
  <2>2. ASSUME NEW n \in Nat, n \in Good
        PROVE  n + 1 \in Good
    <3>1. CASE n + 1 <= L
      <4>1. n + 1 \in 0 .. L /\ n + 1 # 0 /\ (n + 1) - 1 = n /\ total[n] = d[n]
        BY <1>0, <2>2, <3>1
      <4>2. total[n + 1] = total[(n + 1) - 1] + a[n + 1]
        BY <1>2, <4>1
      <4>3. d[n + 1] = d[(n + 1) - 1] + a[n + 1]
        BY <1>1, <4>1
      <4> QED BY <4>1, <4>2, <4>3
    <3>2. CASE ~(n + 1 <= L)
      BY <3>2
    <3> QED BY <3>1, <3>2
  <2> HIDE DEF Good
  <2>3. \A n \in Nat : n \in Good
    BY <2>1, <2>2, NumberInduction
  <2> SUFFICES ASSUME NEW n \in 0 .. L PROVE total[n] = d[n]
    OBVIOUS
  <2>4. n \in Nat /\ n <= L
    BY <1>0
  <2>5. n \in Good
    BY <2>3, <2>4
  <2> QED BY <2>4, <2>5 DEF Good
<1>4. \A n \in 0 .. L : d[n] = c[n + 1]
  BY DEF d
<1>5. \A n \in 0 .. L : total[n] = c[n + 1] /\ c[n + 1] \in Nat
  <2> SUFFICES ASSUME NEW n \in 0 .. L PROVE total[n] = c[n + 1] /\ c[n + 1] \in Nat
    OBVIOUS
  <2>1. n + 1 \in 1 .. L + 1
    BY <1>0
  <2> QED BY <1>0, <1>3, <1>4, <2>1
<1>6. DOMAIN total = 0 .. L /\ total = [n \in 0 .. L |-> total[n]]
  BY <1>2
<1> QED BY <1>5, <1>6

LEMMA EndCurveRanked ==
  ASSUME PlaceInv, Ranked, EndCurve
  PROVE  Ranked'
<1> DEFINE ex == ask.existing
           added == report.added
           G == Len(chosen)
           P == Len(picks)
           c == [n \in 1 .. G + 1 |-> Cardinality(Had(ex, chosen, n))]
           total == CHOOSE f : f = [k \in 0 .. G |-> IF k = 0 THEN Covered(Base) ELSE f[k - 1] + added[k]]
           plan == Exchanged(cov, picks, <<>>)
           with(k) == Exchanged(plan, <<>>, SubSeq(picks, 1, k))
           curve == [k \in 1 .. 1 + G + P |->
                       IF k <= 1 + G THEN total[k - 1]
                       ELSE total[G] + Covered(with(k - 1 - G)) - Covered(plan)]
<1>1. /\ phase = "curve" /\ phase' = "done" /\ cov' = plan
      /\ report' = [report EXCEPT !.curve = Curve] /\ ask' = ask /\ chosen' = chosen /\ picks' = picks
  BY DEF EndCurve
<1>2. /\ ex \in Seq(Spot) /\ chosen \in Seq(Spot) /\ picks \in Seq(Spot) /\ G \in Nat /\ P \in Nat
      /\ CurveLimit \in Nat
  <2>1. ex \in Seq(Spot) /\ chosen \in Seq(Spot) /\ picks \in Seq(Spot)
    BY AskTypes DEF PlaceInv, PlaceTypes
  <2> QED BY <2>1, LenProperties, PlacementAssumption
<1>3. /\ added \in Seq(Nat) /\ Len(added) = G
      /\ \A k \in 1 .. G : added[k] = Adding(ex, chosen, k, k)
      /\ \A k \in 1 .. G - 1 : added[k] >= added[k + 1]
  BY <1>1 DEF Ranked
<1>4. Curve = curve
  BY DEF Curve
<1>5. cov = Total(ex, chosen, picks)
  BY <1>1, CovIs
<1>6. plan = Total(ex, chosen, <<>>)
  BY <1>2, <1>5, TotalExchanged
<1> HIDE DEF plan
<1>7. \A i \in 1 .. G : chosen[i] \in Spot
  BY <1>2, ElementOfSeq
<1>8. total \in [0 .. G -> Nat] /\ \A n \in 0 .. G : total[n] = c[n + 1]
  <2>1. c \in [1 .. G + 1 -> Nat]
    <3>1. \A n \in 1 .. G + 1 : IsFiniteSet(Had(ex, chosen, n))
      <4> TAKE n \in 1 .. G + 1
      <4>1. Had(ex, chosen, n) \subseteq Meter /\ IsFiniteSet(Meter)
        BY SpaceAssumption DEF Had
      <4> QED BY <4>1, FS_Subset
    <3>2. \A n \in 1 .. G + 1 : Cardinality(Had(ex, chosen, n)) \in Nat
      BY <3>1, FS_CardinalityType
    <3> QED BY <3>2
  <2>2. added \in [1 .. G -> Nat]
    BY <1>2, <1>3
  <2>3. \A n \in 1 .. G : c[n + 1] = c[n] + added[n]
    <3> SUFFICES ASSUME NEW n \in 1 .. G PROVE c[n + 1] = c[n] + added[n]
      OBVIOUS
    <3>1. n \in Nat /\ n >= 1 /\ n \in 1 .. G + 1 /\ n + 1 \in 1 .. G + 1
      BY <1>2
    <3>2. Cardinality(Had(ex, chosen, n + 1)) = Cardinality(Had(ex, chosen, n)) + Adding(ex, chosen, n, n)
      <4> HIDE DEF ex
      <4> QED BY <1>7, <3>1, HadGrows
    <3> QED BY <1>3, <3>1, <3>2
  <2>4. Covered(Base) = c[1]
    <3>1. Base = Total(ex, <<>>, <<>>)
      BY <1>2, BaseIs
    <3>2. Cardinality(Had(ex, chosen, 1)) = Covered(Total(ex, <<>>, <<>>))
      <4> HIDE DEF ex
      <4> QED BY <1>2, HadEnds
    <3> QED BY <1>2, <3>1, <3>2
  <2> DEFINE first == Covered(Base)
  <2>6. first = c[1]
    BY <2>4
  <2>5. G \in Nat
    BY <1>2
  <2>7. total = CHOOSE f : f = [n \in 0 .. G |-> IF n = 0 THEN first ELSE f[n - 1] + added[n]]
    OBVIOUS
  <2> HIDE DEF c, added, total, G, first
  <2>8. Running(total, G, c, added, first)
    BY <2>1, <2>2, <2>3, <2>5, <2>6, <2>7 DEF Running
  <2> QED BY <2>8, TotalIs
<1> HIDE DEF total
<1>9. total[G] = Covered(plan)
  <2>1. G \in 0 .. G /\ G + 1 \in 1 .. G + 1
    BY <1>2
  <2>2. Cardinality(Had(ex, chosen, Len(chosen) + 1)) = Covered(Total(ex, chosen, <<>>))
    <3> HIDE DEF ex
    <3> QED BY <1>2, HadEnds
  <2> QED BY <1>6, <1>8, <2>1, <2>2
<1>10. \A n \in 0 .. G - 1 : total[n] <= total[n + 1]
  <2> SUFFICES ASSUME NEW n \in 0 .. G - 1 PROVE total[n] <= total[n + 1]
    OBVIOUS
  <2>1. n \in 0 .. G /\ n + 1 \in 0 .. G /\ n + 1 \in 1 .. G /\ n + 1 \in Nat /\ n + 1 >= 1
        /\ n + 1 \in 1 .. G + 1 /\ (n + 1) + 1 \in 1 .. G + 1
    BY <1>2
  <2>2. total[n] = c[n + 1] /\ total[n + 1] = c[(n + 1) + 1] /\ total[n] \in Nat
    BY <1>8, <2>1
  <2>3. c[(n + 1) + 1] = c[n + 1] + Adding(ex, chosen, n + 1, n + 1)
    <3> DEFINE k == n + 1
    <3>1. k \in Nat /\ k >= 1 /\ chosen[k] \in Spot /\ k \in 1 .. G + 1 /\ k + 1 \in 1 .. G + 1
      BY <1>7, <2>1
    <3> HIDE DEF k, ex
    <3>2. Cardinality(Had(ex, chosen, k + 1)) = Cardinality(Had(ex, chosen, k)) + Adding(ex, chosen, k, k)
      BY <3>1, HadGrows
    <3> QED BY <3>1, <3>2 DEF k
  <2>4. Adding(ex, chosen, n + 1, n + 1) \in Nat
    <3>1. added[n + 1] = Adding(ex, chosen, n + 1, n + 1) /\ added[n + 1] \in Nat
      BY <1>3, <2>1, ElementOfSeq
    <3> QED BY <3>1
  <2> HIDE DEF c, ex
  <2> QED BY <2>2, <2>3, <2>4
<1> HIDE DEF c
<1>11. \A k \in 0 .. P : with(k) = Total(ex, chosen, SubSeq(picks, 1, k)) /\ SubSeq(picks, 1, k) \in Seq(Spot)
  <2> SUFFICES ASSUME NEW k \in 0 .. P
               PROVE  with(k) = Total(ex, chosen, SubSeq(picks, 1, k)) /\ SubSeq(picks, 1, k) \in Seq(Spot)
    OBVIOUS
  <2>1. SubSeq(picks, 1, k) \in Seq(Spot)
    BY <1>2, FirstOnes
  <2> DEFINE some == SubSeq(picks, 1, k)
             none == <<>>
  <2>2. none \in Seq(Spot) /\ \A m : CountOf(none, m) = 0
    BY CountNone
  <2>3. plan = Total(ex, chosen, none) /\ with(k) = Exchanged(plan, none, some) /\ some \in Seq(Spot)
    BY <1>6, <2>1
  <2>8. none \in Seq(Spot) /\ ex \in Seq(Spot) /\ chosen \in Seq(Spot)
    BY <1>2, <2>2
  <2> HIDE DEF some, none, ex
  <2>4. \A m \in Meter : /\ CountOf(ex, m) \in Nat /\ CountOf(chosen, m) \in Nat /\ CountOf(some, m) \in Nat
                         /\ Total(ex, chosen, none)[m] = CountOf(ex, m) + CountOf(chosen, m) + CountOf(none, m)
    <3>1. \A m \in Meter : Total(ex, chosen, none)[m] = CountOf(ex, m) + CountOf(chosen, m) + CountOf(none, m)
      BY <2>8, TotalType
    <3>2. \A m \in Meter : CountOf(ex, m) \in Nat /\ CountOf(chosen, m) \in Nat /\ CountOf(some, m) \in Nat
      BY <2>3, <2>8, TotalType
    <3> QED BY <3>1, <3>2
  <2>5. \A m \in Meter : /\ CountOf(ex, m) \in Nat /\ CountOf(chosen, m) \in Nat /\ CountOf(some, m) \in Nat
                         /\ Total(ex, chosen, some)[m] = CountOf(ex, m) + CountOf(chosen, m) + CountOf(some, m)
    BY <1>2, <2>3, TotalType
  <2>6. \A m \in Meter : Total(ex, chosen, none)[m] - CountOf(none, m) + CountOf(some, m) = Total(ex, chosen, some)[m]
    BY <2>2, <2>4, <2>5
  <2>7. Exchanged(plan, none, some) = Total(ex, chosen, some)
    <3>1. Exchanged(plan, none, some) = [m \in Meter |-> Total(ex, chosen, none)[m] - CountOf(none, m) + CountOf(some, m)]
      BY <2>3 DEF Exchanged
    <3>2. Total(ex, chosen, some) = [m \in Meter |-> Total(ex, chosen, some)[m]]
      BY DEF Total
    <3> QED BY <2>6, <3>1, <3>2
  <2> QED BY <2>3, <2>7 DEF some
<1> DEFINE reach(k) == Covered(with(k))
<1>12. \A k \in 0 .. P : reach(k) \in Nat
  BY CoveredFinite
<1>13. \A k \in 1 .. P : reach(k - 1) <= reach(k)
  <2> SUFFICES ASSUME NEW k \in 1 .. P PROVE reach(k - 1) <= reach(k)
    OBVIOUS
  <2>1. k \in 0 .. P /\ k - 1 \in 0 .. P /\ k > 0
    BY <1>2
  <2> DEFINE some == SubSeq(picks, 1, k - 1)
             more == SubSeq(picks, 1, k)
  <2>2. with(k - 1) = Total(ex, chosen, some) /\ with(k) = Total(ex, chosen, more)
        /\ some \in Seq(Spot) /\ more \in Seq(Spot)
    BY <1>11, <2>1
  <2>3. \A m : CountOf(some, m) <= CountOf(more, m)
    BY <1>2, <2>1, FirstOnes
  <2> HIDE DEF some, more, ex
  <2>4. /\ Total(ex, chosen, some) \in Counts
        /\ \A m \in Meter : /\ Total(ex, chosen, some)[m] = CountOf(ex, m) + CountOf(chosen, m) + CountOf(some, m)
                            /\ CountOf(ex, m) \in Nat /\ CountOf(chosen, m) \in Nat /\ CountOf(some, m) \in Nat
    BY <1>2, <2>2, TotalType
  <2>5. /\ Total(ex, chosen, more) \in Counts
        /\ \A m \in Meter : /\ Total(ex, chosen, more)[m] = CountOf(ex, m) + CountOf(chosen, m) + CountOf(more, m)
                            /\ CountOf(more, m) \in Nat
    BY <1>2, <2>2, TotalType
  <2>6. \A m \in Meter : Total(ex, chosen, some)[m] <= Total(ex, chosen, more)[m]
    BY <2>3, <2>4, <2>5
  <2>7. Covered(Total(ex, chosen, some)) <= Covered(Total(ex, chosen, more))
    BY <2>4, <2>5, <2>6, CoveredRises
  <2> QED BY <2>2, <2>7
<1>14. reach(0) = Covered(plan) /\ reach(P) = Covered(cov)
  <2>1. 0 \in 0 .. P /\ P \in 0 .. P
    BY <1>2
  <2>2. SubSeq(picks, 1, P) = picks /\ SubSeq(picks, 1, 0) = <<>>
    BY <1>2, SubSeqFull, SubSeqEmpty
  <2>3. with(P) = Total(ex, chosen, picks) /\ with(0) = Total(ex, chosen, <<>>)
    BY <1>11, <2>1, <2>2
  <2> QED BY <1>5, <1>6, <2>3
<1>15. \A k \in 1 .. 1 + G + P : curve[k] = IF k <= 1 + G THEN total[k - 1]
                                          ELSE total[G] + reach(k - 1 - G) - Covered(plan)
  OBVIOUS
<1>16. /\ \A k \in 1 .. 1 + G : curve[k] = total[k - 1] /\ total[k - 1] \in Nat
       /\ \A k \in 1 + G .. 1 + G + P : curve[k] = reach(k - 1 - G) /\ reach(k - 1 - G) \in Nat
  <2>1. ASSUME NEW k \in 1 .. 1 + G
        PROVE  curve[k] = total[k - 1] /\ total[k - 1] \in Nat
    <3>1. k \in 1 .. 1 + G + P /\ k <= 1 + G /\ k - 1 \in 0 .. G
      BY <1>2
    <3> HIDE DEF reach, curve
    <3> QED BY <1>8, <1>15, <3>1
  <2>2. ASSUME NEW k \in 1 + G .. 1 + G + P
        PROVE  curve[k] = reach(k - 1 - G) /\ reach(k - 1 - G) \in Nat
    <3>1. k \in 1 .. 1 + G + P /\ k - 1 - G \in 0 .. P /\ G \in 0 .. G /\ (k <= 1 + G => k = 1 + G)
      BY <1>2
    <3>2. total[G] \in Nat /\ Covered(plan) \in Nat /\ reach(k - 1 - G) \in Nat
      BY <1>8, <1>12, <3>1, CoveredFinite
    <3> HIDE DEF reach, curve
    <3>3. CASE k <= 1 + G
      <4>1. k = 1 + G /\ k - 1 - G = 0 /\ k - 1 = G
        BY <1>2, <3>1, <3>3
      <4>2. curve[k] = total[G] /\ reach(k - 1 - G) = total[G]
        BY <1>9, <1>14, <1>15, <3>1, <3>3, <4>1
      <4> QED BY <3>2, <4>2
    <3>4. CASE ~ (k <= 1 + G)
      <4>1. curve[k] = total[G] + reach(k - 1 - G) - Covered(plan)
        BY <1>15, <3>1, <3>4
      <4> QED BY <1>9, <3>2, <4>1
    <3> QED BY <3>3, <3>4
  <2> QED BY <2>1, <2>2
<1>17. Len(curve) = 1 + G + P
  <2>1. \A k \in 1 .. 1 + G + P : curve[k] \in Nat
    <3> TAKE k \in 1 .. 1 + G + P
    <3>1. k \in 1 .. 1 + G \/ k \in 1 + G .. 1 + G + P
      BY <1>2
    <3> HIDE DEF curve, reach
    <3> QED BY <1>16, <3>1
  <2>2. curve \in [1 .. 1 + G + P -> Nat] /\ 1 + G + P \in Nat
    BY <1>2, <2>1
  <2> HIDE DEF curve
  <2> QED BY <2>2
<1>18. \A k \in 1 .. (1 + G + P) - 1 : curve[k] <= curve[k + 1]
  <2> SUFFICES ASSUME NEW k \in 1 .. (1 + G + P) - 1 PROVE curve[k] <= curve[k + 1]
    OBVIOUS
  <2>1. CASE k <= G
    <3>1. k \in 1 .. 1 + G /\ k + 1 \in 1 .. 1 + G /\ k - 1 \in 0 .. G - 1 /\ (k + 1) - 1 = (k - 1) + 1
      BY <1>2, <2>1
    <3>2. curve[k] = total[k - 1] /\ curve[k + 1] = total[(k + 1) - 1]
      <4> HIDE DEF curve, reach
      <4> QED BY <1>16, <3>1
    <3>3. total[k - 1] <= total[(k - 1) + 1]
      BY <1>10, <3>1
    <3> HIDE DEF curve
    <3> QED BY <3>1, <3>2, <3>3
  <2>2. CASE ~ (k <= G)
    <3>1. k \in 1 + G .. 1 + G + P /\ k + 1 \in 1 + G .. 1 + G + P /\ k - G \in 1 .. P
          /\ (k + 1) - 1 - G = k - G /\ k - 1 - G = (k - G) - 1
      BY <1>2, <2>2
    <3>2. curve[k] = reach(k - 1 - G) /\ curve[k + 1] = reach((k + 1) - 1 - G)
      <4> HIDE DEF curve, reach
      <4> QED BY <1>16, <3>1
    <3>3. reach((k - G) - 1) <= reach(k - G)
      <4> HIDE DEF reach
      <4> QED BY <1>13, <3>1
    <3>4. curve[k] = reach((k - G) - 1) /\ curve[k + 1] = reach(k - G)
      <4> HIDE DEF curve
      <4> QED BY <3>1, <3>2
    <3> HIDE DEF curve, reach
    <3> QED BY <3>3, <3>4
  <2> QED BY <2>1, <2>2
<1>19. curve[G + 1] = Covered(plan)
  <2>1. G + 1 \in 1 .. 1 + G /\ (G + 1) - 1 = G
    BY <1>2
  <2> HIDE DEF curve, reach
  <2> QED BY <1>9, <1>16, <2>1
<1>20. 1 + G + P <= CurveLimit => curve[1 + G + P] = N
  <2> SUFFICES ASSUME 1 + G + P <= CurveLimit PROVE curve[1 + G + P] = N
    OBVIOUS
  <2>1. Covered(cov) = N
    BY CurveReachesAll
  <2>2. 1 + G + P \in 1 + G .. 1 + G + P /\ (1 + G + P) - 1 - G = P
    BY <1>2
  <2>3. curve[1 + G + P] = reach((1 + G + P) - 1 - G)
    <3> HIDE DEF curve, reach
    <3> QED BY <1>16, <2>2
  <2>4. reach((1 + G + P) - 1 - G) = reach(P)
    BY <2>2
  <2> HIDE DEF curve, reach
  <2> QED BY <1>14, <2>1, <2>3, <2>4
<1>21. report'.curve = curve /\ report'.added = added /\ {"added", "curve"} \subseteq DOMAIN report'
  <2>1. {"added", "curve"} \subseteq DOMAIN report
    BY DEF Ranked
  <2> HIDE DEF curve
  <2> QED BY <1>1, <1>4, <2>1
<1>22. CurveTrue'
  <2> HIDE DEF curve
  <2>1. \A k \in 1 .. Len(chosen') - 1 : report'.added[k] >= report'.added[k + 1]
    BY <1>1, <1>3, <1>21
  <2>2. report'.curve[Len(chosen') + 1] = Covered(cov')
    BY <1>1, <1>19, <1>21
  <2>3. \A k \in 1 .. Len(report'.curve) - 1 : report'.curve[k] <= report'.curve[k + 1]
    BY <1>17, <1>18, <1>21
  <2>4. Len(report'.curve) = Len(chosen') + 1 + Len(picks')
    BY <1>1, <1>2, <1>17, <1>21
  <2>5. Len(report'.curve) <= CurveLimit => report'.curve[Len(report'.curve)] = N
    BY <1>17, <1>20, <1>21
  <2> HIDE DEF G, P
  <2> QED BY <2>1, <2>2, <2>3, <2>4, <2>5 DEF CurveTrue
<1>23. /\ \A k \in 1 .. Len(added) : added[k] = Adding(ex, chosen, k, k)
       /\ \A k \in 1 .. Len(added) : k = Len(added) => \A t \in k + 1 .. G : Adding(ex, chosen, k, t) <= added[k]
  BY DEF Ranked
<1> QED BY <1>1, <1>3, <1>21, <1>22, <1>23 DEF Ranked

-----------------------------------------------------------------------------
(* The theorems                                                            *)

LEMMA RankedInitially ==
  ASSUME PlaceStart("round") \/ PlaceStart("idle")
  PROVE  Ranked
<1>1. /\ phase \in {"round", "idle"} /\ chosen = <<>>
      /\ report = [next |-> 0, stop |-> "none", added |-> <<>>, curve |-> <<>>]
  BY DEF PlaceStart
<1>2. report.added = <<>> /\ {"added", "curve"} \subseteq DOMAIN report
  BY <1>1
<1>3. chosen \in Seq(Spot)
  BY <1>1
<1> QED BY <1>1, <1>2, <1>3, NothingRanked

\* No other step touches the ranking.
LEMMA PlaceStepKeeps ==
  ASSUME PlaceInv, Ranked, [PlaceNext]_placeVars
  PROVE  PlaceInv' /\ Ranked'
<1>0. report.added \in Seq(Nat) /\ {"added", "curve"} \subseteq DOMAIN report
  BY DEF Ranked
<1>1. PlaceInv'
  <2>1. CASE StartRound
    BY <2>1, StartRoundKeeps
  <2>2. CASE Refresh
    BY <2>2, RefreshKeeps
  <2>3. CASE Pick
    BY <2>3, PickKeeps
  <2>4. CASE EndGreedy
    BY <2>4, EndGreedyKeeps
  <2>5. CASE Improve
    BY <2>5, ImproveKeeps
  <2>6. CASE NextPass
    BY <2>6, NextPassKeeps
  <2>7. CASE EndRefine
    BY <2>7, EndRefineKeeps
  <2>8. CASE TakePair
    BY <2>8, TakePairKeeps
  <2>9. CASE PutBest
    BY <2>9, PutBestKeeps
  <2>10. CASE Judge
    BY <2>10, JudgeKeeps
  <2>11. CASE EndPairs
    BY <2>11, EndPairsKeeps
  <2>12. CASE Drop
    BY <2>12, DropKeeps
  <2>13. CASE EndRound \/ Stop
    BY <2>13, EndRoundKeeps
  <2>14. CASE Snapped
    BY <2>14, SnappedKeeps
  <2>15. CASE Rank
    BY <1>0, <2>15, RankKeeps
  <2>16. CASE StartCurve
    BY <2>16, StartCurveKeeps
  <2>17. CASE EndCurve
    BY <2>17, EndCurveKeeps
  <2>18. CASE UNCHANGED placeVars
    BY <2>18 DEF placeVars, PlaceInv, PlaceTypes, Booked, Heaped, Sizes, Trying, Fits
  <2> QED BY <2>1, <2>2, <2>3, <2>4, <2>5, <2>6, <2>7, <2>8, <2>9, <2>10, <2>11, <2>12, <2>13,
             <2>14, <2>15, <2>16, <2>17, <2>18 DEF PlaceNext
<1>2. chosen' \in Seq(Spot)
  BY <1>1 DEF PlaceInv, PlaceTypes
<1>3. ASSUME phase \notin {"rank", "curve", "done"}, report' = report, phase' \notin {"curve", "done"}
      PROVE  Ranked'
  <2>1. report.added = <<>>
    BY <1>3 DEF Ranked
  <2>2. report'.added = <<>> /\ {"added", "curve"} \subseteq DOMAIN report'
    BY <1>0, <1>3, <2>1
  <2> QED BY <1>2, <1>3, <2>2, NothingRankedThen
<1> SUFFICES Ranked'
  BY <1>1
<1>4. CASE StartRound \/ EndGreedy \/ NextPass \/ EndRefine \/ TakePair \/ Judge
           \/ Drop \/ EndRound \/ Snapped
  <2>1. phase \notin {"rank", "curve", "done"} /\ report' = report /\ phase' \notin {"curve", "done"}
    BY <1>4 DEF StartRound, EndGreedy, NextPass, EndRefine, TakePair, Judge, Drop, EndRound,
                Snapped, RefineFrom
  <2> QED BY <1>3, <2>1
<1>5. CASE Improve \/ PutBest \/ EndPairs
  <2>1. phase \in {"refine", "put", "pairs"} /\ report' = report /\ phase' \in {"refine", "put", "prune"}
    BY <1>5 DEF Improve, PutBest, EndPairs, RefineFrom
  <2> QED BY <1>3, <2>1
<1>6. CASE Refresh \/ Pick
  <2>1. phase' = phase /\ report' = report /\ ask' = ask /\ phase \in {"greedy", "curve"}
    BY <1>6 DEF Refresh, Pick
  <2>2. CASE phase = "greedy"
    BY <1>3, <2>1, <2>2
  <2>3. CASE phase = "curve"
    <3>1. chosen' = chosen
      BY <1>6, <2>3 DEF Refresh, Pick
    <3> QED BY <2>1, <2>3, <3>1, RankedStays
  <2> QED BY <2>1, <2>2, <2>3
<1>7. CASE Stop
  <2>1. phase = "stop" /\ phase' = "snap"
        /\ report' = [report EXCEPT !.next = NextGain, !.stop = StopReason]
    BY <1>7 DEF Stop
  <2>2. report'.added = report.added /\ DOMAIN report' = DOMAIN report /\ report.added = <<>>
    BY <1>0, <2>1 DEF Ranked
  <2> QED BY <1>0, <1>2, <2>1, <2>2, NothingRankedThen
<1>8. CASE Rank
  BY <1>8, RankRanked
<1>9. CASE StartCurve
  <2>1. report' = report /\ chosen' = chosen /\ ask' = ask /\ phase = "rank" /\ phase' = "curve"
        /\ Len(report.added) = Len(chosen)
    BY <1>9 DEF StartCurve
  <2> QED BY <2>1, RankedStays
<1>10. CASE EndCurve
  BY <1>10, EndCurveRanked
<1>11. CASE UNCHANGED placeVars
  BY <1>11 DEF placeVars, Ranked, CurveTrue
<1> QED BY <1>1, <1>4, <1>5, <1>6, <1>7, <1>8, <1>9, <1>10, <1>11 DEF PlaceNext

LEMMA PlaceInvariance == PlaceSpec => [](PlaceInv /\ Ranked)
<1>1. PlaceInit => PlaceInv /\ Ranked
  BY PlaceInitially, RankedInitially DEF PlaceInit
<1>2. PlaceInv /\ Ranked /\ [PlaceNext]_placeVars => (PlaceInv /\ Ranked)'
  BY PlaceStepKeeps
<1> QED BY <1>1, <1>2, PTL DEF PlaceSpec

\* (gatewayPlacement.ts:454-545) The report adds up: what the gateways add in rank order falls
\* and sums to what the plan reaches, and the curve ends where the picks beyond it end.
THEOREM ReportAddsUp == PlaceSpec => []CurveTrue
<1>1. PlaceInv /\ Ranked => CurveTrue
  BY DEF Ranked
<1> QED BY <1>1, PlaceInvariance, PTL

LEMMA CountedIs ==
  ASSUME PlaceInv
  PROVE  CountsMatch
<1> DEFINE reached(list, m) == Cardinality({t \in DOMAIN list :
                                 Dist2(MeterAt[m], SpotAt[list[t]]) <= R * R})
           beyond == IF phase = "curve" THEN picks ELSE <<>>
<1>1. ask.existing \in Seq(Spot) /\ chosen \in Seq(Spot) /\ beyond \in Seq(Spot)
  <2>1. picks \in Seq(Spot) /\ <<>> \in Seq(Spot)
    BY DEF PlaceInv, PlaceTypes
  <2> QED BY <2>1, AskTypes DEF PlaceInv, PlaceTypes
<1>2. cov = Total(ask.existing, chosen, beyond)
  BY DEF PlaceInv, Booked
<1>3. ASSUME NEW list \in Seq(Spot), NEW m \in Meter
      PROVE  reached(list, m) = CountOf(list, m)
  <2>1. \A t \in DOMAIN list : list[t] \in Spot
    BY LenProperties, ElementOfSeq
  <2>2. \A s \in Spot : m \in Reach[s] <=> Dist2(MeterAt[m], SpotAt[s]) <= R * R
    BY ReachByDistance
  <2>3. {t \in DOMAIN list : Dist2(MeterAt[m], SpotAt[list[t]]) <= R * R} = {t \in DOMAIN list : m \in Reach[list[t]]}
    BY <2>1, <2>2
  <2> QED BY <2>3 DEF CountOf
<1>4. \A m \in Meter : cov[m] = CountOf(ask.existing, m) + CountOf(chosen, m) + CountOf(beyond, m)
  BY <1>2 DEF Total
<1>5. \A m \in Meter : cov[m] = reached(ask.existing, m) + reached(chosen, m) + reached(beyond, m)
  <2> TAKE m \in Meter
  <2>1. /\ reached(ask.existing, m) = CountOf(ask.existing, m)
        /\ reached(chosen, m) = CountOf(chosen, m)
        /\ reached(beyond, m) = CountOf(beyond, m)
    <3> HIDE DEF beyond
    <3> QED BY <1>1, <1>3
  <2> QED BY <1>4, <2>1
<1>6. Len(chosen) <= ask.k
  BY DEF PlaceInv, Sizes
<1> QED BY <1>5, <1>6 DEF CountsMatch

\* (coverageSpace.ts:219-250, gatewayPlacement.ts:374-420) The count that goes through
\* placing, lifting, trying and undoing is that of the gateways in place, and there are
\* never more of them than asked for.
THEOREM CountIsOfThoseInPlace == PlaceSpec => []CountsMatch
BY CountedIs, PlaceInvariance, PTL

LEMMA PicksBest ==
  ASSUME PlaceInv, [PlaceNext]_placeVars
  PROVE  [Pick => LET picked == Top.cand
                  IN \A j \in Candidate : \/ FreeGain(cov, j) < FreeGain(cov, picked)
                                          \/ FreeGain(cov, j) = FreeGain(cov, picked) /\ picked <= j]_placeVars
BY PickedIsBest

\* (gatewayPlacement.ts:242-263) Greedy that looks again only at the top of its heap picks what
\* working out every candidate would pick.
THEOREM PicksAreBest == PlaceSpec => PickIsBest
BY PicksBest, PlaceInvariance, PTL DEF PlaceSpec, PickIsBest

LEMMA SearchedBest ==
  ASSUME PlaceInv, [PlaceNext]_placeVars
  PROVE  [Improve /\ loop.t >= 1 =>
            LET lifted == Lifted(cov, chosen[loop.t])
            IN  \A j \in Candidate : FreeGain(lifted, j) <= FreeGain(lifted, chosen'[loop.t])]_placeVars
<1> SUFFICES ASSUME Improve, loop.t >= 1, NEW j \in Candidate
             PROVE  LET lifted == Lifted(cov, chosen[loop.t])
                    IN  FreeGain(lifted, j) <= FreeGain(lifted, chosen'[loop.t])
  OBVIOUS
<1> DEFINE lifted == Lifted(cov, chosen[loop.t])
<1>1. loop.t \in Int /\ chosen \in Seq(Spot)
  BY DEF PlaceInv, PlaceTypes
<1>2. PICK p \in Spot : /\ loop.t \in DOMAIN chosen
                        /\ chosen' = [chosen EXCEPT ![loop.t] = p]
                        /\ \A i \in Candidate : FreeGain(lifted, i) <= FreeGain(lifted, p)
  <2>1. ~ (loop.t < 1)
    BY <1>1
  <2> QED BY <2>1, ImproveDoes
<1>3. chosen'[loop.t] = p
  BY <1>2
<1> QED BY <1>2, <1>3

\* (gatewayPlacement.ts:229-233, 298-301) The local search that stops early leaves a gateway
\* where no candidate would newly reach more.
THEOREM SearchFindsBest == PlaceSpec => SearchExact
BY SearchedBest, PlaceInvariance, PTL DEF PlaceSpec, SearchExact

-----------------------------------------------------------------------------
(* Relocation                                                              *)

LEMMA FiniteImage ==
  ASSUME NEW S, IsFiniteSet(S), NEW f
  PROVE  IsFiniteSet({f[x] : x \in S})
<1> DEFINE T == {f[x] : x \in S}
           h == [x \in S |-> f[x]]
<1>1. h \in Surjection(S, T)
  BY DEF Surjection
<1> HIDE DEF h, T
<1>2. IsFiniteSet(T)
  BY <1>1, FS_Surjection
<1> QED BY <1>2 DEF T

LEMMA MostIsMost ==
  ASSUME NEW cv, NEW S \in SUBSET Spot
  PROVE  /\ Most(cv, S) \in Nat
         /\ Most(cv, S) = 0 \/ \E j \in S : FreeGain(cv, j) = Most(cv, S)
         /\ \A j \in S : FreeGain(cv, j) <= Most(cv, S)
<1>1. Gains(cv, S) \subseteq 0 .. N /\ 0 .. N \subseteq Int
  BY GainBounds, CoveredFinite, ReachFinite, SpaceAssumption, FS_CardinalityType DEF Gains, N
<1>2. IsFiniteSet(Gains(cv, S))
  <2>1. IsFiniteSet(0 .. N)
    BY FS_Interval, SpaceAssumption, FS_CardinalityType DEF N
  <2> QED BY <1>1, <2>1, FS_Subset
<1>3. Gains(cv, S) # {}
  BY DEF Gains
<1>4. \E x \in Gains(cv, S) : \A y \in Gains(cv, S) : y <= x
  BY <1>1, <1>2, <1>3, Largest
<1>5. Most(cv, S) \in Gains(cv, S) /\ \A y \in Gains(cv, S) : y <= Most(cv, S)
  BY <1>4 DEF Most
<1> QED BY <1>1, <1>5 DEF Gains

-----------------------------------------------------------------------------
Slot == [at : Spot, counted : BOOLEAN, reached : Nat, lost : Nat,
         verdict : {"keep", "locked", "move", "remove"}]
Slots == [Gateway -> Slot]

\* Two layouts that differ in one gateway, which only the second counts.
LEMMA OneMore ==
  ASSUME NEW low \in Slots, NEW high \in Slots, NEW g \in Gateway,
         ~low[g].counted, high[g].counted,
         \A h \in Gateway \ {g} : low[h].counted = high[h].counted /\ low[h].at = high[h].at
  PROVE  /\ Layout(low) \in Counts
         /\ Layout(high) = Placed(Layout(low), high[g].at)
         /\ Layout(low) = Lifted(Layout(high), high[g].at)
         /\ \A m \in Reach[high[g].at] : Layout(high)[m] > 0
<1> DEFINE At(sl, m) == {h \in Gateway : sl[h].counted /\ m \in Reach[sl[h].at]}
<1>1. \A m \in Meter : /\ IsFiniteSet(At(low, m)) /\ IsFiniteSet(At(high, m))
                       /\ Cardinality(At(low, m)) \in Nat
  BY RelocationAssumption, FS_Subset, FS_CardinalityType
<1>2. ASSUME NEW m \in Meter
      PROVE  Cardinality(At(high, m))
               = IF m \in Reach[high[g].at] THEN Cardinality(At(low, m)) + 1 ELSE Cardinality(At(low, m))
  <2>1. g \notin At(low, m)
    OBVIOUS
  <2>2. CASE m \in Reach[high[g].at]
    <3>1. At(high, m) = At(low, m) \cup {g}
      BY <2>2
    <3> HIDE DEF At
    <3> QED BY <1>1, <2>1, <2>2, <3>1, FS_AddElement
  <2>3. CASE m \notin Reach[high[g].at]
    <3>1. At(high, m) = At(low, m)
      BY <2>3
    <3> QED BY <2>3, <3>1
  <2> QED BY <2>2, <2>3
<1>3. /\ Layout(low) = [m \in Meter |-> Cardinality(At(low, m))]
      /\ Layout(high) = [m \in Meter |-> Cardinality(At(high, m))]
  BY DEF Layout
<1>4. Reach[high[g].at] \subseteq Meter
  BY ReachFinite DEF Slots, Slot
<1> HIDE DEF At
<1> QED BY <1>1, <1>2, <1>3, <1>4 DEF Counts, Placed, Lifted

LEMMA SameLayout ==
  ASSUME NEW low \in Slots, NEW high \in Slots,
         \A h \in Gateway : /\ low[h].counted <=> high[h].counted
                            /\ high[h].counted => low[h].at = high[h].at
  PROVE  Layout(low) = Layout(high)
<1>1. ASSUME NEW m \in Meter
      PROVE  {h \in Gateway : low[h].counted /\ m \in Reach[low[h].at]}
               = {h \in Gateway : high[h].counted /\ m \in Reach[high[h].at]}
  OBVIOUS
<1> QED BY <1>1 DEF Layout

LEMMA LayoutCounts ==
  ASSUME NEW sl
  PROVE  Layout(sl) \in Counts
<1>1. \A m \in Meter : IsFiniteSet({g \in Gateway : sl[g].counted /\ m \in Reach[sl[g].at]})
  BY RelocationAssumption, FS_Subset
<1> QED BY <1>1, FS_CardinalityType DEF Layout, Counts

Uncounted(g) == [slots EXCEPT ![g].counted = FALSE]

LEMMA LiftedOne ==
  ASSUME NEW g \in Gateway, slots \in Slots, count = Layout(slots)
  PROVE  /\ LiftOne(g) = Layout(Uncounted(g))
         /\ LiftOne(g) \in Counts
         /\ OnlyReachOf(g) \in Nat
         /\ Covered(LiftOne(g)) = Covered(count) - OnlyReachOf(g)
<1>0. Uncounted(g) \in Slots /\ slots[g].at \in Spot /\ slots[g].counted \in BOOLEAN
  BY DEF Uncounted, Slots, Slot
<1>1. CASE slots[g].counted
  <2>1. /\ ~Uncounted(g)[g].counted
        /\ \A h \in Gateway \ {g} : Uncounted(g)[h] = slots[h]
    BY DEF Uncounted, Slots, Slot
  <2>2. /\ Layout(Uncounted(g)) = Lifted(count, slots[g].at)
        /\ \A m \in Reach[slots[g].at] : count[m] > 0
        /\ count \in Counts
    BY <1>0, <1>1, <2>1, OneMore, LayoutCounts
  <2> QED BY <1>0, <1>1, <2>2, LiftedCovers, GainBounds DEF LiftOne, OnlyReachOf
<1>2. CASE ~slots[g].counted
  <2>1. /\ ~Uncounted(g)[g].counted
        /\ \A h \in Gateway \ {g} : Uncounted(g)[h] = slots[h]
    BY DEF Uncounted, Slots, Slot
  <2>2. Layout(Uncounted(g)) = count
    BY <1>0, <1>2, <2>1, SameLayout
  <2>3. LiftOne(g) = count /\ OnlyReachOf(g) = 0
    BY <1>2 DEF LiftOne, OnlyReachOf
  <2>4. Covered(count) \in Nat /\ count \in Counts
    BY LayoutCounts, CoveredFinite
  <2> QED BY <2>2, <2>3, <2>4
<1> QED BY <1>1, <1>2, <1>0

-----------------------------------------------------------------------------
RelocTypes ==
  /\ RelocTypeOK
  /\ told.steps \in Seq([action : {"move", "remove"}, id : Gateway, covered : Nat])
  /\ told.loss \in Nat
  /\ told = [steps |-> told.steps, stop |-> told.stop, next |-> told.next, loss |-> told.loss]

\* Nothing is removed before the moves have stopped, and not when their number stopped
\* them; who is not moved is as it was found.
Verdicts ==
  /\ stage \in {"idle", "move"} => \A g \in Gateway : slots[g].verdict # "remove"
  /\ stage = "remove" => told.stop # "max-moves"
  /\ \A g \in Gateway :
       /\ slots[g].verdict = "locked" <=> g \in want.locked
       /\ slots[g].verdict \in {"keep", "locked"} =>
            slots[g].at = want.home[g] /\ slots[g].reached = 0 /\ slots[g].lost = 0

\* What was covered at first, and before the n-th change.
AtFirst == Covered(Layout(AsFound))
CoveredBefore(start, steps, n) == IF n = 1 THEN start ELSE steps[n - 1].covered

\* Each change is told once, of a gateway that is not kept, and its coverage follows
\* from the coverage before it.
StepsAddUp ==
  /\ \A n \in 1 .. Len(told.steps) :
       /\ slots[told.steps[n].id].verdict \in {"move", "remove"}
       /\ told.steps[n].covered
            = CoveredBefore(AtFirst, told.steps, n)
                + slots[told.steps[n].id].reached - slots[told.steps[n].id].lost
  /\ Covered(count) = CoveredBefore(AtFirst, told.steps, Len(told.steps) + 1)

RelocInv ==
  /\ RelocTypes
  /\ Verdicts
  /\ count = Layout(slots)
  /\ StepsAddUp
  /\ RemovalsCheap

LEMMA RelocInitially ==
  ASSUME RelocStart("move") \/ RelocStart("idle")
  PROVE  RelocInv
<1>0. want \in Wants /\ stage \in {"move", "idle"} /\ slots = AsFound /\ count = Layout(slots) /\ told = Untold
  BY DEF RelocStart
<1>1. /\ want.home \in [Gateway -> Spot]
      /\ want.locked \in SUBSET Gateway
      /\ want.min \in Nat
  BY <1>0, RelocationAssumption
<1>2. slots = AsFound /\ slots \in Slots
  BY <1>0, <1>1 DEF AsFound, Slots, Slot
<1>3. count = Layout(slots) /\ count \in Counts
  BY <1>0, LayoutCounts
<1>4. RelocTypes
  BY <1>0, <1>2, <1>3 DEF RelocTypes, RelocTypeOK, Slots, Slot, Counts, Untold
<1>5. Verdicts
  BY <1>0, <1>1, <1>2 DEF Verdicts, AsFound
<1>6. StepsAddUp
  BY <1>0, <1>2, <1>3 DEF StepsAddUp, Untold, CoveredBefore, AtFirst
<1>7. RemovalsCheap
  BY <1>0, <1>1, <1>2 DEF RemovalsCheap, AsFound, Untold
<1> QED BY <1>3, <1>4, <1>5, <1>6, <1>7 DEF RelocInv

-----------------------------------------------------------------------------
LEMMA SpotsAreCandidates ==
  ASSUME NEW g
  PROVE  Spots(g) \subseteq Candidate /\ Candidate \subseteq Spot
<1>1. \A cv, S : Strongest(cv, S) \subseteq S
  BY DEF Strongest
<1>2. \A cv, S : FirstOf(cv, S) \subseteq S
  BY <1>1 DEF FirstOf
<1>3. \A cv, S : Walked(cv, S) \subseteq S
  BY DEF Walked
<1>4. \A p, d : Within(p, d) \subseteq Candidate
  BY DEF Within
<1>5. Candidate \subseteq Spot
  BY SpaceAssumption DEF Candidate
<1>6. /\ Strongest(LiftOne(g), Within(slots[g].at, want.far)) \subseteq Candidate
      /\ FirstOf(LiftOne(g), Walked(LiftOne(g), Within(slots[g].at, want.far))) \subseteq Candidate
      /\ Strongest(LiftOne(g), Within(slots[g].at, Felt)) \subseteq Candidate
      /\ FirstOf(count, Walked(count, Candidate)) \subseteq Candidate
  BY <1>1, <1>2, <1>3, <1>4
<1>7. CASE want.far # NoLimit /\ ByCells
  BY <1>5, <1>6, <1>7 DEF Spots
<1>8. CASE want.far # NoLimit /\ ~ByCells
  BY <1>5, <1>6, <1>8 DEF Spots
<1>9. CASE want.far = NoLimit
  BY <1>5, <1>6, <1>9 DEF Spots
<1> QED BY <1>5, <1>7, <1>8, <1>9

OfferSet == [id : Gateway, spots : SUBSET Spot, gain : Nat, lost : Nat, net : Int]

\* An offer's parts are numbers and spots.
LEMMA OfferTypes ==
  ASSUME RelocInv, NEW o \in Offers
  PROVE  /\ o \in OfferSet
         /\ o.id \in Movable /\ o.id \notin Moved
         /\ o.spots # {}
         /\ o = Offer(o.id, Spots(o.id))
<1>1. PICK g \in Movable \ Moved : o = Offer(g, Spots(g)) /\ o.spots # {}
  BY DEF Offers
<1>2. g \in Gateway
  BY DEF Movable
<1>3. OnlyReachOf(g) \in Nat
  BY <1>2, LiftedOne DEF RelocInv, RelocTypes, RelocTypeOK, Slots, Slot
<1>4. Spots(g) \in SUBSET Spot
  BY SpotsAreCandidates
<1>5. Most(LiftOne(g), Spots(g)) \in Nat
  BY <1>4, MostIsMost
<1>6. o.id = g
  BY <1>1 DEF Offer
<1> QED BY <1>1, <1>2, <1>3, <1>4, <1>5, <1>6 DEF Offer, OfferSet

\* There is a move that pays most.
LEMMA BestOffer ==
  ASSUME RelocInv, Offers # {}
  PROVE  /\ Best(Offers) \in Offers
         /\ \A p \in Offers \ {Best(Offers)} : Pays(Best(Offers), p)
<1> DEFINE All == Offers
           R0 == {x \in All \X All : Pays(x[1], x[2])}
<1>1. \A o, p \in All : o.id = p.id => o = p
  BY OfferTypes
<1>2. ASSUME NEW o \in All
      PROVE  o.id \in Nat /\ o.net \in Int /\ o.gain \in Int
  <2>1. o \in OfferSet
    BY OfferTypes
  <2>2. o.id \in Gateway /\ o.net \in Int /\ o.gain \in Nat
    BY <2>1 DEF OfferSet
  <2>3. Gateway \subseteq Nat
    BY RelocationAssumption
  <2>4. o.id \in Nat
    BY <2>2, <2>3
  <2>5. o.gain \in Int
    BY <2>2
  <2> QED BY <2>2, <2>4, <2>5
<1>3. \A x, y \in All : <<x, y>> \in R0 <=> Pays(x, y)
  OBVIOUS
<1>4. IsFiniteSet(All)
  <2> DEFINE f == [g \in Movable \ Moved |-> Offer(g, Spots(g))]
  <2>1. IsFiniteSet(Movable \ Moved)
    <3>1. Movable \ Moved \subseteq Gateway
      BY DEF Movable
    <3> QED BY <3>1, RelocationAssumption, FS_Subset
  <2>2. IsFiniteSet({f[g] : g \in Movable \ Moved})
    <3> HIDE DEF f
    <3> QED BY <2>1, FiniteImage
  <2>3. All \subseteq {f[g] : g \in Movable \ Moved}
    BY DEF Offers
  <2> HIDE DEF f, All
  <2> QED BY <2>2, <2>3, FS_Subset
<1>5. All # {}
  OBVIOUS
<1> HIDE DEF All, R0
<1>6. \A x, y, z \in All : Pays(x, y) /\ Pays(y, z) => Pays(x, z)
  BY <1>2 DEF Pays
<1>7. \A x, y \in All : x = y \/ Pays(x, y) \/ Pays(y, x)
  BY <1>1, <1>2 DEF Pays
<1>8. \E x \in All : \A y \in All \ {x} : <<x, y>> \in R0
  BY <1>3, <1>4, <1>5, <1>6, <1>7, Champion
<1>9. \E x \in All : \A y \in All \ {x} : Pays(x, y)
  BY <1>3, <1>8
<1> QED BY <1>9 DEF Best, All

\* There is a gateway on which least depends.
LessNeeded(g, h) ==
  \/ OnlyReachOf(g) < OnlyReachOf(h)
  \/ OnlyReachOf(g) = OnlyReachOf(h) /\ g < h
LeastNeeded(S) == CHOOSE g \in S : \A h \in S \ {g} : LessNeeded(g, h)

LEMMA WeakestRedundant ==
  ASSUME RelocInv, Redundant # {}
  PROVE  LeastNeeded(Redundant) \in Redundant
<1> DEFINE R0 == {x \in Gateway \X Gateway : LessNeeded(x[1], x[2])}
<1>1. Redundant \subseteq Gateway
  BY DEF Redundant, Movable
<1>2. \A g \in Gateway : g \in Nat /\ OnlyReachOf(g) \in Nat
  BY LiftedOne, RelocationAssumption DEF RelocInv, RelocTypes, RelocTypeOK, Slots, Slot
<1>3. IsFiniteSet(Redundant)
  BY <1>1, RelocationAssumption, FS_Subset
<1>4. \A x, y \in Gateway : <<x, y>> \in R0 <=> LessNeeded(x, y)
  OBVIOUS
<1> HIDE DEF R0
<1>5. \A x, y, z \in Redundant : LessNeeded(x, y) /\ LessNeeded(y, z) => LessNeeded(x, z)
  BY <1>1, <1>2 DEF LessNeeded
<1>6. ASSUME NEW g \in Redundant, NEW h \in Redundant
      PROVE  g = h \/ LessNeeded(g, h) \/ LessNeeded(h, g)
  <2>1. g \in Nat /\ h \in Nat /\ OnlyReachOf(g) \in Nat /\ OnlyReachOf(h) \in Nat
    BY <1>1, <1>2
  <2> QED BY <2>1 DEF LessNeeded
<1>7. \E x \in Redundant : \A y \in Redundant \ {x} : <<x, y>> \in R0
  BY ZenonT(60), <1>1, <1>3, <1>4, <1>5, <1>6, Champion
<1>8. \E x \in Redundant : \A y \in Redundant \ {x} : LessNeeded(x, y)
  BY <1>1, <1>4, <1>7
<1> QED BY <1>8 DEF LeastNeeded

\* One more change of a gateway that was kept is told.
LEMMA OneChangeMore ==
  ASSUME RelocInv, want' = want, NEW g \in Gateway, slots[g].verdict = "keep",
         NEW r \in Slot, r.verdict \in {"move", "remove"}, slots' = [slots EXCEPT ![g] = r],
         NEW a \in {"move", "remove"}, told'.steps = Append(told.steps, Step(a, g, Covered(count'))),
         Covered(count') = Covered(count) + r.reached - r.lost
  PROVE  /\ StepsAddUp'
         /\ told'.steps \in Seq([action : {"move", "remove"}, id : Gateway, covered : Nat])
<1> DEFINE Told == [action : {"move", "remove"}, id : Gateway, covered : Nat]
           old == told.steps
           new == told'.steps
<1>1. slots \in Slots /\ old \in Seq(Told)
  BY DEF RelocInv, RelocTypes, RelocTypeOK, Slots, Slot
<1>2. Covered(count') \in Nat
  BY CoveredFinite
<1>3. Step(a, g, Covered(count')) \in Told
  BY <1>2 DEF Step
<1>4. /\ new \in Seq(Told)
      /\ Len(new) = Len(old) + 1
      /\ \A n \in 1 .. Len(old) : new[n] = old[n]
      /\ new[Len(old) + 1] = Step(a, g, Covered(count'))
      /\ Len(old) \in Nat
  BY <1>1, <1>3
<1>5. /\ slots'[g] = r
      /\ \A h \in Gateway \ {g} : slots'[h] = slots[h]
  BY <1>1 DEF Slots
<1>6. AtFirst' = AtFirst
  BY DEF AtFirst, Layout, AsFound
<1> DEFINE start == AtFirst
<1>7. \A n \in 1 .. Len(old) + 1 : CoveredBefore(start, new, n) = CoveredBefore(start, old, n)
  BY <1>4 DEF CoveredBefore
<1>8. ASSUME NEW n \in 1 .. Len(old)
      PROVE  /\ slots'[new[n].id].verdict \in {"move", "remove"}
             /\ new[n].covered = CoveredBefore(start, new, n)
                                   + slots'[new[n].id].reached - slots'[new[n].id].lost
  <2>1. slots[old[n].id].verdict \in {"move", "remove"}
    BY DEF RelocInv, StepsAddUp
  <2>2. old[n] \in Told
    <3> HIDE DEF Told, old
    <3> QED BY <1>1, ElementOfSeq
  <2>3. old[n].id \in Gateway /\ old[n].id # g
    BY <2>1, <2>2
  <2>4. old[n].covered = CoveredBefore(start, old, n) + slots[old[n].id].reached - slots[old[n].id].lost
    BY DEF RelocInv, StepsAddUp
  <2>5. slots'[old[n].id] = slots[old[n].id]
    BY <1>5, <2>3
  <2>6. new[n] = old[n] /\ CoveredBefore(start, new, n) = CoveredBefore(start, old, n)
    BY <1>4, <1>7
  <2> QED BY <2>1, <2>4, <2>5, <2>6
<1>9. /\ slots'[new[Len(old) + 1].id].verdict \in {"move", "remove"}
      /\ new[Len(old) + 1].covered
           = CoveredBefore(start, new, Len(old) + 1)
               + slots'[new[Len(old) + 1].id].reached - slots'[new[Len(old) + 1].id].lost
  <2>1. new[Len(old) + 1].id = g /\ new[Len(old) + 1].covered = Covered(count')
    BY <1>4 DEF Step
  <2>2. CoveredBefore(start, new, Len(old) + 1) = CoveredBefore(start, old, Len(old) + 1)
    BY <1>4, <1>7
  <2>3. CoveredBefore(start, old, Len(old) + 1) = Covered(count)
    BY DEF RelocInv, StepsAddUp
  <2> QED BY <1>5, <2>1, <2>2, <2>3
<1>10. Covered(count') = CoveredBefore(start, new, Len(new) + 1)
  <2>1. Len(new) + 1 # 1 /\ (Len(new) + 1) - 1 = Len(old) + 1
    BY <1>4
  <2> QED BY <1>4, <2>1 DEF CoveredBefore, Step
<1>11. \A n \in 1 .. Len(new) : n \in 1 .. Len(old) \/ n = Len(old) + 1
  BY <1>4
<1> HIDE DEF start
<1>12. StepsAddUp'
  <2>1. \A n \in 1 .. Len(new) :
          /\ slots'[new[n].id].verdict \in {"move", "remove"}
          /\ new[n].covered = CoveredBefore(start, new, n)
                                + slots'[new[n].id].reached - slots'[new[n].id].lost
    BY <1>8, <1>9, <1>11
  <2> QED BY <1>6, <1>10, <2>1 DEF StepsAddUp, start
<1> QED BY <1>4, <1>12

\* The best move is made.
LEMMA MakeKeeps ==
  ASSUME RelocInv, stage = "move", want' = want, NEW best \in Offers, Make(best)
  PROVE  RelocInv'
<1> DEFINE g == best.id
           lifted == LiftOne(g)
<1>1. /\ best \in OfferSet /\ g \in Movable /\ g \notin Moved
      /\ best.lost = OnlyReachOf(g)
  BY OfferTypes DEF Offer
<1>2. g \in Gateway /\ slots[g].verdict = "keep"
  <2>1. g \in Gateway /\ g \notin want.locked
    BY <1>1 DEF Movable
  <2>2. slots[g].verdict \in {"keep", "locked", "move", "remove"}
    BY <2>1 DEF RelocInv, RelocTypes, RelocTypeOK
  <2> QED BY <1>1, <2>1, <2>2 DEF RelocInv, Verdicts, Moved
<1> HIDE DEF g
<1>3. /\ slots \in Slots /\ count = Layout(slots) /\ want \in Wants
      /\ want.locked \subseteq Gateway
  BY RelocationAssumption DEF RelocInv, RelocTypes, RelocTypeOK, Slots, Slot
<1>4. /\ lifted = Layout(Uncounted(g)) /\ lifted \in Counts
      /\ OnlyReachOf(g) \in Nat /\ Covered(lifted) = Covered(count) - OnlyReachOf(g)
  BY <1>2, <1>3, LiftedOne
<1>5. PICK s \in Spot :
        /\ count' = Placed(lifted, s)
        /\ slots' = [slots EXCEPT ![g] = [at |-> s, counted |-> TRUE, verdict |-> "move",
                                          reached |-> FreeGain(lifted, s), lost |-> best.lost]]
        /\ told' = [told EXCEPT !.steps = Append(@, Step("move", g, Covered(Placed(lifted, s))))]
        /\ stage' = stage
  <2>1. best.spots \subseteq Spot
    BY <1>1 DEF OfferSet
  <2>2. \A p \in Spot : Snap[p] \subseteq Spot
    BY SpaceAssumption
  <2>3. \A cv, n : Polished(cv, n) \subseteq Spot
    BY DEF Polished
  <2> QED BY <2>1, <2>2, <2>3 DEF Make, g
<1> DEFINE r == [at |-> s, counted |-> TRUE, verdict |-> "move",
                 reached |-> FreeGain(lifted, s), lost |-> best.lost]
<1>6. FreeGain(lifted, s) \in Nat
  BY GainBounds
<1>7. r \in Slot
  BY <1>1, <1>4, <1>6 DEF Slot
<1>8. /\ slots' \in Slots
      /\ slots'[g] = r
      /\ \A h \in Gateway \ {g} : slots'[h] = slots[h]
  BY <1>2, <1>3, <1>5, <1>7 DEF Slots
<1>9. Uncounted(g) \in Slots /\ ~Uncounted(g)[g].counted /\ \A h \in Gateway \ {g} : Uncounted(g)[h] = slots[h]
  BY <1>2, <1>3 DEF Uncounted, Slots, Slot
<1> HIDE DEF lifted
<1>10. Layout(slots') = Placed(lifted, s) /\ count' = Layout(slots')
  <2>1. slots'[g].counted /\ slots'[g].at = s
    BY <1>8
  <2>2. Layout(slots') = Placed(Layout(Uncounted(g)), slots'[g].at)
    BY <1>2, <1>8, <1>9, <2>1, OneMore
  <2> QED BY <1>4, <1>5, <2>1, <2>2
<1>11. count' \in Counts /\ Covered(count') = Covered(count) + r.reached - r.lost
  <2>1. count' \in Counts /\ Covered(count') = Covered(lifted) + FreeGain(lifted, s)
    BY <1>4, <1>5, PlacedCovers
  <2>2. Covered(count) \in Nat /\ Covered(lifted) \in Nat
    BY CoveredFinite
  <2> QED BY <1>1, <1>4, <1>6, <2>1, <2>2
<1>12. told'.steps = Append(told.steps, Step("move", g, Covered(count'))) /\ told'.loss = told.loss
         /\ told'.stop = told.stop /\ told'.next = told.next
         /\ told' = [steps |-> told'.steps, stop |-> told'.stop, next |-> told'.next, loss |-> told'.loss]
  BY <1>5 DEF RelocInv, RelocTypes
<1>13. StepsAddUp' /\ told'.steps \in Seq([action : {"move", "remove"}, id : Gateway, covered : Nat])
  <2>1. slots' = [slots EXCEPT ![g] = r] /\ r.verdict \in {"move", "remove"}
    BY <1>5
  <2> HIDE DEF r
  <2> QED BY <1>2, <1>7, <1>11, <1>12, <2>1, OneChangeMore
<1>14. RelocTypes'
  BY <1>3, <1>5, <1>8, <1>11, <1>12, <1>13 DEF RelocInv, RelocTypes, RelocTypeOK, Slots, Slot, Counts
<1>15. g \notin want.locked
  BY <1>1 DEF Movable, g
<1>16. Verdicts'
  BY <1>2, <1>5, <1>8, <1>12, <1>15 DEF RelocInv, Verdicts
<1>17. RemovalsCheap'
  BY <1>2, <1>3, <1>5, <1>8, <1>12, <1>15 DEF RelocInv, RemovalsCheap, Verdicts
<1> QED BY <1>10, <1>13, <1>14, <1>16, <1>17 DEF RelocInv

LEMMA HaltKeeps ==
  ASSUME RelocInv, stage = "move", want' = want,
         NEW reason \in {"no-worthwhile-move", "max-moves", "nothing-movable", "all-covered",
                         "already-covered", "all-moved"},
         NEW net, Halted(reason, net)
  PROVE  RelocInv'
<1>1. /\ slots' = slots /\ count' = count
      /\ stage' \in {"remove", "end"} /\ (stage' = "remove" => reason # "max-moves")
      /\ told'.steps = told.steps /\ told'.loss = told.loss /\ told'.stop = reason
      /\ told' = [steps |-> told'.steps, stop |-> told'.stop, next |-> told'.next, loss |-> told'.loss]
  BY DEF Halted, RelocInv, RelocTypes
<1>2. AtFirst' = AtFirst /\ Layout(slots)' = Layout(slots)
  BY <1>1 DEF AtFirst, Layout, AsFound
<1>3. StepsAddUp'
  BY <1>1, <1>2 DEF RelocInv, StepsAddUp, CoveredBefore
<1>4. RelocTypes'
  BY <1>1 DEF RelocInv, RelocTypes, RelocTypeOK
<1>5. Verdicts' /\ RemovalsCheap'
  BY <1>1 DEF RelocInv, Verdicts, RemovalsCheap
<1> QED BY <1>1, <1>2, <1>3, <1>4, <1>5 DEF RelocInv

\* The weakest of those that may go is removed.
LEMMA RemoveKeeps ==
  ASSUME RelocInv, Remove
  PROVE  RelocInv'
<1> DEFINE g == LeastNeeded(Redundant)
<1>1. /\ stage = "remove" /\ Redundant # {} /\ want' = want /\ stage' = stage
      /\ count' = LiftOne(g)
      /\ slots' = [slots EXCEPT ![g].counted = FALSE, ![g].verdict = "remove", ![g].lost = OnlyReachOf(g)]
      /\ told' = [told EXCEPT !.loss = @ + OnlyReachOf(g),
                              !.steps = Append(@, Step("remove", g, Covered(LiftOne(g))))]
  BY DEF Remove, LeastNeeded, LessNeeded
<1>2. g \in Redundant
  BY <1>1, WeakestRedundant
<1> HIDE DEF g
<1>3. /\ g \in Gateway /\ g \notin want.locked /\ slots[g].verdict = "keep"
      /\ OnlyReachOf(g) <= want.perRemoval /\ told.loss + OnlyReachOf(g) <= want.min
  BY <1>2 DEF Redundant, Movable
<1>4. slots \in Slots /\ count = Layout(slots) /\ told.loss \in Nat
  BY DEF RelocInv, RelocTypes, RelocTypeOK, Slots, Slot
<1>5. /\ LiftOne(g) = Layout(Uncounted(g)) /\ LiftOne(g) \in Counts
      /\ OnlyReachOf(g) \in Nat /\ Covered(LiftOne(g)) = Covered(count) - OnlyReachOf(g)
  BY <1>3, <1>4, LiftedOne
<1> DEFINE r == [at |-> slots[g].at, counted |-> FALSE, reached |-> 0, verdict |-> "remove",
                 lost |-> OnlyReachOf(g)]
<1>6. slots[g] \in Slot /\ slots[g].reached = 0
  BY <1>3, <1>4 DEF Slots, RelocInv, Verdicts
<1>7. r \in Slot
  BY <1>5, <1>6 DEF Slot
<1>8. slots' = [slots EXCEPT ![g] = r]
  BY <1>1, <1>3, <1>4, <1>6 DEF Slots, Slot
<1>9. /\ slots' \in Slots
      /\ slots'[g] = r
      /\ \A h \in Gateway \ {g} : slots'[h] = slots[h]
  BY <1>3, <1>4, <1>7, <1>8 DEF Slots
<1>10. count' = Layout(slots')
  <2>1. /\ Uncounted(g) \in Slots /\ ~Uncounted(g)[g].counted
        /\ \A h \in Gateway \ {g} : Uncounted(g)[h] = slots[h]
    BY <1>3, <1>4 DEF Uncounted, Slots, Slot
  <2>2. ~slots'[g].counted
    BY <1>9
  <2>3. Layout(Uncounted(g)) = Layout(slots')
    <3> HIDE DEF r
    <3> QED BY <1>9, <2>1, <2>2, SameLayout
  <2> QED BY <1>1, <1>5, <2>3
<1>11. count' \in Counts /\ Covered(count') = Covered(count) + r.reached - r.lost
  <2>1. Covered(count) \in Nat
    BY CoveredFinite
  <2> QED BY <1>1, <1>5, <2>1
<1>12. /\ told'.steps = Append(told.steps, Step("remove", g, Covered(count')))
       /\ told'.loss = told.loss + OnlyReachOf(g)
       /\ told'.stop = told.stop /\ told'.next = told.next
       /\ told' = [steps |-> told'.steps, stop |-> told'.stop, next |-> told'.next, loss |-> told'.loss]
  BY <1>1 DEF RelocInv, RelocTypes
<1>13. StepsAddUp' /\ told'.steps \in Seq([action : {"move", "remove"}, id : Gateway, covered : Nat])
  <2>1. r.verdict \in {"move", "remove"}
    OBVIOUS
  <2> HIDE DEF r
  <2> QED BY <1>1, <1>3, <1>7, <1>8, <1>11, <1>12, <2>1, OneChangeMore
<1>14. RelocTypes'
  BY <1>1, <1>4, <1>5, <1>9, <1>11, <1>12, <1>13 DEF RelocInv, RelocTypes, RelocTypeOK, Slots, Slot, Counts
<1>15. slots'[g].verdict = "remove" /\ slots'[g].lost = OnlyReachOf(g)
  BY <1>9
<1> HIDE DEF r
<1>16. Verdicts'
  <2>1. \A h \in Gateway : h = g \/ slots'[h] = slots[h]
    BY <1>9
  <2>2. stage' = "remove" /\ told'.stop # "max-moves"
    BY <1>1, <1>12 DEF RelocInv, Verdicts
  <2> QED BY <1>1, <1>3, <1>15, <2>1, <2>2 DEF RelocInv, Verdicts
<1>17. RemovalsCheap'
  <2>1. \A h \in Gateway : h = g \/ slots'[h] = slots[h]
    BY <1>9
  <2>2. told'.stop # "max-moves" /\ told'.loss <= want.min
    BY <1>1, <1>3, <1>12 DEF RelocInv, Verdicts
  <2> QED BY <1>1, <1>3, <1>15, <2>1, <2>2 DEF RelocInv, RemovalsCheap, Verdicts
<1> QED BY <1>10, <1>13, <1>14, <1>16, <1>17 DEF RelocInv

LEMMA RelocStep == RelocInv /\ [RelocNext]_relocVars => RelocInv'
<1> SUFFICES ASSUME RelocInv, [RelocNext]_relocVars PROVE RelocInv'
  OBVIOUS
<1>1. CASE Move
  <2>1. /\ stage = "move" /\ want' = want /\ Offers # {}
        /\ \/ Halted("no-worthwhile-move", Best(Offers).net)
           \/ Halted("max-moves", Best(Offers).net)
           \/ Make(Best(Offers))
    BY <1>1 DEF Move
  <2>2. Best(Offers) \in Offers
    BY <2>1, BestOffer
  <2> QED BY <2>1, <2>2, HaltKeeps, MakeKeeps
<1>2. CASE Halt
  <2>1. OverReason \in {"nothing-movable", "all-covered", "already-covered", "all-moved"}
    BY DEF OverReason
  <2>2. stage = "move" /\ want' = want /\ Halted(IF Over THEN OverReason ELSE "no-worthwhile-move", 0)
    BY <1>2 DEF Halt
  <2> QED BY <2>1, <2>2, HaltKeeps
<1>3. CASE Remove
  BY <1>3, RemoveKeeps
<1>4. CASE Removed
  <2>1. /\ want' = want /\ slots' = slots /\ count' = count /\ told' = told /\ stage' = "end"
    BY <1>4 DEF Removed
  <2>2. AtFirst' = AtFirst /\ Layout(slots)' = Layout(slots)
    BY <2>1 DEF AtFirst, Layout, AsFound
  <2> QED BY <2>1, <2>2 DEF RelocInv, RelocTypes, RelocTypeOK, Verdicts, StepsAddUp, CoveredBefore, RemovalsCheap
<1>5. CASE UNCHANGED relocVars
  <2>1. /\ want' = want /\ slots' = slots /\ count' = count /\ told' = told /\ stage' = stage
    BY <1>5 DEF relocVars
  <2>2. AtFirst' = AtFirst /\ Layout(slots)' = Layout(slots)
    BY <2>1 DEF AtFirst, Layout, AsFound
  <2> QED BY <2>1, <2>2 DEF RelocInv, RelocTypes, RelocTypeOK, Verdicts, StepsAddUp, CoveredBefore, RemovalsCheap
<1> QED BY <1>1, <1>2, <1>3, <1>4, <1>5 DEF RelocNext

LEMMA RelocInvariance == RelocSpec => []RelocInv
<1>1. RelocInit => RelocInv
  BY RelocInitially DEF RelocInit
<1> QED BY <1>1, RelocStep, PTL DEF RelocSpec

\* (gatewayRelocation.ts:390-415) Removals cost no more than the minimum all together, and none
\* touches a gateway that is locked or comes while the number of moves held the plan back.
THEOREM RemovalsAreCheap == RelocSpec => []RemovalsCheap
<1>1. RelocInv => RemovalsCheap
  BY DEF RelocInv
<1> QED BY <1>1, RelocInvariance, PTL

\* The sum of what the changes bring is what the changes tell.
LEMMA BalanceTold ==
  ASSUME RelocInv
  PROVE  BooksBalance
<1> DEFINE L == Len(told.steps)
           steps == told.steps
           up(n) == slots[steps[n].id].reached
           down(n) == slots[steps[n].id].lost
           d == [n \in 0 .. L |-> IF n = 0 THEN 0 ELSE steps[n].covered - AtFirst]
           bring == CHOOSE f : f = [n \in 0 .. L |-> IF n = 0 THEN 0 ELSE f[n - 1] + up(n) - down(n)]
           start == Layout([g \in Gateway |-> [at |-> want.home[g], counted |-> g \in want.counted]])
<1>1. L \in Nat /\ AtFirst \in Nat
  <2>1. L \in Nat
    BY LenProperties DEF RelocInv, RelocTypes
  <2>2. AtFirst \in Nat
    BY CoveredFinite DEF AtFirst
  <2> QED BY <2>1, <2>2
<1>2. \A n \in 1 .. L : steps[n].covered \in Nat /\ up(n) \in Nat /\ down(n) \in Nat
  <2> TAKE n \in 1 .. L
  <2>1. steps[n] \in [action : {"move", "remove"}, id : Gateway, covered : Nat]
    BY ElementOfSeq DEF RelocInv, RelocTypes
  <2>2. steps[n].id \in Gateway /\ steps[n].covered \in Nat
    BY <2>1
  <2>3. slots[steps[n].id] \in Slot
    BY <2>2 DEF RelocInv, RelocTypes, RelocTypeOK, Slot
  <2> QED BY <2>2, <2>3 DEF Slot
<1>3. \A n \in 1 .. L : steps[n].covered = CoveredBefore(AtFirst, steps, n) + up(n) - down(n)
  BY DEF RelocInv, StepsAddUp
<1> HIDE DEF L, steps, up, down
<1>4. d = [n \in 0 .. L |-> IF n = 0 THEN 0 ELSE d[n - 1] + up(n) - down(n)]
  <2>1. ASSUME NEW n \in 0 .. L, n # 0
        PROVE  d[n] = d[n - 1] + up(n) - down(n)
    <3>1. n \in 1 .. L /\ n - 1 \in 0 .. L
      BY <1>1, <2>1
    <3>2. CASE n = 1
      BY <1>1, <1>2, <1>3, <3>1, <3>2 DEF CoveredBefore
    <3>3. CASE n # 1
      <4>1. n - 1 \in 1 .. L /\ n - 1 # 0
        BY <1>1, <3>1, <3>3
      <4>2. d[n - 1] = steps[n - 1].covered - AtFirst /\ d[n] = steps[n].covered - AtFirst
        BY <3>1, <4>1
      <4>3. steps[n].covered = steps[n - 1].covered + up(n) - down(n)
        BY <1>3, <3>1, <3>3 DEF CoveredBefore
      <4> QED BY <1>1, <1>2, <3>1, <4>1, <4>2, <4>3
    <3> QED BY <3>2, <3>3
  <2> QED BY <2>1
<1> HIDE DEF d
<1>5. bring = [n \in 0 .. L |-> IF n = 0 THEN 0 ELSE bring[n - 1] + up(n) - down(n)]
  BY <1>4
<1> HIDE DEF bring
<1>6. \A n \in 0 .. L : bring[n] = d[n]
  <2> DEFINE Good == {n \in Nat : n <= L => bring[n] = d[n]}
  <2>1. 0 \in Good
    BY <1>1, <1>4, <1>5
  <2>2. ASSUME NEW n \in Nat, n \in Good
        PROVE  n + 1 \in Good
    <3>1. CASE n + 1 <= L
      <4>1. n + 1 \in 0 .. L /\ n + 1 # 0 /\ (n + 1) - 1 = n /\ bring[n] = d[n]
        BY <1>1, <2>2, <3>1
      <4>2. bring[n + 1] = bring[(n + 1) - 1] + up(n + 1) - down(n + 1)
        BY <1>5, <4>1
      <4>3. d[n + 1] = d[(n + 1) - 1] + up(n + 1) - down(n + 1)
        BY <1>4, <4>1
      <4> QED BY <4>1, <4>2, <4>3
    <3>2. CASE ~(n + 1 <= L)
      BY <3>2
    <3> QED BY <3>1, <3>2
  <2> HIDE DEF Good
  <2>3. \A n \in Nat : n \in Good
    BY <2>1, <2>2, NumberInduction
  <2> QED BY <1>1, <2>3 DEF Good
<1>7. Covered(start) = AtFirst
  <2>1. start = Layout(AsFound)
    BY DEF Layout, AsFound
  <2> QED BY <2>1 DEF AtFirst
<1>8. \A n \in 1 .. L : steps[n].covered = Covered(start) + bring[n]
  BY <1>1, <1>2, <1>6, <1>7 DEF d
<1>9. Covered(count) = Covered(start) + bring[L]
  <2>1. Covered(count) = CoveredBefore(AtFirst, steps, L + 1)
    BY DEF RelocInv, StepsAddUp, L, steps
  <2>2. CASE L = 0
    <3>1. bring[L] = 0
      BY <1>1, <1>5, <2>2
    <3> QED BY <1>1, <1>7, <2>1, <2>2, <3>1 DEF CoveredBefore
  <2>3. CASE L # 0
    <3>1. L \in 1 .. L /\ L + 1 # 1 /\ (L + 1) - 1 = L
      BY <1>1, <2>3
    <3> QED BY <1>8, <2>1, <3>1 DEF CoveredBefore
  <2> QED BY <2>2, <2>3
<1>10. count = Layout(slots)
  BY DEF RelocInv
<1> QED BY <1>8, <1>9, <1>10 DEF BooksBalance, bring, start, L, steps, up, down

\* (gatewayRelocation.ts:362-388, 402-414) The coverage told after each change is what it was
\* before the first, plus what the changes are said to bring, less what they cost.
THEOREM BooksAlwaysBalance == RelocSpec => []BooksBalance
<1>1. RelocInv => BooksBalance
  BY BalanceTold
<1> QED BY <1>1, RelocInvariance, PTL

-----------------------------------------------------------------------------
(* Relocation: the best move                                               *)

\* The most is what it is.
LEMMA MostOf ==
  ASSUME NEW cv, NEW S \in SUBSET Spot, NEW n \in Nat,
         n = 0 \/ \E j \in S : FreeGain(cv, j) = n,
         \A j \in S : FreeGain(cv, j) <= n
  PROVE  Most(cv, S) = n
<1>1. /\ Most(cv, S) \in Nat
      /\ Most(cv, S) = 0 \/ \E j \in S : FreeGain(cv, j) = Most(cv, S)
      /\ \A j \in S : FreeGain(cv, j) <= Most(cv, S)
  BY MostIsMost
<1>2. Most(cv, S) <= n
  BY <1>1
<1>3. n <= Most(cv, S)
  BY <1>1
<1> QED BY <1>1, <1>2, <1>3

LEMMA StrongestAre ==
  ASSUME NEW cv, NEW S \in SUBSET Spot
  PROVE  /\ \A j \in Strongest(cv, S) : j \in S /\ FreeGain(cv, j) = Most(cv, S)
         /\ Strongest(cv, S) = {} <=> Most(cv, S) = 0
<1>1. \A j \in S : FreeGain(cv, j) \in Nat
  BY GainBounds
<1> QED BY <1>1, MostIsMost DEF Strongest

\* So the walk finds the first of the best.
LEMMA WalkedIsEnough ==
  ASSUME NEW cv, NEW S \in SUBSET Candidate
  PROVE  /\ \A j \in FirstOf(cv, Walked(cv, S)) : j \in S /\ FreeGain(cv, j) = Most(cv, S)
         /\ FirstOf(cv, Walked(cv, S)) = {} => Most(cv, S) = 0
<1> DEFINE W == Walked(cv, S)
           R0 == {x \in S \X S : Ahead(x[1], x[2])}
           gain == [j \in S |-> FreeGain(cv, j)]
           weight == [j \in S |-> Weight(j)]
<1>1. Candidate \subseteq Spot /\ Candidate \subseteq Nat /\ IsFiniteSet(S)
  <2>1. Candidate \subseteq Spot /\ Candidate \subseteq Nat
    BY SpaceAssumption DEF Candidate
  <2>2. IsFiniteSet(Candidate)
    BY SpaceAssumption, FS_Interval DEF Candidate
  <2> QED BY <2>1, <2>2, FS_Subset
<1>2. W \subseteq S /\ W \in SUBSET Spot /\ S \in SUBSET Spot
  BY <1>1 DEF Walked
<1>3. \A j \in S : FreeGain(cv, j) \in Nat /\ Weight(j) \in Nat /\ FreeGain(cv, j) <= Weight(j) /\ j \in Nat
  BY <1>1, GainBounds DEF Weight
<1>4. \A x, y \in S : <<x, y>> \in R0 <=> Ahead(x, y)
  OBVIOUS
<1>5. /\ gain \in [S -> Nat] /\ weight \in [S -> Nat] /\ \A j \in S : gain[j] <= weight[j]
      /\ \A j \in S : gain[j] = FreeGain(cv, j) /\ weight[j] = Weight(j)
  BY <1>3
<1> HIDE DEF R0, gain, weight
<1>6. \A x, y, z \in S : <<x, y>> \in R0 /\ <<y, z>> \in R0 => <<x, z>> \in R0
  <2>1. \A x, y, z \in S : Ahead(x, y) /\ Ahead(y, z) => Ahead(x, z)
    BY <1>3 DEF Ahead
  <2> QED BY <1>4, <2>1
<1>7. \A x, y \in S : x = y \/ <<x, y>> \in R0 \/ <<y, x>> \in R0
  <2>1. \A x, y \in S : x = y \/ Ahead(x, y) \/ Ahead(y, x)
    BY <1>3 DEF Ahead
  <2> QED BY <1>4, <2>1
<1>8. \A x \in S : <<x, x>> \notin R0
  <2>1. \A x \in S : ~Ahead(x, x)
    BY <1>3 DEF Ahead
  <2> QED BY <1>4, <2>1
<1>9. /\ Most(cv, S) \in Nat
      /\ Most(cv, S) = 0 \/ \E j \in S : FreeGain(cv, j) = Most(cv, S)
      /\ \A j \in S : FreeGain(cv, j) <= Most(cv, S)
  BY <1>2, MostIsMost
<1>10. CASE Most(cv, S) = 0
  <2>1. Most(cv, W) = 0
    BY <1>2, <1>9, <1>10, MostOf
  <2>2. Strongest(cv, W) = {}
    BY <1>2, <2>1, StrongestAre
  <2> QED BY <1>10, <2>2 DEF FirstOf
<1>11. CASE Most(cv, S) # 0
  <2>1. PICK top \in S : FreeGain(cv, top) = Most(cv, S)
    BY <1>9, <1>11
  <2>2. gain[top] > 0 /\ 0 \in Nat /\ \A j \in S : gain[j] <= gain[top]
    BY <1>5, <1>9, <1>11, <2>1
  <2>3. PICK j \in S : /\ gain[j] = gain[top]
                       /\ \A i \in S : gain[i] = gain[top] => <<i, j>> \notin R0
                       /\ \A i \in S \ {j} : gain[i] = gain[top] => <<j, i>> \in R0
                       /\ weight[j] > 0
                       /\ \A i \in S : <<i, j>> \in R0 => weight[j] > gain[i]
    <3>1. Walk(S, gain, weight, R0, 0, top)
      BY <1>1, <1>5, <1>6, <1>7, <1>8, <2>2 DEF Walk
    <3> QED BY <3>1, WalkFinds
  <2>4. j \in W
    BY <1>4, <1>5, <2>3 DEF Walked
  <2>5. Most(cv, W) = Most(cv, S)
    BY <1>2, <1>5, <1>9, <2>1, <2>3, <2>4, MostOf
  <2>6. \A i \in Strongest(cv, W) : i \in S /\ FreeGain(cv, i) = Most(cv, S)
    BY <1>2, <2>5, StrongestAre
  <2>7. j \in Strongest(cv, W)
    BY <1>5, <1>9, <1>11, <2>1, <2>3, <2>4, <2>5 DEF Strongest
  <2>8. \A i \in Strongest(cv, W) : ~Ahead(i, j)
    BY <1>4, <1>5, <2>1, <2>3, <2>6
  <2> QED BY <1>11, <2>6, <2>7, <2>8 DEF FirstOf
<1> QED BY <1>10, <1>11

\* Beyond two radii of a gateway, lifting it changes nothing.
LEMMA OnlyNearFelt ==
  ASSUME RelocInv, NEW g \in Gateway, NEW j \in Candidate
  PROVE  /\ FreeGain(count, j) <= FreeGain(LiftOne(g), j)
         /\ j \notin Within(slots[g].at, Felt) => FreeGain(count, j) = FreeGain(LiftOne(g), j)
<1>1. j \in Spot /\ slots[g].at \in Spot /\ slots \in Slots
  BY SpaceAssumption DEF Candidate, RelocInv, RelocTypes, RelocTypeOK, Slots, Slot
<1>2. count \in Counts /\ LiftOne(g) \in Counts
  BY <1>1, LiftedOne, LayoutCounts DEF RelocInv
<1>3. Reach[j] \subseteq Meter
  BY <1>1, ReachFinite
<1>4. \A m \in Meter : LiftOne(g)[m] <= count[m]
  BY <1>2 DEF LiftOne, Lifted, Counts
<1>5. FreeGain(count, j) <= FreeGain(LiftOne(g), j)
  BY <1>1, <1>2, <1>3, <1>4, GainFalls
<1>6. ASSUME j \notin Within(slots[g].at, Felt)
      PROVE  FreeGain(count, j) = FreeGain(LiftOne(g), j)
  <2>1. Reach[j] \cap Reach[slots[g].at] = {}
    BY <1>1, <1>6, FarApart DEF Within, Felt
  <2>2. \A m \in Reach[j] : LiftOne(g)[m] = count[m]
    BY <1>3, <2>1 DEF LiftOne, Lifted
  <2> QED BY <1>1, <2>2, SameGain
<1> QED BY <1>5, <1>6

\* The spots a gateway is offered are worth what the best allowed spot is.
LEMMA SpotsAreBest ==
  ASSUME RelocInv, NEW g \in Gateway
  PROVE  /\ Most(LiftOne(g), Spots(g)) = TrueGain(g)
         /\ Spots(g) = {} => TrueGain(g) = 0
         /\ want.far # NoLimit => \A j \in Spots(g) : FreeGain(LiftOne(g), j) = TrueGain(g)
<1> DEFINE lifted == LiftOne(g)
           close == Within(slots[g].at, want.far)
           around == Within(slots[g].at, Felt)
           near == Strongest(lifted, around)
           everywhere == FirstOf(count, Walked(count, Candidate))
           nearer == \E n \in near : \A e \in everywhere : FreeGain(lifted, n) >= FreeGain(count, e)
<1>1. /\ Candidate \in SUBSET Spot /\ close \in SUBSET Candidate /\ around \in SUBSET Candidate
      /\ close \in SUBSET Spot /\ around \in SUBSET Spot
  BY SpaceAssumption DEF Candidate, Within
<1>2. \A j \in Candidate : FreeGain(lifted, j) \in Nat /\ FreeGain(count, j) \in Nat
  BY <1>1, GainBounds
<1>3. CASE want.far # NoLimit
  <2>1. TrueGain(g) = Most(lifted, close)
    BY <1>3 DEF TrueGain, Allowed
  <2>2. CASE ByCells
    <3>1. Spots(g) = Strongest(lifted, close)
      BY <1>3, <2>2 DEF Spots
    <3>2. \A j \in Spots(g) : FreeGain(lifted, j) = TrueGain(g)
      BY <1>1, <2>1, <3>1, StrongestAre
    <3>3. Spots(g) = {} => TrueGain(g) = 0
      BY ZenonT(60), <1>1, <2>1, <3>1, StrongestAre
    <3>4. TrueGain(g) \in Nat /\ Spots(g) \in SUBSET Spot
      BY <1>1, <2>1, MostIsMost, SpotsAreCandidates
    <3>5. Most(lifted, Spots(g)) = TrueGain(g)
      BY <3>2, <3>3, <3>4, MostOf
    <3> QED BY <3>2, <3>3, <3>5
  <2>3. CASE ~ByCells
    <3>1. Spots(g) = FirstOf(lifted, Walked(lifted, close))
      BY <1>3, <2>3 DEF Spots
    <3> HIDE DEF lifted, close
    <3>2. \A j \in Spots(g) : FreeGain(lifted, j) = TrueGain(g)
      BY <1>1, <2>1, <3>1, WalkedIsEnough
    <3>3. Spots(g) = {} => TrueGain(g) = 0
      BY <1>1, <2>1, <3>1, WalkedIsEnough
    <3>4. TrueGain(g) \in Nat /\ Spots(g) \in SUBSET Spot
      BY <1>1, <2>1, MostIsMost, SpotsAreCandidates
    <3>5. Most(lifted, Spots(g)) = TrueGain(g)
      BY <3>2, <3>3, <3>4, MostOf
    <3> QED BY <3>2, <3>3, <3>5 DEF lifted
  <2> QED BY <2>2, <2>3
<1>4. CASE want.far = NoLimit
  <2>1. TrueGain(g) = Most(lifted, Candidate)
    BY <1>4 DEF TrueGain, Allowed
  <2>2. Spots(g) = IF nearer THEN near ELSE everywhere
    BY <1>4 DEF Spots
  <2>3. \A j \in Candidate : /\ FreeGain(count, j) <= FreeGain(lifted, j)
                             /\ j \notin around => FreeGain(count, j) = FreeGain(lifted, j)
    BY OnlyNearFelt
  <2>4. /\ \A j \in near : j \in around /\ FreeGain(lifted, j) = Most(lifted, around)
        /\ near = {} <=> Most(lifted, around) = 0
    BY <1>1, StrongestAre
  <2>5. /\ \A j \in everywhere : j \in Candidate /\ FreeGain(count, j) = Most(count, Candidate)
        /\ everywhere = {} => Most(count, Candidate) = 0
    BY WalkedIsEnough
  <2>6. /\ Most(lifted, around) \in Nat /\ \A j \in around : FreeGain(lifted, j) <= Most(lifted, around)
        /\ Most(count, Candidate) \in Nat /\ \A j \in Candidate : FreeGain(count, j) <= Most(count, Candidate)
    BY <1>1, MostIsMost
  <2> HIDE DEF lifted, around, near, everywhere
  <2>7. CASE nearer
    <3>1. PICK n \in near : \A e \in everywhere : FreeGain(lifted, n) >= FreeGain(count, e)
      BY <2>7
    <3>2. n \in Candidate /\ FreeGain(lifted, n) = Most(lifted, around)
      BY <1>1, <2>4
    <3>3. Most(count, Candidate) <= Most(lifted, around)
      BY <2>5, <2>6, <3>1, <3>2
    <3>4. \A j \in Candidate : FreeGain(lifted, j) <= Most(lifted, around)
      BY <1>2, <2>3, <2>6, <3>3
    <3>5. Most(lifted, Candidate) = Most(lifted, around)
      BY <1>1, <2>6, <3>2, <3>4, MostOf
    <3>6. Most(lifted, near) = Most(lifted, around)
      <4>1. near \in SUBSET Spot
        BY <1>1, <2>4
      <4> QED BY <2>4, <2>6, <4>1, MostOf
    <3> QED BY <1>4, <2>1, <2>2, <2>7, <3>1, <3>5, <3>6 DEF lifted
  <2>8. CASE ~nearer
    <3>1. CASE everywhere = {}
      <4>1. near = {}
        BY <2>8, <3>1
      <4>2. \A j \in Candidate : FreeGain(lifted, j) <= 0
        BY <1>2, <2>3, <2>4, <2>5, <2>6, <3>1, <4>1
      <4>3. Most(lifted, Candidate) = 0
        BY <1>1, <4>2, MostOf
      <4>4. Most(lifted, {}) = 0
        BY MostOf
      <4> QED BY <1>4, <2>1, <2>2, <2>8, <3>1, <4>3, <4>4 DEF lifted
    <3>2. CASE everywhere # {}
      <4>1. PICK e \in everywhere : TRUE
        BY <3>2
      <4>2. e \in Candidate /\ FreeGain(count, e) = Most(count, Candidate)
        BY <2>5
      <4>3. \A n \in near : FreeGain(lifted, n) < Most(count, Candidate)
        <5>1. ASSUME NEW n \in near PROVE FreeGain(lifted, n) < Most(count, Candidate)
          <6>1. PICK f \in everywhere : ~(FreeGain(lifted, n) >= FreeGain(count, f))
            BY <2>8
          <6>2. FreeGain(lifted, n) \in Nat /\ FreeGain(count, f) = Most(count, Candidate)
            BY <1>1, <1>2, <2>4, <2>5
          <6> QED BY <2>6, <6>1, <6>2
        <5> QED BY <5>1
      <4>4. Most(lifted, around) <= Most(count, Candidate)
        BY <2>4, <2>6, <4>3
      <4>5. \A j \in Candidate : FreeGain(lifted, j) <= Most(count, Candidate)
        BY <1>2, <2>3, <2>6, <4>4
      <4>6. \A f \in everywhere : f \in Candidate /\ FreeGain(lifted, f) = Most(count, Candidate)
        BY <1>2, <2>3, <2>5, <4>5
      <4>7. Most(lifted, Candidate) = Most(count, Candidate)
        BY <1>1, <2>6, <4>1, <4>5, <4>6, MostOf
      <4>8. Most(lifted, everywhere) = Most(count, Candidate)
        <5>1. everywhere \in SUBSET Spot
          BY <1>1, <4>6
        <5> QED BY <2>6, <4>1, <4>6, <5>1, MostOf
      <4> QED BY <1>4, <2>1, <2>2, <2>8, <3>2, <4>7, <4>8 DEF lifted
    <3> QED BY <3>1, <3>2
  <2> QED BY <2>7, <2>8
<1> QED BY <1>3, <1>4


\* What MoveIsBest says of one gateway.
BestFor(g) ==
  slots[g].verdict = "keep" /\ slots'[g].verdict = "move" =>
    \E gain \in {TrueGain(g)} :
      /\ gain - OnlyReachOf(g) >= want.min
      /\ \A h \in Movable \ Moved : TrueGain(h) - OnlyReachOf(h) <= gain - OnlyReachOf(g)
      /\ \E p \in Polished(LiftOne(g), gain) : slots'[g].at \in Snap[p]

\* The best offer is worth at least what any gateway could bring.
LEMMA BestIsBest ==
  ASSUME RelocInv, Offers # {}, Best(Offers).net >= want.min
  PROVE  /\ Best(Offers).net = TrueGain(Best(Offers).id) - OnlyReachOf(Best(Offers).id)
         /\ \A h \in Movable \ Moved : TrueGain(h) - OnlyReachOf(h) <= Best(Offers).net
<1> DEFINE best == Best(Offers)
<1>1. best \in Offers /\ \A p \in Offers \ {best} : Pays(best, p)
  BY BestOffer
<1> HIDE DEF best
<1>2. ASSUME NEW o \in Offers
      PROVE  /\ o.id \in Gateway /\ o.net = TrueGain(o.id) - OnlyReachOf(o.id)
             /\ o.net \in Int /\ o.gain \in Int
  <2>1. o \in OfferSet /\ o = Offer(o.id, Spots(o.id))
    BY OfferTypes
  <2>2. o.id \in Gateway /\ o.net \in Int /\ o.gain \in Nat
    BY <2>1 DEF OfferSet
  <2>3. Most(LiftOne(o.id), Spots(o.id)) = TrueGain(o.id)
    BY <2>2, SpotsAreBest
  <2> QED BY <2>1, <2>2, <2>3 DEF Offer
<1>3. want.min \in Nat /\ want.min > 0
  BY RelocationAssumption DEF RelocInv, RelocTypes, RelocTypeOK
<1>4. best.net >= want.min
  BY DEF best
<1>5. ASSUME NEW h \in Movable \ Moved
      PROVE  TrueGain(h) - OnlyReachOf(h) <= best.net
  <2>1. h \in Gateway
    BY DEF Movable
  <2>2. OnlyReachOf(h) \in Nat
    BY <2>1, LiftedOne DEF RelocInv, RelocTypes, RelocTypeOK, Slots, Slot
  <2>3. CASE Spots(h) = {}
    <3>1. TrueGain(h) = 0
      BY <2>1, <2>3, SpotsAreBest
    <3>2. best.net \in Int
      BY <1>1, <1>2
    <3> QED BY <1>3, <1>4, <2>2, <3>1, <3>2
  <2>4. CASE Spots(h) # {}
    <3>1. Offer(h, Spots(h)).spots = Spots(h) /\ Offer(h, Spots(h)).id = h
      BY DEF Offer
    <3>2. Offer(h, Spots(h)) \in Offers
      BY <2>4, <3>1 DEF Offers
    <3>3. Offer(h, Spots(h)).net = TrueGain(h) - OnlyReachOf(h)
      BY <1>2, <3>1, <3>2
    <3>4. Offer(h, Spots(h)).net <= best.net
      <4>1. CASE Offer(h, Spots(h)) = best
        BY <1>1, <1>2, <4>1
      <4>2. CASE Offer(h, Spots(h)) # best
        <5>1. Pays(best, Offer(h, Spots(h)))
          BY <1>1, <3>2, <4>2
        <5>2. best.net \in Int /\ Offer(h, Spots(h)).net \in Int
          BY <1>1, <1>2, <3>2
        <5> QED BY <5>1, <5>2 DEF Pays
      <4> QED BY <4>1, <4>2
    <3> QED BY <3>3, <3>4
  <2> QED BY <2>3, <2>4
<1> QED BY <1>1, <1>2, <1>5 DEF best

LEMMA MadeIsBest ==
  ASSUME RelocInv, Offers # {}, Best(Offers).net >= want.min, Make(Best(Offers)), NEW g \in Gateway
  PROVE  BestFor(g)
<1> SUFFICES ASSUME slots[g].verdict = "keep", slots'[g].verdict = "move"
             PROVE  /\ TrueGain(g) - OnlyReachOf(g) >= want.min
                    /\ \A h \in Movable \ Moved : TrueGain(h) - OnlyReachOf(h) <= TrueGain(g) - OnlyReachOf(g)
                    /\ \E p \in Polished(LiftOne(g), TrueGain(g)) : slots'[g].at \in Snap[p]
  BY DEF BestFor
<1> DEFINE best == Best(Offers)
           b == best.id
           lifted == LiftOne(b)
           allowed(p) == want.far = NoLimit
                           \/ Dist2(SpotAt[p], SpotAt[slots[b].at]) <= want.far * want.far
<1>1. best \in Offers /\ best \in OfferSet /\ best = Offer(b, Spots(b)) /\ slots \in Slots
  BY BestOffer, OfferTypes DEF RelocInv, RelocTypes, RelocTypeOK, Slots, Slot
<1>2. b \in Gateway /\ best.spots = Spots(b) /\ best.gain = Most(LiftOne(b), Spots(b))
  BY <1>1 DEF OfferSet, Offer
<1>3. PICK j \in best.spots, p \in Polished(lifted, best.gain) :
        \E s \in Snap[IF allowed(p) THEN p ELSE j] :
           slots' = [slots EXCEPT ![b] = [at |-> s, counted |-> TRUE, verdict |-> "move",
                                          reached |-> FreeGain(lifted, s), lost |-> best.lost]]
  BY DEF Make
<1>9. PICK s \in Snap[IF allowed(p) THEN p ELSE j] :
        slots' = [slots EXCEPT ![b] = [at |-> s, counted |-> TRUE, verdict |-> "move",
                                       reached |-> FreeGain(lifted, s), lost |-> best.lost]]
  BY <1>3
<1>4. g = b
  BY <1>1, <1>2, <1>9 DEF Slots
<1>5. slots'[b].at = s
  BY <1>1, <1>2, <1>9 DEF Slots
<1>6. best.gain = TrueGain(b) /\ (want.far # NoLimit => \A i \in Spots(b) : FreeGain(lifted, i) = TrueGain(b))
  BY <1>2, SpotsAreBest
<1>7. \E q \in Polished(lifted, TrueGain(b)) : s \in Snap[q]
  <2>1. CASE allowed(p)
    BY <1>6, <1>9, <2>1
  <2>2. CASE ~allowed(p)
    <3>1. FreeGain(lifted, j) = TrueGain(b) /\ s \in Snap[j]
      BY <1>2, <1>3, <1>6, <1>9, <2>2
    <3>2. j \in Spot
      BY <1>2, <1>3, SpotsAreCandidates
    <3>3. FreeGain(lifted, j) \in Nat
      BY <3>2, GainBounds
    <3> QED BY <3>1, <3>2, <3>3 DEF Polished
  <2> QED BY <2>1, <2>2
<1>8. /\ best.net = TrueGain(b) - OnlyReachOf(b)
      /\ \A h \in Movable \ Moved : TrueGain(h) - OnlyReachOf(h) <= best.net
      /\ best.net >= want.min
  BY BestIsBest
<1> QED BY <1>4, <1>5, <1>7, <1>8

\* Each step keeps to it.
LEMMA MovedBest ==
  ASSUME RelocInv, [RelocNext]_relocVars
  PROVE  [\A g \in Gateway : BestFor(g)]_relocVars
<1> SUFFICES ASSUME NEW g \in Gateway, ~ UNCHANGED relocVars
             PROVE  BestFor(g)
  OBVIOUS
<1>1. CASE Move
  <2>1. \/ slots' = slots
        \/ Offers # {} /\ Best(Offers).net >= want.min /\ Make(Best(Offers))
    <3>1. Offers # {}
      BY <1>1 DEF Move
    <3>2. Best(Offers).net \in Int
      BY <3>1, BestOffer, OfferTypes DEF OfferSet
    <3>5. want.min \in Int
      BY RelocationAssumption DEF RelocInv, RelocTypes, RelocTypeOK
    <3>3. slots' = slots \/ (~(Best(Offers).net < want.min) /\ Make(Best(Offers)))
      BY <1>1 DEF Move, Halted
    <3> QED BY <3>1, <3>2, <3>3, <3>5
  <2>2. CASE slots' = slots
    BY <2>2 DEF BestFor
  <2> QED BY <2>1, <2>2, MadeIsBest
<1>2. CASE Halt
  BY <1>2 DEF Halt, Halted, BestFor
<1>3. CASE Remove
  <2>1. slots \in Slots
    BY DEF RelocInv, RelocTypes, RelocTypeOK, Slots, Slot
  <2>2. slots'[g].verdict = slots[g].verdict \/ slots'[g].verdict = "remove"
    BY <1>3, <2>1 DEF Remove, Slots, Slot
  <2> QED BY <2>2 DEF BestFor
<1>4. CASE Removed
  BY <1>4 DEF Removed, BestFor
<1> QED BY <1>1, <1>2, <1>3, <1>4 DEF RelocNext

\* (gatewayRelocation.ts:321-346) A move that is made is worth at least as much as any
\* other that is allowed, found by any search, and at least the minimum.
THEOREM MovesAreBest == RelocSpec => MoveIsBest
BY MovedBest, RelocInvariance, PTL DEF RelocSpec, MoveIsBest, BestFor

-----------------------------------------------------------------------------
(* Caches: what holds of them                                              *)

Reading == [inner : Nat, outer : Nat, places : Int]
Readings == [Kind -> [Scope -> Reading]]
Key   == {"add", "move"} \X [inner : Nat, outer : Nat] \X Nat
Pairs == [scope : Scope, of : [Kind -> Reading]]

\* What a plan is, told from what it is kept under.
Made(of, key) ==
  [for |-> key[1], map |-> of["map"], gateways |-> of["gateways"], working |-> key[2],
   outside |-> IF key[1] = "move" THEN key[3] ELSE 0]

Plan  == [for : {"add", "move"}, map : Reading, gateways : Reading, working : [inner : Nat, outer : Nat],
          outside : Nat]
Entry == [key : Key, plan : Plan]
Flight == [st : {"none", "asked", "read"}, read : Reading, had : Nat, from : {"none"} \cup Scope]
Request ==
  [st : {"idle"}, for : {"none"}, scope : {"none"}, plan : {<<>>}, asks : Nat, got : Readings]
  \cup [st : {"reading"}, for : {"add", "move"}, scope : Scope, plan : {<<>>}, asks : Nat, got : Readings]
  \cup [st : {"answered"}, for : {"add", "move"}, scope : Scope, plan : Plan, asks : Nat, got : Readings]

CacheTypes ==
  /\ world \in [inner : Nat, outer : Nat, places : Nat \ {0}]
  /\ store \in [Kind -> Seq([scope : Scope, read : Reading, fresh : BOOLEAN])]
  /\ flight \in [Kind -> [Scope -> Flight]]
  /\ coords \in [v : Nat, fresh : BOOLEAN, failed : BOOLEAN]
  /\ lookup \in [Scope -> Nat \cup {Awaited}]
  /\ DOMAIN plans \subseteq Pairs
  /\ \A p \in DOMAIN plans : plans[p] \in Seq(Entry)
  /\ asked \in [Asker -> Request]
  /\ newest \in [Scope -> Reading]
  /\ turns \in Nat

KeptPlans ==
  \A p \in DOMAIN plans : \A i \in DOMAIN plans[p] : plans[p][i].plan = Made(p.of, plans[p][i].key)

\* What a read of the tables cannot go beyond.
Outer(s) == IF s = "all" THEN world.outer ELSE 0

\* Positions that are kept are no newer than the upstream's, and a load of them, of
\* which there is one at most, no older than those that are kept.
PlacesForward ==
  /\ coords.v <= world.places
  /\ \A t, u \in Scope : lookup[t] # 0 /\ lookup[u] # 0 => t = u
  /\ \A t \in Scope : lookup[t] > 0 => coords.v <= lookup[t] /\ lookup[t] <= world.places

NewestBounded ==
  \A s \in Scope : /\ newest[s].inner <= world.inner /\ newest[s].outer <= Outer(s)
                   /\ newest[s].places <= coords.v

StoreNewest == \A i \in DOMAIN store["map"] : store["map"][i].read = newest[store["map"][i].scope]

\* A load of a map brings nothing older than what was answered last.
LoadForward(s) ==
  LET f == flight["map"][s]
  IN  /\ f.st = "read" => /\ newest[s].inner <= f.read.inner /\ f.read.inner <= world.inner
                          /\ newest[s].outer <= f.read.outer /\ f.read.outer <= Outer(s)
      /\ f.st # "none" => newest[s].places <= f.had /\ f.had <= coords.v
      /\ f.st # "none" /\ f.from = "none" => newest[s].places <= f.read.places /\ f.read.places <= coords.v
      /\ f.from # "none" => f.st # "none" /\ lookup[f.from] # 0

LoadsForward == \A s \in Scope : LoadForward(s)

CachesInv ==
  /\ CacheTypes
  /\ KeptPlans
  /\ PlansMatch
  /\ PlacesForward
  /\ NewestBounded
  /\ StoreNewest
  /\ LoadsForward

LEMMA CachesInitially == CachesInit => CachesInv
<1> SUFFICES ASSUME CachesInit PROVE CachesInv
  OBVIOUS
<1> USE DEF CachesInit
<1>1. Nothing \in Reading /\ NoFlight \in Flight
  BY DEF Nothing, Reading, NoFlight, Flight
<1>2. \A r \in Asker : asked[r] \in Request
  <2>1. [k \in Kind |-> [s \in Scope |-> Nothing]] \in Readings
    BY <1>1 DEF Readings
  <2>2. NoAsk(0) \in Request
    BY <2>1 DEF NoAsk, Request
  <2> QED BY <2>2
<1>3. CacheTypes
  <2>1. store \in [Kind -> Seq([scope : Scope, read : Reading, fresh : BOOLEAN])]
    OBVIOUS
  <2>2. flight \in [Kind -> [Scope -> Flight]]
    BY <1>1
  <2>3. newest \in [Scope -> Reading]
    BY <1>1
  <2>4. DOMAIN plans = {}
    OBVIOUS
  <2> QED BY <1>2, <2>1, <2>2, <2>3, <2>4 DEF CacheTypes
<1>4. KeptPlans
  BY DEF KeptPlans
<1>5. PlansMatch
  BY DEF PlansMatch, NoAsk
<1>6. PlacesForward
  BY DEF PlacesForward
<1>7. NewestBounded
  BY DEF NewestBounded, Nothing, Outer
<1>8. StoreNewest
  BY DEF StoreNewest, Kind
<1>9. LoadsForward
  BY DEF LoadsForward, LoadForward, NoFlight, Kind, Nothing
<1> QED BY <1>3, <1>4, <1>5, <1>6, <1>7, <1>8, <1>9 DEF CachesInv

-----------------------------------------------------------------------------
(* Plans                                                                   *)

LEMMA MadeIs ==
  ASSUME NEW r
  PROVE  PlanOf(r) = Made(Pair(r).of, PlanKey(r))
BY DEF PlanOf, Made, Pair, PlanKey, Kind

\* A request whose record changes in nothing a plan is made of.
LEMMA SamePlan ==
  ASSUME NEW r, asked'[r].for = asked[r].for, asked'[r].scope = asked[r].scope, asked'[r].got = asked[r].got
  PROVE  PlanOf(r)' = PlanOf(r)
BY DEF PlanOf, Got, Working, ServesOutside

\* Requests that are answered stay as they are, or are over.
LEMMA OthersStay ==
  ASSUME PlansMatch, \A r \in Asker : asked'[r] = asked[r] \/ asked'[r].st # "answered"
  PROVE  PlansMatch'
<1>1. ASSUME NEW r \in Asker, asked'[r].st = "answered"
      PROVE  asked'[r].plan = PlanOf(r)'
  <2>1. asked'[r] = asked[r]
    BY <1>1
  <2>2. PlanOf(r)' = PlanOf(r)
    BY <2>1, SamePlan
  <2> QED BY <1>1, <2>1, <2>2 DEF PlansMatch
<1> QED BY <1>1 DEF PlansMatch

LEMMA RequestIs ==
  ASSUME CacheTypes, NEW r \in Asker
  PROVE  /\ asked[r] \in Request
         /\ asked[r].got \in Readings /\ asked[r].asks \in Nat
         /\ asked[r].st # "idle" => asked[r].for \in {"add", "move"} /\ asked[r].scope \in Scope
         /\ asked[r].st = "reading" => asked[r].plan = <<>>
BY DEF CacheTypes, Request

LEMMA PlanTypes ==
  ASSUME CacheTypes, NEW r \in Asker, asked[r].st = "reading"
  PROVE  /\ PlanOf(r) \in Plan
         /\ PlanKey(r) \in Key
         /\ Pair(r) \in Pairs
<1>1. /\ asked[r].got \in Readings
      /\ asked[r].for \in {"add", "move"} /\ asked[r].scope \in Scope
  BY RequestIs
<1>2. \A k \in Kind, s \in Scope : Got(r, k, s) \in Reading
  BY <1>1 DEF Got, Readings
<1>3. "map" \in Kind /\ "gateways" \in Kind /\ "all" \in Scope
  BY DEF Kind, Scope
<1>4. Working(r) \in [inner : Nat, outer : Nat] /\ ServesOutside(r) \in Nat
  BY <1>2, <1>3 DEF Working, ServesOutside, Reading
<1>5. PlanOf(r) \in Plan
  BY <1>1, <1>2, <1>3, <1>4 DEF PlanOf, Plan
<1>6. PlanKey(r) \in Key
  BY <1>1, <1>4 DEF PlanKey, Key
<1>7. Pair(r) \in Pairs
  BY <1>1, <1>2 DEF Pair, Pairs
<1> QED BY <1>5, <1>6, <1>7

-----------------------------------------------------------------------------
(* Caches: plans, requests and times that run out                          *)

\* What steps that do not move the versions leave true.
LEMMA SameForward ==
  ASSUME PlacesForward, NewestBounded, StoreNewest, LoadsForward,
         world' = world, coords'.v = coords.v, lookup' = lookup, newest' = newest,
         flight'["map"] = flight["map"],
         \A i \in DOMAIN store'["map"] : \E j \in DOMAIN store["map"] :
           /\ store'["map"][i].scope = store["map"][j].scope
           /\ store'["map"][i].read = store["map"][j].read
  PROVE  PlacesForward' /\ NewestBounded' /\ StoreNewest' /\ LoadsForward'
<1>1. PlacesForward'
  BY DEF PlacesForward
<1>2. NewestBounded'
  BY DEF NewestBounded, Outer
<1>3. StoreNewest'
  BY DEF StoreNewest
<1>4. LoadsForward'
  BY DEF LoadsForward, LoadForward, Outer
<1> QED BY <1>1, <1>2, <1>3, <1>4

LEMMA SameStore ==
  ASSUME store' = store
  PROVE  \A i \in DOMAIN store'["map"] : \E j \in DOMAIN store["map"] :
           /\ store'["map"][i].scope = store["map"][j].scope
           /\ store'["map"][i].read = store["map"][j].read
OBVIOUS

\* Keeping a plan: what is kept is of the pair, and what was kept before.
LEMMA KeepIs ==
  ASSUME CacheTypes, KeptPlans, NEW r \in Asker, asked[r].st = "reading",
         NEW entry \in Entry, entry.plan = Made(Pair(r).of, entry.key)
  PROVE  /\ DOMAIN Keep(r, entry) \subseteq Pairs
         /\ \A p \in DOMAIN Keep(r, entry) :
              /\ Keep(r, entry)[p] \in Seq(Entry)
              /\ \A i \in DOMAIN Keep(r, entry)[p] : Keep(r, entry)[p][i].plan = Made(p.of, Keep(r, entry)[p][i].key)
<1> DEFINE mine == Pair(r)
           room == IF Len(Kept(r)) >= MaxPlans THEN Tail(Kept(r)) ELSE Kept(r)
           new == Append(room, entry)
<1>1. mine \in Pairs
  BY PlanTypes
<1>2. Kept(r) \in Seq(Entry) /\ \A i \in DOMAIN Kept(r) : Kept(r)[i].plan = Made(mine.of, Kept(r)[i].key)
  <2>1. CASE mine \in DOMAIN plans
    BY <2>1 DEF Kept, CacheTypes, KeptPlans
  <2>2. CASE mine \notin DOMAIN plans
    <3>1. Kept(r) = <<>>
      BY <2>2 DEF Kept
    <3> QED BY <3>1
  <2> QED BY <2>1, <2>2
<1>3. MaxPlans \in Nat \ {0}
  BY CachesAssumption
<1>4. room \in Seq(Entry) /\ \A i \in 1 .. Len(room) : room[i].plan = Made(mine.of, room[i].key)
  <2>0. DOMAIN Kept(r) = 1 .. Len(Kept(r)) /\ Len(Kept(r)) \in Nat
    BY <1>2, LenProperties
  <2>1. CASE Len(Kept(r)) >= MaxPlans
    <3>1. Kept(r) # <<>>
      BY <1>2, <1>3, <2>1
    <3>2. /\ Tail(Kept(r)) \in Seq(Entry) /\ Len(Tail(Kept(r))) = Len(Kept(r)) - 1
          /\ \A i \in 1 .. Len(Tail(Kept(r))) : Tail(Kept(r))[i] = Kept(r)[i + 1]
      BY <1>2, <3>1, HeadTailProperties
    <3>3. \A i \in 1 .. Len(Kept(r)) - 1 : i + 1 \in DOMAIN Kept(r)
      BY <2>0
    <3>4. room = Tail(Kept(r))
      BY <2>1
    <3> HIDE DEF room
    <3> QED BY <1>2, <3>2, <3>3, <3>4
  <2>2. CASE ~ (Len(Kept(r)) >= MaxPlans)
    BY <1>2, <2>0, <2>2
  <2> QED BY <2>1, <2>2
<1> HIDE DEF room
<1>5. new \in Seq(Entry) /\ \A i \in DOMAIN new : new[i].plan = Made(mine.of, new[i].key)
  <2>1. /\ Append(room, entry) \in Seq(Entry) /\ Len(Append(room, entry)) = Len(room) + 1
        /\ \A i \in 1 .. Len(room) : Append(room, entry)[i] = room[i]
        /\ Append(room, entry)[Len(room) + 1] = entry
    BY <1>4, AppendProperties
  <2>2. DOMAIN new = 1 .. Len(room) + 1 /\ Len(room) \in Nat
    BY <1>4, <2>1, LenProperties
  <2>3. ASSUME NEW i \in DOMAIN new
        PROVE  new[i].plan = Made(mine.of, new[i].key)
    <3>1. i \in 1 .. Len(room) \/ i = Len(room) + 1
      BY <2>2, <2>3
    <3> QED BY <1>4, <2>1, <3>1
  <2> QED BY <2>1, <2>3
<1>6. Keep(r, entry) = [p \in DOMAIN plans \cup {mine} |-> IF p = mine THEN new ELSE plans[p]]
  BY DEF Keep, room
<1> HIDE DEF new, mine
<1>7. DOMAIN Keep(r, entry) = DOMAIN plans \cup {mine}
  BY <1>6
<1>8. \A p \in DOMAIN Keep(r, entry) : Keep(r, entry)[p] = IF p = mine THEN new ELSE plans[p]
  BY <1>6, <1>7
<1>9. ASSUME NEW p \in DOMAIN Keep(r, entry)
      PROVE  /\ Keep(r, entry)[p] \in Seq(Entry)
             /\ \A i \in DOMAIN Keep(r, entry)[p] : Keep(r, entry)[p][i].plan = Made(p.of, Keep(r, entry)[p][i].key)
  <2>1. CASE p = mine
    BY <1>5, <1>8, <2>1
  <2>2. CASE p # mine
    <3>1. p \in DOMAIN plans /\ Keep(r, entry)[p] = plans[p]
      BY <1>7, <1>8, <2>2
    <3> QED BY <3>1 DEF CacheTypes, KeptPlans
  <2> QED BY <2>1, <2>2
<1> QED BY <1>1, <1>7, <1>9 DEF CacheTypes

LEMMA ComputeKeeps ==
  ASSUME CachesInv, NEW r \in Asker, Compute(r)
  PROVE  CachesInv'
<1>0. CacheTypes /\ KeptPlans /\ PlansMatch /\ PlacesForward /\ NewestBounded /\ StoreNewest /\ LoadsForward
  BY DEF CachesInv
<1>1. /\ asked[r].st = "reading"
      /\ world' = world /\ store' = store /\ flight' = flight /\ coords' = coords /\ lookup' = lookup
      /\ newest' = newest /\ turns' = turns
      /\ plans' = IF Hits(r) # {} THEN plans ELSE Keep(r, [key |-> PlanKey(r), plan |-> PlanOf(r)])
  BY DEF Compute
<1>2. PICK plan \in IF Hits(r) # {} THEN {Kept(r)[i].plan : i \in Hits(r)} ELSE {PlanOf(r)} :
        asked' = [asked EXCEPT ![r].st = "answered", ![r].plan = plan]
  BY DEF Compute
<1>3. PlanOf(r) \in Plan /\ PlanKey(r) \in Key /\ Pair(r) \in Pairs
  BY <1>0, <1>1, PlanTypes
<1>4. plan = PlanOf(r)
  <2>1. CASE Hits(r) # {}
    <3>1. PICK i \in Hits(r) : plan = Kept(r)[i].plan
      BY <1>2, <2>1
    <3>2. i \in DOMAIN Kept(r) /\ Kept(r)[i].key = PlanKey(r)
      BY DEF Hits
    <3>3. Pair(r) \in DOMAIN plans /\ Kept(r) = plans[Pair(r)]
      <4>1. Kept(r) # <<>>
        BY <3>2
      <4> QED BY <4>1 DEF Kept
    <3>4. Kept(r)[i].plan = Made(Pair(r).of, PlanKey(r))
      BY <1>0, <3>2, <3>3 DEF KeptPlans
    <3> QED BY <3>1, <3>4, MadeIs
  <2>2. CASE Hits(r) = {}
    BY <1>2, <2>2
  <2> QED BY <2>1, <2>2
<1>5. /\ DOMAIN plans' \subseteq Pairs
      /\ \A p \in DOMAIN plans' : plans'[p] \in Seq(Entry)
      /\ KeptPlans'
  <2>1. CASE Hits(r) # {}
    BY <1>0, <1>1, <2>1 DEF CacheTypes, KeptPlans
  <2>2. CASE Hits(r) = {}
    <3> DEFINE entry == [key |-> PlanKey(r), plan |-> PlanOf(r)]
    <3>1. entry \in Entry /\ entry.plan = Made(Pair(r).of, entry.key)
      BY <1>3, MadeIs DEF Entry
    <3>2. plans' = Keep(r, entry)
      BY <1>1, <2>2
    <3> HIDE DEF entry
    <3> QED BY <1>0, <1>1, <3>1, <3>2, KeepIs DEF KeptPlans
  <2> QED BY <2>1, <2>2
<1>6. /\ asked' \in [Asker -> Request]
      /\ asked'[r].for = asked[r].for /\ asked'[r].scope = asked[r].scope /\ asked'[r].got = asked[r].got
      /\ asked'[r].plan = plan
      /\ \A q \in Asker \ {r} : asked'[q] = asked[q]
  <2>1. asked[r] \in [st : {"reading"}, for : {"add", "move"}, scope : Scope, plan : {<<>>}, asks : Nat, got : Readings]
        /\ asked \in [Asker -> Request]
    BY <1>0, <1>1 DEF CacheTypes, Request
  <2> DEFINE new == [asked[r] EXCEPT !.st = "answered", !.plan = plan]
  <2>2. new \in [st : {"answered"}, for : {"add", "move"}, scope : Scope, plan : Plan, asks : Nat, got : Readings]
    BY <1>3, <1>4, <2>1
  <2>3. new \in Request
    BY <2>2 DEF Request
  <2>4. asked' = [asked EXCEPT ![r] = new]
    BY <1>2, <2>1
  <2>5. new.for = asked[r].for /\ new.scope = asked[r].scope /\ new.got = asked[r].got /\ new.plan = plan
    BY <2>1
  <2> HIDE DEF new
  <2> QED BY <2>1, <2>3, <2>4, <2>5
<1>7. CacheTypes'
  BY <1>0, <1>1, <1>5, <1>6 DEF CacheTypes
<1>8. PlansMatch'
  <2>1. ASSUME NEW q \in Asker, asked'[q].st = "answered"
        PROVE  asked'[q].plan = PlanOf(q)'
    <3>1. CASE q = r
      <4>1. PlanOf(r)' = PlanOf(r)
        BY <1>6, SamePlan
      <4> QED BY <1>4, <1>6, <3>1, <4>1
    <3>2. CASE q # r
      <4>1. asked'[q] = asked[q]
        BY <1>6, <3>2
      <4>2. PlanOf(q)' = PlanOf(q)
        BY <4>1, SamePlan
      <4> QED BY <1>0, <2>1, <4>1, <4>2 DEF PlansMatch
    <3> QED BY <3>1, <3>2
  <2> QED BY <2>1 DEF PlansMatch
<1>9. PlacesForward' /\ NewestBounded' /\ StoreNewest' /\ LoadsForward'
  BY <1>0, <1>1, SameStore, SameForward
<1> QED BY <1>5, <1>7, <1>8, <1>9 DEF CachesInv

LEMMA NoAskIs ==
  ASSUME NEW n \in Nat
  PROVE  NoAsk(n) \in Request /\ NoAsk(n).st = "idle"
<1>1. [k \in Kind |-> [s \in Scope |-> Nothing]] \in Readings
  BY DEF Readings, Nothing, Reading
<1> QED BY <1>1 DEF NoAsk, Request

LEMMA LeaveKeeps ==
  ASSUME CachesInv, NEW r \in Asker, Leave(r)
  PROVE  CachesInv'
<1>0. CacheTypes /\ KeptPlans /\ PlansMatch /\ PlacesForward /\ NewestBounded /\ StoreNewest /\ LoadsForward
  BY DEF CachesInv
<1>1. /\ asked' = [asked EXCEPT ![r] = NoAsk(@.asks)]
      /\ world' = world /\ store' = store /\ flight' = flight /\ coords' = coords /\ lookup' = lookup
      /\ newest' = newest /\ turns' = turns /\ plans' = plans
  BY DEF Leave
<1>2. NoAsk(asked[r].asks) \in Request /\ NoAsk(asked[r].asks).st = "idle"
  BY <1>0, RequestIs, NoAskIs
<1>3. asked' \in [Asker -> Request] /\ \A q \in Asker : asked'[q] = asked[q] \/ asked'[q].st # "answered"
  BY <1>0, <1>1, <1>2 DEF CacheTypes
<1>4. CacheTypes'
  BY <1>0, <1>1, <1>3 DEF CacheTypes
<1>5. PlansMatch'
  BY <1>0, <1>3, OthersStay
<1>6. KeptPlans'
  BY <1>0, <1>1 DEF KeptPlans
<1>7. PlacesForward' /\ NewestBounded' /\ StoreNewest' /\ LoadsForward'
  BY <1>0, <1>1, SameStore, SameForward
<1> QED BY <1>4, <1>5, <1>6, <1>7 DEF CachesInv

\* Only what is fresh, and how often a time ran out, changes.
LEMMA RunOutKeeps ==
  ASSUME CachesInv, NEW k \in Kind, NEW s \in Scope, RunOut(k, s)
  PROVE  CachesInv'
<1>0. CacheTypes /\ KeptPlans /\ PlansMatch /\ PlacesForward /\ NewestBounded /\ StoreNewest /\ LoadsForward
  BY DEF CachesInv
<1> DEFINE old == store[k]
           new == [i \in DOMAIN old |-> IF old[i].scope = s THEN [old[i] EXCEPT !.fresh = FALSE] ELSE old[i]]
           Kept0 == [scope : Scope, read : Reading, fresh : BOOLEAN]
<1>1. /\ store' = [store EXCEPT ![k] = new]
      /\ world' = world /\ flight' = flight /\ coords' = coords /\ lookup' = lookup /\ asked' = asked
      /\ newest' = newest /\ turns' = turns + 1 /\ plans' = plans
  BY DEF RunOut, Turn
<1>2. old \in Seq(Kept0) /\ store \in [Kind -> Seq(Kept0)]
  BY <1>0 DEF CacheTypes
<1>3. DOMAIN old = 1 .. Len(old) /\ Len(old) \in Nat /\ \A i \in DOMAIN old : old[i] \in Kept0
  BY <1>2, LenProperties, ElementOfSeq
<1>4. \A i \in DOMAIN old : new[i] \in Kept0 /\ new[i].scope = old[i].scope /\ new[i].read = old[i].read
  BY <1>3
<1>5. new \in Seq(Kept0) /\ DOMAIN new = DOMAIN old
  <2>1. new \in [1 .. Len(old) -> Kept0]
    BY <1>3, <1>4
  <2> QED BY <1>3, <2>1
<1> HIDE DEF old, new
<1>6. store' \in [Kind -> Seq(Kept0)]
  BY <1>1, <1>2, <1>5
<1>7. \A i \in DOMAIN store'["map"] : \E j \in DOMAIN store["map"] :
           /\ store'["map"][i].scope = store["map"][j].scope
           /\ store'["map"][i].read = store["map"][j].read
  <2>1. CASE k = "map"
    <3>1. store'["map"] = new /\ store["map"] = old
      BY <1>1, <1>2, <2>1 DEF old
    <3> QED BY <1>4, <1>5, <3>1
  <2>2. CASE k # "map"
    <3>1. store'["map"] = store["map"]
      BY <1>1, <1>2, <2>2
    <3> QED BY <3>1
  <2> QED BY <2>1, <2>2
<1>8. CacheTypes'
  <2>1. turns' \in Nat
    BY <1>0, <1>1 DEF CacheTypes
  <2> QED BY <1>0, <1>1, <1>6, <2>1 DEF CacheTypes
<1>9. PlansMatch' /\ KeptPlans'
  BY <1>0, <1>1, OthersStay DEF KeptPlans
<1>10. PlacesForward' /\ NewestBounded' /\ StoreNewest' /\ LoadsForward'
  BY <1>0, <1>1, <1>7, SameForward
<1> QED BY <1>8, <1>9, <1>10 DEF CachesInv

LEMMA PlacesOldKeeps ==
  ASSUME CachesInv, PlacesRunOut \/ RetryAgain
  PROVE  CachesInv'
<1>0. CacheTypes /\ KeptPlans /\ PlansMatch /\ PlacesForward /\ NewestBounded /\ StoreNewest /\ LoadsForward
  BY DEF CachesInv
<1>1. /\ coords' = [coords EXCEPT !.fresh = FALSE] \/ coords' = [coords EXCEPT !.failed = FALSE]
      /\ world' = world /\ store' = store /\ flight' = flight /\ lookup' = lookup /\ asked' = asked
      /\ newest' = newest /\ turns' = turns + 1 /\ plans' = plans
  BY DEF PlacesRunOut, RetryAgain, Turn
<1>2. coords' \in [v : Nat, fresh : BOOLEAN, failed : BOOLEAN] /\ coords'.v = coords.v /\ turns' \in Nat
  <2>1. coords \in [v : Nat, fresh : BOOLEAN, failed : BOOLEAN] /\ turns \in Nat
    BY <1>0 DEF CacheTypes
  <2>2. coords.v \in Nat /\ coords.fresh \in BOOLEAN /\ coords.failed \in BOOLEAN
    BY <2>1
  <2>3. \/ coords' = [v |-> coords.v, fresh |-> FALSE, failed |-> coords.failed]
        \/ coords' = [v |-> coords.v, fresh |-> coords.fresh, failed |-> FALSE]
    BY <1>1, <2>1
  <2>4. coords' \in [v : Nat, fresh : BOOLEAN, failed : BOOLEAN] /\ coords'.v = coords.v
    <3>1. \A a, b \in BOOLEAN : [v |-> coords.v, fresh |-> a, failed |-> b] \in [v : Nat, fresh : BOOLEAN, failed : BOOLEAN]
      BY <2>2
    <3>2. FALSE \in BOOLEAN
      OBVIOUS
    <3>3. coords'.v = coords.v
      BY <2>3
    <3>4. coords' \in [v : Nat, fresh : BOOLEAN, failed : BOOLEAN]
      <4>1. CASE coords' = [v |-> coords.v, fresh |-> FALSE, failed |-> coords.failed]
        BY <2>2, <3>1, <3>2, <4>1
      <4>2. CASE coords' = [v |-> coords.v, fresh |-> coords.fresh, failed |-> FALSE]
        BY <2>2, <3>1, <3>2, <4>2
      <4> QED BY <2>3, <4>1, <4>2
    <3> QED BY <3>3, <3>4
  <2>5. turns' \in Nat
    BY <1>1, <2>1
  <2> QED BY <2>4, <2>5
<1>3. CacheTypes'
  BY <1>0, <1>1, <1>2 DEF CacheTypes
<1>4. PlansMatch' /\ KeptPlans'
  BY <1>0, <1>1, OthersStay DEF KeptPlans
<1>5. PlacesForward' /\ NewestBounded' /\ StoreNewest' /\ LoadsForward'
  BY <1>0, <1>1, <1>2, SameStore, SameForward
<1> QED BY <1>3, <1>4, <1>5 DEF CachesInv

LEMMA ChangeKeeps ==
  ASSUME CachesInv, NEW part \in {"inner", "outer", "places"}, Change(part)
  PROVE  CachesInv'
<1>0. CacheTypes /\ KeptPlans /\ PlansMatch /\ PlacesForward /\ NewestBounded /\ StoreNewest /\ LoadsForward
  BY DEF CachesInv
<1>1. /\ world' = [world EXCEPT ![part] = @ + 1]
      /\ coords' = coords /\ store' = store /\ flight' = flight /\ lookup' = lookup /\ asked' = asked
      /\ newest' = newest /\ turns' = turns /\ plans' = plans
  BY DEF Change
<1>2. world \in [inner : Nat, outer : Nat, places : Nat \ {0}] /\ coords.v \in Nat
  BY <1>0 DEF CacheTypes
<1>3. /\ world' \in [inner : Nat, outer : Nat, places : Nat \ {0}]
      /\ world'.inner >= world.inner /\ world'.outer >= world.outer /\ world'.places >= world.places
  BY <1>1, <1>2
<1>4. CacheTypes'
  BY <1>0, <1>1, <1>3 DEF CacheTypes
<1>5. PlansMatch' /\ KeptPlans'
  BY <1>0, <1>1, OthersStay DEF KeptPlans
<1>6. PlacesForward'
  <2>1. coords.v <= world'.places
    BY <1>0, <1>2, <1>3 DEF PlacesForward
  <2>2. \A t \in Scope : lookup[t] > 0 => coords.v <= lookup[t] /\ lookup[t] <= world'.places
    <3>1. \A t \in Scope : lookup[t] \in Int
      BY <1>0 DEF CacheTypes, Awaited
    <3> QED BY <1>0, <1>2, <1>3, <3>1 DEF PlacesForward
  <2> QED BY <1>0, <1>1, <2>1, <2>2 DEF PlacesForward
<1>7. \A s \in Scope : Outer(s)' >= Outer(s) /\ Outer(s) \in Nat /\ Outer(s)' \in Nat
  BY <1>2, <1>3 DEF Outer
<1>8. NewestBounded'
  <2>1. \A s \in Scope : newest[s].inner \in Nat /\ newest[s].outer \in Nat
    BY <1>0 DEF CacheTypes, Reading
  <2>2. \A s \in Scope : newest[s].inner <= world'.inner /\ newest[s].outer <= Outer(s)'
    BY <1>0, <1>2, <1>3, <1>7, <2>1 DEF NewestBounded
  <2> QED BY <1>0, <1>1, <2>2 DEF NewestBounded
<1>9. StoreNewest'
  BY <1>0, <1>1 DEF StoreNewest
<1>10. LoadsForward'
  <2> SUFFICES ASSUME NEW s \in Scope PROVE LoadForward(s)'
    BY DEF LoadsForward
  <2>1. LoadForward(s)
    BY <1>0 DEF LoadsForward
  <2>2. flight["map"][s].read.inner \in Nat /\ flight["map"][s].read.outer \in Nat
    BY <1>0 DEF CacheTypes, Kind, Flight, Reading
  <2>3. flight["map"][s].st = "read" => /\ flight["map"][s].read.inner <= world'.inner
                                        /\ flight["map"][s].read.outer <= Outer(s)'
    BY <1>2, <1>3, <1>7, <2>1, <2>2 DEF LoadForward
  <2> QED BY <1>1, <2>1, <2>3 DEF LoadForward
<1> QED BY <1>4, <1>5, <1>6, <1>8, <1>9, <1>10 DEF CachesInv

\* The upstream's positions are read: no older than those that are kept.
LEMMA PlacesReadKeeps ==
  ASSUME CachesInv, NEW t \in Scope, PlacesRead(t)
  PROVE  CachesInv'
<1>0. CacheTypes /\ KeptPlans /\ PlansMatch /\ PlacesForward /\ NewestBounded /\ StoreNewest /\ LoadsForward
  BY DEF CachesInv
<1>1. /\ lookup[t] = Awaited /\ lookup' = [lookup EXCEPT ![t] = world.places]
      /\ world' = world /\ coords' = coords /\ store' = store /\ flight' = flight /\ asked' = asked
      /\ newest' = newest /\ turns' = turns /\ plans' = plans
  BY DEF PlacesRead
<1>2. /\ world.places \in Nat \ {0} /\ coords.v \in Nat /\ lookup \in [Scope -> Nat \cup {Awaited}]
      /\ lookup[t] # 0
  BY <1>0, <1>1 DEF CacheTypes, Awaited
<1>3. /\ lookup' \in [Scope -> Nat \cup {Awaited}] /\ lookup'[t] = world.places
      /\ \A u \in Scope \ {t} : lookup'[u] = lookup[u]
      /\ \A u \in Scope : lookup'[u] # 0 <=> lookup[u] # 0
  BY <1>1, <1>2
<1>4. CacheTypes'
  BY <1>0, <1>1, <1>3 DEF CacheTypes
<1>5. PlansMatch' /\ KeptPlans'
  BY <1>0, <1>1, OthersStay DEF KeptPlans
<1>6. PlacesForward'
  <2>1. \A u, v \in Scope : lookup'[u] # 0 /\ lookup'[v] # 0 => u = v
    BY <1>0, <1>3 DEF PlacesForward
  <2>2. coords.v <= world.places
    BY <1>0 DEF PlacesForward
  <2>3. \A u \in Scope : lookup'[u] > 0 => coords.v <= lookup'[u] /\ lookup'[u] <= world.places
    BY <1>0, <1>2, <1>3, <2>2 DEF PlacesForward
  <2> QED BY <1>1, <2>1, <2>2, <2>3 DEF PlacesForward
<1>7. NewestBounded' /\ StoreNewest'
  BY <1>0, <1>1 DEF NewestBounded, Outer, StoreNewest
<1>8. LoadsForward'
  <2> SUFFICES ASSUME NEW s \in Scope PROVE LoadForward(s)'
    BY DEF LoadsForward
  <2>1. LoadForward(s)
    BY <1>0 DEF LoadsForward
  <2>2. flight["map"][s].from \in {"none"} \cup Scope
    BY <1>0 DEF CacheTypes, Kind, Flight
  <2> QED BY <1>1, <1>3, <2>1, <2>2 DEF LoadForward, Outer
<1> QED BY <1>4, <1>5, <1>6, <1>7, <1>8 DEF CachesInv

-----------------------------------------------------------------------------
(* A load of positions ends                                                *)

\* Every map that waits for it has its positions; the others are as they were.
LEMMA EndedKeeps ==
  ASSUME CachesInv, NEW t \in Scope, lookup[t] # 0, NEW places \in [Scope -> Int], Ended(t, places),
         coords' \in [v : Nat, fresh : BOOLEAN, failed : BOOLEAN], turns' \in Nat,
         coords.v <= coords'.v, coords'.v <= world.places,
         \A s \in Scope : flight["map"][s].from = t => newest[s].places <= places[s] /\ places[s] <= coords'.v
  PROVE  CachesInv'
<1>0. CacheTypes /\ KeptPlans /\ PlansMatch /\ PlacesForward /\ NewestBounded /\ StoreNewest /\ LoadsForward
  BY DEF CachesInv
<1> DEFINE f(s) == flight["map"][s]
           g(s) == IF f(s).from = t THEN [f(s) EXCEPT !.from = "none", !.read.places = places[s]] ELSE f(s)
<1>1. /\ lookup' = [lookup EXCEPT ![t] = 0]
      /\ flight' = [flight EXCEPT !["map"] = [s \in Scope |-> g(s)]]
      /\ world' = world /\ store' = store /\ plans' = plans /\ asked' = asked /\ newest' = newest
  BY DEF Ended
<1>2. /\ lookup \in [Scope -> Nat \cup {Awaited}] /\ coords.v \in Nat /\ coords'.v \in Nat
      /\ flight \in [Kind -> [Scope -> Flight]] /\ "map" \in Kind
      /\ world.places \in Nat
  BY <1>0 DEF CacheTypes, Kind
<1>3. \A s \in Scope : f(s) \in Flight /\ f(s).read \in Reading
  BY <1>2 DEF Flight
<1>4. ASSUME NEW s \in Scope
      PROVE  /\ g(s) \in Flight
             /\ g(s).st = f(s).st /\ g(s).had = f(s).had
             /\ g(s).read.inner = f(s).read.inner /\ g(s).read.outer = f(s).read.outer
             /\ f(s).from = t => g(s).from = "none" /\ g(s).read.places = places[s]
             /\ f(s).from # t => g(s) = f(s)
  <2>1. CASE f(s).from = t
    <3> DEFINE new == [f(s).read EXCEPT !.places = places[s]]
    <3>1. g(s) = [f(s) EXCEPT !.from = "none", !.read = new]
      BY <1>3, <2>1
    <3>2. new \in Reading /\ new.inner = f(s).read.inner /\ new.outer = f(s).read.outer /\ new.places = places[s]
      BY <1>3 DEF Reading
    <3> HIDE DEF new
    <3>3. f(s) \in Flight /\ [f(s) EXCEPT !.from = "none", !.read = new] \in Flight
      BY <1>3, <3>2 DEF Flight
    <3>4. /\ g(s).st = f(s).st /\ g(s).had = f(s).had /\ g(s).read = new /\ g(s).from = "none"
      BY <3>1, <3>3 DEF Flight
    <3> HIDE DEF g
    <3> QED BY <2>1, <3>1, <3>2, <3>3, <3>4
  <2>2. CASE f(s).from # t
    BY <1>3, <2>2
  <2> QED BY <2>1, <2>2
<1>5. flight' \in [Kind -> [Scope -> Flight]] /\ \A s \in Scope : flight'["map"][s] = g(s)
  BY <1>1, <1>2, <1>4
<1>6. lookup' \in [Scope -> Nat \cup {Awaited}] /\ \A u \in Scope : lookup'[u] = 0
  <2>1. \A u \in Scope \ {t} : lookup[u] = 0
    BY <1>0 DEF PlacesForward
  <2> QED BY <1>1, <1>2, <2>1
<1> HIDE DEF g
<1>7. CacheTypes'
  BY <1>0, <1>1, <1>5, <1>6 DEF CacheTypes
<1>8. PlansMatch' /\ KeptPlans'
  BY <1>0, <1>1, OthersStay DEF KeptPlans
<1>9. PlacesForward'
  BY <1>0, <1>1, <1>6 DEF PlacesForward
<1>10. \A s \in Scope : newest[s].places \in Int
  BY <1>0 DEF CacheTypes, Reading
<1>11. NewestBounded'
  <2>1. \A s \in Scope : newest[s].places <= coords'.v
    BY <1>0, <1>2, <1>10 DEF NewestBounded
  <2> QED BY <1>0, <1>1, <2>1 DEF NewestBounded, Outer
<1>12. StoreNewest'
  BY <1>0, <1>1 DEF StoreNewest
<1>13. LoadsForward'
  <2> SUFFICES ASSUME NEW s \in Scope PROVE LoadForward(s)'
    BY DEF LoadsForward
  <2>1. LoadForward(s)
    BY <1>0 DEF LoadsForward
  <2>2. flight'["map"][s] = g(s) /\ newest'[s] = newest[s] /\ world' = world /\ Outer(s)' = Outer(s)
    BY <1>1, <1>5 DEF Outer
  <2>3. g(s).st = "read" => /\ newest[s].inner <= g(s).read.inner /\ g(s).read.inner <= world.inner
                            /\ newest[s].outer <= g(s).read.outer /\ g(s).read.outer <= Outer(s)
    BY <1>4, <2>1 DEF LoadForward
  <2>4. g(s).st # "none" => newest[s].places <= g(s).had /\ g(s).had <= coords'.v
    <3>1. f(s).had \in Nat
      BY <1>3 DEF Flight
    <3> QED BY <1>2, <1>4, <2>1, <3>1 DEF LoadForward
  <2>5. g(s).st # "none" /\ g(s).from = "none" => newest[s].places <= g(s).read.places /\ g(s).read.places <= coords'.v
    <3>1. f(s).read.places \in Int
      BY <1>3 DEF Reading
    <3> QED BY <1>2, <1>4, <2>1, <3>1 DEF LoadForward
  <2>6. g(s).from = "none"
    <3>1. CASE f(s).from = t
      BY <1>4, <3>1
    <3>2. CASE f(s).from # t
      <4>1. f(s).from \in {"none"} \cup Scope /\ g(s).from = f(s).from
        BY <1>3, <1>4, <3>2 DEF Flight
      <4>2. f(s).from # "none" => lookup[f(s).from] # 0
        BY <2>1 DEF LoadForward
      <4>3. \A u \in Scope \ {t} : lookup[u] = 0
        BY <1>0 DEF PlacesForward
      <4> QED BY <3>2, <4>1, <4>2, <4>3
    <3> QED BY <3>1, <3>2
  <2> QED BY <2>2, <2>3, <2>4, <2>5, <2>6 DEF LoadForward
<1> QED BY <1>7, <1>8, <1>9, <1>11, <1>12, <1>13 DEF CachesInv

LEMMA PlacesArriveKeeps ==
  ASSUME CachesInv, NEW t \in Scope, PlacesArrive(t)
  PROVE  CachesInv'
<1>0. CacheTypes /\ PlacesForward /\ NewestBounded
  BY DEF CachesInv
<1> DEFINE places == [s \in Scope |-> lookup[t]]
<1>1. /\ lookup[t] > 0 /\ turns' = turns /\ Ended(t, places)
      /\ coords' = [v |-> lookup[t], fresh |-> TRUE, failed |-> FALSE]
  BY DEF PlacesArrive
<1>2. lookup[t] \in Nat /\ lookup[t] # 0 /\ coords.v \in Nat /\ turns \in Nat
  BY <1>0, <1>1 DEF CacheTypes, Awaited
<1>3. /\ coords' \in [v : Nat, fresh : BOOLEAN, failed : BOOLEAN] /\ coords'.v = lookup[t]
      /\ coords.v <= lookup[t] /\ lookup[t] <= world.places
  BY <1>0, <1>1, <1>2 DEF PlacesForward
<1>4. \A s \in Scope : newest[s].places <= lookup[t]
  <2>1. \A s \in Scope : newest[s].places \in Int
    BY <1>0 DEF CacheTypes, Reading
  <2> QED BY <1>0, <1>2, <1>3, <2>1 DEF NewestBounded
<1>5. places \in [Scope -> Int] /\ \A s \in Scope : places[s] = lookup[t]
  BY <1>2
<1> HIDE DEF places
<1> QED BY <1>1, <1>2, <1>3, <1>4, <1>5, EndedKeeps

LEMMA PlacesFailKeeps ==
  ASSUME CachesInv, NEW t \in Scope, PlacesFail(t)
  PROVE  CachesInv'
<1>0. CacheTypes /\ PlacesForward /\ LoadsForward
  BY DEF CachesInv
<1> DEFINE places == [s \in Scope |-> flight["map"][s].had]
<1>1. /\ lookup[t] # 0 /\ turns' = turns + 1 /\ Ended(t, places)
      /\ coords' = [coords EXCEPT !.failed = TRUE]
  BY DEF PlacesFail, Turn
<1>2. coords \in [v : Nat, fresh : BOOLEAN, failed : BOOLEAN] /\ turns' \in Nat
  BY <1>0, <1>1 DEF CacheTypes
<1>3. coords' \in [v : Nat, fresh : BOOLEAN, failed : BOOLEAN] /\ coords'.v = coords.v
  <2>1. coords.v \in Nat /\ coords.fresh \in BOOLEAN /\ TRUE \in BOOLEAN
    BY <1>2
  <2>2. coords' = [v |-> coords.v, fresh |-> coords.fresh, failed |-> TRUE]
    BY <1>1, <1>2
  <2>3. \A a, b \in BOOLEAN : [v |-> coords.v, fresh |-> a, failed |-> b] \in [v : Nat, fresh : BOOLEAN, failed : BOOLEAN]
    BY <2>1
  <2>4. coords' \in [v : Nat, fresh : BOOLEAN, failed : BOOLEAN]
    BY <2>1, <2>2, <2>3
  <2> QED BY <2>2, <2>4
<1>4. coords.v <= coords'.v /\ coords'.v <= world.places
  BY <1>0, <1>2, <1>3 DEF PlacesForward
<1>5. \A s \in Scope : flight["map"][s] \in Flight /\ flight["map"][s].had \in Nat
  BY <1>0 DEF CacheTypes, Kind, Flight
<1>6. places \in [Scope -> Int] /\ \A s \in Scope : places[s] = flight["map"][s].had
  BY <1>5
<1>7. \A s \in Scope : flight["map"][s].from = t =>
        newest[s].places <= flight["map"][s].had /\ flight["map"][s].had <= coords'.v
  <2> SUFFICES ASSUME NEW s \in Scope, flight["map"][s].from = t
               PROVE  newest[s].places <= flight["map"][s].had /\ flight["map"][s].had <= coords'.v
    OBVIOUS
  <2>1. LoadForward(s)
    BY <1>0 DEF LoadsForward
  <2>2. t # "none"
    BY DEF Scope
  <2> QED BY <1>3, <2>1, <2>2 DEF LoadForward
<1> HIDE DEF places
<1>8. \A s \in Scope : flight["map"][s].from = t => newest[s].places <= places[s] /\ places[s] <= coords'.v
  BY <1>6, <1>7
<1> QED BY <1>1, <1>2, <1>3, <1>4, <1>6, <1>8, EndedKeeps

-----------------------------------------------------------------------------
(* A load's query runs, or fails                                           *)

LEMMA ReadKeeps ==
  ASSUME CachesInv, NEW s \in Scope, Read(s)
  PROVE  CachesInv'
<1>0. CacheTypes /\ KeptPlans /\ PlansMatch /\ PlacesForward /\ NewestBounded /\ StoreNewest /\ LoadsForward
  BY DEF CachesInv
<1> DEFINE f == flight["map"][s]
           new == [f EXCEPT !.st = "read", !.read = Tables(s, f.read.places)]
<1>1. /\ f.st = "asked"
      /\ world' = world /\ store' = store /\ coords' = coords /\ lookup' = lookup /\ asked' = asked
      /\ newest' = newest /\ turns' = turns /\ plans' = plans
  BY DEF Read
<1>2. flight \in [Kind -> [Scope -> Flight]] /\ "map" \in Kind /\ f \in Flight /\ f.read \in Reading
  BY <1>0 DEF CacheTypes, Kind, Flight
<1>3. flight' = [flight EXCEPT !["map"][s] = new]
  BY <1>2 DEF Read
<1>4. /\ Tables(s, f.read.places) \in Reading
      /\ Tables(s, f.read.places).inner = world.inner /\ Tables(s, f.read.places).outer = Outer(s)
      /\ Tables(s, f.read.places).places = f.read.places
  BY <1>0, <1>2 DEF Tables, Reading, Outer, CacheTypes
<1>5. new \in Flight /\ new.st = "read" /\ new.read = Tables(s, f.read.places) /\ new.had = f.had /\ new.from = f.from
  BY <1>2, <1>4 DEF Flight
<1> HIDE DEF new
<1>6. /\ flight' \in [Kind -> [Scope -> Flight]] /\ flight'["map"][s] = new
      /\ \A u \in Scope \ {s} : flight'["map"][u] = flight["map"][u]
  BY <1>2, <1>3, <1>5
<1>7. CacheTypes'
  BY <1>0, <1>1, <1>6 DEF CacheTypes
<1>8. PlansMatch' /\ KeptPlans'
  BY <1>0, <1>1, OthersStay DEF KeptPlans
<1>9. PlacesForward' /\ NewestBounded' /\ StoreNewest'
  BY <1>0, <1>1 DEF PlacesForward, NewestBounded, Outer, StoreNewest
<1>10. LoadsForward'
  <2> SUFFICES ASSUME NEW u \in Scope PROVE LoadForward(u)'
    BY DEF LoadsForward
  <2>1. LoadForward(u)
    BY <1>0 DEF LoadsForward
  <2>2. CASE u = s
    <3>1. newest[s].inner <= world.inner /\ newest[s].outer <= Outer(s)
      BY <1>0 DEF NewestBounded
    <3>2. world.inner \in Nat /\ Outer(s) \in Nat
      BY <1>0 DEF CacheTypes, Outer
    <3> QED BY <1>1, <1>4, <1>5, <1>6, <2>1, <2>2, <3>1, <3>2 DEF LoadForward, Outer
  <2>3. CASE u # s
    <3>1. flight'["map"][u] = flight["map"][u]
      BY <1>6, <2>3
    <3> QED BY <1>1, <2>1, <3>1 DEF LoadForward, Outer
  <2> QED BY <2>2, <2>3
<1> QED BY <1>7, <1>8, <1>9, <1>10 DEF CachesInv

LEMMA BreakKeeps ==
  ASSUME CachesInv, NEW k \in Kind, NEW s \in Scope, Break(k, s)
  PROVE  CachesInv'
<1>0. CacheTypes /\ KeptPlans /\ PlansMatch /\ PlacesForward /\ NewestBounded /\ StoreNewest /\ LoadsForward
  BY DEF CachesInv
<1>1. /\ flight' = [flight EXCEPT ![k][s] = NoFlight]
      /\ asked' = [r \in Asker |-> IF Waits(r, k, s) THEN NoAsk(asked[r].asks) ELSE asked[r]]
      /\ world' = world /\ store' = store /\ coords' = coords /\ lookup' = lookup
      /\ newest' = newest /\ turns' = turns + 1 /\ plans' = plans
  BY DEF Break, Turn
<1>2. flight \in [Kind -> [Scope -> Flight]] /\ NoFlight \in Flight /\ turns' \in Nat
  BY <1>0, <1>1 DEF CacheTypes, NoFlight, Flight, Nothing, Reading
<1>3. /\ flight' \in [Kind -> [Scope -> Flight]]
      /\ \A u \in Scope : flight'["map"][u] = flight["map"][u] \/ flight'["map"][u] = NoFlight
  BY <1>1, <1>2 DEF Kind
<1>4. \A r \in Asker : NoAsk(asked[r].asks) \in Request /\ NoAsk(asked[r].asks).st = "idle"
  BY <1>0, RequestIs, NoAskIs
<1>5. asked' \in [Asker -> Request] /\ \A q \in Asker : asked'[q] = asked[q] \/ asked'[q].st # "answered"
  BY <1>0, <1>1, <1>4 DEF CacheTypes
<1>6. CacheTypes'
  BY <1>0, <1>1, <1>2, <1>3, <1>5 DEF CacheTypes
<1>7. PlansMatch' /\ KeptPlans'
  BY <1>0, <1>1, <1>5, OthersStay DEF KeptPlans
<1>8. PlacesForward' /\ NewestBounded' /\ StoreNewest'
  BY <1>0, <1>1 DEF PlacesForward, NewestBounded, Outer, StoreNewest
<1>9. LoadsForward'
  <2> SUFFICES ASSUME NEW u \in Scope PROVE LoadForward(u)'
    BY DEF LoadsForward
  <2>1. LoadForward(u)
    BY <1>0 DEF LoadsForward
  <2>2. CASE flight'["map"][u] = flight["map"][u]
    BY <1>1, <2>1, <2>2 DEF LoadForward, Outer
  <2>3. CASE flight'["map"][u] = NoFlight
    BY <2>3 DEF LoadForward, NoFlight
  <2> QED BY <1>3, <2>2, <2>3
<1> QED BY <1>6, <1>7, <1>8, <1>9 DEF CachesInv

\* The load of positions that is joined: the one under way, or one of those that begin.
LEMMA JoinedIs ==
  ASSUME NEW begun \in SUBSET Scope, NEW s \in begun
  PROVE  /\ Joined(begun, s) \in Scope
         /\ (\E t \in Scope : lookup[t] # 0) => lookup[Joined(begun, s)] # 0
BY DEF Joined

\* Loads begin: they have what is kept of the positions, or wait for the one load of them.
LEMMA BeginKeeps ==
  ASSUME CachesInv, NEW keys \in SUBSET (Kind \X Scope), Begin(keys),
         \A n \in keys : flight[n[1]][n[2]].st = "none",
         world' = world, coords' = coords, newest' = newest
  PROVE  /\ flight' \in [Kind -> [Scope -> Flight]]
         /\ lookup' \in [Scope -> Nat \cup {Awaited}]
         /\ PlacesForward' /\ LoadsForward'
<1>0. CacheTypes /\ PlacesForward /\ NewestBounded /\ LoadsForward
  BY DEF CachesInv
<1> DEFINE begun == {s \in Scope : <<"map", s>> \in keys}
           waits(s) == MustAsk /\ s \in begun
           read(k, s) == [Nothing EXCEPT !.places = IF k = "gateways" THEN 0
                                                    ELSE IF waits(s) THEN Awaited ELSE coords.v]
           from(k, s) == IF k = "map" /\ waits(s) THEN Joined(begun, s) ELSE "none"
           new(k, s) == [st |-> "asked", read |-> read(k, s), had |-> coords.v, from |-> from(k, s)]
           joins(t) == \E s \in begun : waits(s) /\ Joined(begun, s) = t
<1>1. /\ flight' = [k \in Kind |-> [s \in Scope |-> IF <<k, s>> \notin keys THEN flight[k][s] ELSE new(k, s)]]
      /\ lookup' = [t \in Scope |-> IF lookup[t] = 0 /\ joins(t) THEN Awaited ELSE lookup[t]]
  BY DEF Begin
<1>2. /\ coords.v \in Nat /\ lookup \in [Scope -> Nat \cup {Awaited}]
      /\ flight \in [Kind -> [Scope -> Flight]] /\ "map" \in Kind /\ "none" \notin Scope
  BY <1>0 DEF CacheTypes, Kind, Scope
<1>3. begun \in SUBSET Scope
  OBVIOUS
<1>4. ASSUME NEW k \in Kind, NEW s \in Scope
      PROVE  /\ read(k, s) \in Reading
             /\ k = "map" /\ ~waits(s) => read(k, s).places = coords.v
             /\ from(k, s) \in {"none"} \cup Scope
             /\ k = "map" /\ from(k, s) = "none" => ~waits(s)
             /\ from(k, s) # "none" => waits(s) /\ from(k, s) = Joined(begun, s)
  <2>1. waits(s) => Joined(begun, s) \in Scope
    <3> SUFFICES ASSUME waits(s) PROVE Joined(begun, s) \in Scope
      OBVIOUS
    <3>1. s \in begun
      OBVIOUS
    <3> HIDE DEF begun
    <3> QED BY <1>3, <3>1, JoinedIs
  <2>2. read(k, s) \in Reading /\ (k = "map" /\ ~waits(s) => read(k, s).places = coords.v)
    BY <1>2 DEF Nothing, Reading, Awaited
  <2> HIDE DEF waits, begun, read
  <2> QED BY <1>2, <2>1, <2>2
<1>5. \A s, u \in begun : Joined(begun, s) = Joined(begun, u)
  BY DEF Joined
<1>6. \A s \in begun : (\E t \in Scope : lookup[t] # 0) => lookup[Joined(begun, s)] # 0
  <2> HIDE DEF begun
  <2> QED BY <1>3, JoinedIs
<1>7. \A s \in Scope : waits(s) => s \in begun /\ joins(Joined(begun, s)) /\ Joined(begun, s) \in Scope
  <2> SUFFICES ASSUME NEW s \in Scope, waits(s)
               PROVE  s \in begun /\ joins(Joined(begun, s)) /\ Joined(begun, s) \in Scope
    OBVIOUS
  <2>1. s \in begun
    OBVIOUS
  <2>2. Joined(begun, s) \in Scope
    <3> HIDE DEF begun
    <3> QED BY <1>3, <2>1, JoinedIs
  <2> QED BY <2>1, <2>2
<1>8. \A t \in Scope : joins(t) => \E s \in begun : Joined(begun, s) = t
  OBVIOUS
<1> HIDE DEF begun, read, from, waits, joins
<1>9. ASSUME NEW k \in Kind, NEW s \in Scope
      PROVE  new(k, s) \in Flight
  BY <1>2, <1>4 DEF Flight
<1>10. flight' \in [Kind -> [Scope -> Flight]]
  <2> HIDE DEF new
  <2> QED BY <1>1, <1>2, <1>9
<1>11. /\ lookup' \in [Scope -> Nat \cup {Awaited}]
       /\ \A t \in Scope : lookup'[t] = IF lookup[t] = 0 /\ joins(t) THEN Awaited ELSE lookup[t]
  BY <1>1, <1>2
<1>12. PlacesForward'
  <2>1. \A t, u \in Scope : lookup'[t] # 0 /\ lookup'[u] # 0 => t = u
    <3> SUFFICES ASSUME NEW t \in Scope, NEW u \in Scope, lookup'[t] # 0, lookup'[u] # 0
                 PROVE  t = u
      OBVIOUS
    <3>1. CASE lookup[t] # 0 /\ lookup[u] # 0
      BY <1>0, <3>1 DEF PlacesForward
    <3>2. CASE lookup[t] = 0 /\ lookup[u] = 0
      <4>1. joins(t) /\ joins(u)
        BY <1>11, <3>2
      <4> QED BY <1>5, <1>8, <4>1
    <3>3. CASE lookup[t] = 0 /\ lookup[u] # 0
      <4>1. joins(t)
        BY <1>11, <3>3
      <4> QED BY <1>6, <1>8, <3>3, <4>1
    <3>4. CASE lookup[t] # 0 /\ lookup[u] = 0
      <4>1. joins(u)
        BY <1>11, <3>4
      <4> QED BY <1>6, <1>8, <3>4, <4>1
    <3> QED BY <3>1, <3>2, <3>3, <3>4
  <2>2. \A t \in Scope : lookup'[t] > 0 => lookup'[t] = lookup[t]
    BY <1>11 DEF Awaited
  <2> QED BY <1>0, <2>1, <2>2 DEF PlacesForward
<1>13. LoadsForward'
  <2> SUFFICES ASSUME NEW s \in Scope PROVE LoadForward(s)'
    BY DEF LoadsForward
  <2>1. LoadForward(s)
    BY <1>0 DEF LoadsForward
  <2>2. flight'["map"][s] = IF <<"map", s>> \notin keys THEN flight["map"][s] ELSE new("map", s)
    BY <1>1, <1>2
  <2>3. \A t \in Scope : lookup[t] # 0 => lookup'[t] # 0
    BY <1>11
  <2>4. CASE <<"map", s>> \notin keys
    <3>1. flight'["map"][s] = flight["map"][s] /\ flight["map"][s].from \in {"none"} \cup Scope
      BY <1>2, <2>2, <2>4 DEF Flight
    <3> QED BY <2>1, <2>3, <3>1 DEF LoadForward, Outer
  <2>5. CASE <<"map", s>> \in keys
    <3>1. /\ flight'["map"][s].st = "asked" /\ flight'["map"][s].had = coords.v
          /\ flight'["map"][s].read = read("map", s) /\ flight'["map"][s].from = from("map", s)
      BY <2>2, <2>5
    <3>2. newest[s].places <= coords.v
      BY <1>0 DEF NewestBounded
    <3>3. from("map", s) = "none" => read("map", s).places = coords.v
      BY <1>2, <1>4
    <3>4. from("map", s) # "none" => lookup'[from("map", s)] # 0
      <4> SUFFICES ASSUME from("map", s) # "none" PROVE lookup'[from("map", s)] # 0
        OBVIOUS
      <4>1. waits(s) /\ from("map", s) = Joined(begun, s)
        BY <1>2, <1>4
      <4>2. joins(Joined(begun, s)) /\ Joined(begun, s) \in Scope
        BY <1>7, <4>1
      <4> QED BY <1>11, <4>1, <4>2 DEF Awaited
    <3> QED BY <1>2, <3>1, <3>2, <3>3, <3>4 DEF LoadForward
  <2> QED BY <2>4, <2>5
<1> QED BY <1>10, <1>11, <1>12, <1>13

-----------------------------------------------------------------------------
(* A request begins                                                        *)

\* What is kept of an answer is one of the answers that are kept.
LEMMA ContentIs ==
  ASSUME CacheTypes, NEW k \in Kind, NEW s \in Scope, Fresh(k, s)
  PROVE  \E i \in DOMAIN store[k] : /\ store[k][i].scope = s /\ store[k][i].read = Content(k, s)
                                    /\ store[k][i].read \in Reading
<1>1. PICK e \in Held(k, s) : e.fresh
  BY DEF Fresh
<1>2. (CHOOSE x \in Held(k, s) : TRUE) \in Held(k, s)
  BY <1>1
<1>3. PICK i \in DOMAIN store[k] : store[k][i] = (CHOOSE x \in Held(k, s) : TRUE) /\ store[k][i].scope = s
  BY <1>2 DEF Held, Stored
<1>4. store[k] \in Seq([scope : Scope, read : Reading, fresh : BOOLEAN])
  BY DEF CacheTypes
<1>5. store[k][i] \in [scope : Scope, read : Reading, fresh : BOOLEAN]
  BY <1>3, <1>4, ElementOfSeq, LenProperties
<1> QED BY <1>3, <1>5 DEF Content

LEMMA AskKeeps ==
  ASSUME CachesInv, NEW r \in Asker, NEW for \in {"add", "move"}, NEW scope \in Scope, Ask(r, for, scope)
  PROVE  CachesInv' /\ newest' = newest
<1>0. CacheTypes /\ KeptPlans /\ PlansMatch /\ PlacesForward /\ NewestBounded /\ StoreNewest /\ LoadsForward
  BY DEF CachesInv
<1> DEFINE kept == {n \in Needs(scope) : Fresh(n[1], n[2])}
           got == [k \in Kind |-> [s \in Scope |-> IF <<k, s>> \in kept THEN Content(k, s) ELSE Nothing]]
           begins == {n \in Needs(scope) \ kept : flight[n[1]][n[2]].st = "none"}
           new == [st |-> "reading", for |-> for, scope |-> scope, plan |-> <<>>,
                   asks |-> asked[r].asks + 1, got |-> got]
<1>1. /\ asked' = [asked EXCEPT ![r] = new]
      /\ newest' = Answered(got["map"])
      /\ Begin(begins)
      /\ world' = world /\ store' = store /\ coords' = coords /\ plans' = plans /\ turns' = turns
  BY DEF Ask
<1>2. ASSUME NEW k \in Kind, NEW s \in Scope, <<k, s>> \in kept
      PROVE  Fresh(k, s)
  BY <1>2
<1>3. begins \in SUBSET (Kind \X Scope) /\ \A n \in begins : flight[n[1]][n[2]].st = "none"
  BY DEF Needs, Scope
<1> HIDE DEF kept, begins
<1>4. got \in Readings
  <2>1. \A k \in Kind, s \in Scope : (IF <<k, s>> \in kept THEN Content(k, s) ELSE Nothing) \in Reading
    <3> SUFFICES ASSUME NEW k \in Kind, NEW s \in Scope
                 PROVE  (IF <<k, s>> \in kept THEN Content(k, s) ELSE Nothing) \in Reading
      OBVIOUS
    <3>1. Nothing \in Reading
      BY DEF Nothing, Reading
    <3>2. <<k, s>> \in kept => Content(k, s) \in Reading
      BY <1>0, <1>2, ContentIs
    <3> QED BY <3>1, <3>2
  <2> QED BY <2>1 DEF Readings
<1>5. newest' = newest
  <2>1. \A s \in Scope : got["map"][s] = IF <<"map", s>> \in kept THEN Content("map", s) ELSE Nothing
    BY DEF Kind
  <2>2. \A s \in Scope : <<"map", s>> \in kept => Content("map", s) = newest[s]
    <3> SUFFICES ASSUME NEW s \in Scope, <<"map", s>> \in kept PROVE Content("map", s) = newest[s]
      OBVIOUS
    <3>1. "map" \in Kind
      BY DEF Kind
    <3>2. Fresh("map", s)
      BY <1>2, <3>1
    <3>3. PICK i \in DOMAIN store["map"] : store["map"][i].scope = s /\ store["map"][i].read = Content("map", s)
      BY <1>0, <3>1, <3>2, ContentIs
    <3> QED BY <1>0, <3>3 DEF StoreNewest
  <2>3. newest \in [Scope -> Reading]
    BY <1>0 DEF CacheTypes
  <2> HIDE DEF got
  <2>4. \A s \in Scope : (IF got["map"][s] = Nothing THEN newest[s] ELSE got["map"][s]) = newest[s]
    BY <2>1, <2>2
  <2>5. Answered(got["map"]) = [s \in Scope |-> newest[s]]
    BY <2>4 DEF Answered
  <2> QED BY <1>1, <2>3, <2>5
<1>6. /\ flight' \in [Kind -> [Scope -> Flight]] /\ lookup' \in [Scope -> Nat \cup {Awaited}]
      /\ PlacesForward' /\ LoadsForward'
  BY <1>1, <1>3, <1>5, BeginKeeps
<1> HIDE DEF got
<1>7. new \in Request /\ new.st = "reading"
  <2>1. asked[r].asks + 1 \in Nat
    BY <1>0, RequestIs
  <2> QED BY <1>4, <2>1 DEF Request
<1> HIDE DEF new
<1>8. asked' \in [Asker -> Request] /\ \A q \in Asker : asked'[q] = asked[q] \/ asked'[q].st # "answered"
  BY <1>0, <1>1, <1>7 DEF CacheTypes
<1>9. CacheTypes'
  BY <1>0, <1>1, <1>5, <1>6, <1>8 DEF CacheTypes
<1>10. PlansMatch' /\ KeptPlans'
  BY <1>0, <1>1, <1>8, OthersStay DEF KeptPlans
<1>11. NewestBounded' /\ StoreNewest'
  BY <1>0, <1>1, <1>5 DEF NewestBounded, Outer, StoreNewest
<1> QED BY <1>5, <1>6, <1>9, <1>10, <1>11 DEF CachesInv

-----------------------------------------------------------------------------
(* Caches: an answer lands                                                 *)

Answer == [scope : Scope, read : Reading, fresh : BOOLEAN]

\* An answer is stored: every entry is the new one, or one that was there, of another scope.
LEMMA SetInIs ==
  ASSUME NEW list \in Seq(Answer), NEW e \in Answer
  PROVE  /\ SetIn(list, e) \in Seq(Answer)
         /\ \A i \in DOMAIN SetIn(list, e) :
              \/ SetIn(list, e)[i] = e
              \/ \E j \in DOMAIN list : SetIn(list, e)[i] = list[j] /\ list[j].scope # e.scope
<1> DEFINE kept == IF Len(list) >= MaxEntries THEN Tail(list) ELSE list
           over == [i \in DOMAIN kept |-> IF kept[i].scope = e.scope THEN e ELSE kept[i]]
<1>1. MaxEntries \in Nat \ {0} /\ DOMAIN list = 1 .. Len(list) /\ Len(list) \in Nat
  BY CachesAssumption, LenProperties
<1>2. kept \in Seq(Answer) /\ \A i \in DOMAIN kept : \E j \in DOMAIN list : kept[i] = list[j]
  <2>1. CASE Len(list) >= MaxEntries
    <3>1. list # <<>>
      BY <1>1, <2>1
    <3>2. /\ Tail(list) \in Seq(Answer) /\ Len(Tail(list)) = Len(list) - 1
          /\ \A i \in 1 .. Len(Tail(list)) : Tail(list)[i] = list[i + 1]
      BY <3>1, HeadTailProperties
    <3>3. DOMAIN Tail(list) = 1 .. Len(list) - 1
      BY <3>2, LenProperties
    <3>4. kept = Tail(list)
      BY <2>1
    <3>5. \A i \in 1 .. Len(list) - 1 : i + 1 \in DOMAIN list
      BY <1>1
    <3> HIDE DEF kept
    <3> QED BY <3>2, <3>3, <3>4, <3>5
  <2>2. CASE ~ (Len(list) >= MaxEntries)
    BY <2>2
  <2> QED BY <2>1, <2>2
<1>3. SetIn(list, e) = IF \E i \in DOMAIN kept : kept[i].scope = e.scope THEN over ELSE Append(kept, e)
  BY DEF SetIn
<1> HIDE DEF kept
<1>4. DOMAIN kept = 1 .. Len(kept) /\ Len(kept) \in Nat /\ \A i \in DOMAIN kept : kept[i] \in Answer
  BY <1>2, LenProperties, ElementOfSeq
<1>5. CASE \E i \in DOMAIN kept : kept[i].scope = e.scope
  <2>1. SetIn(list, e) = over
    BY <1>3, <1>5
  <2>2. over \in [1 .. Len(kept) -> Answer]
    BY <1>4
  <2>3. over \in Seq(Answer)
    BY <1>4, <2>2
  <2>4. \A i \in DOMAIN over : over[i] = e \/ \E j \in DOMAIN list : over[i] = list[j] /\ list[j].scope # e.scope
    BY <1>2
  <2> HIDE DEF over
  <2> QED BY <2>1, <2>3, <2>4
<1>6. CASE ~ \E i \in DOMAIN kept : kept[i].scope = e.scope
  <2> DEFINE more == Append(kept, e)
  <2>1. SetIn(list, e) = more
    BY <1>3, <1>6
  <2>2. more \in Seq(Answer) /\ Len(more) = Len(kept) + 1 /\ more[Len(kept) + 1] = e
        /\ \A i \in 1 .. Len(kept) : more[i] = kept[i]
    BY <1>2, AppendProperties
  <2> HIDE DEF more
  <2>3. DOMAIN more = 1 .. Len(kept) + 1
    BY <2>2, LenProperties
  <2>4. ASSUME NEW i \in DOMAIN more
        PROVE  more[i] = e \/ \E j \in DOMAIN list : more[i] = list[j] /\ list[j].scope # e.scope
    <3>1. CASE i = Len(kept) + 1
      BY <2>2, <3>1
    <3>2. CASE i # Len(kept) + 1
      <4>1. i \in 1 .. Len(kept)
        BY <1>4, <2>3, <3>2
      <4>2. more[i] = kept[i] /\ kept[i].scope # e.scope
        BY <1>4, <1>6, <2>2, <4>1
      <4> QED BY <1>2, <1>4, <4>1, <4>2
    <3> QED BY <3>1, <3>2
  <2> QED BY <2>1, <2>2, <2>4
<1> QED BY <1>5, <1>6

\* Whoever waits for an answer has it; nobody that is answered changes.
LEMMA HandedIs ==
  ASSUME CacheTypes, NEW k \in Kind, NEW s \in Scope, NEW v \in Reading,
         asked' = [r \in Asker |-> IF Waits(r, k, s) THEN [asked[r] EXCEPT !.got[k][s] = v] ELSE asked[r]]
  PROVE  /\ asked' \in [Asker -> Request]
         /\ \A r \in Asker : asked'[r] = asked[r] \/ asked'[r].st # "answered"
<1>1. ASSUME NEW r \in Asker, Waits(r, k, s)
      PROVE  /\ [asked[r] EXCEPT !.got[k][s] = v] \in Request
             /\ [asked[r] EXCEPT !.got[k][s] = v].st = "reading"
  <2>1. asked[r] \in [st : {"reading"}, for : {"add", "move"}, scope : Scope, plan : {<<>>}, asks : Nat, got : Readings]
    BY <1>1 DEF CacheTypes, Request, Waits
  <2> DEFINE got == [asked[r].got EXCEPT ![k][s] = v]
  <2>2. got \in Readings
    BY <2>1 DEF Readings
  <2>3. [asked[r] EXCEPT !.got[k][s] = v] = [asked[r] EXCEPT !.got = got]
    BY <2>1
  <2> HIDE DEF got
  <2>4. [asked[r] EXCEPT !.got = got] \in
          [st : {"reading"}, for : {"add", "move"}, scope : Scope, plan : {<<>>}, asks : Nat, got : Readings]
    BY <2>1, <2>2
  <2> QED BY <2>3, <2>4 DEF Request
<1>2. asked \in [Asker -> Request]
  BY DEF CacheTypes
<1> QED BY <1>1, <1>2

LEMMA LandKeeps ==
  ASSUME CachesInv, NEW k \in Kind, NEW s \in Scope, Land(k, s)
  PROVE  /\ CachesInv'
         /\ \A u \in Scope, part \in {"inner", "outer", "places"} : newest'[u][part] >= newest[u][part]
<1>0. CacheTypes /\ KeptPlans /\ PlansMatch /\ PlacesForward /\ NewestBounded /\ StoreNewest /\ LoadsForward
  BY DEF CachesInv
<1> DEFINE v == IF k = "map" THEN flight[k][s].read ELSE Tables(s, 0)
           e == [scope |-> s, read |-> v, fresh |-> TRUE]
           current(p) == \A kind \in Kind : \E x \in Stored(kind)' : x.scope = p.scope /\ x.read = p.of[kind]
<1>1. /\ flight[k][s].st = IF k = "map" THEN "read" ELSE "asked"
      /\ flight[k][s].from = "none"
      /\ store' = [store EXCEPT ![k] = SetIn(@, e)]
      /\ plans' = [p \in {p \in DOMAIN plans : current(p)} |-> plans[p]]
      /\ asked' = [r \in Asker |-> IF Waits(r, k, s) THEN [asked[r] EXCEPT !.got[k][s] = v] ELSE asked[r]]
      /\ newest' = IF k = "map" THEN [newest EXCEPT ![s] = v] ELSE newest
      /\ flight' = [flight EXCEPT ![k][s] = NoFlight]
      /\ world' = world /\ coords' = coords /\ lookup' = lookup /\ turns' = turns
  BY DEF Land
<1>2. /\ flight \in [Kind -> [Scope -> Flight]] /\ store \in [Kind -> Seq(Answer)]
      /\ newest \in [Scope -> Reading] /\ world \in [inner : Nat, outer : Nat, places : Nat \ {0}]
      /\ coords.v \in Nat
  BY <1>0 DEF CacheTypes, Answer
<1>3. DOMAIN plans' \subseteq DOMAIN plans /\ \A p \in DOMAIN plans' : plans'[p] = plans[p]
  <2> HIDE DEF current
  <2> QED BY <1>1
<1>4. v \in Reading
  <2>1. flight[k][s].read \in Reading
    BY <1>2 DEF Flight
  <2>2. Tables(s, 0) \in Reading
    BY <1>2 DEF Tables, Reading
  <2> QED BY <2>1, <2>2
<1>5. k = "map" => v = flight["map"][s].read
  OBVIOUS
<1> HIDE DEF v, current
<1>6. e \in Answer /\ e.scope = s /\ e.read = v
  BY <1>4 DEF Answer
<1> HIDE DEF e
<1>7. asked' \in [Asker -> Request] /\ \A r \in Asker : asked'[r] = asked[r] \/ asked'[r].st # "answered"
  BY <1>0, <1>1, <1>4, HandedIs
<1>8. store[k] \in Seq(Answer) /\ store'[k] = SetIn(store[k], e) /\ \A kind \in Kind \ {k} : store'[kind] = store[kind]
  BY <1>1, <1>2
<1>9. /\ store'[k] \in Seq(Answer)
      /\ \A i \in DOMAIN store'[k] :
           \/ store'[k][i] = e
           \/ \E j \in DOMAIN store[k] : store'[k][i] = store[k][j] /\ store[k][j].scope # s
  <2> DEFINE list == store[k]
             now == SetIn(list, e)
  <2>1. list \in Seq(Answer)
    BY <1>8
  <2> HIDE DEF list
  <2>2. /\ now \in Seq(Answer)
        /\ \A i \in DOMAIN now : \/ now[i] = e
                                 \/ \E j \in DOMAIN list : now[i] = list[j] /\ list[j].scope # s
    BY <1>6, <2>1, SetInIs
  <2>3. store'[k] = now /\ list = store[k]
    BY <1>8 DEF list
  <2> HIDE DEF now
  <2> QED BY <2>2, <2>3
<1>10. store' \in [Kind -> Seq(Answer)]
  BY <1>1, <1>2, <1>8, <1>9
<1>11. /\ flight' \in [Kind -> [Scope -> Flight]] /\ flight'[k][s] = NoFlight
       /\ \A kind \in Kind, u \in Scope : kind # k \/ u # s => flight'[kind][u] = flight[kind][u]
  <2>1. NoFlight \in Flight
    BY DEF NoFlight, Flight, Nothing, Reading
  <2> QED BY <1>1, <1>2, <2>1
<1>12. newest' \in [Scope -> Reading]
  BY <1>1, <1>2, <1>4
<1>13. CacheTypes'
  <2>1. DOMAIN plans' \subseteq Pairs /\ \A p \in DOMAIN plans' : plans'[p] \in Seq(Entry)
    BY <1>0, <1>3 DEF CacheTypes
  <2> QED BY <1>0, <1>1, <1>7, <1>10, <1>11, <1>12, <2>1 DEF CacheTypes, Answer
<1>14. PlansMatch' /\ KeptPlans'
  BY <1>0, <1>3, <1>7, OthersStay DEF KeptPlans
<1>15. PlacesForward'
  BY <1>0, <1>1 DEF PlacesForward
<1>16. CASE k = "map"
  <2>1. newest'[s] = v /\ \A u \in Scope \ {s} : newest'[u] = newest[u]
    BY <1>1, <1>2, <1>16
  <2>2. /\ newest[s].inner <= v.inner /\ v.inner <= world.inner
        /\ newest[s].outer <= v.outer /\ v.outer <= Outer(s)
        /\ newest[s].places <= v.places /\ v.places <= coords.v
    <3>1. LoadForward(s)
      BY <1>0 DEF LoadsForward
    <3>2. flight["map"][s].st = "read" /\ flight["map"][s].from = "none"
      BY <1>1, <1>16
    <3> QED BY <1>5, <1>16, <3>1, <3>2 DEF LoadForward
  <2>3. NewestBounded'
    <3> SUFFICES ASSUME NEW u \in Scope
                 PROVE  /\ newest'[u].inner <= world.inner /\ newest'[u].outer <= Outer(u)
                        /\ newest'[u].places <= coords.v
      BY <1>1 DEF NewestBounded, Outer
    <3>1. CASE u = s
      BY <2>1, <2>2, <3>1
    <3>2. CASE u # s
      BY <1>0, <2>1, <3>2 DEF NewestBounded
    <3> QED BY <3>1, <3>2
  <2>4. StoreNewest'
    <3> SUFFICES ASSUME NEW i \in DOMAIN store'["map"]
                 PROVE  store'["map"][i].read = newest'[store'["map"][i].scope]
      BY DEF StoreNewest
    <3>1. CASE store'["map"][i] = e
      BY <1>6, <2>1, <3>1
    <3>2. CASE \E j \in DOMAIN store["map"] : store'["map"][i] = store["map"][j] /\ store["map"][j].scope # s
      <4>1. PICK j \in DOMAIN store["map"] : store'["map"][i] = store["map"][j] /\ store["map"][j].scope # s
        BY <3>2
      <4>2. store["map"][j] \in Answer
        BY <1>8, <1>16, LenProperties, ElementOfSeq
      <4>3. store["map"][j].scope \in Scope \ {s}
        BY <4>1, <4>2 DEF Answer
      <4> QED BY <1>0, <2>1, <4>1, <4>3 DEF StoreNewest
    <3> QED BY <1>9, <1>16, <3>1, <3>2
  <2>5. LoadsForward'
    <3> SUFFICES ASSUME NEW u \in Scope PROVE LoadForward(u)'
      BY DEF LoadsForward
    <3>1. CASE u = s
      <4>1. flight'["map"][u] = NoFlight
        BY <1>11, <1>16, <3>1
      <4> QED BY <4>1 DEF LoadForward, NoFlight
    <3>2. CASE u # s
      <4>1. flight'["map"][u] = flight["map"][u] /\ newest'[u] = newest[u]
        BY <1>11, <1>16, <2>1, <3>2
      <4>2. LoadForward(u)
        BY <1>0 DEF LoadsForward
      <4> QED BY <1>1, <4>1, <4>2 DEF LoadForward, Outer
    <3> QED BY <3>1, <3>2
  <2>6. ASSUME NEW u \in Scope, NEW part \in {"inner", "outer", "places"}
        PROVE  newest'[u][part] >= newest[u][part]
    <3>1. newest[u] \in Reading /\ newest'[u] \in Reading
      BY <1>2, <1>12
    <3>2. /\ newest[u].inner \in Int /\ newest[u].outer \in Int /\ newest[u].places \in Int
          /\ newest'[u].inner \in Int /\ newest'[u].outer \in Int /\ newest'[u].places \in Int
      BY <3>1 DEF Reading
    <3>3. CASE u = s
      BY <2>1, <2>2, <3>2, <3>3
    <3>4. CASE u # s
      BY <2>1, <3>2, <3>4
    <3> QED BY <3>3, <3>4
  <2> QED BY <1>13, <1>14, <1>15, <2>3, <2>4, <2>5, <2>6 DEF CachesInv
<1>17. CASE k # "map"
  <2>1. newest' = newest /\ store'["map"] = store["map"] /\ \A u \in Scope : flight'["map"][u] = flight["map"][u]
    BY <1>1, <1>8, <1>11, <1>17 DEF Kind
  <2>2. NewestBounded' /\ StoreNewest'
    BY <1>0, <1>1, <2>1 DEF NewestBounded, Outer, StoreNewest
  <2>3. LoadsForward'
    <3> SUFFICES ASSUME NEW u \in Scope PROVE LoadForward(u)'
      BY DEF LoadsForward
    <3>1. LoadForward(u)
      BY <1>0 DEF LoadsForward
    <3> QED BY <1>1, <2>1, <3>1 DEF LoadForward, Outer
  <2>4. \A u \in Scope, part \in {"inner", "outer", "places"} : newest'[u][part] >= newest[u][part]
    BY <1>2, <2>1 DEF Reading
  <2> QED BY <1>13, <1>14, <1>15, <2>2, <2>3, <2>4 DEF CachesInv
<1> QED BY <1>16, <1>17

-----------------------------------------------------------------------------

\* What is answered is as new as before, or newer: only a map that lands changes it.
Onward == \A s \in Scope, part \in {"inner", "outer", "places"} : newest'[s][part] >= newest[s][part]

LEMMA SameOnward ==
  ASSUME CacheTypes, newest' = newest
  PROVE  Onward
<1>1. \A s \in Scope : newest[s].inner \in Int /\ newest[s].outer \in Int /\ newest[s].places \in Int
  BY DEF CacheTypes, Reading
<1> QED BY <1>1 DEF Onward

LEMMA CachesStep ==
  ASSUME CachesInv, [CachesNext]_cacheVars
  PROVE  CachesInv' /\ Onward
<1>0. CacheTypes
  BY DEF CachesInv
<1>1. ASSUME NEW r \in Asker, NEW for \in {"add", "move"}, NEW s \in Scope, Ask(r, for, s)
      PROVE  CachesInv' /\ Onward
  BY <1>0, <1>1, AskKeeps, SameOnward
<1>2. ASSUME NEW r \in Asker, Compute(r)
      PROVE  CachesInv' /\ Onward
  <2>1. newest' = newest
    BY <1>2 DEF Compute
  <2> QED BY <1>0, <1>2, <2>1, ComputeKeeps, SameOnward
<1>3. ASSUME NEW r \in Asker, Leave(r)
      PROVE  CachesInv' /\ Onward
  <2>1. newest' = newest
    BY <1>3 DEF Leave
  <2> QED BY <1>0, <1>3, <2>1, LeaveKeeps, SameOnward
<1>4. ASSUME NEW k \in Kind, NEW s \in Scope, Land(k, s)
      PROVE  CachesInv' /\ Onward
  BY <1>4, LandKeeps DEF Onward
<1>5. ASSUME NEW k \in Kind, NEW s \in Scope, Break(k, s)
      PROVE  CachesInv' /\ Onward
  <2>1. newest' = newest
    BY <1>5 DEF Break
  <2> QED BY <1>0, <1>5, <2>1, BreakKeeps, SameOnward
<1>6. ASSUME NEW k \in Kind, NEW s \in Scope, RunOut(k, s)
      PROVE  CachesInv' /\ Onward
  <2>1. newest' = newest
    BY <1>6 DEF RunOut
  <2> QED BY <1>0, <1>6, <2>1, RunOutKeeps, SameOnward
<1>7. ASSUME NEW s \in Scope, Read(s)
      PROVE  CachesInv' /\ Onward
  <2>1. newest' = newest
    BY <1>7 DEF Read
  <2> QED BY <1>0, <1>7, <2>1, ReadKeeps, SameOnward
<1>8. ASSUME NEW t \in Scope, PlacesRead(t)
      PROVE  CachesInv' /\ Onward
  <2>1. newest' = newest
    BY <1>8 DEF PlacesRead
  <2> QED BY <1>0, <1>8, <2>1, PlacesReadKeeps, SameOnward
<1>9. ASSUME NEW t \in Scope, PlacesArrive(t)
      PROVE  CachesInv' /\ Onward
  <2>1. newest' = newest
    BY <1>9 DEF PlacesArrive, Ended
  <2> QED BY <1>0, <1>9, <2>1, PlacesArriveKeeps, SameOnward
<1>10. ASSUME NEW t \in Scope, PlacesFail(t)
       PROVE  CachesInv' /\ Onward
  <2>1. newest' = newest
    BY <1>10 DEF PlacesFail, Ended
  <2> QED BY <1>0, <1>10, <2>1, PlacesFailKeeps, SameOnward
<1>11. ASSUME PlacesRunOut \/ RetryAgain
       PROVE  CachesInv' /\ Onward
  <2>1. newest' = newest
    BY <1>11 DEF PlacesRunOut, RetryAgain
  <2> QED BY <1>0, <1>11, <2>1, PlacesOldKeeps, SameOnward
<1>12. ASSUME NEW part \in {"inner", "outer", "places"}, Change(part)
       PROVE  CachesInv' /\ Onward
  <2>1. newest' = newest
    BY <1>12 DEF Change
  <2> QED BY <1>0, <1>12, <2>1, ChangeKeeps, SameOnward
<1>13. ASSUME UNCHANGED cacheVars
       PROVE  CachesInv' /\ Onward
  <2>1. /\ world' = world /\ coords' = coords /\ store' = store /\ flight' = flight /\ lookup' = lookup
        /\ asked' = asked /\ newest' = newest /\ turns' = turns /\ plans' = plans
    BY <1>13 DEF cacheVars
  <2>2. KeptPlans /\ PlansMatch /\ PlacesForward /\ NewestBounded /\ StoreNewest /\ LoadsForward
    BY DEF CachesInv
  <2>3. CacheTypes' /\ KeptPlans'
    BY <1>0, <2>1, <2>2 DEF CacheTypes, KeptPlans
  <2>4. PlansMatch'
    BY <2>1, <2>2, OthersStay
  <2>5. PlacesForward' /\ NewestBounded' /\ StoreNewest' /\ LoadsForward'
    BY <2>1, <2>2, SameStore, SameForward
  <2> QED BY <1>0, <2>1, <2>3, <2>4, <2>5, SameOnward DEF CachesInv
<1> QED BY <1>1, <1>2, <1>3, <1>4, <1>5, <1>6, <1>7, <1>8, <1>9, <1>10, <1>11, <1>12, <1>13 DEF CachesNext

LEMMA CachesInvariance == CachesSpec => []CachesInv
<1>1. CachesInit => CachesInv
  BY CachesInitially
<1>2. CachesInv /\ [CachesNext]_cacheVars => CachesInv'
  BY CachesStep
<1> QED BY <1>1, <1>2, PTL DEF CachesSpec

\* (routes/gis.ts:317-362, 412-424) A plan that is answered, kept or worked out, is the one for
\* what the request read, and for what the whole network said of its gateways then.
THEOREM PlansForWhatWasRead == CachesSpec => []PlansMatch
<1>1. CachesInv => PlansMatch
  BY DEF CachesInv
<1> QED BY <1>1, CachesInvariance, PTL

\* (networkService.ts:45-58, 101-123) What is answered for a set of sites never goes back, though
\* loads share the positions, fall back on older ones and end in any order.
THEOREM AnswersNeverGoBack == CachesSpec => AnswersForward
<1>1. CachesInv /\ [CachesNext]_cacheVars => [Onward]_cacheVars
  BY CachesStep
<1>2. CachesSpec => [][Onward]_cacheVars
  BY <1>1, CachesInvariance, PTL DEF CachesSpec
<1> QED BY <1>2 DEF AnswersForward, Onward

-----------------------------------------------------------------------------
(* The planners and the caches together                                    *)

PlanningInv == PlaceInv /\ Ranked /\ RelocInv /\ CachesInv

LEMMA PlanningInitially == Init => PlanningInv
<1> SUFFICES ASSUME Init PROVE PlanningInv
  OBVIOUS
<1>1. /\ PlaceStart("round") \/ PlaceStart("idle")
      /\ RelocStart("move") \/ RelocStart("idle")
      /\ CachesInit
  BY DEF Init, PlaceInit, RelocInit, PlanIdle, RelocIdle
<1>2. PlaceInv /\ Ranked
  BY <1>1, PlaceInitially, RankedInitially
<1>3. RelocInv /\ CachesInv
  BY <1>1, RelocInitially, CachesInitially
<1> QED BY <1>2, <1>3 DEF PlanningInv

\* A step of the whole is one of each part, or leaves it alone.
LEMMA PlanningParts ==
  ASSUME [Next]_<<placeVars, relocVars, cacheVars>>
  PROVE  [PlaceNext]_placeVars /\ [RelocNext]_relocVars /\ [CachesNext]_cacheVars
BY DEF Next

LEMMA PlanningStep ==
  ASSUME PlanningInv, [Next]_<<placeVars, relocVars, cacheVars>>
  PROVE  PlanningInv'
<1>1. [PlaceNext]_placeVars /\ [RelocNext]_relocVars /\ [CachesNext]_cacheVars
  BY PlanningParts
<1>2. PlaceInv' /\ Ranked'
  BY <1>1, PlaceStepKeeps DEF PlanningInv
<1>3. RelocInv'
  BY <1>1, RelocStep DEF PlanningInv
<1>4. CachesInv'
  BY <1>1, CachesStep DEF PlanningInv
<1> QED BY <1>2, <1>3, <1>4 DEF PlanningInv

LEMMA PlanningInvariance == Spec => []PlanningInv
BY PlanningInitially, PlanningStep, PTL DEF Spec

\* (gatewayPlacement.ts:229-263, 298-301, gatewayRelocation.ts:321-346) Together, too, what
\* the planners do instead of trying everything finds what that would find: the heap looked
\* at only at its top, the walk that stops early, the search around a lifted gateway.
THEOREM ShortcutsAreExact == Spec => ShortcutsExact
<1>1. Spec => PickIsBest
  <2>1. PlanningInv /\ [Next]_<<placeVars, relocVars, cacheVars>> =>
          [Pick => LET picked == Top.cand
                   IN \A j \in Candidate : \/ FreeGain(cov, j) < FreeGain(cov, picked)
                                           \/ FreeGain(cov, j) = FreeGain(cov, picked) /\ picked <= j]_placeVars
    BY PlanningParts, PicksBest DEF PlanningInv
  <2> QED BY <2>1, PlanningInvariance, PTL DEF Spec, PickIsBest
<1>2. Spec => SearchExact
  <2>1. PlanningInv /\ [Next]_<<placeVars, relocVars, cacheVars>> =>
          [Improve /\ loop.t >= 1 =>
             LET lifted == Lifted(cov, chosen[loop.t])
             IN  \A j \in Candidate : FreeGain(lifted, j) <= FreeGain(lifted, chosen'[loop.t])]_placeVars
    BY PlanningParts, SearchedBest DEF PlanningInv
  <2> QED BY <2>1, PlanningInvariance, PTL DEF Spec, SearchExact
<1>3. Spec => MoveIsBest
  <2>1. PlanningInv /\ [Next]_<<placeVars, relocVars, cacheVars>> => [\A g \in Gateway : BestFor(g)]_relocVars
    BY PlanningParts, MovedBest DEF PlanningInv
  <2> QED BY <2>1, PlanningInvariance, PTL DEF Spec, MoveIsBest, BestFor
<1> QED BY <1>1, <1>2, <1>3 DEF ShortcutsExact

\* (routes/gis.ts:317-362, 412-424) Whatever runs, the coverage each planner keeps is that of
\* its layout, its report adds up, removals stay cheap, and a plan that is answered is the one
\* for what was read.
THEOREM PlanningIsSound ==
  Spec => [](CountsMatch /\ CurveTrue /\ BooksBalance /\ RemovalsCheap /\ PlansMatch)
<1>1. PlanningInv => CountsMatch /\ CurveTrue /\ BooksBalance /\ RemovalsCheap /\ PlansMatch
  BY CountedIs, BalanceTold DEF PlanningInv, Ranked, RelocInv, CachesInv
<1> QED BY <1>1, PlanningInvariance, PTL

\* (networkService.ts:45-58, 101-123) Nor do the answers go back while planners run.
THEOREM AnswersForwardTogether == Spec => AnswersForward
<1>1. PlanningInv /\ [Next]_<<placeVars, relocVars, cacheVars>> => [Onward]_cacheVars
  BY PlanningParts, CachesStep DEF PlanningInv
<1>2. Spec => [][Onward]_cacheVars
  BY <1>1, PlanningInvariance, PTL DEF Spec
<1> QED BY <1>2 DEF AnswersForward, Onward
=============================================================================
