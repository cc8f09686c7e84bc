---------------------------- MODULE CoverageSpace ----------------------------
(***************************************************************************)
(* The geometry both gateway planners work on: which meters a gateway at a *)
(* spot reaches, and how a layout's coverage is counted while gateways are *)
(* put down and lifted again (coverageSpace.ts).                           *)
(*                                                                         *)
(* A block of flats, one weighted point in the code, is several meters at  *)
(* one position, so a weight is the size of a set.  Positions are whole    *)
(* numbers of some small unit.  Spots are numbered as in the code: the     *)
(* candidates first, then the free positions a search adds.                *)
(***************************************************************************)
EXTENDS Integers, FiniteSets, Sequences

CONSTANTS
  Meter,
  MeterAt,  \* the position of a meter
  C,        \* how many candidates there are
  Spot,     \* candidates 1 .. C and the free positions
  SpotAt,
  R,        \* the radius
  Snap      \* where rounding to six decimals may put a spot

ASSUME SpaceAssumption ==
  /\ IsFiniteSet(Meter)
  /\ MeterAt \in [Meter -> Int \X Int]
  /\ C \in Nat
  /\ Spot \subseteq Nat \ {0}
  /\ 1 .. C \subseteq Spot
  /\ SpotAt \in [Spot -> Int \X Int]
  /\ R \in Nat \ {0}
  /\ Snap \in [Spot -> SUBSET Spot]

Candidate == 1 .. C
N == Cardinality(Meter)

Dist2(p, q) == (p[1] - q[1]) * (p[1] - q[1]) + (p[2] - q[2]) * (p[2] - q[2])

\* The cell of the grid a position is in.
Cell(p) == <<p[1] \div R, p[2] \div R>>

\* Mutant: the cells on one side are not looked at.
ThinBlock(p) == {<<Cell(p)[1] + dx, Cell(p)[2] + dy>> : dx \in -1 .. 0, dy \in -1 .. 1}

\* The cells that are looked at for "everything within R".
Block(p) == {<<Cell(p)[1] + dx, Cell(p)[2] + dy>> : dx \in -1 .. 1, dy \in -1 .. 1}

InRange(p) == {m \in Meter : Cell(MeterAt[m]) \in Block(p) /\ Dist2(MeterAt[m], p) <= R * R}

\* The meters in reach of a spot, remembered once worked out.
Reach == [s \in Spot |-> InRange(SpotAt[s])]

\* A gateway is put at a spot, or lifted from it.
Placed(cov, s) == [m \in Meter |-> IF m \in Reach[s] THEN cov[m] + 1 ELSE cov[m]]
Lifted(cov, s) == [m \in Meter |-> IF m \in Reach[s] THEN cov[m] - 1 ELSE cov[m]]

\* How many gateways of a list reach a meter.
CountOf(list, m) == Cardinality({t \in DOMAIN list : m \in Reach[list[t]]})

\* A list of gateways is lifted and another one put down.
Exchanged(cov, from, to) == [m \in Meter |-> cov[m] - CountOf(from, m) + CountOf(to, m)]

Covered(cov) == Cardinality({m \in Meter : cov[m] # 0})

\* What a gateway at a spot would newly reach.
FreeGain(cov, s) == Cardinality({m \in Reach[s] : cov[m] = 0})

\* What only the gateway at a spot reaches.
OnlyReach(cov, s) == Cardinality({m \in Reach[s] : cov[m] = 1})

\* Where sliding and centring may take a gateway whose spot reaches "gain":
\* never to a spot that newly reaches fewer.
Polished(cov, gain) == {p \in Spot : FreeGain(cov, p) >= gain}

\* Every meter is in reach of the candidate of its own cell of the fine grid,
\* which is the middle of the meters of a cell a quarter of the radius wide.
CandidateForEach == \A m \in Meter : \E j \in Candidate : m \in Reach[j]
=============================================================================
