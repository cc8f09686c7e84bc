-------------------------- MODULE GatewayPlacement ---------------------------
(***************************************************************************)
(* Where to put new gateways (planGateways): rounds of a lazy greedy, a    *)
(* local search over single gateways, moves of two gateways together and   *)
(* pruning, then the report with its ranking and its coverage curve.  One  *)
(* count per meter, of the gateways that reach it, goes through all of it. *)
(*                                                                         *)
(* Sliding and centring are taken by what they promise: the gateway ends   *)
(* at some spot that newly reaches at least as many meters.  Distances,    *)
(* percentages and who serves a meter are left out.                        *)
(***************************************************************************)
EXTENDS CoverageSpace

CONSTANTS
  Asks,        \* the inputs: [k, min, target, existing], the last a list of spots
  MaxPasses,   \* MAX_REFINE_PASSES
  MaxRounds,   \* MAX_ROUNDS
  MaxTries,    \* PAIR_MOVE_TRIES
  CurveLimit

ASSUME PlacementAssumption ==
  /\ CandidateForEach
  /\ Asks \subseteq [k : Nat, min : Nat \ {0}, target : Nat, existing : Seq(Spot)]
  /\ {MaxPasses, MaxRounds, MaxTries, CurveLimit} \subseteq Nat

VARIABLES
  ask,
  phase,
  chosen,   \* the gateways that are in place, as a list of spots
  cov,      \* how many gateways reach a meter
  heap,     \* the candidates by what they were worth when they were pushed
  stamp,    \* how often greedy has picked since it began
  round,    \* the rounds that have ended, and gateways and coverage before this one
  loop,     \* refine: where it is in which pass, and what it was called for
  pair,     \* pairMoves: the attempt, and what is put back if it fails
  picks,    \* what greedy adds beyond the plan, for the curve
  report    \* what the answer says

placeVars == <<ask, phase, chosen, cov, heap, stamp, round, loop, pair, picks, report>>

Base == [m \in Meter |-> CountOf(ask.existing, m)]

\* initialGain: no candidate is ever worth more than with the existing alone.
InitialGain(j) == FreeGain(Base, j)

Before(i, j) ==
  \/ InitialGain(i) > InitialGain(j)
  \/ InitialGain(i) = InitialGain(j) /\ i < j

NoLoop == [t |-> 0, from |-> 0, pass |-> 0, improved |-> FALSE, for |-> "round"]
NoPair == [attempt |-> 0, tries |-> 0, before |-> 0, saved |-> <<>>, put |-> 0, improved |-> FALSE]

\* A planner is started, or not asked at all.
PlaceStart(first) ==
  /\ ask \in Asks
  /\ phase = first
  /\ chosen = <<>>
  /\ cov = Base
  /\ heap = {}
  /\ stamp = 0
  /\ round = [done |-> 0, len |-> 0, covered |-> 0]
  /\ loop = NoLoop
  /\ pair = NoPair
  /\ picks = <<>>
  /\ report = [next |-> 0, stop |-> "none", added |-> <<>>, curve |-> <<>>]

PlaceInit == PlaceStart("round")

-----------------------------------------------------------------------------
(* Greedy                                                                  *)

Pushed(cv) == {[gain |-> FreeGain(cv, j), cand |-> j, stamp |-> 0] :
                 j \in {j \in Candidate : FreeGain(cv, j) > 0}}

Above(a, b) == a.gain > b.gain \/ (a.gain = b.gain /\ a.cand < b.cand)
Top == CHOOSE e \in heap : \A f \in heap \ {e} : Above(e, f)

\* What greedy is called for: the plan, or the curve beyond it.
Goal ==
  IF phase = "greedy"
    THEN [list |-> chosen, limit |-> ask.k, min |-> ask.min, stopAt |-> ask.target]
    ELSE [list |-> picks, limit |-> CurveLimit - Len(chosen), min |-> 1, stopAt |-> N]

Enough == Covered(cov) >= N \/ Covered(cov) >= Goal.stopAt
Worth(e) == e.gain >= Goal.min /\ Len(Goal.list) < Goal.limit

StartRound ==
  /\ phase = "round"
  /\ round.done < MaxRounds
  /\ phase' = "greedy"
  /\ round' = [done |-> round.done + 1, len |-> Len(chosen), covered |-> Covered(cov)]
  /\ heap' = Pushed(cov)
  /\ stamp' = 0
  /\ UNCHANGED <<ask, chosen, cov, loop, pair, picks, report>>

\* An entry that was worked out before the last pick is worked out again.
Refresh ==
  /\ phase \in {"greedy", "curve"}
  /\ ~Enough
  /\ heap # {}
  /\ Top.stamp # stamp
  /\ LET g == FreeGain(cov, Top.cand)
     IN  heap' = (heap \ {Top}) \cup
                   (IF g > 0 THEN {[gain |-> g, cand |-> Top.cand, stamp |-> stamp]} ELSE {})
  /\ UNCHANGED <<ask, phase, chosen, cov, stamp, round, loop, pair, picks, report>>

\* Mutant: the gain an entry was pushed with is good enough.
Trusted(e) == e.stamp <= stamp
Current(e) == e.stamp = stamp

Pick ==
  /\ phase \in {"greedy", "curve"}
  /\ ~Enough
  /\ heap # {}
  /\ Current(Top)
  /\ Worth(Top)
  /\ IF phase = "greedy"
       THEN chosen' = Append(chosen, Top.cand) /\ picks' = picks
       ELSE picks' = Append(picks, Top.cand) /\ chosen' = chosen
  /\ cov' = Placed(cov, Top.cand)
  /\ heap' = heap \ {Top}
  /\ stamp' = stamp + 1
  /\ UNCHANGED <<ask, phase, round, loop, pair, report>>

GreedyOver == ~Enough /\ heap # {} => Current(Top) /\ ~Worth(Top)

RefineFrom(from, for) ==
  /\ phase' = "refine"
  /\ loop' = [t |-> from, from |-> from, pass |-> 1, improved |-> FALSE, for |-> for]

EndGreedy ==
  /\ phase = "greedy"
  /\ GreedyOver
  /\ RefineFrom(1, "round")
  /\ heap' = {}
  /\ UNCHANGED <<ask, chosen, cov, stamp, round, pair, picks, report>>

-----------------------------------------------------------------------------
(* The local search                                                        *)

Near(s) == {j \in Candidate : 4 * Dist2(SpotAt[j], SpotAt[s]) <= 9 * R * R}

\* The candidates the walk from the strongest tries: it stops at the first that
\* could not beat the best so far.
Scanned(cv, best) ==
  {j \in Candidate : /\ InitialGain(j) > best
                     /\ \A i \in Candidate : Before(i, j) => InitialGain(j) > FreeGain(cv, i)}

\* The first of the strongest.
First(cv, S) ==
  CHOOSE j \in S : \A i \in S : \/ FreeGain(cv, i) < FreeGain(cv, j)
                                \/ FreeGain(cv, i) = FreeGain(cv, j) /\ ~Before(i, j)

\* The spots refine may find for a gateway that is lifted: "at" is where it stood
\* (none for a gateway that is not there), "near" the candidates tried first.
Bests(cv, at, near) ==
  LET own    == {FreeGain(cv, s) : s \in at} \cup {0}
      start  == CHOOSE g \in own : \A h \in own : h <= g
      better == {j \in near : FreeGain(cv, j) > start}
      firsts == {j \in better : \A i \in better : FreeGain(cv, i) <= FreeGain(cv, j)}
      floor  == IF firsts = {} THEN start ELSE FreeGain(cv, CHOOSE j \in firsts : TRUE)
      beats  == {j \in Scanned(cv, floor) : FreeGain(cv, j) > floor}
  IN  IF beats # {} THEN {First(cv, beats)}
      ELSE IF firsts # {} THEN firsts ELSE at

\* One gateway is lifted, moved to the best candidate, slid and centred.  For an
\* index before the first (pairMoves may start there) nothing is lifted, and
\* what is put down is in no list.
Improve ==
  /\ phase = "refine"
  /\ loop.t <= Len(chosen)
  /\ LET at     == IF loop.t < 1 THEN {} ELSE {chosen[loop.t]}
         lifted == IF loop.t < 1 THEN cov ELSE Lifted(cov, chosen[loop.t])
         near   == UNION {Near(s) : s \in at}
         bests  == Bests(lifted, at, near)
         start  == IF at = {} THEN 0 ELSE FreeGain(lifted, chosen[loop.t])
     IN  IF bests = {}
           THEN /\ loop' = [loop EXCEPT !.t = @ + 1]
                /\ UNCHANGED <<chosen, cov>>
           ELSE \E best \in bests : \E p \in Polished(lifted, FreeGain(lifted, best)) :
                \E gain \in FreeGain(lifted, best) .. FreeGain(lifted, p) :
                  /\ loop' = [loop EXCEPT !.t = @ + 1, !.improved = @ \/ gain > start]
                  /\ chosen' = IF at = {} THEN chosen ELSE [chosen EXCEPT ![loop.t] = p]
                  /\ cov' = Placed(lifted, p)
  /\ UNCHANGED <<ask, phase, heap, stamp, round, pair, picks, report>>

NextPass ==
  /\ phase = "refine"
  /\ loop.t > Len(chosen)
  /\ loop.improved
  /\ loop.pass < MaxPasses
  /\ loop' = [loop EXCEPT !.t = loop.from, !.pass = @ + 1, !.improved = FALSE]
  /\ UNCHANGED <<ask, phase, chosen, cov, heap, stamp, round, pair, picks, report>>

Least(a, b) == IF a < b THEN a ELSE b

EndRefine ==
  /\ phase = "refine"
  /\ loop.t > Len(chosen)
  /\ ~loop.improved \/ loop.pass >= MaxPasses
  /\ phase' = CASE loop.for = "round" -> "pairs" [] loop.for = "try" -> "judge" [] OTHER -> "prune"
  /\ pair' = IF loop.for = "round" THEN [NoPair EXCEPT !.tries = Least(Len(chosen), MaxTries)] ELSE pair
  /\ loop' = NoLoop
  /\ UNCHANGED <<ask, chosen, cov, heap, stamp, round, picks, report>>

-----------------------------------------------------------------------------
(* Moves of two gateways                                                   *)

Indexes == 1 .. Len(chosen)

Weaker(a, b) ==
  \/ OnlyReach(cov, chosen[a]) < OnlyReach(cov, chosen[b])
  \/ OnlyReach(cov, chosen[a]) = OnlyReach(cov, chosen[b]) /\ chosen[a] < chosen[b]
  \/ chosen[a] = chosen[b] /\ a < b

\* The attempt-th weakest gateway and the one nearest to it; fewer gateways than
\* attempts leave nothing to take out.
PairOut ==
  LET order(t) == Cardinality({u \in Indexes : Weaker(u, t)})
      far(a, b) == Dist2(SpotAt[chosen[a]], SpotAt[chosen[b]])
      nearest(a, b) == \A c \in Indexes \ {a} :
                          far(a, b) < far(a, c) \/ (far(a, b) = far(a, c) /\ b <= c)
  IN  UNION {{a, CHOOSE b \in Indexes \ {a} : nearest(a, b)} :
               a \in {t \in Indexes : order(t) = pair.attempt}}

\* The list without the gateways at some indexes.
Without(list, out) ==
  LET keep == DOMAIN list \ out
      nth(k) == CHOOSE i \in keep : Cardinality({j \in keep : j <= i}) = k
  IN  [k \in 1 .. Cardinality(keep) |-> list[nth(k)]]

TakePair ==
  /\ phase = "pairs"
  /\ pair.attempt < pair.tries
  /\ Len(chosen) >= 2
  /\ phase' = "put"
  /\ pair' = [pair EXCEPT !.saved = chosen, !.before = Covered(cov), !.put = 0]
  /\ chosen' = Without(chosen, PairOut)
  /\ cov' = Exchanged(cov, chosen, chosen')
  /\ UNCHANGED <<ask, heap, stamp, round, loop, picks, report>>

PutBest ==
  /\ phase = "put"
  /\ LET tried == {j \in Scanned(cov, 0) : FreeGain(cov, j) > 0}
     IN  IF pair.put < 2 /\ tried # {}
           THEN /\ chosen' = Append(chosen, First(cov, tried))
                /\ cov' = Placed(cov, First(cov, tried))
                /\ pair' = [pair EXCEPT !.put = @ + 1]
                /\ UNCHANGED <<phase, loop>>
           ELSE /\ RefineFrom(Len(chosen) - 1, "try")
                /\ UNCHANGED <<chosen, cov, pair>>
  /\ UNCHANGED <<ask, heap, stamp, round, picks, report>>

Better == Covered(cov) > pair.before

Judge ==
  /\ phase = "judge"
  /\ phase' = "pairs"
  /\ pair' = [pair EXCEPT !.attempt = @ + 1, !.improved = @ \/ Better]
  /\ chosen' = IF Better THEN chosen ELSE pair.saved
  /\ cov' = Exchanged(cov, chosen, chosen')
  /\ UNCHANGED <<ask, heap, stamp, round, loop, picks, report>>

EndPairs ==
  /\ phase = "pairs"
  /\ pair.attempt >= pair.tries \/ Len(chosen) < 2
  /\ IF pair.improved
       THEN RefineFrom(1, "pairs")
       ELSE phase' = "prune" /\ loop' = loop
  /\ pair' = NoPair
  /\ UNCHANGED <<ask, chosen, cov, heap, stamp, round, picks, report>>

-----------------------------------------------------------------------------
(* Pruning and the end of a round                                          *)

Weakest == CHOOSE t \in Indexes : \A u \in Indexes \ {t} : Weaker(t, u)

Droppable == chosen # <<>> /\ OnlyReach(cov, chosen[Weakest]) < ask.min

Drop ==
  /\ phase = "prune"
  /\ Droppable
  /\ chosen' = Without(chosen, {Weakest})
  /\ cov' = Lifted(cov, chosen[Weakest])
  /\ UNCHANGED <<ask, phase, heap, stamp, round, loop, pair, picks, report>>

Settled == Len(chosen) = round.len /\ Covered(cov) = round.covered

EndRound ==
  /\ phase = "prune"
  /\ ~Droppable
  /\ phase' = IF Settled \/ round.done = MaxRounds THEN "stop" ELSE "round"
  /\ UNCHANGED <<ask, chosen, cov, heap, stamp, round, loop, pair, picks, report>>

-----------------------------------------------------------------------------
(* The report                                                              *)

\* peekGain; 0 stands for null.
NextGain ==
  LET gains == {0} \cup {FreeGain(cov, j) : j \in Candidate}
  IN  CHOOSE g \in gains : \A h \in gains : h <= g

StopReason ==
  CASE Covered(Base) >= N -> "already-covered"
    [] Covered(cov) >= N -> "all-covered"
    [] Covered(cov) >= ask.target -> "target-reached"
    [] NextGain >= ask.min /\ Len(chosen) >= ask.k -> "max-gateways"
    [] OTHER -> "low-gain"

Stop ==
  /\ phase = "stop"
  /\ phase' = "snap"
  /\ report' = [report EXCEPT !.next = NextGain, !.stop = StopReason]
  /\ UNCHANGED <<ask, chosen, cov, heap, stamp, round, loop, pair, picks>>

\* Every gateway is put on exactly the coordinates it is reported with.
Snapped ==
  /\ phase = "snap"
  /\ phase' = "rank"
  /\ chosen' \in {c \in [Indexes -> UNION {Snap[chosen[t]] : t \in Indexes}] :
                    \A t \in Indexes : c[t] \in Snap[chosen[t]]}
  /\ cov' = Exchanged(cov, chosen, chosen')
  /\ UNCHANGED <<ask, heap, stamp, round, loop, pair, picks, report>>

\* The gateways from place k on, as they are not ranked yet, and what the next
\* one would add to the existing ones and those ranked before it.
Taken(k) == {m \in Meter : Base[m] > 0 \/ \E t \in 1 .. k - 1 : m \in Reach[chosen[t]]}
\* Mutant: those ranked before it are not taken into account.
AddsAll(k, t) == Cardinality({m \in Reach[chosen[t]] : Base[m] = 0})
Adds(k, t) == Cardinality(Reach[chosen[t]] \ Taken(k))

Rank ==
  /\ phase = "rank"
  /\ Len(report.added) < Len(chosen)
  /\ LET k    == Len(report.added) + 1
         left == k .. Len(chosen)
         best == CHOOSE t \in left : \A u \in left \ {t} :
                   \/ Adds(k, t) > Adds(k, u)
                   \/ Adds(k, t) = Adds(k, u) /\ chosen[t] < chosen[u]
                   \/ Adds(k, t) = Adds(k, u) /\ chosen[t] = chosen[u] /\ t < u
     IN  /\ report' = [report EXCEPT !.added = Append(@, Adds(k, best))]
         /\ chosen' = SubSeq(chosen, 1, k - 1) \o <<chosen[best]>>
                        \o Without(SubSeq(chosen, k, Len(chosen)), {best - k + 1})
  /\ UNCHANGED <<ask, phase, cov, heap, stamp, round, loop, pair, picks>>

StartCurve ==
  /\ phase = "rank"
  /\ Len(report.added) = Len(chosen)
  /\ phase' = "curve"
  /\ heap' = IF Covered(cov) < N /\ Len(chosen) < CurveLimit THEN Pushed(cov) ELSE {}
  /\ stamp' = 0
  /\ UNCHANGED <<ask, chosen, cov, round, loop, pair, picks, report>>

\* The curve's points: the existing gateways, each of the plan's in rank order,
\* and each of the picks beyond them, put back one by one to read what it adds.
Curve ==
  LET total[k \in 0 .. Len(chosen)] ==
        IF k = 0 THEN Covered(Base) ELSE total[k - 1] + report.added[k]
      plan == Exchanged(cov, picks, <<>>)
      with(k) == Exchanged(plan, <<>>, SubSeq(picks, 1, k))
  IN  [k \in 1 .. 1 + Len(chosen) + Len(picks) |->
         IF k <= 1 + Len(chosen) THEN total[k - 1]
         ELSE total[Len(chosen)] + Covered(with(k - 1 - Len(chosen))) - Covered(plan)]

EndCurve ==
  /\ phase = "curve"
  /\ GreedyOver
  /\ phase' = "done"
  /\ cov' = Exchanged(cov, picks, <<>>)
  /\ heap' = {}
  /\ report' = [report EXCEPT !.curve = Curve]
  /\ UNCHANGED <<ask, chosen, stamp, round, loop, pair, picks>>

-----------------------------------------------------------------------------
PlaceNext ==
  \/ StartRound \/ Refresh \/ Pick \/ EndGreedy
  \/ Improve \/ NextPass \/ EndRefine
  \/ TakePair \/ PutBest \/ Judge \/ EndPairs
  \/ Drop \/ EndRound
  \/ Stop \/ Snapped \/ Rank \/ StartCurve \/ EndCurve

PlaceSpec == PlaceInit /\ [][PlaceNext]_placeVars

-----------------------------------------------------------------------------
PlaceTypeOK ==
  /\ ask \in Asks
  /\ chosen \in Seq(Spot) /\ picks \in Seq(Spot)
  /\ cov \in [Meter -> Nat]
  /\ heap \in SUBSET [gain : Nat, cand : Candidate, stamp : Nat]

(* The count kept through placing, lifting, trying and undoing is the count *)
(* of the gateways in place, within the radius by plain distance, and there *)
(* are never more of them than asked for: no gateway is left behind by an   *)
(* attempt that is undone, by the curve, or by a search that starts before  *)
(* the first gateway (coverageSpace.ts:219-250, gatewayPlacement.ts:374-420).*)
CountsMatch ==
  LET reached(list, m) == Cardinality({t \in DOMAIN list :
                             Dist2(MeterAt[m], SpotAt[list[t]]) <= R * R})
      beyond == IF phase = "curve" THEN picks ELSE <<>>
  IN  /\ \A m \in Meter : cov[m] = reached(ask.existing, m) + reached(chosen, m) + reached(beyond, m)
      /\ Len(chosen) <= ask.k

(* Looking again only at the top of the heap picks what a greedy that works *)
(* out every candidate would pick: no candidate newly reaches more, and the *)
(* first of equals is taken (gatewayPlacement.ts:242-263).                  *)
PickIsBest ==
  [][Pick => LET picked == Top.cand
             IN \A j \in Candidate : \/ FreeGain(cov, j) < FreeGain(cov, picked)
                                     \/ FreeGain(cov, j) = FreeGain(cov, picked) /\ picked <= j]_placeVars

(* The local search that stops early still leaves each gateway where no     *)
(* candidate would newly reach more (gatewayPlacement.ts:229-233, 298-301). *)
SearchExact ==
  [][Improve /\ loop.t >= 1 =>
       LET lifted == Lifted(cov, chosen[loop.t])
       IN  \A j \in Candidate : FreeGain(lifted, j) <= FreeGain(lifted, chosen'[loop.t])]_placeVars

(* The report adds up: what the gateways add in rank order falls, sums to   *)
(* what the plan newly reaches, and the curve rises from the existing       *)
(* coverage through the plan's and ends where the picks beyond it end       *)
(* (gatewayPlacement.ts:455-482, 541-574).                                  *)
CurveTrue ==
  phase = "done" =>
    LET G == Len(chosen)
    IN  /\ \A k \in 1 .. G - 1 : report.added[k] >= report.added[k + 1]
        /\ report.curve[G + 1] = Covered(cov)
        /\ \A k \in 1 .. Len(report.curve) - 1 : report.curve[k] <= report.curve[k + 1]
        /\ Len(report.curve) = G + 1 + Len(picks)
        /\ picks # <<>> /\ Len(report.curve) <= CurveLimit => report.curve[Len(report.curve)] = N
=============================================================================
