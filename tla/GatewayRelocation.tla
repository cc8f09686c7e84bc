-------------------------- MODULE GatewayRelocation --------------------------
(***************************************************************************)
(* Which existing gateways to keep, move or remove (planRelocation): moves *)
(* one at a time, the best first, then removals, the weakest first, over   *)
(* one count per meter of the gateways that reach it.                      *)
(*                                                                         *)
(* Sliding and centring are taken by what they promise, as in              *)
(* GatewayPlacement.  A spot is one of those of CoverageSpace, the places  *)
(* where the gateways stand among them.                                    *)
(***************************************************************************)
EXTENDS CoverageSpace

CONSTANTS
  Gateway,  \* numbers, in the order of their ids
  Wants,    \* the inputs
  NoLimit

ASSUME RelocationAssumption ==
  /\ Gateway \subseteq Nat /\ IsFiniteSet(Gateway)
  /\ NoLimit \in Nat
  /\ Wants \subseteq [home : [Gateway -> Spot], counted : SUBSET Gateway, locked : SUBSET Gateway,
                      min : Nat \ {0}, perRemoval : Nat, moves : Nat, far : Nat, remove : BOOLEAN]

VARIABLES
  want,
  stage,     \* "move", "remove", "end"
  slots,     \* where each gateway stands, whether it reaches meters, and the verdict
  count,     \* how many gateways reach a meter
  told       \* the changes in order, why the moves stopped, the loss by removals

relocVars == <<want, stage, slots, count, told>>

Movable == Gateway \ want.locked
Moved   == {g \in Gateway : slots[g].verdict = "move"}

\* The layout of the slots, as the coverage it amounts to.
Layout(sl) ==
  [m \in Meter |-> Cardinality({g \in Gateway : sl[g].counted /\ m \in Reach[sl[g].at]})]

AsFound ==
  [g \in Gateway |-> [at      |-> want.home[g],
                      counted |-> g \in want.counted,
                      verdict |-> IF g \in want.locked THEN "locked" ELSE "keep",
                      reached |-> 0,
                      lost    |-> 0]]

Untold == [steps |-> <<>>, stop |-> "none", next |-> 0, loss |-> 0]

\* A planner is started, or not asked at all.
RelocStart(first) ==
  /\ want \in Wants
  /\ stage = first
  /\ slots = AsFound
  /\ count = Layout(slots)
  /\ told = Untold

RelocInit == RelocStart("move")

-----------------------------------------------------------------------------
\* Mutant: a gateway that reaches nothing yet is lifted as well.
LiftAny(g)     == Lifted(count, slots[g].at)
LiftOne(g)     == IF slots[g].counted THEN Lifted(count, slots[g].at) ELSE count
OnlyReachOf(g) == IF slots[g].counted THEN OnlyReach(count, slots[g].at) ELSE 0

\* byReach: the candidates from the one that reaches the most meters at all.
Weight(j) == Cardinality(Reach[j])
Ahead(i, j) == Weight(i) > Weight(j) \/ (Weight(i) = Weight(j) /\ i < j)

Gains(cv, S) == {0} \cup {FreeGain(cv, j) : j \in S}
Most(cv, S)  == CHOOSE g \in Gains(cv, S) : \A h \in Gains(cv, S) : h <= g

\* The candidates of a set that the walk tries: it stops where none that is left
\* could beat the best so far.
Walked(cv, S) ==
  {j \in S : /\ Weight(j) > 0
             /\ \A i \in S : Ahead(i, j) => Weight(j) > FreeGain(cv, i)}

Within(p, d) == {j \in Candidate : Dist2(SpotAt[j], SpotAt[p]) <= d * d}

\* The spots that newly reach the most of those tried, if they reach anything.
Strongest(cv, S) == {j \in S : FreeGain(cv, j) = Most(cv, S) /\ FreeGain(cv, j) > 0}
FirstOf(cv, S)   == {j \in Strongest(cv, S) : \A i \in Strongest(cv, S) : ~Ahead(i, j)}

\* How far the lifting of a gateway can be felt.
Felt == 2 * R

\* A limit of few cells is searched cell by cell, a longer one from the strongest.
ByCells ==
  LET side == 2 * ((want.far + R - 1) \div R) + 1
  IN  side * side <= Cardinality({Cell(SpotAt[j]) : j \in Candidate})

\* Where a gateway could go: near it as seen with it lifted, or anywhere as seen
\* with every gateway in place; within the allowed distance when there is one.
Spots(g) ==
  LET lifted     == LiftOne(g)
      near       == Strongest(lifted, Within(slots[g].at, Felt))
      everywhere == FirstOf(count, Walked(count, Candidate))
      close      == Within(slots[g].at, want.far)
  IN  CASE want.far # NoLimit /\ ByCells  -> Strongest(lifted, close)
        [] want.far # NoLimit /\ ~ByCells -> FirstOf(lifted, Walked(lifted, close))
        [] OTHER -> IF \E n \in near : \A e \in everywhere : FreeGain(lifted, n) >= FreeGain(count, e)
                      THEN near ELSE everywhere

\* What moving a gateway would newly reach, what it would cost and what is left.
Offer(g, spots) ==
  LET gain == Most(LiftOne(g), spots)
  IN  [id |-> g, spots |-> spots, gain |-> gain, lost |-> OnlyReachOf(g), net |-> gain - OnlyReachOf(g)]

\* The gateways that could still be moved somewhere, and the move that pays most.
Offers == {o \in {Offer(g, Spots(g)) : g \in Movable \ Moved} : o.spots # {}}

\* Mutant: the move that brings most is made, whatever it costs.
PaysByGain(o, p) == o.gain > p.gain \/ (o.gain = p.gain /\ o.id < p.id)

Pays(o, p) ==
  \/ o.net > p.net
  \/ o.net = p.net /\ o.gain > p.gain
  \/ o.net = p.net /\ o.gain = p.gain /\ o.id < p.id
Best(offers) == CHOOSE o \in offers : \A p \in offers \ {o} : Pays(o, p)

Moves == Cardinality(Moved)
Full  == Covered(count) >= N

\* Nothing can be gained by looking for a move.
Over == Movable = {} \/ Full \/ Moved = Movable
OverReason ==
  CASE Movable = {} -> "nothing-movable"
    [] Movable # {} /\ Full -> IF Moves > 0 THEN "all-covered" ELSE "already-covered"
    [] OTHER -> "all-moved"

Step(action, g, covered) == [action |-> action, id |-> g, covered |-> covered]

\* The best move is made: the gateway is lifted, put at the spot, slid and centred
\* (not past the allowed distance) and put on the coordinates it is reported with.
Make(best) ==
  LET g == best.id
      lifted == LiftOne(g)
      allowed(p) == want.far = NoLimit
                      \/ Dist2(SpotAt[p], SpotAt[slots[g].at]) <= want.far * want.far
  IN  \E j \in best.spots : \E p \in Polished(lifted, best.gain) :
      \E s \in Snap[IF allowed(p) THEN p ELSE j] :
        /\ count' = Placed(lifted, s)
        /\ slots' = [slots EXCEPT ![g] = [at |-> s, counted |-> TRUE, verdict |-> "move",
                                          reached |-> FreeGain(lifted, s), lost |-> best.lost]]
        /\ told' = [told EXCEPT !.steps = Append(@, Step("move", g, Covered(Placed(lifted, s))))]
        /\ stage' = stage

\* The moves stop, for a reason; "net" is what the best move not made would bring.
Halted(reason, net) ==
  /\ stage' = IF want.remove /\ reason # "max-moves" THEN "remove" ELSE "end"
  /\ told' = [told EXCEPT !.stop = reason, !.next = net]
  /\ UNCHANGED <<slots, count>>

Move ==
  /\ stage = "move"
  /\ ~Over
  /\ \E offers \in {Offers} : offers # {} /\ \E best \in {Best(offers)} :
       CASE best.net < want.min -> Halted("no-worthwhile-move", best.net)
         [] best.net >= want.min /\ Moves >= want.moves -> Halted("max-moves", best.net)
         [] OTHER -> Make(best)
  /\ UNCHANGED want

Halt ==
  /\ stage = "move"
  /\ Over \/ Offers = {}
  /\ Halted(IF Over THEN OverReason ELSE "no-worthwhile-move", 0)
  /\ UNCHANGED want

\* Mutant: each removal is judged by itself.
RedundantAlone ==
  {g \in Movable : slots[g].verdict = "keep" /\ OnlyReachOf(g) <= want.perRemoval}

\* What may still be removed: what little depends on, as long as the removals
\* together stay within the minimum.
Redundant ==
  {g \in Movable : /\ slots[g].verdict = "keep"
                   /\ OnlyReachOf(g) <= want.perRemoval
                   /\ told.loss + OnlyReachOf(g) <= want.min}

Remove ==
  /\ stage = "remove"
  /\ Redundant # {}
  /\ LET g == CHOOSE g \in Redundant : \A h \in Redundant \ {g} :
                \/ OnlyReachOf(g) < OnlyReachOf(h)
                \/ OnlyReachOf(g) = OnlyReachOf(h) /\ g < h
     IN  /\ count' = LiftOne(g)
         /\ slots' = [slots EXCEPT ![g].counted = FALSE, ![g].verdict = "remove", ![g].lost = OnlyReachOf(g)]
         /\ told' = [told EXCEPT !.loss = @ + OnlyReachOf(g),
                                 !.steps = Append(@, Step("remove", g, Covered(LiftOne(g))))]
  /\ UNCHANGED <<want, stage>>

Removed ==
  /\ stage = "remove"
  /\ Redundant = {}
  /\ stage' = "end"
  /\ UNCHANGED <<want, slots, count, told>>

RelocNext == Move \/ Halt \/ Remove \/ Removed

RelocSpec == RelocInit /\ [][RelocNext]_relocVars

-----------------------------------------------------------------------------
RelocTypeOK ==
  /\ want \in Wants
  /\ stage \in {"idle", "move", "remove", "end"}
  /\ slots \in [Gateway -> [at : Spot, counted : BOOLEAN, reached : Nat, lost : Nat,
                            verdict : {"keep", "locked", "move", "remove"}]]
  /\ count \in [Meter -> Nat]

(* The books balance: the count is that of the layout as it stands, locked   *)
(* gateways and all, and the coverage is what it was before plus what the    *)
(* moves are said to bring, less what moves and removals are said to cost    *)
(* (gatewayRelocation.ts:362-388, 402-414).                                  *)
BooksBalance ==
  LET bring[n \in 0 .. Len(told.steps)] ==
        IF n = 0 THEN 0
        ELSE bring[n - 1] + slots[told.steps[n].id].reached - slots[told.steps[n].id].lost
      start == Layout([g \in Gateway |-> [at |-> want.home[g], counted |-> g \in want.counted]])
  IN  /\ count = Layout(slots)
      /\ \A n \in 1 .. Len(told.steps) : told.steps[n].covered = Covered(start) + bring[n]
      /\ Covered(count) = Covered(start) + bring[Len(told.steps)]

(* A search of the surroundings with the gateway lifted, and of everywhere   *)
(* else with it in place, finds what trying every candidate for every        *)
(* gateway would find: the move made is worth at least as much as any other, *)
(* and at least the minimum (gatewayRelocation.ts:321-346).                  *)
Allowed(g) == IF want.far = NoLimit THEN Candidate ELSE Within(slots[g].at, want.far)
TrueGain(g) == Most(LiftOne(g), Allowed(g))

MoveIsBest ==
  [][\A g \in Gateway : slots[g].verdict = "keep" /\ slots'[g].verdict = "move" =>
       \E gain \in {TrueGain(g)} :
         /\ gain - OnlyReachOf(g) >= want.min
         /\ \A h \in Movable \ Moved : TrueGain(h) - OnlyReachOf(h) <= gain - OnlyReachOf(g)
         /\ \E p \in Polished(LiftOne(g), gain) : slots'[g].at \in Snap[p]]_relocVars

(* Removals cost no more than the minimum all together and each no more than *)
(* its share; a gateway that is locked stays where it is, and none is        *)
(* removed while the number of moves is what held the plan back              *)
(* (gatewayRelocation.ts:390-415).                                           *)
RemovalsCheap ==
  /\ told.loss <= want.min
  /\ \A g \in Gateway :
       /\ slots[g].verdict = "remove" => slots[g].lost <= want.perRemoval /\ told.stop # "max-moves"
       /\ g \in want.locked => slots[g].verdict = "locked" /\ slots[g].at = want.home[g]
=============================================================================
