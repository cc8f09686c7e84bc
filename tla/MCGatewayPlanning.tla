-------------------------- MODULE MCGatewayPlanning --------------------------
(***************************************************************************)
(* The two planners on one small town, and the caches their answers come   *)
(* from and go to.  A plan is worked out in one piece and shares nothing   *)
(* with the caches but what it is called with, so a behaviour runs one of  *)
(* the three and the others keep their first state.                        *)
(*                                                                         *)
(* Three meters stand around a free spot that reaches them all while no    *)
(* candidate reaches two of them; the others stand along a street, two of  *)
(* them at one position.  One free spot rounds to another.                 *)
(***************************************************************************)
EXTENDS GatewayPlacement, GatewayRelocation, NetworkCaches, TLC

Town == <<<<-5, 0>>, <<1, 0>>, <<-2, 5>>, <<6, 0>>, <<9, 1>>, <<13, 0>>,
          <<-2, 2>>, <<4, 0>>, <<10, 0>>, <<11, 0>>, <<3, 0>>>>
MCSpotAt  == Town
MCMeterAt == [m \in Meter |-> Town[<<1, 2, 3, 4, 4, 5, 6>>[m]]]
MCSnap    == [s \in Spot |-> IF s = 8 THEN {8, 11} ELSE {s}]

MCAsks ==
  {[k |-> k, min |-> 1, target |-> t, existing |-> <<9>>] : k \in {2, 3}, t \in {5, 7}}
  \cup {[k |-> 2, min |-> min, target |-> 7, existing |-> <<>>] : min \in {1, 2}}

MCWants ==
  {[home |-> h, counted |-> c, locked |-> l, min |-> min, perRemoval |-> pr, moves |-> n,
    far |-> f, remove |-> TRUE] :
      h \in {<<10, 1, 8>>, <<4, 11, 10>>, <<9, 9, 10>>}, c \in {{1, 2}, {1, 2, 3}}, l \in {{}, {1}},
      min \in {1, 2}, pr \in {0, 1}, n \in {1, 3}, f \in {NoLimit, 6, 12}}

MCSymmetry == Permutations(Asker)

PlanIdle  == PlaceStart("idle") /\ ask = CHOOSE a \in Asks : TRUE
RelocIdle == RelocStart("idle") /\ want = CHOOSE w \in Wants : TRUE

Init ==
  \/ PlaceInit /\ RelocIdle /\ CachesInit
  \/ RelocInit /\ PlanIdle /\ CachesInit
  \/ CachesInit /\ PlanIdle /\ RelocIdle

Next ==
  \/ PlaceNext /\ UNCHANGED <<relocVars, cacheVars>>
  \/ RelocNext /\ UNCHANGED <<placeVars, cacheVars>>
  \/ phase = "idle" /\ stage = "idle" /\ CachesNext /\ UNCHANGED <<placeVars, relocVars>>

Spec == Init /\ [][Next]_<<placeVars, relocVars, cacheVars>>

(* What the planners do instead of trying everything finds what trying      *)
(* everything would find: the heap that is looked at again only at its top, *)
(* and the walk from the strongest candidate that stops early.              *)
ShortcutsExact == PickIsBest /\ SearchExact /\ MoveIsBest
=============================================================================
