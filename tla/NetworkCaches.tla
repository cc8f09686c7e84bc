---------------------------- MODULE NetworkCaches ----------------------------
(***************************************************************************)
(* What the server keeps for the Network Explorer and the planners, for    *)
(* one client: the answers of getMeterMap and getGateways per set of       *)
(* sites, the meters' positions from the upstream (networkService.ts), and *)
(* the plans worked out for a pair of answers (routes/gis.ts).             *)
(*                                                                         *)
(* Data is abstracted to versions: "inner" is what the tables say of the   *)
(* selected sites, "outer" what they say of the others, "places" where the *)
(* upstream says the meters are.  An answer is known by what it was read   *)
(* from; two answers of equal content count as one object, so plans are    *)
(* shared more often here than in the code, never less.  A time that runs  *)
(* out is an action.                                                       *)
(***************************************************************************)
EXTENDS Integers, Sequences, FiniteSets

CONSTANTS
  Asker,
  MaxEntries,   \* CACHE_MAX_ENTRIES
  MaxPlans,     \* PLAN_CACHE_PER_SNAPSHOT
  MaxChanges,   \* bounds of the runs: changes of the data,
  MaxAsks,      \* requests of one asker,
  MaxTurns      \* and times that run out or loads that fail

ASSUME CachesAssumption == {MaxEntries, MaxPlans} \subseteq Nat \ {0} /\ {MaxChanges, MaxAsks, MaxTurns} \subseteq Nat

VARIABLES
  world,    \* the newest versions
  store,    \* per kind, the cached answers in the order the Map holds them
  flight,   \* per kind and scope, the load under way
  coords,   \* the positions kept, whether they are fresh, whether a load failed lately
  lookup,   \* per scope, the load of positions that a map for it began
  plans,    \* per pair of answers, the plans kept in the order the Map holds them
  asked,    \* per asker, what it asked for, has read and was answered
  newest,   \* per scope, the map that was answered last
  turns     \* times that ran out and loads that failed

cacheVars == <<world, store, flight, coords, lookup, plans, asked, newest, turns>>

Kind  == {"map", "gateways"}
Scope == {"sites", "all"}

\* Versions count from 1; 0 stands for nothing, and Awaited for not yet.
Nothing  == [inner |-> 0, outer |-> 0, places |-> 0]
Awaited  == -1
NoFlight == [st |-> "none", read |-> Nothing, had |-> 0, from |-> "none"]
NoAsk(n) == [st |-> "idle", for |-> "none", scope |-> "none", plan |-> <<>>, asks |-> n,
             got |-> [k \in Kind |-> [s \in Scope |-> Nothing]]]

CachesInit ==
  /\ world = [inner |-> 1, outer |-> 1, places |-> 1]
  /\ store = [k \in Kind |-> <<>>]
  /\ flight = [k \in Kind |-> [s \in Scope |-> NoFlight]]
  /\ coords = [v |-> 0, fresh |-> FALSE, failed |-> FALSE]
  /\ lookup = [s \in Scope |-> 0]
  /\ plans = [p \in {} |-> <<>>]
  /\ asked = [r \in Asker |-> NoAsk(0)]
  /\ newest = [s \in Scope |-> Nothing]
  /\ turns = 0

-----------------------------------------------------------------------------
(* cached and singleFlight                                                 *)

Stored(k)   == {store[k][i] : i \in DOMAIN store[k]}
Held(k, s)  == {e \in Stored(k) : e.scope = s}
Fresh(k, s) == \E e \in Held(k, s) : e.fresh
Content(k, s) == (CHOOSE e \in Held(k, s) : TRUE).read

\* An answer is stored: one is evicted when the store is full, also when the key
\* is there already; a key that is still there keeps its place.
SetIn(list, e) ==
  LET kept == IF Len(list) >= MaxEntries THEN Tail(list) ELSE list
  IN  IF \E i \in DOMAIN kept : kept[i].scope = e.scope
        THEN [i \in DOMAIN kept |-> IF kept[i].scope = e.scope THEN e ELSE kept[i]]
        ELSE Append(kept, e)

Turn == turns < MaxTurns /\ turns' = turns + 1

RunOut(k, s) ==
  /\ Turn
  /\ Fresh(k, s)
  /\ store' = [store EXCEPT ![k] =
       [i \in DOMAIN @ |-> IF @[i].scope = s THEN [@[i] EXCEPT !.fresh = FALSE] ELSE @[i]]]
  /\ UNCHANGED <<world, flight, coords, lookup, plans, asked, newest>>

-----------------------------------------------------------------------------
(* getCoords                                                               *)

\* No fresh positions and no recent failure: the upstream is asked.
MustAsk == ~coords.fresh /\ ~coords.failed

\* The load of positions a map for scope s waits for, when maps for the scopes in
\* "begun" begin together.  Mutant: every caller asks the upstream itself.
OwnLookup(begun, s) == s
Joined(begun, s) ==
  IF \E t \in Scope : lookup[t] # 0 THEN CHOOSE t \in Scope : lookup[t] # 0
  ELSE CHOOSE t \in begun : TRUE

\* The loads of some keys begin.  What is kept of the positions at that moment is
\* what a map falls back on.
Begin(keys) ==
  LET begun == {s \in Scope : <<"map", s>> \in keys}
      waits(s) == MustAsk /\ s \in begun
  IN  /\ flight' = [k \in Kind |-> [s \in Scope |->
           IF <<k, s>> \notin keys THEN flight[k][s]
           ELSE [st   |-> "asked",
                 read |-> [Nothing EXCEPT !.places = IF k = "gateways" THEN 0
                                                     ELSE IF waits(s) THEN Awaited ELSE coords.v],
                 had  |-> coords.v,
                 from |-> IF k = "map" /\ waits(s) THEN Joined(begun, s) ELSE "none"]]]
      /\ lookup' = [t \in Scope |-> IF lookup[t] = 0 /\ \E s \in begun : waits(s) /\ Joined(begun, s) = t
                                      THEN Awaited ELSE lookup[t]]

PlacesRead(t) ==
  /\ lookup[t] = Awaited
  /\ lookup' = [lookup EXCEPT ![t] = world.places]
  /\ UNCHANGED <<world, store, flight, coords, plans, asked, newest, turns>>

\* A load of positions ends, and every map that waits for it goes on at once, with
\* the positions that are its own.
Ended(t, places) ==
  /\ lookup' = [lookup EXCEPT ![t] = 0]
  /\ flight' = [flight EXCEPT !["map"] = [s \in Scope |->
       LET f == flight["map"][s]
       IN  IF f.from = t THEN [f EXCEPT !.from = "none", !.read.places = places[s]] ELSE f]]
  /\ UNCHANGED <<world, store, plans, asked, newest>>

PlacesArrive(t) ==
  /\ lookup[t] > 0
  /\ UNCHANGED turns
  /\ coords' = [v |-> lookup[t], fresh |-> TRUE, failed |-> FALSE]
  /\ Ended(t, [s \in Scope |-> lookup[t]])

PlacesFail(t) ==
  /\ Turn
  /\ lookup[t] # 0
  /\ coords' = [coords EXCEPT !.failed = TRUE]
  /\ Ended(t, [s \in Scope |-> flight["map"][s].had])

PlacesRunOut ==
  /\ Turn
  /\ coords.fresh
  /\ coords' = [coords EXCEPT !.fresh = FALSE]
  /\ UNCHANGED <<world, store, flight, lookup, plans, asked, newest>>

RetryAgain ==
  /\ Turn
  /\ coords.failed
  /\ coords' = [coords EXCEPT !.failed = FALSE]
  /\ UNCHANGED <<world, store, flight, lookup, plans, asked, newest>>

-----------------------------------------------------------------------------
(* A planning request reads four answers: map and gateways of its sites, and *)
(* of everything                                                             *)

Needs(scope) == Kind \X {scope, "all"}
Got(r, k, s) == asked[r].got[k][s]

\* The maps that are answered now are the ones answered last.
Answered(maps) == [s \in Scope |-> IF maps[s] = Nothing THEN newest[s] ELSE maps[s]]

Ask(r, for, scope) ==
  /\ asked[r].st = "idle"
  /\ asked[r].asks < MaxAsks
  /\ LET kept == {n \in Needs(scope) : Fresh(n[1], n[2])}
         got  == [k \in Kind |-> [s \in Scope |-> IF <<k, s>> \in kept THEN Content(k, s) ELSE Nothing]]
     IN  /\ asked' = [asked EXCEPT ![r] =
              [st |-> "reading", for |-> for, scope |-> scope, plan |-> <<>>,
               asks |-> asked[r].asks + 1, got |-> got]]
         /\ newest' = Answered(got["map"])
         /\ Begin({n \in Needs(scope) \ kept : flight[n[1]][n[2]].st = "none"})
  /\ UNCHANGED <<world, store, coords, plans, turns>>

\* What the query of a load says of the tables, beside the positions it has.
Tables(s, places) ==
  [inner |-> world.inner, outer |-> IF s = "all" THEN world.outer ELSE 0, places |-> places]

\* A map's query runs, before the positions are there or after.  Gateways have
\* nothing to wait for: their query runs when they land.
Read(s) ==
  /\ flight["map"][s].st = "asked"
  /\ flight' = [flight EXCEPT !["map"][s].st = "read", !["map"][s].read = Tables(s, @.places)]
  /\ UNCHANGED <<world, store, coords, lookup, plans, asked, newest, turns>>

Waits(r, k, s) == asked[r].st = "reading" /\ <<k, s>> \in Needs(asked[r].scope) /\ Got(r, k, s) = Nothing

\* A load ends: the answer is stored and whoever waits has it.  Plans of answers
\* that are nowhere any more are gone.
Land(k, s) ==
  /\ flight[k][s].st = IF k = "map" THEN "read" ELSE "asked"
  /\ flight[k][s].from = "none"
  /\ LET v == IF k = "map" THEN flight[k][s].read ELSE Tables(s, 0)
         current(p) == \A kind \in Kind : \E e \in Stored(kind)' : e.scope = p.scope /\ e.read = p.of[kind]
     IN  /\ store' = [store EXCEPT ![k] = SetIn(@, [scope |-> s, read |-> v, fresh |-> TRUE])]
         /\ plans' = [p \in {p \in DOMAIN plans : current(p)} |-> plans[p]]
         /\ asked' = [r \in Asker |-> IF Waits(r, k, s) THEN [asked[r] EXCEPT !.got[k][s] = v] ELSE asked[r]]
         /\ newest' = IF k = "map" THEN [newest EXCEPT ![s] = v] ELSE newest
  /\ flight' = [flight EXCEPT ![k][s] = NoFlight]
  /\ UNCHANGED <<world, coords, lookup, turns>>

\* A load's query fails, and whoever waits for it is answered with an error.
Break(k, s) ==
  /\ Turn
  /\ flight[k][s].st = "asked"
  /\ flight' = [flight EXCEPT ![k][s] = NoFlight]
  /\ asked' = [r \in Asker |-> IF Waits(r, k, s) THEN NoAsk(asked[r].asks) ELSE asked[r]]
  /\ UNCHANGED <<world, store, coords, lookup, plans, newest>>

-----------------------------------------------------------------------------
(* cachedPlan                                                              *)

\* What wholeNetwork makes of the two answers for everything: who works, and who
\* serves meters outside the selection.
Working(r)       == [inner |-> Got(r, "gateways", "all").inner, outer |-> Got(r, "gateways", "all").outer]
ServesOutside(r) == IF asked[r].scope = "sites" THEN Got(r, "map", "all").outer ELSE 0

PlanOf(r) ==
  [for |-> asked[r].for,
   map |-> Got(r, "map", asked[r].scope), gateways |-> Got(r, "gateways", asked[r].scope),
   working |-> Working(r), outside |-> IF asked[r].for = "move" THEN ServesOutside(r) ELSE 0]

\* Mutant: who works is forgotten in the key.
KeyOfOutside(r) == <<asked[r].for, ServesOutside(r)>>
PlanKey(r) == <<asked[r].for, Working(r), ServesOutside(r)>>

\* The two answers a plan is worked out from, and the plans kept for them.
Pair(r) == [scope |-> asked[r].scope, of |-> [k \in Kind |-> Got(r, k, asked[r].scope)]]
Kept(r) == IF Pair(r) \in DOMAIN plans THEN plans[Pair(r)] ELSE <<>>
Hits(r) == {i \in DOMAIN Kept(r) : Kept(r)[i].key = PlanKey(r)}

\* A plan is kept: the oldest of this pair gives way when there is no room.
Keep(r, entry) ==
  LET room == IF Len(Kept(r)) >= MaxPlans THEN Tail(Kept(r)) ELSE Kept(r)
  IN  [p \in DOMAIN plans \cup {Pair(r)} |-> IF p = Pair(r) THEN Append(room, entry) ELSE plans[p]]

Compute(r) ==
  /\ asked[r].st = "reading"
  /\ \A n \in Needs(asked[r].scope) : Got(r, n[1], n[2]) # Nothing
  /\ \E plan \in IF Hits(r) # {} THEN {Kept(r)[i].plan : i \in Hits(r)} ELSE {PlanOf(r)} :
       asked' = [asked EXCEPT ![r].st = "answered", ![r].plan = plan]
  /\ plans' = IF Hits(r) # {} THEN plans ELSE Keep(r, [key |-> PlanKey(r), plan |-> PlanOf(r)])
  /\ UNCHANGED <<world, store, flight, coords, lookup, newest, turns>>

Leave(r) ==
  /\ asked[r].st = "answered"
  /\ asked' = [asked EXCEPT ![r] = NoAsk(@.asks)]
  /\ UNCHANGED <<world, store, flight, coords, lookup, plans, newest, turns>>

\* The scheduler writes, or a meter is re-installed.
Change(part) ==
  /\ world.inner + world.outer + world.places < 3 + MaxChanges
  /\ world' = [world EXCEPT ![part] = @ + 1]
  /\ UNCHANGED <<store, flight, coords, lookup, plans, asked, newest, turns>>

CachesNext ==
  \/ \E r \in Asker :
       \/ \E for \in {"add", "move"}, s \in Scope : Ask(r, for, s)
       \/ Compute(r)
       \/ Leave(r)
  \/ \E k \in Kind, s \in Scope : Land(k, s) \/ Break(k, s) \/ RunOut(k, s)
  \/ \E s \in Scope : Read(s)
  \/ \E t \in Scope : PlacesRead(t) \/ PlacesArrive(t) \/ PlacesFail(t)
  \/ PlacesRunOut
  \/ RetryAgain
  \/ \E part \in {"inner", "outer", "places"} : Change(part)

CachesSpec == CachesInit /\ [][CachesNext]_cacheVars

-----------------------------------------------------------------------------
(* A plan that is answered, from the cache or not, is the one for what this  *)
(* request read: for its map and gateways, and for what the whole network    *)
(* says of its gateways now, which may have changed while they have not      *)
(* (routes/gis.ts:317-362, 412-424).                                         *)
PlansMatch == \A r \in Asker : asked[r].st = "answered" => asked[r].plan = PlanOf(r)

(* What is answered for a set of sites never goes back: not to older rows,   *)
(* and not to older positions, though loads of several scopes share the      *)
(* positions, fall back on what they found at their beginning, and fail      *)
(* while others succeed (networkService.ts:45-58, 101-123).                  *)
AnswersForward ==
  [][\A s \in Scope, part \in {"inner", "outer", "places"} : newest'[s][part] >= newest[s][part]]_cacheVars
=============================================================================
