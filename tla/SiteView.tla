------------------------------ MODULE SiteView -------------------------------
(***************************************************************************)
(* The Network Explorer's answer for one site, twice: what getGateways and *)
(* getMeterMap answer for the sites the server finds (Gateways, MeterMap), *)
(* and what deriveSiteView works out from their answer for "ALL" (Derived).*)
(*                                                                         *)
(* All that the answers are made from is read at one moment.  rssi stands  *)
(* for rssi and snr, which follow the same rules; averages are compared as *)
(* sums.                                                                   *)
(***************************************************************************)
EXTENDS SiteTree, Integers, FiniteSets, FiniteSetsExt

CONSTANTS
  Meter, Gateway,
  Age,     \* how old a frame may be: "day", "week" or "older"
  Rssi,    \* the values of rssi
  Limit    \* avgRssiDegradedDbm

ASSUME ViewAssumption ==
  /\ IsFiniteSet(Site)
  /\ IsFiniteSet(Meter)
  /\ Age \subseteq {"day", "week", "older"}
  /\ Rssi \subseteq Int
  /\ Limit \in Int

VARIABLES
  meters,   \* meter_metadata, water_meter_latest and the positions
  fences,   \* geofence_metadata: the installed gateways
  loaded    \* the answers for "ALL" have been loaded

vars == <<treeVars, meters, fences, loaded>>

Frame == [gateway : Gateway \cup {None}, age : Age, rssi : Rssi]

\* frame is a set with the newest frame, or empty; at: it has a position.
MeterRow == [site : Site \cup {None}, at : BOOLEAN,
             frame : {{}} \cup {{f} : f \in Frame}]
NoFence  == [site |-> None, place |-> "no-geofence"]
FenceRow == [site : Site \cup {None}, place : {"drawn", "no-coordinates"}] \cup {NoFence}

Blank == [site |-> None, at |-> FALSE, frame |-> {}]

ViewInit ==
  /\ Init
  /\ meters = [m \in Meter |-> Blank]
  /\ fences = [g \in Gateway |-> NoFence]
  /\ loaded = FALSE

\* The page has the answers for "ALL" before a site is selected.  The walks do
\* not depend on them, so what the database held is chosen last.
Load ==
  /\ walked = Walker
  /\ ~ loaded
  /\ meters' \in [Meter -> MeterRow]
  /\ fences' \in [Gateway -> FenceRow]
  /\ loaded' = TRUE
  /\ UNCHANGED treeVars

\* The tree's steps begin another selection: what was loaded is dropped.
Again ==
  /\ TreeNext
  /\ meters' = [m \in Meter |-> Blank]
  /\ fences' = [g \in Gateway |-> NoFence]
  /\ loaded' = FALSE

Next == Load \/ Again

Spec == ViewInit /\ [][Next]_vars

-----------------------------------------------------------------------------
(* The server's answers for a set of sites                                 *)

StatusOf(m) ==
  CASE meters[m].frame = {} -> "never"
    [] \E f \in meters[m].frame : f.age = "older" -> "disconnected"
    [] OTHER -> "connected"

Status == {"connected", "disconnected", "never"}

\* The query of getMeterMap.
In(sites) == {m \in Meter : meters[m].site \in sites}

\* The meters a gateway is the best gateway of: the groups of loadHealth.
Heard(g, M) == {m \in M : \E f \in meters[m].frame : f.gateway = g}

RssiOf(m) == (CHOOSE f \in meters[m].frame : TRUE).rssi
Stats(M) ==
  [metersHeard |-> Cardinality(M),
   liveMeters  |-> Cardinality({m \in M : StatusOf(m) = "connected"}),
   sum         |-> MapThenSumSet(RssiOf, M)]

Weak(stats) == stats.sum < Limit * stats.metersHeard

gatewayStatus(M) ==
  CASE M = {} -> "no-traffic"
    [] M # {} /\ \A m \in M : \A f \in meters[m].frame : f.age # "day" -> "stale"
    [] OTHER -> IF Weak(Stats(M)) THEN "degraded" ELSE "reporting"

Known == {g \in Gateway : fences[g].place # "no-geofence"}

\* Mutant: only the gateways that hear meters of the sites.
KeptHeard(sites) == {g \in Gateway : Heard(g, In(sites)) # {}}

\* The gateways that are kept: they stand in the sites or hear their meters.
Kept(sites) ==
  {g \in Gateway : \/ Heard(g, In(sites)) # {}
                   \/ g \in Known /\ fences[g].site \in sites}

Row(g, M) == [id |-> g, status |-> gatewayStatus(M), stats |-> Stats(M)]

Gateways(sites) ==
  LET rows(place) == {Row(g, Heard(g, In(sites))) : g \in {h \in Kept(sites) : fences[h].place \in place}}
  IN [gateways |-> rows({"drawn"}), unplaced |-> rows({"no-coordinates", "no-geofence"})]

Summary(count, with, without) ==
  [total |-> with + without, withCoordinates |-> with, withoutCoordinates |-> without,
   counts |-> count]

\* Mutant: a cell of unpositioned counts every meter of its site.
MeterMapBySite(sites) ==
  LET M == In(sites)
      points == {m \in M : meters[m].at}
      count == [st \in Status |-> Cardinality({m \in M : StatusOf(m) = st})]
  IN [points |-> points,
      unpositioned |-> [cell \in Site \X Status |->
         Cardinality({m \in M : meters[m].site = cell[1] /\ StatusOf(m) = cell[2]})],
      summary |-> Summary(count, Cardinality(points), Cardinality(M \ points))]

\* unpositioned: how many meters without a position a site has of each status.
MeterMap(sites) ==
  LET M == In(sites)
      points == {m \in M : meters[m].at}
      count == [st \in Status |-> Cardinality({m \in M : StatusOf(m) = st})]
  IN [points |-> points,
      unpositioned |-> [cell \in Site \X Status |->
         Cardinality({m \in M \ points : meters[m].site = cell[1] /\ StatusOf(m) = cell[2]})],
      summary |-> Summary(count, Cardinality(points), Cardinality(M \ points))]

-----------------------------------------------------------------------------
(* The page's view of a site, from the server's answers for "ALL"          *)

\* Mutant: the status of the area is not looked at.
StatusForSite(was, stats) ==
  CASE stats.metersHeard = 0 -> "no-traffic"
    [] OTHER -> IF Weak(stats) THEN "degraded" ELSE "reporting"

\* statusFor: whether a gateway is stale is taken from the answer for "ALL".
statusFor(was, stats) ==
  CASE stats.metersHeard = 0 -> "no-traffic"
    [] stats.metersHeard > 0 /\ was = "stale" -> "stale"
    [] OTHER -> IF Weak(stats) THEN "degraded" ELSE "reporting"

Derived(all, map, sites) ==
  LET points == {m \in map.points : meters[m].site \in sites}
      mine(g) == Heard(g, points)
      row(r) == [id |-> r.id, status |-> statusFor(r.status, Stats(mine(r.id))), stats |-> Stats(mine(r.id))]
      without == [st \in Status |-> SumFunction([s \in sites |-> map.unpositioned[<<s, st>>]])]
      count == [st \in Status |-> Cardinality({m \in points : StatusOf(m) = st}) + without[st]]
  IN [gateways |-> {row(r) : r \in {x \in all.gateways : \/ mine(x.id) # {}
                                                         \/ fences[x.id].site \in sites}},
      unplaced |-> {row(r) : r \in {x \in all.unplaced : mine(x.id) # {}}},
      points   |-> points,
      summary  |-> Summary(count, Cardinality(points), SumFunction(without))]

-----------------------------------------------------------------------------
View == Derived(Gateways(covers["all"]), MeterMap(covers["all"]), covers["page"])

(***************************************************************************)
(* The page draws the meters of the site that the server would send for    *)
(* the same sites, and its totals are the server's, those of the meters    *)
(* without a position included (filter of points, unpositioned).           *)
(***************************************************************************)
DerivedMeters ==
  loaded => LET map == MeterMap(covers["page"]) IN
    /\ View.points = map.points
    /\ View.summary = map.summary

(***************************************************************************)
(* The page shows no gateway of a site that the server would not show, and *)
(* puts none in the other list.  One that it leaves out, or counts fewer   *)
(* meters of, hears meters without a position, or is a gateway without a   *)
(* position that hears none and stands in the site (byGateway, inSite).    *)
(***************************************************************************)
DerivedGateways ==
  loaded =>
    LET M == In(covers["page"])
        Lost(g) == \E m \in Heard(g, M) : ~ meters[m].at
        served == Gateways(covers["page"])
        Fewer(x, r) == Lost(r.id) /\ x.stats.metersHeard < r.stats.metersHeard
    IN /\ \A x \in View.gateways : \E r \in served.gateways : x.id = r.id /\ (x.stats = r.stats \/ Fewer(x, r))
       /\ \A x \in View.unplaced : \E r \in served.unplaced : x.id = r.id /\ (x.stats = r.stats \/ Fewer(x, r))
       /\ \A r \in served.gateways : Lost(r.id) \/ \E x \in View.gateways : x.id = r.id
       /\ \A r \in served.unplaced : \/ Lost(r.id)
                                      \/ r.stats.metersHeard = 0
                                      \/ \E x \in View.unplaced : x.id = r.id

(***************************************************************************)
(* The status the page works out is the server's whenever the gateway      *)
(* hears only meters with a position, but for a gateway that is silent in  *)
(* the site and not in the whole area; "stale" is never said of a gateway  *)
(* the server would not call stale (statusFor).                            *)
(***************************************************************************)
DerivedStatus ==
  loaded =>
    LET served == Gateways(covers["page"])
        all == Gateways(covers["all"])
        Of(answer, g) == (CHOOSE r \in answer.gateways \cup answer.unplaced : r.id = g).status
    IN \A x \in View.gateways \cup View.unplaced :
         (\A m \in Heard(x.id, In(covers["page"])) : meters[m].at) =>
           \/ x.status = Of(served, x.id)
           \/ /\ Of(served, x.id) = "stale"
              /\ Of(all, x.id) # "stale"
              /\ x.status # "no-traffic"
=============================================================================
