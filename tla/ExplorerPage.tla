---------------------------- MODULE ExplorerPage ----------------------------
(***************************************************************************)
(* The map side of the Network Explorer (NetworkExplorerPage.tsx): what    *)
(* the user chose, the gateway and the meter that are open, what is drawn  *)
(* on the map and where the map looks, while the data of an area arrives,  *)
(* is refreshed quietly, and the map itself loads late or never.           *)
(*                                                                         *)
(* A state update, the render and the effects after it are one step        *)
(* (Commit): the effects in the order of the file, each only when what it  *)
(* depends on changed.  The data is what useNetworkData gives; how it gets *)
(* it is NetworkPage.                                                      *)
(***************************************************************************)
EXTENDS Naturals, FiniteSets

CONSTANTS
  Area, AllAreas,
  AreaGateways, AreaMeters,  \* what may be found in an area
  GatewayHits, MeterHits,    \* the searches that find a gateway, a meter
  MeterStatus,               \* of a meter
  RadiusOf,                  \* of a gateway, 0 when none is stored
  MapWord, UsualMetres, Slid, \* 500 m, and the radius after the slider was moved
  Nobody,                    \* no area, no gateway, no meter
  MaxMapPresses, MaxArrivals, MaxLookups

ASSUME ExplorerAssumption ==
  /\ AllAreas \in Area /\ "" \in MapWord
  /\ Nobody \notin Area
  /\ \A a \in Area : AllAreas \notin AreaGateways[a]

VARIABLES
  ex,        \* the page
  onMap,     \* what the map was given to draw
  lookups,   \* requests for a meter's details on their way
  mapSteps   \* what was pressed, what arrived

explorerVars == <<ex, onMap, lookups, mapSteps>>

MapGateway == UNION {AreaGateways[a] : a \in Area}
MapMeter == UNION {AreaMeters[a] : a \in Area}
NoMeterCard == [id |-> Nobody, told |-> "nothing"]

ExplorerInit ==
  /\ ex = [site |-> AllAreas, of |-> Nobody, gws |-> {}, pts |-> {}, base |-> FALSE,
           ready |-> FALSE, view |-> "map", chosen |-> AllAreas, coverage |-> Nobody,
           radius |-> UsualMetres, card |-> NoMeterCard, status |-> "ALL", search |-> "",
           layers |-> {"meters", "gateways"}, fitted |-> Nobody, looks |-> "start",
           set |-> FALSE,       \* within a step: the card was set, be it to what it was
           slid |-> FALSE,      \* ghost: the slider was moved since the gateway was opened
           wanted |-> Nobody,   \* ghost: the meter that was opened last
           unknown |-> FALSE,   \* ghost: its details did not come
           early |-> FALSE,     \* ghost: it was opened before there was a map
           disturbed |-> FALSE] \* ghost: a quiet refresh moved the map
  /\ onMap = [markers |-> {}, circles |-> {}, focus |-> Nobody, radius |-> UsualMetres,
              meters |-> {}, ring |-> Nobody]
  /\ lookups = [m \in MapMeter |-> 0]
  /\ mapSteps = [pressed |-> 0, arrived |-> 0]

-----------------------------------------------------------------------------
(* What is shown.                                                          *)

MapGateways(e) == {g \in e.gws : e.search = "" \/ e.search \in GatewayHits[g]}
FilteredGateways(e) == {g \in MapGateways(e) : e.chosen \in {AllAreas, g}}
FilteredPoints(e) == {m \in e.pts : /\ e.status \in {"ALL", MeterStatus[m]}
                                    /\ e.search = "" \/ e.search \in MeterHits[m]}
FocusGateway(e) == IF e.coverage \in e.gws THEN e.coverage ELSE Nobody
DefaultRadius(g) == IF RadiusOf[g] > 0 THEN RadiusOf[g] ELSE UsualMetres

Markers(e) == IF "gateways" \in e.layers THEN MapGateways(e) ELSE {}
Circles(e) == IF "circles" \in e.layers
                THEN {g \in Markers(e) : RadiusOf[g] > 0 /\ g # e.coverage} ELSE {}
Points(e) == IF "meters" \in e.layers THEN FilteredPoints(e) ELSE {}

-----------------------------------------------------------------------------
(* The effects, of a page that was old.                                    *)

CloseCard(e) == [e EXCEPT !.card = NoMeterCard, !.wanted = Nobody, !.early = FALSE]

AreaSlate(old, e) ==
  IF e.site = old.site THEN e
  ELSE [CloseCard(e) EXCEPT !.chosen = AllAreas, !.coverage = Nobody]

\* Mutant: the gateway filter is kept.
GatewayKept(e) == e
GatewayGone(e) ==
  IF /\ e.chosen # AllAreas /\ e.of = e.site
     /\ e.gws # {} /\ e.chosen \notin e.gws
    THEN [e EXCEPT !.chosen = AllAreas, !.coverage = Nobody] ELSE e

ChosenOpens(old, e) ==
  IF e.chosen \in {old.chosen, AllAreas} THEN e ELSE [e EXCEPT !.coverage = e.chosen]

Opens(old, e) == FocusGateway(e) \notin {FocusGateway(old), Nobody}

OwnRadius(old, e) ==
  IF Opens(old, e) THEN [e EXCEPT !.radius = DefaultRadius(FocusGateway(e)), !.slid = FALSE]
  ELSE e

\* Mutant: with every answer.
FitsAlways(e) == e.ready /\ e.of = e.site /\ e.gws \cup e.pts # {}
Fits(e) == e.ready /\ e.fitted # e.site /\ e.of = e.site /\ e.gws \cup e.pts # {}
FitOnce(e) == IF Fits(e) THEN [e EXCEPT !.fitted = e.site, !.looks = "area"] ELSE e

\* To what was found, or back to the whole selection.
SearchLook(old, e) ==
  IF e.search = old.search \/ ~e.ready THEN e
  ELSE IF e.search # "" /\ FilteredPoints(e) \cup MapGateways(e) # {}
    THEN [e EXCEPT !.looks = "search"]
  ELSE IF e.search = "" /\ e.pts \cup e.gws # {} THEN [e EXCEPT !.looks = "area"] ELSE e

\* Only when the gateway is another one: not when the map comes later.
GatewayLook(old, e) == IF Opens(old, e) /\ e.ready THEN [e EXCEPT !.looks = "gateway"] ELSE e

Effects(old, e) ==
  LET settled == ChosenOpens(old, GatewayGone(AreaSlate(old, e)))
  IN GatewayLook(old, SearchLook(old, FitOnce(OwnRadius(old, settled))))

\* Mutant: the circles do not follow the gateway that is open.
SeenByMarkersOnly(e) == <<e.ready, MapGateways(e), e.layers>>
SeenByMarkers(e) == <<e.ready, MapGateways(e), e.layers, e.coverage>>
SeenByCircle(e) == <<e.ready, FocusGateway(e), e.radius, e.view>>
SeenByPoints(e) == <<e.ready, FilteredPoints(e), e.layers>>

DrawnAfter(old, e) ==
  IF ~e.ready THEN onMap
  ELSE [markers |-> IF SeenByMarkers(e) # SeenByMarkers(old) THEN Markers(e) ELSE onMap.markers,
           circles |-> IF SeenByMarkers(e) # SeenByMarkers(old) THEN Circles(e) ELSE onMap.circles,
           focus   |-> IF SeenByCircle(e) # SeenByCircle(old) THEN FocusGateway(e) ELSE onMap.focus,
           radius  |-> IF SeenByCircle(e) # SeenByCircle(old) /\ FocusGateway(e) # Nobody
                         THEN e.radius ELSE onMap.radius,
           meters  |-> IF SeenByPoints(e) # SeenByPoints(old) THEN Points(e) ELSE onMap.meters,
           ring    |-> IF e.set \/ e.card # old.card THEN e.card.id ELSE onMap.ring]

Commit(e) ==
  LET after == Effects(ex, e)
  IN ex' = [after EXCEPT !.set = FALSE] /\ onMap' = DrawnAfter(ex, after)

-----------------------------------------------------------------------------
(* The data.                                                               *)

Arrival ==
  /\ mapSteps.arrived < MaxArrivals
  /\ mapSteps' = [mapSteps EXCEPT !.arrived = @ + 1]

Given(e, gws, pts) == [e EXCEPT !.of = e.site, !.gws = gws, !.pts = pts]
Without(e) == [e EXCEPT !.of = Nobody, !.gws = {}, !.pts = {}]
Derives(e) == e.site # AllAreas /\ e.base

\* Both answers, or one of them.
AreaArrives(gws, pts) ==
  /\ ex.of = Nobody /\ Arrival
  /\ Commit([Given(ex, gws, pts) EXCEPT !.base = @ \/ ex.site = AllAreas])
  /\ UNCHANGED lookups

\* Every five minutes.
QuietRefresh(gws, pts) ==
  /\ ex.of = ex.site /\ Arrival
  /\ LET e == Given(ex, gws, pts)
         moves == Effects([ex EXCEPT !.looks = "still"], [e EXCEPT !.looks = "still"]).looks # "still"
         again == ex.gws = {} /\ ex.coverage # Nobody
     IN Commit([e EXCEPT !.disturbed = @ \/ (moves /\ ex.fitted = ex.site /\ ~again)])
  /\ UNCHANGED lookups

PressMap == mapSteps.pressed < MaxMapPresses
           /\ mapSteps' = [mapSteps EXCEPT !.pressed = @ + 1]

\* Offered with an error; an area that is worked out is only refreshed.
Reload ==
  /\ (ex.gws = {} \/ ex.pts = {}) /\ ~Derives(ex)
  /\ PressMap /\ Commit(Without(ex)) /\ UNCHANGED lookups

ChooseArea(a, gws, pts) ==
  /\ a # ex.site /\ PressMap
  /\ LET e == [ex EXCEPT !.site = a]
     IN Commit(IF Derives(e) THEN Given(e, gws, pts) ELSE Without(e))
  /\ UNCHANGED lookups

MapLoads == ~ex.ready /\ Commit([ex EXCEPT !.ready = TRUE]) /\ UNCHANGED <<lookups, mapSteps>>

-----------------------------------------------------------------------------
(* Gateways.                                                               *)

OpenedGateway(e, g) == [CloseCard(e) EXCEPT !.chosen = g, !.coverage = g]
Chosen(e) == PressMap /\ Commit(e) /\ UNCHANGED lookups

\* placeGateway: from the picker, and from a card of the performance view.
Placed(g) == [OpenedGateway(ex, g) EXCEPT !.looks = IF ex.ready THEN "gateway" ELSE @]
PickGateway(g) == g \in ex.gws /\ Chosen(Placed(g))
ShowOnMap(g) ==
  /\ ex.view = "performance" /\ g \in FilteredGateways(ex)
  /\ Chosen([Placed(g) EXCEPT !.view = "map"])
ClickMarker(g) == g \in onMap.markers \cup onMap.circles /\ Chosen(OpenedGateway(ex, g))
ClickGatewayRow(g) ==
  /\ ex.view = "table" /\ g \in FilteredGateways(ex)
  /\ Chosen([OpenedGateway(ex, g) EXCEPT !.view = "map"])
PickAllGateways ==
  ex.chosen # AllAreas /\ Chosen([ex EXCEPT !.chosen = AllAreas, !.coverage = Nobody])
CloseCoverage == FocusGateway(ex) # Nobody /\ Chosen([ex EXCEPT !.coverage = Nobody])
MoveRadius == FocusGateway(ex) # Nobody /\ Chosen([ex EXCEPT !.radius = Slid, !.slid = TRUE])

-----------------------------------------------------------------------------
(* Meters.                                                                 *)

\* openMeter: at once what the map knows, and the details are asked for.
OpenMeterCard(e, m) ==
  /\ lookups[m] < MaxLookups
  /\ lookups' = [lookups EXCEPT ![m] = @ + 1]
  /\ PressMap
  /\ Commit([e EXCEPT !.card = [id |-> m, told |-> "known"], !.wanted = m, !.unknown = FALSE,
                      !.set = TRUE, !.early = ~e.ready])

ClickPoint(m) == ex.ready /\ ex.view = "map" /\ m \in onMap.meters /\ OpenMeterCard(ex, m)
ClickNothing == ex.ready /\ ex.card # NoMeterCard /\ Chosen(CloseCard(ex))
\* The nearest or the farthest meter of the open gateway.
OpenFromRange(m) ==
  /\ FocusGateway(ex) # Nobody /\ m \in ex.pts
  /\ OpenMeterCard([ex EXCEPT !.looks = IF ex.ready THEN "meter" ELSE @], m)
\* A meter without a position is shown in the table.
PickSuggestion(m) ==
  LET e == [ex EXCEPT !.search = "", !.view = IF m \in ex.pts THEN "map" ELSE "table",
                      !.looks = IF m \in ex.pts /\ ex.ready THEN "meter" ELSE @]
  IN IF m \in ex.pts THEN OpenMeterCard(e, m) ELSE Chosen(e)
\* A row of the table has everything.
ClickMeterRow(m) ==
  /\ ex.view = "table"
  /\ Chosen([ex EXCEPT !.card = [id |-> m, told |-> "all"], !.wanted = m, !.unknown = FALSE,
                       !.set = TRUE, !.early = ~ex.ready])
CloseMeterCard == ex.card # NoMeterCard /\ Chosen(CloseCard(ex))

\* Mutant: whatever meter is open.
MergeIntoAny(m) == [ex EXCEPT !.card = [id |-> m, told |-> "all"], !.early = FALSE]
Merge(m) == IF ex.card.id = m THEN [ex EXCEPT !.card = [id |-> m, told |-> "all"],
                                              !.set = TRUE, !.early = ~ex.ready] ELSE ex

LookupAnswered(m) == lookups[m] > 0 /\ lookups' = [lookups EXCEPT ![m] = @ - 1]
MeterArrives(m) == LookupAnswered(m) /\ Commit(Merge(m)) /\ UNCHANGED mapSteps
\* It failed, or the meter is not among the five that are asked for.
MeterUnknown(m) ==
  /\ LookupAnswered(m)
  /\ Commit([ex EXCEPT !.unknown = @ \/ ex.card.id = m]) /\ UNCHANGED mapSteps

-----------------------------------------------------------------------------
(* Filters, views and layers.                                              *)

SubmitSearch(w) == w # ex.search /\ Chosen([ex EXCEPT !.search = w])
PickMapStatus(s) == s # ex.status /\ Chosen([ex EXCEPT !.status = s])
ShowView(v) == v # ex.view /\ Chosen([ex EXCEPT !.view = v])
ToggleLayer(l) == Chosen([ex EXCEPT !.layers = (@ \ {l}) \cup ({l} \ @)])
UserPans == ex.ready /\ ex.view = "map" /\ ex.looks # "user" /\ Chosen([ex EXCEPT !.looks = "user"])

ExplorerNext ==
  \/ \E gws \in SUBSET AreaGateways[ex.site] : \E pts \in {{}, AreaMeters[ex.site]} :
       AreaArrives(gws, pts) \/ QuietRefresh(gws, pts)
  \/ \E a \in Area : \E gws \in SUBSET AreaGateways[a] : ChooseArea(a, gws, AreaMeters[a])
  \/ Reload \/ MapLoads
  \/ \E g \in MapGateway : PickGateway(g) \/ ShowOnMap(g) \/ ClickMarker(g) \/ ClickGatewayRow(g)
  \/ PickAllGateways \/ CloseCoverage \/ MoveRadius
  \/ \E m \in MapMeter : \/ ClickPoint(m) \/ OpenFromRange(m) \/ PickSuggestion(m)
                         \/ ClickMeterRow(m) \/ MeterArrives(m) \/ MeterUnknown(m)
  \/ ClickNothing \/ CloseMeterCard
  \/ \E w \in MapWord : SubmitSearch(w)
  \/ \E s \in {"ALL", "connected", "disconnected"} : PickMapStatus(s)
  \/ \E v \in {"map", "table", "performance"} : ShowView(v)
  \/ \E l \in {"meters", "gateways", "circles"} : ToggleLayer(l)
  \/ UserPans

-----------------------------------------------------------------------------
\* NetworkExplorerPage.tsx:224 and 156: a gateway that is no longer in the area hides
\* nothing; the gateway that is open is the one that is chosen, at the radius stored for
\* it until the slider is moved.
GatewayOfArea ==
  /\ ex.of = ex.site /\ ex.gws # {} => ex.chosen \in ex.gws \cup {AllAreas}
  /\ ex.coverage \in {Nobody, ex.chosen} \ {AllAreas}
  /\ FocusGateway(ex) # Nobody /\ ~ex.slid => ex.radius = DefaultRadius(FocusGateway(ex))

\* NetworkExplorerPage.tsx:297: whichever answers are late, the card is the one of the
\* meter that was opened last, and it has the details once they came.
CardOfMeter ==
  /\ ex.card.id = ex.wanted
  /\ ex.wanted # Nobody =>
       lookups[ex.wanted] > 0 \/ ex.unknown \/ ex.card.told = "all"

\* NetworkExplorerPage.tsx:440: the map is fitted once to every area that has something
\* to show, and no refresh moves it.  (A gateway that is open and comes back after an
\* answer without gateways is looked at again.)
MapStaysPut ==
  /\ ~ex.disturbed
  /\ ex.ready /\ ex.of = ex.site /\ ex.gws \cup ex.pts # {} => ex.fitted = ex.site

\* NetworkExplorerPage.tsx:465: what the effects have drawn is what is to be shown, though
\* each looks at a part of the page only.  (The ring of a meter that was opened before
\* there was a map is missing.)
MapDrawsPage ==
  ex.ready =>
    /\ onMap.markers = Markers(ex) /\ onMap.circles = Circles(ex)
    /\ onMap.focus = FocusGateway(ex)
    /\ FocusGateway(ex) # Nobody => onMap.radius = ex.radius
    /\ onMap.meters = Points(ex)
    /\ ex.early \/ onMap.ring = ex.card.id
=============================================================================
