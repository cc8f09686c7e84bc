----------------------------- MODULE MeterLayer -----------------------------
(***************************************************************************)
(* The canvas the meters are drawn on (meterCanvasLayer.ts).               *)
(*                                                                         *)
(* Drawing is spread over frames of the browser, over an animation when    *)
(* the groups change, and over Google's own zoom, which the layer follows  *)
(* until the map lands, is idle, or a watchdog ends it.  New meters, other *)
(* settings and moves of the map may come at any of these moments.         *)
(*                                                                         *)
(* The world is a line.  A group is the set of the positions its meters    *)
(* have in the list it was built from, as in the code, so a group read     *)
(* with another list means other meters, or none: then plan() throws.      *)
(***************************************************************************)
EXTENDS Integers, Sequences, FiniteSets

CONSTANTS
  ItemLists,       \* the lists of meters that may be drawn: id and place
  MapView,         \* what the map may show: a zoom, and the left edge in its pixels
  NoView, NoItem,
  ViewWidth, Pad,  \* the canvas reaches Pad pixels over each edge
  CellPx,          \* CELL_PX
  ClusterMaxZoom   \* CLUSTER_MAX_ZOOM

ASSUME LayerAssumption ==
  /\ NoView \notin MapView
  /\ {ViewWidth, Pad, CellPx, ClusterMaxZoom} \subseteq Nat /\ CellPx > 0

VARIABLES
  canvas,  \* what the layer keeps
  google   \* the map: its view, whether its pane is there, whether idle is due

layerVars == <<canvas, google>>

NoGroups == [els |-> {}, list |-> 1]
NoDrawing == [groups |-> NoGroups, view |-> NoView, ring |-> {}]

LayerInit ==
  /\ google = [view |-> CHOOSE v \in MapView : TRUE, pane |-> FALSE, idle |-> TRUE]
  /\ canvas =
       [list |-> 1, clustering |-> TRUE, selected |-> NoItem,
        current |-> NoGroups,   \* current and currentItems
        drawn |-> NoDrawing,
        geo |-> NoView,         \* lastGeo
        again |-> FALSE,        \* regroupNext
        frame |-> FALSE, anim |-> "none",
        zooming |-> FALSE, target |-> {}, plan |-> FALSE,
        moved |-> FALSE,        \* sawMotion
        watchdog |-> FALSE,     \* settleTimer
        hidden |-> FALSE, ghost |-> FALSE,
        missed |-> "nothing"]   \* ghost: why the last frame drew nothing: "glide", "throw"

-----------------------------------------------------------------------------
(* Groups.                                                                 *)

Px(item, zoom) == item.at * 2 ^ zoom
InView(px, v) == v.left - Pad <= px /\ px <= v.left + ViewWidth + Pad

\* The cells of the grid are the map's, not the view's.
Together(i, j, zoom, on) ==
  i = j \/ /\ on /\ zoom <= ClusterMaxZoom
           /\ Px(i, zoom) \div CellPx = Px(j, zoom) \div CellPx

InSight(list, v) ==
  {i \in DOMAIN ItemLists[list] : InView(Px(ItemLists[list][i], v.zoom), v)}
\* The view after a zoom is guessed, generously.
Everywhere(list) == DOMAIN ItemLists[list]

Group(list, on, zoom, seen) ==
  LET items == ItemLists[list]
  IN {{j \in seen : Together(items[i], items[j], zoom, on)} : i \in seen}

GroupIn(c, v) == Group(c.list, c.clustering, v.zoom, InSight(c.list, v))
GroupTarget(c, v) == Group(c.list, c.clustering, v.zoom, Everywhere(c.list))

\* fromItems[m].id, of a position that the list does not have.
Throws(c) == \E el \in c.current.els : ~(el \subseteq DOMAIN ItemLists[c.current.list])

\* The selected meter gets a ring where it stands alone.
Ring(c) ==
  {c.selected} \cap
    {ItemLists[c.current.list][i].id : i \in {k \in UNION c.current.els : {k} \in c.current.els}}

-----------------------------------------------------------------------------
(* Drawing.                                                                *)

\* Mutant: while an animation runs no frame is asked for.
ScheduleIdle(c) == IF c.frame \/ c.zooming \/ c.anim # "none" THEN c ELSE [c EXCEPT !.frame = TRUE]
Schedule(c) == IF c.frame \/ c.zooming THEN c ELSE [c EXCEPT !.frame = TRUE]

DrawStatic(c) ==
  [c EXCEPT !.drawn = [groups |-> c.current, view |-> c.geo, ring |-> Ring(c)]]

Adopt(c, els) == [c EXCEPT !.current = [els |-> els, list |-> c.list]]

\* A glide goes on over something new.
Overtaken(c, new) == IF new THEN [c EXCEPT !.missed = "glide"] ELSE c

\* regroup(): plan() before anything is kept.
Regroup(c, next) ==
  IF Throws(c) THEN [c EXCEPT !.anim = "none", !.missed = "throw"]
  ELSE [Adopt(c, next) EXCEPT !.anim = "regroup", !.missed = "nothing"]

Render(c, m) ==
  IF c.zooming \/ ~m.pane THEN c
  ELSE LET next == GroupIn(c, m.view)
           glides == c.again /\ c.current.els # {}
           seen == [c EXCEPT !.geo = m.view, !.again = FALSE]
       IN IF glides THEN Regroup(seen, next)
          ELSE IF c.anim # "none"
            THEN Overtaken(seen, m.view # c.geo \/ c.current # Adopt(c, next).current)
          ELSE DrawStatic([Adopt(seen, next) EXCEPT !.missed = "nothing"])

-----------------------------------------------------------------------------
(* Zooming.                                                                *)

\* The first step hides the canvas behind a second one; a further step takes the
\* groups the last one was heading for as what is drawn.
BeginZoom(c) ==
  [c EXCEPT !.zooming = TRUE, !.anim = "zoom", !.frame = FALSE, !.moved = FALSE,
            !.hidden = TRUE, !.ghost = TRUE]
FurtherZoom(c) == Adopt(c, c.target)

StartZoom(c, m) ==
  IF ~m.pane \/ c.geo = NoView \/ (~c.zooming /\ m.view.zoom = c.geo.zoom) THEN c
  ELSE LET begun == IF c.zooming THEN FurtherZoom(c) ELSE BeginZoom(c)
           aimed == [begun EXCEPT !.target = GroupTarget(c, m.view)]
       IN IF Throws(begun) THEN [aimed EXCEPT !.missed = "throw"]
          ELSE [aimed EXCEPT !.plan = TRUE, !.watchdog = TRUE]

\* A map that moved has shown the groups already; one that jumped lets them glide.
FinishZoom(c, m) ==
  LET landed == IF c.moved THEN [Adopt(c, c.target) EXCEPT !.again = FALSE]
                ELSE [c EXCEPT !.again = TRUE]
      ended == [landed EXCEPT !.zooming = FALSE, !.anim = "none", !.watchdog = FALSE,
                              !.hidden = FALSE]
      drew == Render(ended, m)
  IN IF ended.again /\ m.pane /\ ended.current.els # {} /\ Throws(ended) THEN drew
     ELSE [drew EXCEPT !.ghost = FALSE, !.plan = FALSE]

-----------------------------------------------------------------------------
(* What happens to it.                                                     *)

\* onAdd: the pane takes the canvas, and Google has it drawn.
PaneAdded ==
  /\ ~google.pane
  /\ google' = [google EXCEPT !.pane = TRUE]
  /\ canvas' = Render([canvas EXCEPT !.frame = FALSE], google')

\* draw() of the overlay: at once, unless something is moving.
GoogleDraws ==
  /\ google.pane
  /\ canvas' = IF ~canvas.zooming /\ canvas.anim = "none"
                 THEN Render([canvas EXCEPT !.frame = FALSE], google)
                 ELSE Schedule(canvas)
  /\ UNCHANGED google

FrameRuns ==
  /\ canvas.frame
  /\ canvas' = Render([canvas EXCEPT !.frame = FALSE], google)
  /\ UNCHANGED google

\* A step of the glide draws where the map is now; the last one draws the groups.
GlideGoesOn ==
  /\ canvas.anim = "regroup" /\ canvas.geo # google.view
  /\ canvas' = Overtaken([canvas EXCEPT !.geo = google.view], TRUE)
  /\ UNCHANGED google
GlideEnds ==
  /\ canvas.anim = "regroup"
  /\ canvas' = DrawStatic(Overtaken([canvas EXCEPT !.anim = "none", !.geo = google.view],
                                    google.view # canvas.geo))
  /\ UNCHANGED google

\* A step of a zoom: nothing to follow, the tiles move, they have landed.
ZoomStepStops ==
  /\ canvas.anim = "zoom" /\ ~canvas.plan
  /\ canvas' = [canvas EXCEPT !.anim = "none"]
  /\ UNCHANGED google
TilesMove ==
  /\ canvas.anim = "zoom" /\ canvas.plan /\ ~canvas.moved
  /\ canvas' = [canvas EXCEPT !.moved = TRUE]
  /\ UNCHANGED google
TilesLand ==
  /\ canvas.anim = "zoom" /\ canvas.plan /\ canvas.moved
  /\ canvas' = FinishZoom(canvas, google)
  /\ UNCHANGED google
WatchdogFires ==
  /\ canvas.watchdog
  /\ canvas' = IF canvas.zooming THEN FinishZoom([canvas EXCEPT !.watchdog = FALSE], google)
               ELSE [canvas EXCEPT !.watchdog = FALSE]
  /\ UNCHANGED google

\* zoom_changed, if it changed, then bounds_changed; idle follows.
MapMoves(v) ==
  /\ v # google.view
  /\ google' = [google EXCEPT !.view = v, !.idle = TRUE]
  /\ canvas' = Schedule(IF v.zoom = google.view.zoom THEN canvas ELSE StartZoom(canvas, google'))
MapIdle ==
  /\ google.idle
  /\ google' = [google EXCEPT !.idle = FALSE]
  /\ canvas' = IF ~canvas.zooming THEN Schedule(canvas)
               ELSE IF canvas.moved THEN canvas ELSE FinishZoom(canvas, google)

SetItems(list) ==
  /\ list # canvas.list
  /\ canvas' = Schedule([canvas EXCEPT !.list = list, !.again = canvas.current.els # {}])
  /\ UNCHANGED google
SetClustering ==
  /\ canvas' = Schedule([canvas EXCEPT !.clustering = ~@, !.again = TRUE])
  /\ UNCHANGED google

\* A click is resolved against what was drawn.  A meter is opened and selected, a
\* group zooms the map in; anything else, and any click while something moves,
\* selects nothing.
Hits(c) == IF c.geo = NoView \/ c.zooming \/ c.anim # "none" THEN {{}}
           ELSE c.drawn.groups.els \cup {{}}
MapClicked(hit) ==
  /\ hit \in Hits(canvas) /\ Cardinality(hit) < 2
  /\ canvas' = Schedule([canvas EXCEPT
       !.selected = IF hit = {} THEN NoItem
                    ELSE ItemLists[canvas.drawn.groups.list][CHOOSE i \in hit : TRUE].id])
  /\ UNCHANGED google

LayerNext ==
  \/ PaneAdded \/ GoogleDraws \/ FrameRuns
  \/ GlideGoesOn \/ GlideEnds
  \/ ZoomStepStops \/ TilesMove \/ TilesLand \/ WatchdogFires
  \/ \E v \in MapView : MapMoves(v)
  \/ MapIdle
  \/ \E l \in DOMAIN ItemLists : SetItems(l)
  \/ SetClustering
  \/ \E hit \in SUBSET UNION {DOMAIN ItemLists[l] : l \in DOMAIN ItemLists} : MapClicked(hit)

LayerSpec == LayerInit /\ [][LayerNext]_layerVars

-----------------------------------------------------------------------------
\* Nothing is scheduled, running or due.
AtRest ==
  /\ google.pane /\ ~google.idle
  /\ ~canvas.frame /\ canvas.anim = "none" /\ ~canvas.zooming

Regrouped == canvas.drawn.groups = Adopt(canvas, GroupIn(canvas, google.view)).current

\* meterCanvasLayer.ts:400 and 604: whatever came while it was drawing, gliding or
\* zooming, the layer comes to rest on the groups of the present meters in the
\* present view, with the present selection, and clicks are resolved against them.
\* (After a frame that drew nothing the next one brings it.)
DrawsWhatIsThere ==
  AtRest /\ canvas.missed = "nothing" =>
    Regrouped /\ canvas.drawn.view = google.view /\ canvas.drawn.ring = Ring(canvas)

\* meterCanvasLayer.ts:54: the canvas is hidden only while a zoom is followed, and a
\* zoom that is followed has something that will end it.
CanvasComesBack ==
  /\ canvas.hidden => canvas.zooming
  /\ canvas.zooming => \/ canvas.watchdog
                       \/ canvas.anim = "zoom" /\ canvas.plan /\ canvas.moved
                       \/ google.idle /\ ~canvas.moved
=============================================================================
