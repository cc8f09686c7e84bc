------------------------------ MODULE TimelinePage ------------------------------
(***************************************************************************)
(* The page of one gateway (GatewayTimelinePage.tsx): the figures of the   *)
(* chosen days, the chart of when it was on- and offline with the window   *)
(* that is zoomed and dragged (StateTimelineChart.tsx), and the table of   *)
(* its offline periods, page by page (Pager.tsx).                          *)
(*                                                                         *)
(* The address names a gateway and a range.  Both loads have the gateway   *)
(* in their key; when the key of the page changes, the window and the page *)
(* of the table start afresh.  Positions on the chart are whole numbers,   *)
(* Scale of them a moment.                                                 *)
(***************************************************************************)
EXTENDS GatewayStatusPage

CONSTANTS
  LineGateway,    \* the gateways whose page is opened
  Scale,
  RecentEnd,      \* how long after its end a period is still going on, in moments
  TableSizes,     \* PAGE_SIZES
  NoView,         \* no window chosen: the whole range is shown
  MaxLinePresses  \* bound: presses on the chart, and of the address and the table

ASSUME TimelineAssumption ==
  /\ LineGateway \subseteq Fleet
  /\ Scale \in Nat \ {0} /\ RecentEnd \in 0..2 \* a moment is a minute at least
  /\ TableSizes # {} /\ TableSizes \subseteq Nat \ {0} /\ IsFiniteSet(TableSizes)

VARIABLES
  lineAddress,  \* the gateway, and the range as in the address
  lineRange,    \* useMemo: worked out when the address' range changed
  lineToday,
  lineBundle, lineCustom,
  chart,        \* the window chosen
  lineTable,    \* the page of the table and its size
  linePresses

lineVars ==
  <<lineAddress, lineRange, lineToday, lineBundle, lineCustom, chart, lineTable, linePresses>>

-----------------------------------------------------------------------------
(* Windows.                                                                *)
Window(f, t) == [from |-> f, to |-> t]
Width(w) == w.to - w.from
Full(r) == Window(Scale * (FirstTick(r) - 1), Scale * LastTick(r.to))

\* Mutant: a window that reaches past the end of the range is left there.
ClampLeft(w, full) ==
  LET width == Min({Max({Width(w), 1}), Width(full)})
  IN Window(Max({w.from, full.from}), Max({w.from, full.from}) + width)
\* clampView: no wider than the range and inside of it, and never nothing.
ClampView(w, full) ==
  LET width == Min({Max({Width(w), 1}), Width(full)})
      from == Min({Max({w.from, full.from}), full.to - width})
  IN Window(from, from + width)

\* zoomView: around the middle, of which twice is given.
ZoomTo(width, twice, full) ==
  ClampView(Window((twice - width) \div 2, (twice - width) \div 2 + width), full)

\* zoomAnchor: zooming in looks at the middle of the data in the window.
Extent(segments) ==
  Window(Scale * (Min({s.first : s \in segments}) - 1), Scale * Max({s.last : s \in segments}))
Anchor(w, segments) ==
  LET seen == Window(Max({w.from, Extent(segments).from}), Min({w.to, Extent(segments).to}))
  IN IF segments # {} /\ seen.from < seen.to THEN seen.from + seen.to ELSE w.from + w.to
ZoomIn(w, segments, full) == ZoomTo(Width(w) \div 2, Anchor(w, segments), full)
ZoomOut(w, full) == ZoomTo(2 * Width(w), w.from + w.to, full)

\* viewAround: a period with room on either side.
Stretch(s) == Window(Scale * (s.first - 1), Scale * s.last)
Around(s, full) ==
  LET w == Stretch(s)
      pad == Max({2 * Width(w), 1})
  IN ClampView(Window(w.from - pad, w.to + pad), full)

-----------------------------------------------------------------------------
(* What the page has: a preset's timeline is cut from the bundle.          *)
LineIsPreset == Presets(lineRange, lineToday) # {}
LineLoad == IF LineIsPreset THEN lineBundle ELSE lineCustom
LineAt == IF LineLoad.kept.key = LineLoad.key THEN LineLoad.kept.data ELSE NoData

LineBase(at) ==
  BaseRangeFor(IF LineIsPreset THEN {PresetRange(p, lineToday) : p \in Preset} ELSE {lineRange},
               DayOf(at))
Line(at) == SliceTimeline(Segments(lineAddress.gateway, LineBase(at), at), lineRange)

\* computeTimelineStats: what no stretch covers, up to the moment it was read.
NoDataFor(at, stats) ==
  Max({0, Min({at, LastTick(lineRange.to)}) - FirstTick(lineRange) + 1 - stats.observed})

\* Mutant: every period is still going on while the gateway is down.
GoesOnAnyhow(s, at) == lineAddress.gateway[at] = "offline"
StillOffline(s, at) == lineAddress.gateway[at] = "offline" /\ at - s.last < RecentEnd

\* offlinePeriods: in the order of time, with whether it is still going on.
OfflinePeriods(at) ==
  LET off == {s \in Line(at) : s.status = "offline"}
      down == OrderedBy(off, {p \in off \X off : p[1].first < p[2].first})
  IN [i \in DOMAIN down |-> [segment |-> down[i], ongoing |-> StillOffline(down[i], at)]]

PeriodsNow == IF LineAt = NoData THEN <<>> ELSE OfflinePeriods(LineAt)
ShownPeriods ==
  SubSeq(PeriodsNow, lineTable.page * lineTable.size + 1,
         Min({(lineTable.page + 1) * lineTable.size, Len(PeriodsNow)}))
ShownWindow == IF chart = NoView THEN Full(lineRange) ELSE chart

-----------------------------------------------------------------------------
LineKey(g, r) == <<g, r>>
FirstPage(t) == [t EXCEPT !.page = 0]

\* Mutant: the window stays when the range changes.
KeepsWindow(changed, w) == w
WindowAfter(changed, w) == IF changed THEN NoView ELSE w

\* A render reads the clock; a new key asks anew, and resets window and page.
LineRender(address, r, b, c, w, t) ==
  LET day == DayOf(time)
      changed == LineKey(address.gateway, r) # LineKey(lineAddress.gateway, lineRange)
  IN /\ lineAddress' = address
     /\ lineRange' = r
     /\ lineToday' = day
     /\ lineBundle' = Effect(b, <<address.gateway, day>>, TRUE)
     /\ lineCustom' = Effect(c, LineKey(address.gateway, r), Presets(r, day) = {})
     /\ chart' = WindowAfter(changed, w)
     /\ lineTable' = IF changed THEN FirstPage(t) ELSE t
     /\ UNCHANGED time

LineLoaded(b, c) ==
  LineRender(lineAddress, lineRange, b, c, chart, lineTable) /\ UNCHANGED linePresses

\* The minute's refresh; it renders when it was not told yet that one runs.
LineRefreshBundle ==
  /\ Refresh(lineBundle)
  /\ IF lineBundle.refreshing
       THEN /\ lineBundle' = Requested(lineBundle)
            /\ UNCHANGED <<time, lineAddress, lineRange, lineToday, lineCustom, chart, lineTable,
                           linePresses>>
       ELSE LineLoaded(Requested(lineBundle), lineCustom)
LineRefreshCustom ==
  /\ Refresh(lineCustom)
  /\ IF lineCustom.refreshing
       THEN /\ lineCustom' = Requested(lineCustom)
            /\ UNCHANGED <<time, lineAddress, lineRange, lineToday, lineBundle, chart, lineTable,
                           linePresses>>
       ELSE LineLoaded(lineBundle, Requested(lineCustom))

LineAnswer ==
  \/ \E asked \in lineBundle.out :
       \/ \E at \in asked..time : LineLoaded(Landed(lineBundle, asked, at), lineCustom)
       \/ LineLoaded(StatusFailed(lineBundle, asked), lineCustom)
  \/ \E asked \in lineCustom.out :
       \/ \E at \in asked..time : LineLoaded(lineBundle, Landed(lineCustom, asked, at))
       \/ LineLoaded(lineBundle, StatusFailed(lineCustom, asked))

LinePress == linePresses < MaxLinePresses /\ linePresses' = linePresses + 1

\* Try again, after an error without data.
LineReload ==
  /\ LineLoad.kept.key = LineLoad.key /\ LineLoad.kept.error /\ LineAt = NoData
  /\ LinePress
  /\ LineRender(lineAddress, lineRange, AskAgain(lineBundle), AskAgain(lineCustom), chart, lineTable)

\* A link, back and forward, or a range that is clicked: another gateway of the
\* same page, or another range, which is worked out when its text changes.
LineGoTo(g, u) ==
  /\ <<g, u>> # <<lineAddress.gateway, lineAddress.url>>
  /\ LinePress
  /\ LineRender([gateway |-> g, url |-> u],
                IF u = lineAddress.url THEN lineRange ELSE RangeFromParams(u, DayOf(time)),
                lineBundle, lineCustom, chart, lineTable)
ClickRange(p) ==
  LineGoTo(lineAddress.gateway, RangeToParams(PresetRange(p, lineToday), DayOf(time)))

\* The chart, drawn when there is something: a drag over two places, the buttons, or
\* a row of the table.
LineZoom(w) ==
  /\ LineAt # NoData /\ LinePress
  /\ LineRender(lineAddress, lineRange, lineBundle, lineCustom, w, lineTable)
Drag(a, b) == LineZoom(ClampView(Window(Min({a, b}), Max({a, b})), Full(lineRange)))
PressZoomIn == LineZoom(ZoomIn(ShownWindow, Line(LineAt), Full(lineRange)))
PressZoomOut == ShownWindow # Full(lineRange) /\ LineZoom(ZoomOut(ShownWindow, Full(lineRange)))
PressFull == ShownWindow # Full(lineRange) /\ LineZoom(Full(lineRange))
PressPeriod(i) == LineZoom(Around(ShownPeriods[i].segment, Full(lineRange)))

\* The pager.
TablePages == Max({1, (Len(PeriodsNow) + lineTable.size - 1) \div lineTable.size})
TurnTo(t) ==
  /\ LineAt # NoData /\ t # lineTable /\ LinePress
  /\ LineRender(lineAddress, lineRange, lineBundle, lineCustom, chart, t)
TurnPage(to) ==
  /\ \/ to \in {0, lineTable.page - 1} /\ lineTable.page # 0
     \/ to \in {TablePages - 1, lineTable.page + 1} /\ lineTable.page < TablePages - 1
  /\ TurnTo([lineTable EXCEPT !.page = to])
ChooseSize(n) == TurnTo([page |-> 0, size |-> n])

LineInit ==
  /\ time = LastTick(DataFrom - 1) + 1
  /\ lineAddress \in [gateway : LineGateway, url : Url]
  /\ lineRange = RangeFromParams(lineAddress.url, DayOf(time))
  /\ lineToday = DayOf(time)
  /\ lineBundle = Loading(<<lineAddress.gateway, lineToday>>)
  /\ lineCustom = LET key == LineKey(lineAddress.gateway, lineRange)
                  IN IF Presets(lineRange, lineToday) = {} THEN Loading(key)
                     ELSE [Loading(key) EXCEPT !.on = FALSE, !.out = {}, !.refreshing = FALSE]
  /\ chart = NoView
  /\ lineTable = [page |-> 0, size |-> Min(TableSizes)]
  /\ linePresses = 0

LineTimePasses == TimePasses /\ UNCHANGED lineVars
LineNext ==
  \/ LineTimePasses
  \/ LineRefreshBundle \/ LineRefreshCustom \/ LineAnswer \/ LineReload
  \/ \E g \in LineGateway, u \in Url : LineGoTo(g, u)
  \/ \E p \in Preset : ClickRange(p)
  \/ \E a, b \in Full(lineRange).from..Full(lineRange).to : a < b /\ Drag(a, b)
  \/ PressZoomIn \/ PressZoomOut \/ PressFull
  \/ \E i \in DOMAIN ShownPeriods : PressPeriod(i)
  \/ \E to \in 0..LastMoment : TurnPage(to)
  \/ \E n \in TableSizes : ChooseSize(n)

-----------------------------------------------------------------------------
\* GatewayTimelinePage.tsx:72 and gatewayStatusModel.ts:292: whatever was zoomed, and
\* however the days, the gateway and the answers changed since, the chart shows a part
\* of the range on screen, never nothing; and zooming in on data keeps some in sight.
WindowInRange ==
  LET full == Full(lineRange)
  IN LineAt # NoData =>
       /\ ShownWindow.from >= full.from /\ ShownWindow.to <= full.to /\ Width(ShownWindow) > 0
       /\ \A s \in Line(LineAt) :
            LET near == Around(s, full)
            IN near.from <= Stretch(s).from /\ near.to >= Stretch(s).to
       /\ (\E s \in Line(LineAt) : Stretch(s).from < ShownWindow.to /\ Stretch(s).to > ShownWindow.from)
            => LET closer == ZoomIn(ShownWindow, Line(LineAt), full)
               IN closer.from < Extent(Line(LineAt)).to /\ closer.to > Extent(Line(LineAt)).from

\* gatewayStatusModel.ts:254: the periods are the stretches the gateway was down on
\* those days, each moment in one of them, and only the last can be still going on; and
\* what was up, down and not watched is all of the time so far.
PeriodsTold ==
  LineAt # NoData =>
    LET g == lineAddress.gateway
        at == LineAt
        stats == TimelineStats(Line(at))
        rows == PeriodsNow
        T == Moments(lineRange, at)
    IN /\ {t \in T : g[t] = "offline"} =
            UNION {rows[i].segment.first..rows[i].segment.last : i \in DOMAIN rows}
       /\ \A i \in DOMAIN rows : rows[i].ongoing => i = Len(rows)
       /\ stats.observed + NoDataFor(at, stats) = Cardinality(T)

-----------------------------------------------------------------------------
(***************************************************************************)
(* offlineReasons.ts: why a gateway may have been offline, worked out from *)
(* one offline period and the others of the same timeline.                 *)
(*                                                                         *)
(* A period starts at a minute, counted from the first midnight, lasts a   *)
(* number of seconds, and has the reason the health service gives, if any. *)
(* Wording is left out: a reason is its label, whether the service said    *)
(* so, and whether the day's heartbeats are told with it.                  *)
(***************************************************************************)
CONSTANTS
  Outages   \* timelines: the periods in order, whether the last still goes on, and the
            \* percentage of each day's heartbeats that arrived, where it is known

Minute == 60
Hour == 3600
DayMinutes == 1440
RebootHours == {0, 6, 12, 18}
Tolerance == 10
MaxReasons == 3
FewBeats == 90

Scheduled == "SCHEDULED_REBOOT"
KeepAlive == "KEEPALIVE_ONLY"

\* The service has codes of its own: none reads like what the page itself says.
OfflinePeriod == [start : Nat, seconds : Nat, reason : STRING \ {"still offline"}]
ASSUME OutagesAssumption ==
  Outages \subseteq [periods : Seq(OfflinePeriod), still : BOOLEAN, beats : {o.beats : o \in Outages}]

VARIABLES
  outages,  \* the timeline on screen
  answered  \* ghost: whether it was told a second time

reasonVars == <<outages, answered>>

MinuteOfDay(p) == p.start % DayMinutes
DayOfPeriod(p) == p.start \div DayMinutes
Apart(a, b) == IF a < b THEN b - a ELSE a - b

\* Mutant: the day is not a circle.
Straight(a, b) == Apart(a, b)
Circular(a, b) == LET d == Apart(a, b) IN IF d < DayMinutes - d THEN d ELSE DayMinutes - d

NearReboot(p) == \E h \in RebootHours : Circular(MinuteOfDay(p), 60 * h) <= Tolerance

\* The other days on which an outage began at about this time of the day, and the
\* other outages that began within the hour.
SameTimeDays(p, i) ==
  {DayOfPeriod(outages.periods[j]) :
     j \in {k \in DOMAIN outages.periods \ {i} :
              Circular(MinuteOfDay(outages.periods[k]), MinuteOfDay(p)) <= 15}} \ {DayOfPeriod(p)}
Crowd(p, i) == {j \in DOMAIN outages.periods \ {i} : Apart(outages.periods[j].start, p.start) <= 60}

Inferred(label) == [label |-> label, confirmed |-> FALSE, beats |-> FALSE]
Confirmed(label) == [label |-> label, confirmed |-> TRUE, beats |-> FALSE]
When(condition, reason) == IF condition THEN <<reason>> ELSE <<>>

\* What kinds of fault last this long.
ByLength(p) ==
  IF p.seconds <= 5 * Minute THEN When(~NearReboot(p), Inferred("blip"))
  ELSE IF p.seconds <= Hour THEN <<Inferred("internet"), Inferred("short power cut")>>
  ELSE IF p.seconds <= 6 * Hour THEN <<Inferred("power cut"), Inferred("mobile network")>>
  ELSE IF p.seconds <= 24 * Hour THEN <<Inferred("extended"), Inferred("device fault")>>
  ELSE <<Inferred("down"), Inferred("device fault")>>

\* In this order: what the service says, then what the period itself shows.
ReasonsOf(p, i) ==
  When(p.reason # "", Confirmed(p.reason))
  \o When(p.reason = "" /\ NearReboot(p) /\ p.seconds <= 15 * Minute, Inferred("probably a reboot"))
  \o When(p.reason = "" /\ ~NearReboot(p) /\ Cardinality(SameTimeDays(p, i)) >= 2, Inferred("recurs"))
  \o When(p.reason = "" /\ Cardinality(Crowd(p, i)) >= 2, Inferred("unstable"))
  \o (IF p.reason \in {"", KeepAlive} THEN ByLength(p) ELSE <<>>)

\* Few heartbeats that day are told when the first reason is not the service's.
HasEvidence(p, reasons) ==
  /\ reasons # <<>> /\ ~reasons[1].confirmed
  /\ DayOfPeriod(p) \in DOMAIN outages.beats
  /\ outages.beats[DayOfPeriod(p)] < FewBeats

Ongoing(i) == outages.still /\ i = Len(outages.periods)
StillOff == Inferred("still offline")

\* Mutant: the evidence goes to the reason on top.
OnTop(shown) == {1}
\* The most likely reason that is inferred, and is not that it is still offline.
MostLikely(shown) ==
  {k \in DOMAIN shown :
     /\ ~shown[k].confirmed /\ shown[k] # StillOff
     /\ \A j \in 1..(k - 1) : shown[j].confirmed \/ shown[j] = StillOff}

PossibleReasons(i) ==
  LET p == outages.periods[i]
      found == ReasonsOf(p, i)
      all == When(Ongoing(i), StillOff) \o found
      shown == SubSeq(all, 1, IF Len(all) < MaxReasons THEN Len(all) ELSE MaxReasons)
  IN [k \in DOMAIN shown |->
        [shown[k] EXCEPT !.beats = HasEvidence(p, found) /\ k \in MostLikely(shown)]]

\* The timeline is read again: the last period may have ended meanwhile.
ReasonsInit == outages \in Outages /\ answered = FALSE
ReadAgain ==
  /\ ~answered /\ answered' = TRUE
  /\ outages' \in {outages, [outages EXCEPT !.still = FALSE]}

\* offlineReasons.ts:4: every period has one to three reasons, no two the same; what
\* the service said is told, first of all that is known, and nothing else is said to
\* be reported; what is inferred from the time of day does not depend on which side of
\* midnight a period began; and few heartbeats are told with an inferred reason, once.
ReasonsAreSound ==
  \A i \in DOMAIN outages.periods :
    LET p == outages.periods[i]
        shown == PossibleReasons(i)
        labels == {shown[k].label : k \in DOMAIN shown}
        tells == {k \in DOMAIN shown : shown[k].beats}
    IN /\ shown # <<>> /\ Len(shown) <= MaxReasons /\ Cardinality(labels) = Len(shown)
       /\ p.reason # "" => p.reason \in labels
       /\ \A k \in DOMAIN shown : shown[k].confirmed => shown[k].label = p.reason
       /\ (shown[1] = StillOff) = Ongoing(i)
       /\ Cardinality(tells) <= 1
       /\ \A k \in tells : ~shown[k].confirmed /\ shown[k].label # StillOff.label
       /\ \A j \in DOMAIN outages.periods :
            LET q == outages.periods[j]
            IN /\ Apart(p.start, q.start) \in {0, DayMinutes} /\ p.reason = q.reason
                  /\ p.seconds = q.seconds =>
                    (NearReboot(p) = NearReboot(q))
               /\ /\ p.reason = "" /\ p.seconds <= 5 * Minute
                  /\ MinuteOfDay(p) \in ((DayMinutes - Tolerance)..DayMinutes) \cup 0..Tolerance
                  => "probably a reboot" \in labels
=============================================================================
