------------------------------ MODULE UptimePage ------------------------------
(***************************************************************************)
(* The Gateway Uptime page (GatewayUptimePage.tsx, uptimeModel.ts): a      *)
(* table of every gateway and every day, in hours or in percent, its       *)
(* filters and its order, the calendar that picks the days                 *)
(* (DateRangeCalendar.tsx), and the files it downloads (uptimeExport.ts).  *)
(*                                                                         *)
(* The clock, the gateways and the load that keeps itself fresh are those  *)
(* of the Gateway Status page.  Its quick ranges end yesterday, and the    *)
(* range is worked out again when a render meets another day.  A minute    *)
(* online is a moment; a percentage is a number of tenths.                 *)
(***************************************************************************)
EXTENDS GatewayStatusPage

CONSTANTS
  UptimeDays,     \* UPTIME_PRESETS: how many days, shortest first
  UptimeDefault,  \* the one an address without a range stands for
  WholeDay,       \* FULL_DAY_SECONDS: what has to be watched of a day, in moments
  GatewayRank,    \* the order of the gateways' ids
  AddressRank,    \* and of their addresses; 0 is none
  Searches,       \* what can be typed, as the gateways that hold it
  Threshold,      \* the percentages of "Average below", in tenths
  MonthOf,        \* the month of each day
  MaxUptimeTurns  \* bound: presses other than the calendar's and the menu's

ASSUME UptimeAssumption ==
  /\ UptimeDefault \in DOMAIN UptimeDays
  /\ UptimeDays \in Seq(1..MaxRangeDays)
  /\ WholeDay \in 1..TicksPerDay
  /\ Fleet \in Searches /\ Searches \subseteq SUBSET Fleet
  /\ GatewayRank \in [Fleet -> Nat] /\ \A g, h \in Fleet : GatewayRank[g] = GatewayRank[h] => g = h
  /\ AddressRank \in [Fleet -> Nat] /\ Threshold \subseteq Nat
  /\ DOMAIN MonthOf \subseteq Int

NoFigure == -1
NoFile == [kind |-> "none"]

VARIABLES
  uptimeUrl,    \* the address: its range and its unit
  uptimeToday,  \* the day at the page's last render
  uptimeLoad,
  uptimeView,   \* filters, order, and whether the menu of downloads is open
  calendar,     \* the picker, with the day at its own last render
  file,         \* what the last press downloaded
  uptimeTurns

uptimeVars ==
  <<uptimeUrl, uptimeToday, uptimeLoad, uptimeView, calendar, file, uptimeTurns>>

-----------------------------------------------------------------------------
(* Ranges.                                                                 *)
UptimePreset(p, day) == [from |-> Max({DataFrom, day - UptimeDays[p]}), to |-> day - 1]
UptimePresets(r, day) == {p \in DOMAIN UptimeDays : UptimePreset(p, day) = r}

\* uptimeRangeFromParams: days that cannot be used, those to come among them, fall
\* back to the default.
UptimeRangeOf(u, day) ==
  IF "preset" \in DOMAIN u THEN UptimePreset(u.preset, day)
  ELSE IF Usable(u) /\ u.to <= day THEN [u EXCEPT !.from = Max({u.from, DataFrom})]
  ELSE UptimePreset(UptimeDefault, day)

\* uptimeRangeToParams: the first quick range with these days.
UptimeParams(r, day) ==
  IF UptimePresets(r, day) # {} THEN PresetUrl(Min(UptimePresets(r, day))) ELSE r

UptimeUrl ==
  {PresetUrl(p) : p \in DOMAIN UptimeDays} \cup {Days(d[1], d[2]) : d \in Typed}

-----------------------------------------------------------------------------
(* The table.                                                              *)

\* Mutant: a day that is still going counts as whole once it is watched enough.
WatchedEnough(day, d, now) == day.watched < WholeDay
\* date >= today || observed < FULL_DAY_SECONDS
PartOfDay(day, d, now) == d >= now \/ day.watched < WholeDay

\* buildCell: the percentage is of the whole day, or of what was watched of it.
Cell(day, d, now) ==
  IF day.watched = 0
    THEN [kind |-> "nodata", minutes |-> 0, percent |-> NoFigure, basis |-> 0]
  ELSE IF PartOfDay(day, d, now)
    THEN [kind |-> "partial", minutes |-> day.online, basis |-> day.watched,
          percent |-> Min({1000, (1000 * day.online) \div day.watched})]
  ELSE [kind |-> "full", minutes |-> day.online, basis |-> TicksPerDay,
        percent |-> (1000 * day.online) \div TicksPerDay]

NoDay == [online |-> 0, watched |-> 0, outages |-> 0]

\* buildRow: the mean of the days' minutes, and all the time online of all the time
\* watched.
UptimeRow(g, r, at, now) ==
  LET report == Report(g, BaseRangeFor({r}, DayOf(at)), at)
      Day(d) == IF d \in DOMAIN report.days THEN report.days[d] ELSE NoDay
      cells == [d \in r.from..r.to |-> Cell(Day(d), d, now)]
      withData == {d \in r.from..r.to : cells[d].kind # "nodata"}
      online == Total([d \in withData |-> cells[d].minutes], withData)
      basis == Total([d \in withData |-> cells[d].basis], withData)
      n == Cardinality(withData)
  IN [gateway |-> g, status |-> report.status, cells |-> cells,
      minutes |-> IF n = 0 THEN NoFigure ELSE (2 * online + n) \div (2 * n),
      percent |-> IF n = 0 THEN NoFigure
                  ELSE Min({1000, (1000 * online) \div basis})]

\* Mutant: a gateway whose average is the threshold is below it.
BelowOrAt(row, t) == t = NoFigure \/ (row.percent # NoFigure /\ row.percent <= t)
BelowAverage(row, t) == t = NoFigure \/ (row.percent # NoFigure /\ row.percent < t)

\* filterRows
UptimeKept(row, v) ==
  /\ v.state \in {"all", row.status}
  /\ row.gateway \in v.search
  /\ BelowAverage(row, v.below)

\* sortRows: rows without a value are last in either direction.
SortValue(row, key) ==
  IF key = "average" THEN row.percent
  ELSE IF key = "gatewayId" THEN GatewayRank[row.gateway]
  ELSE IF AddressRank[row.gateway] = 0 THEN NoFigure ELSE AddressRank[row.gateway]
RowBefore(a, b, v) ==
  LET x == SortValue(a, v.key)
      y == SortValue(b, v.key)
  IN IF x = y THEN GatewayRank[a.gateway] < GatewayRank[b.gateway]
     ELSE IF NoFigure \in {x, y} THEN y = NoFigure
     ELSE IF v.asc THEN x < y ELSE x > y

UptimeRows(r, at, now, v) ==
  LET rows == {row \in {UptimeRow(g, r, at, now) : g \in Fleet} : UptimeKept(row, v)}
  IN OrderedBy(rows, {p \in rows \X rows : RowBefore(p[1], p[2], v)})

\* Mutant: only the hours of a day in part carry a star.
StarOfHours(c, unit) ==
  [figure |-> IF c.kind = "nodata" THEN NoFigure
              ELSE IF unit = "hours" THEN c.minutes ELSE c.percent,
   star |-> c.kind = "partial" /\ unit = "hours"]
\* cellText, avgText
CellText(c, unit) ==
  [figure |-> IF c.kind = "nodata" THEN NoFigure
              ELSE IF unit = "hours" THEN c.minutes ELSE c.percent,
   star |-> c.kind = "partial"]
AvgText(row, unit) == IF unit = "hours" THEN row.minutes ELSE row.percent

\* bucketOf: the colour of a cell.
Buckets == <<950, 900, 750, 500>>
BucketOf(percent) ==
  IF percent = NoFigure THEN 0
  ELSE Min({i \in DOMAIN Buckets : percent >= Buckets[i]} \cup {Len(Buckets) + 1})

\* What is drawn of the rows in a unit.
UptimeSheet(rows, unit) ==
  [i \in DOMAIN rows |->
     [gateway |-> rows[i].gateway,
      cells |-> [d \in DOMAIN rows[i].cells |-> CellText(rows[i].cells[d], unit)],
      colours |-> [d \in DOMAIN rows[i].cells |-> BucketOf(rows[i].cells[d].percent)],
      average |-> AvgText(rows[i], unit)]]

-----------------------------------------------------------------------------
(* The page.                                                               *)
UptimeRange == UptimeRangeOf(uptimeUrl.range, uptimeToday)
UptimeAt == IF uptimeLoad.kept.key = uptimeLoad.key THEN uptimeLoad.kept.data ELSE NoData
RowsOnScreen == UptimeRows(UptimeRange, UptimeAt, uptimeToday, uptimeView)

\* A render reads the clock; a new range asks anew.  The picker is drawn with it.
UptimeRender(u, h) ==
  LET day == DayOf(time)
  IN /\ uptimeUrl' = u
     /\ uptimeToday' = day
     /\ uptimeLoad' = Effect(h, UptimeRangeOf(u.range, day), TRUE)

NewDay(c) == [c EXCEPT !.today = DayOf(time)]

UptimeRefresh ==
  /\ Refresh(uptimeLoad)
  /\ IF uptimeLoad.refreshing
       THEN uptimeLoad' = Requested(uptimeLoad) /\ UNCHANGED <<uptimeUrl, uptimeToday, calendar>>
       ELSE UptimeRender(uptimeUrl, Requested(uptimeLoad)) /\ calendar' = NewDay(calendar)
  /\ UNCHANGED <<time, uptimeView, file, uptimeTurns>>

\* The server refuses a range it does not accept.
UptimeAnswer ==
  /\ \E asked \in uptimeLoad.out :
       \/ /\ Accepted(uptimeLoad.key)
          /\ \E at \in asked..time : UptimeRender(uptimeUrl, Landed(uptimeLoad, asked, at))
       \/ UptimeRender(uptimeUrl, StatusFailed(uptimeLoad, asked))
  /\ calendar' = NewDay(calendar)
  /\ UNCHANGED <<time, uptimeView, file, uptimeTurns>>

\* A press outside the picker closes it, one outside the menu closes the menu.
UptimePress ==
  /\ uptimeTurns < MaxUptimeTurns
  /\ uptimeTurns' = uptimeTurns + 1
  /\ UNCHANGED time

PickerClosed(c) == [NewDay(c) EXCEPT !.open = FALSE]
PressPage(u, h, v) ==
  /\ UptimePress
  /\ UptimeRender(u, h)
  /\ uptimeView' = v
  /\ calendar' = PickerClosed(calendar)
MenuShut(v) == [v EXCEPT !.menu = FALSE]

UptimeReload ==
  /\ ~uptimeLoad.refreshing
  /\ PressPage(uptimeUrl, AskAgain(uptimeLoad), MenuShut(uptimeView))
  /\ file' = NoFile

\* A link, or back and forward.
FollowUptime(u) ==
  /\ u # uptimeUrl.range
  /\ UptimePress
  /\ UptimeRender([uptimeUrl EXCEPT !.range = u], uptimeLoad)
  /\ calendar' = NewDay(calendar)
  /\ file' = NoFile /\ UNCHANGED uptimeView

\* changeRange: the address is worked out with the day of the last render.
ChangeRange(r) ==
  UptimeRender([uptimeUrl EXCEPT !.range = UptimeParams(r, uptimeToday)], uptimeLoad)
ClickUptime(p) ==
  /\ UptimePress
  /\ ChangeRange(UptimePreset(p, uptimeToday))
  /\ uptimeView' = MenuShut(uptimeView)
  /\ calendar' = NewDay(calendar)
  /\ file' = NoFile

ChangeUnit(unit) ==
  /\ PressPage([uptimeUrl EXCEPT !.unit = unit], uptimeLoad, MenuShut(uptimeView))
  /\ file' = NoFile

SetFilter(v) == v # uptimeView /\ PressPage(uptimeUrl, uptimeLoad, MenuShut(v)) /\ file' = NoFile
PressChip(s) == SetFilter([uptimeView EXCEPT !.state = IF @ = s THEN "all" ELSE s])
TypeSearch(q) == SetFilter([uptimeView EXCEPT !.search = q])
ChooseBelow(t) == SetFilter([uptimeView EXCEPT !.below = t])
UptimeToggleSort(key) ==
  SetFilter([uptimeView EXCEPT !.key = key,
                               !.asc = IF uptimeView.key = key THEN ~@ ELSE key # "average"])

-----------------------------------------------------------------------------
(* The files.                                                              *)

\* The button is off without rows.
OpenMenu ==
  /\ UptimeAt # NoData /\ RowsOnScreen # <<>>
  /\ UptimeRender(uptimeUrl, uptimeLoad)
  /\ uptimeView' = [uptimeView EXCEPT !.menu = ~@]
  /\ calendar' = PickerClosed(calendar)
  /\ file' = NoFile /\ UNCHANGED <<time, uptimeTurns>>

\* The plain figures, one row for each gateway and day.
DataSheet(rows, r) ==
  {[gateway |-> rows[i].gateway, date |-> d, kind |-> rows[i].cells[d].kind,
    minutes |-> rows[i].cells[d].minutes, percent |-> rows[i].cells[d].percent] :
     i \in DOMAIN rows, d \in r.from..r.to}

\* Both units, in the order of the page, with the figures; or the table as shown.
Workbook(rows, r, at) ==
  [kind |-> "xlsx", range |-> r, at |-> at, shown |-> Len(rows), total |-> Cardinality(Fleet),
   sheets |-> {UptimeSheet(rows, "hours"), UptimeSheet(rows, "percent")},
   data |-> DataSheet(rows, r)]
Csv(rows, r, at, unit) ==
  [kind |-> "csv", range |-> r, at |-> at, shown |-> Len(rows), total |-> Cardinality(Fleet),
   sheets |-> {UptimeSheet(rows, unit)}, data |-> {}]

\* With no data any more, as after midnight, nothing is downloaded and the menu stays.
Download(kind) ==
  /\ uptimeView.menu /\ UptimeAt # NoData
  /\ PressPage(uptimeUrl, uptimeLoad, MenuShut(uptimeView))
  /\ file' = IF kind = "xlsx" THEN Workbook(RowsOnScreen, UptimeRange, UptimeAt)
             ELSE Csv(RowsOnScreen, UptimeRange, UptimeAt, uptimeUrl.unit)

-----------------------------------------------------------------------------
(* The picker.  Its presses draw it again, the page only when the menu was *)
(* open.  A pick has no day, the first day, or both.                       *)
PressCalendar(c) ==
  /\ uptimeView' = MenuShut(uptimeView)
  /\ IF uptimeView.menu THEN UptimeRender(uptimeUrl, uptimeLoad)
     ELSE UNCHANGED <<uptimeUrl, uptimeToday, uptimeLoad>>
  /\ calendar' = c
  /\ file' = NoFile /\ UNCHANGED <<time, uptimeTurns>>

\* Opening starts from the range in force, with nothing half-picked.
ToggleCalendar ==
  PressCalendar(IF calendar.open THEN PickerClosed(calendar)
                ELSE [open |-> TRUE, pick |-> <<>>, month |-> MonthOf[UptimeRange.to],
                      today |-> DayOf(time)])

TurnMonth(to) ==
  /\ calendar.open
  /\ \/ to = calendar.month + 1 /\ to <= MonthOf[calendar.today]
     \/ to = calendar.month - 1 /\ calendar.month > MonthOf[DataFrom]
  /\ PressCalendar([calendar EXCEPT !.month = to])

Span(a, b) == IF a <= b THEN Days(a, b) ELSE Days(b, a)

\* Mutant: a second day before the first is not held to the limit.
OnlyForward(d, c) ==
  /\ d >= DataFrom /\ d <= c.today
  /\ Len(c.pick) = 1 => DaysIn(Days(c.pick[1], d)) <= MaxRangeDays
\* dayPickable: not to come, not before the data, and no pick beyond the limit.
MayPick(d, c) ==
  /\ d >= DataFrom /\ d <= c.today
  /\ Len(c.pick) = 1 => DaysIn(Span(c.pick[1], d)) <= MaxRangeDays

\* pickDay: either way round, and the third press starts afresh.
Picked(pick, d) ==
  IF Len(pick) # 1 THEN <<d>> ELSE <<Min({pick[1], d}), Max({pick[1], d})>>
PressDay(d) ==
  /\ calendar.open /\ MonthOf[d] = calendar.month /\ MayPick(d, calendar)
  /\ PressCalendar([NewDay(calendar) EXCEPT !.pick = Picked(@, d)])

ApplyDays ==
  /\ calendar.open /\ Len(calendar.pick) = 2
  /\ UptimePress
  /\ ChangeRange(Days(calendar.pick[1], calendar.pick[2]))
  /\ uptimeView' = MenuShut(uptimeView)
  /\ calendar' = PickerClosed(calendar)
  /\ file' = NoFile

-----------------------------------------------------------------------------
UptimeInit ==
  /\ time = LastTick(DataFrom - 1) + 1
  /\ \E u \in UptimeUrl : uptimeUrl = [range |-> u, unit |-> "hours"]
  /\ uptimeToday = DayOf(time)
  /\ uptimeLoad = Loading(UptimeRangeOf(uptimeUrl.range, uptimeToday))
  /\ uptimeView = [state |-> "all", search |-> Fleet, below |-> NoFigure, key |-> "average",
                   asc |-> FALSE, menu |-> FALSE]
  /\ calendar = [open |-> FALSE, pick |-> <<>>, month |-> MonthOf[DataFrom],
                 today |-> DayOf(time)]
  /\ file = NoFile
  /\ uptimeTurns = 0

UptimeTimePasses == TimePasses /\ UNCHANGED uptimeVars
UptimeNext ==
  \/ UptimeTimePasses
  \/ UptimeRefresh \/ UptimeAnswer \/ UptimeReload
  \/ \E u \in UptimeUrl : FollowUptime(u)
  \/ \E p \in DOMAIN UptimeDays : ClickUptime(p)
  \/ \E unit \in {"hours", "percent"} \ {uptimeUrl.unit} : ChangeUnit(unit)
  \/ \E s \in {"online", "offline", "no-data"} : PressChip(s)
  \/ \E q \in Searches : TypeSearch(q)
  \/ \E t \in Threshold \cup {NoFigure} : ChooseBelow(t)
  \/ \E key \in {"average", "gatewayId", "address"} : UptimeToggleSort(key)
  \/ OpenMenu
  \/ \E kind \in {"xlsx", "csv"} : Download(kind)
PickerNext ==
  \/ UptimeTimePasses
  \/ UptimeRefresh \/ UptimeAnswer
  \/ ToggleCalendar
  \/ \E month \in {MonthOf[d] : d \in DOMAIN MonthOf} : TurnMonth(month)
  \/ \E d \in DOMAIN MonthOf : PressDay(d)
  \/ ApplyDays
  \/ \E p \in DOMAIN UptimeDays : ClickUptime(p)

-----------------------------------------------------------------------------
\* What there was to tell of a gateway's day, up to a moment.
OnDay(d, at) == {t \in 1..at : DayOf(t) = d}
TrueOnline(g, d, at) == Cardinality(OnlineOf(g, OnDay(d, at)))
TrueWatched(g, d, at) == Cardinality({t \in OnDay(d, at) : g[t] # "no-data"})

\* uptimeModel.ts:4: whenever it was read and drawn, the table tells each day's time
\* online; only a day that is over and was watched is drawn without a star; the
\* average lies between the days it is the average of; and the rows are those that the
\* filters ask for, the best first.
UptimeShown ==
  UptimeAt # NoData =>
    LET r == UptimeRange
        rows == RowsOnScreen
        here == {rows[i].gateway : i \in DOMAIN rows}
    IN /\ uptimeLoad.key = r
       /\ \A g \in Fleet :
            LET row == UptimeRow(g, r, UptimeAt, uptimeToday)
                told == {d \in r.from..r.to : row.cells[d].kind # "nodata"}
            IN /\ \A d \in r.from..r.to :
                    LET c == row.cells[d]
                    IN /\ c.minutes = TrueOnline(g, d, UptimeAt)
                       /\ (c.kind = "nodata") = (TrueWatched(g, d, UptimeAt) = 0)
                       /\ c.kind = "full" =>
                            d < uptimeToday /\ TrueWatched(g, d, UptimeAt) >= WholeDay
               /\ told # {} =>
                    /\ row.percent >= Min({row.cells[d].percent : d \in told})
                    /\ row.percent <= Max({row.cells[d].percent : d \in told})
               /\ g \in here =>
                    /\ uptimeView.state \in {"all", g[UptimeAt]}
                    /\ uptimeView.below # NoFigure => row.percent \in 0..(uptimeView.below - 1)
       /\ Cardinality(here) = Len(rows)
       /\ uptimeView.key = "average" /\ ~uptimeView.asc =>
            \A i, j \in DOMAIN rows : i < j => rows[i].percent >= rows[j].percent

\* uptimeExport.ts:122: a file tells of the days in its name and of no others, every
\* sheet has the same gateways in the same order, with the same days unknown, and what
\* it gives as figures is what the gateway was online.
FilesTellTheirRange ==
  file # NoFile =>
    /\ \A a, b \in file.sheets :
         /\ Len(a) = file.shown /\ Len(b) = file.shown
         /\ \A i \in DOMAIN a :
              /\ a[i].gateway = b[i].gateway
              /\ DOMAIN a[i].cells = file.range.from..file.range.to
              /\ \A d \in DOMAIN a[i].cells :
                   /\ (a[i].cells[d].figure = NoFigure) = (b[i].cells[d].figure = NoFigure)
                   /\ a[i].cells[d].star = b[i].cells[d].star
    /\ \A x \in file.data : x.minutes = TrueOnline(x.gateway, x.date, file.at)
    /\ file.kind = "xlsx" => Cardinality(file.data) = file.shown * DaysIn(file.range)

\* RangeControls.tsx:7 and gatewayStatusModel.ts:107: whatever days are pressed, and in
\* whatever order, over midnight too, a half-made pick can be finished, and the server
\* accepts a finished one, which the address then tells as it was picked.
PicksAreAccepted ==
  calendar.open =>
    LET p == calendar.pick
    IN /\ Len(p) = 1 => MayPick(p[1], calendar)
       /\ Len(p) = 2 =>
            /\ Accepted(Days(p[1], p[2]))
            /\ UptimeRangeOf(Days(p[1], p[2]), DayOf(time)) = Days(p[1], p[2])
=============================================================================
