--------------------------- MODULE GatewayStatusPage ---------------------------
(***************************************************************************)
(* The Gateway Status page over the routes of gatewayStatus.ts: an address *)
(* that says which days to show, the range worked out from it once, and    *)
(* two loads that keep themselves fresh (useGatewayLoad): the bundle of    *)
(* quick ranges ending today, and the days picked by hand.                 *)
(*                                                                         *)
(* Nothing re-renders the page when the day changes: it looks at the clock *)
(* when something else changes its state.  Each load has a key; a new key  *)
(* drops what was asked for the old one, and what it had is not shown.     *)
(*                                                                         *)
(* First what the server answers (services/gatewayConnectivity.ts): one    *)
(* upstream call, many ranges.  Time is a number of moments, TicksPerDay   *)
(* of them a day; a range is a first and a last day.  A gateway is its     *)
(* history: what it was at each moment.  The upstream (external) tells, as *)
(* of the moment it is asked, what it has watched on the days asked for:   *)
(* per day the moments on- and offline and the outages, and the stretches  *)
(* of one state.  An outage that is running when the days asked for begin  *)
(* counts on the first day.  Seconds, heartbeats and zones are left out.   *)
(***************************************************************************)
EXTENDS Integers, Sequences, FiniteSets, FiniteSetsExt

CONSTANTS
  TicksPerDay,
  DataFrom,       \* DATA_AVAILABLE_FROM
  PresetDays,     \* the lengths of the quick ranges, shortest first
  MaxRangeDays,
  LastMoment         \* bound: the last moment

ASSUME ConnectivityAssumption ==
  /\ TicksPerDay \in Nat \ {0} /\ DataFrom \in Nat \ {0} /\ MaxRangeDays \in Nat \ {0}
  /\ LastMoment \in Nat /\ LastMoment > (DataFrom - 1) * TicksPerDay
  /\ PresetDays # <<>> /\ PresetDays \in Seq(1..MaxRangeDays)

Moment == 1..LastMoment
Preset == DOMAIN PresetDays
DayOf(t) == (t - 1) \div TicksPerDay + 1
LastTick(d) == d * TicksPerDay
DaysIn(r) == r.to - r.from + 1
Within(d, r) == d >= r.from /\ d <= r.to

\* parseRange: the ranges the server answers.
Accepted(r) == r.from <= r.to /\ r.from >= DataFrom /\ DaysIn(r) <= MaxRangeDays

\* presetRanges: they end on the day asked for, and do not reach back before the data.
PresetRange(p, today) ==
  [from |-> Max({DataFrom, today + 1 - PresetDays[p]}), to |-> today]

\* Mutant: only the days of the ranges are asked for.
NoLead(start) == start

\* The one range to ask for: a day more in front, and on to today at least.
Lead(start) == IF start - 1 >= DataFrom THEN start - 1 ELSE start
BaseRangeFor(ranges, through) ==
  [from |-> Lead(Min({r.from : r \in ranges})), to |-> Max({r.to : r \in ranges} \cup {through})]

-----------------------------------------------------------------------------
(* The upstream, asked at a moment for a range.                            *)
Watched(g, r, at) == {t \in 1..at : Within(DayOf(t), r) /\ g[t] # "no-data"}
OnlineOf(g, T) == {t \in T : g[t] = "online"}
FirstTick(r) == LastTick(r.from - 1) + 1

OutageStarts(g, r, T) ==
  {t \in T : g[t] = "offline" /\ (t <= FirstTick(r) \/ g[t - 1] # "offline")}

Report(g, r, at) ==
  LET seen == Watched(g, r, at)
      On(d) == {t \in seen : DayOf(t) = d}
  IN [status |-> g[Min({at, LastTick(r.to)})],
      days |-> [d \in {DayOf(t) : t \in seen} |->
                  [online |-> Cardinality(OnlineOf(g, On(d))),
                   watched |-> Cardinality(On(d)),
                   outages |-> Cardinality(OutageStarts(g, r, On(d)))]]]

\* The stretches of one state, as first and last moment.
Segments(g, r, at) ==
  LET seen == Watched(g, r, at)
  IN {s \in [status : {"online", "offline"}, first : seen, last : seen] :
        /\ s.first <= s.last
        /\ \A t \in s.first..s.last : t \in seen /\ g[t] = s.status
        /\ ~(s.first - 1 \in seen /\ g[s.first - 1] = s.status)
        /\ ~(s.last + 1 \in seen /\ g[s.last + 1] = s.status)}

-----------------------------------------------------------------------------
Total(figure, S) == SumFunctionOnSet(figure, S)

\* The members of S, each after those that B says stand before it.
OrderedBy(S, B) ==
  [k \in 1..Cardinality(S) |->
     CHOOSE x \in S : Cardinality({y \in S : <<y, x>> \in B}) = k - 1]

\* sliceGateway: the days of the range, added up; no day, no figures.
SliceGateway(report, r) ==
  LET days == {d \in DOMAIN report.days : Within(d, r)}
  IN [status |-> report.status,
      seen |-> days # {},
      online |-> Total([d \in days |-> report.days[d].online], days),
      observed |-> Total([d \in days |-> report.days[d].watched], days),
      events |-> Total([d \in days |-> report.days[d].outages], days)]

\* sliceTimeline: the stretches that touch the range, cut at its ends.
SliceTimeline(segments, r) ==
  {[s EXCEPT !.first = Max({s.first, FirstTick(r)}), !.last = Min({s.last, LastTick(r.to)})] :
     s \in {x \in segments : x.last >= FirstTick(r) /\ x.first <= LastTick(r.to)}}

\* computeTimelineStats, in the browser.
TimelineStats(segments) ==
  LET length == [s \in segments |-> s.last - s.first + 1]
      down == {s \in segments : s.status = "offline"}
  IN [online |-> Total(length, segments \ down),
      observed |-> Total(length, segments),
      longest |-> Max({length[s] : s \in down} \cup {0}),
      periods |-> Cardinality(down)]
-----------------------------------------------------------------------------
(* The page                                                                *)

CONSTANTS
  Fleet,        \* the gateways: functions from moments to what they were
  NoData,
  Typed,        \* bound: the pairs of days that links and old addresses hold
  MaxTurns,     \* bound: changes of the address, and reloads by the button
  MaxOut        \* bound: requests of one load on their way at once

\* Nothing was watched before the data.
ASSUME FleetAssumption ==
  /\ IsFiniteSet(Fleet) /\ Fleet \subseteq [Moment -> {"online", "offline", "no-data"}]
  /\ \A g \in Fleet : \A t \in Moment : DayOf(t) < DataFrom => g[t] = "no-data"
  /\ Typed \subseteq Int \X Int /\ NoData \notin Nat

VARIABLES
  time,
  url,          \* the address: a preset, or a first and a last day as typed
  range,        \* useMemo: worked out when the address changed
  today,        \* the day at the last render
  bundle, custom,
  turns

statusVars == <<time, url, range, today, bundle, custom, turns>>

Days(f, t) == [from |-> f, to |-> t]
PresetUrl(p) == [preset |-> p]

\* What can stand in the address; 1D is the address without a range.
Url == {PresetUrl(p) : p \in Preset} \cup {Days(d[1], d[2]) : d \in Typed}

\* rangeFromParams: what cannot be used falls back to 1D.
Usable(u) ==
  u.from <= u.to /\ u.to >= DataFrom /\ DaysIn(u) <= MaxRangeDays
RangeFromParams(u, day) ==
  IF "preset" \in DOMAIN u THEN PresetRange(u.preset, day)
  ELSE IF Usable(u) THEN [u EXCEPT !.from = Max({u.from, DataFrom})]
  ELSE PresetRange(1, day)

\* presetOf: the first quick range with these days.
Presets(r, day) == {p \in Preset : PresetRange(p, day) = r}
PresetOf(r, day) == Min(Presets(r, day))
RangeToParams(r, day) ==
  IF Presets(r, day) # {} THEN PresetUrl(PresetOf(r, day)) ELSE r

-----------------------------------------------------------------------------
(* useGatewayLoad.                                                         *)
Requested(h) == [h EXCEPT !.out = @ \cup {time}, !.refreshing = TRUE]
Loading(key) ==
  [on |-> TRUE, key |-> key, out |-> {time}, refreshing |-> TRUE,
   kept |-> [key |-> key, data |-> NoData, error |-> FALSE]]

\* The effect: a changed key, or being switched on or off, ends what runs.
Effect(h, key, on) ==
  IF h.key = key /\ h.on = on THEN h
  ELSE LET ended == [h EXCEPT !.key = key, !.on = on, !.out = {}]
       IN IF on THEN Requested(ended) ELSE ended

\* The page renders: it reads the clock, and both effects follow.
Render(r, b, c) ==
  LET day == DayOf(time)
  IN /\ range' = r
     /\ today' = day
     /\ bundle' = Effect(b, day, TRUE)
     /\ custom' = Effect(c, r, Presets(r, day) = {})

\* The minute's refresh; telling that it runs renders the page, unless it is
\* told already.
Refresh(h) == h.on /\ Cardinality(h.out) < MaxOut /\ time \notin h.out

RefreshBundle ==
  /\ Refresh(bundle)
  /\ IF bundle.refreshing
       THEN bundle' = Requested(bundle) /\ UNCHANGED <<range, today, custom>>
       ELSE Render(range, Requested(bundle), custom)
  /\ UNCHANGED <<time, url, turns>>

RefreshCustom ==
  /\ Refresh(custom)
  /\ IF custom.refreshing
       THEN custom' = Requested(custom) /\ UNCHANGED <<range, today, bundle>>
       ELSE Render(range, bundle, Requested(custom))
  /\ UNCHANGED <<time, url, turns>>

\* An answer tells what the upstream knew at a moment after it was asked.
Landed(h, asked, data) ==
  [h EXCEPT !.out = @ \ {asked}, !.refreshing = FALSE,
            !.kept = [key |-> h.key, data |-> data, error |-> FALSE]]

\* The last good answer of the same key stays.
StatusFailed(h, asked) ==
  [h EXCEPT !.out = @ \ {asked}, !.refreshing = FALSE,
            !.kept = [key |-> h.key, error |-> TRUE,
                      data |-> IF h.kept.key = h.key THEN h.kept.data ELSE NoData]]

AnswerBundle ==
  /\ \E asked \in bundle.out :
       \/ \E at \in asked..time : Render(range, Landed(bundle, asked, at), custom)
       \/ Render(range, StatusFailed(bundle, asked), custom)
  /\ UNCHANGED <<time, url, turns>>

AnswerCustom ==
  /\ \E asked \in custom.out :
       \/ \E at \in asked..time : Render(range, bundle, Landed(custom, asked, at))
       \/ Render(range, bundle, StatusFailed(custom, asked))
  /\ UNCHANGED <<time, url, turns>>

\* The button asks again for both; it is off while one of them says it runs.
AskAgain(h) == IF h.on THEN Requested([h EXCEPT !.out = {}]) ELSE h
Reload ==
  /\ turns < MaxTurns
  /\ ~bundle.refreshing /\ ~(custom.on /\ custom.refreshing)
  /\ turns' = turns + 1
  /\ Render(range, AskAgain(bundle), AskAgain(custom))
  /\ UNCHANGED <<time, url>>

-----------------------------------------------------------------------------
\* The address changes: the same address leaves the range as it was.
GoTo(u) ==
  /\ turns < MaxTurns
  /\ turns' = turns + 1
  /\ url' = u
  /\ Render(IF u = url THEN range ELSE RangeFromParams(u, DayOf(time)), bundle, custom)
  /\ UNCHANGED time

\* A link, or back and forward.
Follow(u) == u # url /\ GoTo(u)

\* A click on a quick range, or Apply in the calendar: what was last drawn is
\* what is clicked, and the address is worked out from it at the click.
Pick(r) == GoTo(RangeToParams(r, DayOf(time)))
ClickPreset(p) == Pick(PresetRange(p, today))

DayPickable(d) == d <= today /\ d >= DataFrom
Apply(f, t) ==
  /\ DayPickable(f) /\ DayPickable(t) /\ f <= t
  /\ DaysIn(Days(f, t)) <= MaxRangeDays
  /\ Pick(Days(f, t))

TimePasses ==
  /\ time < LastMoment
  /\ time' = time + 1
  /\ UNCHANGED <<url, range, today, bundle, custom, turns>>

StatusInit ==
  /\ time = LastTick(DataFrom - 1) + 1
  /\ url \in Url
  /\ range = RangeFromParams(url, DayOf(time))
  /\ today = DayOf(time)
  /\ bundle = Loading(today)
  /\ custom = IF Presets(range, today) = {} THEN Loading(range)
              ELSE [Loading(range) EXCEPT !.on = FALSE, !.out = {}, !.refreshing = FALSE]
  /\ turns = 0

StatusNext ==
  \/ TimePasses
  \/ RefreshBundle \/ RefreshCustom
  \/ AnswerBundle \/ AnswerCustom
  \/ Reload
  \/ \E u \in Url : Follow(u)
  \/ \E p \in Preset : ClickPreset(p)
  \/ \E f, t \in 1..DayOf(LastMoment) : Apply(f, t)

-----------------------------------------------------------------------------
(* What is on screen.                                                      *)
IsPreset == Presets(range, today) # {}
Active == IF IsPreset THEN bundle ELSE custom
OnScreen == IF Active.kept.key = Active.key THEN Active.kept.data ELSE NoData

\* The days cut from the answer, and those the upstream was asked for.
CutOut == IF IsPreset THEN PresetRange(PresetOf(range, today), bundle.key) ELSE custom.key
AskedFor(at) ==
  BaseRangeFor(IF IsPreset THEN {PresetRange(p, bundle.key) : p \in Preset} ELSE {custom.key},
               DayOf(at))

\* What there is to tell of a gateway on the days of a range, up to a moment.
Moments(r, at) == {t \in 1..at : Within(DayOf(t), r)}
IsDown(g, t) == t > 0 /\ g[t] = "offline"
Began(g, T) == {t \in T : IsDown(g, t) /\ (t = 1 \/ ~IsDown(g, t - 1))}
RunningAt(g, t) == IsDown(g, t) /\ t > 1 /\ IsDown(g, t - 1)

Figures(g, r, at, cut) ==
  LET T == Moments(r, at)
  IN /\ cut.status = g[at]
     /\ cut.online = Cardinality(OnlineOf(g, T))
     /\ cut.observed = Cardinality({t \in T : g[t] # "no-data"})
     /\ cut.events = Cardinality(Began(g, T))

\* The timeline of the same answer agrees with the table; it draws one more
\* period when an outage was running as the range began.
Drawn(g, r, at, cut, line) ==
  LET start == FirstTick(r)
  IN /\ line.online = cut.online /\ line.observed = cut.observed
     /\ line.periods = cut.events + (IF start <= at /\ RunningAt(g, start) THEN 1 ELSE 0)

\* gatewayConnectivity.ts:262 and useGatewayLoad.ts:15: no request of the page is
\* refused, and what it shows, by whichever load and whenever answered, is cut
\* for the range on screen and says of every gateway what there was to say of
\* those days when the upstream was read.
ShownForRange ==
  /\ Accepted(Days(bundle.key, bundle.key))
  /\ custom.on => Accepted(custom.key)
  /\ OnScreen # NoData =>
       LET at == OnScreen
           base == AskedFor(at)
       IN /\ CutOut = range
          /\ \A g \in Fleet :
               LET cut == SliceGateway(Report(g, base, at), range)
               IN /\ Figures(g, range, at, cut)
                  /\ Drawn(g, range, at, cut, TimelineStats(SliceTimeline(Segments(g, base, at), range)))
=============================================================================
