------------------------------ MODULE AlarmsPage ------------------------------
(***************************************************************************)
(* The page of field alerts (AlarmsPage.tsx) with its drawer               *)
(* (AlertDetailDrawer.tsx), over routes/alarms.ts.                         *)
(*                                                                         *)
(* Any change of the page's controls that changes what is asked for sends  *)
(* a request.  Nothing relates the answers to each other: the last one to  *)
(* arrive is shown, and the first one turns the loader off.  The drawer    *)
(* drops the answer for an alert that is no longer open.  Its "resolve"    *)
(* reloads the list with the controls as they were when it was pressed.    *)
(***************************************************************************)
EXTENDS PagedList

CONSTANTS
  Alerts,          \* upstream's alerts, newest first: id, owned, priority, status, hits
  NoAlert,
  AlarmWord,       \* what can be typed into the search box; "" is nothing
  AlarmSize,       \* the page sizes on offer
  PriorityPill, StatusPill,  \* the filters on offer, with "ALL"
  AlarmLink,       \* what the address may name: alerts, and NoAlert
  SearchWindow,    \* how many alerts a search looks through
  DetailWindow,    \* how many the detail looks through when it cannot be read alone
  FallbackTotal,   \* the total shown when the server says 0
  MaxAlarmPresses, \* bound: what the user does to the list, rows opened included
  MaxAlarmLoads,   \* bound: lists on their way at once
  MaxResolves      \* bound: resolve requests on their way at once

ASSUME AlarmsAssumption ==
  /\ "" \in AlarmWord
  /\ AlarmSize \subseteq Nat \ {0}
  /\ {SearchWindow, DetailWindow, FallbackTotal} \subseteq Nat
  /\ Alerts \in Seq(Members(Alerts))

VARIABLES
  linked,       \* the alert in the address, or NoAlert
  controls,     \* the filters, the box, its timer, page and size
  lists,        \* requests for the list on their way
  table,        \* what the last answer brought, and the loader
  alertDrawer,
  resolving,    \* resolve requests on their way
  alarmTour,    \* ghost: the pages of this list that were shown
  alarmPresses

alarmVars ==
  <<linked, controls, lists, table, alertDrawer, resolving, alarmTour, alarmPresses>>

AlertOf(id) == CHOOSE a \in Members(Alerts) : a.id = id

-----------------------------------------------------------------------------
(* The server.                                                             *)

\* The upstream is asked for the page, or for the newest alerts to search in.
UpstreamAlerts(q) ==
  IF q.search = "" THEN Chunk(Alerts, q.page, q.size) ELSE Chunk(Alerts, 0, SearchWindow)

AlertMatches(a, q) ==
  /\ a.owned
  /\ q.search = "" \/ q.search \in a.hits
  /\ q.priority \in {"ALL", a.priority}
  /\ q.status \in {"ALL", a.status}

\* Filters apply to the page that was read.  The totals are the upstream's, those
\* of the rows found when searching.
AlertList(q) ==
  LET read  == UpstreamAlerts(q)
      found == RowsAt(read, {i \in DOMAIN read : AlertMatches(read[i], q)})
      total == IF q.search = "" THEN Len(Alerts) ELSE Len(found)
  IN [content |-> IF q.search = "" THEN found ELSE Chunk(found, q.page, q.size),
      total |-> total, pages |-> PageCount(total, q.size)]

\* The alert by itself, or among the newest ones; not told when it is another's.
AlertDetail(id, alone) ==
  LET known == IF alone THEN Alerts ELSE Chunk(Alerts, 0, DetailWindow)
  IN \E a \in Members(known) : a.id = id /\ a.owned

-----------------------------------------------------------------------------
(* The list.                                                               *)

AlarmQuery(c) ==
  [page |-> c.page, size |-> c.size, search |-> c.search,
   priority |-> c.priority, status |-> c.status]

\* Mutant: the status is forgotten among the things that ask again.
StatusForgotten(c) == [AlarmQuery(c) EXCEPT !.status = "ALL"]
AlarmKey(c) == AlarmQuery(c)

\* New controls: the effect of loadAlerts runs when it is another function.
SetControls(c) ==
  /\ controls' = c
  /\ IF AlarmKey(c) = AlarmKey(controls) THEN UNCHANGED <<lists, table>>
     ELSE /\ Len(lists) < MaxAlarmLoads
          /\ lists' = Send(lists, AlarmQuery(c))
          /\ table' = [table EXCEPT !.loading = TRUE]

\* The drawer's backdrop lies over the page.
Press == /\ alarmPresses < MaxAlarmPresses /\ alertDrawer.alert = NoAlert
         /\ alarmPresses' = alarmPresses + 1
         /\ UNCHANGED <<linked, alertDrawer, resolving, alarmTour>>

TypeWord(w) == w # controls.input /\ Press /\ SetControls([controls EXCEPT !.input = w, !.timer = TRUE])

\* 400 ms after the last key, and after the page was opened.
SearchStarts ==
  /\ controls.timer
  /\ SetControls([controls EXCEPT !.search = controls.input, !.page = 0, !.timer = FALSE])
  /\ UNCHANGED <<linked, alertDrawer, resolving, alarmTour, alarmPresses>>

\* The pills and the page size start again at the first page, the cards do not.
PickPriority(p) == Press /\ SetControls([controls EXCEPT !.priority = p, !.page = 0])
PickStatus(s) == Press /\ SetControls([controls EXCEPT !.status = s, !.page = 0])
PickSize(n) == Press /\ SetControls([controls EXCEPT !.size = n, !.page = 0])
CardAll == Press /\ SetControls([controls EXCEPT !.priority = "ALL", !.status = "ALL"])
CardOpen == Press /\ SetControls([controls EXCEPT !.status = "OPEN"])
CardMedium == Press /\ SetControls([controls EXCEPT !.priority = "MEDIUM"])

Filtered == controls.input # "" \/ controls.priority # "ALL" \/ controls.status # "ALL"
ResetFilters ==
  /\ Filtered /\ Press
  /\ SetControls([controls EXCEPT !.search = "", !.priority = "ALL", !.status = "ALL", !.page = 0,
                                  !.input = "", !.timer = @ \/ controls.input # ""])

RefreshAlarms ==
  /\ Press /\ Len(lists) < MaxAlarmLoads
  /\ lists' = Send(lists, AlarmQuery(controls))
  /\ table' = [table EXCEPT !.loading = TRUE]
  /\ UNCHANGED controls

\* The footer.
MayGoBack == controls.page # 0 /\ ~table.loading
\* Mutant: the last page cannot be reached.
OneShort == controls.page + 1 < table.pages - 1 /\ ~table.loading
MayGoOn == controls.page < table.pages - 1 /\ ~table.loading
FirstAlarms == MayGoBack /\ Press /\ SetControls([controls EXCEPT !.page = 0])
PreviousAlarms == MayGoBack /\ Press /\ SetControls([controls EXCEPT !.page = @ - 1])
NextAlarms == MayGoOn /\ Press /\ SetControls([controls EXCEPT !.page = @ + 1])
LastAlarms == MayGoOn /\ Press /\ SetControls([controls EXCEPT !.page = table.pages - 1])

-----------------------------------------------------------------------------
(* The drawer.                                                             *)

NoAlertDrawer ==
  [alert |-> NoAlert, detail |-> NoAlert, asking |-> NoAlert, resolved |-> NoAlert,
   photo |-> NoAlert, tab |-> "overview"]

\* Opening mounts the drawer.  Another alert in the open drawer asks for its own
\* detail and leaves everything else.
OpenedOn(d, id) ==
  IF d.alert = NoAlert THEN [NoAlertDrawer EXCEPT !.alert = id, !.asking = id]
  ELSE IF d.alert = id THEN d
  ELSE [d EXCEPT !.alert = id, !.asking = id]

\* A row is clicked; the loader lies over the rows.
SelectAlarm(a) ==
  /\ a \in Members(table.rows) /\ ~table.loading /\ alertDrawer.alert = NoAlert
  /\ alarmPresses < MaxAlarmPresses
  /\ alarmPresses' = alarmPresses + 1
  /\ alertDrawer' = OpenedOn(alertDrawer, a.id)
  /\ UNCHANGED <<linked, controls, lists, table, resolving, alarmTour>>

DetailArrives(alone) ==
  /\ alertDrawer.asking # NoAlert
  /\ alertDrawer' =
       IF AlertDetail(alertDrawer.asking, alone)
         THEN [alertDrawer EXCEPT !.detail = alertDrawer.asking, !.asking = NoAlert]
         ELSE [alertDrawer EXCEPT !.asking = NoAlert]
  /\ UNCHANGED <<linked, controls, lists, table, resolving, alarmTour, alarmPresses>>

\* detail?.alert || alert
ShownAlert(d) == IF d.detail # NoAlert THEN d.detail ELSE d.alert
IsResolved(d) == d.resolved # NoAlert \/ AlertOf(ShownAlert(d)).status = "RESOLVED"

\* A photo that is looked at lies over the drawer.
InAlertDrawer(d) ==
  /\ alertDrawer.alert # NoAlert /\ alertDrawer' = d
  /\ UNCHANGED <<linked, controls, lists, table, resolving, alarmTour, alarmPresses>>
NoPhoto == alertDrawer.alert # NoAlert /\ alertDrawer.photo = NoAlert

OpenAlertTab(t) == NoPhoto /\ InAlertDrawer([alertDrawer EXCEPT !.tab = t])
OpenPhoto ==
  /\ NoPhoto /\ alertDrawer.tab = "overview"
  /\ InAlertDrawer([alertDrawer EXCEPT !.photo = ShownAlert(alertDrawer)])
ClosePhoto == ~NoPhoto /\ InAlertDrawer([alertDrawer EXCEPT !.photo = NoAlert])

\* The button stands in the footer, in the banner and on the last tab.
ResolveAlert ==
  /\ NoPhoto /\ ~IsResolved(alertDrawer)
  /\ Cardinality(resolving) < MaxResolves
  /\ resolving' = resolving \cup
       {[alert |-> ShownAlert(alertDrawer), q |-> AlarmQuery(controls), open |-> TRUE]}
  /\ UNCHANGED <<linked, controls, lists, table, alertDrawer, alarmTour, alarmPresses>>

\* Mutant: whichever drawer is open takes the answer.
ToAnyDrawer(r) == IF alertDrawer.alert = NoAlert THEN alertDrawer
                  ELSE [alertDrawer EXCEPT !.resolved = r.alert]
ToItsDrawer(r) == IF r.open THEN [alertDrawer EXCEPT !.resolved = r.alert] ELSE alertDrawer

\* Refused or not, the drawer says resolved; the server keeps nothing.  When it was
\* not refused, the list is asked for once more as it was when the button was pressed.
ResolveEnds(r) ==
  /\ resolving' = resolving \ {r}
  /\ alertDrawer' = ToItsDrawer(r)
  /\ \/ UNCHANGED <<lists, table>>
     \/ /\ Len(lists) < MaxAlarmLoads
        /\ lists' = Append(lists, [q |-> r.q, late |-> r.q # AlarmQuery(controls)])
        /\ table' = [table EXCEPT !.loading = TRUE]
  /\ UNCHANGED <<linked, controls, alarmTour, alarmPresses>>

ReopenAlert ==
  /\ NoPhoto /\ alertDrawer.tab = "resolution" /\ IsResolved(alertDrawer)
  /\ InAlertDrawer([alertDrawer EXCEPT !.resolved = NoAlert])

CloseAlert ==
  /\ NoPhoto
  /\ alertDrawer' = NoAlertDrawer
  /\ resolving' = {[r EXCEPT !.open = FALSE] : r \in resolving}
  /\ UNCHANGED <<linked, controls, lists, table, alarmTour, alarmPresses>>

-----------------------------------------------------------------------------
(* An answer.  The alert of the address is opened whenever it is listed.   *)
Opened(rows) ==
  IF linked # NoAlert /\ linked \in {a.id : a \in Members(rows)} THEN OpenedOn(alertDrawer, linked)
  ELSE alertDrawer

SameList(q) == [q EXCEPT !.page = 0]

AlarmsArrive(i) ==
  LET q == lists[i].q
      ans == AlertList(q)
  IN /\ lists' = Arrived(lists, i)
     /\ table' =
          [rows |-> ans.content, of |-> q, late |-> lists[i].late, failed |-> FALSE,
           total |-> IF ans.total = 0 THEN FallbackTotal ELSE ans.total,
           pages |-> IF ans.pages = 0 THEN PageCount(FallbackTotal, q.size) ELSE ans.pages,
           loading |-> FALSE]
     /\ alertDrawer' = Opened(ans.content)
     /\ alarmTour' = Seen(alarmTour, SameList(q), q.page, ans.content)
     /\ UNCHANGED <<linked, controls, resolving, alarmPresses>>

AlarmsFail(i) ==
  /\ lists' = Arrived(lists, i)
  /\ table' = [table EXCEPT !.loading = FALSE, !.failed = TRUE]
  /\ UNCHANGED <<linked, controls, alertDrawer, resolving, alarmTour, alarmPresses>>

AlarmsInit ==
  /\ linked \in AlarmLink
  /\ \E n \in AlarmSize :
       controls = [input |-> "", search |-> "", timer |-> TRUE, priority |-> "ALL",
                   status |-> "ALL", page |-> 0, size |-> n]
  /\ lists = Send(<<>>, AlarmQuery(controls))
  /\ table = [rows |-> <<>>, of |-> AlarmQuery(controls), late |-> FALSE, failed |-> FALSE,
              total |-> FallbackTotal, pages |-> PageCount(FallbackTotal, controls.size),
              loading |-> TRUE]
  /\ alertDrawer = NoAlertDrawer
  /\ resolving = {}
  /\ alarmTour = [list |-> SameList(AlarmQuery(controls)), pages |-> {}, rows |-> {}]
  /\ alarmPresses = 0

AlarmsNext ==
  \/ \E w \in AlarmWord : TypeWord(w)
  \/ SearchStarts
  \/ \E p \in PriorityPill : PickPriority(p)
  \/ \E s \in StatusPill : PickStatus(s)
  \/ \E n \in AlarmSize : PickSize(n)
  \/ CardAll \/ CardOpen \/ CardMedium
  \/ ResetFilters \/ RefreshAlarms
  \/ FirstAlarms \/ PreviousAlarms \/ NextAlarms \/ LastAlarms
  \/ \E i \in DOMAIN lists : AlarmsArrive(i) \/ AlarmsFail(i)
  \/ \E a \in Members(table.rows) : SelectAlarm(a)
  \/ \E alone \in BOOLEAN : DetailArrives(alone)
  \/ \E t \in {"overview", "resolution"} : OpenAlertTab(t)
  \/ OpenPhoto \/ ClosePhoto \/ ResolveAlert \/ ReopenAlert \/ CloseAlert
  \/ \E r \in resolving : ResolveEnds(r)

-----------------------------------------------------------------------------
(* What is drawn, and whose it is.                                         *)

\* Which alerts the header and the tabs tell of: the alert as the row or the detail
\* has it, whether it was resolved here, and the meter, the consumer and the diagnosis
\* of the detail.  What is not known yet is a text of the page.
HeaderTells(d) == {ShownAlert(d), d.detail, d.resolved}
OverviewTells(d) == {ShownAlert(d), d.resolved}
MeterTabTells(d) == {ShownAlert(d), d.detail}
LocationTells(d) == {ShownAlert(d), d.detail}
DiagnosisTells(d) == {d.detail}
ResolutionTells(d) == {ShownAlert(d), d.resolved}
PhotoTells(d) == {d.photo}

\* AlertDetailDrawer.tsx:106 and 135: all that the drawer draws, and what it says of
\* having been resolved, is of the alert that is open.  (Where the address names
\* an alert, an answer of the list may put that alert into an open drawer.)
DrawerOfAlert ==
  LET d == alertDrawer
  IN linked = NoAlert =>
       UNION {HeaderTells(d), OverviewTells(d), MeterTabTells(d), LocationTells(d),
              DiagnosisTells(d), ResolutionTells(d), PhotoTells(d)}
         \subseteq {NoAlert, d.alert}

\* AlarmsPage.tsx:55: when nothing is on its way, the rows are those of the controls
\* and of the word in the box, unless a load failed since or the answer shown was
\* overtaken or asked for controls that had been changed.
AlarmsForAsked ==
  lists = <<>> /\ ~table.late /\ ~table.failed =>
    /\ table.of = AlarmQuery(controls)
    /\ ~controls.timer => controls.search = controls.input

\* alarms.ts:112 and AlarmsPage.tsx:656: whoever has seen every page up to the one
\* where there is no next has seen every alert that matches; a search finds what
\* matches among the newest.
AlarmPagesComplete ==
  LET q == AlarmQuery(controls)
      among == IF q.search = "" THEN Alerts ELSE Chunk(Alerts, 0, SearchWindow)
  IN table.of = q /\ ~table.loading /\ ~MayGoOn
       /\ alarmTour.list = SameList(q) /\ 0..q.page \subseteq alarmTour.pages
     => alarmTour.rows = {a \in Members(among) : AlertMatches(a, q)}
=============================================================================
