------------------------------ MODULE StatusTable ------------------------------
(***************************************************************************)
(* The table of the Gateway Status page (GatewayStatusTable.tsx): the      *)
(* chips and the search above it, its order by any column, its pages.      *)
(* What the page has to show comes and goes: nothing, or a range as of a   *)
(* moment; which one is GatewayStatusPage's matter.  The page keeps the    *)
(* filters; order, page and size are the table's own and start afresh      *)
(* whenever the page has had nothing to show.  Last seen and heartbeats,   *)
(* two more columns, are left out.                                         *)
(***************************************************************************)
EXTENDS UptimePage

CONSTANTS
  FleetSizes,    \* PAGE_SIZES
  FleetSize      \* the size a table starts with

ASSUME StatusTableAssumption ==
  FleetSizes \subseteq Nat \ {0} /\ FleetSize \in FleetSizes

VARIABLES
  fleetTold,  \* what the page has: NoData, or a range and the moment it was read
  fleetView,  \* the page's filters
  fleetTable  \* the table's order, page and size

fleetVars == <<fleetTold, fleetView, fleetTable>>

NewTable == [key |-> "gatewayId", asc |-> TRUE, page |-> 0, size |-> FleetSize]

TableRange == {r \in [from : 1..DayOf(LastMoment), to : 1..DayOf(LastMoment)] : Accepted(r)}
FleetTold == [range : TableRange, at : Moment]

FleetRow(g, told) ==
  LET cut == SliceGateway(Report(g, BaseRangeFor({told.range}, DayOf(told.at)), told.at),
                          told.range)
  IN [gateway |-> g, status |-> cut.status, events |-> cut.events,
      uptime |-> IF cut.observed = 0 THEN NoFigure ELSE (1000 * cut.online) \div cut.observed,
      online |-> IF cut.seen THEN cut.online ELSE NoFigure]
FleetReport == [told \in FleetTold |-> {FleetRow(g, told) : g \in Fleet}]

\* filterGateways
FleetKept(row, v) == v.state \in {"all", row.status} /\ row.gateway \in v.search
FleetRows(told, v) == {row \in FleetReport[told] : FleetKept(row, v)}

\* sortGateways: what is down comes first.
StatusRank(s) == IF s = "offline" THEN 0 ELSE IF s = "no-data" THEN 1 ELSE 2
FleetValue(row, key) ==
  IF key = "gatewayId" THEN GatewayRank[row.gateway]
  ELSE IF key = "address"
    THEN IF AddressRank[row.gateway] = 0 THEN NoFigure ELSE AddressRank[row.gateway]
  ELSE IF key = "status" THEN StatusRank(row.status)
  ELSE IF key = "uptime" THEN row.uptime
  ELSE IF key = "onlineTime" THEN row.online ELSE row.events
FleetBefore(a, b, t) ==
  LET x == FleetValue(a, t.key)
      y == FleetValue(b, t.key)
  IN IF x = y THEN GatewayRank[a.gateway] < GatewayRank[b.gateway]
     ELSE IF NoFigure \in {x, y} THEN y = NoFigure
     ELSE IF t.asc THEN x < y ELSE x > y

FleetSorted(rows, t) == OrderedBy(rows, {p \in rows \X rows : FleetBefore(p[1], p[2], t)})

LastFleetPage(n, size) == Max({0, (n + size - 1) \div size - 1})

\* Mutant: the page is left as it was.
PageKept(t, n) == t
\* A shorter list must not leave the table on a page that no longer exists.
PageThatExists(t, n) == [t EXCEPT !.page = Min({@, LastFleetPage(n, t.size)})]

\* The table after the page; without anything to show it is gone.
FleetAfter(told, v, t) ==
  IF told = NoData THEN NewTable ELSE PageThatExists(t, Cardinality(FleetRows(told, v)))

FleetOnScreen == FleetSorted(FleetRows(fleetTold, fleetView), fleetTable)
FleetVisible ==
  SubSeq(FleetOnScreen, fleetTable.page * fleetTable.size + 1,
         Min({(fleetTable.page + 1) * fleetTable.size, Len(FleetOnScreen)}))

-----------------------------------------------------------------------------
\* A load starts without anything, an answer lands, another range is shown.
FleetShows(told) ==
  /\ fleetTold' = told
  /\ fleetTable' = FleetAfter(told, fleetView, fleetTable)
  /\ UNCHANGED fleetView

\* The filters are the page's: it renders, and the table after it.
FleetFilter(v) ==
  /\ fleetView' = v
  /\ fleetTable' = FleetAfter(fleetTold, v, fleetTable)
  /\ UNCHANGED fleetTold
FleetChip(s) == FleetFilter([fleetView EXCEPT !.state = IF @ = s THEN "all" ELSE s])
FleetSearch(q) == FleetFilter([fleetView EXCEPT !.search = q])

\* The table's own state.
FleetShow(t) == fleetTable' = t /\ UNCHANGED <<fleetTold, fleetView>>
FleetSort(key) ==
  /\ fleetTold # NoData
  /\ FleetShow([fleetTable EXCEPT !.key = key,
                                  !.asc = IF fleetTable.key = key THEN ~@ ELSE TRUE])
FleetPage(to) ==
  /\ fleetTold # NoData
  /\ LET last == LastFleetPage(Cardinality(FleetRows(fleetTold, fleetView)), fleetTable.size)
     IN \/ to \in {0, fleetTable.page - 1} /\ fleetTable.page # 0
        \/ to \in {last, fleetTable.page + 1} /\ fleetTable.page < last
  /\ FleetShow([fleetTable EXCEPT !.page = to])
FleetResize(n) ==
  /\ fleetTold # NoData
  /\ FleetShow([fleetTable EXCEPT !.size = n, !.page = 0])

FleetInit ==
  /\ fleetTold = NoData
  /\ fleetView = [state |-> "all", search |-> Fleet]
  /\ fleetTable = NewTable

FleetNext ==
  \/ \E told \in FleetTold \cup {NoData} : FleetShows(told)
  \/ \E s \in {"online", "offline", "no-data"} : FleetChip(s)
  \/ \E q \in Searches : FleetSearch(q)
  \/ \E key \in {"gatewayId", "address", "status", "uptime", "onlineTime", "downtimeEvents"} :
       FleetSort(key)
  \/ \E to \in 0..Cardinality(Fleet) : FleetPage(to)
  \/ \E n \in FleetSizes : FleetResize(n)

-----------------------------------------------------------------------------
\* GatewayStatusTable.tsx:43: whatever was filtered, turned to and answered, the table
\* is never empty while some gateway matches, its pages hold the matching gateways as
\* they are now, each once, and a gateway with nothing to sort by is behind the others.
FleetShown ==
  fleetTold # NoData =>
    LET rows == FleetOnScreen
        matching == {g \in fleetView.search : fleetView.state \in {"all", g[fleetTold.at]}}
    IN /\ {rows[i].gateway : i \in DOMAIN rows} = matching
       /\ Len(rows) = Cardinality(matching)
       /\ matching # {} => FleetVisible # <<>>
       /\ \A i, j \in DOMAIN rows :
            i < j /\ FleetValue(rows[i], fleetTable.key) = NoFigure =>
              FleetValue(rows[j], fleetTable.key) = NoFigure
=============================================================================
