---------------------------- MODULE MCBrowserPages ----------------------------
(***************************************************************************)
(* The pages of one browser tab over the server's answers.  The pages      *)
(* share no state with each other: a behaviour is about one of them, and   *)
(* the others keep a first state.  The page of households is followed once *)
(* for its list, once with the counts above it, while nothing is chosen or *)
(* opened, and once for its drawer, while nothing is chosen: there meters  *)
(* change only so that the open household gets another primary meter, and  *)
(* no household leaves in the same behaviour.  The Network Explorer and    *)
(* the Command Center are followed once for each of their parts.  Whoever  *)
(* came by a link to an alert, or back to the Command Center, chooses once *)
(* less.                                                                   *)
(***************************************************************************)
EXTENDS DashboardPage, PlacementPage, GatewayFrames, NodeMeters, MeterDrawer,
        AlarmsPage, BillingPage, Households,
        MeterLayer, GatewayReach, ExplorerLists, ExplorerPage,
        CommandCenter, MCFleetTable
LOCAL INSTANCE TLC

VARIABLE about

pagesVars ==
  <<vars, placementVars, framesVars, metersVars, drawerVars, alarmVars, billVars, houseVars,
    layerVars, reachVars, searchVars, sheetVars, explorerVars,
    centerVars, fleetVars, about>>

One(S) == CHOOSE x \in S : TRUE

PagesInit ==
  /\ about \in {"dashboard", "placing", "frames", "meters", "drawer",
                "alarms", "bills", "houses", "household", "counts",
                "layer", "reach", "search", "table", "explorer",
                "numbers", "back", "roster", "lookup", "fleet"}
  /\ Init           /\ (about # "dashboard" => written = 0)
  /\ PlacementInit  /\ (about # "placing" => site = One(Site))
  /\ FramesInit     /\ (about # "frames" => scope = One(Scope) /\ \A s \in Scope : heard[s] = 0)
  /\ MetersInit     /\ (about # "meters" =>
                          asking.node = One(LeafNode) /\ asking.filter = One(Filter)
                            /\ asking.order = One(Order))
  /\ DrawerInit     /\ (about # "drawer" => meter = One(Meter))
  /\ AlarmsInit     /\ (about # "alarms" => linked = NoAlert /\ controls.size = One(AlarmSize))
  /\ BillingInit    /\ (about # "bills" => billLinked = NoBill /\ choice.size = One(BillSize))
  /\ HouseholdsInit
  /\ LayerInit      /\ (about # "layer" => canvas.list = 1)
  /\ ReachInit      /\ (about # "reach" => reachPoints = <<>> /\ reachGateway = 1)
  /\ SearchInit
  /\ SheetInit
  /\ ExplorerInit
  /\ CenterInit     /\ (about # "roster" => desk.gateway = NoGateway)
  /\ FleetInit

listPageVars ==
  <<vars, placementVars, framesVars, metersVars, drawerVars, alarmVars, billVars, houseVars>>
mapPageVars == <<layerVars, reachVars, searchVars, sheetVars, explorerVars, centerVars, fleetVars>>

DashboardStep == Next
  /\ UNCHANGED <<placementVars, framesVars, metersVars, drawerVars, alarmVars, billVars, houseVars,
                 mapPageVars>>
PlacingStep == PlacementNext
  /\ UNCHANGED <<vars, framesVars, metersVars, drawerVars, alarmVars, billVars, houseVars,
                 mapPageVars>>
FramesStep == FramesNext
  /\ UNCHANGED <<vars, placementVars, metersVars, drawerVars, alarmVars, billVars, houseVars,
                 mapPageVars>>
MetersStep == MetersNext
  /\ UNCHANGED <<vars, placementVars, framesVars, drawerVars, alarmVars, billVars, houseVars,
                 mapPageVars>>
DrawerStep == DrawerNext
  /\ UNCHANGED <<vars, placementVars, framesVars, metersVars, alarmVars, billVars, houseVars,
                 mapPageVars>>
AlarmsStep == AlarmsNext
  /\ UNCHANGED <<vars, placementVars, framesVars, metersVars, drawerVars, billVars, houseVars,
                 mapPageVars>>
BillsStep == BillingNext
  /\ UNCHANGED <<vars, placementVars, framesVars, metersVars, drawerVars, alarmVars, houseVars,
                 mapPageVars>>
HousesStep == HouseholdsNext
  /\ UNCHANGED <<vars, placementVars, framesVars, metersVars, drawerVars, alarmVars, billVars,
                 mapPageVars>>
LayerStep == LayerNext
  /\ UNCHANGED <<listPageVars, reachVars, searchVars, sheetVars, explorerVars, centerVars, fleetVars>>
ReachStep == ReachNext
  /\ UNCHANGED <<listPageVars, layerVars, searchVars, sheetVars, explorerVars, centerVars, fleetVars>>
SearchStep == SearchNext
  /\ UNCHANGED <<listPageVars, layerVars, reachVars, sheetVars, explorerVars, centerVars, fleetVars>>
TableStep == SheetNext
  /\ UNCHANGED <<listPageVars, layerVars, reachVars, searchVars, explorerVars, centerVars, fleetVars>>
ExplorerStep == ExplorerNext
  /\ UNCHANGED <<listPageVars, layerVars, reachVars, searchVars, sheetVars, centerVars, fleetVars>>
CommandStep(A) == A
  /\ UNCHANGED <<listPageVars, layerVars, reachVars, searchVars, sheetVars, explorerVars, fleetVars>>
FleetStep == FleetTableNext
  /\ UNCHANGED <<listPageVars, layerVars, reachVars, searchVars, sheetVars, explorerVars, centerVars>>

PagesNext ==
  /\ about' = about
  /\ \/ about = "dashboard" /\ DashboardStep
     \/ about = "placing" /\ PlacingStep
     \/ about = "frames" /\ FramesStep
     \/ about = "meters" /\ MetersStep
     \/ about = "drawer" /\ DrawerStep
     \/ about = "alarms" /\ AlarmsStep /\ (linked # NoAlert => alarmPresses' < MaxAlarmPresses)
     \/ about = "bills" /\ BillsStep
     \/ about = "houses" /\ HousesStep /\ UNCHANGED <<counts, houseDrawer, meterTable>>
     \/ about = "household" /\ HousesStep /\ UNCHANGED <<counts, wantedHouses>>
                              /\ housePresses' < MaxHousePresses
                              /\ (UNCHANGED meterTable \/ houseDrawer' # houseDrawer)
                              /\ (meterChanges' > 0 => register' = HouseholdRows)
     \/ about = "counts" /\ HousesStep /\ UNCHANGED <<wantedHouses, houseDrawer, meterTable>>
     \/ about = "layer" /\ LayerStep
     \/ about = "reach" /\ ReachStep
     \/ about = "search" /\ SearchStep
     \/ about = "table" /\ TableStep
     \/ about = "explorer" /\ ExplorerStep
     \/ about = "numbers" /\ CommandStep(SummaryNext \/ NumbersNext)
     \/ about = "back" /\ CommandStep(SummaryNext \/ ReturnNext) /\ UNCHANGED stored
                           /\ center'.presses < MaxCenterPresses
     \/ about = "roster" /\ CommandStep(SummaryNext \/ RosterNext)
     \/ about = "lookup" /\ CommandStep(SummaryNext \/ LookupNext)
     \/ about = "fleet" /\ FleetStep

PagesSpec == PagesInit /\ [][PagesNext]_pagesVars

\* The pages' loads, one property: whatever was chosen, clicked or opened while
\* answers were on their way, what a page shows when it has settled is what is
\* asked for now (GatewayPlacementPage.tsx:95, useNodeMeters.ts:10,
\* MeterHistoryDrawer.tsx:117, AlarmsPage.tsx:55, BillingPage.tsx:87,
\* HouseholdListPage.tsx:99); the same of the parts of the Network Explorer
\* (meterCanvasLayer.ts:410, coverage.ts:48, MeterSearchBox.tsx:59,
\* NetworkExplorerPage.tsx:323 and 465), and of the Command Center's numbers and meters
\* (CommandCenterPage.tsx:118 and 252, telemetryDbService.ts:347, FleetMetersTable.tsx:75).
ShowsWhatIsAsked ==
  /\ about = "placing" => PlanForAsked
  /\ about = "meters" => RowsForAsked
  /\ about = "drawer" => WholeDetail
  /\ about = "alarms" => AlarmsForAsked
  /\ about = "bills" => BillsForAsked
  /\ about = "houses" => HousesForAsked
  /\ about = "counts" => CountsSince
  /\ about = "layer" => DrawsWhatIsThere /\ CanvasComesBack
  /\ about = "reach" => ReachTold /\ PlacesTold
  /\ about = "search" => SuggestionsForText /\ AnswersKept
  /\ about = "table" => TableForAsked
  /\ about = "explorer" => GatewayOfArea /\ MapStaysPut /\ MapDrawsPage
  /\ about \in {"numbers", "back"} => NumbersTold /\ NumbersOfReader
  /\ about \in {"roster", "lookup"} => NumbersTold /\ RosterForAsked
  /\ about = "fleet" => FleetForAsked

\* A drawer tells of the row it was opened for: what it draws, what it says was done
\* and every part of it that came later (AlertDetailDrawer.tsx:106,
\* BillDetailDrawer.tsx:120, useHouseholdParts.ts:42, NetworkExplorerPage.tsx:297).
DrawersOfTheirRow ==
  /\ about = "alarms" => DrawerOfAlert
  /\ about = "bills" => DrawerOfBill /\ UnpaidWhenOpened
  /\ about \in {"houses", "household"} => DrawerOfHouse
  /\ about = "explorer" => CardOfMeter

\* The lists that are read page by page: whoever went through the pages has seen
\* every row that is theirs, and no page is beyond the last
\* (alarms.ts:112, billing.ts:107, networkService.ts:495, telemetryDbService.ts:271).
PagesComplete ==
  /\ about = "alarms" => AlarmPagesComplete
  /\ about = "bills" => BillPagesComplete
  /\ about = "table" => TablePagesComplete
  /\ about = "roster" => RosterPagesComplete

-----------------------------------------------------------------------------
\* Alerts of two sites, one of them another client's; a search does not look as far
\* as the last.
AlertRow(i, o, p, t, h) == [id |-> i, owned |-> o, priority |-> p, status |-> t, hits |-> h]
MCAlerts ==
  <<AlertRow("a1", TRUE, "MEDIUM", "OPEN", {"x"}), AlertRow("a2", TRUE, "HIGH", "OPEN", {"x"}),
    AlertRow("a3", FALSE, "MEDIUM", "OPEN", {}), AlertRow("a4", TRUE, "MEDIUM", "IN_PROGRESS", {"x"})>>
MCAlarmLink == {NoAlert, "a2"}

\* Bills with more days than are kept, fewer, none, and a meter that was read
\* backwards; the last bill is older than the newest that are read.
BillRow(i, p, t, pl, st, h, amt, fr, to, ds) ==
  [id |-> i, period |-> p, status |-> t, places |-> pl, site |-> st, hits |-> h, amount |-> amt,
   from |-> fr, to |-> to, days |-> ds]
MCBills ==
  <<BillRow("b1", "jan-feb-2026", "OVERDUE", {"Puri"}, "Puri", {"x"}, 1, 0, 3, <<1, 2, 2, 5>>),
    BillRow("b2", "all-2026", "PAID", {}, "Puri", {}, 2, 4, 1, <<3>>),
    BillRow("b3", "all-2026", "OVERDUE", {}, "Bhubaneswar", {"x"}, 4, 0, 1, <<4, 2>>),
    BillRow("b4", "before", "PENDING", {"Cuttack"}, "Puri", {"x"}, 8, 1, 2, <<>>)>>
MCBillLink == {NoBill, "b3"}

\* One consumer's id contains another's, one household has no consumer's id; a site
\* lies below another; two active meters of one household, one of which never reported.
House(i, cu, w, nm, st, o) ==
  [id |-> i, customId |-> cu, within |-> w, names |-> nm, mobiles |-> {}, site |-> st, order |-> o]
MCHouses ==
  <<House("1", "B1", {"B1", "B"}, {"x"}, "s1", 2), House("2", "B", {"B"}, {"x"}, "s2", 3),
    House("3", "", {}, {"x"}, "s2", 1)>>
HouseMeter(n, i, hh, cu, act, sn) ==
  [id |-> i, household |-> hh, customId |-> cu, active |-> act, seen |-> sn, order |-> n]
MCHouseMeters ==
  {HouseMeter(1, "m1", "1", "", TRUE, 1), HouseMeter(2, "m2", "0", "B1", TRUE, 0),
   HouseMeter(3, "m3", "2", "B", FALSE, 2)}
MCSiteBelow == [s0 |-> {"s1", "s2"}, s2 |-> {"s2"}]
MCHouseWord == {NoWord, [text |-> "x", digits |-> 0, letters |-> 1],
                [text |-> "B", digits |-> 1, letters |-> 1]}

\* Points at and around two gateways, the second with a radius of its own; of either,
\* of a gateway that is not in the answer, of none.
PointOf(a, k) == [at |-> a, status |-> k[1], gateway |-> k[2]]
MCKinds == {<<"connected", "g1">>, <<"never", "none">>, <<"disconnected", "g2">>, <<"connected", "g9">>}
MCPoints == UNION {[1..n -> {PointOf(a, k) : a \in {0, 1, 3}, k \in MCKinds}] : n \in 0..3}
MCGatewayRow == <<[id |-> "g1", at |-> 1, radius |-> 0], [id |-> "g2", at |-> 2, radius |-> 3]>>

\* One meter's name is within another's, one is found by its owner only.
SearchRow(i, si, pl, st, ins, o) ==
  [id |-> i, sites |-> si, placed |-> pl, starts |-> st, inside |-> ins, owner |-> o]
MCSearchMeters ==
  <<SearchRow("a1", {"ALL", "s1"}, TRUE, {"a", "a1"}, {"a", "a1"}, {}),
    SearchRow("a2", {"ALL", "s2"}, TRUE, {"a"}, {"a"}, {}),
    SearchRow("ba1", {"ALL", "s1"}, TRUE, {}, {"a", "a1"}, {}),
    SearchRow("c", {"ALL", "s2"}, FALSE, {}, {}, {"a1", "a"})>>

TableRow(i, si, st, h) == [id |-> i, sites |-> si, status |-> st, hits |-> h]
MCTableMeters ==
  <<TableRow("m1", {"ALL", "s1"}, "connected", {"x"}), TableRow("m2", {"ALL", "s1"}, "never", {"x"}),
    TableRow("m3", {"ALL"}, "connected", {})>>

\* A gateway without a radius of its own; the other is not in the smaller area.
MCAreaGateways == [ALL |-> {"g1", "g2"}, s1 |-> {"g1"}]
MCAreaMeters == [ALL |-> {"m1", "m2"}, s1 |-> {"m1"}]
MCGatewayHits == [g1 |-> {"x"}, g2 |-> {}]
MCMeterHits == [m1 |-> {"x"}, m2 |-> {}]
MCMeterStatus == [m1 |-> "connected", m2 |-> "disconnected"]
MCRadiusOf == [g1 |-> 0, g2 |-> 3]

\* Two sites, one of them another account's too.
MCSitesOf == [me |-> [ALL |-> {"x", "y"}, s1 |-> {"x"}], other |-> [ALL |-> {"y", "z"}, s1 |-> {"z"}]]
CenterFrame(m, s, g, w, r) == [meter |-> m, site |-> s, gateway |-> g, within |-> w, recent |-> r]
MCCenterFrames ==
  <<CenterFrame("m1", "x", 1, {"30D", "7D"}, TRUE), CenterFrame("m2", "y", 1, {"30D"}, FALSE),
    CenterFrame("m1", "x", 2, {"30D", "7D", "6H"}, TRUE)>>
MCCenterLink == {NoGateway, <<2>>}
MCCenterText ==
  {NoText, [long |-> TRUE, gateways |-> {}, meters |-> {"m1", "m2"}, exact |-> "m2"],
   [long |-> TRUE, gateways |-> {2}, meters |-> {}, exact |-> NoOne]}

\* Two meters in one group at the lower zoom, one of them out of sight after the map
\* moved; and both filtered away.
MeterAt(i, a) == [id |-> i, at |-> a]
MCItemLists == << <<MeterAt("m1", 0), MeterAt("m2", 1)>>, <<>> >>

View(z, l) == [zoom |-> z, left |-> l]
MCMapView == {View(0, 0), View(1, 0), View(1, 2)}
=============================================================================
