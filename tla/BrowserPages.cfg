CONSTANTS
  Load = {l1, l2}
  Node = {k1, k2}
  None = None
  MaxRun = 2
  Site = {s1, s2}
  Existing = {g1, g2}
  NoPlan = NoPlan
  MaxRuns = 6
  Scope = {x1, x2}
  PageSize = 2
  MaxHeard = 4
  MaxAskings = 5
  LeafNode = {n1, n2}
  NoNode = NoNode
  Filter = {f1}
  Order = {o1, o2}
  MaxPage = 1
  MaxSeq = 4
  Meter = {m1, m2}
  NoDetail = NoDetail
  MaxOpens = 4
  Alerts <- MCAlerts
  NoAlert = NoAlert
  AlarmWord = {"", "x"}
  AlarmSize = {2}
  PriorityPill = {"ALL", "HIGH"}
  StatusPill = {"ALL", "OPEN"}
  AlarmLink <- MCAlarmLink
  SearchWindow = 3
  DetailWindow = 1
  FallbackTotal = 3
  MaxAlarmPresses = 2
  MaxAlarmLoads = 2
  MaxResolves = 1
  Bills <- MCBills
  NoBill = NoBill
  BillWord = {"", "x"}
  BillSize = {1, 2}
  BillStatus = {"ALL", "OVERDUE"}
  BillCity = {"ALL", "Puri"}
  BillLink <- MCBillLink
  BillWindow = 3
  DaysKept = 3
  MaxBillPresses = 2
  MaxBillLoads = 2
  HouseholdRows <- MCHouses
  HouseMeters <- MCHouseMeters
  SiteBelow <- MCSiteBelow
  HouseWord <- MCHouseWord
  HouseSize = 2
  LookupRows = 2
  NoHouse = NoHouse
  MaxHousePresses = 3
  MaxLeaving = 1
  MaxMeterChanges = 1
  ItemLists <- MCItemLists
  MapView <- MCMapView
  NoView = NoView
  NoItem = NoItem
  ViewWidth = 4
  Pad = 1
  CellPx = 2
  ClusterMaxZoom = 1
  MeterPoints <- MCPoints
  GatewayRow <- MCGatewayRow
  NoGatewayId = "none"
  MinRadius = 1
  Nudge = 1
  LeastMax = 3
  RoundTo = 2
  UsualRadius = 2
  TrimFrom = 3
  TrimPart = 3
  SearchMeters <- MCSearchMeters
  SearchSite = {"ALL", "s1", "s2"}
  SearchText = {"", "a", "a1", "ba1", "c", "a2"}
  LongText = {"a", "a1", "ba1", "a2"}
  MaxSuggestions = 2
  Remembered = 2
  MaxTyped = 3
  MaxRetired = 1
  TableMeters <- MCTableMeters
  TableSite = {"ALL", "s1"}
  TableText = {"", "x"}
  TableStatus = {"ALL", "connected"}
  TableSize = {1, 2}
  MaxTablePresses = 5
  MaxRetirements = 1
  Area = {"ALL", "s1"}
  AllAreas = "ALL"
  AreaGateways <- MCAreaGateways
  AreaMeters <- MCAreaMeters
  GatewayHits <- MCGatewayHits
  MeterHits <- MCMeterHits
  MeterStatus <- MCMeterStatus
  RadiusOf <- MCRadiusOf
  MapWord = {"", "x"}
  UsualMetres = 5
  Slid = 9
  Nobody = Nobody
  MaxMapPresses = 3
  MaxArrivals = 2
  MaxLookups = 2
  CenterWindow = {"30D", "7D", "6H"}
  PlainWindow = {"30D", "7D"}
  CenterSite = {"ALL", "s1"}
  SitesOf <- MCSitesOf
  CenterFrames <- MCCenterFrames
  CenterText <- MCCenterText
  CenterLink <- MCCenterLink
  MeterFilter = {"ALL", "CONNECTED"}
  RosterSize = 1
  NoSummary = NoSummary
  NoOne = NoOne
  MaxCenterPresses = 2
  MaxCenterLoads = 2
  MaxOthers = 1
  MaxLeft = 1
  FleetMeters <- MCFleetMeters
  FleetWindow = {"30D", "7D"}
  FleetText = {"", "x"}
  FleetStatus = {"ALL", "connected"}
  FleetSize = 2
  NoFleetAsk = NoFleetAsk
  MaxFleetPresses = 3
  MaxFleetRenders = 1
  MaxFleetFrames = 1
\* The bounds stop the clocks and what the user does.
CHECK_DEADLOCK FALSE
SPECIFICATION PagesSpec
INVARIANTS
  RowsOfParent
  ShowsWhatIsAsked
  DrawersOfTheirRow
  PagesComplete
PROPERTIES
  RowsForward
  QuietReload
  RowsStay
