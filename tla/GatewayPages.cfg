CONSTANTS
  TicksPerDay = 2
  DataFrom = 1
  PresetDays <- MCPresetDays
  MaxRangeDays = 2
  LastMoment = 5
  Fleet <- MCFleet
  NoData = NoData
  Typed <- MCTyped
  MaxTurns = 2
  MaxOut = 1
  UptimeDays <- MCPresetDays
  UptimeDefault = 2
  WholeDay = 2
  GatewayRank <- MCGatewayRank
  AddressRank <- MCAddressRank
  Searches <- MCSearches
  Threshold = {500}
  MonthOf <- MCMonthOf
  MaxUptimeTurns = 2
  FleetSizes = {2, 4}
  FleetSize = 4
  LineGateway <- MCLineGateway
  Scale = 2
  RecentEnd = 2
  TableSizes = {1}
  NoView = NoView
  MaxLinePresses = 2
  Outages <- MCOutages
\* The bounds stop the clock and what the user does.
CHECK_DEADLOCK FALSE
SPECIFICATION GatewaysSpec
INVARIANT RangesShown
