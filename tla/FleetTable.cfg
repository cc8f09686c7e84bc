CONSTANTS
  FleetMeters <- MCFleetMeters
  FleetWindow = {"30D", "7D"}
  FleetText = {"", "x"}
  FleetStatus = {"ALL", "connected"}
  FleetSize = 2
  NoFleetAsk = NoFleetAsk
  MaxFleetPresses = 1
  MaxFleetRenders = 1
  MaxFleetFrames = 1
\* The bounds stop the user and the page.
CHECK_DEADLOCK FALSE
SPECIFICATION FleetTableSpec
PROPERTY FleetListStays
