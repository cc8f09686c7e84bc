CONSTANTS
  Meter = {1, 2, 3, 4, 5, 6, 7}
  MeterAt <- MCMeterAt
  C = 6
  Spot = {1, 2, 3, 4, 5, 6, 7, 8, 9, 10, 11}
  SpotAt <- MCSpotAt
  R = 4
  Snap <- MCSnap
  Asks <- MCAsks
  MaxPasses = 2
  MaxRounds = 3
  MaxTries = 2
  CurveLimit = 4
  Gateway = {1, 2, 3}
  Wants <- MCWants
  NoLimit = 99
  Asker = {r1, r2}
  MaxEntries = 2
  MaxPlans = 1
  MaxChanges = 1
  MaxAsks = 1
  MaxTurns = 2
SYMMETRY MCSymmetry
CHECK_DEADLOCK FALSE
SPECIFICATION Spec
INVARIANTS
  CountsMatch
  CurveTrue
  BooksBalance
  RemovalsCheap
  PlansMatch
PROPERTIES
  ShortcutsExact
  AnswersForward
