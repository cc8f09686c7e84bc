CONSTANTS
  Site = {a, b, c}
  Meter = {m1, m2}
  Gateway = {g}
  Age = {"day", "older"}
  Trees <- MCTrees
  Rssi <- MCRssi
  Limit <- MCLimit
  None = None
SPECIFICATION Spec
SYMMETRY Symmetry
INVARIANTS
  WalksExact
  ScopesAgree
  DerivedMeters
  DerivedGateways
  DerivedStatus
