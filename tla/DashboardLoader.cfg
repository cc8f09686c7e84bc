\* One tab, one node, no failing load needed: is the loader off when nothing is on its way?
CONSTANTS
  Load = {l1, l2}
  Node = {n1}
  None = None
  MaxRun = 2
SPECIFICATION Spec
INVARIANTS
  LoaderMeansLoading
