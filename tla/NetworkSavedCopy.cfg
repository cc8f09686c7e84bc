CONSTANTS
  Site = {s1}
  All = All
  Account = {ann}
  Others = {}
  Quiet = {q1}
  Own = own
  None = None
SPECIFICATION Safety
INVARIANT SavedCopyTold
