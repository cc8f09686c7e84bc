CONSTANTS
  Site = {s1}
  All = All
  Account = {ann, bob}
  Others = {bob}
  Quiet = {q1}
  Own = own
  None = None
SPECIFICATION Spec
INVARIANTS
  RightSelection
  SavedCopyMarked
  CopyOfReader
  LoaderEnds
PROPERTIES
  SignOutSeen
