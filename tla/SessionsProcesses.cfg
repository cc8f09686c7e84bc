\* A process that serves and a process that syncs, revocations, outages, failing statements.
CONSTANTS
  short = short
  long = long
  A = A
  None = None
  Token = {long}
  Client = {A}
  ClientOf <- MCClientOf
  Exp <- MCExp
  ShortExp = 1
  LongExp = 3
  RewriteEvery = 2
  Proc = {1, 2}
  WebProc = {1}
  SyncProc = {2}
  ValidTTL = 1
  Timeout = 1
  MaxCached = 1
  DbFailures = TRUE
  Crashes = FALSE
  Verdicts = {"rejected"}
  MaxTime = 2
  MaxCalls = 0
  MaxPending = 0
SPECIFICATION Spec
INVARIANTS
  ServedWhileVouched
PROPERTIES
  RefinesLease
  EveryRequestAnswered
