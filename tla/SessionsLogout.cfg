\* One process, no failure of any kind: does a logout delete the stored session?
CONSTANTS
  short = short
  long = long
  A = A
  None = None
  Token = {long}
  Client = {A}
  ClientOf <- MCClientOf
  Exp <- MCExp
  ShortExp = 1
  LongExp = 3
  RewriteEvery = 2
  Proc = {1}
  WebProc = {1}
  SyncProc = {}
  ValidTTL = 1
  Timeout = 1
  MaxCached = 1
  DbFailures = FALSE
  Crashes = FALSE
  Verdicts = {}
  MaxTime = 2
  MaxCalls = 0
  MaxPending = 1
SPECIFICATION Safety
INVARIANTS
  LogoutDeletesRow
