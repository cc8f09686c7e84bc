\* One process that serves and syncs, two tokens of a client, racing statements.
CONSTANTS
  short = short
  long = long
  A = A
  None = None
  Token = {short, long}
  Client = {A}
  ClientOf <- MCClientOf
  Exp <- MCExp
  ShortExp = 1
  LongExp = 3
  RewriteEvery = 2
  Proc = {1}
  WebProc = {1}
  SyncProc = {1}
  ValidTTL = 1
  Timeout = 1
  MaxCached = 1
  DbFailures = FALSE
  Crashes = TRUE
  Verdicts = {}
  MaxTime = 2
  MaxCalls = 0
  MaxPending = 1
SPECIFICATION Safety
INVARIANTS
  LogoutSticks
  RowMatchesToken
  CacheWithinLimit
PROPERTIES
  LongestSessionKept
