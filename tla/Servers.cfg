\* One request for rows, two for the freshness (two users), two runs, every failure;
\* three attempts to log in within six moments; two instances that start over two files.
CONSTANTS
  Load = {l1}
  Asker = {a1, a2}
  Build = {1, 2}
  None = None
  Failures = TRUE
  MaxRun = 2
  Attempt = {t1, t2, t3}
  Limit = 2
  Window = 2
  Keep = 1
  MaxTime = 6
  MaxHits = 4
  Instance = {i1, i2}
  Files = 2
  MaxStarts = 2
\* Instances stay up, and the bounds stop the clocks and the requests.
CHECK_DEADLOCK FALSE
SPECIFICATION ServersSpec
INVARIANTS
  OneBuild
  OwnRebuildCurrent
  GuessesBounded
  MissingIsTold
PROPERTIES
  RefinesService
  EveryRequestAnswered
  RefusedFairly
  StartEnds
