SPECIFICATION SourcesSpec
CONSTANTS
  l1 = l1
  l2 = l2
  u1 = u1
  u2 = u2
  t1 = t1
  t2 = t2
  Listeners = {l1, l2}
  EmptyVersions = {0, 1}
  MaxRefreshes = 3
  MaxWorld = 2
  Catches = FALSE
  InitialStatus = "unconfigured"
  Readers = {u1, u2}
  MaxScan = 1
  Retention = 1
  MaxScans = 3
  MaxDisk = 2
  MaxTicks = 4
  Threads = {t1, t2}
  Requests <- MCRequests
  MaxFleets = 3
  MaxCalls = 3
  MaxTexts = 2
  MaxBreaks = 1
INVARIANTS EveryListenerTold
PROPERTIES
  ImplementsLatestWins CacheIsKept Converges ReadersAreServed PageIsHonest
CHECK_DEADLOCK FALSE
