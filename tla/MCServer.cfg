SPECIFICATION ServerSideSpec
CONSTANTS
  c1 = c1
  s1 = s1
  s2 = s2
  Callers = {c1}
  Sources = {s1, s2}
  Reasons = {"event"}
  MaxRequests = 1
  MaxBuilds = 3
  MaxWorld = 1
  MaxLocal = 1
  MaxPosts = 3
  MaxTyped = 2
  MaxStarts = 1
  MaxDevices = 2
  w1 = w1
  w2 = w2
  k1 = k1
  k2 = k2
  Workers = {w1, w2}
  Tree <- ActivityTree
  Commands = {k1, k2}
  Patches <- ServerPatches
  Long = 1
  Recent = 1
  HalfLife = 1
  RunWindow = 2
  HotWindow = 2
  MaxFeed = 3
  MaxHot = 3
  MaxPerFamily = 2
  MaxFallbacks = 1
  MaxEdits = 2
  f1 = f1
  f2 = f2
  q1 = q1
  q2 = q2
  Files = {f1, f2}
  Queries = {q1, q2}
  Parent <- SpawnedBy
  None = None
  Slots = 1
  MetaWorkers = 2
  MaxFiles = 2
  Recency = 2
  Window = 1
  LocalLimit = 1
  LineKinds = {"top", "sub", "marked", "elsewhere", "started", "complete", "aborted", "long"}
  RowStatuses = {"notLoaded"}
  MaxLines = 3
  MaxNow = 4
  MaxAsked = 2
  MaxDay = 4
INVARIANTS  SessionsAreTold
PROPERTIES  SettingsAreKept
CHECK_DEADLOCK FALSE
