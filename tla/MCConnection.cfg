SPECIFICATION MonitorSpec
CONSTANTS
  a1 = a1
  a2 = a2
  t1 = t1
  Answers = {a1, a2}
  Requests = {1}
  Threads = {t1}
  MaxClients = 2
  MaxSyncs = 2
  ItemTypes = {"fileChange", "reasoning"}
  DoneGrace = 1
  FreshWindow = 1
  EventWindow = 1
  SpawnWindow = 1
  QuietLimit = 1
  DoneWindow = 1
  ChildWindow = 1
  WaitingWindow = 2
  MaxItems = 3
  MaxPrompts = 1
  MaxViewClock = 3
  MaxExtras = 2
INVARIANTS ConnectionIsKept
PROPERTIES StopReturns CodexIsTold
CHECK_DEADLOCK FALSE
