SPECIFICATION TurnsSpec
CONSTANTS
  MaxTurns = 2
  MaxNow = 2
  MaxRefreshes = 2
  MaxFailures = 1
  MaxUnloads = 0
  QuietWindow = 0
  FreshWindow = 0
  SameSecond = TRUE
  FailStatuses = {"idle", "systemError"}
INVARIANTS
  Consistent

  
