SPECIFICATION Spec
CONSTANTS
  MaxTurns = 2
  MaxNow = 3
  MaxRefreshes = 1
  MaxFailures = 0
  MaxUnloads = 0
  QuietWindow = 0
  FreshWindow = 0
  SameSecond = FALSE
  FailStatuses = {"idle", "systemError"}
PROPERTIES
  RunningGetsDesk
