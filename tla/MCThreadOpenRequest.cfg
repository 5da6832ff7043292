SPECIFICATION Safety
CONSTANTS
  MaxTurns = 2
  MaxNow = 2
  MaxRefreshes = 1
  MaxFailures = 0
  MaxUnloads = 0
  QuietWindow = 0
  FreshWindow = 0
  SameSecond = TRUE
  FailStatuses = {}
PROPERTIES
  OpenRequestKept
