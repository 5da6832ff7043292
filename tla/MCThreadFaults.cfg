SPECIFICATION Spec
CONSTANTS
  MaxTurns = 1
  MaxNow = 3
  MaxRefreshes = 1
  MaxFailures = 1
  MaxUnloads = 1
  QuietWindow = 1
  FreshWindow = 0
  SameSecond = TRUE
  FailStatuses = {"idle"}
INVARIANTS
  PendingHoldsDesk
PROPERTIES
  
  FinishedReleased
