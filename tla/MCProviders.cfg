SPECIFICATION ProvidersSpec
CONSTANTS
  ToolsUsed = {"Edit", "Other"}
  ActiveWindow = 1
  DoneWindow = 2
  MaxHooks = 3
  MaxClock = 3
  ChildTools = {}
  MaxChildHooks = 2
  MaxChildClock = 3
  c1 = c1
  c2 = c2
  Calls = {c1, c2}
  InputCalls = {c2}
  MaxRecords = 5
  MaxInstant = 3
  r1 = r1
  r2 = r2
  Readers = {r1, r2}
  MaxCached = 3
  OrphanWindow = 1
  RecentWindow = 0
  MaxLines = 3
  MaxFiles = 2
  Floors = {"p", "q"}
  RelationWindow = 1
  HookEvents = {"tool", "end"}
  OpenTime = 1
  DoneTime = 0
  DiscoveryTime = 2
  MaxHermesHooks = 2
  MaxHermesClock = 2
  ClawReaders = {u1, u2}
  Workspaces = {"inside", "q", "none"}
  DataTtl = 1
  MaxLoads = 2
  MaxClawClock = 2
  CursorEvents = {"prompt", "stop", "subagentStop", "toolFailed"}
  Skews = {0, 1, 3}
  Tolerance = 1
  ActiveSpan = 1
  DoneSpan = 2
  MaxCursorRecords = 3
  MaxCursorClock = 5
  MaxMessages = 2
  MaxCloudLoads = 3
  u1 = u1
  u2 = u2
INVARIANTS
  ClaudeIsTold ChildrenAreTold  TasksAreTold
  HermesIsTold  CursorIsTold
PROPERTIES CloudTellsOnce
CHECK_DEADLOCK FALSE
