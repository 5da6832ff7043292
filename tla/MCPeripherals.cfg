SPECIFICATION PeripheralsSpec
CONSTANTS
  p1 = p1
  p2 = p2
  MaxHour = 3
  Processes = {p1, p2}
  Ttl = 1
  ResolvedRetention = 1
  StaleRetention = 1
  MaxCommands = 3
  Terminals = {u1, u2}
  MaxPid = 3
  Polls = 1
  AgentCount = 1
  MaxLines = 2
  MaxPublishes = 5
  u1 = u1
  u2 = u2
  b1 = b1
  b2 = b2
  Browsers = {b1, b2}
  MaxChanges = 2
  MaxSockets = 2
  MaxDrops = 1
  Peers = {b1, b2}
  LocalFleets <- MCLocalFleets
  RemoteFleets <- MCRemoteFleets
  MaxNews = 3
  c1 = c1
  c2 = c2
  Actors = {c1, c2}
  Doings <- MCDoings
  DefaultTime = 1
  MessageTime = 2
  CommandTime = 1
  LineTime = 1
  RepeatTime = 1
  LineRepeatTime = 3
  TypedWindow = 1
  HistoryTime = 1
  MaxToasts = 2
  MaxHappenings = 3
  MaxToastClock = 3
  Floors = {c1, c2}
  Syncs = {b1, b2}
  MaxSnapshots = 2
  MaxShells = 2
  MaxFaults = 1
  Walkers = {c1, c2}
  Rooms = {"west", "east"}
  Primary = "west"
  Parents <- OneParent
  RestLimit = 1
  MaxAlpha = 1
  MaxRenders = 3
  MaxMishaps = 1
INVARIANTS StopIsSafe JournalIsHonest RoomIsShared FloorsAreShared FloorsAreDrawn
PROPERTIES ClaimsAreKept  AgentsMoveSoundly
CHECK_DEADLOCK FALSE
