SPECIFICATION Spec
CONSTANTS
  r1 = r1
  c1 = c1
  c2 = c2
  b1 = b1
  Roots = {r1}
  Calls = {c1, c2}
  Clients = {b1}
  MaxWorld = 2
  MaxMoves = 3
INVARIANTS
  MonitorsAreKept
  ClientsHaveTheFleet
PROPERTIES
  FleetIsServed
CHECK_DEADLOCK FALSE
