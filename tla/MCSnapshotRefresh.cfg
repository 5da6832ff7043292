SPECIFICATION Spec
CONSTANTS
  c1 = c1
  c2 = c2
  c3 = c3
  s1 = s1
  s2 = s2
  Callers = {c1, c2, c3}
  Sources = {s1}
  Reasons = {"manual", "interval"}
  MaxRequests = 3
  MaxBuilds = 1
  MaxWorld = 1
  MaxLocal = 1
CONSTRAINT Apart
INVARIANT RoundsAnswer
PROPERTIES CallsEnd
CHECK_DEADLOCK FALSE
