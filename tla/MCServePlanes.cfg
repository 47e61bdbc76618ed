\* Two requests in flight in two sessions, a restart, room for both sessions.
SPECIFICATION PlanesSpec
CONSTANTS
  r1 = r1
  r2 = r2
  s1 = s1
  s2 = s2
  hello = hello
  bye = bye
  NoTool = NoTool
  Requests = {r1, r2}
  Sessions = {s1, s2}
  Kinds <- MCKinds
  Window = 1
  Thresholds = {2}
  Pauses = TRUE
  RateLimit = 0
  MinObservation = 0
  Retention = 2
  MaxSessions = 2
  MaxEvents = 0
  MaxNow = 3
  MaxAbove = 0
  MaxLag = 1
  MaxRestarts = 1
SYMMETRY Symmetric
VIEW WithoutHistory
CHECK_DEADLOCK FALSE
PROPERTIES
  PausesLast
