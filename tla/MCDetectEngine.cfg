\* Three sessions with room for two, a threshold of one or two: pauses, evictions, retention and digests
\* that come late.
SPECIFICATION Spec
CONSTANTS
  s1 = s1
  s2 = s2
  s3 = s3
  hello = hello
  bye = bye
  grep = grep
  NoTool = NoTool
  Sessions = {s1, s2, s3}
  Kinds <- MCKinds
  Window = 1
  Thresholds = {1, 2}
  Pauses = TRUE
  RateLimit = 1
  MinObservation = 1
  Retention = 1
  MaxSessions = 2
  MaxEvents = 2
  MaxNow = 2
  MaxAbove = 1
SYMMETRY Symmetric
INVARIANTS
  LoopAlertMeansPaused
  AlertsCurrent
  ResumesAlternate
  MemoryBounded
