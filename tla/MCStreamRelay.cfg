SPECIFICATION LiveSpec
CONSTANTS
  s1 = s1
  s2 = s2
  Streams = {s1, s2}
  Answers <- AnswersOf
  Threads = 2
  MaxPending = 2
  Ttl = 1
  MaxLag = 1
  ChannelCap = 2
  StripAnsi = TRUE
  ClientCap = 1
CHECK_DEADLOCK FALSE
INVARIANTS
  RelayedInOrder
  CompleteIsCharged
  OpenedIsFound
PROPERTIES
  StreamsSettle
