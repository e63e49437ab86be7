CONSTANTS
  c1 = c1
  c2 = c2
  Clients <- TwoClients
  Script <- Mixed
  SendBuffer = 2
  MaxConnections = 2
  Protocol = "memcached"
  BufferSize = 3
  MaxValueSize = 6
  MaxReply = 4
  Pipelining <- Second
  Departures <- MixedDepartures
  BatchSize = 2
  AcceptErrors = TRUE
SPECIFICATION FairSpec
INVARIANTS TypeOK BuffersAccounted EventsCurrent NoLostWakeup ResponsesInPlace
PROPERTIES WaitersAnswered
CHECK_DEADLOCK FALSE
