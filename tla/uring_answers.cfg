CONSTANTS
  c1 = c1
  c2 = c2
  Clients <- TwoClients
  Script <- Echoes
  SendBuffer = 1
  MaxConnections = 3
  RingSize = 3
  Protocol = "echo"
  BufferSize = 3
  MaxValueSize = 6
  MaxReply = 5
  Pipelining <- Second
  Departures <- NoDepartures
  BatchSize = 2
  RingCap = 2
  PoolCap = 8
  AcceptErrors = FALSE
SPECIFICATION FairSpec
INVARIANTS ConversationKept BuffersAccounted ProvidedSuffice
PROPERTIES WaitersAnswered
CHECK_DEADLOCK FALSE
