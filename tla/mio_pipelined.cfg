CONSTANTS
  c1 = c1
  c2 = c2
  Clients <- OneClient
  Script <- TwoGets
  SendBuffer = 2
  MaxConnections = 1
  Protocol = "ping"
  BufferSize = 4
  MaxValueSize = 6
  MaxReply = 5
  Pipelining <- OneClient
  Departures <- NoDepartures
  BatchSize = 3
  AcceptErrors = FALSE
SPECIFICATION FairSpec
PROPERTIES RequestsAnswered
CHECK_DEADLOCK FALSE
