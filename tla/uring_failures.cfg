CONSTANTS
  c1 = c1
  c2 = c2
  Clients <- TwoClients
  Script <- Failures
  SendBuffer = 1
  MaxConnections = 2
  RingSize = 2
  Protocol = "memcached"
  BufferSize = 4
  MaxValueSize = 6
  MaxReply = 5
  Pipelining <- TwoClients
  Departures <- AnyDeparture
  BatchSize = 1
  RingCap = 1
  PoolCap = 3
  AcceptErrors = TRUE
SPECIFICATION Spec
INVARIANTS TypeOK TokensCurrent ProvidedOnce WorkerRuns
CHECK_DEADLOCK FALSE
