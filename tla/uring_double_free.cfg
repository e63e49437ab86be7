CONSTANTS
  c1 = c1
  c2 = c2
  Clients <- OneClient
  Script <- OneNoreply
  SendBuffer = 2
  MaxConnections = 1
  RingSize = 4
  Protocol = "memcached"
  BufferSize = 4
  MaxValueSize = 6
  MaxReply = 5
  Pipelining = {}
  Departures <- NoDepartures
  BatchSize = 2
  RingCap = 4
  PoolCap = 8
  AcceptErrors = FALSE
SPECIFICATION Spec
INVARIANTS BuffersAccounted
CHECK_DEADLOCK FALSE
