CONSTANTS
  Count = 3
  BufferSize = 2
  ChainOps <- AllChainOps
  MaxBytes = 7
  RingEntries = 4
  TailModulus = 8
SPECIFICATION MCSpec
INVARIANTS TypeOK PoolIntact ContentsKept ReadersAgree
PROPERTIES ImplementsQueue
