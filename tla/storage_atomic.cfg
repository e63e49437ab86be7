CONSTANTS
  t1 = t1
  t2 = t2
  k1 = k1
  k2 = k2
  Threads <- TwoThreads
  Keys <- TwoKeys
  Ops <- AtomicOps
  Sizes = {2, 4}
  Ttls = {1}
  MaxMemory = 3
  DefaultTtl = 0
  Word = 64
  MaxToken = 2
  MaxAccess = 2
  MaxTime = 1
SPECIFICATION FairSpec
INVARIANTS MemoryExact OvershootBounded
PROPERTIES ImplementsCache SomeCallReturns
CHECK_DEADLOCK FALSE
