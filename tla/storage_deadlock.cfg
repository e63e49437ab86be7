CONSTANTS
  t1 = t1
  t2 = t2
  k1 = k1
  k2 = k2
  Threads <- TwoThreads
  Keys <- TwoKeys
  Ops <- SetOnly
  Sizes = {2}
  Ttls = {0}
  MaxMemory = 3
  DefaultTtl = 0
  Word = 64
  MaxToken = 3
  MaxAccess = 4
  MaxTime = 0
SPECIFICATION Spec
INVARIANTS NoCircularWait
CHECK_DEADLOCK FALSE
