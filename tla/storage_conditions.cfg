CONSTANTS
  t1 = t1
  t2 = t2
  k1 = k1
  k2 = k2
  Threads <- TwoThreads
  Keys <- OneKey
  Ops <- Conditional
  Sizes = {1}
  Ttls = {0}
  MaxMemory = 9
  DefaultTtl = 0
  Word = 64
  MaxToken = 3
  MaxAccess = 4
  MaxTime = 0
SPECIFICATION Spec
PROPERTIES ConditionHolds
CHECK_DEADLOCK FALSE
