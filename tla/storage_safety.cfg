CONSTANTS
  t1 = t1
  t2 = t2
  k1 = k1
  k2 = k2
  Threads <- TwoThreads
  Keys <- TwoKeys
  Ops <- Everything
  Sizes = {1, 2}
  Ttls = {0, 1}
  MaxMemory = 3
  DefaultTtl = 0
  Word = 64
  MaxToken = 2
  MaxAccess = 3
  MaxTime = 1
SPECIFICATION Spec
SYMMETRY ThreadSymmetry
INVARIANTS TypeOK TokensUnique LruTracked AccessNumbersDistinct
PROPERTIES AccessesCurrent LiveItemsKept
CHECK_DEADLOCK FALSE
