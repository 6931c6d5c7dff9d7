SPECIFICATION Spec
CONSTANTS
  Threads = {t1, t2}
  Nobody = Nobody
  Members = {1, 2}
  Lengths <- EqualAndDistinct
  MaxScore = 1
  MaxCount = 2
  Batches <- SmallBatches
INVARIANT RevRangeAgreesWithRevRank
CHECK_DEADLOCK FALSE
