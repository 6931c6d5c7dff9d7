SPECIFICATION Spec
CONSTANTS
  Threads = {t1, t2}
  Nobody = Nobody
  Members = {1, 2}
  Lengths <- EqualAndDistinct
  MaxScore = 1
  MaxCount = 2
  Batches <- SmallBatches
INVARIANTS
  TypeOK
  IndexesInStep
  RankFindsNode
  UnovertakenIsRight
  RangeAgreesWithRank
PROPERTY CallsReturn
CHECK_DEADLOCK FALSE
