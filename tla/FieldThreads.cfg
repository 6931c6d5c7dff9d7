SPECIFICATION FieldSpec
CONSTANTS
  Threads = {t1, t2}
  Nobody = Nobody
  Keys = {k1, k2}
  Values = {v1}
  NoValue = NoValue
  PerFile = 1
  MaxWrites = 5
  Raced = 2
INVARIANTS
  FieldTypeOK
  IndexResolves
  GetReadsValueOrMoved
  HGetAllIsSnapshot
  WrittenIsIndexed
  IncrementsScoreOrMoved
PROPERTIES
  OnlyWritesChangeValues
  CallsReturn
CHECK_DEADLOCK FALSE
