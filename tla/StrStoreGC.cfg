SPECIFICATION Spec
CONSTANTS
  Keys = {k1, k2}
  Values = {v1}
  NoValue = NoValue
  Durations = {}
  EntrySize <- EvenSizes
  MaxLogFileSize = 4
  MaxHeaderSize = 2
  GCThreshold = 1
  DiscardBufferSize = 2
  OldestFirst = FALSE
  UserFid = 3
  MaxTime = 2
  MaxFid = 4
  Slots = {s1, s2}
  NoSlot = NoSlot
SYMMETRY Symmetry
CONSTRAINT ClockOfOneFile
INVARIANTS TypeOK GetNeverFails IndexIsLatest SlotsOK StoreInv DiscardInv
PROPERTY MergeIsInvisible
