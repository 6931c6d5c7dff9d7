SPECIFICATION RunsSpec
CONSTANTS
  Keys = {k1, k2}
  Values = {v1}
  NoValue = NoValue
  Durations = {1}
  EntrySize <- EvenSizes
  MaxLogFileSize = 4
  MaxHeaderSize = 2
  GCThreshold = 1
  DiscardBufferSize = 2
  OldestFirst = TRUE
  UserFid = 2
  MaxTime = 3
  MaxFid = 3
  Slots = {s1, s2}
  NoSlot = NoSlot
SYMMETRY Symmetry
INVARIANTS ReopenKeepsValues DiscardIsExact GetFailsOnlyAtExpiry
PROPERTY ImplementsKVStore
