SPECIFICATION CollectionSpec
CONSTANTS
  Keys = {k1, k2}
  Values = {v1}
  NoValue = NoValue
  Durations = {}
  EntrySize <- EvenSizes
  MaxLogFileSize = 4
  MaxHeaderSize = 2
  GCThreshold = 1
  DiscardBufferSize = 2
  OldestFirst = TRUE
  UserFid = 3
  MaxTime = 1
  MaxFid = 4
  Slots = {s1, s2}
  NoSlot = NoSlot
SYMMETRY Symmetry
INVARIANT OpenBringsBack
