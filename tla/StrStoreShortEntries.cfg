SPECIFICATION Spec
CONSTANTS
  Keys = {k1}
  Values = {v1}
  NoValue = NoValue
  Durations = {}
  EntrySize <- EvenSizes
  MaxLogFileSize = 4
  MaxHeaderSize = 3
  GCThreshold = 1
  DiscardBufferSize = 2
  OldestFirst = FALSE
  UserFid = 3
  MaxTime = 1
  MaxFid = 4
  Slots = {s1, s2, s3}
  NoSlot = NoSlot
SYMMETRY Symmetry
INVARIANT GetNeverFails
