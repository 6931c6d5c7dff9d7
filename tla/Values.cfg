SPECIFICATION MCSpec
CONSTANTS
  Keys = {k1, k2}
  Values = {v1, v2}
  NoItem = NoItem
  SeqSpace = 4
  Batches <- OnesAndTwos
  MaxLen = 3
  Half = 8
  MaxText = 3
SYMMETRY Symmetry
INVARIANTS TypeOK LIndexRightUnlessWrapped LRangeRightUnlessWrapped CountsExactly GetRangeIsSubstring
PROPERTY ImplementsDeque
