SPECIFICATION Spec
CONSTANTS
  Threads = {t1, t2}
  Nobody = Nobody
  Keys = {k1}
  Values = {v1, v2}
  Members = {m1}
  MaxPending = 3
  MaxPlain = 1
INVARIANTS
  TypeOK
  LogHoldsPrefixes
  IndexIsReplayUnlessRaced
PROPERTY
  ReadersSeeNoCommit
SYMMETRY Symmetry
