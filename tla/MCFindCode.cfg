CONSTANTS
  w1 = w1
  w2 = w2
  w3 = w3
  Workers = {w1, w2}
  Windows = {h1, h2}
  ChunkCount <- MCChunkCount1
  MaxChunks = 1
  MaxPlan = 1
  None = None
  NoWindow = NoWindow
SYMMETRY MCSymmetry
SPECIFICATION Spec
INVARIANTS TypeOK ButtonOwed NoNullRead
PROPERTIES NoMatchLost DialogPromise
CHECK_DEADLOCK FALSE
