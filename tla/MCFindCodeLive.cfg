CONSTANTS
  w1 = w1
  w2 = w2
  w3 = w3
  Workers = {w1, w2}
  Windows = {h1}
  ChunkCount <- MCChunkCount0
  MaxChunks = 1
  MaxPlan = 2
  None = None
  NoWindow = NoWindow
SPECIFICATION FairSpec
PROPERTIES ButtonComesBack ThreadsEnd
CHECK_DEADLOCK FALSE
