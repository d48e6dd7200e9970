CONSTANTS
  w1 = w1
  w2 = w2
  w3 = w3
  Workers = {w1, w2}
  Windows = {h1}
  ChunkCount <- MCChunkCount
  MaxChunks = 2
  MaxPlan = 1
  None = None
  NoWindow = NoWindow
SPECIFICATION Spec
INVARIANTS PublicationInv DiskSafe ReportSafe
CHECK_DEADLOCK FALSE
