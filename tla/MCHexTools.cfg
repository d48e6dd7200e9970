CONSTANTS
  Segments <- MCSegments
  Address <- MCAddress
  Databases <- MCDatabases
  DefaultStep = 3
  FindForms <- MCFindForms
  PatchForms <- MCPatchForms
  DumpForms <- MCDumpForms
  Wrap = 21
  SafeAlloc = 10
  Heap <- MCHeap
  MaxCalls = 3
  NoFile = NoFile
  NoCall = NoCall
SPECIFICATION Spec
INVARIANTS
  TypeOK
  FindExact
  PatchExact
  RestoreExact
  
CHECK_DEADLOCK FALSE
