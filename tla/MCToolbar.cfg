CONSTANTS
  MaxQueue = 3
  MaxDialogs = 3
SPECIFICATION FairSpec
INVARIANTS
  TypeOK
  IInv
  NoOrphan
  ToolbarStays
PROPERTIES
  ToolbarEndsFirst
  PressOnce
  CloseArrives
CHECK_DEADLOCK FALSE
