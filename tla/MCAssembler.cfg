CONSTANTS
  p1 = p1
  p2 = p2
  Procs = {p1, p2}
  Users <- MCUsers
  Short <- MCShort
  HexValue <- MCHexValue
  Locals <- MCLocals
  Names <- MCNames
  Error = Error
  Long <- MCLong
  MaxBranches = 2
  MaxSource = 8
  MaxErrors = 1
  MaxCode = 8
  MaxStray = 1
  NoFile = NoFile
  NoProgram = NoProgram
  Unread = Unread
SPECIFICATION Spec
INVARIANTS
  TypeOK
  OneDialog
  OwnCode
  PatchExact
  
