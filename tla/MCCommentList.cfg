CONSTANTS
  Procs = {p1, p2}
  Addrs = {1, 2}
  Comments <- MCComments
  BufSize = 4
  Machine <- MCMachine
  Default <- MCDefault
  NoText = NoText
  Programs <- MCPrograms
  MaxFilter = 2
SYMMETRY MCSymmetry
SPECIFICATION Spec
INVARIANTS
  TypeOK
  ListExact
  FilterOnce
PROPERTIES
  FilterSurvives
  NoSaveLost
CHECK_DEADLOCK FALSE
