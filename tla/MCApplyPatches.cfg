CONSTANTS
  Segs = {0, 1, 2}
  Offset <- MCOffset
  Size <- MCSize
  Stored <- MCStored
  CodeSegs = {1}
  FilterSegs = {}
  FileEnd = 3
  PageEnd = 4
  CHECK_BACKFILE_INDEX = 2
  Dialogs = {d1}
  Editable <- MCEditable
  Tickable = {0, 1, 2}
  Saving = FALSE
  Removable = {2}
SPECIFICATION Spec
INVARIANTS
  TypeOK
  Recoverable
PROPERTY ApplyExact
CHECK_DEADLOCK FALSE
