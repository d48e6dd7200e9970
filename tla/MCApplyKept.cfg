CONSTANTS
  Segs = {1, 2}
  Offset <- MCOffset
  Size <- MCSize
  Stored <- MCStored
  CodeSegs = {1}
  FilterSegs = {}
  FileEnd = 3
  PageEnd = 3
  CHECK_BACKFILE_INDEX = 2
  Dialogs = {d1, d2}
  Editable = {}
  Tickable = {1}
  Saving = TRUE
  Removable = {}
SPECIFICATION Spec
PROPERTY SelectionKept
CHECK_DEADLOCK FALSE
