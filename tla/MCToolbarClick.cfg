CONSTANTS
  MaxQueue = 2
  MaxDialogs = 2
SPECIFICATION Spec
PROPERTY CommandOfItsPress
CHECK_DEADLOCK FALSE
