SPECIFICATION Spec
CONSTANTS
  ParentExits = TRUE
  Faults = {}
PROPERTIES StartReportsFailure
CHECK_DEADLOCK FALSE
