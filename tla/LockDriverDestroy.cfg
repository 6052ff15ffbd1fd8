CONSTANTS
  MaxLocks = 1
  MayRefuse = FALSE
  MayTakeBack = FALSE
  AllowRestore = FALSE
  Managed = TRUE
SPECIFICATION LockSpec
PROPERTIES DestroysUngranted
CHECK_DEADLOCK FALSE
