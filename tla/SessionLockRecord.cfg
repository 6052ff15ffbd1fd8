CONSTANTS
  MaxLocks = 2
  MayRefuse = FALSE
  MayTakeBack = FALSE
  AllowRestore = TRUE
  Managed = TRUE
  Askers = {a1}
  MaxAsks = 2
  MaxCrashes = 1
  MayNotLock = FALSE
  MayFailRecord = FALSE
  MayClear = FALSE
  MayClearLate = FALSE
  Notifies = TRUE
  Early = FALSE
  Suspends = FALSE
SPECIFICATION Spec
PROPERTIES KeptUntilGranted
CHECK_DEADLOCK FALSE
