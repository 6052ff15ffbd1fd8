CONSTANTS
  MaxLocks = 3
  MayRefuse = TRUE
  MayTakeBack = TRUE
  AllowRestore = TRUE
  Managed = TRUE
  Askers = {a1}
  MaxAsks = 2
  MaxCrashes = 2
  MayNotLock = TRUE
  MayFailRecord = TRUE
  MayClear = TRUE
  MayClearLate = FALSE
  Notifies = TRUE
  Early = FALSE
  Suspends = FALSE
SPECIFICATION Spec
PROPERTIES RequestsSettle
CHECK_DEADLOCK FALSE
