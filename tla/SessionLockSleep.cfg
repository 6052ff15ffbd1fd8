CONSTANTS
  MaxLocks = 2
  MayRefuse = FALSE
  MayTakeBack = FALSE
  AllowRestore = TRUE
  Managed = TRUE
  Askers = {a1}
  MaxAsks = 3
  MaxCrashes = 0
  MayNotLock = FALSE
  MayFailRecord = FALSE
  MayClear = FALSE
  MayClearLate = FALSE
  Notifies = TRUE
  Early = FALSE
  Suspends = TRUE
SPECIFICATION Spec
PROPERTIES SleepsLocked
CHECK_DEADLOCK FALSE
