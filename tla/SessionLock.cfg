CONSTANTS
  MaxLocks = 3
  MayRefuse = TRUE
  MayTakeBack = FALSE
  AllowRestore = TRUE
  Managed = TRUE
  Askers = {a1}
  MaxAsks = 3
  MaxCrashes = 2
  MayNotLock = TRUE
  MayFailRecord = FALSE
  MayClear = FALSE
  MayClearLate = FALSE
  Notifies = TRUE
  Early = FALSE
  Suspends = TRUE
SPECIFICATION Spec
INVARIANTS TypeOK RecordHonest PerformerHonest
PROPERTIES Recovers
CHECK_DEADLOCK FALSE
