CONSTANTS
  Surfaces = {s1, s2}
  Callers = {}
  Runs = {r1, r2}
  None = none
  MaxWorld = 2
  Kinds = {"changes"}
  MayNotSpawn = FALSE
  MaySeed = FALSE
SPECIFICATION Spec
INVARIANTS StartsInSync
CHECK_DEADLOCK FALSE
