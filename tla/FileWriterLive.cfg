CONSTANTS
  Paths = {p1}
  Callers = {c1, c2}
  Writer = w
  Nobody = nobody
  Spawns = {"threaded", "inline"}
  MaxWrites = 3
  MaxCrashes = 1
SPECIFICATION Spec
PROPERTIES CallsReturn
CHECK_DEADLOCK FALSE
