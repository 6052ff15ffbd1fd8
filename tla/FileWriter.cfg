CONSTANTS
  Paths = {p1, p2}
  Callers = {c1, c2}
  Writer = w
  Nobody = nobody
  Spawns = {"threaded"}
  MaxWrites = 3
  MaxCrashes = 1
SPECIFICATION Spec
INVARIANTS TypeOK AckDurable
PROPERTIES DiskForward FlushHonest IsRegister
SYMMETRY Symmetry
CHECK_DEADLOCK FALSE
