CONSTANTS
  Surfaces = {s1, s2}
  Callers = {c1}
  Runs = {r1, r2, r3}
  None = none
  MaxWorld = 2
  Kinds = {"polls", "changes", "returns"}
  MayNotSpawn = TRUE
  MaySeed = TRUE
SPECIFICATION Spec
INVARIANTS TypeOK OneProducer NoStranded CensusTrue
PROPERTIES Settles
CHECK_DEADLOCK FALSE
