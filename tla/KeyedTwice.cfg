CONSTANTS
  Entries = {e1, e2}
  Surfaces = {s1, s2}
  Runs = {r1, r2, r3}
  None = none
  Loop = loop
  MaxLayouts = 3
SPECIFICATION KeyedSpec
INVARIANTS OneProducerPerKey
CHECK_DEADLOCK FALSE
