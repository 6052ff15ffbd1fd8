CONSTANTS
  Parts = {"keyed", "rules", "schedule", "column", "reload", "layouts", "process"}
  Entries = {e1, e2}
  Surfaces = {s1, s2}
  Runs = {r1, r2, r3}
  None = none
  Loop = loop
  MaxLayouts = 3
  Books <- SomeBooks
  PerSecond = 1
  MaxLoads = 2
  MaxQueue = 2
  Week = 2
  DayTicks = 5
  TimeLists <- SomeTimes
  DayLists <- SomeDays
  Grace = 1
  End = 13
  Asleep = 3
  MaxBack = 1
  Popups = {n1, n2}
  Critical = {n2}
  Events = {vpn, dnd, gpu}
  Osds = {volume, brightness}
  Visible = 2
  Capacity = 2
  Life = 1
  MaxPosts = 3
  MaxShows = 2
  MaxWrites = 4
  MaxMoves = 2
  Kept = 2
  Layouts = {mine, theirs}
  Shared = {theirs}
  Texts = {t1, t2, t3}
  Shipped = t1
  Sound = {t1, t2}
  BuiltIn = default
  Absent = absent
  Broken = brokenfile
  MayBeSafe = TRUE
  MaxActs = 3
  MaxPrints = 2
SPECIFICATION Spec
INVARIANTS TypeOK Served
PROPERTIES Forgets RulesAsWritten SessionWaits RingsInTime CardsKept ReloadFaithful EditsKept CommandsContained CommandEnds
CHECK_DEADLOCK FALSE
