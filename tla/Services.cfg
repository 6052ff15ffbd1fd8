CONSTANTS
  Parts = {"auth", "idle", "notifications", "driver", "commands", "recorder", "state"}
  Kits <- SomeKits
  MaxTries = 1
  BioTries = 1
  MaxTakes = 2
  MaxSubmits = 2
  MaxUnstarted = 1
  Confs <- SomeConfs
  Stages = {s1, s2}
  MaxArms = 3
  MaxChanges = 3
  MaxEvents = 3
  MaxIds = 2
  MaxSends = 2
  MaxActs = 2
  MaxLocks = 3
  MayRefuse = TRUE
  MayTakeBack = TRUE
  AllowRestore = FALSE
  Managed = TRUE
  Clients = {c1, c2}
  Nobody = nobody
  MaxLines = 2
  MaxRecordings = 2
  PipeRoom = 1
  Writers = {w1, w2}
  Readers = {d1}
  MaxUpdates = 3
  MaxDowns = 2
SPECIFICATION Spec
INVARIANTS TypeOK AttemptsKept ArmedTruly DriverHonest ImportsTold
PROPERTIES LockoutRuns ReturnsWhileArmed PopupsKept PopupsEnd HandlesReach ClientsServed RecorderFollowed StateKept
CHECK_DEADLOCK FALSE
