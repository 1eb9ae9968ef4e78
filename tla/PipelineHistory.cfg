SPECIFICATION Spec
CONSTANTS
  Hashes = {h1}
  Goroutines = {g1}
  QueueSize = 3
  BatchSize = 2
  MaxPushes = 3
  MaxReloads = 0
  MaxCrashes = 0
  MaxDeletes = 0
  MaxFailures = 0
INVARIANTS HistoryComplete
CHECK_DEADLOCK FALSE
