SPECIFICATION FairSpec
CONSTANTS
  Hashes = {h1}
  Goroutines = {g1, g2}
  QueueSize = 2
  BatchSize = 2
  MaxPushes = 4
  MaxReloads = 1
  MaxCrashes = 1
  MaxDeletes = 1
  MaxFailures = 1
INVARIANTS TypeOK OneRowPerHash NoStaleRow NoMissingRow CalmHistory
PROPERTIES EventuallyDrained
CHECK_DEADLOCK FALSE
