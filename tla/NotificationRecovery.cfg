SPECIFICATION Spec
CONSTANTS
  Hashes = {h1}
  Goroutines = {g1}
  QueueSize = 2
  BatchSize = 2
  MaxPushes = 2
  MaxReloads = 0
  MaxCrashes = 0
  MaxDeletes = 0
  MaxFailures = 0
  Subs = {s1}
  Members <- MCMembers
  Channels = {"email", "other"}
  BuiltIn = {"email"}
  Rules <- MCRules
  SubVersions <- MCSubVersions
  None = None
  Main = Main
  MaxAge = 1
  MaxTroubles = 0
INVARIANTS RecoveryOnlyIfAsked
CHECK_DEADLOCK FALSE
