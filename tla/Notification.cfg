SPECIFICATION FairSpec
CONSTANTS
  Hashes = {h1}
  Goroutines = {g1}
  QueueSize = 2
  BatchSize = 2
  MaxPushes = 3
  MaxReloads = 1
  MaxCrashes = 1
  MaxDeletes = 1
  MaxFailures = 1
  Subs = {s1}
  Members <- MCMembers
  Channels = {"email", "other"}
  BuiltIn = {"email"}
  Rules <- MCRules
  SubVersions <- MCSubVersions
  None = None
  Main = Main
  MaxAge = 1
  MaxTroubles = 1
INVARIANTS TypeOK   SubscribersAsked 
PROPERTIES EventuallySent 
CHECK_DEADLOCK FALSE
