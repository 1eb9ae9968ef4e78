SPECIFICATION Spec
CONSTANTS
  Labels <- OneSeries
  Severities = {1, 2}
  Rules <- WaitingRule
  NoRule = NoRule
  External = FALSE
  Minute = 2
  StartTime = 10
  MaxCount = 3
  MaxTime = 13
INVARIANTS TypeOK 
PROPERTIES   RecoverDurationFromFire
CHECK_DEADLOCK FALSE
