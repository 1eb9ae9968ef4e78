SPECIFICATION Spec
CONSTANTS
  Labels <- OneSeries
  Severities = {1}
  Rules <- EditedRules
  NoRule = NoRule
  External = TRUE
  Minute = 2
  StartTime = 10
  MaxCount = 3
  MaxTime = 13
CHECK_DEADLOCK FALSE
 
PROPERTIES RepeatStepRespected MaxNumberRespected LifecycleSpec
