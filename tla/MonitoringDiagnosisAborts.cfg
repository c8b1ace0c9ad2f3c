SPECIFICATION Spec
CONSTANTS
  MaxBlockers = 16
  MaxOutages = 1
  MaxAnomalies = 0
INVARIANTS
  DiagnosisSurvives
CHECK_DEADLOCK FALSE
