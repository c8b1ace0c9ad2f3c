SPECIFICATION Spec
CONSTANTS
  MaxBlockers = 16
  MaxOutages = 1
  MaxAnomalies = 0
INVARIANTS
  MissingObservationsEscalate
CHECK_DEADLOCK FALSE
