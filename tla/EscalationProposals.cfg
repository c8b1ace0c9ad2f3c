SPECIFICATION FairSpec
CONSTANTS
  MaxBlockers = 10
  MaxOutages = 2
  MaxAnomalies = 1
  ErrorClassLength = 25
  Requests <- MCRequests
INVARIANTS
  TypeOK
  HealthyMeansRead
  OutagesStayLocal
  FailuresListed
  FailuresAreActedOn
  FailsOnlyByContract
  ReactionsCanBeProposed
  ProposalsNameTheTrouble
PROPERTIES
  OperationEnds
CHECK_DEADLOCK FALSE
