SPECIFICATION FairSpec
CONSTANTS
  Operations = {o1, o2}
  Subnets = {lanA, lanB}
  SubnetOf <- MCSubnetOf
  NoConfig = NoConfig
  NoReport = NoReport
  o1 = o1
  o2 = o2
  lanA = lanA
  lanB = lanB
INVARIANTS
  TypeOK
  EffectsAdmittedOnce
  ValidatedUnlessOvertaken
  RecoveredUnlessOvertaken
PROPERTIES
  EveryOperationEnds
CHECK_DEADLOCK FALSE
