SPECIFICATION FairSpec
CONSTANTS
  Hosts = {lab, core, desk}
  Unknown = Unknown
  Kinds <- MCKinds
  MinSeverity = 2
  Limit = 1
  Documents <- MCDocuments
  InitialFiles <- MCInitialFiles
  NotGiven = NotGiven
  NoValue = NoValue
  BadValue = BadValue
  Unparsable = Unparsable
  Unreadable = Unreadable
  MaxProblems = 2
  MaxEdits = 1
  MaxFaults = 1
  lab = lab
  core = core
  desk = desk
INVARIANTS
  TypeOK
  NothingElseLeftOut
PROPERTIES
  TicketsWarranted
  StandingProblemsTicketed
CHECK_DEADLOCK FALSE
