SPECIFICATION FairSpec
CONSTANTS
  Threads = {th1, th2}
  Backends <- MCBackends
  Targets = {host}
  NameOf <- MCNameOf
  SubnetOf <- MCSubnetOf
  DefaultOf <- MCDefaultOf
  AllowedOf <- MCAllowedOf
  Nobody = Nobody
  MaxCalls = 4
  b1 = b1
  b2 = b2
  b3 = b3
  lanA = lanA
  lanB = lanB
  chrony = chrony
INVARIANTS
  TypeOK
  ChangesAddUp
  NoRedundantEntry
PROPERTIES
  ImplementsSwitch
  OnlyAllowedCallsMutate
  EveryCallAnswered
CHECK_DEADLOCK FALSE
