SPECIFICATION Spec
CONSTANTS
  Runners = {r1, r2}
  Events <- MCEvents
  Keys <- MCKeys
  KeyOf <- MCKeyOf
  Batches <- SmallBatches
  Inodes = {i1, i2, i3, i4}
  NoInode = NoInode
  Empty = Empty
  Torn = Torn
  FaultKinds = {"init", "post", "kill_refused", "kill_lost", "crash"}
  MaxFaults = 0
  MaxTickets = 4
  e1 = e1
  e2 = e2
  e3 = e3
  k1 = k1
  k2 = k2
PROPERTY
  ListedStaysListed
CHECK_DEADLOCK FALSE
