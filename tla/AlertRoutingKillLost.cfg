SPECIFICATION Spec
CONSTANTS
  Runners = {r1}
  Events <- MCEvents
  Keys <- MCKeys
  KeyOf <- MCKeyOf
  Batches <- MCBatches
  Inodes = {i1, i2, i3}
  NoInode = NoInode
  Empty = Empty
  Torn = Torn
  FaultKinds = {"kill_lost"}
  MaxFaults = 1
  MaxTickets = 5
  e1 = e1
  e2 = e2
  e3 = e3
  k1 = k1
  k2 = k2
INVARIANT
  OneTicketPerKey
