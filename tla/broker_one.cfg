SPECIFICATION FairSpec
CONSTANTS
  p1 = p1
  p2 = p2
  b1 = b1
  b2 = b2
  c1 = c1
  c2 = c2
  o1 = o1
  Pools = {p1}
  Blocks = {b1, b2}
  Clients = {c1}
  Others = {o1}
  PoolOf <- OnePool
  MaxFd = 7
CHECK_DEADLOCK FALSE
INVARIANTS TypeOK ServedBeforeDestruction NeverAnotherBlock DescriptorAccounting
PROPERTIES ClientAnswered DestroyReturns
