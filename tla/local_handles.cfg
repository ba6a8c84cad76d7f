SPECIFICATION Spec
CONSTANTS
  x1 = x1
  x2 = x2
  h1 = h1
  h2 = h2
  w1 = w1
  w2 = w2
  t1 = t1
  t2 = t2
  Buffers = {x1, x2}
  ReadHandles = {h1, h2}
  WriteHandles = {w1, w2}
  Threads = {t1, t2}
  MaxBlocks = 3
  RemoteBlocks = {2}
  MaxStates = 3
  ReuseClaimed = 2
  ScopedWriters = FALSE
SYMMETRY Alike
CHECK_DEADLOCK FALSE
INVARIANTS TypeOK WriterAlone SlotAccounting LeaseAccounting OneOwner
