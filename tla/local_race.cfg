SPECIFICATION Spec
CONSTANTS
  x1 = x1
  x2 = x2
  h1 = h1
  h2 = h2
  w1 = w1
  w2 = w2
  t1 = t1
  t2 = t2
  Buffers = {x1}
  ReadHandles = {h1, h2}
  WriteHandles = {w1}
  Threads = {t1, t2}
  MaxBlocks = 1
  RemoteBlocks = {}
  MaxStates = 2
  ReuseClaimed = 8
  ScopedWriters = TRUE
SYMMETRY Alike
CHECK_DEADLOCK FALSE
INVARIANTS WriterExcludesReaders
