SPECIFICATION PySpec
CONSTANTS
  x1 = x1
  x2 = x2
  h1 = h1
  h2 = h2
  w1 = w1
  w2 = w2
  t1 = t1
  t2 = t2
  v1 = v1
  v2 = v2
  v3 = v3
  Buffers = {x1, x2}
  ReadHandles = {h1, h2}
  WriteHandles = {w1}
  Threads = {t1, t2}
  MaxBlocks = 2
  RemoteBlocks = {1}
  MaxStates = 3
  Views = {v1, v2}
  ReuseClaimed = 2
  ScopedWriters = FALSE
SYMMETRY Alike
CHECK_DEADLOCK FALSE
INVARIANTS PyTypeOK ViewsAreBacked WriterExcludesReaders ExportAccounting EverythingGivenBack
