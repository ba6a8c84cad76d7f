SPECIFICATION Spec
CONSTANTS
  s1 = s1
  s2 = s2
  h1 = h1
  h2 = h2
  p1 = p1
  p2 = p2
  Importers <- OneImporter
  Publishers <- OnePublisher
  Relays <- NoRelay
  ReadHandles <- OneHandle
  Sizes <- OneSize
  MaxBlocks = 1
  ReuseClaimed = 8
  GracePeriod = 1
  MaxUid = 1
  MaxClock = 1
  MaxWrites = 1
  WritesBeforePublish = FALSE
CHECK_DEADLOCK FALSE
INVARIANTS NoWriterAfterPublish
