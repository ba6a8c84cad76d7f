SPECIFICATION Spec
CONSTANTS
  s1 = s1
  s2 = s2
  h1 = h1
  h2 = h2
  p1 = p1
  p2 = p2
  Importers <- TwoImporters
  Publishers <- TwoPublishers
  Relays <- OneImporter
  ReadHandles <- TwoHandles
  Sizes <- OneSize
  MaxBlocks = 1
  ReuseClaimed = 8
  GracePeriod = 0
  MaxUid = 3
  MaxClock = 1
  MaxWrites = 2
  WritesBeforePublish = TRUE
CHECK_DEADLOCK FALSE
INVARIANTS TypeOK IndInv LeasePinsGeneration ReadersSeePublishedBytes ReadHandleBytesStable
PROPERTIES ImplementsPublicationLease
