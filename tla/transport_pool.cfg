SPECIFICATION FairSpec
CONSTANTS
  s1 = s1
  s2 = s2
  h1 = h1
  h2 = h2
  p1 = p1
  p2 = p2
  Importers <- OneImporter
  Publishers <- TwoPublishers
  Relays <- NoRelay
  ReadHandles <- OneHandle
  Sizes <- TwoSizes
  MaxBlocks = 2
  ReuseClaimed = 2
  GracePeriod = 1
  MaxUid = 3
  MaxClock = 2
  MaxWrites = 0
  WritesBeforePublish = TRUE
CHECK_DEADLOCK FALSE
INVARIANTS ReaderAccounting PoolPartition
PROPERTIES ClaimRespectsGrace StaleDescriptorsStayStale AllocateReturns ImportResolves
