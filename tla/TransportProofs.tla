---------------------------- MODULE TransportProofs ----------------------------
(***************************************************************************)
(* The invariants of SharedBufferTransport for every value of the          *)
(* constants: one lemma for each part of the inductive invariant and each  *)
(* group of actions.                                                       *)
(***************************************************************************)
EXTENDS TransportInvariant, FiniteSetTheorems, TLAPS

-----------------------------------------------------------------------------
(* The free lists *)

\* Taking element i out of a free list, as allocate() does, leaves a list.
LEMMA RemoveSwapList ==
  ASSUME NEW S, NEW list \in Seq(S), NEW i \in 1 .. Len(list)
  PROVE  /\ RemoveSwap(list, i) \in Seq(S)
         /\ DOMAIN RemoveSwap(list, i) = 1 .. (Len(list) - 1)
         /\ \A j \in 1 .. (Len(list) - 1) :
              RemoveSwap(list, i)[j] = IF j = i THEN list[Len(list)] ELSE list[j]
  BY DEF RemoveSwap

\* A list without duplicates stays so, and loses exactly its element i.
LEMMA RemoveSwapSet ==
  ASSUME NEW S, NEW list \in Seq(S), NEW i \in 1 .. Len(list),
         \A j, k \in DOMAIN list : list[j] = list[k] => j = k
  PROVE  LET rest == RemoveSwap(list, i) IN
         /\ \A j, k \in DOMAIN rest : rest[j] = rest[k] => j = k
         /\ \A j \in DOMAIN rest : \E k \in DOMAIN list : rest[j] = list[k] /\ k # i
         /\ \A k \in DOMAIN list : k # i => \E j \in DOMAIN rest : rest[j] = list[k]
  <1>. DEFINE rest == RemoveSwap(list, i)
              n == Len(list)
  <1>1. /\ DOMAIN rest = 1 .. (n - 1)
        /\ \A j \in 1 .. (n - 1) : rest[j] = IF j = i THEN list[n] ELSE list[j]
    BY RemoveSwapList
  <1>2. n \in Nat /\ DOMAIN list = 1 .. n /\ i \in 1 .. n
    OBVIOUS
  <1>. HIDE DEF rest, n
  <1>3. \A j, k \in DOMAIN rest : rest[j] = rest[k] => j = k
    BY <1>1, <1>2
  <1>4. ASSUME NEW j \in DOMAIN rest
        PROVE  \E k \in DOMAIN list : rest[j] = list[k] /\ k # i
    <2>1. CASE j = i
      BY <1>1, <1>2, <2>1
    <2>2. CASE j # i
      BY <1>1, <1>2, <2>2
    <2>. QED BY <2>1, <2>2
  <1>5. ASSUME NEW k \in DOMAIN list, k # i
        PROVE  \E j \in DOMAIN rest : rest[j] = list[k]
    <2>1. CASE k = n
      <3>1. i \in DOMAIN rest /\ rest[i] = list[k]
        BY <1>1, <1>2, <1>5, <2>1
      <3>. QED BY <3>1
    <2>2. CASE k # n
      <3>1. k \in DOMAIN rest /\ rest[k] = list[k]
        BY <1>1, <1>2, <1>5, <2>2
      <3>. QED BY <3>1
    <2>. QED BY <2>1, <2>2
  <1>. QED BY <1>3, <1>4, <1>5 DEF rest

-----------------------------------------------------------------------------
(* Types *)

\* Values that the code stores and that lie in the types of their fields.
LEMMA StoredValues ==
  /\ 0 \in 0 .. MaxUid /\ 0 \in ReaderWords /\ ReuseClaimed \in ReaderWords
  /\ 0 \in 0 .. MaxWrites
  BY ReuseClaimedAssumption, BoundsAssumption DEF ReaderWords

\* The steps of allocate() keep the types.
LEMMA AllocateTypes == PoolInv /\ AllocateStep /\ UNCHANGED transportVars => TypeOK'
  <1>. SUFFICES ASSUME PoolInv, AllocateStep, UNCHANGED transportVars
                PROVE  TypeOK'
    OBVIOUS
  <1>. USE ReuseClaimedAssumption, MaxBlocksAssumption, BoundsAssumption, StoredValues
  <1>. USE DEF PoolInv, PoolShape, TypeOK, HeaderTypeOK, PoolTypeOK, BufferTypeOK, transportVars,
               headerVars, bufferVars, AllocationRecords
  <1>1. ASSUME ScanCandidate PROVE TypeOK'
    <2>1. alloc.i + 1 \in Nat
      OBVIOUS
    <2>2. alloc' \in AllocationRecords
      BY <1>1, <2>1 DEF ScanCandidate, NextCandidate
    <2>. QED BY <1>1, <2>2 DEF ScanCandidate, NextCandidate
  <1>2. ASSUME ClaimCandidate PROVE TypeOK'
    <2>1. /\ alloc.size \in Sizes
          /\ alloc.i \in 1 .. Len(free_blocks[alloc.size])
          /\ free_blocks[alloc.size] \in Seq(BlockIds)
      BY <1>2 DEF ClaimCandidate, AllocationShape
    <2>2. Candidates[alloc.i] \in BlockIds
      BY <2>1 DEF Candidates
    <2>3. RemoveSwap(free_blocks[alloc.size], alloc.i) \in Seq(BlockIds)
      BY <2>1, RemoveSwapList
    <2>4. free_blocks' \in [Sizes -> Seq(BlockIds)]
      BY <1>2, <2>1, <2>3 DEF ClaimCandidate
    <2>5. reader_state' \in [BlockIds -> ReaderWords]
      BY <1>2, <2>2 DEF ClaimCandidate, ClaimReuse, ReaderWords
    <2>. QED BY <1>2, <2>2, <2>4, <2>5 DEF ClaimCandidate
  <1>3. ASSUME ClaimRefused PROVE TypeOK'
    <2>1. alloc.i + 1 \in Nat
      OBVIOUS
    <2>2. alloc' \in AllocationRecords
      BY <1>3, <2>1 DEF ClaimRefused, NextCandidate
    <2>. QED BY <1>3, <2>2 DEF ClaimRefused, NextCandidate
  <1>4. ASSUME CreateBlock PROVE TypeOK'
    <2>1. next_block_id \in BlockIds /\ alloc.size \in Sizes
      BY <1>4 DEF CreateBlock, BlockIds, AllocationShape
    <2>2. alloc' \in AllocationRecords
      BY <1>4, <2>1 DEF CreateBlock
    <2>3. HeaderTypeOK'
      BY <1>4, <2>1 DEF CreateBlock
    <2>4. next_block_id' \in 0 .. MaxBlocks
      <3>1. /\ next_block_id \in 0 .. MaxBlocks /\ next_block_id < MaxBlocks
            /\ next_block_id' = next_block_id + 1
        BY <1>4 DEF CreateBlock
      <3>. HIDE DEF PoolInv, TypeOK
      <3>. QED BY <3>1
    <2>5. all_blocks' \subseteq BlockIds /\ payload_size' \in [BlockIds -> Sizes \cup {0}]
      BY <1>4, <2>1 DEF CreateBlock
    <2>6. UNCHANGED <<clock, in_use, current_uid, free_blocks, uids_drawn, bufferVars,
                      imp, handle>>
      BY <1>4 DEF CreateBlock
    <2>. QED BY <2>2, <2>3, <2>4, <2>5, <2>6
  <1>5. ASSUME CreateBlockFails PROVE TypeOK'
    BY <1>5 DEF CreateBlockFails, NoAllocation
  <1>6. ASSUME RetireUid PROVE TypeOK'
    <2>1. uids_drawn + 1 \in 0 .. MaxUid
      BY <1>6 DEF RetireUid, NewUid, AllocationShape
    <2>2. alloc' \in AllocationRecords
      BY <1>6 DEF RetireUid, NewUid
    <2>3. current_uid' \in [BlockIds -> 0 .. MaxUid]
      BY <1>6, <2>1 DEF RetireUid, NewUid
    <2>4. ipc_uid' \in [BlockIds -> 0 .. MaxUid]
      BY <1>6 DEF RetireUid, NewUid
    <2>. QED BY <1>6, <2>1, <2>2, <2>3, <2>4 DEF RetireUid, NewUid
  <1>7. ASSUME ClearTimestamp PROVE TypeOK'
    BY <1>7 DEF ClearTimestamp
  <1>8. ASSUME ReturnBlock PROVE TypeOK'
    <2>1. alloc' \in AllocationRecords
      BY <1>8 DEF ReturnBlock, NoAllocation
    <2>2. reader_state' \in [BlockIds -> ReaderWords]
      BY <1>8 DEF ReturnBlock, ReleaseReuseClaim
    <2>. QED BY <1>8, <2>1, <2>2 DEF ReturnBlock
  <1>. QED BY <1>1, <1>2, <1>3, <1>4, <1>5, <1>6, <1>7, <1>8 DEF AllocateStep

\* The steps of the owner of a block keep the types.
LEMMA OwnerTypes ==
  ASSUME NEW b \in BlockIds, PoolInv, UNCHANGED transportVars,
         \/ WritePayload(b)
         \/ ReleaseWriteHandle(b)
         \/ FreeBlock(b)
         \/ GrantWriteHandle(b)
  PROVE  TypeOK'
  <1>. USE DEF PoolInv, PoolShape, TypeOK, HeaderTypeOK, PoolTypeOK, BufferTypeOK, transportVars,
               headerVars, poolVars
  <1>. USE BoundsAssumption
  <1>1. ASSUME WritePayload(b) PROVE TypeOK'
    BY <1>1 DEF WritePayload
  <1>2. ASSUME ReleaseWriteHandle(b) PROVE TypeOK'
    BY <1>2 DEF ReleaseWriteHandle
  <1>3. ASSUME FreeBlock(b) PROVE TypeOK'
    <2>1. payload_size[b] \in Sizes
      BY <1>3 DEF FreeBlock, Unused, Owned, CreatedBlocks
    <2>2. Append(free_blocks[payload_size[b]], b) \in Seq(BlockIds)
      BY <2>1
    <2>3. free_blocks' \in [Sizes -> Seq(BlockIds)]
      BY <1>3, <2>1, <2>2 DEF FreeBlock, Unused
    <2>. QED BY <1>3, <2>3 DEF FreeBlock, Unused, bufferVars
  <1>4. ASSUME GrantWriteHandle(b) PROVE TypeOK'
    BY <1>4 DEF GrantWriteHandle, GetWriteHandle
  <1>. QED BY <1>1, <1>2, <1>3, <1>4

\* What every step of a create_descriptor call leaves alone.
LEMMA PublisherFrame ==
  ASSUME PoolInv, NEW p \in Publishers, PublishStep(p)
  PROVE  /\ UNCHANGED <<reader_state, clock, poolVars, payload>>
         /\ \A q \in Publishers : q # p => publishing'[q] = publishing[q]
  <1>1. publishing \in [Publishers -> PublicationRecords]
    BY DEF PoolInv, TypeOK, BufferTypeOK
  <1>. QED BY <1>1 DEF PublishStep, FinalizeForPublish, MarkUid, PublishFallsBack,
                       ReadPublishClock, StampAndSend, AdvancePublish, headerVars

\* The call that a publisher is in names its block from its first step to its last.
LEMMA PublisherRecord ==
  ASSUME PoolInv, NEW p \in Publishers, PublishStep(p)
  PROVE  /\ publishing' \in [Publishers -> PublicationRecords]
         /\ \/ publishing'[p] = NotPublishing
            \/ /\ publishing'[p].step # "idle"
               /\ publishing'[p].block \in BlockIds /\ Owned(publishing'[p].block)
         /\ publishing[p].step # "idle" => BufferOf(p) \in BlockIds /\ Owned(BufferOf(p))
  <1>0. /\ publishing \in [Publishers -> PublicationRecords] /\ clock \in Nat
        /\ publishing[p] \in PublicationRecords
        /\ PublishingOwned
    BY DEF PoolInv, PoolShape, TypeOK, PoolTypeOK, BufferTypeOK
  <1>1. publishing[p].step # "idle" => BufferOf(p) \in BlockIds /\ Owned(BufferOf(p))
    BY <1>0 DEF PublishingOwned
  <1>2. ASSUME NEW b \in BlockIds, FinalizeForPublish(p, b)
        PROVE  /\ publishing'[p] \in PublicationRecords
               /\ publishing'[p].step # "idle" /\ publishing'[p].block = b /\ Owned(b)
    BY <1>0, <1>2 DEF FinalizeForPublish, PublicationRecords
  <1>3. ASSUME MarkUid(p) PROVE publishing'[p] = [publishing[p] EXCEPT !.step = "marked"]
    BY <1>0, <1>3 DEF MarkUid, AdvancePublish
  <1>4. ASSUME ReadPublishClock(p)
        PROVE  publishing'[p] = [publishing[p] EXCEPT !.step = "timed", !.now = clock]
    BY <1>0, <1>4 DEF ReadPublishClock
  <1>5. ASSUME PublishFallsBack(p) \/ StampAndSend(p) PROVE publishing'[p] = NotPublishing
    BY <1>0, <1>5 DEF PublishFallsBack, StampAndSend
  <1>6. publishing' = [publishing EXCEPT ![p] = publishing'[p]]
    <2>1. ASSUME NEW b \in BlockIds, FinalizeForPublish(p, b)
          PROVE  publishing' = [publishing EXCEPT ![p] = publishing'[p]]
      BY <1>0, <2>1 DEF FinalizeForPublish
    <2>2. ASSUME MarkUid(p) PROVE publishing' = [publishing EXCEPT ![p] = publishing'[p]]
      BY <1>0, <2>2 DEF MarkUid, AdvancePublish
    <2>3. ASSUME ReadPublishClock(p) PROVE publishing' = [publishing EXCEPT ![p] = publishing'[p]]
      BY <1>0, <2>3 DEF ReadPublishClock
    <2>4. ASSUME PublishFallsBack(p) \/ StampAndSend(p)
          PROVE  publishing' = [publishing EXCEPT ![p] = publishing'[p]]
      BY <1>0, <2>4 DEF PublishFallsBack, StampAndSend
    <2>. QED BY <2>1, <2>2, <2>3, <2>4 DEF PublishStep
  <1>7. publishing'[p] \in PublicationRecords
    <2>1. ASSUME NEW b \in BlockIds, FinalizeForPublish(p, b)
          PROVE  publishing'[p] \in PublicationRecords
      BY <1>2, <2>1
    <2>2. ASSUME MarkUid(p) \/ ReadPublishClock(p) PROVE publishing'[p] \in PublicationRecords
      BY <1>0, <1>3, <1>4, <2>2 DEF PublicationRecords
    <2>3. ASSUME PublishFallsBack(p) \/ StampAndSend(p) PROVE publishing'[p] \in PublicationRecords
      BY <1>5, <2>3 DEF PublicationRecords, NotPublishing
    <2>. QED BY <2>1, <2>2, <2>3 DEF PublishStep
  <1>8. \/ publishing'[p] = NotPublishing
        \/ /\ publishing'[p].step # "idle"
           /\ publishing'[p].block \in BlockIds /\ Owned(publishing'[p].block)
    <2>1. ASSUME MarkUid(p) \/ ReadPublishClock(p)
          PROVE  publishing'[p].step # "idle" /\ publishing'[p].block = BufferOf(p)
                 /\ publishing[p].step # "idle"
      <3>1. publishing[p].step # "idle"
        BY <2>1 DEF MarkUid, ReadPublishClock
      <3>. QED BY <1>0, <1>3, <1>4, <2>1, <3>1 DEF PublicationRecords, BufferOf
    <2>2. ASSUME NEW b \in BlockIds, FinalizeForPublish(p, b)
          PROVE  publishing'[p].step # "idle" /\ publishing'[p].block = b /\ Owned(b)
      BY <1>2, <2>2
    <2>. QED BY <1>1, <1>5, <2>1, <2>2 DEF PublishStep
  <1>. QED BY <1>0, <1>1, <1>6, <1>7, <1>8

\* The steps of a publisher keep the types.
LEMMA PublisherTypes ==
  ASSUME PoolInv, NEW p \in Publishers, PublishStep(p), UNCHANGED transportVars
  PROVE  TypeOK'
  <1>. DEFINE b0 == BufferOf(p)
  <1>0. /\ UNCHANGED <<reader_state, clock, poolVars, payload>>
        /\ publishing' \in [Publishers -> PublicationRecords]
        /\ publishing[p].step # "idle" => b0 \in BlockIds /\ Owned(b0)
    BY PublisherFrame, PublisherRecord
  <1>1. /\ publishing[p] \in PublicationRecords
        /\ ipc_uid \in [BlockIds -> 0 .. MaxUid] /\ current_uid \in [BlockIds -> 0 .. MaxUid]
        /\ publish_timestamp_us \in [BlockIds -> Nat]
        /\ write_state \in [BlockIds -> {"Unset", "InUse", "Finalized"}]
        /\ payload \in [BlockIds -> 0 .. MaxWrites] /\ sent \subseteq Descriptors
    BY DEF PoolInv, TypeOK, HeaderTypeOK, PoolTypeOK, BufferTypeOK
  <1>2. write_state' \in [BlockIds -> {"Unset", "InUse", "Finalized"}]
    BY <1>1 DEF PublishStep, FinalizeForPublish, FinalizedWrite, MarkUid,
                PublishFallsBack, ReadPublishClock, StampAndSend
  <1>3. ipc_uid' \in [BlockIds -> 0 .. MaxUid]
    BY <1>0, <1>1 DEF PublishStep, FinalizeForPublish, MarkUid, PublishFallsBack,
                      ReadPublishClock, StampAndSend, headerVars
  <1>4. publish_timestamp_us' \in [BlockIds -> Nat]
    <2>1. publishing[p].now \in Nat
      BY <1>1 DEF PublicationRecords
    <2>. QED BY <1>1, <2>1 DEF PublishStep, FinalizeForPublish, MarkUid,
                PublishFallsBack, ReadPublishClock, StampAndSend, headerVars
  <1>5. sent' \subseteq Descriptors
    <2>1. CASE StampAndSend(p)
      <3>1. current_uid[b0] \in 1 .. MaxUid /\ b0 \in BlockIds
        BY <1>0, <1>1, <2>1, BoundsAssumption
        DEF StampAndSend, Owned, PoolInv, PoolShape, CreatedBlocks
      <3>2. DescriptorOf(b0) \in Descriptors
        BY <1>1, <3>1 DEF DescriptorOf, Descriptors
      <3>. QED BY <1>1, <2>1, <3>2 DEF StampAndSend
    <2>2. CASE ~StampAndSend(p)
      BY <1>1, <2>2 DEF PublishStep, FinalizeForPublish, MarkUid, PublishFallsBack,
                        ReadPublishClock
    <2>. QED BY <2>1, <2>2
  <1>6. HeaderTypeOK' /\ BufferTypeOK'
    BY <1>0, <1>1, <1>2, <1>3, <1>4, <1>5
    DEF PoolInv, TypeOK, HeaderTypeOK, BufferTypeOK
  <1>. QED BY <1>0, <1>6 DEF PoolInv, TypeOK, PoolTypeOK, poolVars, transportVars

\* The reader word stays a word: the count is refused at the mask, and the
\* subtraction wraps.
LEMMA AcquireType ==
  ASSUME NEW b, reader_state \in [BlockIds -> ReaderWords], b \in BlockIds, AcquireReader(b)
  PROVE  reader_state' \in [BlockIds -> ReaderWords]
  <1>1. reader_state[b] + 1 \in ReaderWords
    BY ReuseClaimedAssumption
    DEF AcquireReader, CanAcquireReader, IsClaimed, ReaderCount, ReaderCountMask, ReaderWords
  <1>. QED BY <1>1 DEF AcquireReader

\* Releasing a lease keeps the types.
LEMMA ReleaseType ==
  ASSUME NEW b, reader_state \in [BlockIds -> ReaderWords], b \in BlockIds, ReleaseReader(b)
  PROVE  reader_state' \in [BlockIds -> ReaderWords]
  <1>1. (IF reader_state[b] = 0 THEN 2 * ReuseClaimed - 1 ELSE reader_state[b] - 1) \in ReaderWords
    BY ReuseClaimedAssumption DEF ReaderWords
  <1>. QED BY <1>1 DEF ReleaseReader

\* A descriptor in hand names a block.
LEMMA ImportNamesBlock ==
  ASSUME PoolInv, ImportsAreSent, NEW i \in Importers, imp[i].pc # "idle"
  PROVE  imp[i].desc \in Descriptors /\ imp[i].desc.block \in BlockIds
  BY DEF PoolInv, PoolShape, TypeOK, BufferTypeOK, ImportsAreSent, Descriptors

\* The steps of an importer keep the types.
LEMMA ImporterTypes ==
  ASSUME NEW i \in Importers, PoolInv, ImportsAreSent, ImporterStep(i)
  PROVE  TypeOK'
  <1>. USE DEF TypeOK, HeaderTypeOK, PoolTypeOK, BufferTypeOK, headerVars, poolVars,
               bufferVars, ImportRecords
  <1>0. TypeOK
    BY DEF PoolInv
  <1>1. ASSUME NEW d \in sent, ImportBlock(i, d) PROVE TypeOK'
    BY <1>0, <1>1 DEF ImportBlock, NoImport
  <1>2. ASSUME AcquireImport(i) PROVE TypeOK'
    <2>1. imp[i].desc.block \in BlockIds
      BY <1>2, ImportNamesBlock DEF AcquireImport
    <2>2. reader_state' \in [BlockIds -> ReaderWords]
      BY <1>0, <1>2, <2>1, AcquireType DEF AcquireImport
    <2>3. imp' \in [Importers -> ImportRecords]
      BY <1>0, <1>2 DEF AcquireImport, Advance
    <2>. QED BY <1>0, <1>2, <2>2, <2>3 DEF AcquireImport
  <1>3. ASSUME AcquireRefused(i) PROVE TypeOK'
    BY <1>0, <1>3 DEF AcquireRefused, NoImport
  <1>4. ASSUME RecheckUid(i) PROVE TypeOK'
    <2>1. Verdict(i) \in {"holding", "stale"}
      BY DEF Verdict
    <2>2. imp' \in [Importers -> ImportRecords]
      BY <1>0, <1>4, <2>1 DEF RecheckUid, Advance
    <2>. QED BY <1>0, <1>4, <2>2 DEF RecheckUid
  <1>5. ASSUME ReleaseStale(i) \/ DestroyImported(i) PROVE TypeOK'
    <2>1. DropImport(i) /\ imp[i].desc.block \in BlockIds
      BY <1>5, ImportNamesBlock DEF ReleaseStale, DestroyImported
    <2>2. reader_state' \in [BlockIds -> ReaderWords]
      BY <1>0, <2>1, ReleaseType DEF DropImport
    <2>. QED BY <1>0, <2>1, <2>2 DEF DropImport, NoImport
  <1>6. ASSUME ForwardCheck(i) PROVE TypeOK'
    BY <1>0, <1>6 DEF ForwardCheck
  <1>7. ASSUME ForwardStamp(i) PROVE TypeOK'
    BY <1>0, <1>7 DEF ForwardStamp
  <1>. QED BY <1>1, <1>2, <1>3, <1>4, <1>5, <1>6, <1>7 DEF ImporterStep, ImportReturns

\* The steps of a ReadHandle keep the types.
LEMMA HandleTypes ==
  ASSUME NEW h \in ReadHandles, PoolInv, ImportsAreSent, PinnedByHandle, HandleStep(h)
  PROVE  TypeOK'
  <1>. USE DEF TypeOK, HeaderTypeOK, PoolTypeOK, BufferTypeOK, headerVars, poolVars,
               bufferVars
  <1>0. TypeOK
    BY DEF PoolInv
  <1>1. ASSUME NEW b \in BlockIds, NEW local \in BOOLEAN, OpenHandle(h, b, local) PROVE TypeOK'
    <2>1. reader_state' \in [BlockIds -> ReaderWords]
      BY <1>0, <1>1, AcquireType DEF OpenHandle
    <2>2. handle' \in [ReadHandles -> HandleRecords]
      BY <1>0, <1>1 DEF OpenHandle, HandleRecords
    <2>. QED BY <1>0, <1>1, <2>1, <2>2 DEF OpenHandle
  <1>2. ASSUME CloseHandle(h) PROVE TypeOK'
    <2>1. handle[h].block \in BlockIds
      BY <1>0, <1>2 DEF CloseHandle, PinnedByHandle, HandleRecords
    <2>2. reader_state' \in [BlockIds -> ReaderWords]
      BY <1>0, <1>2, <2>1, ReleaseType DEF CloseHandle
    <2>3. handle' \in [ReadHandles -> HandleRecords]
      BY <1>0, <1>2, StoredValues DEF CloseHandle, NoHandle, HandleRecords
    <2>. QED BY <1>0, <1>2, <2>2, <2>3 DEF CloseHandle
  <1>3. ASSUME NEW i \in Importers, OpenImportedHandle(h, i) PROVE TypeOK'
    <2>1. imp[i].desc.block \in BlockIds
      BY <1>3, ImportNamesBlock DEF OpenImportedHandle
    <2>. QED BY <1>1, <1>3, <2>1 DEF OpenImportedHandle
  <1>4. ASSUME NEW b \in BlockIds, OpenOwnedHandle(h, b) PROVE TypeOK'
    BY <1>1, <1>4 DEF OpenOwnedHandle
  <1>. QED BY <1>2, <1>3, <1>4 DEF HandleStep

\* Every step keeps the types.
LEMMA NextTypes ==
  ASSUME PoolInv, ImportsAreSent, PinnedByHandle, [Next]_vars
  PROVE  TypeOK'
  <1>1. ASSUME Tick, UNCHANGED transportVars PROVE TypeOK'
    BY <1>1 DEF Tick, transportVars, headerVars, poolVars, bufferVars, PoolInv, TypeOK,
                HeaderTypeOK, PoolTypeOK, BufferTypeOK
  <1>2. ASSUME NEW s \in Sizes, BeginAllocate(s), UNCHANGED transportVars PROVE TypeOK'
    <2>1. TypeOK /\ s \in Nat
      BY SizesAssumption DEF PoolInv
    <2>2. alloc' \in AllocationRecords
      BY <1>2, <2>1 DEF BeginAllocate, NoAllocation, AllocationRecords
    <2>. QED BY <1>2, <2>1, <2>2 DEF BeginAllocate, transportVars, headerVars, bufferVars,
                TypeOK, HeaderTypeOK, PoolTypeOK, BufferTypeOK
  <1>3. ASSUME UNCHANGED vars PROVE TypeOK'
    BY <1>3 DEF vars, transportVars, headerVars, poolVars, bufferVars, PoolInv, TypeOK,
                HeaderTypeOK, PoolTypeOK, BufferTypeOK
  <1>4. ASSUME AllocateStep, UNCHANGED transportVars PROVE TypeOK'
    BY <1>4, AllocateTypes
  <1>5. ASSUME NEW b \in BlockIds, UNCHANGED transportVars,
               \/ WritePayload(b)
               \/ ReleaseWriteHandle(b)
               \/ FreeBlock(b)
        PROVE  TypeOK'
    BY <1>5, OwnerTypes
  <1>6. ASSUME NEW b \in BlockIds, GrantWriteHandle(b) PROVE TypeOK'
    BY <1>6, OwnerTypes DEF GrantWriteHandle
  <1>7. ASSUME NEW i \in Importers, ImporterStep(i) PROVE TypeOK'
    BY <1>7, ImporterTypes
  <1>8. ASSUME NEW h \in ReadHandles, HandleStep(h) PROVE TypeOK'
    BY <1>8, HandleTypes
  <1>9. ASSUME NEW p \in Publishers, PublishStep(p), UNCHANGED transportVars PROVE TypeOK'
    BY <1>9, PublisherTypes
  <1>. QED BY <1>1, <1>2, <1>3, <1>4, <1>5, <1>6, <1>7, <1>8, <1>9 DEF Next, PoolNext

-----------------------------------------------------------------------------
(* Part 1: the pool *)

\* Most steps do not touch the pool's bookkeeping.
LEMMA PoolFrame ==
  ASSUME PoolShape, UNCHANGED <<poolVars, publishing>>
  PROVE  PoolShape'
  BY DEF PoolShape, AllocationShape, FreeListsAreSets, FreeBlocksAreIdle, CreatedBlocks,
         PublishingOwned, Owned, BufferOf, Holding, poolVars

\* The scan of the free list keeps the shape of the pool.
LEMMA ScanShape ==
  ASSUME PoolInv,
         (\E s \in Sizes : BeginAllocate(s)) \/ ScanCandidate \/ ClaimRefused \/ CreateBlockFails
  PROVE  PoolShape'
  <1>. USE DEF PoolInv, PoolShape
  <1>0. /\ UNCHANGED <<all_blocks, payload_size, in_use, current_uid, free_blocks,
                       uids_drawn, publishing>>
        /\ alloc.block = NoBlock /\ alloc'.block = NoBlock
        /\ next_block_id' \in Nat /\ next_block_id' >= next_block_id
    <2>0. alloc \in AllocationRecords /\ next_block_id \in 0 .. MaxBlocks /\ MaxBlocks \in Nat
      BY MaxBlocksAssumption DEF TypeOK, PoolTypeOK
    <2>1. CASE \E s \in Sizes : BeginAllocate(s)
      <3>1. PICK s \in Sizes : BeginAllocate(s)
        BY <2>1
      <3>2. alloc.block = NoBlock
        <4>1. alloc.pc = "idle"
          BY <3>1 DEF BeginAllocate, MutexFree
        <4>2. alloc = NoAllocation
          BY <4>1 DEF AllocationShape
        <4>. QED BY <4>2 DEF NoAllocation
      <3>3. alloc'.block = NoBlock
        BY <3>1 DEF BeginAllocate, NoAllocation
      <3>4. UNCHANGED <<all_blocks, payload_size, in_use, current_uid, free_blocks,
                        next_block_id, uids_drawn, publishing>>
        BY <3>1 DEF BeginAllocate, bufferVars
      <3>. QED BY <2>0, <3>2, <3>3, <3>4
    <2>2. CASE ScanCandidate
      BY <2>0, <2>2 DEF ScanCandidate, NextCandidate, AllocationShape, bufferVars, AllocationRecords
    <2>3. CASE ClaimRefused
      BY <2>0, <2>3 DEF ClaimRefused, NextCandidate, AllocationShape, bufferVars, AllocationRecords
    <2>4. CASE CreateBlockFails
      BY <2>0, <2>4 DEF CreateBlockFails, AllocationShape, bufferVars, NoAllocation
    <2>. QED BY <2>1, <2>2, <2>3, <2>4
  <1>1. AllocationShape'
    <2>0. alloc \in AllocationRecords /\ free_blocks \in [Sizes -> Seq(BlockIds)]
      BY DEF TypeOK, PoolTypeOK
    <2>1. ASSUME NEW s \in Sizes, BeginAllocate(s) PROVE AllocationShape'
      <3>1. /\ alloc'.pc = "scan" /\ alloc'.size = s /\ alloc'.i = 1
            /\ alloc'.block = NoBlock /\ ~alloc'.fresh /\ uids_drawn < MaxUid
        BY <2>1 DEF BeginAllocate, NoAllocation
      <3>. QED BY <1>0, <3>1 DEF AllocationShape, Holding
    <2>2. ASSUME ScanCandidate PROVE AllocationShape'
      BY <1>0, <2>0, <2>2 DEF ScanCandidate, NextCandidate, AllocationShape, Holding, Candidates, AllocationRecords
    <2>3. ASSUME ClaimRefused PROVE AllocationShape'
      BY <1>0, <2>0, <2>3 DEF ClaimRefused, NextCandidate, AllocationShape, Holding, AllocationRecords
    <2>4. ASSUME CreateBlockFails PROVE AllocationShape'
      BY <1>0, <2>4 DEF CreateBlockFails, AllocationShape, NoAllocation, Holding
    <2>. QED BY <2>1, <2>2, <2>3, <2>4
  <1>2. FreeListsAreSets'
    BY <1>0 DEF FreeListsAreSets
  <1>3. FreeBlocksAreIdle'
    BY <1>0 DEF FreeBlocksAreIdle
  <1>4. CreatedBlocks'
    <2>1. next_block_id \in Int /\ \A b \in all_blocks : b \in Int
      BY MaxBlocksAssumption DEF TypeOK, PoolTypeOK, BlockIds
    <2>. QED BY <1>0, <2>1 DEF CreatedBlocks
  <1>5. PublishingOwned'
    BY <1>0 DEF PublishingOwned, Owned, BufferOf
  <1>. QED BY <1>1, <1>2, <1>3, <1>4, <1>5

\* A claimed candidate leaves its free list and belongs to allocate() alone.
LEMMA ClaimShape ==
  ASSUME PoolInv, ClaimCandidate
  PROVE  PoolShape'
  <1>. USE DEF PoolInv, PoolShape
  <1>. DEFINE s0 == alloc.size
              list == free_blocks[s0]
              rest == RemoveSwap(list, alloc.i)
              b0 == list[alloc.i]
  <1>0. /\ s0 \in Sizes /\ list \in Seq(BlockIds) /\ alloc.i \in 1 .. Len(list)
        /\ alloc.i \in DOMAIN list
        /\ b0 \in BlockIds /\ alloc.block = NoBlock /\ uids_drawn < MaxUid
        /\ \A j, k \in DOMAIN list : list[j] = list[k] => j = k
    BY DEF ClaimCandidate, AllocationShape, TypeOK, PoolTypeOK, AllocationRecords, FreeListsAreSets
  <1>1. /\ free_blocks' = [free_blocks EXCEPT ![s0] = rest]
        /\ alloc'.pc = "retire" /\ alloc'.block = b0 /\ ~alloc'.fresh
        /\ UNCHANGED <<all_blocks, payload_size, in_use, current_uid, next_block_id,
                       uids_drawn, publishing>>
    <2>1. alloc' = [alloc EXCEPT !.pc = "retire", !.block = b0]
      BY DEF ClaimCandidate, Candidates
    <2>2. ~alloc.fresh /\ alloc \in AllocationRecords
      BY DEF ClaimCandidate, AllocationShape, TypeOK, PoolTypeOK
    <2>3. alloc'.pc = "retire" /\ alloc'.block = b0 /\ ~alloc'.fresh
      BY <2>1, <2>2 DEF AllocationRecords
    <2>. QED BY <2>3 DEF ClaimCandidate, Candidates, bufferVars
  <1>2. /\ \A j, k \in DOMAIN rest : rest[j] = rest[k] => j = k
        /\ \A j \in DOMAIN rest : \E k \in DOMAIN list : rest[j] = list[k] /\ k # alloc.i
    BY <1>0, RemoveSwapSet
  <1>3. /\ free_blocks'[s0] = rest
        /\ \A s \in Sizes : s # s0 => free_blocks'[s] = free_blocks[s]
    BY <1>0, <1>1 DEF TypeOK, PoolTypeOK
  <1>4. b0 \in all_blocks /\ payload_size[b0] = s0 /\ ~in_use[b0]
    BY <1>0 DEF FreeBlocksAreIdle
  <1>. HIDE DEF s0, list, rest, b0
  <1>5. AllocationShape'
    BY <1>1, <1>0, <1>4 DEF AllocationShape, Holding
  <1>6. FreeListsAreSets'
    <2>1. \A s \in Sizes : \A j, k \in DOMAIN free_blocks'[s] :
            free_blocks'[s][j] = free_blocks'[s][k] => j = k
      BY <1>2, <1>3 DEF FreeListsAreSets
    <2>. QED BY <2>1 DEF FreeListsAreSets
  <1>7. FreeBlocksAreIdle'
    <2>1. ASSUME NEW s \in Sizes, NEW j \in DOMAIN free_blocks'[s]
          PROVE  /\ free_blocks'[s][j] \in all_blocks
                 /\ payload_size[free_blocks'[s][j]] = s
                 /\ ~in_use[free_blocks'[s][j]]
                 /\ free_blocks'[s][j] # b0
      <3>1. CASE s = s0
        <4>1. PICK k \in DOMAIN list : rest[j] = list[k] /\ k # alloc.i
          BY <1>2, <1>3, <2>1, <3>1
        <4>2. list[k] # b0
          BY <1>0, <4>1 DEF b0
        <4>. QED BY <1>0, <1>3, <3>1, <4>1, <4>2 DEF FreeBlocksAreIdle, list
      <3>2. CASE s # s0
        BY <1>3, <1>4, <2>1, <3>2 DEF FreeBlocksAreIdle
      <3>. QED BY <3>1, <3>2
    <2>. QED BY <1>1, <2>1 DEF FreeBlocksAreIdle
  <1>8. CreatedBlocks'
    BY <1>1 DEF CreatedBlocks
  <1>9. PublishingOwned'
    BY <1>0, <1>1, <1>4 DEF PublishingOwned, Owned, BufferOf
  <1>. QED BY <1>5, <1>6, <1>7, <1>8, <1>9

\* A created block is new to every list.
LEMMA CreateShape ==
  ASSUME PoolInv, CreateBlock
  PROVE  PoolShape'
  <1>. USE DEF PoolInv, PoolShape
  <1>. DEFINE b0 == next_block_id
  <1>1. /\ b0 \in BlockIds /\ b0 \in Nat /\ next_block_id' = b0 + 1
        /\ all_blocks' = all_blocks \cup {b0}
        /\ payload_size' = [payload_size EXCEPT ![b0] = alloc.size]
        /\ alloc.size \in Sizes /\ uids_drawn < MaxUid /\ alloc.block = NoBlock
        /\ UNCHANGED <<in_use, current_uid, free_blocks, uids_drawn, publishing>>
    <2>1. b0 \in 0 .. MaxBlocks /\ b0 < MaxBlocks
      BY DEF CreateBlock, TypeOK, PoolTypeOK
    <2>2. b0 \in BlockIds /\ b0 \in Nat
      BY <2>1, MaxBlocksAssumption DEF BlockIds
    <2>3. alloc.size \in Sizes /\ uids_drawn < MaxUid /\ alloc.block = NoBlock
      BY DEF CreateBlock, AllocationShape
    <2>. QED BY <2>2, <2>3 DEF CreateBlock, bufferVars
  <1>2. alloc'.pc = "retire" /\ alloc'.block = b0 /\ alloc'.fresh
    <2>1. alloc' = [alloc EXCEPT !.pc = "retire", !.block = b0, !.fresh = TRUE]
      BY DEF CreateBlock
    <2>. QED BY <2>1 DEF TypeOK, PoolTypeOK, AllocationRecords
  <1>3. b0 \notin all_blocks /\ ~in_use[b0]
    BY <1>1 DEF CreatedBlocks, TypeOK, PoolTypeOK
  <1>4. payload_size'[b0] \in Sizes /\ \A b \in all_blocks : payload_size'[b] = payload_size[b]
    BY <1>1, <1>3 DEF TypeOK, PoolTypeOK
  <1>5. \A b \in all_blocks : b \in Int
    BY DEF TypeOK, PoolTypeOK, BlockIds
  <1>. HIDE DEF b0
  <1>6. AllocationShape'
    BY <1>1, <1>2, <1>3 DEF AllocationShape, Holding
  <1>7. FreeListsAreSets'
    BY <1>1 DEF FreeListsAreSets
  <1>8. FreeBlocksAreIdle'
    BY <1>1, <1>2, <1>3, <1>4 DEF FreeBlocksAreIdle
  <1>9. CreatedBlocks'
    <2>1. \A b \in all_blocks' : b < next_block_id' /\ payload_size'[b] \in Sizes
      BY <1>1, <1>4, <1>5 DEF CreatedBlocks, b0
    <2>2. \A b \in BlockIds : in_use'[b] => b \in all_blocks' /\ current_uid'[b] >= 1
      BY <1>1 DEF CreatedBlocks
    <2>. QED BY <1>1, <2>1, <2>2 DEF CreatedBlocks
  <1>10. PublishingOwned'
    BY <1>1, <1>2, <1>3 DEF PublishingOwned, Owned, BufferOf
  <1>. QED BY <1>6, <1>7, <1>8, <1>9, <1>10

\* The rest of allocate() prepares the block that it holds.
LEMMA PrepareShape ==
  ASSUME PoolInv, RetireUid \/ ClearTimestamp \/ ReturnBlock
  PROVE  PoolShape'
  <1>. USE DEF PoolInv, PoolShape
  <1>. DEFINE b0 == alloc.block
  <1>0. /\ alloc \in AllocationRecords /\ b0 \in all_blocks /\ b0 \in BlockIds
        /\ UNCHANGED <<all_blocks, payload_size, free_blocks, next_block_id, publishing>>
    BY DEF RetireUid, NewUid, ClearTimestamp, ReturnBlock, AllocationShape, Holding, bufferVars,
           TypeOK, PoolTypeOK
  <1>1. CASE RetireUid
    <2>1. /\ alloc'.pc = "unstamp" /\ alloc'.block = b0
          /\ in_use' = [in_use EXCEPT ![b0] = TRUE]
          /\ current_uid' = [current_uid EXCEPT ![b0] = uids_drawn + 1]
          /\ uids_drawn' = uids_drawn + 1 /\ uids_drawn \in Nat
      BY <1>0, <1>1, BoundsAssumption DEF RetireUid, NewUid, AllocationRecords, TypeOK, PoolTypeOK
    <2>2. /\ in_use'[b0]
          /\ \A b \in BlockIds : b # b0 => in_use'[b] = in_use[b]
          /\ current_uid'[b0] = uids_drawn + 1
          /\ \A b \in BlockIds : b # b0 => current_uid'[b] = current_uid[b]
      BY <1>0, <2>1 DEF TypeOK, PoolTypeOK
    <2>3. \A b \in BlockIds : current_uid[b] \in Int
      BY BoundsAssumption DEF TypeOK, PoolTypeOK
    <2>. HIDE DEF b0
    <2>4. AllocationShape'
      BY <1>0, <2>1, <2>2 DEF AllocationShape, Holding
    <2>5. FreeListsAreSets'
      BY <1>0 DEF FreeListsAreSets
    <2>6. FreeBlocksAreIdle'
      <3>1. \A s \in Sizes : \A j \in DOMAIN free_blocks[s] :
              free_blocks[s][j] \in BlockIds /\ free_blocks[s][j] # b0
        BY DEF FreeBlocksAreIdle, TypeOK, PoolTypeOK, b0
      <3>. QED BY <1>0, <2>1, <2>2, <3>1 DEF FreeBlocksAreIdle
    <2>7. CreatedBlocks'
      <3>1. \A b \in all_blocks' : b < next_block_id' /\ payload_size'[b] \in Sizes
        BY <1>0 DEF CreatedBlocks
      <3>2. \A b \in BlockIds : in_use'[b] => b \in all_blocks' /\ current_uid'[b] >= 1
        BY <1>0, <2>1, <2>2 DEF CreatedBlocks
      <3>3. \A b \in BlockIds : current_uid'[b] <= uids_drawn'
        BY <2>1, <2>2, <2>3 DEF CreatedBlocks
      <3>. QED BY <3>1, <3>2, <3>3 DEF CreatedBlocks
    <2>8. PublishingOwned'
      BY <1>0, <2>1, <2>2 DEF PublishingOwned, Owned, b0, BufferOf
    <2>. QED BY <2>4, <2>5, <2>6, <2>7, <2>8
  <1>2. CASE ClearTimestamp \/ ReturnBlock
    <2>1. /\ UNCHANGED <<in_use, current_uid, uids_drawn>>
          /\ in_use[b0]
          /\ \/ alloc'.pc = "unclaim" /\ alloc'.block = b0
             \/ alloc' = NoAllocation
      BY <1>0, <1>2 DEF ClearTimestamp, ReturnBlock, AllocationShape, AllocationRecords
    <2>2. NoAllocation.pc = "idle" /\ NoAllocation.block = NoBlock /\ NoBlock \notin BlockIds
      BY DEF NoAllocation, NoBlock, BlockIds
    <2>3. AllocationShape'
      BY <1>0, <2>1, <2>2 DEF AllocationShape, Holding
    <2>4. FreeListsAreSets' /\ CreatedBlocks'
      BY <1>0, <2>1 DEF FreeListsAreSets, CreatedBlocks
    <2>5. FreeBlocksAreIdle'
      <3>1. \A s \in Sizes : \A j \in DOMAIN free_blocks[s] : free_blocks[s][j] \in BlockIds
        BY DEF TypeOK, PoolTypeOK
      <3>. QED BY <1>0, <2>1, <2>2, <3>1 DEF FreeBlocksAreIdle
    <2>6. PublishingOwned'
      BY <1>0, <2>1, <2>2 DEF PublishingOwned, Owned, BufferOf
    <2>. QED BY <2>3, <2>4, <2>5, <2>6
  <1>. QED BY <1>1, <1>2

\* free() appends a block that is in no list.
LEMMA FreeShape ==
  ASSUME PoolInv, NEW b0 \in BlockIds, FreeBlock(b0)
  PROVE  PoolShape'
  <1>. USE DEF PoolInv, PoolShape
  <1>. DEFINE s0 == payload_size[b0]
              list == free_blocks[s0]
              n == Len(list)
  <1>0. /\ b0 \in all_blocks /\ in_use[b0] /\ s0 \in Sizes
        /\ list \in Seq(BlockIds) /\ n \in Nat /\ DOMAIN list = 1 .. n
        /\ alloc = NoAllocation /\ \A p \in Publishers : BufferOf(p) # b0
        /\ UNCHANGED <<all_blocks, payload_size, current_uid, next_block_id, uids_drawn,
                       alloc, publishing>>
    <2>1. b0 \in all_blocks /\ in_use[b0] /\ s0 \in Sizes
      BY DEF FreeBlock, Unused, Owned, CreatedBlocks
    <2>2. alloc = NoAllocation /\ \A p \in Publishers : BufferOf(p) # b0
      BY DEF FreeBlock, Unused, MutexFree, AllocationShape, BufferOf
    <2>3. list \in Seq(BlockIds)
      BY <2>1 DEF TypeOK, PoolTypeOK
    <2>. QED BY <2>1, <2>2, <2>3 DEF FreeBlock, Unused, bufferVars
  <1>1. /\ DOMAIN Append(list, b0) = 1 .. (n + 1)
        /\ \A j \in 1 .. n : Append(list, b0)[j] = list[j]
        /\ Append(list, b0)[n + 1] = b0
    BY <1>0
  <1>2. /\ free_blocks'[s0] = Append(list, b0)
        /\ \A s \in Sizes : s # s0 => free_blocks'[s] = free_blocks[s]
        /\ ~in_use'[b0]
        /\ \A b \in BlockIds : b # b0 => in_use'[b] = in_use[b]
    BY <1>0 DEF FreeBlock, Unused, TypeOK, PoolTypeOK
  <1>3. \A s \in Sizes : \A j \in DOMAIN free_blocks[s] :
          free_blocks[s][j] # b0 /\ free_blocks[s][j] \in BlockIds
    BY <1>0 DEF FreeBlocksAreIdle, TypeOK, PoolTypeOK
  <1>4. alloc.pc = "idle" /\ alloc.block = NoBlock /\ NoBlock \notin BlockIds
    BY <1>0 DEF NoAllocation, NoBlock, BlockIds
  <1>5. \A j \in DOMAIN list : list[j] # b0
    BY <1>0, <1>3
  <1>6. \A j, k \in DOMAIN list : list[j] = list[k] => j = k
    BY <1>0 DEF FreeListsAreSets
  <1>7. \A j \in DOMAIN list :
          list[j] \in all_blocks /\ payload_size[list[j]] = s0 /\ ~in_use[list[j]]
          /\ list[j] \in BlockIds
    BY <1>0, <1>3 DEF FreeBlocksAreIdle
  <1>8. payload_size[b0] = s0
    OBVIOUS
  <1>. HIDE DEF s0, list, n
  <1>9. AllocationShape'
    BY <1>0, <1>4 DEF AllocationShape, Holding
  <1>10. FreeListsAreSets'
    <2>1. ASSUME NEW s \in Sizes, NEW j \in DOMAIN free_blocks'[s], NEW k \in DOMAIN free_blocks'[s],
                 free_blocks'[s][j] = free_blocks'[s][k]
          PROVE  j = k
      <3>1. CASE s = s0
        BY <1>0, <1>1, <1>2, <1>5, <1>6, <2>1, <3>1
      <3>2. CASE s # s0
        BY <1>2, <2>1, <3>2 DEF FreeListsAreSets
      <3>. QED BY <3>1, <3>2
    <2>. QED BY <2>1 DEF FreeListsAreSets
  <1>11. FreeBlocksAreIdle'
    <2>1. ASSUME NEW s \in Sizes, NEW j \in DOMAIN free_blocks'[s]
          PROVE  LET b == free_blocks'[s][j] IN
                   b \in all_blocks /\ payload_size[b] = s /\ ~in_use'[b] /\ b # NoBlock
      <3>1. CASE s = s0
        <4>1. CASE j \in 1 .. n
          BY <1>0, <1>1, <1>2, <1>4, <1>5, <1>7, <3>1, <4>1
        <4>2. CASE j = n + 1
          BY <1>0, <1>1, <1>2, <1>4, <1>8, <3>1, <4>2
        <4>. QED BY <1>0, <1>1, <1>2, <2>1, <3>1, <4>1, <4>2
      <3>2. CASE s # s0
        BY <1>2, <1>3, <1>4, <2>1, <3>2 DEF FreeBlocksAreIdle
      <3>. QED BY <3>1, <3>2
    <2>. QED BY <1>0, <1>4, <2>1 DEF FreeBlocksAreIdle
  <1>12. CreatedBlocks'
    BY <1>0, <1>2 DEF CreatedBlocks
  <1>13. PublishingOwned'
    BY <1>0, <1>2 DEF PublishingOwned, Owned, BufferOf
  <1>. QED BY <1>9, <1>10, <1>11, <1>12, <1>13

\* A publication in progress belongs to an owned block.
LEMMA PublishShape ==
  ASSUME PoolInv, NEW p0 \in Publishers, PublishStep(p0)
  PROVE  PoolShape'
  <1>. USE DEF PoolInv, PoolShape
  <1>1. UNCHANGED poolVars /\ \A p \in Publishers : p # p0 => publishing'[p] = publishing[p]
    BY PublisherFrame
  <1>2. \/ publishing'[p0] = NotPublishing
        \/ /\ publishing'[p0].step # "idle"
           /\ publishing'[p0].block \in BlockIds /\ Owned(publishing'[p0].block)
    BY PublisherRecord
  <1>3. PublishingOwned'
    BY <1>1, <1>2 DEF PublishingOwned, Owned, BufferOf, NotPublishing, poolVars
  <1>4. AllocationShape' /\ CreatedBlocks'
    BY <1>1 DEF AllocationShape, CreatedBlocks, Holding, poolVars
  <1>5. FreeListsAreSets' /\ FreeBlocksAreIdle'
    BY <1>1 DEF FreeListsAreSets, FreeBlocksAreIdle, poolVars
  <1>. QED BY <1>3, <1>4, <1>5

\* Every step keeps the shape of the pool.
LEMMA NextShape ==
  ASSUME PoolInv, [Next]_vars
  PROVE  PoolShape'
  <1>1. ASSUME AllocateStep PROVE PoolShape'
    BY <1>1, ScanShape, ClaimShape, CreateShape, PrepareShape DEF AllocateStep
  <1>2. ASSUME NEW s \in Sizes, BeginAllocate(s) PROVE PoolShape'
    BY <1>2, ScanShape
  <1>3. ASSUME NEW b \in BlockIds,
               \/ WritePayload(b)
               \/ ReleaseWriteHandle(b)
               \/ GrantWriteHandle(b)
        PROVE  PoolShape'
    BY <1>3, PoolFrame DEF PoolInv, WritePayload, ReleaseWriteHandle, GrantWriteHandle,
                           GetWriteHandle
  <1>4. ASSUME NEW b \in BlockIds, FreeBlock(b) PROVE PoolShape'
    BY <1>4, FreeShape
  <1>5. ASSUME NEW i \in Importers, ImporterStep(i) PROVE PoolShape'
    BY <1>5, PoolFrame
    DEF PoolInv, ImporterStep, ImportBlock, ImportReturns, AcquireImport, AcquireRefused,
        RecheckUid, Verdict, ReleaseStale, DestroyImported, DropImport, ForwardCheck, ForwardStamp,
        bufferVars
  <1>6. ASSUME NEW h \in ReadHandles, HandleStep(h) PROVE PoolShape'
    BY <1>6, PoolFrame
    DEF PoolInv, HandleStep, OpenImportedHandle, OpenOwnedHandle, OpenHandle, CloseHandle,
        bufferVars
  <1>7. ASSUME Tick \/ UNCHANGED vars PROVE PoolShape'
    BY <1>7, PoolFrame DEF PoolInv, Tick, vars, bufferVars
  <1>8. ASSUME NEW p \in Publishers, PublishStep(p) PROVE PoolShape'
    BY <1>8, PublishShape
  <1>. QED BY <1>1, <1>2, <1>3, <1>4, <1>5, <1>6, <1>7, <1>8 DEF Next, PoolNext

-----------------------------------------------------------------------------
(* Part 2: generations *)

\* Steps that publish nothing and retire nothing keep what is published.
LEMMA GenerationFrame ==
  ASSUME HeaderUid, SentDescriptors,
         UNCHANGED <<ipc_uid, current_uid, all_blocks, sent, uids_drawn, publishing>>,
         UNCHANGED alloc \/ (alloc'.pc \notin {"unstamp", "unclaim"} /\ ~alloc'.fresh)
  PROVE  HeaderUid' /\ SentDescriptors'
  BY DEF HeaderUid, SentDescriptors, BufferOf

\* allocate() ends the generation of a block before it draws the next UID.
LEMMA AllocateGeneration ==
  ASSUME PoolInv, HeaderUid, SentDescriptors, AllocateStep
  PROVE  HeaderUid' /\ SentDescriptors'
  <1>0. /\ TypeOK /\ AllocationShape /\ CreatedBlocks /\ PublishingOwned
        /\ alloc \in AllocationRecords /\ uids_drawn \in Nat
        /\ current_uid \in [BlockIds -> 0 .. MaxUid] /\ ipc_uid \in [BlockIds -> 0 .. MaxUid]
        /\ sent \subseteq Descriptors
        /\ publishing \in [Publishers -> PublicationRecords]
    BY BoundsAssumption
    DEF PoolInv, PoolShape, TypeOK, HeaderTypeOK, PoolTypeOK, BufferTypeOK
  <1>1. CASE ScanCandidate \/ ClaimCandidate \/ ClaimRefused \/ CreateBlockFails
    <2>1. UNCHANGED <<ipc_uid, current_uid, all_blocks, sent, uids_drawn, publishing>>
      BY <1>1 DEF ScanCandidate, ClaimCandidate, ClaimRefused, NextCandidate, CreateBlockFails, headerVars,
                  bufferVars
    <2>2. alloc'.pc \notin {"unstamp", "unclaim"} /\ ~alloc'.fresh
      <3>1. alloc.pc \in {"scan", "claim"} /\ ~alloc.fresh
        BY <1>0, <1>1 DEF ScanCandidate, ClaimCandidate, ClaimRefused, NextCandidate, CreateBlockFails,
                          AllocationShape
      <3>2. CASE ScanCandidate
        BY <1>0, <3>1, <3>2 DEF ScanCandidate, NextCandidate, AllocationRecords
      <3>3. CASE ClaimCandidate
        BY <1>0, <3>1, <3>3 DEF ClaimCandidate, AllocationRecords
      <3>4. CASE ClaimRefused
        BY <1>0, <3>1, <3>4 DEF ClaimRefused, NextCandidate, AllocationRecords
      <3>5. CASE CreateBlockFails
        BY <3>5 DEF CreateBlockFails, NoAllocation
      <3>. QED BY <1>1, <3>2, <3>3, <3>4, <3>5
    <2>. QED BY <2>1, <2>2, GenerationFrame
  <1>2. CASE CreateBlock
    <2>. DEFINE b0 == next_block_id
    <2>1. /\ alloc'.pc = "retire" /\ alloc'.block = b0
          /\ ipc_uid' = [ipc_uid EXCEPT ![b0] = 0]
          /\ all_blocks' = all_blocks \cup {b0}
          /\ UNCHANGED <<current_uid, sent, uids_drawn, publishing>>
      BY <1>0, <1>2 DEF CreateBlock, AllocationRecords, bufferVars
    <2>2. b0 \notin all_blocks
      BY <1>0, <1>2, MaxBlocksAssumption DEF CreateBlock, CreatedBlocks, TypeOK, PoolTypeOK
    <2>3. \A b \in BlockIds : ipc_uid'[b] = IF b = b0 THEN 0 ELSE ipc_uid[b]
      BY <1>0, <2>1
    <2>4. \A p \in Publishers : publishing[p].step \in {"marked", "timed"} =>
            BufferOf(p) \in BlockIds /\ BufferOf(p) # b0
      BY <1>0, <2>2 DEF PublishingOwned, Owned, CreatedBlocks
    <2>. HIDE DEF b0
    <2>5. HeaderUid'
      BY <2>1, <2>3, <2>4 DEF HeaderUid, BufferOf
    <2>6. SentDescriptors'
      BY <2>1, <2>2 DEF SentDescriptors
    <2>. QED BY <2>5, <2>6
  <1>3. CASE RetireUid
    <2>. DEFINE b0 == alloc.block
    <2>1. /\ alloc'.pc = "unstamp" /\ alloc'.block = b0 /\ alloc'.fresh = alloc.fresh
          /\ b0 \in BlockIds /\ b0 \in all_blocks
          /\ ipc_uid' = [ipc_uid EXCEPT ![b0] = 0]
          /\ current_uid' = [current_uid EXCEPT ![b0] = uids_drawn + 1]
          /\ uids_drawn' = uids_drawn + 1
          /\ UNCHANGED <<all_blocks, sent, publishing>>
      BY <1>0, <1>3 DEF RetireUid, NewUid, AllocationRecords, AllocationShape, Holding, TypeOK,
                        PoolTypeOK, bufferVars
    <2>2. \A b \in BlockIds : /\ ipc_uid'[b] = IF b = b0 THEN 0 ELSE ipc_uid[b]
                              /\ current_uid'[b] = IF b = b0 THEN uids_drawn + 1 ELSE current_uid[b]
      BY <1>0, <2>1
    <2>3. \A p \in Publishers : publishing[p].step \in {"marked", "timed"} =>
            BufferOf(p) \in BlockIds /\ BufferOf(p) # b0
      BY <1>0, <2>1 DEF PublishingOwned, Owned
    <2>4. \A d \in sent : d.uid \in Int /\ d.uid <= uids_drawn /\ d.block \in BlockIds
      BY <1>0 DEF SentDescriptors, Descriptors
    <2>5. alloc.fresh => \A d \in sent : d.block # b0
      BY DEF SentDescriptors
    <2>. HIDE DEF b0
    <2>6. HeaderUid'
      BY <2>1, <2>2, <2>3 DEF HeaderUid, BufferOf
    <2>7. SentDescriptors'
      BY <1>0, <2>1, <2>2, <2>4, <2>5 DEF SentDescriptors
    <2>. QED BY <2>6, <2>7
  <1>4. CASE ClearTimestamp
    <2>1. /\ alloc.pc = "unstamp" /\ alloc'.pc = "unclaim"
          /\ alloc'.block = alloc.block /\ alloc'.fresh = alloc.fresh
          /\ UNCHANGED <<ipc_uid, current_uid, all_blocks, sent, uids_drawn, publishing>>
      BY <1>0, <1>4 DEF ClearTimestamp, AllocationRecords, bufferVars
    <2>. QED BY <2>1 DEF HeaderUid, SentDescriptors, BufferOf
  <1>5. CASE ReturnBlock
    BY <1>5, GenerationFrame DEF ReturnBlock, NoAllocation
  <1>. QED BY <1>1, <1>2, <1>3, <1>4, <1>5 DEF AllocateStep

\* A publisher marks and sends the current UID of a block that it owns.  Another
\* publisher of the block marked it with the same UID.
LEMMA PublishGeneration ==
  ASSUME PoolInv, HeaderUid, SentDescriptors, NEW p0 \in Publishers, PublishStep(p0)
  PROVE  HeaderUid' /\ SentDescriptors'
  <1>0. /\ CreatedBlocks /\ PublishingOwned
        /\ uids_drawn \in Nat
        /\ current_uid \in [BlockIds -> 0 .. MaxUid] /\ ipc_uid \in [BlockIds -> 0 .. MaxUid]
        /\ publishing \in [Publishers -> PublicationRecords]
        /\ publishing[p0] \in PublicationRecords
    BY BoundsAssumption
    DEF PoolInv, PoolShape, TypeOK, HeaderTypeOK, PoolTypeOK, BufferTypeOK
  <1>1. /\ UNCHANGED <<current_uid, all_blocks, uids_drawn, alloc>>
        /\ \A p \in Publishers : p # p0 => publishing'[p] = publishing[p]
    BY PublisherFrame DEF poolVars
  <1>2. \A p \in Publishers : publishing[p].step # "idle" => BufferOf(p) \in BlockIds
    BY <1>0 DEF PublishingOwned
  <1>4. CASE MarkUid(p0)
    <2>. DEFINE b0 == BufferOf(p0)
    <2>1. /\ b0 \in BlockIds /\ Owned(b0)
          /\ publishing'[p0] = [publishing[p0] EXCEPT !.step = "marked"]
          /\ ipc_uid' = [ipc_uid EXCEPT ![b0] = current_uid[b0]]
          /\ UNCHANGED sent
      BY <1>0, <1>4 DEF MarkUid, AdvancePublish, PublishingOwned
    <2>2. publishing'[p0].block = b0
      BY <1>0, <2>1 DEF BufferOf, PublicationRecords
    <2>. HIDE DEF b0
    <2>3. /\ b0 \in all_blocks /\ b0 # alloc.block
          /\ \A b \in BlockIds : ipc_uid'[b] = IF b = b0 THEN current_uid[b0] ELSE ipc_uid[b]
      BY <1>0, <2>1 DEF Owned, CreatedBlocks
    <2>4. HeaderUid'
      <3>1. alloc.pc \in {"unstamp", "unclaim"} => alloc.block \in BlockIds
        BY DEF PoolInv, PoolShape, AllocationShape, Holding, TypeOK, PoolTypeOK
      <3>2. \A p \in Publishers : publishing'[p].step \in {"marked", "timed"} =>
              ipc_uid'[publishing'[p].block] = current_uid[publishing'[p].block]
        <4>1. ASSUME NEW p \in Publishers, publishing'[p].step \in {"marked", "timed"}, p # p0
              PROVE  ipc_uid'[publishing'[p].block] = current_uid[publishing'[p].block]
          <5>1. publishing[p].step \in {"marked", "timed"} /\ publishing'[p].block = BufferOf(p)
            BY <1>1, <4>1 DEF BufferOf
          <5>2. BufferOf(p) \in BlockIds /\ ipc_uid[BufferOf(p)] = current_uid[BufferOf(p)]
            BY <1>2, <5>1 DEF HeaderUid
          <5>. QED BY <2>3, <5>1, <5>2
        <4>2. ipc_uid'[publishing'[p0].block] = current_uid[publishing'[p0].block]
          BY <2>1, <2>2, <2>3
        <4>. QED BY <4>1, <4>2
      <3>. QED BY <1>1, <2>3, <3>1, <3>2 DEF HeaderUid, BufferOf
    <2>5. SentDescriptors'
      BY <1>1, <2>1, <2>3 DEF SentDescriptors, PoolInv, TypeOK, BufferTypeOK, Descriptors
    <2>. QED BY <2>4, <2>5
  <1>5. CASE ~MarkUid(p0)
    <2>1. UNCHANGED ipc_uid
      BY <1>5 DEF PublishStep, FinalizeForPublish, PublishFallsBack, ReadPublishClock,
                  StampAndSend, headerVars
    <2>2. publishing'[p0].step \in {"marked", "timed"} =>
            publishing[p0].step \in {"marked", "timed"} /\ publishing'[p0].block = BufferOf(p0)
      <3>1. ASSUME NEW b \in BlockIds, FinalizeForPublish(p0, b)
            PROVE  publishing'[p0].step = "finalized"
        BY <1>0, <3>1 DEF FinalizeForPublish
      <3>2. ASSUME PublishFallsBack(p0) \/ StampAndSend(p0) PROVE publishing'[p0].step = "idle"
        BY <1>0, <3>2 DEF PublishFallsBack, StampAndSend, NotPublishing
      <3>3. ASSUME ReadPublishClock(p0)
            PROVE  publishing[p0].step = "marked" /\ publishing'[p0].block = BufferOf(p0)
        BY <1>0, <3>3 DEF ReadPublishClock, PublicationRecords, BufferOf
      <3>. QED BY <1>5, <3>1, <3>2, <3>3 DEF PublishStep
    <2>3. HeaderUid'
      BY <1>1, <2>1, <2>2 DEF HeaderUid, BufferOf
    <2>4. \/ sent' = sent
          \/ /\ sent' = sent \cup {DescriptorOf(BufferOf(p0))}
             /\ publishing[p0].step = "timed"
      BY <1>5 DEF PublishStep, FinalizeForPublish, PublishFallsBack, ReadPublishClock,
                  StampAndSend
    <2>5. SentDescriptors'
      <3>1. CASE publishing[p0].step = "timed"
        <4>. DEFINE b0 == BufferOf(p0)
        <4>1. b0 \in BlockIds /\ b0 \in all_blocks /\ b0 # alloc.block
              /\ current_uid[b0] <= uids_drawn /\ ipc_uid[b0] = current_uid[b0]
          BY <1>0, <3>1 DEF PublishingOwned, Owned, CreatedBlocks, HeaderUid
        <4>2. \A d \in sent' : d \in sent \/ (d.block = b0 /\ d.uid = current_uid[b0])
          BY <2>4 DEF DescriptorOf
        <4>. HIDE DEF b0
        <4>. QED BY <1>1, <2>1, <4>1, <4>2 DEF SentDescriptors
      <3>2. CASE publishing[p0].step # "timed"
        BY <1>1, <2>1, <2>4, <3>2 DEF SentDescriptors
      <3>. QED BY <3>1, <3>2
    <2>. QED BY <2>3, <2>5
  <1>. QED BY <1>4, <1>5

\* An importer works on descriptors that were sent.
LEMMA NextImports ==
  ASSUME ImportsAreSent, imp \in [Importers -> ImportRecords], [Next]_vars
  PROVE  ImportsAreSent'
  <1>1. sent \subseteq sent'
    <2>1. ASSUME NEW p \in Publishers, PublishStep(p) PROVE sent \subseteq sent'
      BY <2>1 DEF PublishStep, FinalizeForPublish, MarkUid, PublishFallsBack,
                  ReadPublishClock, StampAndSend
    <2>2. ASSUME AllocateStep \/ Tick \/ \E s \in Sizes : BeginAllocate(s)
          PROVE  sent \subseteq sent'
      BY <2>2 DEF AllocateStep, ScanCandidate, ClaimCandidate, ClaimRefused, NextCandidate, CreateBlock,
                  CreateBlockFails, RetireUid, NewUid, ClearTimestamp, ReturnBlock, Tick,
                  BeginAllocate, bufferVars
    <2>3. ASSUME NEW b \in BlockIds,
                 \/ WritePayload(b)
                 \/ ReleaseWriteHandle(b)
                 \/ FreeBlock(b)
                 \/ GrantWriteHandle(b)
          PROVE  sent \subseteq sent'
      BY <2>3 DEF WritePayload, ReleaseWriteHandle, FreeBlock, Unused, GrantWriteHandle,
                  GetWriteHandle, bufferVars
    <2>4. ASSUME NEW i \in Importers, ImporterStep(i) PROVE sent \subseteq sent'
      BY <2>4 DEF ImporterStep, ImportBlock, ImportReturns, AcquireImport, AcquireRefused,
                  RecheckUid, Verdict, ReleaseStale, DestroyImported, DropImport, ForwardCheck,
                  ForwardStamp, bufferVars
    <2>5. ASSUME NEW h \in ReadHandles, HandleStep(h) PROVE sent \subseteq sent'
      BY <2>5 DEF HandleStep, OpenImportedHandle, OpenOwnedHandle, OpenHandle, CloseHandle,
                  bufferVars
    <2>. QED BY <2>1, <2>2, <2>3, <2>4, <2>5 DEF Next, PoolNext, vars, bufferVars
  <1>2. ASSUME UNCHANGED imp PROVE ImportsAreSent'
    BY <1>1, <1>2 DEF ImportsAreSent
  <1>3. ASSUME NEW i \in Importers, ImporterStep(i) PROVE ImportsAreSent'
    <2>1. \A j \in Importers : j # i => imp'[j] = imp[j]
      BY <1>3 DEF ImporterStep, ImportBlock, ImportReturns, AcquireImport, AcquireRefused,
                  RecheckUid, Verdict, ReleaseStale, DestroyImported, DropImport, ForwardCheck,
                  ForwardStamp, Advance
    <2>2. imp'[i].pc # "idle" => imp'[i].desc \in sent
      <3>1. CASE \E d \in sent : ImportBlock(i, d)
        BY <3>1 DEF ImportBlock, NoImport
      <3>2. CASE ReleaseStale(i) \/ DestroyImported(i) \/ AcquireRefused(i)
        BY <3>2 DEF ReleaseStale, DestroyImported, DropImport, AcquireRefused, NoImport
      <3>3. CASE AcquireImport(i) \/ RecheckUid(i) \/ ForwardCheck(i) \/ ForwardStamp(i)
        <4>1. imp[i].pc # "idle" /\ imp'[i].desc = imp[i].desc
          BY <3>3 DEF AcquireImport, RecheckUid, Verdict, ForwardCheck, ForwardStamp, Advance,
                      ImportRecords
        <4>. QED BY <4>1 DEF ImportsAreSent
      <3>. QED BY <1>3, <3>1, <3>2, <3>3 DEF ImporterStep, ImportReturns
    <2>. QED BY <1>1, <2>1, <2>2 DEF ImportsAreSent
  <1>4. ASSUME NEW h \in ReadHandles, HandleStep(h) PROVE UNCHANGED imp
    BY <1>4 DEF HandleStep, OpenImportedHandle, OpenOwnedHandle, OpenHandle, CloseHandle
  <1>5. ASSUME NEW b \in BlockIds, GrantWriteHandle(b) PROVE UNCHANGED imp
    BY <1>5 DEF GrantWriteHandle, transportVars
  <1>. QED BY <1>2, <1>3, <1>4, <1>5 DEF Next, vars, transportVars

\* Every step keeps the generations in order.
LEMMA NextGeneration ==
  ASSUME PoolInv, GenerationInv, [Next]_vars
  PROVE  GenerationInv'
  <1>. USE DEF GenerationInv
  <1>0. ImportsAreSent'
    BY NextImports DEF PoolInv, TypeOK
  <1>1. ASSUME AllocateStep PROVE HeaderUid' /\ SentDescriptors'
    BY <1>1, AllocateGeneration
  <1>2. ASSUME NEW s \in Sizes, BeginAllocate(s) PROVE HeaderUid' /\ SentDescriptors'
    <2>1. alloc'.pc = "scan" /\ ~alloc'.fresh
      BY <1>2 DEF BeginAllocate, NoAllocation
    <2>. QED BY <1>2, <2>1, GenerationFrame DEF BeginAllocate, headerVars, bufferVars
  <1>3. ASSUME NEW b \in BlockIds,
               \/ WritePayload(b)
               \/ ReleaseWriteHandle(b)
               \/ GrantWriteHandle(b)
               \/ FreeBlock(b)
        PROVE  HeaderUid' /\ SentDescriptors'
    BY <1>3, GenerationFrame DEF WritePayload, ReleaseWriteHandle, GrantWriteHandle,
                           GetWriteHandle, FreeBlock, Unused, headerVars, poolVars, bufferVars
  <1>4. ASSUME NEW p \in Publishers, PublishStep(p)
        PROVE  HeaderUid' /\ SentDescriptors'
    BY <1>4, PublishGeneration
  <1>5. ASSUME NEW i \in Importers, ImporterStep(i) PROVE HeaderUid' /\ SentDescriptors'
    BY <1>5, GenerationFrame
    DEF ImporterStep, ImportBlock, ImportReturns, AcquireImport, AcquireRefused,
        RecheckUid, Verdict, ReleaseStale, DestroyImported, DropImport, ForwardCheck, ForwardStamp,
        headerVars, poolVars, bufferVars
  <1>6. ASSUME NEW h \in ReadHandles, HandleStep(h) PROVE HeaderUid' /\ SentDescriptors'
    BY <1>6, GenerationFrame
    DEF HandleStep, OpenImportedHandle, OpenOwnedHandle, OpenHandle, CloseHandle,
        headerVars, poolVars, bufferVars
  <1>7. ASSUME Tick \/ UNCHANGED vars PROVE HeaderUid' /\ SentDescriptors'
    BY <1>7, GenerationFrame DEF Tick, vars, headerVars, poolVars, bufferVars
  <1>. QED BY <1>0, <1>1, <1>2, <1>3, <1>4, <1>5, <1>6, <1>7 DEF Next, PoolNext

-----------------------------------------------------------------------------
(* Part 3: leases *)

LEMMA LeasesFinite == \A b : IsFiniteSet(Leases(b))
  <1>. TAKE b
  <1>1. IsFiniteSet({i \in Importers : CountedImport(i) /\ imp[i].desc.block = b})
    BY ImportersAssumption, FS_Subset
  <1>2. IsFiniteSet({h \in ReadHandles : handle[h].block = b})
    BY HandlesAssumption, FS_Subset
  <1>. QED BY <1>1, <1>2, FS_Union DEF Leases

\* A block whose word is zero and that is not claimed has no lease.
LEMMA UnreadHasNoLease ==
  ASSUME ReaderAccounting, NEW b \in BlockIds, ~Claiming(b), reader_state[b] = 0
  PROVE  Leases(b) = {}
  BY LeasesFinite, FS_EmptySet DEF ReaderAccounting

\* The block that allocate() prepares is unread, whether claimed or created.
LEMMA PreparedIsUnread ==
  ASSUME PoolInv, LeaseInv, Holding
  PROVE  Leases(alloc.block) = {}
  <1>1. alloc.block \in BlockIds /\ alloc.fresh \in BOOLEAN
    BY DEF PoolInv, PoolShape, AllocationShape, TypeOK, PoolTypeOK, AllocationRecords
  <1>2. CASE alloc.fresh
    BY <1>1, <1>2, UnreadHasNoLease DEF LeaseInv, UnreadBlocks, Claiming
  <1>3. CASE ~alloc.fresh
    BY <1>1, <1>3 DEF LeaseInv, ReaderAccounting, Claiming, Holding
  <1>. QED BY <1>1, <1>2, <1>3

\* One more reader, in the word and in the leases.
LEMMA AcquireAccounting ==
  ASSUME reader_state \in [BlockIds -> ReaderWords], ReaderAccounting, UnreadBlocks,
         NEW b0 \in BlockIds, b0 \in all_blocks, ~(alloc.fresh /\ alloc.block = b0),
         AcquireReader(b0), UNCHANGED <<alloc, all_blocks>>,
         NEW x, x \notin Leases(b0), Leases(b0)' = Leases(b0) \cup {x},
         \A b \in BlockIds : b # b0 => Leases(b)' = Leases(b)
  PROVE  ReaderAccounting' /\ UnreadBlocks'
  <1>1. /\ reader_state'[b0] = reader_state[b0] + 1
        /\ \A b \in BlockIds : b # b0 => reader_state'[b] = reader_state[b]
    BY DEF AcquireReader
  <1>2. reader_state[b0] \in Nat /\ reader_state[b0] + 1 < ReuseClaimed
    BY ReuseClaimedAssumption
    DEF ReaderWords, AcquireReader, CanAcquireReader, IsClaimed, ReaderCount, ReaderCountMask
  <1>3. ~Claiming(b0) /\ reader_state[b0] = Cardinality(Leases(b0))
    BY <1>2, ReuseClaimedAssumption DEF ReaderAccounting
  <1>4. Cardinality(Leases(b0)') = Cardinality(Leases(b0)) + 1
    BY LeasesFinite, FS_AddElement
  <1>5. \A b : Claiming(b)' <=> Claiming(b)
    BY DEF Claiming
  <1>6. ~IsClaimed(reader_state'[b0])
    BY <1>1, <1>2, ReuseClaimedAssumption DEF IsClaimed
  <1>7. ASSUME NEW b \in BlockIds
        PROVE  IF Claiming(b)' THEN reader_state'[b] = ReuseClaimed /\ Leases(b)' = {}
               ELSE reader_state'[b] = Cardinality(Leases(b)') /\ ~IsClaimed(reader_state'[b])
    <2>1. CASE b = b0
      BY <1>1, <1>3, <1>4, <1>5, <1>6, <2>1
    <2>2. CASE b # b0
      BY <1>1, <1>5, <2>2 DEF ReaderAccounting
    <2>. QED BY <2>1, <2>2
  <1>8. ReaderAccounting'
    BY <1>7 DEF ReaderAccounting
  <1>9. UnreadBlocks'
    BY <1>1 DEF UnreadBlocks
  <1>. QED BY <1>8, <1>9

\* One reader less, in the word and in the leases.
LEMMA ReleaseAccounting ==
  ASSUME reader_state \in [BlockIds -> ReaderWords], ReaderAccounting, UnreadBlocks,
         NEW b0 \in BlockIds, ReleaseReader(b0), UNCHANGED <<alloc, all_blocks>>,
         NEW x \in Leases(b0), Leases(b0)' = Leases(b0) \ {x},
         \A b \in BlockIds : b # b0 => Leases(b)' = Leases(b)
  PROVE  ReaderAccounting' /\ UnreadBlocks'
  <1>1. ~Claiming(b0) /\ reader_state[b0] = Cardinality(Leases(b0))
        /\ ~IsClaimed(reader_state[b0])
    BY DEF ReaderAccounting
  <1>2. reader_state[b0] \in Nat /\ reader_state[b0] # 0
    <2>1. Cardinality(Leases(b0)) # 0
      BY LeasesFinite, FS_EmptySet
    <2>. QED BY <1>1, <2>1, ReuseClaimedAssumption DEF ReaderWords
  <1>3. /\ reader_state'[b0] = reader_state[b0] - 1
        /\ \A b \in BlockIds : b # b0 => reader_state'[b] = reader_state[b]
    BY <1>2 DEF ReleaseReader
  <1>4. Cardinality(Leases(b0)') = Cardinality(Leases(b0)) - 1
    BY LeasesFinite, FS_RemoveElement
  <1>5. \A b : Claiming(b)' <=> Claiming(b)
    BY DEF Claiming
  <1>6. ~IsClaimed(reader_state'[b0])
    BY <1>1, <1>2, <1>3, ReuseClaimedAssumption DEF IsClaimed
  <1>7. ASSUME NEW b \in BlockIds
        PROVE  IF Claiming(b)' THEN reader_state'[b] = ReuseClaimed /\ Leases(b)' = {}
               ELSE reader_state'[b] = Cardinality(Leases(b)') /\ ~IsClaimed(reader_state'[b])
    <2>1. CASE b = b0
      BY <1>1, <1>3, <1>4, <1>5, <1>6, <2>1
    <2>2. CASE b # b0
      BY <1>3, <1>5, <2>2 DEF ReaderAccounting
    <2>. QED BY <2>1, <2>2
  <1>8. ReaderAccounting'
    BY <1>7 DEF ReaderAccounting
  <1>9. UnreadBlocks'
    BY <1>2, <1>3 DEF UnreadBlocks
  <1>. QED BY <1>8, <1>9

\* Steps that touch neither the words nor the leases nor the claim.
LEMMA AccountingFrame ==
  ASSUME ReaderAccounting, UnreadBlocks, UNCHANGED <<reader_state, all_blocks>>,
         \A b \in BlockIds : Leases(b)' = Leases(b),
         \A b \in BlockIds : Claiming(b)' <=> Claiming(b),
         alloc'.fresh => alloc.fresh /\ alloc'.block = alloc.block
  PROVE  ReaderAccounting' /\ UnreadBlocks'
  BY DEF ReaderAccounting, UnreadBlocks

\* Steps that change neither the generations nor the leases' records.
LEMMA PinnedFrame ==
  ASSUME PinnedByImport, PinnedByHandle, all_blocks \subseteq all_blocks',
         UNCHANGED <<ipc_uid, imp, handle>>
  PROVE  PinnedByImport' /\ PinnedByHandle'
  BY DEF PinnedByImport, PinnedByHandle, Imported, UidMatches

\* The UID in a header changes only where nobody holds the block, or from the
\* UID of the current use to itself.
LEMMA PinnedKept ==
  ASSUME PinnedByImport, PinnedByHandle, all_blocks \subseteq all_blocks',
         UNCHANGED <<imp, handle>>,
         \A b : b \notin BlockIds \/ Leases(b) = {} \/ ipc_uid[b] = 0 \/ ipc_uid'[b] = ipc_uid[b],
         imp \in [Importers -> ImportRecords], handle \in [ReadHandles -> HandleRecords],
         ImportsAreSent, sent \subseteq Descriptors
  PROVE  PinnedByImport' /\ PinnedByHandle'
  <1>1. ASSUME NEW i \in Importers, Imported(i)
        PROVE  ipc_uid'[imp[i].desc.block] = imp[i].desc.uid
    <2>1. imp[i].desc \in Descriptors
      BY <1>1 DEF Imported, ImportsAreSent
    <2>2. imp[i].desc.block \in BlockIds /\ imp[i].desc.uid # 0
      BY <2>1, BoundsAssumption DEF Descriptors
    <2>3. i \in Leases(imp[i].desc.block) /\ ipc_uid[imp[i].desc.block] = imp[i].desc.uid
      BY <1>1 DEF Leases, CountedImport, Imported, PinnedByImport, UidMatches
    <2>. QED BY <2>2, <2>3
  <1>2. ASSUME NEW h \in ReadHandles, handle[h].block # NoBlock, ~handle[h].local
        PROVE  handle[h].uid # 0 /\ handle[h].uid = ipc_uid'[handle[h].block]
    <2>1. handle[h].block \in BlockIds /\ h \in Leases(handle[h].block)
      BY <1>2 DEF HandleRecords, Leases
    <2>2. handle[h].uid # 0 /\ handle[h].uid = ipc_uid[handle[h].block]
      BY <1>2 DEF PinnedByHandle
    <2>. QED BY <2>1, <2>2
  <1>3. PinnedByImport'
    BY <1>1 DEF PinnedByImport, Imported, UidMatches
  <1>4. PinnedByHandle'
    BY <1>2 DEF PinnedByHandle
  <1>. QED BY <1>3, <1>4

\* allocate() claims unread blocks and retires only what nobody holds.
LEMMA AllocateLeases ==
  ASSUME PoolInv, GenerationInv, LeaseInv, AllocateStep, UNCHANGED transportVars
  PROVE  LeaseInv'
  <1>. USE DEF LeaseInv
  <1>0. /\ alloc \in AllocationRecords /\ AllocationShape /\ CreatedBlocks /\ FreeBlocksAreIdle
        /\ reader_state \in [BlockIds -> ReaderWords]
        /\ ipc_uid \in [BlockIds -> 0 .. MaxUid]
        /\ free_blocks \in [Sizes -> Seq(BlockIds)]
        /\ all_blocks \subseteq BlockIds
        /\ UNCHANGED <<imp, handle>>
        /\ imp \in [Importers -> ImportRecords] /\ handle \in [ReadHandles -> HandleRecords]
        /\ ImportsAreSent /\ sent \subseteq Descriptors
    BY DEF PoolInv, PoolShape, TypeOK, HeaderTypeOK, PoolTypeOK, BufferTypeOK, transportVars,
           GenerationInv
  <1>1. \A b \in BlockIds : Leases(b)' = Leases(b)
    BY <1>0 DEF Leases, CountedImport
  <1>2. CASE ScanCandidate \/ ClaimRefused \/ CreateBlockFails
    <2>1. /\ alloc.pc \in {"scan", "claim"} /\ alloc'.pc \in {"idle", "scan", "claim"}
          /\ ~alloc'.fresh
      <3>1. alloc.pc \in {"scan", "claim"} /\ ~alloc.fresh
        BY <1>0, <1>2 DEF ScanCandidate, ClaimRefused, NextCandidate, CreateBlockFails, AllocationShape
      <3>2. CASE ScanCandidate
        BY <1>0, <3>1, <3>2 DEF ScanCandidate, NextCandidate, AllocationRecords
      <3>3. CASE ClaimRefused
        BY <1>0, <3>1, <3>3 DEF ClaimRefused, NextCandidate, AllocationRecords
      <3>4. CASE CreateBlockFails
        BY <3>1, <3>4 DEF CreateBlockFails, NoAllocation
      <3>. QED BY <1>2, <3>2, <3>3, <3>4
    <2>2. UNCHANGED <<reader_state, ipc_uid, all_blocks>>
      BY <1>2 DEF ScanCandidate, ClaimRefused, NextCandidate, CreateBlockFails, headerVars
    <2>3. \A b \in BlockIds : ~Claiming(b) /\ ~Claiming(b)'
      BY <2>1 DEF Claiming
    <2>. QED BY <1>0, <1>1, <2>1, <2>2, <2>3, AccountingFrame, PinnedFrame
  <1>3. CASE ClaimCandidate
    <2>. DEFINE b0 == Candidates[alloc.i]
    <2>1. /\ alloc.pc = "claim" /\ reader_state[b0] = 0
          /\ reader_state' = [reader_state EXCEPT ![b0] = ReuseClaimed]
          /\ alloc' = [alloc EXCEPT !.pc = "retire", !.block = b0]
          /\ UNCHANGED <<ipc_uid, all_blocks>>
      BY <1>3 DEF ClaimCandidate, ClaimReuse
    <2>2. ~alloc.fresh /\ alloc.size \in Sizes /\ alloc.i \in DOMAIN free_blocks[alloc.size]
      BY <1>0, <2>1 DEF AllocationShape, AllocationRecords
    <2>3. b0 \in all_blocks
      BY <1>0, <2>2 DEF FreeBlocksAreIdle, Candidates
    <2>. HIDE DEF b0
    <2>4. alloc'.pc = "retire" /\ alloc'.block = b0 /\ ~alloc'.fresh
      BY <1>0, <2>1, <2>2 DEF AllocationRecords
    <2>5. \A b \in BlockIds : ~Claiming(b) /\ (Claiming(b)' <=> b = b0)
      BY <2>1, <2>4 DEF Claiming
    <2>6. Leases(b0) = {}
      BY <1>0, <2>1, <2>3, <2>5, UnreadHasNoLease
    <2>7. \A b \in BlockIds : reader_state'[b] = IF b = b0 THEN ReuseClaimed ELSE reader_state[b]
      BY <1>0, <2>1
    <2>8. ReaderAccounting'
      <3>1. \A b \in BlockIds :
              IF Claiming(b)' THEN reader_state'[b] = ReuseClaimed /\ Leases(b)' = {}
              ELSE reader_state'[b] = Cardinality(Leases(b)') /\ ~IsClaimed(reader_state'[b])
        BY <1>1, <2>5, <2>6, <2>7 DEF ReaderAccounting
      <3>. QED BY <3>1 DEF ReaderAccounting
    <2>9. UnreadBlocks'
      BY <2>1, <2>3, <2>4, <2>7 DEF UnreadBlocks
    <2>. QED BY <1>0, <2>1, <2>8, <2>9, PinnedFrame
  <1>4. CASE CreateBlock
    <2>. DEFINE b0 == next_block_id
    <2>1. /\ alloc.pc = "scan" /\ alloc'.pc = "retire" /\ alloc'.block = b0 /\ alloc'.fresh
          /\ reader_state' = [reader_state EXCEPT ![b0] = 0]
          /\ ipc_uid' = [ipc_uid EXCEPT ![b0] = 0]
          /\ all_blocks' = all_blocks \cup {b0}
      BY <1>0, <1>4 DEF CreateBlock, AllocationRecords
    <2>2. b0 \notin all_blocks
      BY <1>0, <1>4, MaxBlocksAssumption DEF CreateBlock, CreatedBlocks, PoolInv, TypeOK, PoolTypeOK
    <2>. HIDE DEF b0
    <2>3. /\ \A b \in BlockIds : reader_state'[b] = reader_state[b]
          /\ \A b \in BlockIds : ipc_uid'[b] = ipc_uid[b]
          /\ b0 \in BlockIds => reader_state[b0] = 0
      BY <1>0, <2>1, <2>2 DEF UnreadBlocks, GenerationInv, HeaderUid
    <2>4. \A b \in BlockIds : ~Claiming(b) /\ ~Claiming(b)'
      BY <2>1 DEF Claiming
    <2>5. ReaderAccounting'
      <3>1. \A b \in BlockIds :
              reader_state'[b] = Cardinality(Leases(b)') /\ ~IsClaimed(reader_state'[b])
        BY <1>1, <2>3, <2>4 DEF ReaderAccounting
      <3>. QED BY <2>4, <3>1 DEF ReaderAccounting
    <2>6. UnreadBlocks'
      BY <2>1, <2>3 DEF UnreadBlocks
    <2>. QED BY <1>0, <2>1, <2>3, <2>5, <2>6, PinnedKept
  <1>5. CASE RetireUid
    <2>1. /\ alloc.pc = "retire" /\ alloc'.pc = "unstamp" /\ alloc'.block = alloc.block
          /\ alloc'.fresh = alloc.fresh
          /\ ipc_uid' = [ipc_uid EXCEPT ![alloc.block] = 0]
          /\ UNCHANGED <<reader_state, all_blocks>>
      BY <1>0, <1>5 DEF RetireUid, NewUid, AllocationRecords
    <2>2. Leases(alloc.block) = {}
      BY <2>1, PreparedIsUnread DEF Holding
    <2>3. \A b : b \notin BlockIds \/ Leases(b) = {} \/ ipc_uid'[b] = ipc_uid[b]
      BY <1>0, <2>1, <2>2
    <2>4. \A b \in BlockIds : Claiming(b)' <=> Claiming(b)
      BY <2>1 DEF Claiming
    <2>. QED BY <1>0, <1>1, <2>1, <2>3, <2>4, AccountingFrame, PinnedKept
  <1>6. CASE ClearTimestamp
    <2>1. /\ alloc.pc = "unstamp" /\ alloc'.pc = "unclaim" /\ alloc'.block = alloc.block
          /\ alloc'.fresh = alloc.fresh
          /\ UNCHANGED <<ipc_uid, reader_state, all_blocks>>
      BY <1>0, <1>6 DEF ClearTimestamp, AllocationRecords
    <2>2. \A b \in BlockIds : Claiming(b)' <=> Claiming(b)
      BY <2>1 DEF Claiming
    <2>. QED BY <1>0, <1>1, <2>1, <2>2, AccountingFrame, PinnedFrame
  <1>7. CASE ReturnBlock
    <2>1. /\ alloc.pc = "unclaim" /\ alloc'.pc = "idle" /\ ~alloc'.fresh
          /\ reader_state' = [reader_state EXCEPT ![alloc.block] = 0]
          /\ UNCHANGED <<ipc_uid, all_blocks>>
      BY <1>7 DEF ReturnBlock, ReleaseReuseClaim, NoAllocation
    <2>2. Leases(alloc.block) = {} /\ alloc.block \in all_blocks
      BY <1>0, <2>1, PreparedIsUnread DEF Holding, AllocationShape
    <2>3. \A b \in BlockIds : reader_state'[b] = IF b = alloc.block THEN 0 ELSE reader_state[b]
      BY <1>0, <2>1
    <2>4. \A b \in BlockIds : ~Claiming(b)' /\ (b # alloc.block => ~Claiming(b))
      BY <2>1 DEF Claiming
    <2>5. ReaderAccounting'
      <3>1. Cardinality({}) = 0 /\ ~IsClaimed(0)
        BY FS_EmptySet, ReuseClaimedAssumption DEF IsClaimed
      <3>2. \A b \in BlockIds :
              reader_state'[b] = Cardinality(Leases(b)') /\ ~IsClaimed(reader_state'[b])
        BY <1>1, <2>2, <2>3, <2>4, <3>1 DEF ReaderAccounting
      <3>. QED BY <2>4, <3>2 DEF ReaderAccounting
    <2>6. UnreadBlocks'
      BY <2>1, <2>3 DEF UnreadBlocks
    <2>. QED BY <1>0, <2>1, <2>5, <2>6, PinnedFrame
  <1>. QED BY <1>2, <1>3, <1>4, <1>5, <1>6, <1>7 DEF AllocateStep

\* The owner of a block changes no lease; mark_published stores the UID that
\* the holders of the block were given.
LEMMA OwnerLeases ==
  ASSUME PoolInv, GenerationInv, LeaseInv, UNCHANGED transportVars,
         \/ \E b \in BlockIds :
              WritePayload(b) \/ ReleaseWriteHandle(b) \/ FreeBlock(b) \/ GrantWriteHandle(b)
         \/ \E p \in Publishers : PublishStep(p)
  PROVE  LeaseInv'
  <1>. USE DEF LeaseInv
  <1>0. /\ ipc_uid \in [BlockIds -> 0 .. MaxUid]
        /\ imp \in [Importers -> ImportRecords] /\ handle \in [ReadHandles -> HandleRecords]
        /\ ImportsAreSent /\ sent \subseteq Descriptors
        /\ UNCHANGED <<imp, handle>>
    BY DEF PoolInv, TypeOK, HeaderTypeOK, PoolTypeOK, BufferTypeOK, GenerationInv, transportVars
  <1>1. UNCHANGED <<reader_state, all_blocks, alloc>>
    BY PublisherFrame DEF WritePayload, ReleaseWriteHandle, FreeBlock, GrantWriteHandle,
           GetWriteHandle, headerVars, poolVars
  <1>2. ReaderAccounting' /\ UnreadBlocks'
    <2>1. \A b \in BlockIds : Leases(b)' = Leases(b) /\ (Claiming(b)' <=> Claiming(b))
      BY <1>0, <1>1 DEF Leases, CountedImport, Claiming
    <2>. QED BY <1>1, <2>1, AccountingFrame
  <1>3. \A b \in BlockIds : ipc_uid[b] = 0 \/ ipc_uid'[b] = ipc_uid[b]
    <2>1. ASSUME NEW p \in Publishers, MarkUid(p)
          PROVE  \A b \in BlockIds : ipc_uid[b] = 0 \/ ipc_uid'[b] = ipc_uid[b]
      <3>1. \A b \in BlockIds : ipc_uid[b] \in {0, current_uid[b]}
        BY DEF GenerationInv, HeaderUid
      <3>. QED BY <1>0, <2>1, <3>1 DEF MarkUid
    <2>2. CASE ~\E p \in Publishers : MarkUid(p)
      BY <2>2 DEF WritePayload, ReleaseWriteHandle, FreeBlock, GrantWriteHandle, GetWriteHandle,
           PublishStep, FinalizeForPublish, PublishFallsBack, ReadPublishClock, StampAndSend,
           headerVars
    <2>. QED BY <2>1, <2>2
  <1>. QED BY <1>0, <1>1, <1>2, <1>3, PinnedKept

\* An importer counts itself once, and holds its buffer only if the UID still
\* matches when it is counted.
LEMMA ImporterLeases ==
  ASSUME NEW i \in Importers, PoolInv, GenerationInv, LeaseInv, ImporterStep(i)
  PROVE  LeaseInv'
  <1>. USE DEF LeaseInv
  <1>0. /\ reader_state \in [BlockIds -> ReaderWords]
        /\ imp \in [Importers -> ImportRecords]
        /\ ImportsAreSent /\ i \notin ReadHandles
    BY HandlesAssumption
    DEF PoolInv, TypeOK, HeaderTypeOK, GenerationInv
  <1>1. UNCHANGED <<ipc_uid, all_blocks, alloc, handle>>
    BY DEF ImporterStep, ImportBlock, ImportReturns, AcquireImport, AcquireRefused,
        RecheckUid, Verdict, ReleaseStale, DestroyImported, DropImport, ForwardCheck, ForwardStamp,
        headerVars, poolVars
  <1>2. \A j \in Importers : j # i => imp'[j] = imp[j]
    BY <1>0 DEF ImporterStep, ImportBlock, ImportReturns, AcquireImport, AcquireRefused,
        RecheckUid, Verdict, ReleaseStale, DestroyImported, DropImport, ForwardCheck, ForwardStamp, Advance
  <1>3. PinnedByHandle'
    BY <1>1 DEF PinnedByHandle
  <1>4. ASSUME Imported(i)' => UidMatches(i)'
        PROVE  PinnedByImport'
    BY <1>1, <1>2, <1>4 DEF PinnedByImport, Imported, UidMatches
  <1>5. CASE AcquireImport(i)
    <2>1. /\ imp[i].pc = "validated" /\ imp'[i].pc = "acquired" /\ imp'[i].desc = imp[i].desc
          /\ AcquireReader(imp[i].desc.block)
      BY <1>0, <1>5 DEF AcquireImport, Advance, ImportRecords
    <2>2. imp[i].desc \in sent
      BY <1>0, <2>1 DEF ImportsAreSent
    <2>3. PICK b0 \in BlockIds : /\ b0 = imp[i].desc.block /\ b0 \in all_blocks
                                /\ ~(alloc.fresh /\ alloc.block = b0)
      BY <2>2 DEF GenerationInv, SentDescriptors, PoolInv, TypeOK, BufferTypeOK, Descriptors
    <2>4. /\ i \notin Leases(b0) /\ Leases(b0)' = Leases(b0) \cup {i}
          /\ \A b \in BlockIds : b # b0 => Leases(b)' = Leases(b)
      BY <1>0, <1>1, <1>2, <2>1, <2>3 DEF Leases, CountedImport
    <2>5. ReaderAccounting' /\ UnreadBlocks'
      BY <1>0, <1>1, <2>1, <2>3, <2>4, AcquireAccounting
    <2>. QED BY <1>3, <1>4, <2>1, <2>5 DEF Imported
  <1>6. CASE ReleaseStale(i) \/ DestroyImported(i)
    <2>1. imp[i].pc \in {"stale", "holding"} /\ imp'[i].pc = "idle"
          /\ ReleaseReader(imp[i].desc.block)
      BY <1>0, <1>6 DEF ReleaseStale, DestroyImported, DropImport, NoImport
    <2>2. imp[i].desc \in sent
      BY <1>0, <2>1 DEF ImportsAreSent
    <2>3. PICK b0 \in BlockIds : b0 = imp[i].desc.block
      BY <2>2 DEF PoolInv, TypeOK, BufferTypeOK, Descriptors
    <2>4. /\ i \in Leases(b0) /\ Leases(b0)' = Leases(b0) \ {i}
          /\ \A b \in BlockIds : b # b0 => Leases(b)' = Leases(b)
      BY <1>0, <1>1, <1>2, <2>1, <2>3 DEF Leases, CountedImport
    <2>5. ReaderAccounting' /\ UnreadBlocks'
      BY <1>0, <1>1, <2>1, <2>3, <2>4, ReleaseAccounting
    <2>. QED BY <1>3, <1>4, <2>1, <2>5 DEF Imported
  <1>7. CASE \/ \E d \in sent : ImportBlock(i, d)
             \/ AcquireRefused(i)
             \/ RecheckUid(i)
             \/ ForwardCheck(i)
             \/ ForwardStamp(i)
    <2>1. UNCHANGED reader_state
      BY <1>7 DEF ImportBlock, AcquireRefused, RecheckUid, Verdict, ForwardCheck, ForwardStamp, headerVars
    <2>2. /\ CountedImport(i)' <=> CountedImport(i)
          /\ CountedImport(i) => imp'[i].desc = imp[i].desc
      <3>1. CASE \E d \in sent : ImportBlock(i, d)
        BY <1>0, <3>1 DEF ImportBlock, NoImport, CountedImport
      <3>2. CASE AcquireRefused(i)
        BY <1>0, <3>2 DEF AcquireRefused, NoImport, CountedImport
      <3>3. CASE RecheckUid(i)
        BY <1>0, <3>3 DEF RecheckUid, Verdict, Advance, CountedImport, ImportRecords
      <3>4. CASE ForwardCheck(i) \/ ForwardStamp(i)
        BY <1>0, <3>4 DEF ForwardCheck, ForwardStamp, CountedImport, ImportRecords
      <3>. QED BY <1>7, <3>1, <3>2, <3>3, <3>4
    <2>3. \A b \in BlockIds : Leases(b)' = Leases(b) /\ (Claiming(b)' <=> Claiming(b))
      BY <1>1, <1>2, <2>2 DEF Leases, Claiming, CountedImport
    <2>4. ReaderAccounting' /\ UnreadBlocks'
      BY <1>1, <2>1, <2>3, AccountingFrame
    <2>5. Imported(i)' => UidMatches(i)'
      <3>1. CASE \E d \in sent : ImportBlock(i, d)
        BY <1>0, <3>1 DEF ImportBlock, NoImport, Imported
      <3>2. CASE AcquireRefused(i)
        BY <1>0, <3>2 DEF AcquireRefused, NoImport, Imported
      <3>3. CASE RecheckUid(i)
        BY <1>0, <1>1, <3>3 DEF RecheckUid, Verdict, Advance, Imported, UidMatches, ImportRecords
      <3>4. CASE ForwardCheck(i) \/ ForwardStamp(i)
        <4>1. Imported(i) /\ imp'[i].desc = imp[i].desc
          BY <1>0, <3>4 DEF ForwardCheck, ForwardStamp, Imported, ImportRecords
        <4>. QED BY <1>1, <4>1 DEF PinnedByImport, UidMatches
      <3>. QED BY <1>7, <3>1, <3>2, <3>3, <3>4
    <2>. QED BY <1>3, <1>4, <2>4, <2>5
  <1>. QED BY <1>5, <1>6, <1>7 DEF ImporterStep, ImportReturns

\* A ReadHandle counts itself once; one that is taken from an imported buffer
\* pins the generation of that buffer.
LEMMA HandleLeases ==
  ASSUME NEW h \in ReadHandles, PoolInv, GenerationInv, LeaseInv, HandleStep(h)
  PROVE  LeaseInv'
  <1>. USE DEF LeaseInv
  <1>0. /\ reader_state \in [BlockIds -> ReaderWords]
        /\ handle \in [ReadHandles -> HandleRecords]
        /\ h \notin Importers
    BY HandlesAssumption DEF PoolInv, TypeOK, HeaderTypeOK
  <1>1. UNCHANGED <<ipc_uid, all_blocks, alloc, imp>>
    BY DEF HandleStep, OpenImportedHandle, OpenOwnedHandle, OpenHandle, CloseHandle, poolVars
  <1>2. PinnedByImport'
    BY <1>1 DEF PinnedByImport, Imported, UidMatches
  <1>3. ASSUME NEW b0 \in BlockIds, NEW local \in BOOLEAN, OpenHandle(h, b0, local),
               b0 \in all_blocks, ~(alloc.fresh /\ alloc.block = b0), local \/ ipc_uid[b0] # 0
        PROVE  LeaseInv'
    <2>1. /\ handle[h] = NoHandle /\ AcquireReader(b0)
          /\ handle' = [handle EXCEPT ![h] = [block |-> b0, local |-> local,
                                              uid |-> ipc_uid[b0], bytes |-> payload[b0]]]
      BY <1>3 DEF OpenHandle
    <2>2. /\ handle'[h].block = b0 /\ handle'[h].local = local /\ handle'[h].uid = ipc_uid[b0]
          /\ \A g \in ReadHandles : g # h => handle'[g] = handle[g]
      BY <1>0, <2>1
    <2>3. handle[h].block = NoBlock /\ NoBlock \notin BlockIds
      BY <2>1 DEF NoHandle, NoBlock, BlockIds
    <2>4. /\ h \notin Leases(b0) /\ Leases(b0)' = Leases(b0) \cup {h}
          /\ \A b \in BlockIds : b # b0 => Leases(b)' = Leases(b)
      BY <1>0, <1>1, <2>2, <2>3 DEF Leases, CountedImport
    <2>5. ReaderAccounting' /\ UnreadBlocks'
      BY <1>0, <1>1, <1>3, <2>1, <2>4, AcquireAccounting
    <2>6. PinnedByHandle'
      BY <1>1, <1>3, <2>2, <2>3 DEF PinnedByHandle
    <2>. QED BY <1>2, <2>5, <2>6
  <1>4. CASE CloseHandle(h)
    <2>1. /\ handle[h] # NoHandle /\ ReleaseReader(handle[h].block)
          /\ handle' = [handle EXCEPT ![h] = NoHandle]
      BY <1>4 DEF CloseHandle
    <2>2. PICK b0 \in BlockIds : b0 = handle[h].block
      BY <1>0, <2>1 DEF PinnedByHandle, HandleRecords
    <2>3. /\ handle'[h] = NoHandle /\ NoHandle.block = NoBlock /\ NoBlock \notin BlockIds
          /\ \A g \in ReadHandles : g # h => handle'[g] = handle[g]
      BY <1>0, <2>1 DEF NoHandle, NoBlock, BlockIds
    <2>4. /\ h \in Leases(b0) /\ Leases(b0)' = Leases(b0) \ {h}
          /\ \A b \in BlockIds : b # b0 => Leases(b)' = Leases(b)
      BY <1>0, <1>1, <2>2, <2>3 DEF Leases, CountedImport
    <2>5. ReaderAccounting' /\ UnreadBlocks'
      BY <1>0, <1>1, <2>1, <2>2, <2>4, ReleaseAccounting
    <2>6. PinnedByHandle'
      BY <1>1, <2>3 DEF PinnedByHandle
    <2>. QED BY <1>2, <2>5, <2>6
  <1>5. ASSUME NEW b \in BlockIds, OpenOwnedHandle(h, b) PROVE LeaseInv'
    <2>1. b \in all_blocks /\ b # alloc.block
      BY <1>5 DEF OpenOwnedHandle, Owned, PoolInv, PoolShape, CreatedBlocks
    <2>. QED BY <1>3, <1>5, <2>1 DEF OpenOwnedHandle
  <1>6. ASSUME NEW i \in Importers, OpenImportedHandle(h, i) PROVE LeaseInv'
    <2>1. Imported(i) /\ imp[i].desc \in sent
      BY <1>6 DEF OpenImportedHandle, Imported, GenerationInv, ImportsAreSent
    <2>2. PICK d \in sent : d = imp[i].desc
      BY <2>1
    <2>3. d \in Descriptors
      BY DEF PoolInv, TypeOK, BufferTypeOK
    <2>4. d.block \in BlockIds /\ d.uid # 0
      BY <2>3, BoundsAssumption DEF Descriptors
    <2>5. d.block \in all_blocks /\ ~(alloc.fresh /\ alloc.block = d.block)
      BY DEF GenerationInv, SentDescriptors
    <2>6. ipc_uid[d.block] # 0 /\ OpenHandle(h, d.block, FALSE)
      BY <1>6, <2>1, <2>2, <2>4 DEF OpenImportedHandle, PinnedByImport, UidMatches
    <2>. QED BY <1>3, <2>4, <2>5, <2>6
  <1>. QED BY <1>4, <1>5, <1>6 DEF HandleStep

\* Every step keeps the accounting and the pinned generations.
LEMMA NextLeases ==
  ASSUME PoolInv, GenerationInv, LeaseInv, [Next]_vars
  PROVE  LeaseInv'
  <1>1. ASSUME Tick \/ (\E s \in Sizes : BeginAllocate(s)) \/ UNCHANGED vars, UNCHANGED transportVars
        PROVE  LeaseInv'
    <2>1. UNCHANGED <<reader_state, ipc_uid, all_blocks, imp, handle>>
      BY <1>1 DEF Tick, BeginAllocate, vars, headerVars, poolVars, transportVars
    <2>2. UNCHANGED alloc \/ (alloc.pc = "idle" /\ alloc'.pc = "scan" /\ ~alloc'.fresh)
      BY <1>1 DEF Tick, BeginAllocate, MutexFree, NoAllocation, vars, poolVars
    <2>3. \A b \in BlockIds : Leases(b)' = Leases(b) /\ (Claiming(b)' <=> Claiming(b))
      BY <2>1, <2>2 DEF Leases, CountedImport, Claiming
    <2>. QED BY <2>1, <2>2, <2>3, AccountingFrame, PinnedFrame DEF LeaseInv
  <1>2. ASSUME AllocateStep, UNCHANGED transportVars PROVE LeaseInv'
    BY <1>2, AllocateLeases
  <1>3. ASSUME NEW b \in BlockIds, UNCHANGED transportVars,
               \/ WritePayload(b)
               \/ ReleaseWriteHandle(b)
               \/ FreeBlock(b)
        PROVE  LeaseInv'
    BY <1>3, OwnerLeases
  <1>4. ASSUME NEW b \in BlockIds, GrantWriteHandle(b) PROVE LeaseInv'
    BY <1>4, OwnerLeases DEF GrantWriteHandle
  <1>5. ASSUME NEW i \in Importers, ImporterStep(i) PROVE LeaseInv'
    BY <1>5, ImporterLeases
  <1>6. ASSUME NEW h \in ReadHandles, HandleStep(h) PROVE LeaseInv'
    BY <1>6, HandleLeases
  <1>7. ASSUME NEW p \in Publishers, PublishStep(p), UNCHANGED transportVars PROVE LeaseInv'
    BY <1>7, OwnerLeases
  <1>. QED BY <1>1, <1>2, <1>3, <1>4, <1>5, <1>6, <1>7 DEF Next, PoolNext, vars

-----------------------------------------------------------------------------
(* Part 4: bytes *)

\* Steps that write no payload and move no state.
LEMMA BytesFrame ==
  ASSUME BytesInv, UNCHANGED <<write_state, payload, publishing, ipc_uid, current_uid, sent, handle>>
  PROVE  BytesInv'
  BY DEF BytesInv, PublishedIsFinal, HandleExcludesWriter, BufferOf

\* allocate() resets the write state of a block that is neither published nor read.
LEMMA AllocateBytes ==
  ASSUME PoolInv, GenerationInv, LeaseInv, BytesInv, AllocateStep, UNCHANGED transportVars
  PROVE  BytesInv'
  <1>0. /\ AllocationShape /\ CreatedBlocks /\ PublishingOwned /\ UNCHANGED handle
        /\ current_uid \in [BlockIds -> 0 .. MaxUid] /\ ipc_uid \in [BlockIds -> 0 .. MaxUid]
        /\ write_state \in [BlockIds -> {"Unset", "InUse", "Finalized"}]
        /\ handle \in [ReadHandles -> HandleRecords]
        /\ all_blocks \subseteq BlockIds /\ uids_drawn \in Nat
        /\ HeaderUid /\ SentDescriptors /\ PublishedIsFinal /\ HandleExcludesWriter
    BY BoundsAssumption
    DEF PoolInv, PoolShape, TypeOK, HeaderTypeOK, PoolTypeOK, BufferTypeOK, transportVars,
        GenerationInv, BytesInv
  <1>s. \A d \in sent : d.block \in BlockIds /\ d.uid \in Nat /\ d.uid # 0 /\ d.uid <= uids_drawn
    BY <1>0, BoundsAssumption DEF PoolInv, TypeOK, BufferTypeOK, Descriptors, SentDescriptors
  <1>1. CASE ScanCandidate \/ ClaimCandidate \/ ClaimRefused \/ CreateBlockFails \/ ClearTimestamp
    BY <1>0, <1>1, BytesFrame DEF ScanCandidate, ClaimCandidate, ClaimRefused, NextCandidate, CreateBlockFails,
                        ClearTimestamp, headerVars, bufferVars
  <1>2. CASE CreateBlock
    <2>1. /\ UNCHANGED <<current_uid, write_state, payload, publishing, sent>>
          /\ \A b \in BlockIds : ipc_uid'[b] # 0 => ipc_uid[b] # 0
      BY <1>0, <1>2 DEF CreateBlock, bufferVars
    <2>2. PublishedIsFinal'
      BY <1>0, <2>1 DEF PublishedIsFinal, BufferOf
    <2>3. HandleExcludesWriter'
      BY <1>0, <2>1 DEF HandleExcludesWriter
    <2>. QED BY <2>2, <2>3 DEF BytesInv
  <1>3. CASE RetireUid
    <2>1. /\ UNCHANGED <<write_state, payload, publishing, sent>>
          /\ \A b \in BlockIds : ipc_uid'[b] # 0 => ipc_uid[b] # 0
          /\ \A b \in BlockIds : current_uid'[b] = IF b = alloc.block THEN uids_drawn + 1
                                                   ELSE current_uid[b]
      BY <1>0, <1>3 DEF RetireUid, NewUid, bufferVars
    <2>2. \A d \in sent : d.uid = current_uid'[d.block] => d.uid = current_uid[d.block]
      BY <1>0, <1>s, <2>1
    <2>3. PublishedIsFinal'
      BY <1>0, <2>1, <2>2 DEF PublishedIsFinal, BufferOf
    <2>4. HandleExcludesWriter'
      BY <1>0, <2>1 DEF HandleExcludesWriter
    <2>. QED BY <2>3, <2>4 DEF BytesInv
  <1>4. CASE ReturnBlock
    <2>1. /\ UNCHANGED <<ipc_uid, current_uid, payload, publishing, sent>>
          /\ \A b \in BlockIds : b # alloc.block => write_state'[b] = write_state[b]
          /\ \A b \in BlockIds : b = alloc.block => write_state'[b] = "Unset"
          /\ alloc.pc = "unclaim"
      BY <1>0, <1>4 DEF ReturnBlock
    <2>2. ipc_uid[alloc.block] = 0 /\ alloc.block \in BlockIds
      BY <1>0, <2>1 DEF HeaderUid, AllocationShape, Holding
    <2>3. \A p \in Publishers : publishing[p].step # "idle" =>
            BufferOf(p) \in BlockIds /\ BufferOf(p) # alloc.block
      BY <1>0, <2>2 DEF PublishingOwned, Owned
    <2>4. \A d \in sent : d.block = alloc.block => d.uid # current_uid[d.block]
      BY <1>0, <1>s, <2>2 DEF SentDescriptors
    <2>5. PublishedIsFinal'
      BY <1>0, <1>s, <2>1, <2>2, <2>3, <2>4 DEF PublishedIsFinal, BufferOf
    <2>6. HandleExcludesWriter'
      <3>1. \A h \in ReadHandles : handle[h].block # NoBlock => handle[h].block \in BlockIds
        BY <1>0 DEF HandleRecords
      <3>. QED BY <1>0, <2>1, <3>1 DEF HandleExcludesWriter
    <2>. QED BY <2>5, <2>6 DEF BytesInv
  <1>. QED BY <1>1, <1>2, <1>3, <1>4 DEF AllocateStep

\* The owner writes only what is neither published nor read.
LEMMA OwnerBytes ==
  ASSUME WritesBeforePublish, NEW b0 \in BlockIds,
         PoolInv, GenerationInv, LeaseInv, BytesInv, UNCHANGED transportVars,
         \/ WritePayload(b0)
         \/ ReleaseWriteHandle(b0)
         \/ FreeBlock(b0)
         \/ GrantWriteHandle(b0)
  PROVE  BytesInv'
  <1>0. /\ UNCHANGED handle
        /\ ipc_uid \in [BlockIds -> 0 .. MaxUid]
        /\ write_state \in [BlockIds -> {"Unset", "InUse", "Finalized"}]
        /\ payload \in [BlockIds -> 0 .. MaxWrites]
        /\ publishing \in [Publishers -> PublicationRecords]
        /\ handle \in [ReadHandles -> HandleRecords]
        /\ PinnedByHandle /\ PublishedIsFinal /\ HandleExcludesWriter /\ PublishingOwned
    BY DEF PoolInv, PoolShape, TypeOK, HeaderTypeOK, BufferTypeOK, transportVars, LeaseInv, BytesInv
  <1>s. \A d \in sent : d.block \in BlockIds
    BY DEF PoolInv, TypeOK, BufferTypeOK, Descriptors
  <1>h. \A h \in ReadHandles : handle[h].block # NoBlock => handle[h].block \in BlockIds
    BY <1>0 DEF HandleRecords
  <1>p. \A p \in Publishers : publishing[p].step # "idle" => BufferOf(p) \in BlockIds
    BY <1>0 DEF PublishingOwned
  <1>1. CASE WritePayload(b0)
    <2>1. /\ UNCHANGED <<write_state, publishing, ipc_uid, current_uid, sent>>
          /\ write_state[b0] = "InUse"
          /\ \A b \in BlockIds : b # b0 => payload'[b] = payload[b]
      BY <1>0, <1>1 DEF WritePayload, headerVars, poolVars
    <2>2. PublishedIsFinal'
      BY <1>0, <1>s, <1>p, <2>1 DEF PublishedIsFinal, BufferOf
    <2>3. HandleExcludesWriter'
      BY <1>0, <1>h, <2>1 DEF HandleExcludesWriter
    <2>. QED BY <2>2, <2>3 DEF BytesInv
  <1>2. CASE ReleaseWriteHandle(b0)
    <2>1. /\ UNCHANGED <<payload, publishing, ipc_uid, current_uid, sent>>
          /\ \A b \in BlockIds : write_state'[b] = IF b = b0 THEN "Finalized" ELSE write_state[b]
      BY <1>0, <1>2 DEF ReleaseWriteHandle, headerVars, poolVars
    <2>2. PublishedIsFinal'
      BY <1>0, <1>s, <1>p, <2>1 DEF PublishedIsFinal, BufferOf
    <2>3. HandleExcludesWriter'
      BY <1>0, <1>h, <2>1 DEF HandleExcludesWriter
    <2>. QED BY <2>2, <2>3 DEF BytesInv
  <1>3. CASE FreeBlock(b0)
    BY <1>0, <1>3, BytesFrame DEF FreeBlock, Unused, headerVars, bufferVars
  <1>4. CASE GrantWriteHandle(b0)
    <2>1. /\ UNCHANGED <<payload, publishing, ipc_uid, current_uid, sent>>
          /\ write_state[b0] = "Unset" /\ ActiveReaders(b0) = {}
          /\ \A b \in BlockIds : b # b0 => write_state'[b] = write_state[b]
      BY <1>0, <1>4 DEF GrantWriteHandle, GetWriteHandle, headerVars, poolVars
    <2>2. ipc_uid[b0] = 0
      BY <1>0, <2>1 DEF PublishedIsFinal
    <2>3. \A h \in ReadHandles : handle[h].block # b0 \/ b0 = NoBlock
      BY <1>0, <2>1, <2>2 DEF ActiveReaders, PinnedByHandle
    <2>4. PublishedIsFinal'
      BY <1>0, <1>s, <1>p, <2>1 DEF PublishedIsFinal, BufferOf
    <2>5. HandleExcludesWriter'
      BY <1>0, <1>h, <2>1, <2>3 DEF HandleExcludesWriter
    <2>. QED BY <2>4, <2>5 DEF BytesInv
  <1>. QED BY <1>1, <1>2, <1>3, <1>4

\* A publisher publishes only what is final.
LEMMA PublisherBytes ==
  ASSUME WritesBeforePublish, NEW p0 \in Publishers, PoolInv, BytesInv, PublishStep(p0),
         UNCHANGED transportVars
  PROVE  BytesInv'
  <1>0. /\ UNCHANGED handle
        /\ write_state \in [BlockIds -> {"Unset", "InUse", "Finalized"}]
        /\ ipc_uid \in [BlockIds -> 0 .. MaxUid]
        /\ publishing \in [Publishers -> PublicationRecords]
        /\ publishing[p0] \in PublicationRecords
        /\ handle \in [ReadHandles -> HandleRecords]
        /\ PublishedIsFinal /\ HandleExcludesWriter
    BY DEF PoolInv, TypeOK, HeaderTypeOK, BufferTypeOK, transportVars, BytesInv
  <1>s. \A d \in sent : d.block \in BlockIds
    BY DEF PoolInv, TypeOK, BufferTypeOK, Descriptors
  <1>h. \A h \in ReadHandles : handle[h].block # NoBlock => handle[h].block \in BlockIds
    BY <1>0 DEF HandleRecords
  <1>p. \A p \in Publishers : publishing[p].step # "idle" => BufferOf(p) \in BlockIds
    BY DEF PoolInv, PoolShape, PublishingOwned
  <1>f. /\ UNCHANGED <<payload, current_uid>>
        /\ \A p \in Publishers : p # p0 => publishing'[p] = publishing[p]
    BY PublisherFrame DEF poolVars
  <1>1. ASSUME NEW b0 \in BlockIds, FinalizeForPublish(p0, b0) PROVE BytesInv'
    <2>1. write_state[b0] # "Unset"
      BY <1>1 DEF FinalizeForPublish
    <2>2. /\ UNCHANGED <<ipc_uid, sent>> /\ publishing'[p0].block = b0
          /\ \A b \in BlockIds : write_state'[b] = IF b = b0 THEN "Finalized" ELSE write_state[b]
      BY <1>0, <1>1, <2>1 DEF FinalizeForPublish, FinalizedWrite, headerVars
    <2>3. PublishedIsFinal'
      BY <1>0, <1>s, <1>p, <1>f, <2>2 DEF PublishedIsFinal, BufferOf
    <2>4. HandleExcludesWriter'
      BY <1>0, <1>h, <1>f, <2>2 DEF HandleExcludesWriter
    <2>. QED BY <2>3, <2>4 DEF BytesInv
  <1>2. ASSUME MarkUid(p0) \/ PublishFallsBack(p0) \/ ReadPublishClock(p0) \/ StampAndSend(p0)
        PROVE  BytesInv'
    <2>. DEFINE b0 == BufferOf(p0)
    <2>1. /\ UNCHANGED write_state
          /\ publishing[p0].step # "idle"
          /\ \A b \in BlockIds : b # b0 => ipc_uid'[b] = ipc_uid[b]
      BY <1>0, <1>2 DEF MarkUid, PublishFallsBack, ReadPublishClock, StampAndSend, headerVars
    <2>2. write_state[b0] = "Finalized" /\ b0 \in BlockIds
      BY <1>0, <1>p, <2>1 DEF PublishedIsFinal
    <2>3. \A d \in sent' : \/ d \in sent
                           \/ d.block = b0 /\ d.bytes = payload[b0]
      BY <1>2 DEF MarkUid, PublishFallsBack, ReadPublishClock, StampAndSend, DescriptorOf
    <2>4. publishing'[p0].step # "idle" => publishing'[p0].block = b0
      <3>1. ASSUME PublishFallsBack(p0) \/ StampAndSend(p0) PROVE publishing'[p0].step = "idle"
        BY <1>0, <3>1 DEF PublishFallsBack, StampAndSend, NotPublishing
      <3>2. ASSUME MarkUid(p0) \/ ReadPublishClock(p0) PROVE publishing'[p0].block = b0
        <4>1. CASE MarkUid(p0)
          BY <1>0, <4>1 DEF MarkUid, AdvancePublish, PublicationRecords, BufferOf
        <4>2. CASE ReadPublishClock(p0)
          BY <1>0, <4>2 DEF ReadPublishClock, PublicationRecords, BufferOf
        <4>. QED BY <3>2, <4>1, <4>2
      <3>. QED BY <1>2, <3>1, <3>2
    <2>. HIDE DEF b0
    <2>5. PublishedIsFinal'
      BY <1>0, <1>s, <1>f, <2>1, <2>2, <2>3, <2>4 DEF PublishedIsFinal, BufferOf
    <2>6. HandleExcludesWriter'
      BY <1>0, <1>f, <2>1 DEF HandleExcludesWriter
    <2>. QED BY <2>5, <2>6 DEF BytesInv
  <1>. QED BY <1>1, <1>2 DEF PublishStep

\* A ReadHandle is granted only while nobody writes.
LEMMA HandleBytes ==
  ASSUME NEW h \in ReadHandles, PoolInv, GenerationInv, LeaseInv, BytesInv, HandleStep(h)
  PROVE  BytesInv'
  <1>0. /\ handle \in [ReadHandles -> HandleRecords]
        /\ UNCHANGED <<write_state, payload, publishing, ipc_uid, current_uid, sent>>
    BY DEF PoolInv, TypeOK, HandleStep, OpenImportedHandle, OpenOwnedHandle, OpenHandle,
           CloseHandle, poolVars, bufferVars
  <1>1. PublishedIsFinal'
    BY <1>0 DEF BytesInv, PublishedIsFinal, BufferOf
  <1>2. ASSUME NEW b \in BlockIds, NEW local \in BOOLEAN, OpenHandle(h, b, local),
               write_state[b] # "InUse"
        PROVE  HandleExcludesWriter'
    <2>1. /\ handle'[h].block = b /\ handle'[h].bytes = payload[b]
          /\ \A g \in ReadHandles : g # h => handle'[g] = handle[g]
      BY <1>0, <1>2 DEF OpenHandle
    <2>. QED BY <1>0, <1>2, <2>1 DEF BytesInv, HandleExcludesWriter
  <1>3. CASE CloseHandle(h)
    <2>1. /\ handle'[h].block = NoBlock
          /\ \A g \in ReadHandles : g # h => handle'[g] = handle[g]
      BY <1>0, <1>3 DEF CloseHandle, NoHandle
    <2>2. HandleExcludesWriter'
      BY <1>0, <2>1 DEF BytesInv, HandleExcludesWriter
    <2>. QED BY <1>1, <2>2 DEF BytesInv
  <1>4. ASSUME NEW b \in BlockIds, OpenOwnedHandle(h, b) PROVE BytesInv'
    BY <1>1, <1>2, <1>4 DEF OpenOwnedHandle, BytesInv
  <1>5. ASSUME NEW i \in Importers, OpenImportedHandle(h, i) PROVE BytesInv'
    <2>1. Imported(i) /\ imp[i].desc \in sent
      BY <1>5 DEF OpenImportedHandle, Imported, GenerationInv, ImportsAreSent
    <2>2. PICK d \in sent : d = imp[i].desc
      BY <2>1
    <2>3. d \in Descriptors
      BY DEF PoolInv, TypeOK, BufferTypeOK
    <2>4. d.block \in BlockIds /\ d.uid # 0
      BY <2>3, BoundsAssumption DEF Descriptors
    <2>5. ipc_uid[d.block] # 0
      BY <2>1, <2>2, <2>4 DEF LeaseInv, PinnedByImport, UidMatches
    <2>6. write_state[d.block] = "Finalized" /\ OpenHandle(h, d.block, FALSE)
      BY <1>5, <2>2, <2>4, <2>5 DEF OpenImportedHandle, BytesInv, PublishedIsFinal
    <2>. QED BY <1>1, <1>2, <2>4, <2>6 DEF BytesInv
  <1>. QED BY <1>3, <1>4, <1>5 DEF HandleStep

\* Every step keeps published bytes, when applications write before publishing.
LEMMA NextBytes ==
  ASSUME WritesBeforePublish, PoolInv, GenerationInv, LeaseInv, BytesInv, [Next]_vars
  PROVE  BytesInv'
  <1>1. ASSUME Tick \/ (\E s \in Sizes : BeginAllocate(s)) \/ UNCHANGED vars, UNCHANGED transportVars
        PROVE  BytesInv'
    BY <1>1, BytesFrame
    DEF Tick, BeginAllocate, vars, headerVars, poolVars, bufferVars, transportVars
  <1>2. ASSUME AllocateStep, UNCHANGED transportVars PROVE BytesInv'
    BY <1>2, AllocateBytes
  <1>3. ASSUME NEW b \in BlockIds, UNCHANGED transportVars,
               \/ WritePayload(b)
               \/ ReleaseWriteHandle(b)
               \/ FreeBlock(b)
        PROVE  BytesInv'
    BY <1>3, OwnerBytes
  <1>4. ASSUME NEW b \in BlockIds, GrantWriteHandle(b) PROVE BytesInv'
    BY <1>4, OwnerBytes DEF GrantWriteHandle
  <1>5. ASSUME NEW i \in Importers, ImporterStep(i) PROVE BytesInv'
    BY <1>5, BytesFrame
    DEF ImporterStep, ImportBlock, ImportReturns, AcquireImport, AcquireRefused,
        RecheckUid, Verdict, ReleaseStale, DestroyImported, DropImport, ForwardCheck, ForwardStamp,
        headerVars, poolVars, bufferVars
  <1>6. ASSUME NEW h \in ReadHandles, HandleStep(h) PROVE BytesInv'
    BY <1>6, HandleBytes
  <1>7. ASSUME NEW p \in Publishers, PublishStep(p), UNCHANGED transportVars PROVE BytesInv'
    BY <1>7, PublisherBytes
  <1>. QED BY <1>1, <1>2, <1>3, <1>4, <1>5, <1>6, <1>7 DEF Next, PoolNext, vars

-----------------------------------------------------------------------------
(* No block is lost *)

\* allocate() moves a block out of its list and into its own hand, and free()
\* moves it back.
LEMMA NextNoBlockLost ==
  ASSUME PoolInv, NoBlockLost, [Next]_vars
  PROVE  NoBlockLost'
  <1>0. /\ AllocationShape /\ FreeListsAreSets /\ CreatedBlocks /\ alloc \in AllocationRecords
        /\ free_blocks \in [Sizes -> Seq(BlockIds)] /\ in_use \in [BlockIds -> BOOLEAN]
        /\ all_blocks \subseteq BlockIds /\ NoBlock \notin BlockIds
    BY DEF PoolInv, PoolShape, TypeOK, PoolTypeOK, NoBlock, BlockIds
  <1>1. ASSUME UNCHANGED <<all_blocks, in_use, free_blocks>>,
               alloc'.block = alloc.block \/ alloc.block = NoBlock
        PROVE  NoBlockLost'
    BY <1>0, <1>1 DEF NoBlockLost, InFreeList
  <1>2. ASSUME ClaimCandidate PROVE NoBlockLost'
    <2>1. PICK s0 \in Sizes : s0 = alloc.size
      BY <1>0, <1>2 DEF ClaimCandidate, AllocationShape
    <2>2. PICK list \in Seq(BlockIds) : list = free_blocks[s0]
      BY <1>0
    <2>3. PICK n \in DOMAIN list : n = alloc.i
      BY <1>0, <1>2, <2>1, <2>2 DEF ClaimCandidate, AllocationShape, AllocationRecords
    <2>4. PICK rest : rest = RemoveSwap(list, n)
      OBVIOUS
    <2>5. \A k \in DOMAIN list : k # n => \E j \in DOMAIN rest : rest[j] = list[k]
      BY <1>0, <2>2, <2>4, RemoveSwapSet DEF FreeListsAreSets
    <2>6. /\ free_blocks'[s0] = rest
          /\ \A s \in Sizes : s # s0 => free_blocks'[s] = free_blocks[s]
      BY <1>0, <1>2, <2>1, <2>2, <2>3, <2>4 DEF ClaimCandidate
    <2>7. alloc'.block = list[n] /\ alloc.block = NoBlock /\ UNCHANGED <<all_blocks, in_use>>
      BY <1>0, <1>2, <2>1, <2>2, <2>3 DEF ClaimCandidate, AllocationShape, AllocationRecords,
                                          Candidates
    <2>8. ASSUME NEW b \in all_blocks, InFreeList(b), b # list[n]
          PROVE  \E s \in Sizes : \E j \in DOMAIN free_blocks'[s] : free_blocks'[s][j] = b
      <3>0. PICK s \in Sizes : \E k \in DOMAIN free_blocks[s] : free_blocks[s][k] = b
        BY <2>8 DEF InFreeList
      <3>1. PICK k \in DOMAIN free_blocks[s] : free_blocks[s][k] = b
        BY <3>0
      <3>2. CASE s = s0
        BY <2>2, <2>5, <2>6, <2>8, <3>1, <3>2
      <3>3. CASE s # s0
        BY <2>6, <3>1, <3>3
      <3>. QED BY <3>2, <3>3
    <2>. QED BY <1>0, <2>7, <2>8 DEF NoBlockLost, InFreeList
  <1>3. ASSUME CreateBlock PROVE NoBlockLost'
    <2>1. /\ alloc'.block = next_block_id /\ alloc.block = NoBlock
          /\ all_blocks' = all_blocks \cup {next_block_id}
          /\ UNCHANGED <<in_use, free_blocks>>
      BY <1>0, <1>3 DEF CreateBlock, AllocationShape, AllocationRecords
    <2>. QED BY <1>0, <2>1 DEF NoBlockLost, InFreeList
  <1>4. ASSUME RetireUid PROVE NoBlockLost'
    <2>1. /\ alloc'.block = alloc.block /\ UNCHANGED <<all_blocks, free_blocks>>
          /\ \A b \in BlockIds : in_use[b] => in_use'[b]
      BY <1>0, <1>4 DEF RetireUid, NewUid, AllocationRecords
    <2>. QED BY <1>0, <2>1 DEF NoBlockLost, InFreeList
  <1>5. ASSUME ReturnBlock PROVE NoBlockLost'
    <2>1. in_use[alloc.block] /\ UNCHANGED <<all_blocks, in_use, free_blocks>>
      BY <1>0, <1>5 DEF ReturnBlock, AllocationShape
    <2>. QED BY <1>0, <2>1 DEF NoBlockLost, InFreeList
  <1>6. ASSUME ScanCandidate \/ ClaimRefused \/ CreateBlockFails \/ ClearTimestamp PROVE NoBlockLost'
    <2>1. UNCHANGED <<all_blocks, in_use, free_blocks>>
      BY <1>6 DEF ScanCandidate, ClaimRefused, NextCandidate, CreateBlockFails, ClearTimestamp
    <2>2. alloc'.block = alloc.block \/ alloc.block = NoBlock
      BY <1>0, <1>6 DEF ScanCandidate, ClaimRefused, NextCandidate, CreateBlockFails, ClearTimestamp,
                        AllocationShape, AllocationRecords
    <2>. QED BY <1>1, <2>1, <2>2
  <1>7. ASSUME NEW s \in Sizes, BeginAllocate(s) PROVE NoBlockLost'
    <2>1. alloc = NoAllocation
      BY <1>0, <1>7 DEF BeginAllocate, MutexFree, AllocationShape
    <2>. QED BY <1>1, <1>7, <2>1 DEF BeginAllocate, NoAllocation
  <1>8. ASSUME NEW b0 \in BlockIds, FreeBlock(b0) PROVE NoBlockLost'
    <2>1. PICK s0 \in Sizes : s0 = payload_size[b0]
      BY <1>0, <1>8 DEF FreeBlock, Unused, Owned, CreatedBlocks
    <2>2. PICK list \in Seq(BlockIds) : list = free_blocks[s0]
      BY <1>0
    <2>3. /\ free_blocks'[s0] = Append(list, b0)
          /\ \A s \in Sizes : s # s0 => free_blocks'[s] = free_blocks[s]
          /\ \A b \in BlockIds : b # b0 => in_use'[b] = in_use[b]
          /\ UNCHANGED <<all_blocks, alloc>>
      BY <1>0, <1>8, <2>1, <2>2 DEF FreeBlock, Unused
    <2>4. /\ \A k \in DOMAIN list : k \in DOMAIN Append(list, b0) /\ Append(list, b0)[k] = list[k]
          /\ Len(list) + 1 \in DOMAIN Append(list, b0)
          /\ Append(list, b0)[Len(list) + 1] = b0
      OBVIOUS
    <2>5. ASSUME NEW b \in all_blocks, InFreeList(b) \/ b = b0
          PROVE  \E s \in Sizes : \E j \in DOMAIN free_blocks'[s] : free_blocks'[s][j] = b
      <3>1. CASE b = b0
        BY <2>3, <2>4, <3>1
      <3>2. CASE b # b0
        <4>0. PICK s \in Sizes : \E k \in DOMAIN free_blocks[s] : free_blocks[s][k] = b
          BY <2>5, <3>2 DEF InFreeList
        <4>1. PICK k \in DOMAIN free_blocks[s] : free_blocks[s][k] = b
          BY <4>0
        <4>2. k \in DOMAIN free_blocks'[s] /\ free_blocks'[s][k] = b
          BY <2>2, <2>3, <2>4, <4>1
        <4>. QED BY <4>2
      <3>. QED BY <3>1, <3>2
    <2>. QED BY <1>0, <2>3, <2>5 DEF NoBlockLost, InFreeList
  <1>9. ASSUME NEW b \in BlockIds,
               \/ WritePayload(b)
               \/ ReleaseWriteHandle(b)
               \/ GrantWriteHandle(b)
        PROVE  NoBlockLost'
    BY <1>1, <1>9 DEF WritePayload, ReleaseWriteHandle, GrantWriteHandle, GetWriteHandle, poolVars
  <1>10. ASSUME NEW i \in Importers, ImporterStep(i) PROVE NoBlockLost'
    BY <1>1, <1>10
    DEF ImporterStep, ImportBlock, ImportReturns, AcquireImport, AcquireRefused,
        RecheckUid, Verdict, ReleaseStale, DestroyImported, DropImport, ForwardCheck, ForwardStamp,
        poolVars
  <1>11. ASSUME NEW h \in ReadHandles, HandleStep(h) PROVE NoBlockLost'
    BY <1>1, <1>11
    DEF HandleStep, OpenImportedHandle, OpenOwnedHandle, OpenHandle, CloseHandle, poolVars
  <1>12. ASSUME Tick \/ UNCHANGED vars PROVE NoBlockLost'
    BY <1>1, <1>12 DEF Tick, vars, poolVars
  <1>13. ASSUME NEW p \in Publishers, PublishStep(p) PROVE NoBlockLost'
    BY <1>1, <1>13, PublisherFrame DEF poolVars
  <1>. QED BY <1>2, <1>3, <1>4, <1>5, <1>6, <1>7, <1>8, <1>9, <1>10, <1>11, <1>12, <1>13
           DEF Next, PoolNext, AllocateStep

-----------------------------------------------------------------------------
(* The invariant *)

LEMMA InitIndInv == Init => IndInv
  <1>. SUFFICES ASSUME Init PROVE IndInv
    OBVIOUS
  <1>. USE DEF Init, HeaderInit, PoolInit
  <1>0. NoBlock \notin BlockIds /\ MaxUid \in Nat /\ MaxWrites \in Nat /\ MaxBlocks \in Nat
    BY BoundsAssumption, MaxBlocksAssumption DEF NoBlock, BlockIds
  <1>1. TypeOK
    <2>1. HeaderTypeOK
      BY StoredValues DEF HeaderTypeOK
    <2>2. alloc \in AllocationRecords
      BY DEF NoAllocation, AllocationRecords
    <2>3. PoolTypeOK
      BY <1>0, <2>2, StoredValues DEF PoolTypeOK
    <2>4. BufferTypeOK
      BY StoredValues DEF BufferTypeOK, PublicationRecords, NotPublishing
    <2>5. imp \in [Importers -> ImportRecords]
      BY DEF NoImport, ImportRecords
    <2>6. handle \in [ReadHandles -> HandleRecords]
      BY StoredValues DEF NoHandle, HandleRecords
    <2>. QED BY <2>1, <2>3, <2>4, <2>5, <2>6 DEF TypeOK
  <1>2. PoolShape
    <2>1. AllocationShape
      BY DEF AllocationShape, NoAllocation, Holding
    <2>2. FreeListsAreSets /\ FreeBlocksAreIdle
      BY DEF FreeListsAreSets, FreeBlocksAreIdle
    <2>3. CreatedBlocks /\ PublishingOwned
      BY DEF CreatedBlocks, PublishingOwned, NotPublishing
    <2>. QED BY <2>1, <2>2, <2>3 DEF PoolShape
  <1>3. NoBlockLost
    BY DEF NoBlockLost
  <1>4. GenerationInv
    BY DEF GenerationInv, HeaderUid, SentDescriptors, ImportsAreSent, NoAllocation,
           NotPublishing, NoImport
  <1>5. \A b \in BlockIds : Leases(b) = {}
    BY <1>0 DEF Leases, CountedImport, NoImport, NoHandle
  <1>6. LeaseInv
    <2>1. ReaderAccounting
      <3>1. Cardinality({}) = 0
        BY FS_EmptySet
      <3>2. ~IsClaimed(0)
        BY ReuseClaimedAssumption DEF IsClaimed
      <3>3. \A b \in BlockIds : ~Claiming(b) /\ reader_state[b] = 0
        BY DEF Claiming, NoAllocation
      <3>. QED BY <1>5, <3>1, <3>2, <3>3 DEF ReaderAccounting
    <2>. QED BY <2>1 DEF LeaseInv, UnreadBlocks, PinnedByImport, PinnedByHandle, Imported,
                         NoImport, NoHandle
  <1>7. BytesInv
    BY DEF BytesInv, PublishedIsFinal, HandleExcludesWriter, NotPublishing, NoHandle
  <1>. QED BY <1>1, <1>2, <1>3, <1>4, <1>6, <1>7 DEF IndInv, PoolInv

\* One case for each action
LEMMA NextIndInv == IndInv /\ [Next]_vars => IndInv'
  <1>. SUFFICES ASSUME IndInv, [Next]_vars PROVE IndInv'
    OBVIOUS
  <1>1. PoolInv'
    BY NextTypes, NextShape DEF IndInv, PoolInv, GenerationInv, LeaseInv
  <1>2. NoBlockLost'
    BY NextNoBlockLost DEF IndInv
  <1>3. GenerationInv'
    BY NextGeneration DEF IndInv
  <1>4. LeaseInv'
    BY NextLeases DEF IndInv
  <1>5. WritesBeforePublish => BytesInv'
    BY NextBytes DEF IndInv
  <1>. QED BY <1>1, <1>2, <1>3, <1>4, <1>5 DEF IndInv

\* The strengthening that the theorems below rest on is an invariant.
THEOREM Inductive == Spec => []IndInv
  BY InitIndInv, NextIndInv, PTL DEF Spec

\* Every variable keeps the type of the field it stands for: no count leaves the
\* reader word, no index leaves its free list, no UID leaves its range.
THEOREM TypeCorrect == Spec => []TypeOK
  <1>1. IndInv => TypeOK
    BY DEF IndInv, PoolInv
  <1>. QED BY <1>1, Inductive, PTL

\* The reader word of every block is the sum of its leases and its claim, for
\* any number of subscribers, handles and blocks and any width of the word.
THEOREM AccountingCorrect == Spec => []ReaderAccounting
  <1>1. IndInv => ReaderAccounting
    BY DEF IndInv, LeaseInv
  <1>. QED BY <1>1, Inductive, PTL

\* An imported buffer never outlives the generation of its block.
THEOREM LeasesPin == Spec => []LeasePinsGeneration
  <1>1. IndInv => LeasePinsGeneration
    <2>. SUFFICES ASSUME IndInv, NEW i \in Importers, Imported(i)
                  PROVE  UidMatches(i) /\ current_uid[imp[i].desc.block] = imp[i].desc.uid
      BY DEF LeasePinsGeneration
    <2>1. PICK d \in sent : d = imp[i].desc
      BY DEF IndInv, GenerationInv, ImportsAreSent, Imported
    <2>2. d \in Descriptors
      BY DEF IndInv, PoolInv, TypeOK, BufferTypeOK
    <2>3. d.block \in BlockIds /\ d.uid # 0
      BY <2>2, BoundsAssumption DEF Descriptors
    <2>4. UidMatches(i)
      BY DEF IndInv, LeaseInv, PinnedByImport
    <2>5. ipc_uid[d.block] \in {0, current_uid[d.block]}
      BY <2>3 DEF IndInv, GenerationInv, HeaderUid
    <2>. QED BY <2>1, <2>3, <2>4, <2>5 DEF UidMatches
  <1>. QED BY <1>1, Inductive, PTL

\* A subscriber reads what was published, when applications publish only what
\* they wrote through a WriteHandle.
THEOREM PublishedBytesAreRead ==
  ASSUME WritesBeforePublish
  PROVE  Spec => []ReadersSeePublishedBytes
  <1>1. IndInv => ReadersSeePublishedBytes
    <2>. SUFFICES ASSUME IndInv, NEW i \in Importers, Imported(i)
                  PROVE  payload[imp[i].desc.block] = imp[i].desc.bytes
      BY DEF ReadersSeePublishedBytes
    <2>1. PICK d \in sent : d = imp[i].desc
      BY DEF IndInv, GenerationInv, ImportsAreSent, Imported
    <2>2. d \in Descriptors
      BY DEF IndInv, PoolInv, TypeOK, BufferTypeOK
    <2>3. d.block \in BlockIds /\ d.uid # 0
      BY <2>2, BoundsAssumption DEF Descriptors
    <2>4. ipc_uid[d.block] = d.uid
      BY <2>1 DEF IndInv, LeaseInv, PinnedByImport, UidMatches
    <2>5. d.uid = current_uid[d.block]
      BY <2>3, <2>4 DEF IndInv, GenerationInv, HeaderUid
    <2>. QED BY <2>1, <2>5 DEF IndInv, BytesInv, PublishedIsFinal
  <1>. QED BY <1>1, Inductive, PTL

\* The bytes behind a ReadHandle do not change, under the same discipline.
THEOREM HandlesAreStable ==
  ASSUME WritesBeforePublish
  PROVE  Spec => []ReadHandleBytesStable
  <1>1. IndInv => ReadHandleBytesStable
    BY DEF IndInv, LeaseInv, PinnedByHandle, BytesInv, HandleExcludesWriter,
           ReadHandleBytesStable
  <1>. QED BY <1>1, Inductive, PTL

\* The pool never loses a block, lists it twice, or lists one that is used.
THEOREM PoolCorrect == Spec => []PoolPartition
  <1>1. IndInv => PoolPartition
    BY DEF IndInv, PoolInv, PoolShape, FreeListsAreSets, FreeBlocksAreIdle, NoBlockLost,
           PoolPartition
  <1>. QED BY <1>1, Inductive, PTL

\* A descriptor that stopped being valid never becomes valid again: MarkUid is
\* the only step that stores a UID, and every descriptor that names the UID it
\* stores is valid already.
THEOREM StaleStaysStale == Spec => StaleDescriptorsStayStale
  <1>1. IndInv /\ [Next]_vars => StaleStepStaysStale
    <2>. SUFFICES ASSUME IndInv, [Next]_vars, NEW d \in sent,
                         ipc_uid[d.block] # d.uid, ipc_uid'[d.block] = d.uid
                  PROVE  FALSE
      BY DEF StaleStepStaysStale
    <2>1. d \in Descriptors /\ ipc_uid \in [BlockIds -> 0 .. MaxUid] /\ MaxUid \in Nat
      BY BoundsAssumption DEF IndInv, PoolInv, TypeOK, BufferTypeOK, HeaderTypeOK
    <2>2. d.block \in BlockIds /\ d.uid # 0
      BY <2>1 DEF Descriptors
    <2>3. current_uid[d.block] # d.uid
      BY DEF IndInv, GenerationInv, SentDescriptors
    <2>4. ipc_uid' # ipc_uid
      OBVIOUS
    <2>5. \/ CreateBlock \/ RetireUid
          \/ \E p \in Publishers : MarkUid(p)
      BY <2>4 DEF Next, PoolNext, AllocateStep, PublishStep, ImporterStep, HandleStep,
         ImportReturns, vars, headerVars, Tick, BeginAllocate, ScanCandidate, ClaimCandidate,
         ClaimRefused, NextCandidate, CreateBlockFails, ClearTimestamp, ReturnBlock, WritePayload,
         ReleaseWriteHandle, FreeBlock, Unused, FinalizeForPublish, PublishFallsBack, ReadPublishClock,
         StampAndSend, GrantWriteHandle, GetWriteHandle, ImportBlock, AcquireImport,
         AcquireRefused, RecheckUid, Verdict, ReleaseStale, DestroyImported, DropImport, ForwardCheck,
         ForwardStamp, OpenImportedHandle, OpenOwnedHandle, OpenHandle, CloseHandle
    <2>6. CASE CreateBlock
      BY <2>1, <2>2, <2>6 DEF CreateBlock
    <2>7. CASE RetireUid
      BY <2>1, <2>2, <2>7 DEF RetireUid, NewUid
    <2>8. CASE \E p \in Publishers : MarkUid(p)
      BY <2>1, <2>2, <2>3, <2>8 DEF MarkUid
    <2>. QED BY <2>5, <2>6, <2>7, <2>8
  <1>. QED BY <1>1, Inductive, PTL DEF Spec, StaleDescriptorsStayStale

-----------------------------------------------------------------------------
(***************************************************************************)
(* The grace period, when no subscriber publishes an imported buffer again *)
(* (Relays = {}): the run relay_grace shows what a relay does to it.       *)
(*                                                                         *)
(* try_claim_block compares the clock with a publication time and claims   *)
(* the block in a later access, and create_descriptor reads the clock and  *)
(* stores the time in a later access.  Both are sound because the          *)
(* publisher's own blocks are either owned, and may be stamped, or free,   *)
(* and may be claimed: the time of a candidate cannot change any more.     *)
(***************************************************************************)

NobodyForwards == \A i \in Importers : imp[i].pc # "forwarding"

\* A time that is stored, or about to be, was read from the clock before.
TimesHavePassed ==
  /\ \A b \in BlockIds : publish_timestamp_us[b] <= clock
  /\ \A p \in Publishers : publishing[p].now <= clock

NewBlocksAreUnstamped ==
  \A b \in BlockIds : b \notin all_blocks \/ (alloc.fresh /\ alloc.block = b) =>
    publish_timestamp_us[b] = 0

\* What the scan found out about its candidate is still true at the claim.
CandidateIsOld == alloc.pc = "claim" => GraceElapsed(publish_timestamp_us[Candidates[alloc.i]])

GraceInv == NobodyForwards /\ TimesHavePassed /\ NewBlocksAreUnstamped /\ CandidateIsOld

-----------------------------------------------------------------------------
\* Nothing was published.
LEMMA GraceInit == Init => GraceInv
  BY DEF Init, HeaderInit, PoolInit, GraceInv, NobodyForwards, TimesHavePassed,
         NewBlocksAreUnstamped, CandidateIsOld, NoImport, NotPublishing, NoAllocation

\* What the lemmas below read of the types.
LEMMA GraceTypes ==
  ASSUME IndInv
  PROVE  /\ clock \in Nat /\ GracePeriod \in Nat
         /\ publish_timestamp_us \in [BlockIds -> Nat]
         /\ publishing \in [Publishers -> PublicationRecords]
         /\ imp \in [Importers -> ImportRecords]
         /\ alloc \in AllocationRecords
  BY GraceAssumption
  DEF IndInv, PoolInv, TypeOK, HeaderTypeOK, PoolTypeOK, BufferTypeOK

\* While allocate() decides about a candidate, nobody owns the candidate.
LEMMA CandidateIsFree ==
  ASSUME IndInv, alloc.pc = "claim"
  PROVE  Candidates[alloc.i] \in BlockIds /\ ~in_use[Candidates[alloc.i]]
  <1>. DEFINE list == free_blocks[alloc.size]
  <1>1. alloc.size \in Sizes /\ alloc.i >= 1 /\ alloc.i <= Len(list) /\ alloc.i \in Nat
    BY DEF IndInv, PoolInv, PoolShape, AllocationShape, TypeOK, PoolTypeOK, AllocationRecords
  <1>2. list \in Seq(BlockIds)
    BY <1>1 DEF IndInv, PoolInv, TypeOK, PoolTypeOK
  <1>3. alloc.i \in DOMAIN list /\ list[alloc.i] \in BlockIds
    BY <1>1, <1>2
  <1>. QED BY <1>1, <1>3 DEF IndInv, PoolInv, PoolShape, FreeBlocksAreIdle, Candidates

\* No importer of a system without relays replaces a publication time.
LEMMA SubscribersStampNothing ==
  ASSUME Relays = {}, IndInv, NobodyForwards,
         \/ \E i \in Importers : ImporterStep(i)
         \/ \E h \in ReadHandles : HandleStep(h)
  PROVE  /\ UNCHANGED <<publish_timestamp_us, clock, poolVars, publishing>>
         /\ NobodyForwards'
  <1>0. imp \in [Importers -> ImportRecords]
    BY GraceTypes
  <1>1. ASSUME NEW h \in ReadHandles, HandleStep(h)
        PROVE  UNCHANGED <<publish_timestamp_us, clock, poolVars, publishing, imp>>
    BY <1>1 DEF HandleStep, OpenImportedHandle, OpenOwnedHandle, OpenHandle, CloseHandle, bufferVars
  <1>2. ASSUME NEW i \in Importers, ImporterStep(i)
        PROVE  /\ UNCHANGED <<publish_timestamp_us, clock, poolVars, publishing>>
               /\ NobodyForwards'
    <2>1. ~ForwardCheck(i) /\ ~ForwardStamp(i)
      BY DEF ForwardCheck, ForwardStamp, NobodyForwards
    <2>2. UNCHANGED <<publish_timestamp_us, clock, poolVars, publishing>>
      BY <1>2, <2>1 DEF ImporterStep, ImportReturns, ImportBlock, AcquireImport, AcquireRefused,
             RecheckUid, ReleaseStale, DestroyImported, DropImport, headerVars, bufferVars
    <2>3. ASSUME NEW d \in sent, ImportBlock(i, d) PROVE NobodyForwards'
      BY <1>0, <2>3 DEF ImportBlock, NoImport, NobodyForwards
    <2>4. ASSUME AcquireImport(i) \/ RecheckUid(i) PROVE NobodyForwards'
      BY <1>0, <2>4 DEF AcquireImport, RecheckUid, Advance, Verdict, ImportRecords, NobodyForwards
    <2>5. ASSUME AcquireRefused(i) \/ ReleaseStale(i) \/ DestroyImported(i) PROVE NobodyForwards'
      BY <1>0, <2>5 DEF AcquireRefused, ReleaseStale, DestroyImported, DropImport, NoImport,
                        NobodyForwards
    <2>. QED BY <1>2, <2>1, <2>2, <2>3, <2>4, <2>5 DEF ImporterStep, ImportReturns
  <1>. QED BY <1>1, <1>2 DEF NobodyForwards

\* Steps that store no publication time and read no clock.
LEMMA GraceFrame ==
  ASSUME GraceInv, UNCHANGED <<publish_timestamp_us, clock, all_blocks>>, NobodyForwards',
         \A p \in Publishers : publishing'[p].now \in {0, publishing[p].now}, clock \in Nat,
         \/ UNCHANGED <<alloc, free_blocks>>
         \/ /\ alloc'.pc # "claim"
            /\ alloc'.fresh => alloc.fresh /\ alloc'.block = alloc.block
  PROVE  GraceInv'
  BY DEF GraceInv, TimesHavePassed, NewBlocksAreUnstamped, CandidateIsOld, GraceElapsed, Candidates

\* allocate(), step by step.
LEMMA AllocateGrace ==
  ASSUME IndInv, GraceInv, UNCHANGED transportVars,
         AllocateStep \/ \E s \in Sizes : BeginAllocate(s)
  PROVE  GraceInv'
  <1>0. /\ clock \in Nat /\ GracePeriod \in Nat
        /\ publish_timestamp_us \in [BlockIds -> Nat]
        /\ publishing \in [Publishers -> PublicationRecords]
        /\ alloc \in AllocationRecords
    BY GraceTypes
  <1>1. NobodyForwards' /\ UNCHANGED <<clock, publishing>>
    BY DEF GraceInv, NobodyForwards, transportVars, AllocateStep, ScanCandidate, ClaimCandidate, ClaimRefused,
           CreateBlock, CreateBlockFails, RetireUid, ClearTimestamp, ReturnBlock, BeginAllocate,
           bufferVars
  <1>2. ASSUME NEW s \in Sizes, BeginAllocate(s) PROVE GraceInv'
    <2>1. alloc'.pc = "scan" /\ ~alloc'.fresh /\ UNCHANGED <<publish_timestamp_us, all_blocks>>
      BY <1>2 DEF BeginAllocate, NoAllocation, headerVars
    <2>. QED BY <1>1, <2>1, <1>0, GraceFrame
  <1>3. CASE ScanCandidate
    <2>1. /\ UNCHANGED <<publish_timestamp_us, all_blocks, free_blocks>>
          /\ alloc'.fresh = alloc.fresh /\ alloc'.block = alloc.block
      BY <1>0, <1>3 DEF ScanCandidate, AllocationRecords, headerVars
    <2>2. CASE GraceElapsed(publish_timestamp_us[Candidates[alloc.i]])
      <3>1. alloc'.i = alloc.i /\ alloc'.size = alloc.size
        BY <1>0, <1>3, <2>2 DEF ScanCandidate, AllocationRecords
      <3>2. CandidateIsOld'
        BY <1>1, <2>1, <2>2, <3>1 DEF CandidateIsOld, Candidates, GraceElapsed
      <3>. QED BY <1>1, <2>1, <3>2 DEF GraceInv, TimesHavePassed, NewBlocksAreUnstamped
    <2>3. CASE ~GraceElapsed(publish_timestamp_us[Candidates[alloc.i]])
      <3>1. alloc'.pc # "claim"
        BY <1>0, <1>3, <2>3 DEF ScanCandidate, AllocationRecords
      <3>. QED BY <1>1, <2>1, <3>1, <1>0, GraceFrame
    <2>. QED BY <2>2, <2>3
  <1>4. CASE ClaimCandidate
    <2>1. alloc'.pc # "claim" /\ alloc'.fresh = alloc.fresh /\ ~alloc.fresh
      BY <1>0, <1>4 DEF ClaimCandidate, AllocationRecords, IndInv, PoolInv, PoolShape, AllocationShape
    <2>2. UNCHANGED <<publish_timestamp_us, all_blocks>>
      BY <1>4 DEF ClaimCandidate
    <2>. QED BY <1>1, <2>1, <2>2, <1>0, GraceFrame
  <1>5. CASE ClaimRefused \/ CreateBlockFails \/ RetireUid \/ ReturnBlock
    <2>1. alloc'.pc # "claim" /\ (alloc'.fresh => alloc.fresh /\ alloc'.block = alloc.block)
      <3>1. CASE ClaimRefused \/ RetireUid
        BY <1>0, <3>1 DEF ClaimRefused, RetireUid, AllocationRecords
      <3>2. CASE CreateBlockFails \/ ReturnBlock
        BY <3>2 DEF CreateBlockFails, ReturnBlock, NoAllocation
      <3>. QED BY <1>5, <3>1, <3>2
    <2>2. UNCHANGED <<publish_timestamp_us, all_blocks>>
      BY <1>5 DEF ClaimRefused, CreateBlockFails, RetireUid, ReturnBlock, headerVars
    <2>. QED BY <1>1, <2>1, <2>2, <1>0, GraceFrame
  <1>6. CASE CreateBlock \/ ClearTimestamp
    <2>1. alloc'.pc # "claim"
      BY <1>0, <1>6 DEF CreateBlock, ClearTimestamp, AllocationRecords
    <2>2. /\ all_blocks \subseteq all_blocks'
          /\ \A b \in BlockIds : publish_timestamp_us'[b] \in {0, publish_timestamp_us[b]}
      BY <1>0, <1>6 DEF CreateBlock, ClearTimestamp
    <2>3. NewBlocksAreUnstamped'
      <3>1. CASE CreateBlock
        BY <1>0, <3>1 DEF CreateBlock, NewBlocksAreUnstamped, GraceInv, AllocationRecords
      <3>2. CASE ClearTimestamp
        BY <1>0, <3>2 DEF ClearTimestamp, NewBlocksAreUnstamped, GraceInv, AllocationRecords
      <3>. QED BY <1>6, <3>1, <3>2
    <2>4. TimesHavePassed'
      BY <1>0, <1>1, <2>2 DEF GraceInv, TimesHavePassed
    <2>. QED BY <1>1, <2>1, <2>3, <2>4 DEF GraceInv, CandidateIsOld
  <1>. QED BY <1>2, <1>3, <1>4, <1>5, <1>6 DEF AllocateStep

\* The owner of a block, and those who publish it.
LEMMA OwnerGrace ==
  ASSUME IndInv, GraceInv, UNCHANGED transportVars, NEW b0 \in BlockIds,
         WritePayload(b0) \/ ReleaseWriteHandle(b0) \/ FreeBlock(b0) \/ GrantWriteHandle(b0)
  PROVE  GraceInv'
  <1>0. clock \in Nat /\ publishing \in [Publishers -> PublicationRecords]
    BY GraceTypes
  <1>1. NobodyForwards'
    BY DEF GraceInv, NobodyForwards, transportVars
  <1>2. CASE WritePayload(b0) \/ ReleaseWriteHandle(b0) \/ GrantWriteHandle(b0)
    <2>1. UNCHANGED <<publish_timestamp_us, clock, all_blocks, publishing, alloc, free_blocks>>
      BY <1>2 DEF WritePayload, ReleaseWriteHandle, GrantWriteHandle, GetWriteHandle, headerVars, poolVars
    <2>. QED BY <1>0, <1>1, <2>1, GraceFrame
  <1>3. CASE FreeBlock(b0)
    <2>1. UNCHANGED <<publish_timestamp_us, clock, all_blocks, publishing, alloc>> /\ alloc.pc # "claim"
      BY <1>3 DEF FreeBlock, MutexFree, headerVars, bufferVars
    <2>. QED BY <1>0, <1>1, <2>1, GraceFrame
  <1>. QED BY <1>2, <1>3

\* A publisher stores a time that has passed, in a block that is no candidate.
LEMMA PublisherGrace ==
  ASSUME IndInv, GraceInv, UNCHANGED transportVars, NEW p0 \in Publishers, PublishStep(p0)
  PROVE  GraceInv'
  <1>0. /\ clock \in Nat /\ GracePeriod \in Nat
        /\ publish_timestamp_us \in [BlockIds -> Nat]
        /\ publishing \in [Publishers -> PublicationRecords]
        /\ publishing[p0] \in PublicationRecords /\ publishing[p0].now \in Nat
        /\ alloc \in AllocationRecords
    BY GraceTypes DEF PublicationRecords
  <1>1. NobodyForwards'
    BY DEF GraceInv, NobodyForwards, transportVars
  <1>2. /\ UNCHANGED <<clock, all_blocks, alloc, free_blocks>>
        /\ \A p \in Publishers : p # p0 => publishing'[p] = publishing[p]
    BY PublisherFrame DEF IndInv, poolVars
  <1>3. CASE (\E b \in BlockIds : FinalizeForPublish(p0, b)) \/ MarkUid(p0) \/ PublishFallsBack(p0)
    <2>1. UNCHANGED publish_timestamp_us
      BY <1>3 DEF FinalizeForPublish, MarkUid, PublishFallsBack, headerVars
    <2>2. publishing'[p0].now \in {0, publishing[p0].now}
      <3>1. CASE (\E b \in BlockIds : FinalizeForPublish(p0, b)) \/ PublishFallsBack(p0)
        BY <1>0, <3>1 DEF FinalizeForPublish, PublishFallsBack, NotPublishing
      <3>2. CASE MarkUid(p0)
        BY <1>0, <3>2 DEF MarkUid, AdvancePublish, PublicationRecords
      <3>. QED BY <1>3, <3>1, <3>2
    <2>. QED BY <1>0, <1>1, <1>2, <2>1, <2>2, GraceFrame
  <1>4. CASE ReadPublishClock(p0)
    <2>1. UNCHANGED publish_timestamp_us /\ publishing'[p0].now = clock
      BY <1>0, <1>4 DEF ReadPublishClock, PublicationRecords, headerVars
    <2>2. TimesHavePassed'
      BY <1>0, <1>2, <2>1 DEF GraceInv, TimesHavePassed
    <2>. QED BY <1>1, <1>2, <2>1, <2>2
         DEF GraceInv, NewBlocksAreUnstamped, CandidateIsOld, Candidates, GraceElapsed
  <1>5. CASE StampAndSend(p0)
    <2>. DEFINE b0 == BufferOf(p0)
                t0 == publishing[p0].now
    <2>1. /\ publishing' = [publishing EXCEPT ![p0] = NotPublishing]
          /\ publish_timestamp_us' = [publish_timestamp_us EXCEPT ![b0] = t0]
          /\ publishing[p0].step = "timed"
      BY <1>5 DEF StampAndSend
    <2>2. b0 \in BlockIds /\ in_use[b0] /\ alloc.block # b0 /\ b0 \in all_blocks
      BY <2>1 DEF IndInv, PoolInv, PoolShape, PublishingOwned, Owned, CreatedBlocks
    <2>3. t0 \in Nat /\ t0 <= clock
      BY <1>0 DEF GraceInv, TimesHavePassed
    <2>. HIDE DEF b0, t0
    <2>4. TimesHavePassed'
      BY <1>0, <1>2, <2>1, <2>2, <2>3 DEF GraceInv, TimesHavePassed, NotPublishing
    <2>5. NewBlocksAreUnstamped'
      BY <1>0, <1>2, <2>1, <2>2 DEF GraceInv, NewBlocksAreUnstamped
    <2>6. CandidateIsOld'
      <3>. SUFFICES ASSUME alloc.pc = "claim" PROVE GraceElapsed(publish_timestamp_us[Candidates[alloc.i]])'
        BY <1>2 DEF CandidateIsOld
      <3>1. Candidates[alloc.i] \in BlockIds \ {b0}
        BY <2>2, CandidateIsFree
      <3>2. Candidates' = Candidates
        BY <1>2 DEF Candidates
      <3>. HIDE DEF Candidates
      <3>. QED BY <1>0, <1>2, <2>1, <2>2, <3>1, <3>2 DEF GraceInv, CandidateIsOld, GraceElapsed
    <2>. QED BY <1>1, <2>4, <2>5, <2>6 DEF GraceInv
  <1>. QED BY <1>3, <1>4, <1>5 DEF PublishStep

\* Claims and publications move the deadline; relays, which would copy an old
\* one, are absent.
LEMMA GraceStep ==
  ASSUME Relays = {}
  PROVE  IndInv /\ GraceInv /\ [Next]_vars => GraceInv'
  <1>. SUFFICES ASSUME IndInv, GraceInv, [Next]_vars PROVE GraceInv'
    OBVIOUS
  <1>0. /\ clock \in Nat /\ GracePeriod \in Nat
        /\ publish_timestamp_us \in [BlockIds -> Nat]
        /\ publishing \in [Publishers -> PublicationRecords]
    BY GraceTypes
  <1>1. CASE Tick /\ UNCHANGED transportVars
    <2>1. /\ UNCHANGED <<publish_timestamp_us, publishing, all_blocks, alloc, free_blocks, imp>>
          /\ clock' = clock + 1
      BY <1>1 DEF Tick, headerVars, poolVars, bufferVars, transportVars
    <2>2. TimesHavePassed'
      <3>1. \A p \in Publishers : publishing[p].now \in Nat
        BY <1>0 DEF PublicationRecords
      <3>. QED BY <1>0, <2>1, <3>1 DEF GraceInv, TimesHavePassed
    <2>3. CandidateIsOld'
      <3>. SUFFICES ASSUME alloc.pc = "claim" PROVE GraceElapsed(publish_timestamp_us[Candidates[alloc.i]])'
        BY <2>1 DEF CandidateIsOld
      <3>1. Candidates[alloc.i] \in BlockIds
        BY CandidateIsFree
      <3>2. Candidates' = Candidates
        BY <2>1 DEF Candidates
      <3>3. publish_timestamp_us[Candidates[alloc.i]] \in Nat
        BY <1>0, <3>1
      <3>4. GraceElapsed(publish_timestamp_us[Candidates[alloc.i]])
        BY DEF GraceInv, CandidateIsOld
      <3>. QED BY <1>0, <2>1, <3>2, <3>3, <3>4 DEF GraceElapsed
    <2>. QED BY <2>1, <2>2, <2>3 DEF GraceInv, NobodyForwards, NewBlocksAreUnstamped
  <1>2. CASE AllocateStep /\ UNCHANGED transportVars
    BY <1>2, AllocateGrace
  <1>3. ASSUME NEW s \in Sizes, BeginAllocate(s), UNCHANGED transportVars PROVE GraceInv'
    BY <1>3, AllocateGrace
  <1>4. ASSUME NEW b \in BlockIds, UNCHANGED transportVars,
               WritePayload(b) \/ ReleaseWriteHandle(b) \/ FreeBlock(b) \/ GrantWriteHandle(b)
        PROVE  GraceInv'
    BY <1>4, OwnerGrace
  <1>5. CASE (\E i \in Importers : ImporterStep(i)) \/ (\E h \in ReadHandles : HandleStep(h))
    <2>1. UNCHANGED <<publish_timestamp_us, clock, poolVars, publishing>> /\ NobodyForwards'
      BY <1>5, SubscribersStampNothing DEF GraceInv
    <2>. QED BY <1>0, <2>1, GraceFrame DEF poolVars
  <1>6. CASE UNCHANGED vars
    <2>1. UNCHANGED <<publish_timestamp_us, clock, poolVars, publishing>> /\ NobodyForwards'
      BY <1>6 DEF vars, headerVars, bufferVars, transportVars, GraceInv, NobodyForwards
    <2>. QED BY <1>0, <2>1, GraceFrame DEF poolVars
  <1>7. ASSUME NEW p \in Publishers, PublishStep(p), UNCHANGED transportVars PROVE GraceInv'
    BY <1>7, PublisherGrace
  <1>. QED BY <1>1, <1>2, <1>3, <1>4, <1>5, <1>6, <1>7 DEF Next, PoolNext, GrantWriteHandle

\* The invariant of the theorem below
LEMMA GraceInvariant ==
  ASSUME Relays = {}
  PROVE  Spec => []GraceInv
  BY GraceInit, GraceStep, Inductive, PTL DEF Spec

-----------------------------------------------------------------------------
\* Only the compare-exchange of try_claim_block turns an unread word into a claim.
LEMMA OnlyClaimClaims ==
  ASSUME IndInv, Next, NEW b \in BlockIds,
         reader_state[b] = 0, reader_state'[b] = ReuseClaimed
  PROVE  ClaimCandidate /\ b = Candidates[alloc.i]
  <1>0. /\ reader_state \in [BlockIds -> ReaderWords]
        /\ ReuseClaimed \in Nat /\ ReuseClaimed > 1
    BY ReuseClaimedAssumption DEF IndInv, PoolInv, TypeOK, HeaderTypeOK
  <1>1. ASSUME NEW c, AcquireReader(c) \/ ReleaseReader(c) PROVE FALSE
    BY <1>0, <1>1 DEF AcquireReader, ReleaseReader
  <1>2. ~UNCHANGED reader_state
    BY <1>0
  <1>3. CASE AllocateStep
    <2>1. ~CreateBlock /\ ~ReturnBlock
      BY <1>0 DEF CreateBlock, ReturnBlock, ReleaseReuseClaim
    <2>2. ~ScanCandidate /\ ~ClaimRefused /\ ~CreateBlockFails /\ ~RetireUid /\ ~ClearTimestamp
      BY <1>2 DEF ScanCandidate, ClaimRefused, CreateBlockFails, RetireUid, ClearTimestamp, headerVars
    <2>3. ClaimCandidate
      BY <1>3, <2>1, <2>2 DEF AllocateStep
    <2>. QED BY <1>0, <2>3 DEF ClaimCandidate, ClaimReuse
  <1>4. CASE Tick \/ (\E s \in Sizes : BeginAllocate(s))
    BY <1>2, <1>4 DEF Tick, BeginAllocate, headerVars
  <1>5. ASSUME NEW c \in BlockIds,
               WritePayload(c) \/ ReleaseWriteHandle(c) \/ FreeBlock(c) \/ GrantWriteHandle(c)
        PROVE  FALSE
    BY <1>2, <1>5 DEF WritePayload, ReleaseWriteHandle, FreeBlock, GrantWriteHandle, GetWriteHandle,
           headerVars
  <1>6. ASSUME NEW i \in Importers, ImporterStep(i) PROVE FALSE
    BY <1>1, <1>2, <1>6 DEF ImporterStep, ImportReturns, ImportBlock, AcquireImport, AcquireRefused,
           RecheckUid, ReleaseStale, DestroyImported, DropImport, ForwardCheck, ForwardStamp, headerVars
  <1>7. ASSUME NEW h \in ReadHandles, HandleStep(h) PROVE FALSE
    BY <1>1, <1>7 DEF HandleStep, OpenImportedHandle, OpenOwnedHandle, OpenHandle, CloseHandle
  <1>8. ASSUME NEW p \in Publishers, PublishStep(p) PROVE FALSE
    BY <1>2, <1>8, PublisherFrame DEF IndInv
  <1>. QED BY <1>3, <1>4, <1>5, <1>6, <1>7, <1>8 DEF Next, PoolNext

\* try_claim_block claims a block only after its grace period: the publication
\* time that the scan compared with the clock is still the block's time when
\* the compare-exchange succeeds.
THEOREM ClaimsRespectGrace ==
  ASSUME Relays = {}
  PROVE  Spec => ClaimRespectsGrace
  <1>1. IndInv /\ GraceInv /\ [Next]_vars => ClaimStepRespectsGrace
    <2>. SUFFICES ASSUME IndInv, GraceInv, [Next]_vars, NEW b \in BlockIds,
                         reader_state[b] = 0, reader_state'[b] = ReuseClaimed
                  PROVE  \/ publish_timestamp_us[b] = 0
                         \/ clock - publish_timestamp_us[b] >= GracePeriod
      BY DEF ClaimStepRespectsGrace
    <2>1. reader_state' # reader_state
      BY ReuseClaimedAssumption
    <2>2. ClaimCandidate /\ b = Candidates[alloc.i]
      BY <2>1, OnlyClaimClaims DEF vars, headerVars
    <2>. QED BY <2>2 DEF ClaimCandidate, GraceInv, CandidateIsOld, GraceElapsed
  <1>2. Spec => []GraceInv
    BY GraceInvariant
  <1>. QED BY <1>1, <1>2, Inductive, PTL DEF Spec, ClaimRespectsGrace
=============================================================================
