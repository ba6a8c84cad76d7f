----------------------- MODULE TransportRefinementProofs -----------------------
(***************************************************************************)
(* SharedBufferTransport implements PublicationLease for every value of    *)
(* the constants, when applications publish only what they wrote: the      *)
(* initial states correspond, and every step of the code is a step of the  *)
(* abstract specification or leaves its variables alone.                   *)
(*                                                                         *)
(* A publication is new to the abstract specification, and none is         *)
(* forgotten when its block is used again.  That needs more than IndInv:   *)
(* UIDs name one use of one block, and one that was in a header was sent.  *)
(***************************************************************************)
EXTENDS TransportProofs

UidsDiffer ==
  /\ \A b, c \in BlockIds : current_uid[b] = current_uid[c] => b = c \/ current_uid[b] = 0
  /\ \A d \in sent : \A b \in BlockIds : d.uid = current_uid[b] => d.block = b

\* The calls that have stored the UID of b and not sent its descriptor yet
Marking(b) ==
  {p \in Publishers : publishing[p].step \in {"marked", "timed"} /\ BufferOf(p) = b}

HeaderUidsAreSent ==
  \A b \in BlockIds : ipc_uid[b] # 0 => Marking(b) # {} \/ \E d \in sent : d.uid = ipc_uid[b]

UidInv == UidsDiffer /\ HeaderUidsAreSent

\* The variables of the abstract specification that the transport defines.
PublishedUids == ({d.uid : d \in sent} \cup {ipc_uid[b] : b \in BlockIds}) \ {0}

LeaseOf ==
  [r \in Importers \cup ReadHandles |->
     IF r \in Importers THEN ImportedLease(r) ELSE HandleLease(r)]

-----------------------------------------------------------------------------
(* Which steps touch what the mapping reads *)

IdleStep ==
  \/ Tick \/ (\E s \in Sizes : BeginAllocate(s))
  \/ ScanCandidate \/ ClaimCandidate \/ ClaimRefused \/ CreateBlockFails
  \/ ClearTimestamp \/ ReturnBlock
  \/ \E b \in BlockIds : ReleaseWriteHandle(b) \/ FreeBlock(b) \/ GrantWriteHandle(b)

PrepareStep(p) ==
  (\E b \in BlockIds : FinalizeForPublish(p, b)) \/ PublishFallsBack(p) \/ ReadPublishClock(p)

\* Steps of the pool that move no UID, byte or descriptor
LEMMA IdleStepsChangeNothing ==
  ASSUME IdleStep
  PROVE  UNCHANGED <<ipc_uid, current_uid, sent, publishing, payload>>
  BY DEF IdleStep, Tick, BeginAllocate, ScanCandidate, ClaimCandidate, ClaimRefused,
         CreateBlockFails, ClearTimestamp, ReturnBlock, ReleaseWriteHandle, FreeBlock,
         GrantWriteHandle, GetWriteHandle, headerVars, poolVars, bufferVars

\* Subscribers draw no UID and write no descriptor.
LEMMA SubscribersPublishNothing ==
  ASSUME \/ \E i \in Importers : ImporterStep(i)
         \/ \E h \in ReadHandles : HandleStep(h)
  PROVE  UNCHANGED <<ipc_uid, current_uid, sent, publishing, payload>>
  BY DEF ImporterStep, ImportReturns, ImportBlock, AcquireImport, AcquireRefused, RecheckUid,
         ReleaseStale, DestroyImported, DropImport, ForwardCheck, ForwardStamp, HandleStep,
         OpenImportedHandle, OpenOwnedHandle, OpenHandle, CloseHandle,
         headerVars, poolVars, bufferVars

\* The actions of Next, grouped by what the mapping sees of them.
LEMMA StepCases ==
  ASSUME Next
  PROVE  \/ IdleStep /\ UNCHANGED transportVars
         \/ (CreateBlock \/ RetireUid) /\ UNCHANGED transportVars
         \/ (\E b \in BlockIds : WritePayload(b)) /\ UNCHANGED transportVars
         \/ \E p \in Publishers :
              /\ PrepareStep(p) \/ MarkUid(p) \/ StampAndSend(p)
              /\ UNCHANGED transportVars
         \/ \E i \in Importers : ImporterStep(i)
         \/ \E h \in ReadHandles : HandleStep(h)
  <1>1. CASE PoolNext /\ UNCHANGED transportVars
    BY <1>1 DEF PoolNext, AllocateStep, PublishStep, IdleStep, PrepareStep
  <1>2. ASSUME NEW b \in BlockIds, GrantWriteHandle(b)
        PROVE  IdleStep /\ UNCHANGED transportVars
    BY <1>2 DEF IdleStep, GrantWriteHandle
  <1>. QED BY <1>1, <1>2 DEF Next

-----------------------------------------------------------------------------
(* UIDs name one use of one block *)

LEMMA UidFrame ==
  ASSUME UidInv, UNCHANGED <<ipc_uid, current_uid, sent>>,
         \A p \in Publishers : publishing[p].step \in {"marked", "timed"} =>
           publishing'[p].step \in {"marked", "timed"} /\ publishing'[p].block = publishing[p].block
  PROVE  UidInv'
  BY DEF UidInv, UidsDiffer, HeaderUidsAreSent, Marking, BufferOf

\* What the lemmas below read of the types.
LEMMA UidTypes ==
  ASSUME IndInv
  PROVE  /\ uids_drawn \in Nat /\ MaxUid \in Nat
         /\ current_uid \in [BlockIds -> 0 .. MaxUid] /\ ipc_uid \in [BlockIds -> 0 .. MaxUid]
         /\ publishing \in [Publishers -> PublicationRecords]
         /\ sent \subseteq Descriptors
         /\ alloc \in AllocationRecords
  BY BoundsAssumption
  DEF IndInv, PoolInv, TypeOK, HeaderTypeOK, PoolTypeOK, BufferTypeOK

\* A publication draws a UID that no block and no descriptor has.
LEMMA UidStep == IndInv /\ UidInv /\ [Next]_vars => UidInv'
  <1>. SUFFICES ASSUME IndInv, UidInv, [Next]_vars PROVE UidInv'
    OBVIOUS
  <1>0. /\ uids_drawn \in Nat /\ MaxUid \in Nat
        /\ current_uid \in [BlockIds -> 0 .. MaxUid] /\ ipc_uid \in [BlockIds -> 0 .. MaxUid]
        /\ publishing \in [Publishers -> PublicationRecords]
        /\ sent \subseteq Descriptors
        /\ alloc \in AllocationRecords
    BY UidTypes
  <1>1. CASE IdleStep \/ UNCHANGED vars
    <2>1. UNCHANGED <<ipc_uid, current_uid, sent, publishing>>
      BY <1>1, IdleStepsChangeNothing DEF vars, headerVars, poolVars, bufferVars
    <2>. QED BY <2>1, UidFrame
  <1>2. CASE (\E i \in Importers : ImporterStep(i)) \/ (\E h \in ReadHandles : HandleStep(h))
    <2>1. UNCHANGED <<ipc_uid, current_uid, sent, publishing>>
      BY <1>2, SubscribersPublishNothing
    <2>. QED BY <2>1, UidFrame
  <1>3. ASSUME NEW b \in BlockIds, WritePayload(b) PROVE UidInv'
    <2>1. UNCHANGED <<ipc_uid, current_uid, sent, publishing>>
      BY <1>3 DEF WritePayload, headerVars, poolVars
    <2>. QED BY <2>1, UidFrame
  <1>4. ASSUME NEW p0 \in Publishers, PrepareStep(p0) PROVE UidInv'
    <2>1. UNCHANGED <<ipc_uid, current_uid, sent>>
      BY <1>4 DEF PrepareStep, FinalizeForPublish, PublishFallsBack, ReadPublishClock,
                  headerVars, poolVars
    <2>2. ASSUME NEW p \in Publishers, publishing[p].step \in {"marked", "timed"}
          PROVE  /\ publishing'[p].step \in {"marked", "timed"}
                 /\ publishing'[p].block = publishing[p].block
      <3>1. CASE ReadPublishClock(p0)
        BY <1>0, <2>2, <3>1 DEF ReadPublishClock, PublicationRecords
      <3>2. CASE (\E b \in BlockIds : FinalizeForPublish(p0, b)) \/ PublishFallsBack(p0)
        BY <1>0, <2>2, <3>2 DEF FinalizeForPublish, PublishFallsBack, NotPublishing
      <3>. QED BY <1>4, <3>1, <3>2 DEF PrepareStep
    <2>. QED BY <2>1, <2>2, UidFrame
  <1>5. CASE CreateBlock
    <2>1. /\ UNCHANGED <<current_uid, sent, publishing>>
          /\ \A b \in BlockIds : ipc_uid'[b] \in {0, ipc_uid[b]}
      BY <1>0, <1>5 DEF CreateBlock, bufferVars
    <2>. QED BY <2>1 DEF UidInv, UidsDiffer, HeaderUidsAreSent, Marking, BufferOf
  <1>6. CASE RetireUid
    <2>. DEFINE b0 == alloc.block
                u0 == uids_drawn + 1
    <2>1. /\ UNCHANGED <<sent, publishing>>
          /\ \A b \in BlockIds : ipc_uid'[b] \in {0, ipc_uid[b]}
          /\ \A b \in BlockIds : current_uid'[b] = IF b = b0 THEN u0 ELSE current_uid[b]
      BY <1>0, <1>6 DEF RetireUid, NewUid, bufferVars
    <2>2. \A b \in BlockIds : current_uid[b] # u0
      BY <1>0 DEF IndInv, PoolInv, PoolShape, CreatedBlocks
    <2>3. \A d \in sent : d.uid # u0
      BY <1>0 DEF IndInv, GenerationInv, SentDescriptors, Descriptors
    <2>. HIDE DEF b0, u0
    <2>4. UidsDiffer'
      BY <2>1, <2>2, <2>3 DEF UidInv, UidsDiffer
    <2>5. HeaderUidsAreSent'
      BY <2>1 DEF UidInv, HeaderUidsAreSent, Marking, BufferOf
    <2>. QED BY <2>4, <2>5 DEF UidInv
  <1>7. ASSUME NEW p0 \in Publishers, MarkUid(p0) PROVE UidInv'
    <2>0. PICK b0 : b0 = BufferOf(p0)
      OBVIOUS
    <2>1. /\ UNCHANGED <<current_uid, sent>>
          /\ publishing'[p0].step = "marked" /\ publishing'[p0].block = b0
          /\ \A p \in Publishers : p # p0 => publishing'[p] = publishing[p]
          /\ \A b \in BlockIds : b # b0 => ipc_uid'[b] = ipc_uid[b]
      BY <1>0, <1>7, <2>0 DEF MarkUid, AdvancePublish, PublicationRecords, BufferOf, poolVars
    <2>2. p0 \in Marking(b0)'
      BY <2>1 DEF Marking, BufferOf
    <2>3. \A b \in BlockIds : b # b0 => Marking(b) \subseteq Marking(b)'
      <3>1. ASSUME NEW b \in BlockIds, b # b0, NEW p \in Marking(b) PROVE p \in Marking(b)'
        <4>1. p # p0
          BY <2>0, <3>1 DEF Marking
        <4>. QED BY <2>1, <4>1 DEF Marking, BufferOf
      <3>. QED BY <3>1
    <2>. QED BY <2>1, <2>2, <2>3 DEF UidInv, UidsDiffer, HeaderUidsAreSent
  <1>8. ASSUME NEW p0 \in Publishers, StampAndSend(p0) PROVE UidInv'
    <2>0. PICK b0 : b0 = BufferOf(p0)
      OBVIOUS
    <2>1. /\ UNCHANGED <<current_uid, ipc_uid>>
          /\ sent' = sent \cup {DescriptorOf(b0)}
          /\ publishing[p0].step = "timed"
          /\ \A p \in Publishers : p # p0 => publishing'[p] = publishing[p]
      BY <1>0, <1>8, <2>0 DEF StampAndSend, poolVars
    <2>2. b0 \in BlockIds /\ ipc_uid[b0] = current_uid[b0] /\ current_uid[b0] # 0
      BY <1>0, <2>0, <2>1
      DEF IndInv, GenerationInv, HeaderUid, PoolInv, PoolShape, PublishingOwned, Owned, CreatedBlocks
    <2>3. DescriptorOf(b0).uid = current_uid[b0] /\ DescriptorOf(b0).block = b0
      BY DEF DescriptorOf
    <2>4. \A b \in BlockIds : b # b0 => Marking(b) \subseteq Marking(b)'
      <3>1. ASSUME NEW b \in BlockIds, b # b0, NEW p \in Marking(b) PROVE p \in Marking(b)'
        <4>1. p # p0
          BY <2>0, <3>1 DEF Marking
        <4>. QED BY <2>1, <4>1 DEF Marking, BufferOf
      <3>. QED BY <3>1
    <2>5. UidsDiffer'
      BY <2>1, <2>2, <2>3 DEF UidInv, UidsDiffer
    <2>6. HeaderUidsAreSent'
      BY <2>1, <2>2, <2>3, <2>4 DEF UidInv, HeaderUidsAreSent
    <2>. QED BY <2>5, <2>6 DEF UidInv
  <1>. QED BY <1>1, <1>2, <1>3, <1>4, <1>5, <1>6, <1>7, <1>8, StepCases

\* No UID was drawn.
LEMMA UidInit == Init => UidInv
  BY DEF Init, HeaderInit, PoolInit, UidInv, UidsDiffer, HeaderUidsAreSent

\* UidInv holds in every state that the transport reaches.
LEMMA UidInvariant == Spec => []UidInv
  <1>. QED BY UidInit, UidStep, Inductive, PTL DEF Spec

-----------------------------------------------------------------------------
(* From facts about the transport to steps of the abstract specification *)

\* The lease of one importer changes with its record.
LEMMA ImporterLeaseOf ==
  ASSUME NEW i \in Importers, UNCHANGED handle,
         \A j \in Importers : j # i => imp'[j] = imp[j]
  PROVE  LeaseOf' = [LeaseOf EXCEPT ![i] = ImportedLease(i)']
  BY DEF LeaseOf, ImportedLease, Imported, HandleLease

\* The lease of one handle changes with its record.
LEMMA HandleLeaseOf ==
  ASSUME NEW h \in ReadHandles, UNCHANGED imp,
         \A g \in ReadHandles : g # h => handle'[g] = handle[g]
  PROVE  LeaseOf' = [LeaseOf EXCEPT ![h] = HandleLease(h)']
  <1>1. h \notin Importers
    BY HandlesAssumption
  <1>. QED BY <1>1 DEF LeaseOf, ImportedLease, Imported, HandleLease

\* A step that changes nothing the mapping reads is a stutter.
LEMMA ToStutter ==
  ASSUME UNCHANGED <<ipc_uid, payload>>, PublishedUids' = PublishedUids, LeaseOf' = LeaseOf
  PROVE  UNCHANGED Promise!leaseVars
  BY DEF Promise!leaseVars, PublishedUids, LeaseOf

\* Writing into a block is the abstract write.
LEMMA ToWrite ==
  ASSUME NEW b \in BlockIds, NEW v \in 0 .. MaxWrites, ipc_uid[b] = 0,
         payload' = [payload EXCEPT ![b] = v],
         UNCHANGED ipc_uid, PublishedUids' = PublishedUids, LeaseOf' = LeaseOf
  PROVE  Promise!Next
  BY DEF Promise!Next, Promise!Write, PublishedUids, LeaseOf

\* The step that draws the UID publishes.
LEMMA ToPublish ==
  ASSUME NEW b \in BlockIds, NEW u \in (1 .. MaxUid) \ PublishedUids, ipc_uid[b] = 0,
         ipc_uid' = [ipc_uid EXCEPT ![b] = u],
         UNCHANGED payload, PublishedUids' = PublishedUids \cup {u}, LeaseOf' = LeaseOf
  PROVE  Promise!Next
  BY DEF Promise!Next, Promise!Publish, PublishedUids, LeaseOf

\* Taking a block for new use retires its publication.
LEMMA ToRetire ==
  ASSUME NEW b \in BlockIds, \A r \in Importers \cup ReadHandles : \A l \in LeaseOf[r] : l.block # b,
         ipc_uid' = [ipc_uid EXCEPT ![b] = 0],
         UNCHANGED payload, PublishedUids' = PublishedUids, LeaseOf' = LeaseOf
  PROVE  Promise!Next
  BY DEF Promise!Next, Promise!Retire, Promise!Holders, PublishedUids, LeaseOf

\* An attached reader is granted the publication.
LEMMA ToGrant ==
  ASSUME NEW r \in Importers \cup ReadHandles, NEW b \in BlockIds,
         LeaseOf[r] = {}, ipc_uid[b] # 0,
         LeaseOf' = [LeaseOf EXCEPT ![r] =
                       {[block |-> b, generation |-> ipc_uid[b], bytes |-> payload[b]]}],
         UNCHANGED <<ipc_uid, payload>>, PublishedUids' = PublishedUids
  PROVE  Promise!Next
  BY DEF Promise!Next, Promise!Grant, PublishedUids, LeaseOf

\* A released lease is returned.
LEMMA ToReturn ==
  ASSUME NEW r \in Importers \cup ReadHandles, LeaseOf' = [LeaseOf EXCEPT ![r] = {}],
         UNCHANGED <<ipc_uid, payload>>, PublishedUids' = PublishedUids
  PROVE  Promise!Next
  BY DEF Promise!Next, Promise!Return, PublishedUids, LeaseOf

-----------------------------------------------------------------------------
(* Every step of the transport is a step of the abstract specification *)

\* The steps of allocate() and of the application on its own buffer: only
\* reuse, writing and publishing are seen by the abstract specification.
LEMMA OwnerImplements ==
  ASSUME WritesBeforePublish, IndInv, UidInv, UNCHANGED transportVars,
         \/ IdleStep \/ CreateBlock \/ RetireUid
         \/ \E b \in BlockIds : WritePayload(b)
         \/ \E p \in Publishers : PrepareStep(p) \/ MarkUid(p) \/ StampAndSend(p)
  PROVE  Promise!Next \/ UNCHANGED Promise!leaseVars
  <1>0. /\ MaxUid \in Nat
        /\ current_uid \in [BlockIds -> 0 .. MaxUid] /\ ipc_uid \in [BlockIds -> 0 .. MaxUid]
        /\ payload \in [BlockIds -> 0 .. MaxWrites]
        /\ sent \subseteq Descriptors
        /\ alloc \in AllocationRecords
    BY UidTypes DEF IndInv, PoolInv, TypeOK, BufferTypeOK
  <1>. LeaseOf' = LeaseOf
    BY DEF transportVars, LeaseOf, ImportedLease, Imported, HandleLease
  <1>1. CASE IdleStep
    BY <1>1, IdleStepsChangeNothing, ToStutter DEF PublishedUids
  <1>2. ASSUME NEW p \in Publishers, PrepareStep(p)
        PROVE  UNCHANGED Promise!leaseVars
    <2>1. UNCHANGED <<ipc_uid, sent, payload>>
      BY <1>2 DEF PrepareStep, FinalizeForPublish, PublishFallsBack, ReadPublishClock, headerVars
    <2>. QED BY <2>1, ToStutter DEF PublishedUids
  <1>3. CASE CreateBlock
    <2>1. UNCHANGED <<sent, payload>> /\ ipc_uid' = [ipc_uid EXCEPT ![next_block_id] = 0]
      BY <1>3 DEF CreateBlock, bufferVars
    <2>2. next_block_id \notin all_blocks /\ next_block_id \in BlockIds
      BY <1>3, MaxBlocksAssumption
      DEF CreateBlock, IndInv, PoolInv, PoolShape, CreatedBlocks, TypeOK, PoolTypeOK, BlockIds
    <2>3. ipc_uid[next_block_id] = 0
      BY <2>2 DEF IndInv, GenerationInv, HeaderUid
    <2>4. ipc_uid' = ipc_uid
      BY <1>0, <2>1, <2>3
    <2>. QED BY <2>1, <2>4, ToStutter DEF PublishedUids
  <1>4. CASE RetireUid
    <2>. DEFINE b0 == alloc.block
    <2>1. /\ UNCHANGED <<sent, payload, publishing>>
          /\ ipc_uid' = [ipc_uid EXCEPT ![b0] = 0]
          /\ alloc.pc = "retire"
      BY <1>4 DEF RetireUid, bufferVars
    <2>2. b0 \in BlockIds /\ Leases(b0) = {} /\ ~in_use[b0]
      BY <2>1, PreparedIsUnread
      DEF IndInv, PoolInv, PoolShape, AllocationShape, Holding, TypeOK, PoolTypeOK
    <2>3. \A r \in Importers \cup ReadHandles : \A l \in LeaseOf[r] : l.block # b0
      BY <2>2 DEF Leases, LeaseOf, ImportedLease, HandleLease, Imported, CountedImport
    <2>4. ipc_uid[b0] # 0 => \E d \in sent : d.uid = ipc_uid[b0]
      BY <2>2 DEF UidInv, HeaderUidsAreSent, Marking, IndInv, PoolInv, PoolShape,
                  PublishingOwned, Owned
    <2>. HIDE DEF b0
    <2>5. PublishedUids' = PublishedUids
      BY <1>0, <2>1, <2>2, <2>4 DEF PublishedUids
    <2>. QED BY <2>1, <2>2, <2>3, <2>5, ToRetire
  <1>5. ASSUME NEW b0 \in BlockIds, WritePayload(b0)
        PROVE  Promise!Next
    <2>1. /\ UNCHANGED <<ipc_uid, sent>>
          /\ payload' = [payload EXCEPT ![b0] = payload[b0] + 1]
          /\ payload[b0] < MaxWrites /\ write_state[b0] = "InUse"
      BY <1>5 DEF WritePayload, headerVars
    <2>2. payload[b0] + 1 \in 0 .. MaxWrites
      BY <1>0, <2>1, BoundsAssumption
    <2>3. ipc_uid[b0] = 0
      BY <2>1 DEF IndInv, BytesInv, PublishedIsFinal
    <2>4. PublishedUids' = PublishedUids
      BY <2>1 DEF PublishedUids
    <2>. QED BY <2>1, <2>2, <2>3, <2>4, ToWrite
  <1>6. ASSUME NEW p0 \in Publishers, MarkUid(p0)
        PROVE  Promise!Next \/ UNCHANGED Promise!leaseVars
    <2>0. PICK b0, u0 : b0 = BufferOf(p0) /\ u0 = current_uid[b0]
      OBVIOUS
    <2>1. /\ UNCHANGED <<sent, payload>>
          /\ ipc_uid' = [ipc_uid EXCEPT ![b0] = u0]
          /\ publishing[p0].step = "finalized"
      BY <1>6, <2>0 DEF MarkUid
    <2>2. b0 \in BlockIds /\ u0 \in 1 .. MaxUid
      BY <1>0, <2>0, <2>1 DEF IndInv, PoolInv, PoolShape, PublishingOwned, Owned, CreatedBlocks
    <2>3. CASE ipc_uid[b0] # 0
      <3>1. ipc_uid[b0] = u0
        BY <2>0, <2>2, <2>3 DEF IndInv, GenerationInv, HeaderUid
      <3>2. ipc_uid' = ipc_uid
        BY <1>0, <2>1, <3>1
      <3>. QED BY <2>1, <3>2, ToStutter DEF PublishedUids
    <2>4. CASE ipc_uid[b0] = 0
      <3>1. \A d \in sent : d.uid # u0
        BY <2>0, <2>2, <2>4 DEF UidInv, UidsDiffer, IndInv, GenerationInv, SentDescriptors
      <3>2. \A c \in BlockIds : ipc_uid[c] # u0
        BY <1>0, <2>0, <2>2, <2>4 DEF UidInv, UidsDiffer, IndInv, GenerationInv, HeaderUid
      <3>3. u0 \in (1 .. MaxUid) \ PublishedUids
        BY <2>2, <3>1, <3>2 DEF PublishedUids
      <3>4. PublishedUids' = PublishedUids \cup {u0}
        BY <1>0, <2>1, <2>2, <2>4 DEF PublishedUids
      <3>. QED BY <2>1, <2>2, <2>4, <3>3, <3>4, ToPublish
    <2>. QED BY <2>3, <2>4
  <1>7. ASSUME NEW p0 \in Publishers, StampAndSend(p0)
        PROVE  UNCHANGED Promise!leaseVars
    <2>. DEFINE b0 == BufferOf(p0)
    <2>1. /\ UNCHANGED <<ipc_uid, payload>>
          /\ sent' = sent \cup {DescriptorOf(b0)}
          /\ publishing[p0].step = "timed"
      BY <1>7 DEF StampAndSend
    <2>2. b0 \in BlockIds /\ ipc_uid[b0] = DescriptorOf(b0).uid
      BY <2>1 DEF IndInv, GenerationInv, HeaderUid, PoolInv, PoolShape, PublishingOwned, DescriptorOf
    <2>. HIDE DEF b0
    <2>3. PublishedUids' = PublishedUids
      BY <2>1, <2>2 DEF PublishedUids
    <2>. QED BY <2>1, <2>3, ToStutter
  <1>. QED BY <1>1, <1>2, <1>3, <1>4, <1>5, <1>6, <1>7

\* What an importer holds is what its block was published with.
LEMMA ImportedIsPublished ==
  ASSUME WritesBeforePublish, IndInv, NEW i \in Importers, imp[i].pc # "idle", UidMatches(i)
  PROVE  /\ imp[i].desc.block \in BlockIds
         /\ ipc_uid[imp[i].desc.block] = imp[i].desc.uid
         /\ imp[i].desc.uid # 0
         /\ payload[imp[i].desc.block] = imp[i].desc.bytes
  <1>. DEFINE d == imp[i].desc
  <1>1. d \in sent /\ d \in Descriptors
    BY DEF IndInv, GenerationInv, ImportsAreSent, PoolInv, TypeOK, BufferTypeOK
  <1>2. d.block \in BlockIds /\ d.uid # 0
    BY <1>1 DEF Descriptors
  <1>3. ipc_uid[d.block] = d.uid
    BY DEF UidMatches
  <1>. HIDE DEF d
  <1>4. d.uid = current_uid[d.block]
    BY <1>2, <1>3 DEF IndInv, GenerationInv, HeaderUid
  <1>5. payload[d.block] = d.bytes
    BY <1>1, <1>4 DEF IndInv, BytesInv, PublishedIsFinal
  <1>. QED BY <1>2, <1>3, <1>5 DEF d

\* The second comparison of the UID grants the lease; the destruction of the
\* imported buffer returns it.
LEMMA ImporterImplements ==
  ASSUME WritesBeforePublish, IndInv, NEW i \in Importers, ImporterStep(i)
  PROVE  Promise!Next \/ UNCHANGED Promise!leaseVars
  <1>0. imp \in [Importers -> ImportRecords]
    BY DEF IndInv, PoolInv, TypeOK
  <1>1. /\ UNCHANGED <<ipc_uid, payload, handle>>
        /\ PublishedUids' = PublishedUids
        /\ \A j \in Importers : j # i => imp'[j] = imp[j]
    <2>1. UNCHANGED <<ipc_uid, payload, sent>>
      BY SubscribersPublishNothing
    <2>2. UNCHANGED handle /\ \A j \in Importers : j # i => imp'[j] = imp[j]
      BY <1>0 DEF ImporterStep, ImportReturns, ImportBlock, AcquireImport, AcquireRefused, RecheckUid,
             ReleaseStale, DestroyImported, DropImport, ForwardCheck, ForwardStamp, Advance
    <2>. QED BY <2>1, <2>2 DEF PublishedUids
  <1>2. LeaseOf' = [LeaseOf EXCEPT ![i] = ImportedLease(i)']
    BY <1>1, ImporterLeaseOf
  <1>3. LeaseOf[i] = ImportedLease(i)
    BY DEF LeaseOf
  <1>4. CASE ImportedLease(i)' = ImportedLease(i)
    <2>1. LeaseOf' = LeaseOf
      BY <1>2, <1>3, <1>4 DEF LeaseOf
    <2>. QED BY <1>1, <2>1, ToStutter
  <1>5. CASE ImportedLease(i)' = {}
    BY <1>1, <1>2, <1>5, ToReturn
  <1>6. CASE RecheckUid(i) /\ UidMatches(i)
    <2>1. imp[i].pc = "acquired" /\ imp'[i] = [imp[i] EXCEPT !.pc = "holding"]
      BY <1>0, <1>6 DEF RecheckUid, Verdict, Advance
    <2>2. LeaseOf[i] = {}
      BY <1>3, <2>1 DEF ImportedLease, Imported
    <2>. DEFINE d == imp[i].desc
    <2>3. /\ d.block \in BlockIds /\ ipc_uid[d.block] # 0
          /\ ipc_uid[d.block] = d.uid /\ payload[d.block] = d.bytes
      BY <1>6, <2>1, ImportedIsPublished
    <2>4. imp'[i].pc = "holding" /\ imp'[i].desc = d
      BY <1>0, <2>1 DEF ImportRecords
    <2>5. ImportedLease(i)' =
            {[block |-> d.block, generation |-> ipc_uid[d.block], bytes |-> payload[d.block]]}
      BY <2>3, <2>4 DEF ImportedLease, Imported
    <2>. QED BY <1>1, <1>2, <2>2, <2>3, <2>5, ToGrant
  <1>7. CASE RecheckUid(i) /\ ~UidMatches(i)
    <2>1. imp'[i].pc = "stale"
      BY <1>0, <1>7 DEF RecheckUid, Verdict, Advance
    <2>. QED BY <1>5, <2>1 DEF ImportedLease, Imported
  <1>8. CASE \/ \E d \in sent : ImportBlock(i, d)
             \/ AcquireImport(i) \/ AcquireRefused(i) \/ ReleaseStale(i) \/ DestroyImported(i)
    <2>1. ASSUME NEW d \in sent, ImportBlock(i, d) PROVE imp'[i].pc = "validated"
      BY <1>0, <2>1 DEF ImportBlock, NoImport
    <2>2. ASSUME AcquireImport(i) PROVE imp'[i].pc = "acquired"
      BY <1>0, <2>2 DEF AcquireImport, Advance, ImportRecords
    <2>3. ASSUME AcquireRefused(i) \/ ReleaseStale(i) \/ DestroyImported(i) PROVE imp'[i].pc = "idle"
      BY <1>0, <2>3 DEF AcquireRefused, ReleaseStale, DestroyImported, DropImport, NoImport
    <2>4. imp'[i].pc \in {"validated", "acquired", "idle"}
      BY <1>8, <2>1, <2>2, <2>3
    <2>. QED BY <1>5, <2>4 DEF ImportedLease, Imported
  <1>9. CASE ForwardCheck(i) \/ ForwardStamp(i)
    <2>1. /\ imp[i].pc \in {"holding", "forwarding"} /\ imp'[i].pc \in {"holding", "forwarding"}
          /\ imp'[i].desc = imp[i].desc
      BY <1>0, <1>9 DEF ForwardCheck, ForwardStamp, ImportRecords
    <2>. QED BY <1>4, <2>1 DEF ImportedLease, Imported
  <1>. QED BY <1>6, <1>7, <1>8, <1>9 DEF ImporterStep, ImportReturns

\* A ReadHandle of an imported buffer is a lease of its own; one of an owned
\* buffer is none.
LEMMA HandleImplements ==
  ASSUME WritesBeforePublish, IndInv, NEW h \in ReadHandles, HandleStep(h)
  PROVE  Promise!Next \/ UNCHANGED Promise!leaseVars
  <1>0. handle \in [ReadHandles -> HandleRecords] /\ h \notin Importers
    BY HandlesAssumption DEF IndInv, PoolInv, TypeOK
  <1>1. /\ UNCHANGED <<ipc_uid, payload, imp>>
        /\ PublishedUids' = PublishedUids
        /\ \A g \in ReadHandles : g # h => handle'[g] = handle[g]
    <2>1. UNCHANGED <<ipc_uid, payload, sent>>
      BY SubscribersPublishNothing
    <2>2. UNCHANGED imp /\ \A g \in ReadHandles : g # h => handle'[g] = handle[g]
      BY <1>0 DEF HandleStep, OpenImportedHandle, OpenOwnedHandle, OpenHandle, CloseHandle
    <2>. QED BY <2>1, <2>2 DEF PublishedUids
  <1>2. LeaseOf' = [LeaseOf EXCEPT ![h] = HandleLease(h)']
    BY <1>1, HandleLeaseOf
  <1>3. LeaseOf[h] = HandleLease(h)
    BY <1>0 DEF LeaseOf
  <1>4. CASE CloseHandle(h)
    <2>1. HandleLease(h)' = {}
      BY <1>0, <1>4 DEF CloseHandle, HandleLease
    <2>. QED BY <1>1, <1>2, <2>1, ToReturn
  <1>5. ASSUME NEW b \in BlockIds, OpenOwnedHandle(h, b)
        PROVE  UNCHANGED Promise!leaseVars
    <2>1. handle[h] = NoHandle /\ handle'[h].local
      BY <1>0, <1>5 DEF OpenOwnedHandle, OpenHandle
    <2>2. HandleLease(h)' = HandleLease(h)
      BY <2>1 DEF HandleLease
    <2>3. LeaseOf' = LeaseOf
      BY <1>2, <1>3, <2>2 DEF LeaseOf
    <2>. QED BY <1>1, <2>3, ToStutter
  <1>6. ASSUME NEW i \in Importers, OpenImportedHandle(h, i)
        PROVE  Promise!Next
    <2>. DEFINE b == imp[i].desc.block
    <2>1. /\ Imported(i) /\ imp[i].pc # "idle" /\ handle[h] = NoHandle
          /\ handle'[h] = [block |-> b, local |-> FALSE, uid |-> ipc_uid[b], bytes |-> payload[b]]
      BY <1>0, <1>6 DEF OpenImportedHandle, OpenHandle, Imported
    <2>2. UidMatches(i)
      BY <2>1 DEF IndInv, LeaseInv, PinnedByImport
    <2>3. b \in BlockIds /\ ipc_uid[b] # 0
      BY <2>1, <2>2, ImportedIsPublished
    <2>4. LeaseOf[h] = {}
      BY <1>3, <2>1 DEF HandleLease
    <2>. HIDE DEF b
    <2>5. handle'[h] # NoHandle
      BY <2>1, <2>3, MaxBlocksAssumption DEF NoHandle, BlockIds, NoBlock
    <2>6. HandleLease(h)' = {[block |-> b, generation |-> ipc_uid[b], bytes |-> payload[b]]}
      BY <2>1, <2>5 DEF HandleLease
    <2>. QED BY <1>1, <1>2, <2>3, <2>4, <2>6, ToGrant
  <1>. QED BY <1>4, <1>5, <1>6 DEF HandleStep

\* The empty pool promises nothing.
LEMMA InitImplements == Init => Promise!Init
  BY BoundsAssumption
  DEF Init, HeaderInit, PoolInit, Promise!Init, ImportedLease, Imported, HandleLease, NoImport

\* Publishers, allocate() and subscribers together keep the promise of
\* PublicationLease, for any number of blocks, subscribers and handles, when
\* applications publish what they wrote.
THEOREM TransportImplementsLease ==
  ASSUME WritesBeforePublish
  PROVE  Spec => ImplementsPublicationLease
  <1>1. Init => Promise!Init
    BY InitImplements
  <1>2. IndInv /\ UidInv /\ [Next]_vars => [Promise!Next]_(Promise!leaseVars)
    <2>. SUFFICES ASSUME IndInv, UidInv, [Next]_vars
                  PROVE  Promise!Next \/ UNCHANGED Promise!leaseVars
      OBVIOUS
    <2>1. CASE UNCHANGED vars
      <3>1. /\ UNCHANGED <<ipc_uid, payload>>
            /\ PublishedUids' = PublishedUids /\ LeaseOf' = LeaseOf
        BY <2>1 DEF vars, headerVars, bufferVars, transportVars, PublishedUids, LeaseOf,
                    ImportedLease, Imported, HandleLease
      <3>. QED BY <3>1, ToStutter
    <2>2. CASE Next
      BY <2>2, StepCases, OwnerImplements, ImporterImplements, HandleImplements
    <2>. QED BY <2>1, <2>2
  <1>. QED BY <1>1, <1>2, Inductive, UidInvariant, PTL
       DEF Spec, ImplementsPublicationLease, Promise!Spec
=============================================================================
