------------------------- MODULE SharedBufferTransport -------------------------
(***************************************************************************)
(* The publisher of SharedBufferPool together with the subscribers that    *)
(* import its blocks (SharedBufferBackend::from_descriptor_with_endpoint), *)
(* the nodes that publish an imported buffer again (the forwarding branch  *)
(* of create_descriptor_with_endpoint) and the ReadHandles of both.        *)
(*                                                                         *)
(* The RMW is external: it keeps every descriptor it was handed in `sent`  *)
(* and may deliver any of them to any subscriber at any time, in any       *)
(* order, repeatedly or never.                                             *)
(*                                                                         *)
(* A subscriber process that crashes is an importer that takes no further  *)
(* step: what it added to reader_state stays there.                        *)
(***************************************************************************)
EXTENDS SharedBufferPool, FiniteSets

CONSTANTS
  Importers,    \* calls of from_descriptor and the imported buffers they return
  Relays,       \* importers whose process publishes the imported buffer again
  ReadHandles   \* ReadHandle objects, of the publisher or of a subscriber

ASSUME ImportersAssumption == IsFiniteSet(Importers) /\ Relays \subseteq Importers
ASSUME HandlesAssumption == IsFiniteSet(ReadHandles) /\ ReadHandles \cap Importers = {}

VARIABLES
  imp,      \* imp[i]: the import in progress, then the imported SharedBuffer
  handle    \* handle[h]: the block that a ReadHandle leases

transportVars == <<imp, handle>>
vars == <<headerVars, clock, poolVars, bufferVars, transportVars>>

NoDescriptor == [block |-> NoBlock, uid |-> 0, bytes |-> 0]
NoImport == [pc |-> "idle", desc |-> NoDescriptor, now |-> 0]

\* uid and bytes record what the block carried when the handle was created.
NoHandle == [block |-> NoBlock, local |-> FALSE, uid |-> 0, bytes |-> 0]

Init ==
  /\ HeaderInit
  /\ PoolInit
  /\ imp = [i \in Importers |-> NoImport]
  /\ handle = [h \in ReadHandles |-> NoHandle]

\* HandleState::active_readers of the SharedBuffer that owns b
ActiveReaders(b) == {h \in ReadHandles : handle[h].block = b /\ handle[h].local}

Advance(i, pc) == imp' = [imp EXCEPT ![i].pc = pc]

-----------------------------------------------------------------------------
(* SharedBufferBackend::from_descriptor_with_endpoint *)

\* SharedBufferHandleCache::import_block returns a mapping: the header carries
\* the descriptor's UID.  An import that throws changes nothing.
ImportBlock(i, d) ==
  /\ imp[i] = NoImport
  /\ ipc_uid[d.block] = d.uid
  /\ imp' = [imp EXCEPT ![i] = [NoImport EXCEPT !.pc = "validated", !.desc = d]]
  /\ UNCHANGED <<headerVars, clock, poolVars, bufferVars, handle>>

\* ImportedBlock::acquire_reader succeeds ...
AcquireImport(i) ==
  /\ imp[i].pc = "validated"
  /\ AcquireReader(imp[i].desc.block)
  /\ Advance(i, "acquired")
  /\ UNCHANGED <<ipc_uid, publish_timestamp_us, clock, poolVars, bufferVars, handle>>

\* ... or throws.
AcquireRefused(i) ==
  /\ imp[i].pc = "validated"
  /\ ~CanAcquireReader(imp[i].desc.block)
  /\ imp' = [imp EXCEPT ![i] = NoImport]
  /\ UNCHANGED <<headerVars, clock, poolVars, bufferVars, handle>>

\* Mutant: the UID is not compared.
AnyUid(i) == TRUE

UidMatches(i) == ipc_uid[imp[i].desc.block] = imp[i].desc.uid

\* Mutant: the import waits for the UID it expects.
VerdictAwaited(i) == IF UidMatches(i) THEN "holding" ELSE "acquired"

Verdict(i) == IF UidMatches(i) THEN "holding" ELSE "stale"

\* The second comparison of the UID, after the reader reference is counted.
RecheckUid(i) ==
  /\ imp[i].pc = "acquired"
  /\ Advance(i, Verdict(i))
  /\ UNCHANGED <<headerVars, clock, poolVars, bufferVars, handle>>

DropImport(i) ==
  /\ ReleaseReader(imp[i].desc.block)
  /\ imp' = [imp EXCEPT ![i] = NoImport]
  /\ UNCHANGED <<ipc_uid, publish_timestamp_us, clock, poolVars, bufferVars, handle>>

\* The reference to a reused block is given back and the import throws.
ReleaseStale(i) == imp[i].pc = "stale" /\ DropImport(i)

\* SharedBuffer::reset of the imported buffer: the deleter is reader_release.
DestroyImported(i) == imp[i].pc = "holding" /\ DropImport(i)

-----------------------------------------------------------------------------
(* create_descriptor_with_endpoint on an imported buffer *)

\* The UID is compared (a mismatch returns nullptr) and the clock is read.
ForwardCheck(i) ==
  /\ i \in Relays
  /\ imp[i].pc = "holding"
  /\ UidMatches(i)
  /\ imp' = [imp EXCEPT ![i] = [@ EXCEPT !.pc = "forwarding", !.now = clock]]
  /\ UNCHANGED <<headerVars, clock, poolVars, bufferVars, handle>>

\* The publication time is replaced.  The descriptor that is sent on is equal
\* to the imported one, which `sent` holds already.
ForwardStamp(i) ==
  /\ imp[i].pc = "forwarding"
  /\ publish_timestamp_us' = [publish_timestamp_us EXCEPT ![imp[i].desc.block] = imp[i].now]
  /\ imp' = [imp EXCEPT ![i] = [@ EXCEPT !.pc = "holding", !.now = 0]]
  /\ UNCHANGED <<ipc_uid, reader_state, clock, poolVars, bufferVars, handle>>

-----------------------------------------------------------------------------
(* SharedBuffer::get_read_handle and ReadHandle::release *)

OpenHandle(h, b, local) ==
  /\ handle[h] = NoHandle
  /\ AcquireReader(b)
  /\ handle' = [handle EXCEPT ![h] = [block |-> b, local |-> local, uid |-> ipc_uid[b],
                                  bytes |-> payload[b]]]
  /\ UNCHANGED <<ipc_uid, publish_timestamp_us, clock, poolVars, bufferVars, imp>>

\* An imported buffer is read-only: its HandleState is never InUse.
OpenImportedHandle(h, i) ==
  /\ imp[i].pc \in {"holding", "forwarding"}
  /\ OpenHandle(h, imp[i].desc.block, FALSE)

\* Mutant: a reader is admitted beside the writer.
OpenBesideWriter(h, b) == Owned(b) /\ OpenHandle(h, b, TRUE)

OpenOwnedHandle(h, b) ==
  /\ Owned(b)
  /\ write_state[b] # "InUse"
  /\ OpenHandle(h, b, TRUE)

CloseHandle(h) ==
  /\ handle[h] # NoHandle
  /\ ReleaseReader(handle[h].block)
  /\ handle' = [handle EXCEPT ![h] = NoHandle]
  /\ UNCHANGED <<ipc_uid, publish_timestamp_us, clock, poolVars, bufferVars, imp>>

GrantWriteHandle(b) ==
  /\ GetWriteHandle(b, ActiveReaders(b) # {})
  /\ UNCHANGED transportVars

-----------------------------------------------------------------------------
ImportReturns(i) ==
  \/ AcquireImport(i)
  \/ AcquireRefused(i)
  \/ RecheckUid(i)
  \/ ReleaseStale(i)

ImporterStep(i) ==
  \/ \E d \in sent : ImportBlock(i, d)
  \/ ImportReturns(i)
  \/ DestroyImported(i)
  \/ ForwardCheck(i)
  \/ ForwardStamp(i)

HandleStep(h) ==
  \/ \E i \in Importers : OpenImportedHandle(h, i)
  \/ \E b \in BlockIds : OpenOwnedHandle(h, b)
  \/ CloseHandle(h)

Next ==
  \/ PoolNext /\ UNCHANGED transportVars
  \/ \E b \in BlockIds : GrantWriteHandle(b)
  \/ \E i \in Importers : ImporterStep(i)
  \/ \E h \in ReadHandles : HandleStep(h)

Spec == Init /\ [][Next]_vars

\* A call that has begun runs to its end: the threads of live processes are
\* scheduled.  Nothing obliges an application to drop a buffer or a handle.
CallsReturn ==
  /\ WF_vars(AllocateStep /\ UNCHANGED transportVars)
  /\ \A i \in Importers : WF_vars(ImportReturns(i))

FairSpec == Spec /\ CallsReturn

-----------------------------------------------------------------------------
(* Type invariant *)

AllocationRecords ==
  [pc : {"idle", "scan", "claim", "retire", "unstamp", "unclaim"}, size : Nat, i : Nat,
   block : BlockIds \cup {NoBlock}, fresh : BOOLEAN]

HeaderTypeOK ==
  /\ ipc_uid \in [BlockIds -> 0 .. MaxUid]
  /\ reader_state \in [BlockIds -> ReaderWords]
  /\ publish_timestamp_us \in [BlockIds -> Nat]

PoolTypeOK ==
  /\ clock \in Nat
  /\ all_blocks \subseteq BlockIds
  /\ payload_size \in [BlockIds -> Sizes \cup {0}]
  /\ in_use \in [BlockIds -> BOOLEAN]
  /\ current_uid \in [BlockIds -> 0 .. MaxUid]
  /\ free_blocks \in [Sizes -> Seq(BlockIds)]
  /\ next_block_id \in 0 .. MaxBlocks
  /\ uids_drawn \in 0 .. MaxUid
  /\ alloc \in AllocationRecords

PublicationRecords ==
  [step : {"idle", "finalized", "marked", "timed"}, block : BlockIds \cup {NoBlock}, now : Nat]

BufferTypeOK ==
  /\ write_state \in [BlockIds -> {"Unset", "InUse", "Finalized"}]
  /\ payload \in [BlockIds -> 0 .. MaxWrites]
  /\ publishing \in [Publishers -> PublicationRecords]
  /\ sent \subseteq Descriptors

ImportRecords ==
  [pc : {"idle", "validated", "acquired", "stale", "holding", "forwarding"},
   desc : Descriptors \cup {NoDescriptor}, now : Nat]

HandleRecords ==
  [block : BlockIds \cup {NoBlock}, local : BOOLEAN, uid : 0 .. MaxUid, bytes : 0 .. MaxWrites]

\* Every variable has the type of the field or object that it stands for.
TypeOK ==
  /\ HeaderTypeOK
  /\ PoolTypeOK
  /\ BufferTypeOK
  /\ imp \in [Importers -> ImportRecords]
  /\ handle \in [ReadHandles -> HandleRecords]

-----------------------------------------------------------------------------
(* Safety *)

CountedImport(i) == imp[i].pc \in {"acquired", "stale", "holding", "forwarding"}
Imported(i) == imp[i].pc \in {"holding", "forwarding"}

\* The importers and handles that owe one release_shared_buffer_reader to b.
Leases(b) ==
  {i \in Importers : CountedImport(i) /\ imp[i].desc.block = b}
    \cup {h \in ReadHandles : handle[h].block = b}

Claiming(b) ==
  alloc.block = b /\ ~alloc.fresh /\ alloc.pc \in {"retire", "unstamp", "unclaim"}

\* The shared word of a block equals what its leases and its claim add up to:
\* it never wraps at zero, never spills from the count into the claim bit, no
\* reference is lost or given back twice (acquire_reader, release_reader,
\* ReadHandle::release in different processes), and a claimed block is unread.
ReaderAccounting ==
  \A b \in BlockIds :
    IF Claiming(b)
    THEN reader_state[b] = ReuseClaimed /\ Leases(b) = {}
    ELSE reader_state[b] = Cardinality(Leases(b)) /\ ~IsClaimed(reader_state[b])

\* While an imported SharedBuffer lives, its block still carries the generation
\* that the descriptor named: from_descriptor_with_endpoint's two UID checks
\* around acquire_reader leave no window for allocate() to reuse the block.
LeasePinsGeneration ==
  \A i \in Importers : Imported(i) =>
    /\ UidMatches(i)
    /\ current_uid[imp[i].desc.block] = imp[i].desc.uid

\* A subscriber reads the bytes that the publisher had written when it sent the
\* descriptor, for as long as the imported buffer lives.
ReadersSeePublishedBytes ==
  \A i \in Importers : Imported(i) => payload[imp[i].desc.block] = imp[i].desc.bytes

\* What a ReadHandle shows does not change while it lives, even after the
\* SharedBuffer it came from is gone (get_read_handle, SharedBuffer::reset).
ReadHandleBytesStable ==
  \A h \in ReadHandles : handle[h] # NoHandle => payload[handle[h].block] = handle[h].bytes

InFreeList(b) == \E s \in Sizes : \E j \in DOMAIN free_blocks[s] : free_blocks[s][j] = b

\* Free lists name existing blocks of their own size, each once, and a created
\* block is free, used, or held by the allocate() in progress: the swap with
\* the back of the list in allocate() and the push in free() lose and double
\* no block.
PoolPartition ==
  /\ \A s \in Sizes : \A j, k \in DOMAIN free_blocks[s] :
       free_blocks[s][j] = free_blocks[s][k] => j = k
  /\ \A s \in Sizes : \A j \in DOMAIN free_blocks[s] :
       LET b == free_blocks[s][j] IN
         b \in all_blocks /\ payload_size[b] = s /\ ~in_use[b] /\ b # alloc.block
  /\ \A b \in all_blocks : in_use[b] \/ InFreeList(b) \/ b = alloc.block

\* A published buffer is not open for writing: get_write_handle is refused on
\* it (the state machine of docs/shared_buffer_backend_design.md).
NoWriterAfterPublish ==
  \A b \in BlockIds : Owned(b) /\ ipc_uid[b] # 0 => write_state[b] # "InUse"

-----------------------------------------------------------------------------
(* Action properties *)

\* try_claim_block claims a block only when the grace period that follows the
\* publication time in its header has elapsed at the claim.  (Of two publishers'
\* times it is the one that was stored last, which may be the older one.)
ClaimStepRespectsGrace ==
  \A b \in BlockIds :
    reader_state[b] = 0 /\ reader_state'[b] = ReuseClaimed =>
      \/ publish_timestamp_us[b] = 0
      \/ clock - publish_timestamp_us[b] >= GracePeriod
ClaimRespectsGrace == [][ClaimStepRespectsGrace]_vars

\* A descriptor that stopped being valid never becomes valid again, although
\* its block is published again (allocate() draws a new UID for every use).
StaleStepStaysStale ==
  \A d \in sent : ipc_uid[d.block] # d.uid => ipc_uid'[d.block] # d.uid
StaleDescriptorsStayStale == [][StaleStepStaysStale]_vars

-----------------------------------------------------------------------------
(* Liveness *)

\* allocate() returns whatever the subscribers do or fail to do: it passes
\* over a block that is leased or inside its grace period and waits for none.
AllocateReturns == (~MutexFree) ~> MutexFree

\* A subscriber that counted itself in a block either gets its buffer or has
\* given the reference back, so that a lost race does not pin the block.
ImportResolves ==
  \A i \in Importers : imp[i].pc \in {"validated", "acquired", "stale"} ~>
    imp[i].pc \in {"idle", "holding"}

-----------------------------------------------------------------------------
(* Refinement *)

\* A reader of the abstract specification is an imported buffer, or a
\* ReadHandle that was taken from one.
ImportedLease(i) ==
  IF Imported(i)
  THEN {[block |-> imp[i].desc.block, generation |-> imp[i].desc.uid,
         bytes |-> imp[i].desc.bytes]}
  ELSE {}

HandleLease(h) ==
  IF handle[h] # NoHandle /\ ~handle[h].local
  THEN {[block |-> handle[h].block, generation |-> handle[h].uid, bytes |-> handle[h].bytes]}
  ELSE {}

Promise == INSTANCE PublicationLease WITH
  Blocks <- BlockIds,
  Readers <- Importers \cup ReadHandles,
  Generations <- 1 .. MaxUid,
  Bytes <- 0 .. MaxWrites,
  generation <- ipc_uid,
  bytes <- payload,
  published <- ({d.uid : d \in sent} \cup {ipc_uid[b] : b \in BlockIds}) \ {0},
  lease <- [r \in Importers \cup ReadHandles |->
              IF r \in Importers THEN ImportedLease(r) ELSE HandleLease(r)]

\* The pool, the header protocol and the two UID checks implement publication
\* leases: every step of the transport is a step of PublicationLease or none.
ImplementsPublicationLease == Promise!Spec
=============================================================================
