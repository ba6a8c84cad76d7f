--------------------------- MODULE SharedBufferPool ---------------------------
(***************************************************************************)
(* The publisher process: SharedBufferMemoryPool, the SharedBuffer that    *)
(* owns a block while the block is in use, and the publisher branch of     *)
(* SharedBufferBackend::create_descriptor_with_endpoint.                   *)
(*                                                                         *)
(* allocate() holds the pool mutex throughout, but its accesses to the     *)
(* shared header interleave with the subscriber processes, so it takes one *)
(* step per access; alloc.pc = "idle" means that the mutex is free.  The   *)
(* mutex serialises the pool's methods, and the methods that touch no      *)
(* header (free, register_block_for_ipc, assign_uid) are single steps.     *)
(*                                                                         *)
(* A publisher process that crashes is a behaviour in which the actions of *)
(* this module stop: the memfd keeps the header and the payload for the    *)
(* subscribers that mapped it, and nothing else of the publisher remains.  *)
(***************************************************************************)
EXTENDS ControlHeader, Sequences

CONSTANTS
  Publishers,           \* threads of the process that publish buffers it owns
  Sizes,                \* payload sizes that are allocated
  GracePeriod,          \* kSharedBufferGracePeriodUs, in clock ticks
  MaxUid,               \* bound: number of UIDs drawn
  MaxClock,             \* bound: last value of the monotonic clock
  MaxWrites,            \* bound: modifications of one block's payload
  WritesBeforePublish   \* TRUE: applications publish only what they wrote
                        \* through a WriteHandle

ASSUME SizesAssumption == Sizes \subseteq Nat \ {0} /\ Sizes # {}
ASSUME GraceAssumption == GracePeriod \in Nat
ASSUME BoundsAssumption == MaxUid \in Nat /\ MaxClock \in Nat /\ MaxWrites \in Nat
ASSUME DisciplineAssumption == WritesBeforePublish \in BOOLEAN

VARIABLES
  clock,           \* monotonic_time_us(); machine-wide, starts above zero
  all_blocks,      \* ids of the blocks created so far
  payload_size,    \* payload_size[b]: fixed when b is created
  in_use,          \* SharedBufferBlock::in_use
  current_uid,     \* SharedBufferBlock::current_uid
  free_blocks,     \* one list of free blocks for each size
  next_block_id,   \* next_block_id_
  uids_drawn,      \* number of draws made from uid_dist_
  alloc,           \* the allocate() call that holds the mutex
  write_state,     \* HandleState::state of the SharedBuffer that owns b
  payload,         \* version of the payload bytes of b
  publishing,      \* publishing[p]: the create_descriptor call that p is in
  sent             \* every descriptor handed to the RMW

poolVars == <<all_blocks, payload_size, in_use, current_uid, free_blocks,
              next_block_id, uids_drawn, alloc>>
bufferVars == <<write_state, payload, publishing, sent>>

\* uid_dist_ draws from 64 random bits; the model assumes that draws never
\* repeat and names the k-th one k.
Descriptors == [block : BlockIds, uid : 1 .. MaxUid, bytes : 0 .. MaxWrites]

NoBlock == -1
NoAllocation == [pc |-> "idle", size |-> 0, i |-> 0, block |-> NoBlock, fresh |-> FALSE]

NotPublishing == [step |-> "idle", block |-> NoBlock, now |-> 0]

MutexFree == alloc.pc = "idle"

\* A SharedBuffer owns b: allocate() has returned it and free() was not called.
Owned(b) == in_use[b] /\ alloc.block # b

PoolInit ==
  /\ clock = 1
  /\ all_blocks = {}
  /\ payload_size = [b \in BlockIds |-> 0]
  /\ in_use = [b \in BlockIds |-> FALSE]
  /\ current_uid = [b \in BlockIds |-> 0]
  /\ free_blocks = [s \in Sizes |-> <<>>]
  /\ next_block_id = 0
  /\ uids_drawn = 0
  /\ alloc = NoAllocation
  /\ write_state = [b \in BlockIds |-> "Unset"]
  /\ payload = [b \in BlockIds |-> 0]
  /\ publishing = [p \in Publishers |-> NotPublishing]
  /\ sent = {}

Tick ==
  /\ clock < MaxClock
  /\ clock' = clock + 1
  /\ UNCHANGED <<headerVars, poolVars, bufferVars>>

-----------------------------------------------------------------------------
(* SharedBufferMemoryPool::allocate *)

Candidates == free_blocks[alloc.size]

\* Mutant: a refused candidate is tried again.
SameCandidate == alloc.i

NextCandidate == alloc.i + 1

BeginAllocate(size) ==
  /\ MutexFree
  /\ uids_drawn < MaxUid
  /\ alloc' = [NoAllocation EXCEPT !.pc = "scan", !.size = size, !.i = 1]
  /\ UNCHANGED <<headerVars, clock, all_blocks, payload_size, in_use, current_uid,
                 free_blocks, next_block_id, uids_drawn, bufferVars>>

\* Mutant: the grace period is one tick too short.
GraceElapsedEarly(published) ==
  published = 0 \/ (clock >= published /\ clock - published >= GracePeriod - 1)

GraceElapsed(published) ==
  published = 0 \/ (clock >= published /\ clock - published >= GracePeriod)

\* try_claim_block, first half: the publication time decides about the candidate.
ScanCandidate ==
  /\ alloc.pc = "scan"
  /\ alloc.i <= Len(Candidates)
  /\ alloc' = IF GraceElapsed(publish_timestamp_us[Candidates[alloc.i]])
              THEN [alloc EXCEPT !.pc = "claim"]
              ELSE [alloc EXCEPT !.i = NextCandidate]
  /\ UNCHANGED <<headerVars, clock, all_blocks, payload_size, in_use, current_uid,
                 free_blocks, next_block_id, uids_drawn, bufferVars>>

\* Mutant: the back of the list is popped and the claimed block stays.
PopBack(list, i) == [j \in 1 .. (Len(list) - 1) |-> list[j]]

\* candidates[i] = candidates.back(); candidates.pop_back()
RemoveSwap(list, i) ==
  [j \in 1 .. (Len(list) - 1) |-> IF j = i THEN list[Len(list)] ELSE list[j]]

\* try_claim_block, second half: the compare-exchange succeeds ...
ClaimCandidate ==
  /\ alloc.pc = "claim"
  /\ ClaimReuse(Candidates[alloc.i])
  /\ alloc' = [alloc EXCEPT !.pc = "retire", !.block = Candidates[alloc.i]]
  /\ free_blocks' = [free_blocks EXCEPT ![alloc.size] = RemoveSwap(@, alloc.i)]
  /\ UNCHANGED <<ipc_uid, publish_timestamp_us, clock, all_blocks, payload_size, in_use,
                 current_uid, next_block_id, uids_drawn, bufferVars>>

\* ... or finds readers.
ClaimRefused ==
  /\ alloc.pc = "claim"
  /\ reader_state[Candidates[alloc.i]] # 0
  /\ alloc' = [alloc EXCEPT !.pc = "scan", !.i = NextCandidate]
  /\ UNCHANGED <<headerVars, clock, all_blocks, payload_size, in_use, current_uid,
                 free_blocks, next_block_id, uids_drawn, bufferVars>>

\* create_block: no candidate could be claimed.
CreateBlock ==
  LET b == next_block_id IN
  /\ alloc.pc = "scan"
  /\ alloc.i > Len(Candidates)
  /\ b < MaxBlocks
  /\ next_block_id' = b + 1
  /\ all_blocks' = all_blocks \cup {b}
  /\ payload_size' = [payload_size EXCEPT ![b] = alloc.size]
  /\ ipc_uid' = [ipc_uid EXCEPT ![b] = 0]
  /\ reader_state' = [reader_state EXCEPT ![b] = 0]
  /\ publish_timestamp_us' = [publish_timestamp_us EXCEPT ![b] = 0]
  /\ alloc' = [alloc EXCEPT !.pc = "retire", !.block = b, !.fresh = TRUE]
  /\ UNCHANGED <<clock, in_use, current_uid, free_blocks, uids_drawn, bufferVars>>

\* create_platform_mapping throws: the block id is spent, allocate() unwinds.
\* At the bound MaxBlocks the model's machine has no memory left.
CreateBlockFails ==
  /\ alloc.pc = "scan"
  /\ alloc.i > Len(Candidates)
  /\ next_block_id' = IF next_block_id < MaxBlocks THEN next_block_id + 1 ELSE MaxBlocks
  /\ alloc' = NoAllocation
  /\ UNCHANGED <<headerVars, clock, all_blocks, payload_size, in_use, current_uid,
                 free_blocks, uids_drawn, bufferVars>>

\* Mutant: a block keeps the UID of its first use.
KeptUid == IF current_uid[alloc.block] = 0 THEN uids_drawn + 1 ELSE current_uid[alloc.block]

\* assign_new_uid
NewUid == uids_drawn + 1

\* A new UID is drawn and the header's UID is cleared: the descriptors of the
\* previous publication become stale.
RetireUid ==
  /\ alloc.pc = "retire"
  /\ in_use' = [in_use EXCEPT ![alloc.block] = TRUE]
  /\ uids_drawn' = uids_drawn + 1
  /\ current_uid' = [current_uid EXCEPT ![alloc.block] = NewUid]
  /\ ipc_uid' = [ipc_uid EXCEPT ![alloc.block] = 0]
  /\ alloc' = [alloc EXCEPT !.pc = "unstamp"]
  /\ UNCHANGED <<reader_state, publish_timestamp_us, clock, all_blocks, payload_size,
                 free_blocks, next_block_id, bufferVars>>

ClearTimestamp ==
  /\ alloc.pc = "unstamp"
  /\ publish_timestamp_us' = [publish_timestamp_us EXCEPT ![alloc.block] = 0]
  /\ alloc' = [alloc EXCEPT !.pc = "unclaim"]
  /\ UNCHANGED <<ipc_uid, reader_state, clock, all_blocks, payload_size, in_use,
                 current_uid, free_blocks, next_block_id, uids_drawn, bufferVars>>

\* The claim is dropped and SharedBufferImpl::allocate_raw wraps the block in a
\* SharedBuffer with a fresh HandleState.
ReturnBlock ==
  /\ alloc.pc = "unclaim"
  /\ ReleaseReuseClaim(alloc.block)
  /\ write_state' = [write_state EXCEPT ![alloc.block] = "Unset"]
  /\ alloc' = NoAllocation
  /\ UNCHANGED <<ipc_uid, publish_timestamp_us, clock, all_blocks, payload_size, in_use,
                 current_uid, free_blocks, next_block_id, uids_drawn, payload,
                 publishing, sent>>

-----------------------------------------------------------------------------
(* The owning SharedBuffer *)

\* SharedBuffer::get_write_handle; hasLocalReaders: active_readers # 0
GetWriteHandle(b, hasLocalReaders) ==
  /\ Owned(b)
  /\ write_state[b] = "Unset"
  /\ ~hasLocalReaders
  /\ write_state' = [write_state EXCEPT ![b] = "InUse"]
  /\ UNCHANGED <<headerVars, clock, poolVars, payload, publishing, sent>>

\* The application stores through WriteHandle::get_ptr().  It does so only
\* before the handle is finalized: afterwards the API forbids the pointer.
WritePayload(b) ==
  /\ Owned(b)
  /\ write_state[b] = "InUse"
  /\ payload[b] < MaxWrites
  /\ payload' = [payload EXCEPT ![b] = @ + 1]
  /\ UNCHANGED <<headerVars, clock, poolVars, write_state, publishing, sent>>

\* WriteHandle::release
ReleaseWriteHandle(b) ==
  /\ Owned(b)
  /\ write_state[b] = "InUse"
  /\ write_state' = [write_state EXCEPT ![b] = "Finalized"]
  /\ UNCHANGED <<headerVars, clock, poolVars, payload, publishing, sent>>

\* Mutant: the block is listed as free and still marked as used.
StillUsed(b) == in_use

Unused(b) == [in_use EXCEPT ![b] = FALSE]

\* SharedBuffer::reset through the pool's deleter, and SharedBufferMemoryPool::free.
\* A WriteHandle is scoped inside its buffer's lifetime, and so is every
\* create_descriptor call on the buffer; ReadHandles need not be.
FreeBlock(b) ==
  /\ MutexFree
  /\ Owned(b)
  /\ \A p \in Publishers : publishing[p].block # b
  /\ write_state[b] # "InUse"
  /\ in_use' = Unused(b)
  /\ free_blocks' = [free_blocks EXCEPT ![payload_size[b]] = Append(@, b)]
  /\ UNCHANGED <<headerVars, clock, all_blocks, payload_size, current_uid,
                 next_block_id, uids_drawn, alloc, bufferVars>>

-----------------------------------------------------------------------------
(* SharedBufferBackend::create_descriptor_with_endpoint on an owned buffer.  *)
(* Several threads may publish one buffer at a time: nothing but the pool's  *)
(* mutex orders their steps.                                                 *)

BufferOf(p) == publishing[p].block

AdvancePublish(p, step) == publishing' = [publishing EXCEPT ![p].step = step]

\* Mutant: the write in progress is not finalized.
UnfinalizedWrite(b) == write_state[b]

\* finalize_write_handle: only a write in progress is finalized.
FinalizedWrite(b) == IF write_state[b] = "InUse" THEN "Finalized" ELSE write_state[b]

FinalizeForPublish(p, b) ==
  /\ Owned(b)
  /\ publishing[p] = NotPublishing
  /\ WritesBeforePublish => write_state[b] # "Unset"
  /\ write_state' = [write_state EXCEPT ![b] = FinalizedWrite(b)]
  /\ publishing' = [publishing EXCEPT ![p] = [step |-> "finalized", block |-> b, now |-> 0]]
  /\ UNCHANGED <<headerVars, clock, poolVars, payload, sent>>

\* register_block_for_ipc and assign_uid under the mutex, then the first store
\* of mark_published.
MarkUid(p) ==
  /\ publishing[p].step = "finalized"
  /\ MutexFree
  /\ ipc_uid' = [ipc_uid EXCEPT ![BufferOf(p)] = current_uid[BufferOf(p)]]
  /\ AdvancePublish(p, "marked")
  /\ UNCHANGED <<reader_state, publish_timestamp_us, clock, poolVars, write_state,
                 payload, sent>>

\* register_block_for_ipc throws or returns no name: the CPU path is used.
PublishFallsBack(p) ==
  /\ publishing[p].step = "finalized"
  /\ MutexFree
  /\ publishing' = [publishing EXCEPT ![p] = NotPublishing]
  /\ UNCHANGED <<headerVars, clock, poolVars, write_state, payload, sent>>

\* refresh_publish_timestamp reads the clock ...
ReadPublishClock(p) ==
  /\ publishing[p].step = "marked"
  /\ publishing' = [publishing EXCEPT ![p] = [@ EXCEPT !.step = "timed", !.now = clock]]
  /\ UNCHANGED <<headerVars, clock, poolVars, write_state, payload, sent>>

DescriptorOf(b) == [block |-> b, uid |-> current_uid[b], bytes |-> payload[b]]

\* ... and stores what it read; then the RMW takes the descriptor.  Of two
\* publishers of a block the one that read the clock first may store last.
\* bytes is not a field of the message: it records what was published.
StampAndSend(p) ==
  /\ publishing[p].step = "timed"
  /\ publish_timestamp_us' = [publish_timestamp_us EXCEPT ![BufferOf(p)] = publishing[p].now]
  /\ sent' = sent \cup {DescriptorOf(BufferOf(p))}
  /\ publishing' = [publishing EXCEPT ![p] = NotPublishing]
  /\ UNCHANGED <<ipc_uid, reader_state, clock, poolVars, write_state, payload>>

AllocateStep ==
  \/ ScanCandidate
  \/ ClaimCandidate
  \/ ClaimRefused
  \/ CreateBlock
  \/ CreateBlockFails
  \/ RetireUid
  \/ ClearTimestamp
  \/ ReturnBlock

PublishStep(p) ==
  \/ \E b \in BlockIds : FinalizeForPublish(p, b)
  \/ MarkUid(p)
  \/ PublishFallsBack(p)
  \/ ReadPublishClock(p)
  \/ StampAndSend(p)

\* The grant of a WriteHandle depends on the local ReadHandles, which are not
\* part of this module: GetWriteHandle is a disjunct of the composition.
PoolNext ==
  \/ Tick
  \/ \E s \in Sizes : BeginAllocate(s)
  \/ AllocateStep
  \/ \E b \in BlockIds :
       \/ WritePayload(b)
       \/ ReleaseWriteHandle(b)
       \/ FreeBlock(b)
  \/ \E p \in Publishers : PublishStep(p)
=============================================================================
