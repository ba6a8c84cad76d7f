-------------------------- MODULE TransportInvariant --------------------------
(***************************************************************************)
(* The inductive invariant of SharedBufferTransport, in four parts:        *)
(*   PoolInv        the pool's own bookkeeping                             *)
(*   GenerationInv  UIDs, publications and the descriptors sent            *)
(*   LeaseInv       the reader word and the generations it pins            *)
(*   BytesInv       the payload, when applications write before publishing *)
(***************************************************************************)
EXTENDS SharedBufferTransport

-----------------------------------------------------------------------------
(* Part 1: the pool *)

Holding == alloc.pc \in {"retire", "unstamp", "unclaim"}

\* The locals of the allocate() in progress.
AllocationShape ==
  /\ alloc.pc = "idle" => alloc = NoAllocation
  /\ alloc.pc \in {"scan", "claim"} =>
       alloc.size \in Sizes /\ alloc.i >= 1 /\ alloc.block = NoBlock /\ ~alloc.fresh
  /\ alloc.pc = "claim" => alloc.i <= Len(free_blocks[alloc.size])
  /\ alloc.pc \in {"scan", "claim", "retire"} => uids_drawn < MaxUid
  /\ Holding => alloc.block \in all_blocks
  /\ alloc.pc = "retire" => ~in_use[alloc.block]
  /\ alloc.pc \in {"unstamp", "unclaim"} => in_use[alloc.block]

FreeListsAreSets ==
  \A s \in Sizes : \A j, k \in DOMAIN free_blocks[s] :
    free_blocks[s][j] = free_blocks[s][k] => j = k

FreeBlocksAreIdle ==
  \A s \in Sizes : \A j \in DOMAIN free_blocks[s] :
    LET b == free_blocks[s][j] IN
      b \in all_blocks /\ payload_size[b] = s /\ ~in_use[b] /\ b # alloc.block

\* What create_block initialised; a block id that was not used yet is pristine.
CreatedBlocks ==
  /\ \A b \in all_blocks : b < next_block_id /\ payload_size[b] \in Sizes
  /\ \A b \in BlockIds : in_use[b] => b \in all_blocks /\ current_uid[b] >= 1
  /\ \A b \in BlockIds : current_uid[b] <= uids_drawn

\* A created block is used, free, or held by the allocate() in progress.
NoBlockLost == \A b \in all_blocks : in_use[b] \/ InFreeList(b) \/ b = alloc.block

\* A buffer that is being published is still owned.
PublishingOwned ==
  \A p \in Publishers :
    /\ publishing[p].step = "idle" => publishing[p] = NotPublishing
    /\ publishing[p].step # "idle" => BufferOf(p) \in BlockIds /\ Owned(BufferOf(p))

PoolShape ==
  /\ AllocationShape
  /\ FreeListsAreSets
  /\ FreeBlocksAreIdle
  /\ CreatedBlocks
  /\ PublishingOwned

PoolInv == TypeOK /\ PoolShape

-----------------------------------------------------------------------------
(* Part 2: generations *)

\* The header carries no UID, or that of the current use of the block.
HeaderUid ==
  /\ \A b \in BlockIds : ipc_uid[b] \in {0, current_uid[b]}
  /\ \A b \in BlockIds : b \notin all_blocks => ipc_uid[b] = 0
  /\ alloc.pc \in {"unstamp", "unclaim"} => ipc_uid[alloc.block] = 0
  /\ \A p \in Publishers : publishing[p].step \in {"marked", "timed"} =>
       ipc_uid[BufferOf(p)] = current_uid[BufferOf(p)]

\* Descriptors name UIDs drawn before; those of the current use of a block are
\* valid; none names a block that was just created.
SentDescriptors ==
  /\ \A d \in sent : d.block \in all_blocks /\ d.uid <= uids_drawn
  /\ \A d \in sent : d.uid = current_uid[d.block] => ipc_uid[d.block] = d.uid
  /\ alloc.fresh => \A d \in sent : d.block # alloc.block

ImportsAreSent == \A i \in Importers : imp[i].pc # "idle" => imp[i].desc \in sent

GenerationInv == HeaderUid /\ SentDescriptors /\ ImportsAreSent

-----------------------------------------------------------------------------
(* Part 3: leases *)

\* Nobody has counted itself in a block that was not handed out yet.
UnreadBlocks ==
  \A b \in BlockIds : b \notin all_blocks \/ (alloc.fresh /\ alloc.block = b) =>
    reader_state[b] = 0

PinnedByImport == \A i \in Importers : Imported(i) => UidMatches(i)

PinnedByHandle ==
  \A h \in ReadHandles :
    /\ handle[h].block = NoBlock => handle[h] = NoHandle
    /\ handle[h].block # NoBlock => handle[h].block \in all_blocks
    /\ handle[h].block # NoBlock /\ ~handle[h].local =>
         handle[h].uid # 0 /\ handle[h].uid = ipc_uid[handle[h].block]

LeaseInv == ReaderAccounting /\ UnreadBlocks /\ PinnedByImport /\ PinnedByHandle

-----------------------------------------------------------------------------
(* Part 4: bytes *)

\* A use of a block that was published is not written any more.
PublishedIsFinal ==
  /\ \A p \in Publishers : publishing[p].step # "idle" => write_state[BufferOf(p)] = "Finalized"
  /\ \A b \in BlockIds : ipc_uid[b] # 0 => write_state[b] = "Finalized"
  /\ \A d \in sent : d.uid = current_uid[d.block] =>
       write_state[d.block] = "Finalized" /\ payload[d.block] = d.bytes

\* A local ReadHandle excludes the writer.
HandleExcludesWriter ==
  \A h \in ReadHandles : handle[h].block # NoBlock =>
    /\ write_state[handle[h].block] # "InUse"
    /\ payload[handle[h].block] = handle[h].bytes

BytesInv == PublishedIsFinal /\ HandleExcludesWriter

IndInv ==
  /\ PoolInv
  /\ NoBlockLost
  /\ GenerationInv
  /\ LeaseInv
  /\ WritesBeforePublish => BytesInv
=============================================================================
