---------------------------- MODULE ControlHeader ----------------------------
(***************************************************************************)
(* The shared SharedBufferControlHeader of every mapped block and the four *)
(* free functions that arbitrate between readers of a block and its reuse  *)
(* (shared_buffer_memory_pool.hpp).  The header is the only memory that    *)
(* the publisher process and the subscriber processes both write.          *)
(*                                                                         *)
(* Every operator below is one atomic access.  The compare-exchange loop   *)
(* of try_acquire_shared_buffer_reader linearises at its last access: it   *)
(* either observes a word it must refuse or adds one to the word it read.  *)
(*                                                                         *)
(* magic, abi_version and payload_size never change after create_block and *)
(* are abstracted: a descriptor of the model always names a real block.    *)
(***************************************************************************)
EXTENDS Integers

CONSTANTS
  MaxBlocks,     \* bound: block ids the pool may draw
  ReuseClaimed   \* kSharedBufferReuseClaimed, 2^31 in the code

ASSUME MaxBlocksAssumption == MaxBlocks \in Nat \ {0}
ASSUME ReuseClaimedAssumption == ReuseClaimed \in Nat /\ ReuseClaimed > 1

VARIABLES
  ipc_uid,               \* 0, or the UID of the publication readers may use
  reader_state,          \* claim bit and reader count in one word
  publish_timestamp_us   \* 0, or the clock of the latest publication

headerVars == <<ipc_uid, reader_state, publish_timestamp_us>>

BlockIds == 0 .. (MaxBlocks - 1)

\* kSharedBufferReaderCountMask: the bits below the claim bit.
ReaderCountMask == ReuseClaimed - 1

\* The word has one bit above the count; arithmetic on it wraps at 2 * ReuseClaimed.
ReaderWords == 0 .. (2 * ReuseClaimed - 1)

IsClaimed(word) == word >= ReuseClaimed

\* word & kSharedBufferReaderCountMask
ReaderCount(word) == IF IsClaimed(word) THEN word - ReuseClaimed ELSE word

HeaderInit ==
  /\ ipc_uid = [b \in BlockIds |-> 0]
  /\ reader_state = [b \in BlockIds |-> 0]
  /\ publish_timestamp_us = [b \in BlockIds |-> 0]

\* Mutant: the count is not checked against its mask.
CanAcquireUnsaturated(b) == ~IsClaimed(reader_state[b])

CanAcquireReader(b) ==
  /\ ~IsClaimed(reader_state[b])
  /\ ReaderCount(reader_state[b]) # ReaderCountMask

\* try_acquire_shared_buffer_reader returning true
AcquireReader(b) ==
  /\ CanAcquireReader(b)
  /\ reader_state' = [reader_state EXCEPT ![b] = @ + 1]

\* Mutant: the claim bit is subtracted instead of one reader.
ReleaseReaderAsClaim(b) == reader_state' = [reader_state EXCEPT ![b] = @ - ReuseClaimed]

\* release_shared_buffer_reader: fetch_sub wraps instead of failing at zero
ReleaseReader(b) ==
  reader_state' = [reader_state EXCEPT ![b] = IF @ = 0 THEN 2 * ReuseClaimed - 1 ELSE @ - 1]

\* Mutant: the compare-exchange expects whatever it read.
ClaimReuseWhileRead(b) == reader_state' = [reader_state EXCEPT ![b] = ReuseClaimed]

\* try_claim_shared_buffer_reuse returning true
ClaimReuse(b) ==
  /\ reader_state[b] = 0
  /\ reader_state' = [reader_state EXCEPT ![b] = ReuseClaimed]

\* release_shared_buffer_reuse_claim: a plain store
ReleaseReuseClaim(b) == reader_state' = [reader_state EXCEPT ![b] = 0]
=============================================================================
