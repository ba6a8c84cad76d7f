----------------------------- MODULE LocalHandles -----------------------------
(***************************************************************************)
(* One process: SharedBuffer objects, the HandleState that a buffer        *)
(* creates when it is first asked for a handle, and the ReadHandles and    *)
(* WriteHandles that may be moved and may outlive their buffer             *)
(* (shared_buffer.cpp, shared_buffer_impl.hpp, from_input_buffer).         *)
(*                                                                         *)
(* get_read_handle() is const, so several threads may run it on one        *)
(* buffer; it takes one step per access to shared data.  The operations    *)
(* that are not const need the buffer for themselves and are single steps. *)
(*                                                                         *)
(* The memory pool appears as the set of blocks in use: its own steps and  *)
(* the publication of buffers are modelled in SharedBufferTransport.       *)
(***************************************************************************)
EXTENDS Integers, FiniteSets

CONSTANTS
  Buffers,        \* SharedBuffer objects
  ReadHandles,    \* ReadHandle objects
  WriteHandles,   \* WriteHandle objects
  Threads,        \* threads that call get_read_handle()
  MaxBlocks,      \* bound: blocks 0 .. MaxBlocks - 1 are mapped
  RemoteBlocks,   \* blocks that were imported from other processes
  MaxStates,      \* bound: HandleState objects alive at one time
  ReuseClaimed,   \* kSharedBufferReuseClaimed
  ScopedWriters   \* TRUE: a buffer outlives the WriteHandles taken from it

VARIABLES
  reader_state,   \* the reader word of every block, see ControlHeader
  used,           \* blocks of this process's pool with in_use set
  buffer,         \* buffer[x]: data_ptr_, writable_, handle_state_, held_reader_lease_
  hstate,         \* the HandleState objects
  rh,             \* ReadHandle objects
  wh,             \* WriteHandle objects
  call            \* call[t]: the get_read_handle() that t is running

vars == <<reader_state, used, buffer, hstate, rh, wh, call>>

Header == INSTANCE ControlHeader WITH ipc_uid <- 0, publish_timestamp_us <- 0

BlockIds == Header!BlockIds
LocalBlocks == BlockIds \ RemoteBlocks
StateIds == 1 .. MaxStates

None == -1

ASSUME LocalAssumption ==
  /\ MaxBlocks \in Nat \ {0} /\ MaxStates \in Nat
  /\ ReuseClaimed \in Nat /\ ReuseClaimed > 1
  /\ RemoteBlocks \subseteq 0 .. (MaxBlocks - 1)
  /\ IsFiniteSet(Buffers) /\ IsFiniteSet(ReadHandles) /\ IsFiniteSet(WriteHandles)
  /\ IsFiniteSet(Threads) /\ None \notin Buffers \cup ReadHandles
  /\ ScopedWriters \in BOOLEAN

NoBlock == -1
NoState == 0
Empty == [block |-> NoBlock, writable |-> TRUE, state |-> NoState, held |-> FALSE]
NoRead == [block |-> NoBlock, state |-> NoState, promoted |-> FALSE]
NoWrite == [block |-> NoBlock, state |-> NoState]
NoCall == [pc |-> "idle", buf |-> None, handle |-> None, state |-> NoState]

NewState == [state |-> "Unset", active_readers |-> 0]

Init ==
  /\ reader_state = [b \in BlockIds |-> 0]
  /\ used = {}
  /\ buffer = [x \in Buffers |-> Empty]
  /\ hstate = [s \in StateIds |-> NewState]
  /\ rh = [h \in ReadHandles |-> NoRead]
  /\ wh = [w \in WriteHandles |-> NoWrite]
  /\ call = [t \in Threads |-> NoCall]

\* A shared_ptr keeps a HandleState alive; an object without one is free memory.
LiveStates ==
  {buffer[x].state : x \in Buffers} \cup {rh[h].state : h \in ReadHandles}
    \cup {wh[w].state : w \in WriteHandles} \cup {call[t].state : t \in Threads}

FreeStates == StateIds \ LiveStates
FreshState == CHOOSE s \in FreeStates : TRUE

Owned(x) == buffer[x].block # NoBlock /\ buffer[x].writable
Imported(x) == buffer[x].block # NoBlock /\ ~buffer[x].writable

\* A thread is inside a const method of x.
Busy(x) == \E t \in Threads : call[t].pc # "idle" /\ call[t].buf = x

WriterActive(w) == wh[w].state # NoState /\ hstate[wh[w].state].state = "InUse"

\* The application keeps x alive for its writer.
KeepsWriter(x) ==
  ScopedWriters =>
    \A w \in WriteHandles : WriterActive(w) => wh[w].state # buffer[x].state

\* Mutant: blocks of other processes are taken for free ones.
AvailableAnywhere == {b \in BlockIds \ used : reader_state[b] = 0}

\* What the pool may hand out: a block that is not used and that nobody reads.
Available == {b \in LocalBlocks \ used : reader_state[b] = 0}

-----------------------------------------------------------------------------
(* Creating and destroying buffers *)

\* SharedBufferImpl(size): allocate_raw
Allocate(x) ==
  /\ buffer[x] = Empty /\ ~Busy(x)
  /\ \E b \in Available :
       /\ used' = used \cup {b}
       /\ buffer' = [buffer EXCEPT ![x].block = b]
  /\ UNCHANGED <<reader_state, hstate, rh, wh, call>>

\* from_descriptor_with_endpoint returned x
Import(x) ==
  /\ buffer[x] = Empty /\ ~Busy(x)
  /\ \E b \in RemoteBlocks :
       /\ Header!AcquireReader(b)
       /\ buffer' = [buffer EXCEPT
            ![x] = [block |-> b, writable |-> FALSE, state |-> NoState, held |-> FALSE]]
  /\ UNCHANGED <<used, hstate, rh, wh, call>>

\* Mutant: the held lease is forgotten.
ImportOnly(x) == IF Imported(x) THEN 1 ELSE 0

\* References that x gives back: the held lease and, by its deleter, the import.
References(x) == (IF buffer[x].held THEN 1 ELSE 0) + (IF Imported(x) THEN 1 ELSE 0)

\* fetch_sub, n times
Released(word, n) == (word - n) % (2 * ReuseClaimed)

\* SharedBuffer::reset
ResetEffect(x) ==
  /\ reader_state' = [b \in BlockIds |->
       IF b = buffer[x].block THEN Released(reader_state[b], References(x)) ELSE reader_state[b]]
  /\ used' = IF Owned(x) THEN used \ {buffer[x].block} ELSE used

\* ~SharedBuffer, and clear(): the buffer is replaced by an empty one
Reset(x) ==
  /\ buffer[x] # Empty /\ ~Busy(x) /\ KeepsWriter(x)
  /\ ResetEffect(x)
  /\ buffer' = [buffer EXCEPT ![x] = Empty]
  /\ UNCHANGED <<hstate, rh, wh, call>>

\* Mutant: the source of a move keeps its pointer and its state.
StillThere(x) == buffer[x]

MovedFrom(x) == Empty

\* SharedBuffer(SharedBuffer &&) when y is empty, and operator=(SharedBuffer &&)
MoveBuffer(x, y) ==
  /\ x # y /\ buffer[x] # Empty /\ ~Busy(x) /\ ~Busy(y) /\ KeepsWriter(y)
  /\ ResetEffect(y)
  /\ buffer' = [buffer EXCEPT ![y] = buffer[x], ![x] = MovedFrom(x)]
  /\ UNCHANGED <<hstate, rh, wh, call>>

\* SharedBuffer::hold_reader_reference
HoldReader(x) ==
  /\ buffer[x].block # NoBlock /\ ~buffer[x].held /\ ~Busy(x)
  /\ Header!AcquireReader(buffer[x].block)
  /\ buffer' = [buffer EXCEPT ![x].held = TRUE]
  /\ UNCHANGED <<used, hstate, rh, wh, call>>

ReadAllowed(x) ==
  /\ buffer[x].state # NoState => hstate[buffer[x].state].state # "InUse"
  /\ Header!CanAcquireReader(buffer[x].block)

\* A new block that was written and finalized through a WriteHandle of its own.
WrittenBuffer(b, s) == [Empty EXCEPT !.block = b, !.state = s]
FinalizedState == [NewState EXCEPT !.state = "Finalized"]

\* SharedBufferImpl::resize: the payload is copied to a new block, through
\* handles that are closed again, and the new buffer replaces the old one.
\* A reader that is refused throws, and the new block goes back to the pool.
Resize(x) ==
  /\ buffer[x].block # NoBlock /\ ~Busy(x) /\ ReadAllowed(x)
  /\ FreeStates # {}
  /\ \E b \in Available :
       /\ reader_state' = [reader_state EXCEPT
            ![buffer[x].block] = Released(@, References(x))]
       /\ used' = (IF Owned(x) THEN used \ {buffer[x].block} ELSE used) \cup {b}
       /\ buffer' = [buffer EXCEPT ![x] = WrittenBuffer(b, FreshState)]
       /\ hstate' = [hstate EXCEPT ![FreshState] = FinalizedState]
  /\ UNCHANGED <<rh, wh, call>>

\* SharedBufferImpl::clone of x into y; the read handle that it takes and drops
\* leaves a HandleState behind in x.
Clone(x, y) ==
  LET isNew == buffer[x].state = NoState IN
  /\ buffer[x].block # NoBlock /\ ReadAllowed(x) /\ ~Busy(x)
  /\ buffer[y] = Empty /\ ~Busy(y)
  /\ FreeStates # {}
  /\ \E b \in Available, s \in (IF isNew THEN FreeStates \ {FreshState} ELSE {buffer[x].state}) :
       /\ used' = used \cup {b}
       /\ buffer' = [buffer EXCEPT ![x].state = s, ![y] = WrittenBuffer(b, FreshState)]
       /\ hstate' = [hstate EXCEPT ![s] = IF isNew THEN NewState ELSE @,
                                   ![FreshState] = FinalizedState]
  /\ UNCHANGED <<reader_state, rh, wh, call>>

-----------------------------------------------------------------------------
(* SharedBuffer::get_read_handle, a const method *)

Proceed(t, pc) == call' = [call EXCEPT ![t].pc = pc]
Return(t) == call' = [call EXCEPT ![t] = NoCall]

BeginRead(t, x, h) ==
  /\ call[t] = NoCall
  /\ rh[h] = NoRead
  /\ \A u \in Threads : call[u].handle # h
  /\ call' = [call EXCEPT ![t] = [NoCall EXCEPT !.pc = "check", !.buf = x, !.handle = h]]
  /\ UNCHANGED <<reader_state, used, buffer, hstate, rh, wh>>

\* handle_state_ == nullptr
CheckState(t) ==
  /\ call[t].pc = "check"
  /\ Proceed(t, IF buffer[call[t].buf].state = NoState THEN "create" ELSE "capture")
  /\ UNCHANGED <<reader_state, used, buffer, hstate, rh, wh>>

\* handle_state_ = std::make_shared<HandleState>(): nothing orders this store
\* with that of another thread.
CreateState(t) ==
  /\ call[t].pc = "create"
  /\ FreeStates # {}
  /\ buffer' = [buffer EXCEPT ![call[t].buf].state = FreshState]
  /\ hstate' = [hstate EXCEPT ![FreshState] = NewState]
  /\ Proceed(t, "capture")
  /\ UNCHANGED <<reader_state, used, rh, wh>>

\* auto state = handle_state_
CaptureState(t) ==
  /\ call[t].pc = "capture"
  /\ call' = [call EXCEPT ![t] = [@ EXCEPT !.pc = "enter", !.state = buffer[call[t].buf].state]]
  /\ UNCHANGED <<reader_state, used, buffer, hstate, rh, wh>>

\* Mutant: a writer is not looked for.
NobodyWrites(s) == FALSE

Writing(s) == hstate[s].state = "InUse"

\* The critical section of get_read_handle
EnterRead(t) ==
  /\ call[t].pc = "enter"
  /\ IF Writing(call[t].state)
     THEN Return(t) /\ UNCHANGED hstate
     ELSE /\ hstate' = [hstate EXCEPT ![call[t].state].active_readers = @ + 1]
          /\ Proceed(t, "lease")
  /\ UNCHANGED <<reader_state, used, buffer, rh, wh>>

\* make_lease succeeds; an empty buffer has no control header and no lease.
LeaseRead(t) ==
  LET b == buffer[call[t].buf].block IN
  /\ call[t].pc = "lease"
  /\ IF b = NoBlock THEN UNCHANGED reader_state ELSE Header!AcquireReader(b)
  /\ rh' = [rh EXCEPT ![call[t].handle] =
              [block |-> b, state |-> call[t].state, promoted |-> FALSE]]
  /\ Return(t)
  /\ UNCHANGED <<used, buffer, hstate, wh>>

\* Mutant: the slot is kept.
StayRead(s) == UNCHANGED hstate

LeaveRead(s) == hstate' = [hstate EXCEPT ![s].active_readers = IF @ > 0 THEN @ - 1 ELSE 0]

\* make_lease throws
LeaseRefused(t) ==
  /\ call[t].pc = "lease"
  /\ buffer[call[t].buf].block # NoBlock
  /\ ~Header!CanAcquireReader(buffer[call[t].buf].block)
  /\ LeaveRead(call[t].state)
  /\ Return(t)
  /\ UNCHANGED <<reader_state, used, buffer, rh, wh>>

\* from_input_buffer on a buffer of another backend: the bytes are copied to a
\* new buffer, which the handle owns.
Promote(h) ==
  /\ rh[h] = NoRead
  /\ \A t \in Threads : call[t].handle # h
  /\ FreeStates # {}
  /\ \E b \in Available :
       /\ Header!AcquireReader(b)
       /\ used' = used \cup {b}
       /\ rh' = [rh EXCEPT ![h] = [block |-> b, state |-> FreshState, promoted |-> TRUE]]
  /\ hstate' = [hstate EXCEPT ![FreshState] = [FinalizedState EXCEPT !.active_readers = 1]]
  /\ UNCHANGED <<buffer, wh, call>>

\* ReadHandle::release: the slot, the lease, and the promoted buffer
ReleaseRead(h) ==
  /\ LeaveRead(rh[h].state)
  /\ IF rh[h].block = NoBlock THEN UNCHANGED reader_state ELSE Header!ReleaseReader(rh[h].block)
  /\ used' = IF rh[h].promoted THEN used \ {rh[h].block} ELSE used

\* ~ReadHandle
CloseRead(h) ==
  /\ rh[h] # NoRead
  /\ ReleaseRead(h)
  /\ rh' = [rh EXCEPT ![h] = NoRead]
  /\ UNCHANGED <<buffer, wh, call>>

\* operator=(ReadHandle &&) onto a live handle
MoveRead(h, g) ==
  /\ h # g /\ rh[h] # NoRead /\ rh[g] # NoRead
  /\ ReleaseRead(g)
  /\ rh' = [rh EXCEPT ![g] = rh[h], ![h] = NoRead]
  /\ UNCHANGED <<buffer, wh, call>>

-----------------------------------------------------------------------------
(* SharedBuffer::get_write_handle and finalization *)

\* The critical section of get_write_handle
Grant(x, w, s) ==
  /\ hstate[s].state = "Unset" /\ hstate[s].active_readers = 0
  /\ hstate' = [hstate EXCEPT ![s].state = "InUse"]
  /\ wh' = [wh EXCEPT ![w] = [block |-> buffer[x].block, state |-> s]]

GetWriteHandle(x, w) ==
  /\ Owned(x) /\ ~Busy(x) /\ wh[w] = NoWrite
  /\ \/ /\ buffer[x].state # NoState
        /\ Grant(x, w, buffer[x].state)
        /\ UNCHANGED buffer
     \/ /\ buffer[x].state = NoState /\ FreeStates # {}
        /\ buffer' = [buffer EXCEPT ![x].state = FreshState]
        /\ hstate' = [hstate EXCEPT ![FreshState] = [NewState EXCEPT !.state = "InUse"]]
        /\ wh' = [wh EXCEPT ![w] = [block |-> buffer[x].block, state |-> FreshState]]
  /\ UNCHANGED <<reader_state, used, rh, call>>

Finalized(s) == [hstate EXCEPT ![s].state = "Finalized"]

\* SharedBuffer::finalize_write_handle, a const method
FinalizeWrite(x) ==
  /\ buffer[x].state # NoState
  /\ hstate[buffer[x].state].state = "InUse"
  /\ hstate' = Finalized(buffer[x].state)
  /\ UNCHANGED <<reader_state, used, buffer, rh, wh, call>>

\* ~WriteHandle
CloseWrite(w) ==
  /\ wh[w] # NoWrite
  /\ hstate' = Finalized(wh[w].state)
  /\ wh' = [wh EXCEPT ![w] = NoWrite]
  /\ UNCHANGED <<reader_state, used, buffer, rh, call>>

\* operator=(WriteHandle &&) onto a live handle
MoveWrite(w, v) ==
  /\ w # v /\ wh[w] # NoWrite /\ wh[v] # NoWrite
  /\ hstate' = Finalized(wh[v].state)
  /\ wh' = [wh EXCEPT ![v] = wh[w], ![w] = NoWrite]
  /\ UNCHANGED <<reader_state, used, buffer, rh, call>>

-----------------------------------------------------------------------------
ReadStep(t) ==
  \/ \E x \in Buffers, h \in ReadHandles : BeginRead(t, x, h)
  \/ CheckState(t)
  \/ CreateState(t)
  \/ CaptureState(t)
  \/ EnterRead(t)
  \/ LeaseRead(t)
  \/ LeaseRefused(t)

BufferStep(x) ==
  \/ Allocate(x)
  \/ Import(x)
  \/ Reset(x)
  \/ HoldReader(x)
  \/ Resize(x)
  \/ FinalizeWrite(x)
  \/ \E y \in Buffers : MoveBuffer(x, y) \/ Clone(x, y)
  \/ \E w \in WriteHandles : GetWriteHandle(x, w)

HandleStep ==
  \/ \E h \in ReadHandles :
       Promote(h) \/ CloseRead(h) \/ \E g \in ReadHandles : MoveRead(h, g)
  \/ \E w \in WriteHandles :
       CloseWrite(w) \/ \E v \in WriteHandles : MoveWrite(w, v)

Next ==
  \/ \E t \in Threads : ReadStep(t)
  \/ \E x \in Buffers : BufferStep(x)
  \/ HandleStep

Spec == Init /\ [][Next]_vars

-----------------------------------------------------------------------------
StateRefs == StateIds \cup {NoState}
BlockRefs == BlockIds \cup {NoBlock}

\* Every variable has the type of the object that it stands for.
TypeOK ==
  /\ reader_state \in [BlockIds -> Header!ReaderWords]
  /\ used \subseteq LocalBlocks
  /\ buffer \in [Buffers -> [block : BlockRefs, writable : BOOLEAN, state : StateRefs,
                             held : BOOLEAN]]
  /\ hstate \in [StateIds -> [state : {"Unset", "InUse", "Finalized"}, active_readers : Nat]]
  /\ rh \in [ReadHandles -> [block : BlockRefs, state : StateRefs, promoted : BOOLEAN]]
  /\ wh \in [WriteHandles -> [block : BlockRefs, state : StateRefs]]
  /\ call \in [Threads -> [pc : {"idle", "check", "create", "capture", "enter", "lease"},
                           buf : Buffers \cup {None}, handle : ReadHandles \cup {None},
                           state : StateRefs]]

\* A HandleState counts the ReadHandles that refer to it and the calls that are
\* about to make one: get_read_handle gives the slot back when make_lease throws,
\* moves carry it, and release gives it back once.
SlotAccounting ==
  \A s \in LiveStates \ {NoState} :
    hstate[s].active_readers =
      Cardinality({h \in ReadHandles : rh[h].state = s})
        + Cardinality({t \in Threads : call[t].pc = "lease" /\ call[t].state = s})

\* The reader word of a block counts its ReadHandles, the references that
\* buffers hold, and the imports: whatever is moved, reset or resized, each
\* reference is given back once and never to another block.
LeaseAccounting ==
  \A b \in BlockIds :
    reader_state[b] =
      Cardinality({h \in ReadHandles : rh[h].block = b})
        + Cardinality({x \in Buffers : buffer[x].block = b /\ buffer[x].held})
        + Cardinality({x \in Buffers : buffer[x].block = b /\ Imported(x)})

\* A block of the pool that is in use has one owner, a buffer or a handle that
\* promoted one, and no two buffers share a HandleState: moves and resize
\* neither lose nor double the duty to free a block.
OneOwner ==
  /\ \A b \in LocalBlocks :
       Cardinality({x \in Buffers : buffer[x].block = b})
         + Cardinality({h \in ReadHandles : rh[h].promoted /\ rh[h].block = b})
           = IF b \in used THEN 1 ELSE 0
  /\ \A x, y \in Buffers :
       buffer[x].state # NoState /\ buffer[x].state = buffer[y].state => x = y

\* An active writer has its HandleState to itself: no second writer, no
\* ReadHandle and no call that is about to make one, however handles are moved
\* and buffers reset (get_read_handle and get_write_handle under the state mutex).
WriterAlone ==
  \A w \in WriteHandles : WriterActive(w) =>
    /\ \A v \in WriteHandles \ {w} : wh[v].state # wh[w].state
    /\ \A h \in ReadHandles : rh[h].state # wh[w].state
    /\ hstate[wh[w].state].active_readers = 0

\* While a writer is active nobody holds a local ReadHandle of its block.
WriterExcludesReaders ==
  \A w \in WriteHandles, h \in ReadHandles : WriterActive(w) => rh[h].block # wh[w].block
=============================================================================
