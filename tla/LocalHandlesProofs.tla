--------------------------- MODULE LocalHandlesProofs ---------------------------
(***************************************************************************)
(* The invariants of LocalHandles for any number of buffers, handles,      *)
(* threads, blocks and HandleStates.                                       *)
(*                                                                         *)
(* The argument: slots, references and blocks are counted by who holds     *)
(* them, and a step changes one or two holders.  A HandleState that a      *)
(* writer was granted is never Unset again, so that it has one writer, and *)
(* no slot while the writer is active.                                     *)
(***************************************************************************)
EXTENDS LocalHandles, FiniteSetTheorems, TLAPS

BufferRecord == [block : BlockRefs, writable : BOOLEAN, state : StateRefs, held : BOOLEAN]
StateRecord == [state : {"Unset", "InUse", "Finalized"}, active_readers : Nat]
ReadRecord == [block : BlockRefs, state : StateRefs, promoted : BOOLEAN]
WriteRecord == [block : BlockRefs, state : StateRefs]
CallRecord == [pc : {"idle", "check", "create", "capture", "enter", "lease"},
               buf : Buffers \cup {None}, handle : ReadHandles \cup {None}, state : StateRefs]

Types ==
  /\ reader_state \in [BlockIds -> Header!ReaderWords]
  /\ used \subseteq LocalBlocks
  /\ buffer \in [Buffers -> BufferRecord]
  /\ hstate \in [StateIds -> StateRecord]
  /\ rh \in [ReadHandles -> ReadRecord]
  /\ wh \in [WriteHandles -> WriteRecord]
  /\ call \in [Threads -> CallRecord]

\* An imported buffer has a block of another process; one without a block holds
\* no reference.
BufferFits(r) ==
  /\ r.block # NoBlock => r.block \in IF r.writable THEN LocalBlocks ELSE RemoteBlocks
  /\ r.block = NoBlock => r.writable /\ ~r.held

\* A handle without a HandleState is no handle; a promoted one owns a local block.
ReadFits(r) ==
  /\ r.state = NoState => r = NoRead
  /\ r.promoted => r.block \in LocalBlocks

WriteFits(r) == r.state = NoState => r = NoWrite

\* A call fills an empty handle; it captures a HandleState that exists.
CallFits(c) ==
  /\ c.pc = "idle" => c = NoCall
  /\ c.pc # "idle" => c.buf \in Buffers /\ c.handle \in ReadHandles /\ rh[c.handle] = NoRead
  /\ c.pc \in {"check", "create", "capture"} => c.state = NoState
  /\ c.pc = "capture" => buffer[c.buf].state # NoState
  /\ c.pc \in {"enter", "lease"} => c.state # NoState

OneCallPerHandle ==
  \A t, u \in Threads : t # u /\ call[t].pc # "idle" => call[t].handle # call[u].handle

ShapeInv ==
  /\ Types
  /\ \A x \in Buffers : BufferFits(buffer[x])
  /\ \A h \in ReadHandles : ReadFits(rh[h])
  /\ \A w \in WriteHandles : WriteFits(wh[w])
  /\ \A t \in Threads : CallFits(call[t])
  /\ OneCallPerHandle

\* No block that a buffer or handle has is claimed here, and no count saturates.
WordsAreCounts == \A b \in BlockIds : reader_state[b] < ReuseClaimed

\* A HandleState has one writer in its life, and no slot while that is active.
WritersAreKnown ==
  /\ \A w \in WriteHandles : wh[w].state # NoState => hstate[wh[w].state].state # "Unset"
  /\ \A v, w \in WriteHandles : v # w /\ wh[v].state = wh[w].state => wh[v].state = NoState
  /\ \A s \in LiveStates \ {NoState} :
       hstate[s].state = "InUse" => hstate[s].active_readers = 0

-----------------------------------------------------------------------------
(* Shapes *)

\* FreshState is the state of no object.
LEMMA FreshIsFree ==
  ASSUME FreeStates # {}
  PROVE  /\ FreshState \in StateIds /\ FreshState # NoState
         /\ \A x \in Buffers : buffer[x].state # FreshState
         /\ \A h \in ReadHandles : rh[h].state # FreshState
         /\ \A w \in WriteHandles : wh[w].state # FreshState
         /\ \A t \in Threads : call[t].state # FreshState
  <1>1. FreshState \in FreeStates
    BY DEF FreshState
  <1>2. \A s \in StateIds : s # NoState
    BY LocalAssumption DEF StateIds, NoState
  <1>. QED BY <1>1, <1>2 DEF FreeStates, LiveStates

\* A word that loses references stays a word.
LEMMA ReleasedWord ==
  ASSUME NEW word \in Header!ReaderWords, NEW n \in 0 .. 2
  PROVE  /\ Released(word, n) \in Header!ReaderWords
         /\ n <= word => Released(word, n) = word - n
  <1>1. 2 * ReuseClaimed \in Nat \ {0} /\ word \in 0 .. (2 * ReuseClaimed - 1)
    BY LocalAssumption DEF Header!ReaderWords
  <1>2. (word - n) % (2 * ReuseClaimed) \in 0 .. (2 * ReuseClaimed - 1)
    BY <1>1
  <1>3. ASSUME n <= word PROVE (word - n) % (2 * ReuseClaimed) = word - n
    <2>1. word - n \in 0 .. (2 * ReuseClaimed - 1)
      BY <1>1, <1>3
    <2>. QED BY <1>1, <2>1
  <1>. QED BY <1>2, <1>3 DEF Released, Header!ReaderWords

\* References are counted and given back within the width of the word.
LEMMA AcquiredWord ==
  ASSUME reader_state \in [BlockIds -> Header!ReaderWords], NEW b \in BlockIds,
         Header!AcquireReader(b)
  PROVE  /\ reader_state' \in [BlockIds -> Header!ReaderWords]
         /\ reader_state' = [reader_state EXCEPT ![b] = reader_state[b] + 1]
         /\ reader_state'[b] < ReuseClaimed
  BY LocalAssumption DEF Header!AcquireReader, Header!CanAcquireReader, Header!ReaderWords,
       Header!IsClaimed, Header!ReaderCount, Header!ReaderCountMask

\* One reference is given back within the width of the word.
LEMMA GivenBackWord ==
  ASSUME reader_state \in [BlockIds -> Header!ReaderWords], NEW b \in BlockIds,
         Header!ReleaseReader(b)
  PROVE  reader_state' \in [BlockIds -> Header!ReaderWords]
  BY LocalAssumption DEF Header!ReleaseReader, Header!ReaderWords

\* A buffer gives back two references at most.
LEMMA ReferencesCount == \A x \in Buffers : References(x) \in 0 .. 2
  BY DEF References

\* The named records spell out TypeOK.
LEMMA TypesMatch == TypeOK <=> Types
  BY DEF TypeOK, Types, BufferRecord, StateRecord, ReadRecord, WriteRecord, CallRecord

\* Imported blocks are mapped blocks.
LEMMA RemoteMapped == RemoteBlocks \subseteq BlockIds
  BY LocalAssumption DEF BlockIds, Header!BlockIds

\* Leaving a HandleState keeps the type of all of them.
LEMMA LeftState ==
  ASSUME Types, NEW s, LeaveRead(s)
  PROVE  hstate' \in [StateIds -> StateRecord]
  <1>1. hstate \in [StateIds -> StateRecord]
    BY DEF Types
  <1>2. CASE s \in StateIds
    BY <1>1, <1>2 DEF LeaveRead, StateRecord
  <1>3. CASE s \notin StateIds
    BY <1>1, <1>3 DEF LeaveRead
  <1>. QED BY <1>2, <1>3

\* The records of a new buffer, of an imported one and of a promoted handle.
LEMMA WrittenRecord ==
  ASSUME NEW b \in LocalBlocks, NEW s \in StateRefs
  PROVE  WrittenBuffer(b, s) \in BufferRecord /\ BufferFits(WrittenBuffer(b, s))
  BY DEF WrittenBuffer, Empty, BufferRecord, BufferFits, LocalBlocks, BlockRefs

\* The record of an imported buffer.
LEMMA ImportedRecord ==
  ASSUME NEW b \in RemoteBlocks
  PROVE  LET r == [block |-> b, writable |-> FALSE, state |-> NoState, held |-> FALSE] IN
         r \in BufferRecord /\ BufferFits(r)
  BY RemoteMapped, LocalAssumption DEF Empty, BufferRecord, BufferFits, BlockRefs, StateRefs,
       NoBlock

\* Shapes, action by action: a call starts on a handle that no other call fills.
LEMMA ShapeBeginRead ==
  ASSUME ShapeInv, NEW t \in Threads, NEW x \in Buffers, NEW h \in ReadHandles,
         BeginRead(t, x, h)
  PROVE  ShapeInv'
  <1>. USE DEF ShapeInv
  <1>1. Types'
    <2>1. call' \in [Threads -> CallRecord]
      BY DEF Types, BeginRead, CallRecord, NoCall, StateRefs
    <2>2. UNCHANGED <<reader_state, used, buffer, hstate, rh, wh>>
      BY DEF BeginRead
    <2>. QED BY <2>1, <2>2 DEF Types
  <1>2. (\A z \in Buffers : BufferFits(buffer[z]))'
    BY DEF BufferFits, BeginRead
  <1>3. (\A k \in ReadHandles : ReadFits(rh[k]))'
    BY DEF ReadFits, BeginRead
  <1>4. (\A k \in WriteHandles : WriteFits(wh[k]))'
    BY DEF WriteFits, BeginRead
  <1>5. (\A u \in Threads : CallFits(call[u]))'
    BY DEF CallFits, OneCallPerHandle, Types, CallRecord, BeginRead, NoCall
  <1>6. OneCallPerHandle'
    BY LocalAssumption DEF OneCallPerHandle, CallFits, Types, CallRecord, BeginRead, NoCall
  <1>. QED BY <1>1, <1>2, <1>3, <1>4, <1>5, <1>6

\* A call that found a state will capture one.
LEMMA ShapeCheckState ==
  ASSUME ShapeInv, NEW t \in Threads,
         CheckState(t)
  PROVE  ShapeInv'
  <1>. USE DEF ShapeInv
  <1>1. Types'
    <2>1. call' \in [Threads -> CallRecord]
      BY DEF Types, CheckState, CallRecord, Proceed
    <2>2. UNCHANGED <<reader_state, used, buffer, hstate, rh, wh>>
      BY DEF CheckState
    <2>. QED BY <2>1, <2>2 DEF Types
  <1>2. (\A z \in Buffers : BufferFits(buffer[z]))'
    BY DEF BufferFits, CheckState
  <1>3. (\A k \in ReadHandles : ReadFits(rh[k]))'
    BY DEF ReadFits, CheckState
  <1>4. (\A k \in WriteHandles : WriteFits(wh[k]))'
    BY DEF WriteFits, CheckState
  <1>5. (\A u \in Threads : CallFits(call[u]))'
    BY DEF CallFits, OneCallPerHandle, Types, CallRecord, CheckState, Proceed
  <1>6. OneCallPerHandle'
    BY LocalAssumption DEF OneCallPerHandle, CallFits, Types, CallRecord, CheckState, Proceed
  <1>. QED BY <1>1, <1>2, <1>3, <1>4, <1>5, <1>6

\* The state that a call creates exists when it is captured.
LEMMA ShapeCreateState ==
  ASSUME ShapeInv, NEW t \in Threads,
         CreateState(t)
  PROVE  ShapeInv'
  <1>. USE DEF ShapeInv
  <1>1. Types'
    <2>1. buffer' \in [Buffers -> BufferRecord]
      BY FreshIsFree DEF Types, CreateState, BufferRecord, CallRecord, CallFits, StateRefs
    <2>2. hstate' \in [StateIds -> StateRecord]
      BY FreshIsFree DEF Types, CreateState, StateRecord, NewState
    <2>3. call' \in [Threads -> CallRecord]
      BY DEF Types, CreateState, CallRecord, Proceed
    <2>4. UNCHANGED <<reader_state, used, rh, wh>>
      BY DEF CreateState
    <2>. QED BY <2>1, <2>2, <2>3, <2>4 DEF Types
  <1>2. (\A z \in Buffers : BufferFits(buffer[z]))'
    BY FreshIsFree DEF BufferFits, Types, BufferRecord, CreateState, Proceed, NewState
  <1>3. (\A k \in ReadHandles : ReadFits(rh[k]))'
    BY DEF ReadFits, CreateState
  <1>4. (\A k \in WriteHandles : WriteFits(wh[k]))'
    BY DEF WriteFits, CreateState
  <1>5. (\A u \in Threads : CallFits(call[u]))'
    BY FreshIsFree DEF CallFits, OneCallPerHandle, Types, CallRecord, CreateState, Proceed, NewState
  <1>6. OneCallPerHandle'
    BY LocalAssumption DEF OneCallPerHandle, CallFits, Types, CallRecord, CreateState, Proceed,
         NewState
  <1>. QED BY <1>1, <1>2, <1>3, <1>4, <1>5, <1>6

\* A captured state is no null pointer.
LEMMA ShapeCaptureState ==
  ASSUME ShapeInv, NEW t \in Threads,
         CaptureState(t)
  PROVE  ShapeInv'
  <1>. USE DEF ShapeInv
  <1>1. Types'
    <2>1. call' \in [Threads -> CallRecord]
      <3>1. call[t] \in CallRecord /\ buffer[call[t].buf] \in BufferRecord
        BY DEF Types, CaptureState, CallRecord, CallFits
      <3>2. [call[t] EXCEPT !.pc = "enter", !.state = buffer[call[t].buf].state] \in CallRecord
        BY <3>1 DEF CallRecord, BufferRecord
      <3>. QED BY <3>2 DEF Types, CaptureState
    <2>2. UNCHANGED <<reader_state, used, buffer, hstate, rh, wh>>
      BY DEF CaptureState
    <2>. QED BY <2>1, <2>2 DEF Types
  <1>2. (\A z \in Buffers : BufferFits(buffer[z]))'
    BY DEF BufferFits, CaptureState
  <1>3. (\A k \in ReadHandles : ReadFits(rh[k]))'
    BY DEF ReadFits, CaptureState
  <1>4. (\A k \in WriteHandles : WriteFits(wh[k]))'
    BY DEF WriteFits, CaptureState
  <1>5. (\A u \in Threads : CallFits(call[u]))'
    BY DEF CallFits, OneCallPerHandle, Types, CallRecord, CaptureState
  <1>6. OneCallPerHandle'
    BY LocalAssumption DEF OneCallPerHandle, CallFits, Types, CallRecord, CaptureState
  <1>. QED BY <1>1, <1>2, <1>3, <1>4, <1>5, <1>6

\* A call that is refused ends with its handle empty.
LEMMA ShapeEnterRead ==
  ASSUME ShapeInv, NEW t \in Threads,
         EnterRead(t)
  PROVE  ShapeInv'
  <1>. USE DEF ShapeInv
  <1>1. Types'
    <2>1. hstate' \in [StateIds -> StateRecord]
      BY DEF Types, EnterRead, StateRecord, CallRecord, CallFits, StateRefs
    <2>2. call' \in [Threads -> CallRecord]
      BY DEF Types, EnterRead, CallRecord, Return, Proceed, NoCall, StateRefs
    <2>3. UNCHANGED <<reader_state, used, buffer, rh, wh>>
      BY DEF EnterRead
    <2>. QED BY <2>1, <2>2, <2>3 DEF Types
  <1>2. (\A z \in Buffers : BufferFits(buffer[z]))'
    BY DEF BufferFits, EnterRead
  <1>3. (\A k \in ReadHandles : ReadFits(rh[k]))'
    BY DEF ReadFits, EnterRead
  <1>4. (\A k \in WriteHandles : WriteFits(wh[k]))'
    BY DEF WriteFits, EnterRead
  <1>5. (\A u \in Threads : CallFits(call[u]))'
    BY DEF CallFits, OneCallPerHandle, Types, CallRecord, EnterRead, Return, Proceed, Writing,
         NoCall
  <1>6. OneCallPerHandle'
    BY LocalAssumption DEF OneCallPerHandle, CallFits, Types, CallRecord, EnterRead, Return,
         Proceed, Writing, NoCall
  <1>. QED BY <1>1, <1>2, <1>3, <1>4, <1>5, <1>6

\* A handle that a call has filled refers to the captured state.
LEMMA ShapeLeaseRead ==
  ASSUME ShapeInv, NEW t \in Threads,
         LeaseRead(t)
  PROVE  ShapeInv'
  <1>. USE DEF ShapeInv
  <1>1. Types'
    <2>1. reader_state' \in [BlockIds -> Header!ReaderWords]
      BY AcquiredWord DEF Types, LeaseRead, BufferRecord, BlockRefs, CallFits
    <2>2. rh' \in [ReadHandles -> ReadRecord]
      BY DEF Types, LeaseRead, ReadRecord, BufferRecord, CallRecord, CallFits
    <2>3. call' \in [Threads -> CallRecord]
      BY DEF Types, LeaseRead, CallRecord, Return, NoCall, StateRefs
    <2>4. UNCHANGED <<used, buffer, hstate, wh>>
      BY DEF LeaseRead
    <2>. QED BY <2>1, <2>2, <2>3, <2>4 DEF Types
  <1>2. (\A z \in Buffers : BufferFits(buffer[z]))'
    BY DEF BufferFits, LeaseRead
  <1>3. (\A k \in ReadHandles : ReadFits(rh[k]))'
    BY DEF ReadFits, CallFits, Types, ReadRecord, CallRecord, LeaseRead, Return, NoCall
  <1>4. (\A k \in WriteHandles : WriteFits(wh[k]))'
    BY DEF WriteFits, LeaseRead
  <1>5. (\A u \in Threads : CallFits(call[u]))'
    BY DEF CallFits, OneCallPerHandle, Types, CallRecord, LeaseRead, Return, NoCall
  <1>6. OneCallPerHandle'
    BY LocalAssumption DEF OneCallPerHandle, CallFits, Types, CallRecord, LeaseRead, Return, NoCall
  <1>. QED BY <1>1, <1>2, <1>3, <1>4, <1>5, <1>6

\* A call without a lease ends with its handle empty.
LEMMA ShapeLeaseRefused ==
  ASSUME ShapeInv, NEW t \in Threads,
         LeaseRefused(t)
  PROVE  ShapeInv'
  <1>. USE DEF ShapeInv
  <1>1. Types'
    <2>1. hstate' \in [StateIds -> StateRecord]
      BY LeftState DEF Types, LeaseRefused, StateRecord
    <2>2. call' \in [Threads -> CallRecord]
      BY DEF Types, LeaseRefused, CallRecord, Return, NoCall, StateRefs
    <2>3. UNCHANGED <<reader_state, used, buffer, rh, wh>>
      BY DEF LeaseRefused
    <2>. QED BY <2>1, <2>2, <2>3 DEF Types
  <1>2. (\A z \in Buffers : BufferFits(buffer[z]))'
    BY DEF BufferFits, LeaseRefused
  <1>3. (\A k \in ReadHandles : ReadFits(rh[k]))'
    BY DEF ReadFits, LeaseRefused
  <1>4. (\A k \in WriteHandles : WriteFits(wh[k]))'
    BY DEF WriteFits, LeaseRefused
  <1>5. (\A u \in Threads : CallFits(call[u]))'
    BY DEF CallFits, OneCallPerHandle, Types, CallRecord, LeaseRefused, LeaveRead, Return, NoCall
  <1>6. OneCallPerHandle'
    BY LocalAssumption DEF OneCallPerHandle, CallFits, Types, CallRecord, LeaseRefused, LeaveRead,
         Return, NoCall
  <1>. QED BY <1>1, <1>2, <1>3, <1>4, <1>5, <1>6

\* An allocated block is a block of the pool.
LEMMA ShapeAllocate ==
  ASSUME ShapeInv, NEW x \in Buffers,
         Allocate(x)
  PROVE  ShapeInv'
  <1>. USE DEF ShapeInv
  <1>1. Types'
    <2>1. used' \subseteq LocalBlocks
      BY DEF Types, Allocate, Available
    <2>2. buffer' \in [Buffers -> BufferRecord]
      BY DEF Types, Allocate, BufferRecord, Available, LocalBlocks, BlockRefs
    <2>3. UNCHANGED <<reader_state, hstate, rh, wh, call>>
      BY DEF Allocate
    <2>. QED BY <2>1, <2>2, <2>3 DEF Types
  <1>2. (\A z \in Buffers : BufferFits(buffer[z]))'
    BY DEF BufferFits, Types, BufferRecord, Allocate, Available, Empty
  <1>3. (\A k \in ReadHandles : ReadFits(rh[k]))'
    BY DEF ReadFits, Allocate
  <1>4. (\A k \in WriteHandles : WriteFits(wh[k]))'
    BY DEF WriteFits, Allocate
  <1>5. (\A u \in Threads : CallFits(call[u]))'
    BY DEF CallFits, OneCallPerHandle, Types, CallRecord, Allocate, Available, Empty
  <1>6. OneCallPerHandle'
    BY DEF OneCallPerHandle, Allocate
  <1>. QED BY <1>1, <1>2, <1>3, <1>4, <1>5, <1>6

\* An imported buffer is read-only.
LEMMA ShapeImport ==
  ASSUME ShapeInv, NEW x \in Buffers,
         Import(x)
  PROVE  ShapeInv'
  <1>. USE DEF ShapeInv
  <1>1. Types'
    <2>1. reader_state' \in [BlockIds -> Header!ReaderWords]
      BY AcquiredWord, RemoteMapped DEF Types, Import
    <2>2. buffer' \in [Buffers -> BufferRecord]
      BY ImportedRecord DEF Types, Import, BufferRecord
    <2>3. UNCHANGED <<used, hstate, rh, wh, call>>
      BY DEF Import
    <2>. QED BY <2>1, <2>2, <2>3 DEF Types
  <1>2. (\A z \in Buffers : BufferFits(buffer[z]))'
    BY ImportedRecord DEF BufferFits, Types, BufferRecord, Import, Empty, LocalBlocks
  <1>3. (\A k \in ReadHandles : ReadFits(rh[k]))'
    BY DEF ReadFits, Import
  <1>4. (\A k \in WriteHandles : WriteFits(wh[k]))'
    BY DEF WriteFits, Import
  <1>5. (\A u \in Threads : CallFits(call[u]))'
    BY DEF CallFits, OneCallPerHandle, Types, CallRecord, Import, Empty, LocalBlocks
  <1>6. OneCallPerHandle'
    BY DEF OneCallPerHandle, Import
  <1>. QED BY <1>1, <1>2, <1>3, <1>4, <1>5, <1>6

\* A buffer that is reset has no block; no call runs on it.
LEMMA ShapeReset ==
  ASSUME ShapeInv, NEW x \in Buffers,
         Reset(x)
  PROVE  ShapeInv'
  <1>. USE DEF ShapeInv
  <1>1. Types'
    <2>1. reader_state' \in [BlockIds -> Header!ReaderWords]
      BY ReleasedWord, ReferencesCount DEF Types, Reset, ResetEffect
    <2>2. used' \subseteq LocalBlocks
      BY DEF Types, Reset, ResetEffect
    <2>3. buffer' \in [Buffers -> BufferRecord]
      BY DEF Types, Reset, BufferRecord, Empty, StateRefs, BlockRefs
    <2>4. UNCHANGED <<hstate, rh, wh, call>>
      BY DEF Reset
    <2>. QED BY <2>1, <2>2, <2>3, <2>4 DEF Types
  <1>2. (\A z \in Buffers : BufferFits(buffer[z]))'
    BY DEF BufferFits, Types, BufferRecord, Reset, ResetEffect, Empty, References, Busy
  <1>3. (\A k \in ReadHandles : ReadFits(rh[k]))'
    BY DEF ReadFits, Reset
  <1>4. (\A k \in WriteHandles : WriteFits(wh[k]))'
    BY DEF WriteFits, Reset
  <1>5. (\A u \in Threads : CallFits(call[u]))'
    BY DEF CallFits, OneCallPerHandle, Types, CallRecord, Reset, ResetEffect, Empty, References,
         Busy
  <1>6. OneCallPerHandle'
    BY DEF OneCallPerHandle, Reset
  <1>. QED BY <1>1, <1>2, <1>3, <1>4, <1>5, <1>6

\* A lease is held on a block.
LEMMA ShapeHoldReader ==
  ASSUME ShapeInv, NEW x \in Buffers,
         HoldReader(x)
  PROVE  ShapeInv'
  <1>. USE DEF ShapeInv
  <1>1. Types'
    <2>1. reader_state' \in [BlockIds -> Header!ReaderWords]
      BY AcquiredWord DEF Types, HoldReader, BufferRecord, BlockRefs
    <2>2. buffer' \in [Buffers -> BufferRecord]
      BY DEF Types, HoldReader, BufferRecord
    <2>3. UNCHANGED <<used, hstate, rh, wh, call>>
      BY DEF HoldReader
    <2>. QED BY <2>1, <2>2, <2>3 DEF Types
  <1>2. (\A z \in Buffers : BufferFits(buffer[z]))'
    BY DEF BufferFits, Types, BufferRecord, HoldReader, Busy
  <1>3. (\A k \in ReadHandles : ReadFits(rh[k]))'
    BY DEF ReadFits, HoldReader
  <1>4. (\A k \in WriteHandles : WriteFits(wh[k]))'
    BY DEF WriteFits, HoldReader
  <1>5. (\A u \in Threads : CallFits(call[u]))'
    BY DEF CallFits, OneCallPerHandle, Types, CallRecord, HoldReader, Busy
  <1>6. OneCallPerHandle'
    BY DEF OneCallPerHandle, HoldReader
  <1>. QED BY <1>1, <1>2, <1>3, <1>4, <1>5, <1>6

\* A buffer that is resized has a block of the pool and a new state.
LEMMA ShapeResize ==
  ASSUME ShapeInv, NEW x \in Buffers,
         Resize(x)
  PROVE  ShapeInv'
  <1>. USE DEF ShapeInv
  <1>1. Types'
    <2>1. reader_state' \in [BlockIds -> Header!ReaderWords]
      BY ReleasedWord, ReferencesCount DEF Types, Resize, BufferRecord, BlockRefs
    <2>2. used' \subseteq LocalBlocks
      BY DEF Types, Resize, Available
    <2>3. buffer' \in [Buffers -> BufferRecord]
      BY FreshIsFree, WrittenRecord DEF Types, Resize, BufferRecord, Available, StateRefs
    <2>4. hstate' \in [StateIds -> StateRecord]
      BY FreshIsFree DEF Types, Resize, StateRecord, FinalizedState, NewState
    <2>5. UNCHANGED <<rh, wh, call>>
      BY DEF Resize
    <2>. QED BY <2>1, <2>2, <2>3, <2>4, <2>5 DEF Types
  <1>2. (\A z \in Buffers : BufferFits(buffer[z]))'
    BY FreshIsFree DEF BufferFits, Types, BufferRecord, Resize, Available, WrittenBuffer,
         FinalizedState, NewState, Empty, References, Busy
  <1>3. (\A k \in ReadHandles : ReadFits(rh[k]))'
    BY DEF ReadFits, Resize
  <1>4. (\A k \in WriteHandles : WriteFits(wh[k]))'
    BY DEF WriteFits, Resize
  <1>5. (\A u \in Threads : CallFits(call[u]))'
    BY FreshIsFree DEF CallFits, OneCallPerHandle, Types, CallRecord, Resize, Available,
         WrittenBuffer, FinalizedState, NewState, Empty, References, Busy
  <1>6. OneCallPerHandle'
    BY DEF OneCallPerHandle, Resize
  <1>. QED BY <1>1, <1>2, <1>3, <1>4, <1>5, <1>6

\* Finalizing changes one state.
LEMMA ShapeFinalizeWrite ==
  ASSUME ShapeInv, NEW x \in Buffers,
         FinalizeWrite(x)
  PROVE  ShapeInv'
  <1>. USE DEF ShapeInv
  <1>1. Types'
    <2>1. hstate' \in [StateIds -> StateRecord]
      BY DEF Types, FinalizeWrite, StateRecord, Finalized, StateRefs, BufferRecord
    <2>2. UNCHANGED <<reader_state, used, buffer, rh, wh, call>>
      BY DEF FinalizeWrite
    <2>. QED BY <2>1, <2>2 DEF Types
  <1>2. (\A z \in Buffers : BufferFits(buffer[z]))'
    BY DEF BufferFits, FinalizeWrite
  <1>3. (\A k \in ReadHandles : ReadFits(rh[k]))'
    BY DEF ReadFits, FinalizeWrite
  <1>4. (\A k \in WriteHandles : WriteFits(wh[k]))'
    BY DEF WriteFits, FinalizeWrite
  <1>5. (\A u \in Threads : CallFits(call[u]))'
    BY DEF CallFits, FinalizeWrite
  <1>6. OneCallPerHandle'
    BY DEF OneCallPerHandle, FinalizeWrite
  <1>. QED BY <1>1, <1>2, <1>3, <1>4, <1>5, <1>6

\* A buffer takes what another had; no call runs on either.
LEMMA ShapeMoveBuffer ==
  ASSUME ShapeInv, NEW x \in Buffers, NEW y \in Buffers,
         MoveBuffer(x, y)
  PROVE  ShapeInv'
  <1>. USE DEF ShapeInv
  <1>1. Types'
    <2>1. reader_state' \in [BlockIds -> Header!ReaderWords]
      BY ReleasedWord, ReferencesCount DEF Types, MoveBuffer, ResetEffect
    <2>2. used' \subseteq LocalBlocks
      BY DEF Types, MoveBuffer, ResetEffect
    <2>3. buffer' \in [Buffers -> BufferRecord]
      BY DEF Types, MoveBuffer, BufferRecord, MovedFrom, Empty, StateRefs, BlockRefs
    <2>4. UNCHANGED <<hstate, rh, wh, call>>
      BY DEF MoveBuffer
    <2>. QED BY <2>1, <2>2, <2>3, <2>4 DEF Types
  <1>2. (\A z \in Buffers : BufferFits(buffer[z]))'
    BY DEF BufferFits, Types, BufferRecord, MoveBuffer, ResetEffect, MovedFrom, Empty, References,
         Busy
  <1>3. (\A k \in ReadHandles : ReadFits(rh[k]))'
    BY DEF ReadFits, MoveBuffer
  <1>4. (\A k \in WriteHandles : WriteFits(wh[k]))'
    BY DEF WriteFits, MoveBuffer
  <1>5. (\A u \in Threads : CallFits(call[u]))'
    BY DEF CallFits, OneCallPerHandle, Types, CallRecord, MoveBuffer, ResetEffect, MovedFrom,
         Empty, References, Busy
  <1>6. OneCallPerHandle'
    BY DEF OneCallPerHandle, MoveBuffer
  <1>. QED BY <1>1, <1>2, <1>3, <1>4, <1>5, <1>6

\* A clone has a block of the pool and a new state.
LEMMA ShapeClone ==
  ASSUME ShapeInv, NEW x \in Buffers, NEW y \in Buffers,
         Clone(x, y)
  PROVE  ShapeInv'
  <1>. USE DEF ShapeInv
  <1>1. Types'
    <2>1. used' \subseteq LocalBlocks
      BY DEF Types, Clone, Available
    <2>2. buffer' \in [Buffers -> BufferRecord]
      BY FreshIsFree, WrittenRecord DEF Types, Clone, BufferRecord, Available, FreeStates, StateRefs
    <2>3. hstate' \in [StateIds -> StateRecord]
      BY FreshIsFree DEF Types, Clone, StateRecord, FinalizedState, NewState, FreeStates
    <2>4. UNCHANGED <<reader_state, rh, wh, call>>
      BY DEF Clone
    <2>. QED BY <2>1, <2>2, <2>3, <2>4 DEF Types
  <1>2. (\A z \in Buffers : BufferFits(buffer[z]))'
    BY FreshIsFree DEF BufferFits, Types, BufferRecord, Clone, Available, WrittenBuffer,
         FinalizedState, NewState, Empty, Busy
  <1>3. (\A k \in ReadHandles : ReadFits(rh[k]))'
    BY DEF ReadFits, Clone
  <1>4. (\A k \in WriteHandles : WriteFits(wh[k]))'
    BY DEF WriteFits, Clone
  <1>5. (\A u \in Threads : CallFits(call[u]))'
    BY FreshIsFree DEF CallFits, OneCallPerHandle, Types, CallRecord, Clone, Available,
         WrittenBuffer, FinalizedState, NewState, Empty, Busy
  <1>6. OneCallPerHandle'
    BY DEF OneCallPerHandle, Clone
  <1>. QED BY <1>1, <1>2, <1>3, <1>4, <1>5, <1>6

\* A write handle refers to the state of its buffer.
LEMMA ShapeGetWriteHandle ==
  ASSUME ShapeInv, NEW x \in Buffers, NEW w \in WriteHandles,
         GetWriteHandle(x, w)
  PROVE  ShapeInv'
  <1>. USE DEF ShapeInv
  <1>1. Types'
    <2>1. buffer' \in [Buffers -> BufferRecord]
      BY FreshIsFree DEF Types, GetWriteHandle, BufferRecord, StateRefs
    <2>2. hstate' \in [StateIds -> StateRecord]
      BY FreshIsFree DEF Types, GetWriteHandle, StateRecord, Grant, NewState
    <2>3. wh' \in [WriteHandles -> WriteRecord]
      BY FreshIsFree DEF Types, GetWriteHandle, WriteRecord, Grant, BufferRecord, StateRefs
    <2>4. UNCHANGED <<reader_state, used, rh, call>>
      BY DEF GetWriteHandle
    <2>. QED BY <2>1, <2>2, <2>3, <2>4 DEF Types
  <1>2. (\A z \in Buffers : BufferFits(buffer[z]))'
    BY FreshIsFree DEF BufferFits, Types, BufferRecord, GetWriteHandle, Grant, Owned, NewState,
         NoWrite, Busy
  <1>3. (\A k \in ReadHandles : ReadFits(rh[k]))'
    BY DEF ReadFits, GetWriteHandle
  <1>4. (\A k \in WriteHandles : WriteFits(wh[k]))'
    BY FreshIsFree DEF WriteFits, Types, WriteRecord, GetWriteHandle, Grant, Owned, NewState,
         NoWrite, Busy
  <1>5. (\A u \in Threads : CallFits(call[u]))'
    BY FreshIsFree DEF CallFits, OneCallPerHandle, Types, CallRecord, GetWriteHandle, Grant, Owned,
         NewState, NoWrite, Busy
  <1>6. OneCallPerHandle'
    BY DEF OneCallPerHandle, GetWriteHandle
  <1>. QED BY <1>1, <1>2, <1>3, <1>4, <1>5, <1>6

\* A promoted handle owns a block of the pool.
LEMMA ShapePromote ==
  ASSUME ShapeInv, NEW h \in ReadHandles,
         Promote(h)
  PROVE  ShapeInv'
  <1>. USE DEF ShapeInv
  <1>1. Types'
    <2>1. reader_state' \in [BlockIds -> Header!ReaderWords]
      BY AcquiredWord DEF Types, Promote, Available, LocalBlocks
    <2>2. used' \subseteq LocalBlocks
      BY DEF Types, Promote, Available
    <2>3. rh' \in [ReadHandles -> ReadRecord]
      BY FreshIsFree DEF Types, Promote, ReadRecord, Available, LocalBlocks, BlockRefs, StateRefs
    <2>4. hstate' \in [StateIds -> StateRecord]
      BY FreshIsFree DEF Types, Promote, StateRecord, FinalizedState, NewState
    <2>5. UNCHANGED <<buffer, wh, call>>
      BY DEF Promote
    <2>. QED BY <2>1, <2>2, <2>3, <2>4, <2>5 DEF Types
  <1>2. (\A z \in Buffers : BufferFits(buffer[z]))'
    BY DEF BufferFits, Promote
  <1>3. (\A k \in ReadHandles : ReadFits(rh[k]))'
    <2>1. PICK b \in LocalBlocks :
            rh' = [rh EXCEPT ![h] = [block |-> b, state |-> FreshState, promoted |-> TRUE]]
      BY DEF Promote, Available
    <2>2. FreshState # NoState
      BY FreshIsFree DEF Promote
    <2>. QED BY <2>1, <2>2 DEF ReadFits, Types
  <1>4. (\A k \in WriteHandles : WriteFits(wh[k]))'
    BY DEF WriteFits, Promote
  <1>5. (\A u \in Threads : CallFits(call[u]))'
    BY FreshIsFree DEF CallFits, OneCallPerHandle, Types, CallRecord, Promote, Available,
         FinalizedState, NewState, NoRead
  <1>6. OneCallPerHandle'
    BY DEF OneCallPerHandle, Promote
  <1>. QED BY <1>1, <1>2, <1>3, <1>4, <1>5, <1>6

\* A closed handle is empty; no call was filling it.
LEMMA ShapeCloseRead ==
  ASSUME ShapeInv, NEW h \in ReadHandles,
         CloseRead(h)
  PROVE  ShapeInv'
  <1>. USE DEF ShapeInv
  <1>1. Types'
    <2>1. reader_state' \in [BlockIds -> Header!ReaderWords]
      BY GivenBackWord DEF Types, CloseRead, ReleaseRead, ReadRecord, BlockRefs
    <2>2. used' \subseteq LocalBlocks
      BY DEF Types, CloseRead, ReleaseRead
    <2>3. rh' \in [ReadHandles -> ReadRecord]
      BY DEF Types, CloseRead, ReadRecord, NoRead, BlockRefs, StateRefs
    <2>4. hstate' \in [StateIds -> StateRecord]
      <3>1. LeaveRead(rh[h].state)
        BY DEF CloseRead, ReleaseRead
      <3>. QED BY <3>1, LeftState
    <2>5. UNCHANGED <<buffer, wh, call>>
      BY DEF CloseRead, ReleaseRead
    <2>. QED BY <2>1, <2>2, <2>3, <2>4, <2>5 DEF Types
  <1>2. (\A z \in Buffers : BufferFits(buffer[z]))'
    BY DEF BufferFits, CloseRead
  <1>3. (\A k \in ReadHandles : ReadFits(rh[k]))'
    BY DEF ReadFits, CallFits, Types, ReadRecord, CallRecord, CloseRead, ReleaseRead, LeaveRead,
         NoRead
  <1>4. (\A k \in WriteHandles : WriteFits(wh[k]))'
    BY DEF WriteFits, CloseRead
  <1>5. (\A u \in Threads : CallFits(call[u]))'
    BY DEF CallFits, OneCallPerHandle, Types, CallRecord, CloseRead, ReleaseRead, LeaveRead, NoRead
  <1>6. OneCallPerHandle'
    BY DEF OneCallPerHandle, CloseRead
  <1>. QED BY <1>1, <1>2, <1>3, <1>4, <1>5, <1>6

\* A handle takes what another had; no call was filling either.
LEMMA ShapeMoveRead ==
  ASSUME ShapeInv, NEW h \in ReadHandles, NEW g \in ReadHandles,
         MoveRead(h, g)
  PROVE  ShapeInv'
  <1>. USE DEF ShapeInv
  <1>1. Types'
    <2>1. reader_state' \in [BlockIds -> Header!ReaderWords]
      BY GivenBackWord DEF Types, MoveRead, ReleaseRead, ReadRecord, BlockRefs
    <2>2. used' \subseteq LocalBlocks
      BY DEF Types, MoveRead, ReleaseRead
    <2>3. rh' \in [ReadHandles -> ReadRecord]
      BY DEF Types, MoveRead, ReadRecord, NoRead, BlockRefs, StateRefs
    <2>4. hstate' \in [StateIds -> StateRecord]
      <3>1. LeaveRead(rh[g].state)
        BY DEF MoveRead, ReleaseRead
      <3>. QED BY <3>1, LeftState
    <2>5. UNCHANGED <<buffer, wh, call>>
      BY DEF MoveRead, ReleaseRead
    <2>. QED BY <2>1, <2>2, <2>3, <2>4, <2>5 DEF Types
  <1>2. (\A z \in Buffers : BufferFits(buffer[z]))'
    BY DEF BufferFits, MoveRead
  <1>3. (\A k \in ReadHandles : ReadFits(rh[k]))'
    BY DEF ReadFits, CallFits, Types, ReadRecord, CallRecord, MoveRead, ReleaseRead, LeaveRead,
         NoRead
  <1>4. (\A k \in WriteHandles : WriteFits(wh[k]))'
    BY DEF WriteFits, MoveRead
  <1>5. (\A u \in Threads : CallFits(call[u]))'
    BY DEF CallFits, OneCallPerHandle, Types, CallRecord, MoveRead, ReleaseRead, LeaveRead, NoRead
  <1>6. OneCallPerHandle'
    BY DEF OneCallPerHandle, MoveRead
  <1>. QED BY <1>1, <1>2, <1>3, <1>4, <1>5, <1>6

\* A closed write handle is empty.
LEMMA ShapeCloseWrite ==
  ASSUME ShapeInv, NEW w \in WriteHandles,
         CloseWrite(w)
  PROVE  ShapeInv'
  <1>. USE DEF ShapeInv
  <1>1. Types'
    <2>1. hstate' \in [StateIds -> StateRecord]
      BY DEF Types, CloseWrite, StateRecord, Finalized, StateRefs, WriteRecord, WriteFits
    <2>2. wh' \in [WriteHandles -> WriteRecord]
      BY DEF Types, CloseWrite, WriteRecord, NoWrite, StateRefs, BlockRefs
    <2>3. UNCHANGED <<reader_state, used, buffer, rh, call>>
      BY DEF CloseWrite
    <2>. QED BY <2>1, <2>2, <2>3 DEF Types
  <1>2. (\A z \in Buffers : BufferFits(buffer[z]))'
    BY DEF BufferFits, CloseWrite
  <1>3. (\A k \in ReadHandles : ReadFits(rh[k]))'
    BY DEF ReadFits, CloseWrite
  <1>4. (\A k \in WriteHandles : WriteFits(wh[k]))'
    BY DEF WriteFits, Types, WriteRecord, CloseWrite, Finalized, NoWrite
  <1>5. (\A u \in Threads : CallFits(call[u]))'
    BY DEF CallFits, CloseWrite
  <1>6. OneCallPerHandle'
    BY DEF OneCallPerHandle, CloseWrite
  <1>. QED BY <1>1, <1>2, <1>3, <1>4, <1>5, <1>6

\* A write handle takes what another had.
LEMMA ShapeMoveWrite ==
  ASSUME ShapeInv, NEW w \in WriteHandles, NEW v \in WriteHandles,
         MoveWrite(w, v)
  PROVE  ShapeInv'
  <1>. USE DEF ShapeInv
  <1>1. Types'
    <2>1. hstate' \in [StateIds -> StateRecord]
      BY DEF Types, MoveWrite, StateRecord, Finalized, StateRefs, WriteRecord, WriteFits
    <2>2. wh' \in [WriteHandles -> WriteRecord]
      BY DEF Types, MoveWrite, WriteRecord, NoWrite, StateRefs, BlockRefs
    <2>3. UNCHANGED <<reader_state, used, buffer, rh, call>>
      BY DEF MoveWrite
    <2>. QED BY <2>1, <2>2, <2>3 DEF Types
  <1>2. (\A z \in Buffers : BufferFits(buffer[z]))'
    BY DEF BufferFits, MoveWrite
  <1>3. (\A k \in ReadHandles : ReadFits(rh[k]))'
    BY DEF ReadFits, MoveWrite
  <1>4. (\A k \in WriteHandles : WriteFits(wh[k]))'
    BY DEF WriteFits, Types, WriteRecord, MoveWrite, Finalized, NoWrite
  <1>5. (\A u \in Threads : CallFits(call[u]))'
    BY DEF CallFits, MoveWrite
  <1>6. OneCallPerHandle'
    BY DEF OneCallPerHandle, MoveWrite
  <1>. QED BY <1>1, <1>2, <1>3, <1>4, <1>5, <1>6
-----------------------------------------------------------------------------
(* Counting *)

Mark(b) == IF b THEN 1 ELSE 0

HandlesOn(b) == Cardinality({h \in ReadHandles : rh[h].block = b})
HeldOn(b) == Cardinality({x \in Buffers : buffer[x].block = b /\ buffer[x].held})
ImportsOn(b) == Cardinality({x \in Buffers : buffer[x].block = b /\ Imported(x)})
BuffersOn(b) == Cardinality({x \in Buffers : buffer[x].block = b})
PromotedOn(b) == Cardinality({h \in ReadHandles : rh[h].promoted /\ rh[h].block = b})
ReadersOf(s) == Cardinality({h \in ReadHandles : rh[h].state = s})
LeasingOf(s) == Cardinality({t \in Threads : call[t].pc = "lease" /\ call[t].state = s})

\* Two elements leave and enter the sets that n and m count.
Moved(n, m, out1, out2, in1, in2) ==
  n \in Nat /\ m \in Nat /\ m + Mark(out1) + Mark(out2) = n + Mark(in1) + Mark(in2)

\* Sets that differ in one element at most
LEMMA OneElement ==
  ASSUME NEW S, IsFiniteSet(S), NEW T, IsFiniteSet(T), NEW x, S \ {x} = T \ {x}
  PROVE  /\ Cardinality(S) \in Nat /\ Cardinality(T) \in Nat
         /\ Cardinality(T) + Mark(x \in S) = Cardinality(S) + Mark(x \in T)
  <1>1. Cardinality(S) \in Nat /\ Cardinality(T) \in Nat
    BY FS_CardinalityType
  <1>2. Cardinality(S \ {x}) = IF x \in S THEN Cardinality(S) - 1 ELSE Cardinality(S)
    BY FS_RemoveElement
  <1>3. Cardinality(T \ {x}) = IF x \in T THEN Cardinality(T) - 1 ELSE Cardinality(T)
    BY FS_RemoveElement
  <1>. QED BY <1>1, <1>2, <1>3 DEF Mark

\* Subsets of a finite set that differ in two elements at most
LEMMA TwoElements ==
  ASSUME NEW U, IsFiniteSet(U), NEW S, S \subseteq U, NEW T, T \subseteq U,
         NEW x, NEW y, \A z \in U \ {x, y} : z \in S <=> z \in T
  PROVE  Moved(Cardinality(S), Cardinality(T),
               x \in S, y # x /\ y \in S, x \in T, y # x /\ y \in T)
  <1>. DEFINE R == {z \in S \cup T : IF z = x THEN z \in T ELSE z \in S}
  <1>1. IsFiniteSet(S) /\ IsFiniteSet(T) /\ IsFiniteSet(R)
    BY FS_Subset
  <1>2. S \ {x} = R \ {x} /\ R \ {y} = T \ {y} /\ (x \in R <=> x \in T)
        /\ (y # x => (y \in R <=> y \in S)) /\ (y = x => (y \in R <=> y \in T))
    OBVIOUS
  <1>. HIDE DEF R
  <1>3. /\ Cardinality(S) \in Nat /\ Cardinality(R) \in Nat /\ Cardinality(T) \in Nat
        /\ Cardinality(R) + Mark(x \in S) = Cardinality(S) + Mark(x \in R)
        /\ Cardinality(T) + Mark(y \in R) = Cardinality(R) + Mark(y \in T)
    BY <1>1, <1>2, OneElement
  <1>. QED BY <1>2, <1>3 DEF Mark, Moved

\* Two handles, two buffers or one call change.
LEMMA HandlesMove ==
  ASSUME NEW g \in ReadHandles, NEW h \in ReadHandles,
         \A k \in ReadHandles \ {g, h} : rh'[k] = rh[k], NEW v
  PROVE  Moved(HandlesOn(v), HandlesOn(v)',
               rh[g].block = v, h # g /\ rh[h].block = v,
               rh'[g].block = v, h # g /\ rh'[h].block = v)
  <1>. DEFINE S == {k \in ReadHandles : rh[k].block = v}
              T == {k \in ReadHandles : rh'[k].block = v}
  <1>1. IsFiniteSet(ReadHandles)
    BY LocalAssumption
  <1>2. S \subseteq ReadHandles /\ T \subseteq ReadHandles
        /\ \A k \in ReadHandles \ {g, h} : k \in S <=> k \in T
    OBVIOUS
  <1>3. HandlesOn(v) = Cardinality(S) /\ HandlesOn(v)' = Cardinality(T)
    BY DEF HandlesOn
  <1>4. /\ g \in S <=> rh[g].block = v
        /\ g \in T <=> rh'[g].block = v
        /\ h \in S <=> rh[h].block = v
        /\ h \in T <=> rh'[h].block = v
    OBVIOUS
  <1>. HIDE DEF S, T
  <1>5. Moved(Cardinality(S), Cardinality(T),
              g \in S, h # g /\ h \in S, g \in T, h # g /\ h \in T)
    BY <1>1, <1>2, TwoElements
  <1>. QED BY <1>3, <1>4, <1>5 DEF Moved, Mark

\* The same for promoted handles,
LEMMA PromotedMove ==
  ASSUME NEW g \in ReadHandles, NEW h \in ReadHandles,
         \A k \in ReadHandles \ {g, h} : rh'[k] = rh[k], NEW v
  PROVE  Moved(PromotedOn(v), PromotedOn(v)',
               (rh[g].promoted /\ rh[g].block = v), h # g /\ (rh[h].promoted /\ rh[h].block = v),
               (rh'[g].promoted /\ rh'[g].block = v),
               h # g /\ (rh'[h].promoted /\ rh'[h].block = v))
  <1>. DEFINE S == {k \in ReadHandles : (rh[k].promoted /\ rh[k].block = v)}
              T == {k \in ReadHandles : (rh'[k].promoted /\ rh'[k].block = v)}
  <1>1. IsFiniteSet(ReadHandles)
    BY LocalAssumption
  <1>2. S \subseteq ReadHandles /\ T \subseteq ReadHandles
        /\ \A k \in ReadHandles \ {g, h} : k \in S <=> k \in T
    OBVIOUS
  <1>3. PromotedOn(v) = Cardinality(S) /\ PromotedOn(v)' = Cardinality(T)
    BY DEF PromotedOn
  <1>4. /\ g \in S <=> (rh[g].promoted /\ rh[g].block = v)
        /\ g \in T <=> (rh'[g].promoted /\ rh'[g].block = v)
        /\ h \in S <=> (rh[h].promoted /\ rh[h].block = v)
        /\ h \in T <=> (rh'[h].promoted /\ rh'[h].block = v)
    OBVIOUS
  <1>. HIDE DEF S, T
  <1>5. Moved(Cardinality(S), Cardinality(T),
              g \in S, h # g /\ h \in S, g \in T, h # g /\ h \in T)
    BY <1>1, <1>2, TwoElements
  <1>. QED BY <1>3, <1>4, <1>5 DEF Moved, Mark

\* for the handles of a HandleState,
LEMMA ReadersMove ==
  ASSUME NEW g \in ReadHandles, NEW h \in ReadHandles,
         \A k \in ReadHandles \ {g, h} : rh'[k] = rh[k], NEW v
  PROVE  Moved(ReadersOf(v), ReadersOf(v)',
               rh[g].state = v, h # g /\ rh[h].state = v,
               rh'[g].state = v, h # g /\ rh'[h].state = v)
  <1>. DEFINE S == {k \in ReadHandles : rh[k].state = v}
              T == {k \in ReadHandles : rh'[k].state = v}
  <1>1. IsFiniteSet(ReadHandles)
    BY LocalAssumption
  <1>2. S \subseteq ReadHandles /\ T \subseteq ReadHandles
        /\ \A k \in ReadHandles \ {g, h} : k \in S <=> k \in T
    OBVIOUS
  <1>3. ReadersOf(v) = Cardinality(S) /\ ReadersOf(v)' = Cardinality(T)
    BY DEF ReadersOf
  <1>4. /\ g \in S <=> rh[g].state = v
        /\ g \in T <=> rh'[g].state = v
        /\ h \in S <=> rh[h].state = v
        /\ h \in T <=> rh'[h].state = v
    OBVIOUS
  <1>. HIDE DEF S, T
  <1>5. Moved(Cardinality(S), Cardinality(T),
              g \in S, h # g /\ h \in S, g \in T, h # g /\ h \in T)
    BY <1>1, <1>2, TwoElements
  <1>. QED BY <1>3, <1>4, <1>5 DEF Moved, Mark

\* for held leases,
LEMMA HeldMove ==
  ASSUME NEW x \in Buffers, NEW y \in Buffers,
         \A k \in Buffers \ {x, y} : buffer'[k] = buffer[k], NEW v
  PROVE  Moved(HeldOn(v), HeldOn(v)',
               (buffer[x].block = v /\ buffer[x].held),
               y # x /\ (buffer[y].block = v /\ buffer[y].held),
               (buffer'[x].block = v /\ buffer'[x].held),
               y # x /\ (buffer'[y].block = v /\ buffer'[y].held))
  <1>. DEFINE S == {k \in Buffers : (buffer[k].block = v /\ buffer[k].held)}
              T == {k \in Buffers : (buffer'[k].block = v /\ buffer'[k].held)}
  <1>1. IsFiniteSet(Buffers)
    BY LocalAssumption
  <1>2. S \subseteq Buffers /\ T \subseteq Buffers
        /\ \A k \in Buffers \ {x, y} : k \in S <=> k \in T
    OBVIOUS
  <1>3. HeldOn(v) = Cardinality(S) /\ HeldOn(v)' = Cardinality(T)
    BY DEF HeldOn
  <1>4. /\ x \in S <=> (buffer[x].block = v /\ buffer[x].held)
        /\ x \in T <=> (buffer'[x].block = v /\ buffer'[x].held)
        /\ y \in S <=> (buffer[y].block = v /\ buffer[y].held)
        /\ y \in T <=> (buffer'[y].block = v /\ buffer'[y].held)
    OBVIOUS
  <1>. HIDE DEF S, T
  <1>5. Moved(Cardinality(S), Cardinality(T),
              x \in S, y # x /\ y \in S, x \in T, y # x /\ y \in T)
    BY <1>1, <1>2, TwoElements
  <1>. QED BY <1>3, <1>4, <1>5 DEF Moved, Mark

\* for imports,
LEMMA ImportsMove ==
  ASSUME NEW x \in Buffers, NEW y \in Buffers,
         \A k \in Buffers \ {x, y} : buffer'[k] = buffer[k], NEW v
  PROVE  Moved(ImportsOn(v), ImportsOn(v)',
               (buffer[x].block = v /\ v # NoBlock /\ ~buffer[x].writable),
               y # x /\ (buffer[y].block = v /\ v # NoBlock /\ ~buffer[y].writable),
               (buffer'[x].block = v /\ v # NoBlock /\ ~buffer'[x].writable),
               y # x /\ (buffer'[y].block = v /\ v # NoBlock /\ ~buffer'[y].writable))
  <1>. DEFINE S == {k \in Buffers : (buffer[k].block = v /\ v # NoBlock /\ ~buffer[k].writable)}
              T == {k \in Buffers : (buffer'[k].block = v /\ v # NoBlock /\ ~buffer'[k].writable)}
  <1>1. IsFiniteSet(Buffers)
    BY LocalAssumption
  <1>2. S \subseteq Buffers /\ T \subseteq Buffers
        /\ \A k \in Buffers \ {x, y} : k \in S <=> k \in T
    OBVIOUS
  <1>3. ImportsOn(v) = Cardinality(S) /\ ImportsOn(v)' = Cardinality(T)
    BY DEF ImportsOn, Imported
  <1>4. /\ x \in S <=> (buffer[x].block = v /\ v # NoBlock /\ ~buffer[x].writable)
        /\ x \in T <=> (buffer'[x].block = v /\ v # NoBlock /\ ~buffer'[x].writable)
        /\ y \in S <=> (buffer[y].block = v /\ v # NoBlock /\ ~buffer[y].writable)
        /\ y \in T <=> (buffer'[y].block = v /\ v # NoBlock /\ ~buffer'[y].writable)
    OBVIOUS
  <1>. HIDE DEF S, T
  <1>5. Moved(Cardinality(S), Cardinality(T),
              x \in S, y # x /\ y \in S, x \in T, y # x /\ y \in T)
    BY <1>1, <1>2, TwoElements
  <1>. QED BY <1>3, <1>4, <1>5 DEF Moved, Mark

\* for the buffers with a block,
LEMMA BuffersMove ==
  ASSUME NEW x \in Buffers, NEW y \in Buffers,
         \A k \in Buffers \ {x, y} : buffer'[k] = buffer[k], NEW v
  PROVE  Moved(BuffersOn(v), BuffersOn(v)',
               buffer[x].block = v, y # x /\ buffer[y].block = v,
               buffer'[x].block = v, y # x /\ buffer'[y].block = v)
  <1>. DEFINE S == {k \in Buffers : buffer[k].block = v}
              T == {k \in Buffers : buffer'[k].block = v}
  <1>1. IsFiniteSet(Buffers)
    BY LocalAssumption
  <1>2. S \subseteq Buffers /\ T \subseteq Buffers
        /\ \A k \in Buffers \ {x, y} : k \in S <=> k \in T
    OBVIOUS
  <1>3. BuffersOn(v) = Cardinality(S) /\ BuffersOn(v)' = Cardinality(T)
    BY DEF BuffersOn
  <1>4. /\ x \in S <=> buffer[x].block = v
        /\ x \in T <=> buffer'[x].block = v
        /\ y \in S <=> buffer[y].block = v
        /\ y \in T <=> buffer'[y].block = v
    OBVIOUS
  <1>. HIDE DEF S, T
  <1>5. Moved(Cardinality(S), Cardinality(T),
              x \in S, y # x /\ y \in S, x \in T, y # x /\ y \in T)
    BY <1>1, <1>2, TwoElements
  <1>. QED BY <1>3, <1>4, <1>5 DEF Moved, Mark

\* and for the calls that are about to make a handle.
LEMMA LeasingMove ==
  ASSUME NEW t \in Threads,
         \A k \in Threads \ {t} : call'[k] = call[k], NEW v
  PROVE  Moved(LeasingOf(v), LeasingOf(v)',
               (call[t].pc = "lease" /\ call[t].state = v), FALSE,
               (call'[t].pc = "lease" /\ call'[t].state = v), FALSE)
  <1>. DEFINE S == {k \in Threads : (call[k].pc = "lease" /\ call[k].state = v)}
              T == {k \in Threads : (call'[k].pc = "lease" /\ call'[k].state = v)}
  <1>1. IsFiniteSet(Threads)
    BY LocalAssumption
  <1>2. S \subseteq Threads /\ T \subseteq Threads
        /\ \A k \in Threads \ {t, t} : k \in S <=> k \in T
    OBVIOUS
  <1>3. LeasingOf(v) = Cardinality(S) /\ LeasingOf(v)' = Cardinality(T)
    BY DEF LeasingOf
  <1>4. /\ t \in S <=> (call[t].pc = "lease" /\ call[t].state = v)
        /\ t \in T <=> (call'[t].pc = "lease" /\ call'[t].state = v)
    OBVIOUS
  <1>. HIDE DEF S, T
  <1>5. Moved(Cardinality(S), Cardinality(T),
              t \in S, t # t /\ t \in S, t \in T, t # t /\ t \in T)
    BY <1>1, <1>2, TwoElements
  <1>. QED BY <1>3, <1>4, <1>5 DEF Moved, Mark

-----------------------------------------------------------------------------
(* References *)

LeaseInv == WordsAreCounts /\ LeaseAccounting

\* The references that a buffer adds to the word of b
RefsOf(r, b) ==
  Mark(r.block = b /\ r.held) + Mark(r.block = b /\ b # NoBlock /\ ~r.writable)

\* LeaseAccounting in terms of the counts.
LEMMA LeaseCounts ==
  LeaseAccounting <=>
    \A b \in BlockIds : reader_state[b] = HandlesOn(b) + HeldOn(b) + ImportsOn(b)
  BY DEF LeaseAccounting, HandlesOn, HeldOn, ImportsOn

\* A step of one or two buffers changes each word as it changes their references.
LEMMA BufferLeases ==
  ASSUME LeaseInv, UNCHANGED rh, NEW x \in Buffers, NEW y \in Buffers,
         \A k \in Buffers \ {x, y} : buffer'[k] = buffer[k],
         \A b \in BlockIds :
           /\ reader_state'[b] < ReuseClaimed
           /\ reader_state'[b] + RefsOf(buffer[x], b) + (IF y # x THEN RefsOf(buffer[y], b) ELSE 0)
                = reader_state[b] + RefsOf(buffer'[x], b)
                    + (IF y # x THEN RefsOf(buffer'[y], b) ELSE 0),
         Types, Types'
  PROVE  LeaseInv'
  <1>1. ASSUME NEW b \in BlockIds
        PROVE  reader_state'[b] = HandlesOn(b)' + HeldOn(b)' + ImportsOn(b)'
    <2>1. HandlesOn(b)' = HandlesOn(b)
      BY DEF HandlesOn
    <2>2. HandlesOn(b) \in Nat
      BY LocalAssumption, FS_Subset, FS_CardinalityType DEF HandlesOn
    <2>3. Moved(HeldOn(b), HeldOn(b)',
                buffer[x].block = b /\ buffer[x].held,
                y # x /\ buffer[y].block = b /\ buffer[y].held,
                buffer'[x].block = b /\ buffer'[x].held,
                y # x /\ buffer'[y].block = b /\ buffer'[y].held)
      BY HeldMove
    <2>4. Moved(ImportsOn(b), ImportsOn(b)',
                buffer[x].block = b /\ b # NoBlock /\ ~buffer[x].writable,
                y # x /\ buffer[y].block = b /\ b # NoBlock /\ ~buffer[y].writable,
                buffer'[x].block = b /\ b # NoBlock /\ ~buffer'[x].writable,
                y # x /\ buffer'[y].block = b /\ b # NoBlock /\ ~buffer'[y].writable)
      BY ImportsMove
    <2>5. reader_state[b] = HandlesOn(b) + HeldOn(b) + ImportsOn(b)
      BY LeaseCounts DEF LeaseInv
    <2>6. reader_state[b] \in Nat /\ reader_state'[b] \in Nat
      BY LocalAssumption DEF Types, Header!ReaderWords
    <2>. QED BY <2>1, <2>2, <2>3, <2>4, <2>5, <2>6 DEF Moved, RefsOf, Mark
  <1>2. LeaseAccounting'
    BY <1>1 DEF LeaseAccounting, HandlesOn, HeldOn, ImportsOn
  <1>. QED BY <1>2 DEF LeaseInv, WordsAreCounts

\* A step of one buffer
LEMMA OneBufferLeases ==
  ASSUME LeaseInv, UNCHANGED rh, NEW x \in Buffers,
         \A k \in Buffers \ {x} : buffer'[k] = buffer[k],
         \A b \in BlockIds :
           /\ reader_state'[b] < ReuseClaimed
           /\ reader_state'[b] + RefsOf(buffer[x], b) = reader_state[b] + RefsOf(buffer'[x], b),
         Types, Types'
  PROVE  LeaseInv'
  <1>1. ASSUME NEW b \in BlockIds
        PROVE  /\ reader_state'[b] < ReuseClaimed
               /\ reader_state'[b] + RefsOf(buffer[x], b) + 0
                    = reader_state[b] + RefsOf(buffer'[x], b) + 0
    <2>1. /\ RefsOf(buffer[x], b) \in Nat /\ RefsOf(buffer'[x], b) \in Nat
          /\ reader_state[b] \in Nat /\ reader_state'[b] \in Nat
      BY LocalAssumption DEF RefsOf, Mark, Types, Header!ReaderWords
    <2>. QED BY <2>1
  <1>. QED BY <1>1, BufferLeases

\* The same for one or two handles
LEMMA HandleLeases ==
  ASSUME LeaseInv, UNCHANGED buffer, NEW g \in ReadHandles, NEW h \in ReadHandles,
         \A k \in ReadHandles \ {g, h} : rh'[k] = rh[k],
         \A b \in BlockIds :
           /\ reader_state'[b] < ReuseClaimed
           /\ reader_state'[b] + Mark(rh[g].block = b) + Mark(h # g /\ rh[h].block = b)
                = reader_state[b] + Mark(rh'[g].block = b) + Mark(h # g /\ rh'[h].block = b),
         Types, Types'
  PROVE  LeaseInv'
  <1>1. ASSUME NEW b \in BlockIds
        PROVE  reader_state'[b] = HandlesOn(b)' + HeldOn(b)' + ImportsOn(b)'
    <2>1. HeldOn(b)' = HeldOn(b) /\ ImportsOn(b)' = ImportsOn(b)
      BY DEF HeldOn, ImportsOn, Imported
    <2>2. HeldOn(b) \in Nat /\ ImportsOn(b) \in Nat
      BY LocalAssumption, FS_Subset, FS_CardinalityType DEF HeldOn, ImportsOn
    <2>3. Moved(HandlesOn(b), HandlesOn(b)',
                rh[g].block = b, h # g /\ rh[h].block = b,
                rh'[g].block = b, h # g /\ rh'[h].block = b)
      BY HandlesMove
    <2>4. reader_state[b] = HandlesOn(b) + HeldOn(b) + ImportsOn(b)
      BY LeaseCounts DEF LeaseInv
    <2>5. reader_state'[b] + Mark(rh[g].block = b) + Mark(h # g /\ rh[h].block = b)
            = reader_state[b] + Mark(rh'[g].block = b) + Mark(h # g /\ rh'[h].block = b)
      OBVIOUS
    <2>6. reader_state[b] \in Nat /\ reader_state'[b] \in Nat
      BY LocalAssumption DEF Types, Header!ReaderWords
    <2>7. HandlesOn(b)' + Mark(rh[g].block = b) + Mark(h # g /\ rh[h].block = b)
            = HandlesOn(b) + Mark(rh'[g].block = b) + Mark(h # g /\ rh'[h].block = b)
      BY <2>3 DEF Moved
    <2>. QED BY <2>1, <2>2, <2>3, <2>4, <2>5, <2>6, <2>7 DEF Moved, Mark
  <1>2. LeaseAccounting'
    BY <1>1 DEF LeaseAccounting, HandlesOn, HeldOn, ImportsOn
  <1>. QED BY <1>2 DEF LeaseInv, WordsAreCounts

\* A step of one handle
LEMMA OneHandleLeases ==
  ASSUME LeaseInv, UNCHANGED buffer, NEW h \in ReadHandles,
         \A k \in ReadHandles \ {h} : rh'[k] = rh[k],
         \A b \in BlockIds :
           /\ reader_state'[b] < ReuseClaimed
           /\ reader_state'[b] + Mark(rh[h].block = b) = reader_state[b] + Mark(rh'[h].block = b),
         Types, Types'
  PROVE  LeaseInv'
  <1>1. ASSUME NEW b \in BlockIds
        PROVE  /\ reader_state'[b] < ReuseClaimed
               /\ reader_state'[b] + Mark(rh[h].block = b) + Mark(h # h /\ rh[h].block = b)
                    = reader_state[b] + Mark(rh'[h].block = b) + Mark(h # h /\ rh'[h].block = b)
    <2>1. reader_state[b] \in Nat /\ reader_state'[b] \in Nat
      BY LocalAssumption DEF Types, Header!ReaderWords
    <2>. QED BY <2>1 DEF Mark
  <1>. QED BY <1>1, HandleLeases

\* A word covers the references of each buffer and the lease of each handle.
LEMMA WordCovers ==
  ASSUME LeaseInv, NEW b \in BlockIds
  PROVE  /\ \A x \in Buffers : RefsOf(buffer[x], b) <= reader_state[b]
         /\ \A h \in ReadHandles : Mark(rh[h].block = b) <= reader_state[b]
  <1>. DEFINE H == {h \in ReadHandles : rh[h].block = b}
              L == {x \in Buffers : buffer[x].block = b /\ buffer[x].held}
              I == {x \in Buffers : buffer[x].block = b /\ Imported(x)}
  <1>1. IsFiniteSet(H) /\ IsFiniteSet(L) /\ IsFiniteSet(I)
    BY LocalAssumption, FS_Subset
  <1>2. /\ Cardinality(H) \in Nat /\ (Cardinality(H) = 0 => H = {})
        /\ Cardinality(L) \in Nat /\ (Cardinality(L) = 0 => L = {})
        /\ Cardinality(I) \in Nat /\ (Cardinality(I) = 0 => I = {})
    BY <1>1, FS_CardinalityType, FS_EmptySet
  <1>3. reader_state[b] = Cardinality(H) + Cardinality(L) + Cardinality(I)
    BY DEF LeaseInv, LeaseAccounting
  <1>4. ASSUME NEW x \in Buffers PROVE RefsOf(buffer[x], b) <= reader_state[b]
    <2>1. /\ buffer[x].block = b /\ buffer[x].held => x \in L
          /\ buffer[x].block = b /\ b # NoBlock /\ ~buffer[x].writable => x \in I
      BY DEF Imported
    <2>. HIDE DEF H, L, I
    <2>. QED BY <1>2, <1>3, <2>1 DEF RefsOf, Mark
  <1>5. ASSUME NEW h \in ReadHandles PROVE Mark(rh[h].block = b) <= reader_state[b]
    <2>1. rh[h].block = b => h \in H
      OBVIOUS
    <2>. HIDE DEF H, L, I
    <2>. QED BY <1>2, <1>3, <2>1 DEF Mark
  <1>. QED BY <1>4, <1>5

\* The references of a buffer are on its own block.
LEMMA RefsAt ==
  ASSUME NEW x \in Buffers, NEW b \in BlockIds
  PROVE  RefsOf(buffer[x], b) = IF buffer[x].block = b THEN References(x) ELSE 0
  <1>1. b # NoBlock
    BY LocalAssumption DEF BlockIds, Header!BlockIds, NoBlock
  <1>. QED BY <1>1 DEF RefsOf, References, Imported, Mark

\* What a buffer gives back when it is reset leaves its word.
LEMMA ResetWords ==
  ASSUME ShapeInv, LeaseInv, NEW x \in Buffers, ResetEffect(x), NEW b \in BlockIds
  PROVE  reader_state'[b] = reader_state[b] - RefsOf(buffer[x], b)
  <1>1. reader_state[b] \in Header!ReaderWords /\ References(x) \in 0 .. 2
    BY ReferencesCount DEF ShapeInv, Types
  <1>2. reader_state'[b] =
          IF b = buffer[x].block THEN Released(reader_state[b], References(x)) ELSE reader_state[b]
    BY DEF ResetEffect
  <1>3. CASE b = buffer[x].block
    <2>1. RefsOf(buffer[x], b) = References(x)
      BY <1>3, RefsAt
    <2>2. References(x) <= reader_state[b]
      BY <2>1, WordCovers
    <2>3. Released(reader_state[b], References(x)) = reader_state[b] - References(x)
      BY <1>1, <2>2, ReleasedWord
    <2>. QED BY <1>2, <1>3, <2>1, <2>3
  <1>4. CASE b # buffer[x].block
    <2>1. reader_state[b] \in Nat
      BY <1>1, LocalAssumption DEF Header!ReaderWords
    <2>. QED BY <1>2, <1>4, <2>1, RefsAt
  <1>. QED BY <1>3, <1>4

\* A buffer without a block, and one that is written, have no references.
LEMMA NoReferences ==
  ASSUME NEW b \in BlockIds
  PROVE  RefsOf(Empty, b) = 0 /\ \A c, s : RefsOf(WrittenBuffer(c, s), b) = 0
  BY LocalAssumption
     DEF BlockIds, Header!BlockIds, NoBlock, RefsOf, Empty, WrittenBuffer, Mark

\* The steps of buffers keep the count of references.
LEMMA BufferStepLeases ==
  ASSUME ShapeInv, LeaseInv, ShapeInv', NEW x \in Buffers
  PROVE  /\ Allocate(x) => LeaseInv'
         /\ Import(x) => LeaseInv'
         /\ Reset(x) => LeaseInv'
         /\ HoldReader(x) => LeaseInv'
         /\ Resize(x) => LeaseInv'
         /\ \A y \in Buffers : MoveBuffer(x, y) => LeaseInv'
         /\ \A y \in Buffers : Clone(x, y) => LeaseInv'
         /\ \A w \in WriteHandles : GetWriteHandle(x, w) => LeaseInv'
         /\ \A t \in Threads : CreateState(t) => LeaseInv'
  <1>0. /\ Types /\ Types'
        /\ buffer \in [Buffers -> BufferRecord]
        /\ \A b \in BlockIds : reader_state[b] \in Nat /\ reader_state[b] < ReuseClaimed
        /\ reader_state \in [BlockIds -> Header!ReaderWords]
        /\ ReuseClaimed \in Nat
    BY LocalAssumption DEF ShapeInv, Types, LeaseInv, WordsAreCounts, Header!ReaderWords
  <1>1. ASSUME Allocate(x) PROVE LeaseInv'
    <2>1. PICK c : buffer' = [buffer EXCEPT ![x].block = c]
      BY <1>1 DEF Allocate
    <2>2. buffer[x] = Empty /\ UNCHANGED <<reader_state, rh>>
      BY <1>1 DEF Allocate
    <2>3. \A b \in BlockIds : RefsOf(buffer[x], b) = 0 /\ RefsOf(buffer'[x], b) = 0
      BY <1>0, <2>1, <2>2 DEF RefsOf, Empty, Mark
    <2>. QED BY <1>0, <2>1, <2>2, <2>3, BufferLeases
  <1>2. ASSUME Import(x) PROVE LeaseInv'
    <2>1. PICK c \in RemoteBlocks :
            /\ Header!AcquireReader(c)
            /\ buffer' = [buffer EXCEPT
                 ![x] = [block |-> c, writable |-> FALSE, state |-> NoState, held |-> FALSE]]
      BY <1>2 DEF Import
    <2>2. buffer[x] = Empty /\ UNCHANGED rh
      BY <1>2 DEF Import
    <2>3. /\ reader_state' = [reader_state EXCEPT ![c] = reader_state[c] + 1]
          /\ reader_state'[c] < ReuseClaimed
      BY <1>0, <2>1, RemoteMapped, AcquiredWord
    <2>4. \A b \in BlockIds : RefsOf(buffer[x], b) = 0
      BY <2>2, NoReferences
    <2>5. \A b \in BlockIds : RefsOf(buffer'[x], b) = Mark(b = c) /\ Mark(b = c) \in Nat
      BY <1>0, <2>1, LocalAssumption DEF RefsOf, Mark, BlockIds, Header!BlockIds, NoBlock
    <2>6. \A b \in BlockIds : /\ reader_state'[b] = reader_state[b] + Mark(b = c)
                              /\ reader_state'[b] < ReuseClaimed
      BY <1>0, <2>1, <2>3, RemoteMapped DEF Mark
    <2>7. \A b \in BlockIds :
           /\ reader_state'[b] < ReuseClaimed
           /\ reader_state'[b] + RefsOf(buffer[x], b) = reader_state[b] + RefsOf(buffer'[x], b)
      BY <1>0, <2>4, <2>5, <2>6
    <2>. QED BY <1>0, <2>1, <2>2, <2>7, OneBufferLeases
  <1>3. ASSUME Reset(x) PROVE LeaseInv'
    <2>1. ResetEffect(x) /\ buffer' = [buffer EXCEPT ![x] = Empty] /\ UNCHANGED rh
      BY <1>3 DEF Reset
    <2>2. \A b \in BlockIds : /\ reader_state'[b] = reader_state[b] - RefsOf(buffer[x], b)
                              /\ RefsOf(buffer[x], b) \in Nat
      BY <2>1, ResetWords DEF RefsOf, Mark
    <2>3. \A b \in BlockIds : RefsOf(buffer'[x], b) = 0
      BY <1>0, <2>1, NoReferences
    <2>4. \A b \in BlockIds :
           /\ reader_state'[b] < ReuseClaimed
           /\ reader_state'[b] + RefsOf(buffer[x], b) = reader_state[b] + RefsOf(buffer'[x], b)
      BY <1>0, <2>2, <2>3
    <2>. QED BY <1>0, <2>1, <2>4, OneBufferLeases
  <1>4. ASSUME HoldReader(x) PROVE LeaseInv'
    <2>. DEFINE c == buffer[x].block
    <2>1. /\ c \in BlockIds /\ ~buffer[x].held /\ Header!AcquireReader(c)
          /\ buffer' = [buffer EXCEPT ![x].held = TRUE] /\ UNCHANGED rh
      BY <1>0, <1>4 DEF HoldReader, BufferRecord, BlockRefs
    <2>2. /\ reader_state' = [reader_state EXCEPT ![c] = reader_state[c] + 1]
          /\ reader_state'[c] < ReuseClaimed
      BY <1>0, <2>1, AcquiredWord
    <2>3. \A b \in BlockIds : RefsOf(buffer'[x], b) = RefsOf(buffer[x], b) + Mark(b = c)
      BY <1>0, <2>1 DEF RefsOf, Mark, BufferRecord
    <2>4. \A b \in BlockIds : /\ reader_state'[b] = reader_state[b] + Mark(b = c)
                              /\ reader_state'[b] < ReuseClaimed
      BY <1>0, <2>1, <2>2 DEF Mark
    <2>5. \A b \in BlockIds : RefsOf(buffer[x], b) \in Nat /\ Mark(b = c) \in Nat
      BY DEF RefsOf, Mark
    <2>6. \A k \in Buffers \ {x} : buffer'[k] = buffer[k]
      BY <1>0, <2>1
    <2>. HIDE DEF c
    <2>7. \A b \in BlockIds :
           /\ reader_state'[b] < ReuseClaimed
           /\ reader_state'[b] + RefsOf(buffer[x], b) = reader_state[b] + RefsOf(buffer'[x], b)
      BY <1>0, <2>3, <2>4, <2>5
    <2>. QED BY <1>0, <2>1, <2>6, <2>7, OneBufferLeases
  <1>5. ASSUME Resize(x) PROVE LeaseInv'
    <2>1. PICK c, s : /\ buffer' = [buffer EXCEPT ![x] = WrittenBuffer(c, s)]
                      /\ reader_state' = [reader_state EXCEPT
                           ![buffer[x].block] = Released(@, References(x))]
      BY <1>5 DEF Resize
    <2>2. UNCHANGED rh /\ buffer[x].block \in BlockIds
      BY <1>0, <1>5 DEF Resize, BufferRecord, BlockRefs
    <2>3. \A b \in BlockIds : /\ reader_state'[b] = reader_state[b] - RefsOf(buffer[x], b)
                              /\ RefsOf(buffer[x], b) \in Nat
      <3>. SUFFICES ASSUME NEW b \in BlockIds
                    PROVE  /\ reader_state'[b] = reader_state[b] - RefsOf(buffer[x], b)
                           /\ RefsOf(buffer[x], b) \in Nat
        OBVIOUS
      <3>1. reader_state'[b] = IF b = buffer[x].block
                               THEN Released(reader_state[b], References(x)) ELSE reader_state[b]
        BY <1>0, <2>1, <2>2
      <3>2. RefsOf(buffer[x], b) \in Nat /\ RefsOf(buffer[x], b) <= reader_state[b]
        BY WordCovers DEF RefsOf, Mark
      <3>3. reader_state[b] \in Header!ReaderWords /\ References(x) \in 0 .. 2
        BY <1>0, ReferencesCount
      <3>4. RefsOf(buffer[x], b) = IF buffer[x].block = b THEN References(x) ELSE 0
        BY RefsAt
      <3>5. CASE b = buffer[x].block
        BY <3>1, <3>2, <3>3, <3>4, <3>5, ReleasedWord
      <3>6. CASE b # buffer[x].block
        BY <1>0, <3>1, <3>2, <3>4, <3>6
      <3>. QED BY <3>5, <3>6
    <2>4. \A b \in BlockIds : RefsOf(buffer'[x], b) = 0
      BY <1>0, <2>1, NoReferences
    <2>5. \A b \in BlockIds :
           /\ reader_state'[b] < ReuseClaimed
           /\ reader_state'[b] + RefsOf(buffer[x], b) = reader_state[b] + RefsOf(buffer'[x], b)
      BY <1>0, <2>3, <2>4
    <2>. QED BY <1>0, <2>1, <2>2, <2>5, OneBufferLeases
  <1>6. ASSUME NEW y \in Buffers, MoveBuffer(x, y) PROVE LeaseInv'
    <2>1. /\ x # y /\ ResetEffect(y) /\ UNCHANGED rh
          /\ buffer' = [buffer EXCEPT ![y] = buffer[x], ![x] = Empty]
      BY <1>6 DEF MoveBuffer, MovedFrom
    <2>2. buffer'[x] = Empty /\ buffer'[y] = buffer[x]
      BY <1>0, <2>1
    <2>3. \A k \in Buffers \ {x, y} : buffer'[k] = buffer[k]
      BY <1>0, <2>1
    <2>4. \A b \in BlockIds : /\ reader_state'[b] = reader_state[b] - RefsOf(buffer[y], b)
                              /\ RefsOf(buffer[y], b) \in Nat /\ RefsOf(buffer[x], b) \in Nat
      BY <2>1, ResetWords DEF RefsOf, Mark
    <2>5. \A b \in BlockIds : RefsOf(buffer'[x], b) = 0
      BY <2>2, NoReferences
    <2>6. ASSUME NEW b \in BlockIds
          PROVE  /\ reader_state'[b] < ReuseClaimed
                 /\ reader_state'[b] + RefsOf(buffer[x], b) + RefsOf(buffer[y], b)
                      = reader_state[b] + RefsOf(buffer'[x], b) + RefsOf(buffer'[y], b)
      <3>1. RefsOf(buffer'[y], b) = RefsOf(buffer[x], b)
        BY <2>2
      <3>. QED BY <1>0, <2>4, <2>5, <3>1
    <2>. QED BY <1>0, <2>1, <2>3, <2>6, BufferLeases
  <1>7. ASSUME NEW y \in Buffers, Clone(x, y) PROVE LeaseInv'
    <2>1. PICK c, s : buffer' = [buffer EXCEPT ![x].state = s, ![y] = WrittenBuffer(c, FreshState)]
      BY <1>7 DEF Clone
    <2>2. buffer[x].block # NoBlock /\ buffer[y] = Empty /\ UNCHANGED <<reader_state, rh>>
      BY <1>7 DEF Clone
    <2>3. x # y
      BY <2>2 DEF Empty
    <2>4. /\ \A k \in Buffers \ {x, y} : buffer'[k] = buffer[k]
          /\ buffer'[x] = [buffer[x] EXCEPT !.state = s]
          /\ buffer'[y] = WrittenBuffer(c, FreshState)
      BY <1>0, <2>1, <2>3
    <2>5. \A b \in BlockIds : RefsOf(buffer'[x], b) = RefsOf(buffer[x], b)
      BY <1>0, <2>4 DEF RefsOf, BufferRecord
    <2>6. \A b \in BlockIds : /\ RefsOf(buffer[y], b) = 0 /\ RefsOf(buffer'[y], b) = 0
                              /\ RefsOf(buffer[x], b) \in Nat
      BY <2>2, <2>4, NoReferences DEF RefsOf, Mark
    <2>. QED BY <1>0, <2>2, <2>4, <2>5, <2>6, BufferLeases
  <1>8. ASSUME NEW w \in WriteHandles, GetWriteHandle(x, w) PROVE LeaseInv'
    <2>1. UNCHANGED <<reader_state, rh>>
      BY <1>8 DEF GetWriteHandle
    <2>2. /\ \A k \in Buffers \ {x} : buffer'[k] = buffer[k]
          /\ buffer'[x].block = buffer[x].block /\ buffer'[x].held = buffer[x].held
          /\ buffer'[x].writable = buffer[x].writable
      BY <1>0, <1>8 DEF GetWriteHandle, BufferRecord
    <2>3. \A b \in BlockIds : RefsOf(buffer'[x], b) = RefsOf(buffer[x], b)
                              /\ RefsOf(buffer[x], b) \in Nat
      BY <2>2 DEF RefsOf, Mark
    <2>. QED BY <1>0, <2>1, <2>2, <2>3, BufferLeases
  <1>9. ASSUME NEW t \in Threads, CreateState(t) PROVE LeaseInv'
    <2>. DEFINE y == call[t].buf
    <2>1. y \in Buffers /\ UNCHANGED <<reader_state, rh>>
      BY <1>9 DEF CreateState, ShapeInv, CallFits
    <2>2. /\ \A k \in Buffers \ {y} : buffer'[k] = buffer[k]
          /\ buffer'[y].block = buffer[y].block /\ buffer'[y].held = buffer[y].held
          /\ buffer'[y].writable = buffer[y].writable
      BY <1>0, <1>9, <2>1 DEF CreateState, BufferRecord
    <2>. HIDE DEF y
    <2>3. \A b \in BlockIds : RefsOf(buffer'[y], b) = RefsOf(buffer[y], b)
                              /\ RefsOf(buffer[y], b) \in Nat
      BY <2>2 DEF RefsOf, Mark
    <2>. QED BY <1>0, <2>1, <2>2, <2>3, BufferLeases
  <1>. QED BY <1>1, <1>2, <1>3, <1>4, <1>5, <1>6, <1>7, <1>8, <1>9

\* A handle that is released gives back its own lease.
LEMMA ReleasedWords ==
  ASSUME ShapeInv, LeaseInv, NEW h \in ReadHandles, ReleaseRead(h), NEW b \in BlockIds
  PROVE  reader_state'[b] = reader_state[b] - Mark(rh[h].block = b)
  <1>1. /\ reader_state \in [BlockIds -> Header!ReaderWords] /\ reader_state[b] \in Nat
        /\ b # NoBlock
    BY LocalAssumption
       DEF ShapeInv, Types, Header!ReaderWords, BlockIds, Header!BlockIds, NoBlock
  <1>2. Mark(rh[h].block = b) <= reader_state[b]
    BY WordCovers
  <1>3. CASE rh[h].block = NoBlock
    BY <1>1, <1>3 DEF ReleaseRead, Mark
  <1>4. CASE rh[h].block # NoBlock
    <2>1. Header!ReleaseReader(rh[h].block)
      BY <1>4 DEF ReleaseRead
    <2>2. reader_state'[b] = IF b = rh[h].block
                             THEN IF reader_state[b] = 0 THEN 2 * ReuseClaimed - 1
                                                         ELSE reader_state[b] - 1
                             ELSE reader_state[b]
      BY <1>1, <2>1 DEF Header!ReleaseReader
    <2>. QED BY <1>1, <1>2, <2>2 DEF Mark
  <1>. QED BY <1>3, <1>4

\* The steps of handles keep the count of references.
LEMMA HandleStepLeases ==
  ASSUME ShapeInv, LeaseInv, ShapeInv'
  PROVE  /\ \A t \in Threads : LeaseRead(t) => LeaseInv'
         /\ \A h \in ReadHandles : Promote(h) => LeaseInv'
         /\ \A h \in ReadHandles : CloseRead(h) => LeaseInv'
         /\ \A h, g \in ReadHandles : MoveRead(h, g) => LeaseInv'
  <1>0. /\ Types /\ Types'
        /\ rh \in [ReadHandles -> ReadRecord]
        /\ \A b \in BlockIds : reader_state[b] \in Nat /\ reader_state[b] < ReuseClaimed
        /\ reader_state \in [BlockIds -> Header!ReaderWords]
        /\ ReuseClaimed \in Nat
        /\ \A b \in BlockIds : b # NoBlock
        /\ \A p : Mark(p) \in Nat
    BY LocalAssumption DEF ShapeInv, Types, LeaseInv, WordsAreCounts, Header!ReaderWords,
         BlockIds, Header!BlockIds, NoBlock, Mark
  <1>1. ASSUME NEW t \in Threads, LeaseRead(t) PROVE LeaseInv'
    <2>. DEFINE h == call[t].handle
                c == buffer[call[t].buf].block
    <2>1. h \in ReadHandles /\ rh[h] = NoRead /\ c \in BlockRefs /\ UNCHANGED buffer
      BY <1>1 DEF LeaseRead, ShapeInv, CallFits, Types, BufferRecord
    <2>2. rh' = [rh EXCEPT ![h] = [block |-> c, state |-> call[t].state, promoted |-> FALSE]]
      BY <1>1 DEF LeaseRead
    <2>3. IF c = NoBlock THEN UNCHANGED reader_state ELSE Header!AcquireReader(c)
      BY <1>1 DEF LeaseRead
    <2>. HIDE DEF h, c
    <2>4. \A b \in BlockIds : /\ reader_state'[b] = reader_state[b] + Mark(c = b)
                              /\ reader_state'[b] < ReuseClaimed
      <3>1. CASE c = NoBlock
        BY <1>0, <2>3, <3>1 DEF Mark
      <3>2. CASE c # NoBlock
        <4>1. /\ reader_state' = [reader_state EXCEPT ![c] = reader_state[c] + 1]
              /\ reader_state'[c] < ReuseClaimed /\ c \in BlockIds
          BY <1>0, <2>1, <2>3, <3>2, AcquiredWord DEF BlockRefs
        <4>. QED BY <1>0, <4>1 DEF Mark
      <3>. QED BY <3>1, <3>2
    <2>5. \A b \in BlockIds : ~(rh[h].block = b) /\ (rh'[h].block = b <=> c = b)
      BY <1>0, <2>1, <2>2 DEF NoRead
    <2>6. \A b \in BlockIds : Mark(rh[h].block = b) = 0 /\ Mark(rh'[h].block = b) = Mark(c = b)
      BY <2>5 DEF Mark
    <2>7. \A k \in ReadHandles \ {h} : rh'[k] = rh[k]
      BY <1>0, <2>2
    <2>. QED BY <1>0, <2>1, <2>4, <2>6, <2>7, OneHandleLeases
  <1>2. ASSUME NEW h \in ReadHandles, Promote(h) PROVE LeaseInv'
    <2>1. PICK c \in BlockIds :
            /\ Header!AcquireReader(c)
            /\ rh' = [rh EXCEPT ![h] = [block |-> c, state |-> FreshState, promoted |-> TRUE]]
      BY <1>2 DEF Promote, Available, LocalBlocks
    <2>2. rh[h] = NoRead /\ UNCHANGED buffer
      BY <1>2 DEF Promote
    <2>3. /\ reader_state' = [reader_state EXCEPT ![c] = reader_state[c] + 1]
          /\ reader_state'[c] < ReuseClaimed
      BY <1>0, <2>1, AcquiredWord
    <2>4. \A b \in BlockIds : /\ reader_state'[b] = reader_state[b] + Mark(c = b)
                              /\ reader_state'[b] < ReuseClaimed
      BY <1>0, <2>3 DEF Mark
    <2>5. \A b \in BlockIds : ~(rh[h].block = b) /\ (rh'[h].block = b <=> c = b)
      BY <1>0, <2>1, <2>2 DEF NoRead
    <2>6. \A b \in BlockIds : Mark(rh[h].block = b) = 0 /\ Mark(rh'[h].block = b) = Mark(c = b)
      BY <2>5 DEF Mark
    <2>7. \A k \in ReadHandles \ {h} : rh'[k] = rh[k]
      BY <1>0, <2>1
    <2>. QED BY <1>0, <2>2, <2>4, <2>6, <2>7, OneHandleLeases
  <1>3. ASSUME NEW h \in ReadHandles, CloseRead(h) PROVE LeaseInv'
    <2>1. ReleaseRead(h) /\ rh' = [rh EXCEPT ![h] = NoRead] /\ UNCHANGED buffer
      BY <1>3 DEF CloseRead
    <2>2. \A b \in BlockIds : reader_state'[b] = reader_state[b] - Mark(rh[h].block = b)
      BY <2>1, ReleasedWords
    <2>3. \A b \in BlockIds : Mark(rh'[h].block = b) = 0
      BY <1>0, <2>1 DEF NoRead, Mark
    <2>4. \A b \in BlockIds : /\ reader_state'[b] < ReuseClaimed
                              /\ reader_state'[b] + Mark(rh[h].block = b)
                                   = reader_state[b] + Mark(rh'[h].block = b)
      BY <1>0, <2>2, <2>3
    <2>5. \A k \in ReadHandles \ {h} : rh'[k] = rh[k]
      BY <1>0, <2>1
    <2>. QED BY <1>0, <2>1, <2>4, <2>5, OneHandleLeases
  <1>4. ASSUME NEW h \in ReadHandles, NEW g \in ReadHandles, MoveRead(h, g) PROVE LeaseInv'
    <2>1. /\ h # g /\ ReleaseRead(g) /\ UNCHANGED buffer
          /\ rh' = [rh EXCEPT ![g] = rh[h], ![h] = NoRead]
      BY <1>4 DEF MoveRead
    <2>2. \A b \in BlockIds : reader_state'[b] = reader_state[b] - Mark(rh[g].block = b)
      BY <2>1, ReleasedWords
    <2>3. /\ rh'[g] = rh[h] /\ rh'[h] = NoRead
          /\ \A k \in ReadHandles \ {g, h} : rh'[k] = rh[k]
      BY <1>0, <2>1
    <2>4. \A b \in BlockIds : /\ Mark(h # g /\ rh[h].block = b) = Mark(rh'[g].block = b)
                              /\ Mark(h # g /\ rh'[h].block = b) = 0
      BY <1>0, <2>1, <2>3 DEF NoRead, Mark
    <2>5. ASSUME NEW b \in BlockIds
          PROVE  /\ reader_state'[b] < ReuseClaimed
                 /\ reader_state'[b] + Mark(rh[g].block = b) + Mark(h # g /\ rh[h].block = b)
                      = reader_state[b] + Mark(rh'[g].block = b) + Mark(h # g /\ rh'[h].block = b)
      <3>1. Mark(rh[g].block = b) \in Nat /\ Mark(rh'[g].block = b) \in Nat
        BY <1>0
      <3>. QED BY <1>0, <2>2, <2>4, <3>1
    <2>. QED BY <1>0, <2>1, <2>3, <2>5, HandleLeases
  <1>. QED BY <1>1, <1>2, <1>3, <1>4

-----------------------------------------------------------------------------
(* Owners *)

BlocksOwned ==
  \A b \in LocalBlocks : BuffersOn(b) + PromotedOn(b) = Mark(b \in used)

OwnStates ==
  \A x, y \in Buffers :
    buffer[x].state # NoState /\ buffer[x].state = buffer[y].state => x = y

\* OneOwner in terms of the counts.
LEMMA OwnersMatch == OneOwner <=> BlocksOwned /\ OwnStates
  BY DEF OneOwner, BlocksOwned, OwnStates, BuffersOn, PromotedOn, Mark

\* Objects are finite in number: the counts are numbers.
LEMMA OwnerCounts == \A b : BuffersOn(b) \in Nat /\ PromotedOn(b) \in Nat
  BY LocalAssumption, FS_Subset, FS_CardinalityType DEF BuffersOn, PromotedOn

\* The block of a buffer, and of a handle that promoted one, is in use.
LEMMA OwnedIsUsed ==
  ASSUME BlocksOwned, NEW b \in LocalBlocks
  PROVE  /\ \A x \in Buffers : buffer[x].block = b => b \in used
         /\ \A h \in ReadHandles : rh[h].promoted /\ rh[h].block = b => b \in used
  <1>. DEFINE B == {x \in Buffers : buffer[x].block = b}
              P == {h \in ReadHandles : rh[h].promoted /\ rh[h].block = b}
  <1>1. IsFiniteSet(B) /\ IsFiniteSet(P)
    BY LocalAssumption, FS_Subset
  <1>2. /\ Cardinality(B) \in Nat /\ (Cardinality(B) = 0 => B = {})
        /\ Cardinality(P) \in Nat /\ (Cardinality(P) = 0 => P = {})
    BY <1>1, FS_CardinalityType, FS_EmptySet
  <1>3. Cardinality(B) + Cardinality(P) = Mark(b \in used)
    BY DEF BlocksOwned, BuffersOn, PromotedOn
  <1>4. ASSUME b \notin used PROVE B = {} /\ P = {}
    <2>. HIDE DEF B, P
    <2>. QED BY <1>2, <1>3, <1>4 DEF Mark
  <1>. QED BY <1>4

\* A step of one or two buffers uses and frees the blocks that they gain and lose.
LEMMA BufferOwners ==
  ASSUME BlocksOwned, UNCHANGED rh, NEW x \in Buffers, NEW y \in Buffers,
         \A k \in Buffers \ {x, y} : buffer'[k] = buffer[k],
         \A b \in LocalBlocks :
           Mark(b \in used') + Mark(buffer[x].block = b) + Mark(y # x /\ buffer[y].block = b)
             = Mark(b \in used) + Mark(buffer'[x].block = b) + Mark(y # x /\ buffer'[y].block = b)
  PROVE  BlocksOwned'
  <1>1. ASSUME NEW b \in LocalBlocks
        PROVE  BuffersOn(b)' + PromotedOn(b)' = Mark(b \in used')
    <2>1. PromotedOn(b)' = PromotedOn(b)
      BY DEF PromotedOn
    <2>2. PromotedOn(b) \in Nat
      BY OwnerCounts
    <2>3. Moved(BuffersOn(b), BuffersOn(b)', buffer[x].block = b, y # x /\ buffer[y].block = b,
                buffer'[x].block = b, y # x /\ buffer'[y].block = b)
      BY BuffersMove
    <2>4. BuffersOn(b) + PromotedOn(b) = Mark(b \in used)
      BY DEF BlocksOwned
    <2>5. Mark(b \in used') + Mark(buffer[x].block = b) + Mark(y # x /\ buffer[y].block = b)
            = Mark(b \in used) + Mark(buffer'[x].block = b)
                + Mark(y # x /\ buffer'[y].block = b)
      OBVIOUS
    <2>6. /\ Mark(b \in used') \in Nat
          /\ Mark(b \in used) \in Nat
          /\ Mark(buffer[x].block = b) \in Nat
          /\ Mark(y # x /\ buffer[y].block = b) \in Nat
          /\ Mark(buffer'[x].block = b) \in Nat
          /\ Mark(y # x /\ buffer'[y].block = b) \in Nat
      BY DEF Mark
    <2>7. /\ BuffersOn(b) \in Nat /\ BuffersOn(b)' \in Nat
          /\ BuffersOn(b)' + Mark(buffer[x].block = b) + Mark(y # x /\ buffer[y].block = b)
               = BuffersOn(b) + Mark(buffer'[x].block = b) + Mark(y # x /\ buffer'[y].block = b)
      BY <2>3 DEF Moved
    <2>. QED BY <2>1, <2>2, <2>4, <2>5, <2>6, <2>7
  <1>. QED BY <1>1 DEF BlocksOwned, BuffersOn, PromotedOn

\* The same for one or two handles
LEMMA HandleOwners ==
  ASSUME BlocksOwned, UNCHANGED buffer, NEW g \in ReadHandles, NEW h \in ReadHandles,
         \A k \in ReadHandles \ {g, h} : rh'[k] = rh[k],
         \A b \in LocalBlocks :
           Mark(b \in used') + Mark(rh[g].promoted /\ rh[g].block = b)
               + Mark(h # g /\ rh[h].promoted /\ rh[h].block = b)
             = Mark(b \in used) + Mark(rh'[g].promoted /\ rh'[g].block = b)
                 + Mark(h # g /\ rh'[h].promoted /\ rh'[h].block = b)
  PROVE  BlocksOwned'
  <1>1. ASSUME NEW b \in LocalBlocks
        PROVE  BuffersOn(b)' + PromotedOn(b)' = Mark(b \in used')
    <2>1. BuffersOn(b)' = BuffersOn(b)
      BY DEF BuffersOn
    <2>2. BuffersOn(b) \in Nat
      BY OwnerCounts
    <2>3. Moved(PromotedOn(b), PromotedOn(b)', rh[g].promoted /\ rh[g].block = b,
                h # g /\ rh[h].promoted /\ rh[h].block = b,
                rh'[g].promoted /\ rh'[g].block = b,
                h # g /\ rh'[h].promoted /\ rh'[h].block = b)
      BY PromotedMove
    <2>4. BuffersOn(b) + PromotedOn(b) = Mark(b \in used)
      BY DEF BlocksOwned
    <2>5. Mark(b \in used') + Mark(rh[g].promoted /\ rh[g].block = b)
              + Mark(h # g /\ rh[h].promoted /\ rh[h].block = b)
            = Mark(b \in used) + Mark(rh'[g].promoted /\ rh'[g].block = b)
                + Mark(h # g /\ rh'[h].promoted /\ rh'[h].block = b)
      OBVIOUS
    <2>6. /\ Mark(b \in used') \in Nat
          /\ Mark(b \in used) \in Nat
          /\ Mark(rh[g].promoted /\ rh[g].block = b) \in Nat
          /\ Mark(h # g /\ rh[h].promoted /\ rh[h].block = b) \in Nat
          /\ Mark(rh'[g].promoted /\ rh'[g].block = b) \in Nat
          /\ Mark(h # g /\ rh'[h].promoted /\ rh'[h].block = b) \in Nat
      BY DEF Mark
    <2>. QED BY <2>1, <2>2, <2>3, <2>4, <2>5, <2>6 DEF Moved
  <1>. QED BY <1>1 DEF BlocksOwned, BuffersOn, PromotedOn

\* A step of one buffer
LEMMA OneBufferOwners ==
  ASSUME BlocksOwned, UNCHANGED rh, NEW x \in Buffers,
         \A k \in Buffers \ {x} : buffer'[k] = buffer[k],
         \A b \in LocalBlocks :
           Mark(b \in used') + Mark(buffer[x].block = b)
             = Mark(b \in used) + Mark(buffer'[x].block = b)
  PROVE  BlocksOwned'
  <1>1. ASSUME NEW b \in LocalBlocks
        PROVE  Mark(b \in used') + Mark(buffer[x].block = b) + Mark(x # x /\ buffer[x].block = b)
                 = Mark(b \in used) + Mark(buffer'[x].block = b)
                     + Mark(x # x /\ buffer'[x].block = b)
    BY DEF Mark
  <1>. QED BY <1>1, BufferOwners

\* A step of one handle
LEMMA OneHandleOwners ==
  ASSUME BlocksOwned, UNCHANGED buffer, NEW h \in ReadHandles,
         \A k \in ReadHandles \ {h} : rh'[k] = rh[k],
         \A b \in LocalBlocks :
           Mark(b \in used') + Mark(rh[h].promoted /\ rh[h].block = b)
             = Mark(b \in used) + Mark(rh'[h].promoted /\ rh'[h].block = b)
  PROVE  BlocksOwned'
  <1>1. ASSUME NEW b \in LocalBlocks
        PROVE  Mark(b \in used') + Mark(rh[h].promoted /\ rh[h].block = b)
                   + Mark(h # h /\ rh[h].promoted /\ rh[h].block = b)
                 = Mark(b \in used) + Mark(rh'[h].promoted /\ rh'[h].block = b)
                     + Mark(h # h /\ rh'[h].promoted /\ rh'[h].block = b)
    BY DEF Mark
  <1>. QED BY <1>1, HandleOwners

\* Resetting a buffer frees the block that it has, if that is of the own pool.
LEMMA ResetFrees ==
  ASSUME ShapeInv, BlocksOwned, NEW x \in Buffers, NEW b \in LocalBlocks
  PROVE  /\ b \in (IF Owned(x) THEN used \ {buffer[x].block} ELSE used)
              <=> b \in used /\ buffer[x].block # b
         /\ buffer[x].block = b => b \in used
  <1>1. b # NoBlock /\ b \notin RemoteBlocks
    BY LocalAssumption DEF LocalBlocks, BlockIds, Header!BlockIds, NoBlock
  <1>2. buffer[x].block = b => Owned(x)
    BY <1>1 DEF ShapeInv, BufferFits, Owned
  <1>. QED BY <1>1, <1>2, OwnedIsUsed DEF Owned

\* The steps of buffers keep one owner for each block.
LEMMA BufferStepOwners ==
  ASSUME ShapeInv, BlocksOwned, NEW x \in Buffers
  PROVE  /\ Allocate(x) => BlocksOwned'
         /\ Import(x) => BlocksOwned'
         /\ Reset(x) => BlocksOwned'
         /\ HoldReader(x) => BlocksOwned'
         /\ Resize(x) => BlocksOwned'
         /\ \A y \in Buffers : MoveBuffer(x, y) => BlocksOwned'
         /\ \A y \in Buffers : Clone(x, y) => BlocksOwned'
         /\ \A w \in WriteHandles : GetWriteHandle(x, w) => BlocksOwned'
         /\ \A t \in Threads : CreateState(t) => BlocksOwned'
  <1>0. /\ buffer \in [Buffers -> BufferRecord]
        /\ \A b \in LocalBlocks : b # NoBlock /\ b \notin RemoteBlocks
    BY LocalAssumption DEF ShapeInv, Types, LocalBlocks, BlockIds, Header!BlockIds, NoBlock
  <1>1. ASSUME Allocate(x) PROVE BlocksOwned'
    <2>1. PICK c \in LocalBlocks \ used :
            used' = used \cup {c} /\ buffer' = [buffer EXCEPT ![x].block = c]
      BY <1>1 DEF Allocate, Available
    <2>2. buffer[x] = Empty /\ UNCHANGED rh
      BY <1>1 DEF Allocate
    <2>3. buffer[x].block = NoBlock /\ buffer'[x].block = c
      BY <1>0, <2>1, <2>2 DEF Empty
    <2>4. \A b \in LocalBlocks : Mark(b \in used') + Mark(buffer[x].block = b)
                                   = Mark(b \in used) + Mark(buffer'[x].block = b)
      BY <1>0, <2>1, <2>3 DEF Mark
    <2>. QED BY <1>0, <2>1, <2>2, <2>4, OneBufferOwners
  <1>2. ASSUME Import(x) PROVE BlocksOwned'
    <2>1. PICK c \in RemoteBlocks : buffer' = [buffer EXCEPT
            ![x] = [block |-> c, writable |-> FALSE, state |-> NoState, held |-> FALSE]]
      BY <1>2 DEF Import
    <2>2. buffer[x] = Empty /\ UNCHANGED <<used, rh>>
      BY <1>2 DEF Import
    <2>3. buffer[x].block = NoBlock /\ buffer'[x].block = c
      BY <1>0, <2>1, <2>2 DEF Empty
    <2>4. \A b \in LocalBlocks : Mark(b \in used') + Mark(buffer[x].block = b)
                                   = Mark(b \in used) + Mark(buffer'[x].block = b)
      BY <1>0, <2>2, <2>3 DEF Mark
    <2>. QED BY <1>0, <2>1, <2>2, <2>4, OneBufferOwners
  <1>3. ASSUME Reset(x) PROVE BlocksOwned'
    <2>1. /\ used' = IF Owned(x) THEN used \ {buffer[x].block} ELSE used
          /\ buffer' = [buffer EXCEPT ![x] = Empty] /\ UNCHANGED rh
      BY <1>3 DEF Reset, ResetEffect
    <2>2. buffer'[x].block = NoBlock
      BY <1>0, <2>1 DEF Empty
    <2>3. ASSUME NEW b \in LocalBlocks
          PROVE  Mark(b \in used') + Mark(buffer[x].block = b)
                   = Mark(b \in used) + Mark(buffer'[x].block = b)
      <3>1. b \in used' <=> b \in used /\ buffer[x].block # b
        BY <2>1, ResetFrees
      <3>2. buffer[x].block = b => b \in used
        BY ResetFrees
      <3>. QED BY <1>0, <2>2, <3>1, <3>2 DEF Mark
    <2>. QED BY <1>0, <2>1, <2>3, OneBufferOwners
  <1>4. ASSUME HoldReader(x) PROVE BlocksOwned'
    <2>1. buffer' = [buffer EXCEPT ![x].held = TRUE] /\ UNCHANGED <<used, rh>>
      BY <1>4 DEF HoldReader
    <2>2. buffer'[x].block = buffer[x].block
      BY <1>0, <2>1 DEF BufferRecord
    <2>. QED BY <1>0, <2>1, <2>2, OneBufferOwners DEF Mark
  <1>5. ASSUME Resize(x) PROVE BlocksOwned'
    <2>1. PICK c \in LocalBlocks \ used :
            /\ used' = (IF Owned(x) THEN used \ {buffer[x].block} ELSE used) \cup {c}
            /\ buffer' = [buffer EXCEPT ![x] = WrittenBuffer(c, FreshState)]
      BY <1>5 DEF Resize, Available
    <2>2. buffer'[x].block = c /\ UNCHANGED rh
      BY <1>0, <1>5, <2>1 DEF Resize, WrittenBuffer, Empty
    <2>3. ASSUME NEW b \in LocalBlocks
          PROVE  Mark(b \in used') + Mark(buffer[x].block = b)
                   = Mark(b \in used) + Mark(buffer'[x].block = b)
      <3>1. b \in used' <=> b = c \/ (b \in used /\ buffer[x].block # b)
        BY <2>1, ResetFrees
      <3>2. buffer[x].block = b => b \in used
        BY ResetFrees
      <3>. QED BY <2>1, <2>2, <3>1, <3>2 DEF Mark
    <2>. QED BY <1>0, <2>1, <2>2, <2>3, OneBufferOwners
  <1>6. ASSUME NEW y \in Buffers, MoveBuffer(x, y) PROVE BlocksOwned'
    <2>1. /\ x # y /\ UNCHANGED rh
          /\ used' = IF Owned(y) THEN used \ {buffer[y].block} ELSE used
          /\ buffer' = [buffer EXCEPT ![y] = buffer[x], ![x] = Empty]
      BY <1>6 DEF MoveBuffer, ResetEffect, MovedFrom
    <2>2. /\ buffer'[x].block = NoBlock /\ buffer'[y].block = buffer[x].block
          /\ \A k \in Buffers \ {x, y} : buffer'[k] = buffer[k]
      BY <1>0, <2>1 DEF Empty
    <2>3. ASSUME NEW b \in LocalBlocks
          PROVE  Mark(b \in used') + Mark(buffer[x].block = b) + Mark(y # x /\ buffer[y].block = b)
                   = Mark(b \in used) + Mark(buffer'[x].block = b)
                       + Mark(y # x /\ buffer'[y].block = b)
      <3>1. b \in used' <=> b \in used /\ buffer[y].block # b
        BY <2>1, ResetFrees
      <3>2. buffer[y].block = b => b \in used
        BY ResetFrees
      <3>. QED BY <1>0, <2>1, <2>2, <3>1, <3>2 DEF Mark
    <2>. QED BY <2>1, <2>2, <2>3, BufferOwners
  <1>7. ASSUME NEW y \in Buffers, Clone(x, y) PROVE BlocksOwned'
    <2>1. PICK c \in LocalBlocks \ used :
            /\ used' = used \cup {c}
            /\ \E s : buffer' = [buffer EXCEPT ![x].state = s, ![y] = WrittenBuffer(c, FreshState)]
      BY <1>7 DEF Clone, Available
    <2>2. buffer[x].block # NoBlock /\ buffer[y] = Empty /\ UNCHANGED rh
      BY <1>7 DEF Clone
    <2>3. x # y /\ buffer[y].block = NoBlock
      BY <2>2 DEF Empty
    <2>4. /\ \A k \in Buffers \ {x, y} : buffer'[k] = buffer[k]
          /\ \E s : buffer'[x] = [buffer[x] EXCEPT !.state = s]
          /\ buffer'[y] = WrittenBuffer(c, FreshState)
      BY <1>0, <2>1, <2>3
    <2>5. buffer'[x].block = buffer[x].block /\ buffer'[y].block = c
      BY <1>0, <2>4 DEF BufferRecord, WrittenBuffer, Empty
    <2>6. ASSUME NEW b \in LocalBlocks
          PROVE  Mark(b \in used') + Mark(buffer[x].block = b) + Mark(y # x /\ buffer[y].block = b)
                   = Mark(b \in used) + Mark(buffer'[x].block = b)
                       + Mark(y # x /\ buffer'[y].block = b)
      BY <1>0, <2>1, <2>3, <2>5 DEF Mark
    <2>. QED BY <2>2, <2>4, <2>6, BufferOwners
  <1>8. ASSUME NEW w \in WriteHandles, GetWriteHandle(x, w) PROVE BlocksOwned'
    <2>1. UNCHANGED <<used, rh>>
      BY <1>8 DEF GetWriteHandle
    <2>2. /\ \A k \in Buffers \ {x} : buffer'[k] = buffer[k]
          /\ buffer'[x].block = buffer[x].block
      BY <1>0, <1>8 DEF GetWriteHandle, BufferRecord
    <2>. QED BY <2>1, <2>2, OneBufferOwners DEF Mark
  <1>9. ASSUME NEW t \in Threads, CreateState(t) PROVE BlocksOwned'
    <2>. DEFINE y == call[t].buf
    <2>1. y \in Buffers /\ UNCHANGED <<used, rh>>
      BY <1>9 DEF CreateState, ShapeInv, CallFits
    <2>2. /\ \A k \in Buffers \ {y} : buffer'[k] = buffer[k]
          /\ buffer'[y].block = buffer[y].block
      BY <1>0, <1>9, <2>1 DEF CreateState, BufferRecord
    <2>. HIDE DEF y
    <2>. QED BY <2>1, <2>2, OneBufferOwners DEF Mark
  <1>. QED BY <1>1, <1>2, <1>3, <1>4, <1>5, <1>6, <1>7, <1>8, <1>9

\* The steps of handles do.
LEMMA HandleStepOwners ==
  ASSUME ShapeInv, BlocksOwned
  PROVE  /\ \A t \in Threads : LeaseRead(t) => BlocksOwned'
         /\ \A h \in ReadHandles : Promote(h) => BlocksOwned'
         /\ \A h \in ReadHandles : CloseRead(h) => BlocksOwned'
         /\ \A h, g \in ReadHandles : MoveRead(h, g) => BlocksOwned'
  <1>0. rh \in [ReadHandles -> ReadRecord]
    BY DEF ShapeInv, Types
  <1>1. ASSUME NEW t \in Threads, LeaseRead(t) PROVE BlocksOwned'
    <2>. DEFINE h == call[t].handle
    <2>1. h \in ReadHandles /\ rh[h] = NoRead /\ UNCHANGED <<used, buffer>>
      BY <1>1 DEF LeaseRead, ShapeInv, CallFits
    <2>2. PICK c : rh' = [rh EXCEPT
            ![h] = [block |-> c, state |-> call[t].state, promoted |-> FALSE]]
      BY <1>1 DEF LeaseRead
    <2>. HIDE DEF h
    <2>3. ~rh[h].promoted /\ ~rh'[h].promoted
      BY <1>0, <2>1, <2>2 DEF NoRead
    <2>4. \A b \in LocalBlocks : Mark(b \in used') + Mark(rh[h].promoted /\ rh[h].block = b)
            = Mark(b \in used) + Mark(rh'[h].promoted /\ rh'[h].block = b)
      BY <2>1, <2>3 DEF Mark
    <2>5. \A k \in ReadHandles \ {h} : rh'[k] = rh[k]
      BY <1>0, <2>2
    <2>. QED BY <2>1, <2>4, <2>5, OneHandleOwners
  <1>2. ASSUME NEW h \in ReadHandles, Promote(h) PROVE BlocksOwned'
    <2>1. PICK c \in LocalBlocks \ used :
            /\ used' = used \cup {c}
            /\ rh' = [rh EXCEPT ![h] = [block |-> c, state |-> FreshState, promoted |-> TRUE]]
      BY <1>2 DEF Promote, Available
    <2>2. rh[h] = NoRead /\ UNCHANGED buffer
      BY <1>2 DEF Promote
    <2>3. ~rh[h].promoted /\ rh'[h].promoted /\ rh'[h].block = c
      BY <1>0, <2>1, <2>2 DEF NoRead
    <2>4. \A b \in LocalBlocks : Mark(b \in used') + Mark(rh[h].promoted /\ rh[h].block = b)
            = Mark(b \in used) + Mark(rh'[h].promoted /\ rh'[h].block = b)
      BY <2>1, <2>3 DEF Mark
    <2>5. \A k \in ReadHandles \ {h} : rh'[k] = rh[k]
      BY <1>0, <2>1
    <2>. QED BY <2>2, <2>4, <2>5, OneHandleOwners
  <1>3. ASSUME NEW h \in ReadHandles, CloseRead(h) PROVE BlocksOwned'
    <2>1. /\ used' = IF rh[h].promoted THEN used \ {rh[h].block} ELSE used
          /\ rh' = [rh EXCEPT ![h] = NoRead] /\ UNCHANGED buffer
      BY <1>3 DEF CloseRead, ReleaseRead
    <2>2. ~rh'[h].promoted
      BY <1>0, <2>1 DEF NoRead
    <2>3. \A b \in LocalBlocks : rh[h].promoted /\ rh[h].block = b => b \in used
      BY OwnedIsUsed
    <2>4. \A b \in LocalBlocks : Mark(b \in used') + Mark(rh[h].promoted /\ rh[h].block = b)
            = Mark(b \in used) + Mark(rh'[h].promoted /\ rh'[h].block = b)
      BY <2>1, <2>2, <2>3 DEF Mark
    <2>5. \A k \in ReadHandles \ {h} : rh'[k] = rh[k]
      BY <1>0, <2>1
    <2>. QED BY <2>1, <2>4, <2>5, OneHandleOwners
  <1>4. ASSUME NEW h \in ReadHandles, NEW g \in ReadHandles, MoveRead(h, g) PROVE BlocksOwned'
    <2>1. /\ h # g /\ UNCHANGED buffer
          /\ used' = IF rh[g].promoted THEN used \ {rh[g].block} ELSE used
          /\ rh' = [rh EXCEPT ![g] = rh[h], ![h] = NoRead]
      BY <1>4 DEF MoveRead, ReleaseRead
    <2>2. /\ rh'[g] = rh[h] /\ ~rh'[h].promoted
          /\ \A k \in ReadHandles \ {g, h} : rh'[k] = rh[k]
      BY <1>0, <2>1 DEF NoRead
    <2>3. \A b \in LocalBlocks : rh[g].promoted /\ rh[g].block = b => b \in used
      BY OwnedIsUsed
    <2>4. ASSUME NEW b \in LocalBlocks
          PROVE  Mark(b \in used') + Mark(rh[g].promoted /\ rh[g].block = b)
                     + Mark(h # g /\ rh[h].promoted /\ rh[h].block = b)
                   = Mark(b \in used) + Mark(rh'[g].promoted /\ rh'[g].block = b)
                       + Mark(h # g /\ rh'[h].promoted /\ rh'[h].block = b)
      BY <2>1, <2>2, <2>3 DEF Mark
    <2>. QED BY <2>1, <2>2, <2>4, HandleOwners
  <1>. QED BY <1>1, <1>2, <1>3, <1>4

\* No two buffers come to share a HandleState.
LEMMA BufferStepStates ==
  ASSUME ShapeInv, OwnStates, NEW x \in Buffers
  PROVE  /\ Allocate(x) => OwnStates'
         /\ Import(x) => OwnStates'
         /\ Reset(x) => OwnStates'
         /\ HoldReader(x) => OwnStates'
         /\ Resize(x) => OwnStates'
         /\ \A y \in Buffers : MoveBuffer(x, y) => OwnStates'
         /\ \A y \in Buffers : Clone(x, y) => OwnStates'
         /\ \A w \in WriteHandles : GetWriteHandle(x, w) => OwnStates'
         /\ \A t \in Threads : CreateState(t) => OwnStates'
  <1>0. buffer \in [Buffers -> BufferRecord]
    BY DEF ShapeInv, Types
  <1>1. ASSUME Allocate(x) PROVE OwnStates'
    BY <1>0, <1>1 DEF Allocate, OwnStates, BufferRecord
  <1>2. ASSUME Import(x) PROVE OwnStates'
    BY <1>0, <1>2 DEF Import, OwnStates, BufferRecord
  <1>3. ASSUME Reset(x) PROVE OwnStates'
    BY <1>0, <1>3 DEF Reset, OwnStates, BufferRecord, Empty
  <1>4. ASSUME HoldReader(x) PROVE OwnStates'
    BY <1>0, <1>4 DEF HoldReader, OwnStates, BufferRecord
  <1>5. ASSUME Resize(x) PROVE OwnStates'
    <2>1. PICK c : buffer' = [buffer EXCEPT ![x] = WrittenBuffer(c, FreshState)]
      BY <1>5 DEF Resize
    <2>2. \A y \in Buffers :
            buffer'[y].state = IF y = x THEN FreshState ELSE buffer[y].state
      BY <1>0, <2>1 DEF WrittenBuffer, Empty
    <2>3. \A y \in Buffers : buffer[y].state # FreshState
      BY <1>5, FreshIsFree DEF Resize
    <2>. QED BY <2>2, <2>3 DEF OwnStates
  <1>6. ASSUME NEW y \in Buffers, MoveBuffer(x, y) PROVE OwnStates'
    <2>1. x # y /\ buffer' = [buffer EXCEPT ![y] = buffer[x], ![x] = Empty]
      BY <1>6 DEF MoveBuffer, MovedFrom
    <2>2. \A z \in Buffers : buffer'[z].state = IF z = x THEN NoState
                               ELSE IF z = y THEN buffer[x].state ELSE buffer[z].state
      BY <1>0, <2>1 DEF Empty
    <2>. QED BY <2>1, <2>2 DEF OwnStates
  <1>7. ASSUME NEW y \in Buffers, Clone(x, y) PROVE OwnStates'
    <2>1. PICK c \in Available,
               s \in (IF buffer[x].state = NoState
                     THEN FreeStates \ {FreshState} ELSE {buffer[x].state}) :
            buffer' = [buffer EXCEPT ![x].state = s, ![y] = WrittenBuffer(c, FreshState)]
      BY <1>7 DEF Clone
    <2>2. x # y
      BY <1>7 DEF Clone, Empty
    <2>3. \A z \in Buffers : buffer'[z].state = IF z = y THEN FreshState
                               ELSE IF z = x THEN s ELSE buffer[z].state
      BY <1>0, <2>1, <2>2 DEF BufferRecord, WrittenBuffer, Empty
    <2>4. \A z \in Buffers : buffer[z].state # FreshState
      BY <1>7, FreshIsFree DEF Clone
    <2>5. s = buffer[x].state \/ \A z \in Buffers : buffer[z].state # s
      BY <2>1 DEF FreeStates, LiveStates
    <2>6. s # FreshState
      BY <2>1, <2>4
    <2>. QED BY <2>3, <2>4, <2>5, <2>6 DEF OwnStates
  <1>8. ASSUME NEW w \in WriteHandles, GetWriteHandle(x, w) PROVE OwnStates'
    <2>1. CASE UNCHANGED buffer
      BY <2>1 DEF OwnStates
    <2>2. CASE FreeStates # {} /\ buffer' = [buffer EXCEPT ![x].state = FreshState]
      BY <1>0, <2>2, FreshIsFree DEF OwnStates, BufferRecord
    <2>. QED BY <1>8, <2>1, <2>2 DEF GetWriteHandle
  <1>9. ASSUME NEW t \in Threads, CreateState(t) PROVE OwnStates'
    <2>1. /\ FreeStates # {} /\ call[t].buf \in Buffers
          /\ buffer' = [buffer EXCEPT ![call[t].buf].state = FreshState]
      BY <1>9 DEF CreateState, ShapeInv, CallFits
    <2>. QED BY <1>0, <2>1, FreshIsFree DEF OwnStates, BufferRecord
  <1>. QED BY <1>1, <1>2, <1>3, <1>4, <1>5, <1>6, <1>7, <1>8, <1>9

-----------------------------------------------------------------------------
(* Slots and writers *)

StateInv == SlotAccounting /\ WritersAreKnown

\* References lead to HandleStates.
LEMMA LiveAreStates == ShapeInv => LiveStates \ {NoState} \subseteq StateIds
  BY DEF ShapeInv, Types, BufferRecord, ReadRecord, WriteRecord, CallRecord, StateRefs, LiveStates

\* Objects are finite in number: the counts are numbers.
LEMMA SlotCounts == \A s : ReadersOf(s) \in Nat /\ LeasingOf(s) \in Nat
  BY LocalAssumption, FS_Subset, FS_CardinalityType DEF ReadersOf, LeasingOf

\* A HandleState that no object refers to has no slots.
LEMMA FreeHasNoSlots ==
  ASSUME NEW s \in FreeStates
  PROVE  ReadersOf(s) = 0 /\ LeasingOf(s) = 0
  <1>1. {h \in ReadHandles : rh[h].state = s} = {}
    BY DEF FreeStates, LiveStates
  <1>2. {t \in Threads : call[t].pc = "lease" /\ call[t].state = s} = {}
    BY DEF FreeStates, LiveStates
  <1>. QED BY <1>1, <1>2, FS_EmptySet DEF ReadersOf, LeasingOf

\* A slot that is held is counted.
LEMMA SlotIsCounted ==
  ASSUME StateInv, NEW s \in LiveStates \ {NoState}
  PROVE  /\ hstate[s].active_readers = ReadersOf(s) + LeasingOf(s)
         /\ \A h \in ReadHandles : rh[h].state = s => ReadersOf(s) > 0
         /\ \A t \in Threads : call[t].pc = "lease" /\ call[t].state = s => LeasingOf(s) > 0
  <1>. DEFINE R == {h \in ReadHandles : rh[h].state = s}
              L == {t \in Threads : call[t].pc = "lease" /\ call[t].state = s}
  <1>1. IsFiniteSet(R) /\ IsFiniteSet(L)
    BY LocalAssumption, FS_Subset
  <1>2. /\ Cardinality(R) \in Nat /\ (Cardinality(R) = 0 => R = {})
        /\ Cardinality(L) \in Nat /\ (Cardinality(L) = 0 => L = {})
    BY <1>1, FS_CardinalityType, FS_EmptySet
  <1>3. ReadersOf(s) = Cardinality(R) /\ LeasingOf(s) = Cardinality(L)
    BY DEF ReadersOf, LeasingOf
  <1>4. hstate[s].active_readers = ReadersOf(s) + LeasingOf(s)
    BY DEF StateInv, SlotAccounting, ReadersOf, LeasingOf
  <1>5. /\ \A h \in ReadHandles : rh[h].state = s => R # {}
        /\ \A t \in Threads : call[t].pc = "lease" /\ call[t].state = s => L # {}
    OBVIOUS
  <1>. HIDE DEF R, L
  <1>. QED BY <1>2, <1>3, <1>4, <1>5

\* The same calls hold a slot.
LeasesStay ==
  \A t \in Threads : /\ call'[t].pc = "lease" <=> call[t].pc = "lease"
                     /\ call[t].pc = "lease" => call'[t].state = call[t].state

\* A step that leaves the leasing calls alone keeps their count.
LEMMA LeasingFrame ==
  ASSUME LeasesStay
  PROVE  \A s : LeasingOf(s)' = LeasingOf(s)
  <1>1. ASSUME NEW s
        PROVE  {t \in Threads : call'[t].pc = "lease" /\ call'[t].state = s}
                 = {t \in Threads : call[t].pc = "lease" /\ call[t].state = s}
    BY DEF LeasesStay
  <1>. QED BY <1>1 DEF LeasingOf

\* A step that leaves the HandleStates alone, or finalizes one.
LEMMA StateFrame ==
  ASSUME ShapeInv, StateInv, UNCHANGED rh, LeasesStay,
         LiveStates' \subseteq LiveStates \cup {NoState},
         \/ UNCHANGED hstate
         \/ \E s \in StateIds : hstate' = Finalized(s),
         \/ UNCHANGED wh
         \/ \A w \in WriteHandles : wh'[w].state # NoState =>
              \E v \in WriteHandles : wh'[w].state = wh[v].state,
         \A v, w \in WriteHandles : v # w /\ wh'[v].state = wh'[w].state => wh'[v].state = NoState
  PROVE  StateInv'
  <1>0. LiveStates \ {NoState} \subseteq StateIds
    BY LiveAreStates
  <1>1. \A s \in StateIds :
          /\ hstate'[s].active_readers = hstate[s].active_readers
          /\ hstate[s].state # "Unset" => hstate'[s].state # "Unset"
          /\ hstate'[s].state = "InUse" => hstate[s].state = "InUse"
    BY DEF ShapeInv, Types, Finalized, StateRecord
  <1>2. SlotAccounting'
    <2>1. ASSUME NEW s \in LiveStates' \ {NoState}
          PROVE  hstate'[s].active_readers = ReadersOf(s)' + LeasingOf(s)'
      <3>1. ReadersOf(s)' = ReadersOf(s) /\ LeasingOf(s)' = LeasingOf(s)
        BY LeasingFrame DEF ReadersOf
      <3>. QED BY <1>0, <1>1, <3>1, SlotIsCounted
    <2>. QED BY <2>1 DEF SlotAccounting, ReadersOf, LeasingOf
  <1>3. WritersAreKnown'
    <2>1. \A w \in WriteHandles : wh[w].state # NoState => wh[w].state \in LiveStates
      BY DEF LiveStates
    <2>2. \A w \in WriteHandles : wh'[w].state # NoState => hstate'[wh'[w].state].state # "Unset"
      BY <1>0, <1>1, <2>1 DEF StateInv, WritersAreKnown
    <2>3. \A s \in LiveStates' \ {NoState} :
            hstate'[s].state = "InUse" => hstate'[s].active_readers = 0
      BY <1>0, <1>1 DEF StateInv, WritersAreKnown
    <2>. QED BY <2>2, <2>3 DEF WritersAreKnown
  <1>. QED BY <1>2, <1>3 DEF StateInv

\* The steps that take or give no slot and create no HandleState.
LEMMA QuietSteps ==
  ASSUME ShapeInv, StateInv
  PROVE  /\ \A t \in Threads, x \in Buffers, h \in ReadHandles : BeginRead(t, x, h) => StateInv'
         /\ \A t \in Threads : CheckState(t) \/ CaptureState(t) => StateInv'
         /\ \A x \in Buffers : Allocate(x) \/ Import(x) \/ Reset(x) \/ HoldReader(x) => StateInv'
         /\ \A x, y \in Buffers : MoveBuffer(x, y) => StateInv'
         /\ \A x \in Buffers : FinalizeWrite(x) => StateInv'
         /\ \A w \in WriteHandles : CloseWrite(w) => StateInv'
         /\ \A w, v \in WriteHandles : MoveWrite(w, v) => StateInv'
  <1>0. /\ buffer \in [Buffers -> BufferRecord] /\ call \in [Threads -> CallRecord]
        /\ wh \in [WriteHandles -> WriteRecord]
    BY DEF ShapeInv, Types
  <1>w. \A v, w \in WriteHandles : v # w /\ wh[v].state = wh[w].state => wh[v].state = NoState
    BY DEF StateInv, WritersAreKnown
  <1>1. ASSUME NEW t \in Threads, NEW x \in Buffers, NEW h \in ReadHandles, BeginRead(t, x, h)
        PROVE  StateInv'
    <2>1. UNCHANGED <<buffer, hstate, rh, wh>> /\ call[t] = NoCall
      BY <1>1 DEF BeginRead
    <2>2. /\ \A u \in Threads \ {t} : call'[u] = call[u]
          /\ call'[t].pc = "check" /\ call'[t].state = NoState
          /\ call[t].pc = "idle" /\ call[t].state = NoState
      BY <1>0, <1>1, <2>1 DEF BeginRead, NoCall
    <2>3. LeasesStay
      BY <2>2 DEF LeasesStay
    <2>4. LiveStates' \subseteq LiveStates \cup {NoState}
      BY <2>1, <2>2 DEF LiveStates
    <2>. QED BY <1>w, <2>1, <2>3, <2>4, StateFrame
  <1>2. ASSUME NEW t \in Threads, CheckState(t) \/ CaptureState(t) PROVE StateInv'
    <2>1. UNCHANGED <<buffer, hstate, rh, wh>> /\ call[t].pc \in {"check", "capture"}
      BY <1>2 DEF CheckState, CaptureState
    <2>2. /\ \A u \in Threads \ {t} : call'[u] = call[u]
          /\ call'[t].pc \in {"create", "capture", "enter"}
          /\ call'[t].state \in {call[t].state, buffer[call[t].buf].state}
      BY <1>0, <1>2 DEF CheckState, CaptureState, Proceed, CallRecord
    <2>3. LeasesStay
      BY <2>1, <2>2 DEF LeasesStay
    <2>4. call[t].buf \in Buffers
      BY <2>1 DEF ShapeInv, CallFits
    <2>5. LiveStates' \subseteq LiveStates
      BY <2>1, <2>2, <2>4 DEF LiveStates
    <2>. QED BY <1>w, <2>1, <2>3, <2>5, StateFrame
  <1>3. ASSUME NEW x \in Buffers, Allocate(x) \/ Import(x) \/ Reset(x) \/ HoldReader(x)
        PROVE  StateInv'
    <2>1. UNCHANGED <<hstate, rh, wh, call>>
      BY <1>3 DEF Allocate, Import, Reset, HoldReader
    <2>2. /\ \A k \in Buffers \ {x} : buffer'[k] = buffer[k]
          /\ buffer'[x].state \in {buffer[x].state, NoState}
      BY <1>0, <1>3 DEF Allocate, Import, Reset, HoldReader, Empty, BufferRecord
    <2>3. LeasesStay
      BY <2>1 DEF LeasesStay
    <2>4. LiveStates' \subseteq LiveStates \cup {NoState}
      BY <2>1, <2>2 DEF LiveStates
    <2>. QED BY <1>w, <2>1, <2>3, <2>4, StateFrame
  <1>4. ASSUME NEW x \in Buffers, NEW y \in Buffers, MoveBuffer(x, y) PROVE StateInv'
    <2>1. UNCHANGED <<hstate, rh, wh, call>>
          /\ x # y /\ buffer' = [buffer EXCEPT ![y] = buffer[x], ![x] = Empty]
      BY <1>4 DEF MoveBuffer, MovedFrom
    <2>2. /\ UNCHANGED <<rh, wh, call>>
          /\ \A z \in Buffers : buffer'[z].state = IF z = x THEN NoState
                               ELSE IF z = y THEN buffer[x].state ELSE buffer[z].state
      BY <1>0, <2>1 DEF Empty
    <2>3. LeasesStay
      BY <2>1 DEF LeasesStay
    <2>4. LiveStates' \subseteq LiveStates \cup {NoState}
      BY <2>2 DEF LiveStates
    <2>. QED BY <1>w, <2>1, <2>3, <2>4, StateFrame
  <1>5. ASSUME NEW x \in Buffers, FinalizeWrite(x) PROVE StateInv'
    <2>1. /\ UNCHANGED <<buffer, rh, wh, call>>
          /\ \E s \in StateIds : hstate' = Finalized(s)
      BY <1>0, <1>5 DEF FinalizeWrite, BufferRecord, StateRefs
    <2>2. LeasesStay /\ LiveStates' = LiveStates
      BY <2>1 DEF LeasesStay, LiveStates
    <2>. QED BY <1>w, <2>1, <2>2, StateFrame
  <1>6. ASSUME NEW w \in WriteHandles, CloseWrite(w) PROVE StateInv'
    <2>1. /\ UNCHANGED <<buffer, rh, call>>
          /\ wh' = [wh EXCEPT ![w] = NoWrite]
          /\ \E s \in StateIds : hstate' = Finalized(s)
      BY <1>0, <1>6 DEF CloseWrite, WriteRecord, StateRefs, ShapeInv, WriteFits
    <2>2. /\ UNCHANGED <<buffer, rh, call>>
          /\ \A v \in WriteHandles : wh'[v].state = IF v = w THEN NoState ELSE wh[v].state
      BY <1>0, <2>1 DEF NoWrite
    <2>3. LeasesStay
      BY <2>1 DEF LeasesStay
    <2>4. LiveStates' \subseteq LiveStates \cup {NoState}
      BY <2>2 DEF LiveStates
    <2>5. \A v, u \in WriteHandles :
            v # u /\ wh'[v].state = wh'[u].state => wh'[v].state = NoState
      BY <1>w, <2>2
    <2>6. \A u \in WriteHandles : wh'[u].state # NoState =>
            \E v \in WriteHandles : wh'[u].state = wh[v].state
      BY <2>2
    <2>. QED BY <2>1, <2>3, <2>4, <2>5, <2>6, StateFrame
  <1>7. ASSUME NEW w \in WriteHandles, NEW v \in WriteHandles, MoveWrite(w, v) PROVE StateInv'
    <2>1. /\ UNCHANGED <<buffer, rh, call>>
          /\ w # v /\ wh' = [wh EXCEPT ![v] = wh[w], ![w] = NoWrite]
          /\ \E s \in StateIds : hstate' = Finalized(s)
      BY <1>0, <1>7 DEF MoveWrite, WriteRecord, StateRefs, ShapeInv, WriteFits
    <2>2. /\ UNCHANGED <<buffer, rh, call>> /\ w # v
          /\ \A u \in WriteHandles : wh'[u].state = IF u = w THEN NoState
                                    ELSE IF u = v THEN wh[w].state ELSE wh[u].state
      BY <1>0, <2>1 DEF NoWrite
    <2>3. LeasesStay
      BY <2>1 DEF LeasesStay
    <2>4. LiveStates' \subseteq LiveStates \cup {NoState}
      BY <2>2 DEF LiveStates
    <2>5. \A k, u \in WriteHandles :
            k # u /\ wh'[k].state = wh'[u].state => wh'[k].state = NoState
      BY <1>w, <2>2
    <2>6. \A u \in WriteHandles : wh'[u].state # NoState =>
            \E k \in WriteHandles : wh'[u].state = wh[k].state
      BY <2>2
    <2>. QED BY <2>1, <2>3, <2>4, <2>5, <2>6, StateFrame
  <1>. QED BY <1>1, <1>2, <1>3, <1>4, <1>5, <1>6, <1>7

\* The steps of get_read_handle that take, pass on or give back a slot.
LEMMA SlotSteps ==
  ASSUME ShapeInv, StateInv, NEW t \in Threads
  PROVE  /\ EnterRead(t) => StateInv'
         /\ LeaseRead(t) => StateInv'
         /\ LeaseRefused(t) => StateInv'
  <1>. DEFINE c == call[t].state
  <1>0. /\ call \in [Threads -> CallRecord] /\ hstate \in [StateIds -> StateRecord]
        /\ rh \in [ReadHandles -> ReadRecord]
    BY DEF ShapeInv, Types
  <1>1. call[t].pc \in {"enter", "lease"} => c \in StateIds /\ c \in LiveStates /\ c # NoState
    BY <1>0 DEF ShapeInv, CallFits, CallRecord, StateRefs, LiveStates
  <1>2. \A w \in WriteHandles : wh[w].state # NoState => wh[w].state \in LiveStates \ {NoState}
    BY DEF LiveStates
  <1>3. LiveStates \ {NoState} \subseteq StateIds
    BY LiveAreStates
  <1>4. ASSUME EnterRead(t) PROVE StateInv'
    <2>1. CASE Writing(c)
      <3>1. UNCHANGED <<buffer, hstate, rh, wh>> /\ call' = [call EXCEPT ![t] = NoCall]
        BY <1>4, <2>1 DEF EnterRead, Return
      <3>2. /\ call[t].pc = "enter" /\ UNCHANGED <<buffer, rh, wh>>
            /\ \A u \in Threads : call'[u] = IF u = t THEN NoCall ELSE call[u]
        BY <1>0, <1>4, <3>1 DEF EnterRead
      <3>3. LeasesStay
        BY <3>2 DEF LeasesStay, NoCall
      <3>4. LiveStates' \subseteq LiveStates \cup {NoState}
        BY <3>2 DEF LiveStates, NoCall
      <3>5. \A v, w \in WriteHandles :
              v # w /\ wh'[v].state = wh'[w].state => wh'[v].state = NoState
        BY <3>2 DEF StateInv, WritersAreKnown
      <3>. QED BY <3>1, <3>3, <3>4, <3>5, StateFrame
    <2>2. CASE ~Writing(c)
      <3>1. /\ call[t].pc = "enter" /\ UNCHANGED <<buffer, rh, wh>>
            /\ hstate' = [hstate EXCEPT ![c].active_readers = @ + 1]
            /\ call' = [call EXCEPT ![t].pc = "lease"]
        BY <1>4, <2>2 DEF EnterRead, Proceed
      <3>2. /\ \A u \in Threads \ {t} : call'[u] = call[u]
            /\ call'[t].pc = "lease" /\ call'[t].state = c
        BY <1>0, <3>1 DEF CallRecord
      <3>3. LiveStates' = LiveStates
        <4>1. \A u \in Threads : call'[u].state = call[u].state
          BY <3>2
        <4>. QED BY <3>1, <4>1 DEF LiveStates
      <3>4. \A s \in StateIds : /\ hstate'[s].state = hstate[s].state
                                /\ hstate'[s].active_readers =
                                     hstate[s].active_readers + (IF s = c THEN 1 ELSE 0)
        BY <1>0, <3>1 DEF StateRecord
      <3>5. ASSUME NEW s \in LiveStates \ {NoState}
            PROVE  hstate'[s].active_readers = ReadersOf(s)' + LeasingOf(s)'
        <4>1. hstate[s].active_readers = ReadersOf(s) + LeasingOf(s)
          BY SlotIsCounted
        <4>2. ReadersOf(s)' = ReadersOf(s)
          BY <3>1 DEF ReadersOf
        <4>3. Moved(LeasingOf(s), LeasingOf(s)', call[t].pc = "lease" /\ call[t].state = s, FALSE,
                    call'[t].pc = "lease" /\ call'[t].state = s, FALSE)
          BY <3>2, LeasingMove
        <4>4. LeasingOf(s)' = LeasingOf(s) + (IF s = c THEN 1 ELSE 0)
          BY <3>1, <3>2, <4>3 DEF Moved, Mark
        <4>5. s \in StateIds /\ ReadersOf(s) \in Nat /\ LeasingOf(s) \in Nat
          BY <1>3, SlotCounts
        <4>. QED BY <3>4, <4>1, <4>2, <4>4, <4>5
      <3>6. SlotAccounting'
        BY <3>3, <3>5 DEF SlotAccounting, ReadersOf, LeasingOf
      <3>7. hstate[c].state # "InUse"
        BY <2>2 DEF Writing
      <3>8. WritersAreKnown'
        BY <1>1, <1>2, <1>3, <3>1, <3>3, <3>4, <3>7 DEF StateInv, WritersAreKnown
      <3>. QED BY <3>6, <3>8 DEF StateInv
    <2>. QED BY <2>1, <2>2
  <1>5. ASSUME LeaseRead(t) PROVE StateInv'
    <2>. DEFINE h == call[t].handle
    <2>1. /\ call[t].pc = "lease" /\ h \in ReadHandles /\ rh[h] = NoRead
          /\ UNCHANGED <<buffer, hstate, wh>>
      BY <1>5 DEF LeaseRead, ShapeInv, CallFits
    <2>2. /\ call' = [call EXCEPT ![t] = NoCall]
          /\ \E b : rh' = [rh EXCEPT ![h] = [block |-> b, state |-> c, promoted |-> FALSE]]
      BY <1>5 DEF LeaseRead, Return
    <2>3. \A u \in Threads : call'[u] = IF u = t THEN NoCall ELSE call[u]
      BY <1>0, <2>2
    <2>4. /\ \A k \in ReadHandles \ {h} : rh'[k] = rh[k]
          /\ rh'[h].state = c /\ rh[h].state = NoState
      BY <1>0, <2>1, <2>2 DEF NoRead
    <2>. HIDE DEF h
    <2>5. LiveStates' \subseteq LiveStates \cup {NoState}
      BY <2>1, <2>3, <2>4 DEF LiveStates, NoCall
    <2>6. ASSUME NEW s \in LiveStates \ {NoState}
          PROVE  hstate'[s].active_readers = ReadersOf(s)' + LeasingOf(s)'
      <3>1. hstate[s].active_readers = ReadersOf(s) + LeasingOf(s)
        BY SlotIsCounted
      <3>2. Moved(ReadersOf(s), ReadersOf(s)', rh[h].state = s, h # h /\ rh[h].state = s,
                  rh'[h].state = s, h # h /\ rh'[h].state = s)
        BY <2>1, <2>4, ReadersMove
      <3>3. Moved(LeasingOf(s), LeasingOf(s)', call[t].pc = "lease" /\ call[t].state = s, FALSE,
                  call'[t].pc = "lease" /\ call'[t].state = s, FALSE)
        BY <2>3, LeasingMove
      <3>4. ReadersOf(s)' = ReadersOf(s) + (IF s = c THEN 1 ELSE 0)
        BY <2>4, <3>2 DEF Moved, Mark
      <3>5. LeasingOf(s)' + (IF s = c THEN 1 ELSE 0) = LeasingOf(s)
        BY <2>1, <2>3, <3>3 DEF Moved, Mark, NoCall
      <3>6. ReadersOf(s) \in Nat /\ LeasingOf(s) \in Nat /\ LeasingOf(s)' \in Nat
        BY <3>2, <3>3 DEF Moved
      <3>. QED BY <2>1, <3>1, <3>4, <3>5, <3>6
    <2>7. SlotAccounting'
      BY <2>5, <2>6 DEF SlotAccounting, ReadersOf, LeasingOf
    <2>8. WritersAreKnown'
      BY <2>1, <2>5 DEF StateInv, WritersAreKnown
    <2>. QED BY <2>7, <2>8 DEF StateInv
  <1>6. ASSUME LeaseRefused(t) PROVE StateInv'
    <2>1. /\ call[t].pc = "lease" /\ UNCHANGED <<buffer, rh, wh>> /\ LeaveRead(c)
          /\ call' = [call EXCEPT ![t] = NoCall]
      BY <1>6 DEF LeaseRefused, Return
    <2>2. \A u \in Threads : call'[u] = IF u = t THEN NoCall ELSE call[u]
      BY <1>0, <2>1
    <2>3. LiveStates' \subseteq LiveStates \cup {NoState}
      BY <2>1, <2>2 DEF LiveStates, NoCall
    <2>4. \A s \in StateIds : /\ hstate'[s].state = hstate[s].state
                              /\ hstate'[s].active_readers =
                                   IF s = c /\ hstate[s].active_readers > 0
                                   THEN hstate[s].active_readers - 1 ELSE hstate[s].active_readers
      BY <1>0, <2>1 DEF LeaveRead, StateRecord
    <2>5. ASSUME NEW s \in LiveStates \ {NoState}
          PROVE  hstate'[s].active_readers = ReadersOf(s)' + LeasingOf(s)'
      <3>1. /\ hstate[s].active_readers = ReadersOf(s) + LeasingOf(s)
            /\ s = c => LeasingOf(s) > 0
        BY <2>1, SlotIsCounted
      <3>2. ReadersOf(s)' = ReadersOf(s)
        BY <2>1 DEF ReadersOf
      <3>3. Moved(LeasingOf(s), LeasingOf(s)', call[t].pc = "lease" /\ call[t].state = s, FALSE,
                  call'[t].pc = "lease" /\ call'[t].state = s, FALSE)
        BY <2>2, LeasingMove
      <3>4. LeasingOf(s)' + (IF s = c THEN 1 ELSE 0) = LeasingOf(s)
        BY <2>1, <2>2, <3>3 DEF Moved, Mark, NoCall
      <3>5. s \in StateIds /\ ReadersOf(s) \in Nat /\ LeasingOf(s) \in Nat /\ LeasingOf(s)' \in Nat
        BY <1>3, <3>3, SlotCounts DEF Moved
      <3>. QED BY <2>4, <3>1, <3>2, <3>4, <3>5
    <2>6. SlotAccounting'
      BY <2>3, <2>5 DEF SlotAccounting, ReadersOf, LeasingOf
    <2>7. \A s \in LiveStates \ {NoState} : hstate[s].active_readers \in Nat
      BY <1>0, <1>3 DEF StateRecord
    <2>8. WritersAreKnown'
      BY <1>2, <1>3, <2>1, <2>3, <2>4, <2>7 DEF StateInv, WritersAreKnown
    <2>. QED BY <2>6, <2>8 DEF StateInv
  <1>. QED BY <1>4, <1>5, <1>6

\* Closing or replacing a ReadHandle gives its slot back.
LEMMA LeaveSteps ==
  ASSUME ShapeInv, StateInv, NEW h \in ReadHandles
  PROVE  /\ CloseRead(h) => StateInv'
         /\ \A g \in ReadHandles : MoveRead(h, g) => StateInv'
  <1>0. /\ hstate \in [StateIds -> StateRecord] /\ rh \in [ReadHandles -> ReadRecord]
    BY DEF ShapeInv, Types
  <1>1. \A k \in ReadHandles : rh[k] # NoRead =>
          rh[k].state # NoState /\ rh[k].state \in LiveStates
    BY DEF ShapeInv, ReadFits, LiveStates
  <1>2. \A w \in WriteHandles : wh[w].state # NoState => wh[w].state \in LiveStates \ {NoState}
    BY DEF LiveStates
  <1>3. LiveStates \ {NoState} \subseteq StateIds
    BY LiveAreStates
  <1>4. \A s \in LiveStates \ {NoState} : hstate[s].active_readers \in Nat
    BY <1>0, <1>3 DEF StateRecord
  <1>5. ASSUME CloseRead(h) PROVE StateInv'
    <2>. DEFINE c == rh[h].state
    <2>1. /\ rh[h] # NoRead /\ LeaveRead(c) /\ UNCHANGED <<buffer, wh, call>>
          /\ rh' = [rh EXCEPT ![h] = NoRead]
      BY <1>5 DEF CloseRead, ReleaseRead
    <2>2. \A s \in StateIds : /\ hstate'[s].state = hstate[s].state
                              /\ hstate'[s].active_readers =
                                   IF s = c /\ hstate[s].active_readers > 0
                                   THEN hstate[s].active_readers - 1 ELSE hstate[s].active_readers
      BY <1>0, <2>1 DEF LeaveRead, StateRecord
    <2>3. /\ \A k \in ReadHandles \ {h} : rh'[k] = rh[k]
          /\ rh'[h].state = NoState
      BY <1>0, <2>1 DEF NoRead
    <2>4. LiveStates' \subseteq LiveStates \cup {NoState}
      <3>1. UNCHANGED <<buffer, wh, call>>
        BY <2>1
      <3>. QED BY <2>3, <3>1 DEF LiveStates
    <2>5. ASSUME NEW s \in LiveStates \ {NoState}
          PROVE  hstate'[s].active_readers = ReadersOf(s)' + LeasingOf(s)'
      <3>1. /\ hstate[s].active_readers = ReadersOf(s) + LeasingOf(s)
            /\ s = c => ReadersOf(s) > 0
        BY SlotIsCounted
      <3>2. LeasingOf(s)' = LeasingOf(s)
        BY <2>1 DEF LeasingOf
      <3>3. Moved(ReadersOf(s), ReadersOf(s)', rh[h].state = s, h # h /\ rh[h].state = s,
                  rh'[h].state = s, h # h /\ rh'[h].state = s)
        BY <2>3, ReadersMove
      <3>4. ReadersOf(s)' + (IF s = c THEN 1 ELSE 0) = ReadersOf(s)
        BY <2>3, <3>3 DEF Moved, Mark
      <3>5. s \in StateIds /\ LeasingOf(s) \in Nat /\ ReadersOf(s) \in Nat /\ ReadersOf(s)' \in Nat
        BY <1>3, <3>3, SlotCounts DEF Moved
      <3>. HIDE DEF c
      <3>. QED BY <2>2, <3>1, <3>2, <3>4, <3>5
    <2>6. SlotAccounting'
      BY <2>4, <2>5 DEF SlotAccounting, ReadersOf, LeasingOf
    <2>7. UNCHANGED wh
      BY <2>1
    <2>8. WritersAreKnown'
      BY <1>2, <1>3, <1>4, <2>2, <2>4, <2>7 DEF StateInv, WritersAreKnown
    <2>. QED BY <2>6, <2>8 DEF StateInv
  <1>6. ASSUME NEW g \in ReadHandles, MoveRead(h, g) PROVE StateInv'
    <2>. DEFINE c == rh[g].state
    <2>1. /\ h # g /\ rh[g] # NoRead /\ LeaveRead(c) /\ UNCHANGED <<buffer, wh, call>>
          /\ rh' = [rh EXCEPT ![g] = rh[h], ![h] = NoRead]
      BY <1>6 DEF MoveRead, ReleaseRead
    <2>2. \A s \in StateIds : /\ hstate'[s].state = hstate[s].state
                              /\ hstate'[s].active_readers =
                                   IF s = c /\ hstate[s].active_readers > 0
                                   THEN hstate[s].active_readers - 1 ELSE hstate[s].active_readers
      BY <1>0, <2>1 DEF LeaveRead, StateRecord
    <2>3. /\ h # g /\ \A k \in ReadHandles \ {g, h} : rh'[k] = rh[k]
          /\ rh'[g].state = rh[h].state /\ rh'[h].state = NoState
      BY <1>0, <2>1 DEF NoRead
    <2>4. LiveStates' \subseteq LiveStates \cup {NoState}
      <3>1. UNCHANGED <<buffer, wh, call>>
        BY <2>1
      <3>. QED BY <2>3, <3>1 DEF LiveStates
    <2>5. ASSUME NEW s \in LiveStates \ {NoState}
          PROVE  hstate'[s].active_readers = ReadersOf(s)' + LeasingOf(s)'
      <3>1. /\ hstate[s].active_readers = ReadersOf(s) + LeasingOf(s)
            /\ s = c => ReadersOf(s) > 0
        BY SlotIsCounted
      <3>2. LeasingOf(s)' = LeasingOf(s)
        BY <2>1 DEF LeasingOf
      <3>3. Moved(ReadersOf(s), ReadersOf(s)', rh[g].state = s, h # g /\ rh[h].state = s,
                  rh'[g].state = s, h # g /\ rh'[h].state = s)
        BY <2>3, ReadersMove
      <3>4. ReadersOf(s)' + (IF s = c THEN 1 ELSE 0) = ReadersOf(s)
        BY <2>3, <3>3 DEF Moved, Mark
      <3>5. s \in StateIds /\ LeasingOf(s) \in Nat /\ ReadersOf(s) \in Nat /\ ReadersOf(s)' \in Nat
        BY <1>3, <3>3, SlotCounts DEF Moved
      <3>. HIDE DEF c
      <3>. QED BY <2>2, <3>1, <3>2, <3>4, <3>5
    <2>6. SlotAccounting'
      BY <2>4, <2>5 DEF SlotAccounting, ReadersOf, LeasingOf
    <2>7. UNCHANGED wh
      BY <2>1
    <2>8. WritersAreKnown'
      BY <1>2, <1>3, <1>4, <2>2, <2>4, <2>7 DEF StateInv, WritersAreKnown
    <2>. QED BY <2>6, <2>8 DEF StateInv
  <1>. QED BY <1>5, <1>6

\* A step that creates HandleStates without slots and without a writer.
LEMMA FreshFrame ==
  ASSUME ShapeInv, StateInv, UNCHANGED <<rh, wh>>, LeasesStay,
         NEW F \in SUBSET FreeStates, LiveStates' \subseteq LiveStates \cup F \cup {NoState},
         \A s \in StateIds \ F : hstate'[s] = hstate[s],
         \A s \in F : hstate'[s].active_readers = 0
  PROVE  StateInv'
  <1>1. LiveStates \ {NoState} \subseteq StateIds \ F
    BY LiveAreStates DEF FreeStates
  <1>2. \A s : ReadersOf(s)' = ReadersOf(s) /\ LeasingOf(s)' = LeasingOf(s)
    BY LeasingFrame DEF ReadersOf
  <1>3. ASSUME NEW s \in LiveStates' \ {NoState}
        PROVE  hstate'[s].active_readers = ReadersOf(s)' + LeasingOf(s)'
    <2>1. CASE s \in F
      BY <1>2, <2>1, FreeHasNoSlots
    <2>2. CASE s \in LiveStates \ {NoState}
      BY <1>1, <1>2, <2>2, SlotIsCounted
    <2>. QED BY <2>1, <2>2
  <1>4. SlotAccounting'
    BY <1>3 DEF SlotAccounting, ReadersOf, LeasingOf
  <1>5. \A w \in WriteHandles : wh[w].state # NoState => wh[w].state \in LiveStates
    BY DEF LiveStates
  <1>6. \A w \in WriteHandles : wh'[w].state # NoState => hstate'[wh'[w].state].state # "Unset"
    BY <1>1, <1>5 DEF StateInv, WritersAreKnown
  <1>7. \A s \in LiveStates' \ {NoState} :
          hstate'[s].state = "InUse" => hstate'[s].active_readers = 0
    BY <1>1 DEF StateInv, WritersAreKnown
  <1>8. WritersAreKnown'
    BY <1>6, <1>7 DEF StateInv, WritersAreKnown
  <1>. QED BY <1>4, <1>8 DEF StateInv

\* The steps that create a HandleState.
LEMMA CreateSteps ==
  ASSUME ShapeInv, StateInv
  PROVE  /\ \A t \in Threads : CreateState(t) => StateInv'
         /\ \A x \in Buffers : Resize(x) => StateInv'
         /\ \A x, y \in Buffers : Clone(x, y) => StateInv'
  <1>0. /\ buffer \in [Buffers -> BufferRecord] /\ call \in [Threads -> CallRecord]
        /\ hstate \in [StateIds -> StateRecord]
    BY DEF ShapeInv, Types
  <1>1. FreeStates # {} => FreshState \in FreeStates /\ FreshState \in StateIds
    BY DEF FreshState, FreeStates
  <1>2. ASSUME NEW t \in Threads, CreateState(t) PROVE StateInv'
    <2>. DEFINE y == call[t].buf
    <2>1. /\ FreeStates # {} /\ call[t].pc = "create" /\ UNCHANGED <<rh, wh>>
          /\ buffer' = [buffer EXCEPT ![y].state = FreshState]
          /\ hstate' = [hstate EXCEPT ![FreshState] = NewState]
          /\ call' = [call EXCEPT ![t].pc = "capture"]
      BY <1>2 DEF CreateState, Proceed
    <2>2. /\ \A u \in Threads \ {t} : call'[u] = call[u]
          /\ call'[t].pc = "capture" /\ call'[t].state = call[t].state
      BY <1>0, <2>1 DEF CallRecord
    <2>3. LeasesStay
      BY <2>1, <2>2 DEF LeasesStay
    <2>4. \A z \in Buffers : buffer'[z].state \in {buffer[z].state, FreshState}
      BY <1>0, <2>1 DEF BufferRecord
    <2>. DEFINE F == {FreshState}
    <2>5. LiveStates' \subseteq LiveStates \cup F \cup {NoState}
      <3>1. UNCHANGED <<rh, wh>> /\ \A u \in Threads : call'[u].state = call[u].state
        BY <2>1, <2>2
      <3>. QED BY <2>4, <3>1 DEF LiveStates
    <2>6. /\ \A s \in StateIds \ F : hstate'[s] = hstate[s]
          /\ \A s \in F : hstate'[s].active_readers = 0
      BY <1>0, <1>1, <2>1 DEF NewState
    <2>7. F \subseteq FreeStates
      BY <1>1, <2>1
    <2>8. UNCHANGED <<rh, wh>>
      BY <2>1
    <2>. HIDE DEF F, y
    <2>. QED BY <2>3, <2>5, <2>6, <2>7, <2>8, FreshFrame
  <1>3. ASSUME NEW x \in Buffers, Resize(x) PROVE StateInv'
    <2>1. /\ FreeStates # {} /\ UNCHANGED <<rh, wh, call>>
          /\ \E c : buffer' = [buffer EXCEPT ![x] = WrittenBuffer(c, FreshState)]
          /\ hstate' = [hstate EXCEPT ![FreshState] = FinalizedState]
      BY <1>3 DEF Resize
    <2>2. LeasesStay
      BY <2>1 DEF LeasesStay
    <2>3. \A z \in Buffers : buffer'[z].state \in {buffer[z].state, FreshState}
      BY <1>0, <2>1 DEF WrittenBuffer, Empty
    <2>. DEFINE F == {FreshState}
    <2>4. LiveStates' \subseteq LiveStates \cup F \cup {NoState}
      <3>1. UNCHANGED <<rh, wh, call>>
        BY <2>1
      <3>. QED BY <2>3, <3>1 DEF LiveStates
    <2>5. /\ \A s \in StateIds \ F : hstate'[s] = hstate[s]
          /\ \A s \in F : hstate'[s].active_readers = 0
      BY <1>0, <1>1, <2>1 DEF FinalizedState, NewState
    <2>6. F \subseteq FreeStates
      BY <1>1, <2>1
    <2>7. UNCHANGED <<rh, wh>>
      BY <2>1
    <2>. HIDE DEF F
    <2>. QED BY <2>2, <2>4, <2>5, <2>6, <2>7, FreshFrame
  <1>4. ASSUME NEW x \in Buffers, NEW y \in Buffers, Clone(x, y) PROVE StateInv'
    <2>. DEFINE isNew == buffer[x].state = NoState
    <2>1. PICK c \in Available,
               s \in (IF isNew THEN FreeStates \ {FreshState} ELSE {buffer[x].state}) :
            /\ buffer' = [buffer EXCEPT ![x].state = s, ![y] = WrittenBuffer(c, FreshState)]
            /\ hstate' = [hstate EXCEPT ![s] = IF isNew THEN NewState ELSE @,
                                        ![FreshState] = FinalizedState]
      BY <1>4 DEF Clone
    <2>2. FreeStates # {} /\ UNCHANGED <<rh, wh, call>> /\ x # y
      BY <1>4 DEF Clone, Empty
    <2>. DEFINE F == IF isNew THEN {s, FreshState} ELSE {FreshState}
    <2>3. F \subseteq FreeStates
      BY <1>1, <2>1, <2>2
    <2>4. LeasesStay
      BY <2>2 DEF LeasesStay
    <2>5. \A z \in Buffers : buffer'[z].state \in {buffer[z].state} \cup F
      BY <1>0, <2>1, <2>2 DEF WrittenBuffer, Empty, BufferRecord
    <2>6. LiveStates' \subseteq LiveStates \cup F \cup {NoState}
      <3>. HIDE DEF F
      <3>. QED BY <2>2, <2>5 DEF LiveStates
    <2>7. s \in StateIds
      BY <1>0, <2>1 DEF BufferRecord, StateRefs, FreeStates
    <2>8. \A k \in StateIds :
            hstate'[k] = IF k = FreshState THEN FinalizedState
                         ELSE IF k = s /\ isNew THEN NewState ELSE hstate[k]
      BY <1>0, <1>1, <2>1, <2>2, <2>7
    <2>9. /\ \A k \in StateIds \ F : hstate'[k] = hstate[k]
          /\ \A k \in F : hstate'[k].active_readers = 0
      BY <1>1, <2>2, <2>7, <2>8 DEF FinalizedState, NewState
    <2>. HIDE DEF F
    <2>. QED BY <2>2, <2>3, <2>4, <2>6, <2>9, FreshFrame
  <1>. QED BY <1>2, <1>3, <1>4

\* A writer is granted a HandleState that no writer had and no reader has.
LEMMA GrantStep ==
  ASSUME ShapeInv, StateInv, NEW x \in Buffers, NEW w \in WriteHandles, GetWriteHandle(x, w)
  PROVE  StateInv'
  <1>0. /\ buffer \in [Buffers -> BufferRecord] /\ wh \in [WriteHandles -> WriteRecord]
        /\ hstate \in [StateIds -> StateRecord]
    BY DEF ShapeInv, Types
  <1>1. UNCHANGED <<rh, call>> /\ wh[w] = NoWrite
    BY DEF GetWriteHandle
  <1>2. PICK s \in StateIds :
          /\ \A v \in WriteHandles : wh'[v].state = IF v = w THEN s ELSE wh[v].state
          /\ \A z \in Buffers : buffer'[z].state \in {buffer[z].state, s}
          /\ \A k \in StateIds \ {s} : hstate'[k] = hstate[k]
          /\ hstate'[s].state = "InUse" /\ hstate'[s].active_readers = 0
          /\ \/ s \in FreeStates
             \/ s \in LiveStates /\ hstate[s].state = "Unset" /\ hstate[s].active_readers = 0
    <2>1. CASE buffer[x].state # NoState
      <3>. DEFINE s == buffer[x].state
      <3>1. /\ s \in StateIds /\ s \in LiveStates /\ UNCHANGED buffer
            /\ hstate[s].state = "Unset" /\ hstate[s].active_readers = 0
            /\ hstate' = [hstate EXCEPT ![s].state = "InUse"]
            /\ wh' = [wh EXCEPT ![w] = [block |-> buffer[x].block, state |-> s]]
        BY <1>0, <2>1 DEF GetWriteHandle, Grant, BufferRecord, StateRefs, LiveStates
      <3>. HIDE DEF s
      <3>2. /\ \A v \in WriteHandles : wh'[v].state = IF v = w THEN s ELSE wh[v].state
            /\ \A k \in StateIds \ {s} : hstate'[k] = hstate[k]
            /\ hstate'[s].state = "InUse" /\ hstate'[s].active_readers = 0
        BY <1>0, <3>1 DEF StateRecord
      <3>. QED BY <3>1, <3>2
    <2>2. CASE buffer[x].state = NoState
      <3>1. /\ FreeStates # {} /\ buffer' = [buffer EXCEPT ![x].state = FreshState]
            /\ hstate' = [hstate EXCEPT ![FreshState] = [NewState EXCEPT !.state = "InUse"]]
            /\ wh' = [wh EXCEPT ![w] = [block |-> buffer[x].block, state |-> FreshState]]
        BY <2>2 DEF GetWriteHandle
      <3>2. FreshState \in FreeStates /\ FreshState \in StateIds
        BY <3>1 DEF FreshState, FreeStates
      <3>3. /\ \A v \in WriteHandles : wh'[v].state = IF v = w THEN FreshState ELSE wh[v].state
            /\ \A z \in Buffers : buffer'[z].state \in {buffer[z].state, FreshState}
        BY <1>0, <3>1 DEF BufferRecord
      <3>4. /\ \A k \in StateIds \ {FreshState} : hstate'[k] = hstate[k]
            /\ hstate'[FreshState].state = "InUse" /\ hstate'[FreshState].active_readers = 0
        BY <1>0, <3>1, <3>2 DEF NewState
      <3>. QED BY <3>2, <3>3, <3>4
    <2>. QED BY <2>1, <2>2
  <1>3. LiveStates' \subseteq LiveStates \cup {s} \cup {NoState}
    BY <1>1, <1>2 DEF LiveStates
  <1>4. LiveStates \ {NoState} \subseteq StateIds
    BY LiveAreStates
  <1>5. \A k : ReadersOf(k)' = ReadersOf(k) /\ LeasingOf(k)' = LeasingOf(k)
    BY <1>1 DEF ReadersOf, LeasingOf
  <1>6. \A v \in WriteHandles : wh[v].state # NoState =>
          /\ wh[v].state \in LiveStates \ {NoState}
          /\ hstate[wh[v].state].state # "Unset"
    BY DEF LiveStates, StateInv, WritersAreKnown
  <1>7. s # NoState
    BY DEF StateIds, NoState
  <1>8. \A v \in WriteHandles : wh[v].state # s
    BY <1>2, <1>6, <1>7 DEF FreeStates
  <1>9. ASSUME NEW k \in LiveStates' \ {NoState}
        PROVE  hstate'[k].active_readers = ReadersOf(k)' + LeasingOf(k)'
    <2>1. CASE k \in FreeStates
      <3>1. k = s
        BY <1>3, <2>1 DEF FreeStates
      <3>. QED BY <1>2, <1>5, <2>1, <3>1, FreeHasNoSlots
    <2>2. CASE k \in LiveStates
      <3>1. hstate[k].active_readers = ReadersOf(k) + LeasingOf(k)
        BY <2>2, SlotIsCounted
      <3>2. hstate'[k].active_readers = hstate[k].active_readers
        BY <1>2, <1>4, <2>2 DEF FreeStates
      <3>. QED BY <1>5, <3>1, <3>2
    <2>. QED BY <1>2, <1>3, <2>1, <2>2
  <1>10. SlotAccounting'
    BY <1>9 DEF SlotAccounting, ReadersOf, LeasingOf
  <1>11. \A v \in WriteHandles : wh'[v].state # NoState => hstate'[wh'[v].state].state # "Unset"
    BY <1>2, <1>4, <1>6
  <1>12. \A v, u \in WriteHandles :
           v # u /\ wh'[v].state = wh'[u].state => wh'[v].state = NoState
    BY <1>2, <1>8 DEF StateInv, WritersAreKnown
  <1>13. \A k \in LiveStates' \ {NoState} :
           hstate'[k].state = "InUse" => hstate'[k].active_readers = 0
    BY <1>2, <1>3, <1>4 DEF StateInv, WritersAreKnown
  <1>14. WritersAreKnown'
    BY <1>11, <1>12, <1>13 DEF WritersAreKnown
  <1>. QED BY <1>10, <1>14 DEF StateInv

\* A promoted handle holds the only slot of its new HandleState.
LEMMA PromoteStep ==
  ASSUME ShapeInv, StateInv, NEW h \in ReadHandles, Promote(h)
  PROVE  StateInv'
  <1>0. /\ rh \in [ReadHandles -> ReadRecord] /\ hstate \in [StateIds -> StateRecord]
    BY DEF ShapeInv, Types
  <1>1. /\ UNCHANGED <<buffer, wh, call>> /\ FreeStates # {} /\ rh[h] = NoRead
        /\ \E b : rh' = [rh EXCEPT ![h] = [block |-> b, state |-> FreshState, promoted |-> TRUE]]
        /\ hstate' = [hstate EXCEPT ![FreshState] = [FinalizedState EXCEPT !.active_readers = 1]]
    BY DEF Promote
  <1>2. FreshState \in FreeStates /\ FreshState \in StateIds /\ FreshState # NoState
    BY <1>1, FreshIsFree DEF FreshState, FreeStates
  <1>3. /\ \A k \in ReadHandles \ {h} : rh'[k] = rh[k]
        /\ rh'[h].state = FreshState /\ rh[h].state = NoState
    BY <1>0, <1>1 DEF NoRead
  <1>4. /\ \A s \in StateIds \ {FreshState} : hstate'[s] = hstate[s]
        /\ hstate'[FreshState].active_readers = 1 /\ hstate'[FreshState].state = "Finalized"
    BY <1>0, <1>1, <1>2 DEF FinalizedState, NewState
  <1>5. LiveStates' \subseteq LiveStates \cup {FreshState} \cup {NoState}
    <2>1. UNCHANGED <<buffer, wh, call>>
      BY <1>1
    <2>. QED BY <1>3, <2>1 DEF LiveStates
  <1>6. LiveStates \ {NoState} \subseteq StateIds \ {FreshState}
    BY <1>2, LiveAreStates DEF FreeStates
  <1>7. ASSUME NEW s \in LiveStates' \ {NoState}
        PROVE  hstate'[s].active_readers = ReadersOf(s)' + LeasingOf(s)'
    <2>1. LeasingOf(s)' = LeasingOf(s)
      BY <1>1 DEF LeasingOf
    <2>2. Moved(ReadersOf(s), ReadersOf(s)', rh[h].state = s, h # h /\ rh[h].state = s,
                rh'[h].state = s, h # h /\ rh'[h].state = s)
      BY <1>3, ReadersMove
    <2>3. ReadersOf(s)' = ReadersOf(s) + (IF s = FreshState THEN 1 ELSE 0)
      BY <1>3, <2>2 DEF Moved, Mark
    <2>4. ReadersOf(s) \in Nat /\ LeasingOf(s) \in Nat
      BY SlotCounts
    <2>5. CASE s = FreshState
      BY <1>2, <1>4, <2>1, <2>3, <2>5, FreeHasNoSlots
    <2>6. CASE s # FreshState
      <3>1. s \in LiveStates \ {NoState} /\ s \in StateIds \ {FreshState}
        BY <1>5, <1>6, <2>6
      <3>. QED BY <1>4, <2>1, <2>3, <2>4, <2>6, <3>1, SlotIsCounted
    <2>. QED BY <2>5, <2>6
  <1>8. SlotAccounting'
    BY <1>7 DEF SlotAccounting, ReadersOf, LeasingOf
  <1>9. \A w \in WriteHandles : wh[w].state # NoState => wh[w].state \in StateIds \ {FreshState}
    BY <1>6 DEF LiveStates
  <1>10. UNCHANGED wh
    BY <1>1
  <1>11. \A w \in WriteHandles : wh'[w].state # NoState => hstate'[wh'[w].state].state # "Unset"
    BY <1>4, <1>9, <1>10 DEF StateInv, WritersAreKnown
  <1>12. \A s \in LiveStates' \ {NoState} :
           hstate'[s].state = "InUse" => hstate'[s].active_readers = 0
    BY <1>4, <1>5, <1>6 DEF StateInv, WritersAreKnown
  <1>13. WritersAreKnown'
    BY <1>10, <1>11, <1>12 DEF StateInv, WritersAreKnown
  <1>. QED BY <1>8, <1>13 DEF StateInv

-----------------------------------------------------------------------------
(* The inductive invariant *)

LocalInv ==
  /\ ShapeInv
  /\ LeaseInv
  /\ BlocksOwned
  /\ OwnStates
  /\ StateInv

\* Nothing is used at the start, and nothing is held.
LEMMA InitLocalInv == Init => LocalInv
  <1>. SUFFICES ASSUME Init PROVE LocalInv
    OBVIOUS
  <1>1. Types
    <2>1. \A b \in BlockIds : reader_state[b] = 0 /\ 0 \in Header!ReaderWords
      BY LocalAssumption DEF Init, Header!ReaderWords
    <2>. QED BY <2>1 DEF Init, Types, BufferRecord, StateRecord, ReadRecord, WriteRecord,
                      CallRecord,
                  Empty, NewState, NoRead, NoWrite, NoCall, BlockRefs, StateRefs
  <1>2. ShapeInv
    BY <1>1 DEF Init, ShapeInv, BufferFits, ReadFits, WriteFits, CallFits, OneCallPerHandle,
                Empty, NoRead, NoWrite, NoCall
  <1>3. \A b \in BlockIds : b # NoBlock
    BY LocalAssumption DEF BlockIds, Header!BlockIds, NoBlock
  <1>4. \A b \in BlockIds : HandlesOn(b) = 0 /\ HeldOn(b) = 0 /\ ImportsOn(b) = 0
    BY <1>3, FS_EmptySet DEF Init, HandlesOn, HeldOn, ImportsOn, Imported, NoRead, Empty
  <1>5. LeaseInv
    BY <1>4, LeaseCounts, LocalAssumption DEF Init, LeaseInv, WordsAreCounts
  <1>6. BlocksOwned
    <2>1. \A b \in LocalBlocks : BuffersOn(b) = 0 /\ PromotedOn(b) = 0
      BY <1>3, FS_EmptySet DEF Init, BuffersOn, PromotedOn, LocalBlocks, NoRead, Empty
    <2>. QED BY <2>1 DEF Init, BlocksOwned, Mark
  <1>7. OwnStates
    BY DEF Init, OwnStates, Empty
  <1>8. LiveStates \subseteq {NoState}
    BY DEF Init, LiveStates, Empty, NoRead, NoWrite, NoCall
  <1>9. StateInv
    BY <1>8 DEF Init, StateInv, SlotAccounting, WritersAreKnown, NoWrite
  <1>. QED BY <1>2, <1>5, <1>6, <1>7, <1>9 DEF LocalInv

\* A step that leaves references, blocks and buffers alone keeps who has what.
LEMMA QuietHolders ==
  ASSUME LocalInv, UNCHANGED <<reader_state, used, buffer, rh>>
  PROVE  LeaseInv' /\ BlocksOwned' /\ OwnStates'
  BY DEF LocalInv, LeaseInv, WordsAreCounts, LeaseAccounting, Imported, BlocksOwned, BuffersOn,
         PromotedOn, OwnStates

\* Each operation keeps the invariant.
LEMMA NextLocalInv == LocalInv /\ [Next]_vars => LocalInv'
  <1>. SUFFICES ASSUME LocalInv, [Next]_vars PROVE LocalInv'
    OBVIOUS
  <1>0. ShapeInv /\ LeaseInv /\ BlocksOwned /\ OwnStates /\ StateInv
    BY DEF LocalInv
  <1>1. ASSUME NEW t \in Threads, NEW x \in Buffers, NEW h \in ReadHandles, BeginRead(t, x, h)
        PROVE  LocalInv'
    <2>1. ShapeInv'
      BY <1>0, <1>1, ShapeBeginRead
    <2>2. UNCHANGED <<reader_state, used, buffer, rh>>
      BY <1>1 DEF BeginRead
    <2>3. LeaseInv' /\ BlocksOwned' /\ OwnStates'
      BY <2>2, QuietHolders
    <2>4. StateInv'
      BY <1>0, <1>1, QuietSteps
    <2>. QED BY <2>1, <2>2, <2>3, <2>4 DEF LocalInv
  <1>2. ASSUME NEW t \in Threads, CheckState(t) PROVE LocalInv'
    <2>1. ShapeInv'
      BY <1>0, <1>2, ShapeCheckState
    <2>2. UNCHANGED <<reader_state, used, buffer, rh>>
      BY <1>2 DEF CheckState
    <2>3. LeaseInv' /\ BlocksOwned' /\ OwnStates'
      BY <2>2, QuietHolders
    <2>4. StateInv'
      BY <1>0, <1>2, QuietSteps
    <2>. QED BY <2>1, <2>2, <2>3, <2>4 DEF LocalInv
  <1>3. ASSUME NEW t \in Threads, CreateState(t) PROVE LocalInv'
    <2>1. ShapeInv'
      BY <1>0, <1>3, ShapeCreateState
    <2>0. call[t].buf \in Buffers
      BY <1>0, <1>3 DEF CreateState, ShapeInv, CallFits
    <2>2. LeaseInv'
      BY <2>0, <1>0, <1>3, <2>1, BufferStepLeases
    <2>3. BlocksOwned' /\ OwnStates'
      BY <2>0, <1>0, <1>3, BufferStepOwners, BufferStepStates
    <2>4. StateInv'
      BY <1>0, <1>3, CreateSteps
    <2>. QED BY <2>1, <2>2, <2>3, <2>4 DEF LocalInv
  <1>4. ASSUME NEW t \in Threads, CaptureState(t) PROVE LocalInv'
    <2>1. ShapeInv'
      BY <1>0, <1>4, ShapeCaptureState
    <2>2. UNCHANGED <<reader_state, used, buffer, rh>>
      BY <1>4 DEF CaptureState
    <2>3. LeaseInv' /\ BlocksOwned' /\ OwnStates'
      BY <2>2, QuietHolders
    <2>4. StateInv'
      BY <1>0, <1>4, QuietSteps
    <2>. QED BY <2>1, <2>2, <2>3, <2>4 DEF LocalInv
  <1>5. ASSUME NEW t \in Threads, EnterRead(t) PROVE LocalInv'
    <2>1. ShapeInv'
      BY <1>0, <1>5, ShapeEnterRead
    <2>2. UNCHANGED <<reader_state, used, buffer, rh>>
      BY <1>5 DEF EnterRead
    <2>3. LeaseInv' /\ BlocksOwned' /\ OwnStates'
      BY <2>2, QuietHolders
    <2>4. StateInv'
      BY <1>0, <1>5, SlotSteps
    <2>. QED BY <2>1, <2>2, <2>3, <2>4 DEF LocalInv
  <1>6. ASSUME NEW t \in Threads, LeaseRead(t) PROVE LocalInv'
    <2>1. ShapeInv'
      BY <1>0, <1>6, ShapeLeaseRead
    <2>2. LeaseInv' /\ BlocksOwned'
      BY <1>0, <1>6, <2>1, HandleStepLeases, HandleStepOwners
    <2>3. OwnStates'
      BY <1>0, <1>6 DEF LeaseRead, OwnStates
    <2>4. StateInv'
      BY <1>0, <1>6, SlotSteps
    <2>. QED BY <2>1, <2>2, <2>3, <2>4 DEF LocalInv
  <1>7. ASSUME NEW t \in Threads, LeaseRefused(t) PROVE LocalInv'
    <2>1. ShapeInv'
      BY <1>0, <1>7, ShapeLeaseRefused
    <2>2. UNCHANGED <<reader_state, used, buffer, rh>>
      BY <1>7 DEF LeaseRefused
    <2>3. LeaseInv' /\ BlocksOwned' /\ OwnStates'
      BY <2>2, QuietHolders
    <2>4. StateInv'
      BY <1>0, <1>7, SlotSteps
    <2>. QED BY <2>1, <2>2, <2>3, <2>4 DEF LocalInv
  <1>8. ASSUME NEW x \in Buffers, Allocate(x) PROVE LocalInv'
    <2>1. ShapeInv'
      BY <1>0, <1>8, ShapeAllocate
    <2>2. LeaseInv'
      BY <1>0, <1>8, <2>1, BufferStepLeases
    <2>3. BlocksOwned' /\ OwnStates'
      BY <1>0, <1>8, BufferStepOwners, BufferStepStates
    <2>4. StateInv'
      BY <1>0, <1>8, QuietSteps
    <2>. QED BY <2>1, <2>2, <2>3, <2>4 DEF LocalInv
  <1>9. ASSUME NEW x \in Buffers, Import(x) PROVE LocalInv'
    <2>1. ShapeInv'
      BY <1>0, <1>9, ShapeImport
    <2>2. LeaseInv'
      BY <1>0, <1>9, <2>1, BufferStepLeases
    <2>3. BlocksOwned' /\ OwnStates'
      BY <1>0, <1>9, BufferStepOwners, BufferStepStates
    <2>4. StateInv'
      BY <1>0, <1>9, QuietSteps
    <2>. QED BY <2>1, <2>2, <2>3, <2>4 DEF LocalInv
  <1>10. ASSUME NEW x \in Buffers, Reset(x) PROVE LocalInv'
    <2>1. ShapeInv'
      BY <1>0, <1>10, ShapeReset
    <2>2. LeaseInv'
      BY <1>0, <1>10, <2>1, BufferStepLeases
    <2>3. BlocksOwned' /\ OwnStates'
      BY <1>0, <1>10, BufferStepOwners, BufferStepStates
    <2>4. StateInv'
      BY <1>0, <1>10, QuietSteps
    <2>. QED BY <2>1, <2>2, <2>3, <2>4 DEF LocalInv
  <1>11. ASSUME NEW x \in Buffers, HoldReader(x) PROVE LocalInv'
    <2>1. ShapeInv'
      BY <1>0, <1>11, ShapeHoldReader
    <2>2. LeaseInv'
      BY <1>0, <1>11, <2>1, BufferStepLeases
    <2>3. BlocksOwned' /\ OwnStates'
      BY <1>0, <1>11, BufferStepOwners, BufferStepStates
    <2>4. StateInv'
      BY <1>0, <1>11, QuietSteps
    <2>. QED BY <2>1, <2>2, <2>3, <2>4 DEF LocalInv
  <1>12. ASSUME NEW x \in Buffers, Resize(x) PROVE LocalInv'
    <2>1. ShapeInv'
      BY <1>0, <1>12, ShapeResize
    <2>2. LeaseInv'
      BY <1>0, <1>12, <2>1, BufferStepLeases
    <2>3. BlocksOwned' /\ OwnStates'
      BY <1>0, <1>12, BufferStepOwners, BufferStepStates
    <2>4. StateInv'
      BY <1>0, <1>12, CreateSteps
    <2>. QED BY <2>1, <2>2, <2>3, <2>4 DEF LocalInv
  <1>13. ASSUME NEW x \in Buffers, FinalizeWrite(x) PROVE LocalInv'
    <2>1. ShapeInv'
      BY <1>0, <1>13, ShapeFinalizeWrite
    <2>2. UNCHANGED <<reader_state, used, buffer, rh>>
      BY <1>13 DEF FinalizeWrite
    <2>3. LeaseInv' /\ BlocksOwned' /\ OwnStates'
      BY <2>2, QuietHolders
    <2>4. StateInv'
      BY <1>0, <1>13, QuietSteps
    <2>. QED BY <2>1, <2>2, <2>3, <2>4 DEF LocalInv
  <1>14. ASSUME NEW x \in Buffers, NEW y \in Buffers, MoveBuffer(x, y) PROVE LocalInv'
    <2>1. ShapeInv'
      BY <1>0, <1>14, ShapeMoveBuffer
    <2>2. LeaseInv'
      BY <1>0, <1>14, <2>1, BufferStepLeases
    <2>3. BlocksOwned' /\ OwnStates'
      BY <1>0, <1>14, BufferStepOwners, BufferStepStates
    <2>4. StateInv'
      BY <1>0, <1>14, QuietSteps
    <2>. QED BY <2>1, <2>2, <2>3, <2>4 DEF LocalInv
  <1>15. ASSUME NEW x \in Buffers, NEW y \in Buffers, Clone(x, y) PROVE LocalInv'
    <2>1. ShapeInv'
      BY <1>0, <1>15, ShapeClone
    <2>2. LeaseInv'
      BY <1>0, <1>15, <2>1, BufferStepLeases
    <2>3. BlocksOwned' /\ OwnStates'
      BY <1>0, <1>15, BufferStepOwners, BufferStepStates
    <2>4. StateInv'
      BY <1>0, <1>15, CreateSteps
    <2>. QED BY <2>1, <2>2, <2>3, <2>4 DEF LocalInv
  <1>16. ASSUME NEW x \in Buffers, NEW w \in WriteHandles, GetWriteHandle(x, w) PROVE LocalInv'
    <2>1. ShapeInv'
      BY <1>0, <1>16, ShapeGetWriteHandle
    <2>2. LeaseInv'
      BY <1>0, <1>16, <2>1, BufferStepLeases
    <2>3. BlocksOwned' /\ OwnStates'
      BY <1>0, <1>16, BufferStepOwners, BufferStepStates
    <2>4. StateInv'
      BY <1>0, <1>16, GrantStep
    <2>. QED BY <2>1, <2>2, <2>3, <2>4 DEF LocalInv
  <1>17. ASSUME NEW h \in ReadHandles, Promote(h) PROVE LocalInv'
    <2>1. ShapeInv'
      BY <1>0, <1>17, ShapePromote
    <2>2. LeaseInv' /\ BlocksOwned'
      BY <1>0, <1>17, <2>1, HandleStepLeases, HandleStepOwners
    <2>3. OwnStates'
      BY <1>0, <1>17 DEF Promote, OwnStates
    <2>4. StateInv'
      BY <1>0, <1>17, PromoteStep
    <2>. QED BY <2>1, <2>2, <2>3, <2>4 DEF LocalInv
  <1>18. ASSUME NEW h \in ReadHandles, CloseRead(h) PROVE LocalInv'
    <2>1. ShapeInv'
      BY <1>0, <1>18, ShapeCloseRead
    <2>2. LeaseInv' /\ BlocksOwned'
      BY <1>0, <1>18, <2>1, HandleStepLeases, HandleStepOwners
    <2>3. OwnStates'
      BY <1>0, <1>18 DEF CloseRead, OwnStates
    <2>4. StateInv'
      BY <1>0, <1>18, LeaveSteps
    <2>. QED BY <2>1, <2>2, <2>3, <2>4 DEF LocalInv
  <1>19. ASSUME NEW h \in ReadHandles, NEW g \in ReadHandles, MoveRead(h, g) PROVE LocalInv'
    <2>1. ShapeInv'
      BY <1>0, <1>19, ShapeMoveRead
    <2>2. LeaseInv' /\ BlocksOwned'
      BY <1>0, <1>19, <2>1, HandleStepLeases, HandleStepOwners
    <2>3. OwnStates'
      BY <1>0, <1>19 DEF MoveRead, OwnStates
    <2>4. StateInv'
      BY <1>0, <1>19, LeaveSteps
    <2>. QED BY <2>1, <2>2, <2>3, <2>4 DEF LocalInv
  <1>20. ASSUME NEW w \in WriteHandles, CloseWrite(w) PROVE LocalInv'
    <2>1. ShapeInv'
      BY <1>0, <1>20, ShapeCloseWrite
    <2>2. UNCHANGED <<reader_state, used, buffer, rh>>
      BY <1>20 DEF CloseWrite
    <2>3. LeaseInv' /\ BlocksOwned' /\ OwnStates'
      BY <2>2, QuietHolders
    <2>4. StateInv'
      BY <1>0, <1>20, QuietSteps
    <2>. QED BY <2>1, <2>2, <2>3, <2>4 DEF LocalInv
  <1>21. ASSUME NEW w \in WriteHandles, NEW v \in WriteHandles, MoveWrite(w, v) PROVE LocalInv'
    <2>1. ShapeInv'
      BY <1>0, <1>21, ShapeMoveWrite
    <2>2. UNCHANGED <<reader_state, used, buffer, rh>>
      BY <1>21 DEF MoveWrite
    <2>3. LeaseInv' /\ BlocksOwned' /\ OwnStates'
      BY <2>2, QuietHolders
    <2>4. StateInv'
      BY <1>0, <1>21, QuietSteps
    <2>. QED BY <2>1, <2>2, <2>3, <2>4 DEF LocalInv
  <1>22. CASE UNCHANGED vars
    <2>. USE <1>22 DEF vars
    <2>1. ShapeInv'
      BY <1>0 DEF ShapeInv, Types, BufferFits, ReadFits, WriteFits, CallFits, OneCallPerHandle
    <2>2. LeaseInv' /\ BlocksOwned' /\ OwnStates'
      BY QuietHolders
    <2>3. LiveStates' = LiveStates
      BY DEF LiveStates
    <2>4. StateInv'
      BY <1>0, <2>3 DEF StateInv, SlotAccounting, WritersAreKnown
    <2>. QED BY <2>1, <2>2, <2>4 DEF LocalInv
  <1>23. ASSUME NEW t \in Threads, ReadStep(t) PROVE LocalInv'
    BY <1>23, <1>1, <1>2, <1>3, <1>4, <1>5, <1>6, <1>7 DEF ReadStep
  <1>24. ASSUME NEW x \in Buffers, BufferStep(x) PROVE LocalInv'
    BY <1>24, <1>8, <1>9, <1>10, <1>11, <1>12, <1>13, <1>14, <1>15, <1>16
       DEF BufferStep
  <1>25. CASE HandleStep
    BY <1>25, <1>17, <1>18, <1>19, <1>20, <1>21 DEF HandleStep
  <1>. QED BY <1>22, <1>23, <1>24, <1>25 DEF Next

-----------------------------------------------------------------------------
(* Theorems *)

\* The invariant holds in every state that the operations of shared_buffer.cpp and
\* shared_buffer_impl.hpp reach, for any number of objects and threads.
THEOREM LocalInvariant == Spec => []LocalInv
  BY InitLocalInv, NextLocalInv, PTL DEF Spec

\* Buffers, HandleStates, handles and calls keep the types of their fields: no
\* operation of SharedBuffer leaves a reader word or a slot count out of range.
THEOREM LocalTypes == Spec => []TypeOK
  <1>1. LocalInv => TypeOK
    BY TypesMatch DEF LocalInv, ShapeInv
  <1>. QED BY <1>1, LocalInvariant, PTL

\* A block in use has one owner, and a HandleState one buffer, through every
\* move, resize, clone and promotion (SharedBuffer, SharedBufferImpl).
THEOREM BlocksHaveOneOwner == Spec => []OneOwner
  <1>1. LocalInv => OneOwner
    BY OwnersMatch DEF LocalInv
  <1>. QED BY <1>1, LocalInvariant, PTL

\* make_lease, the held lease and the deleter of an import: a reader word counts
\* what is held on its block.
THEOREM ReferencesAreCounted == Spec => []LeaseAccounting
  <1>1. LocalInv => LeaseAccounting
    BY DEF LocalInv, LeaseInv
  <1>. QED BY <1>1, LocalInvariant, PTL

\* get_read_handle and ReadHandle::release: a HandleState counts its readers.
THEOREM SlotsAreCounted == Spec => []SlotAccounting
  <1>1. LocalInv => SlotAccounting
    BY DEF LocalInv, StateInv
  <1>. QED BY <1>1, LocalInvariant, PTL

\* The accounting of slots and the one writer of a HandleState exclude the rest.
LEMMA InvariantWriterAlone == LocalInv => WriterAlone
  <1>. SUFFICES ASSUME LocalInv, NEW w \in WriteHandles, WriterActive(w)
                PROVE  /\ \A v \in WriteHandles \ {w} : wh[v].state # wh[w].state
                       /\ \A h \in ReadHandles : rh[h].state # wh[w].state
                       /\ hstate[wh[w].state].active_readers = 0
    BY DEF WriterAlone
  <1>. DEFINE s == wh[w].state
  <1>1. s \in LiveStates \ {NoState} /\ hstate[s].state = "InUse" /\ StateInv
    BY DEF LiveStates, WriterActive, LocalInv
  <1>2. \A v \in WriteHandles \ {w} : wh[v].state # s
    BY <1>1 DEF StateInv, WritersAreKnown
  <1>3. hstate[s].active_readers = 0
    BY <1>1 DEF StateInv, WritersAreKnown
  <1>. HIDE DEF s
  <1>4. \A h \in ReadHandles : rh[h].state # s
    BY <1>1, <1>3, SlotIsCounted, SlotCounts
  <1>. QED BY <1>2, <1>3, <1>4 DEF s

\* get_write_handle: the HandleState of an active writer has no second writer
\* and no reader, however handles are moved and buffers reset.
THEOREM WritersAreAlone == Spec => []WriterAlone
  BY InvariantWriterAlone, LocalInvariant, PTL
=============================================================================
