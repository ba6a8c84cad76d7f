------------------------------- MODULE PyAccess -------------------------------
(***************************************************************************)
(* The Python package: read_buffer, write_buffer and allocate_buffer over  *)
(* the handles of LocalHandles (shared_buffer_py.cpp, __init__.py).        *)
(*                                                                         *)
(* A native access object keeps a C++ handle and a reference to the Python *)
(* Buffer; memoryviews keep the native object.  The methods of WriteAccess *)
(* are Python code and interleave between threads, one step per access to  *)
(* an attribute.  Calls into C++ hold the interpreter lock throughout, and *)
(* so do the destructors that CPython runs when a last reference goes.     *)
(***************************************************************************)
EXTENDS LocalHandles

CONSTANT Views   \* memoryview objects over write accesses

ASSUME ViewsAssumption == IsFiniteSet(Views)

VARIABLES
  referenced,   \* referenced[x]: user code has a reference to the Python Buffer x
  reader,       \* reader[h]: owner_ of the NativeReadAccess around ReadHandle h
  native,       \* native[w]: the NativeWriteAccess around WriteHandle w
  access,       \* access[w]: the WriteAccess that was made for native[w]
  view,         \* view[v]: memoryviews of native accesses
  method        \* method[t]: the WriteAccess method that t is running

pyVars == <<referenced, reader, native, access, view, method>>

Foreign == 0      \* a Buffer of another backend
NoNative == [owner |-> None, exports |-> 0, closed |-> TRUE]
NoAccess == [native |-> FALSE, view |-> None]
NoView == [of |-> None, root |-> None, live |-> FALSE, exported |-> FALSE]
NoMethod == [pc |-> "idle", on |-> None, made |-> None]

PyInit ==
  /\ Init
  /\ referenced = [x \in Buffers |-> FALSE]
  /\ reader = [h \in ReadHandles |-> None]
  /\ native = [w \in WriteHandles |-> NoNative]
  /\ access = [w \in WriteHandles |-> NoAccess]
  /\ view = [v \in Views |-> NoView]
  /\ method = [t \in Threads |-> NoMethod]

LiveViews(w) == {v \in Views : view[v].live /\ view[v].of = w}

\* A managed buffer of CPython lives while one of the views that share it does.
ManagedBuffers(w) == {view[v].root : v \in LiveViews(w)}

\* Objects without references: their destructors run before anything else does.
LooseNatives ==
  {w \in WriteHandles : native[w] # NoNative /\ ~access[w].native /\ LiveViews(w) = {}}
LooseBuffers ==
  {x \in Buffers : /\ buffer[x] # Empty /\ ~referenced[x]
                   /\ \A h \in ReadHandles : reader[h] # x
                   /\ \A w \in WriteHandles : native[w].owner # x}

\* Mutant: calls into C++ release the interpreter lock.
LockFreeInCalls == LooseNatives = {} /\ LooseBuffers = {}

\* No thread is inside C++.
LockFree == LooseNatives = {} /\ LooseBuffers = {} /\ \A t \in Threads : call[t] = NoCall

-----------------------------------------------------------------------------
(* Buffers *)

\* allocate_buffer: the Python Buffer takes the new rosidl::Buffer over.
AllocateBuffer(x) ==
  /\ LockFree
  /\ Allocate(x)
  /\ referenced' = [referenced EXCEPT ![x] = TRUE]
  /\ UNCHANGED <<reader, native, access, view, method>>

\* A subscription delivers a message with an imported buffer.
ReceiveBuffer(x) ==
  /\ LockFree
  /\ Import(x)
  /\ referenced' = [referenced EXCEPT ![x] = TRUE]
  /\ UNCHANGED <<reader, native, access, view, method>>

\* publish() of a message with x: the descriptor finalizes the write.
PublishBuffer(x) ==
  /\ LockFree
  /\ referenced[x]
  /\ FinalizeWrite(x)
  /\ UNCHANGED pyVars

ForgetBuffer(x) ==
  /\ LockFree
  /\ referenced[x]
  /\ referenced' = [referenced EXCEPT ![x] = FALSE]
  /\ UNCHANGED <<vars, reader, native, access, view, method>>

\* The rosidl::Buffer is deleted with the Python Buffer.
DestroyBuffer(x) == x \in LooseBuffers /\ Reset(x) /\ UNCHANGED pyVars

-----------------------------------------------------------------------------
(* read_buffer *)

\* The constructor of NativeReadAccess keeps the owner before it asks for a handle.
BeginReadBuffer(t, x, h) ==
  /\ LockFree
  /\ method[t] = NoMethod
  /\ referenced[x] /\ buffer[x] # Empty
  /\ BeginRead(t, x, h)
  /\ reader' = [reader EXCEPT ![h] = x]
  /\ UNCHANGED <<referenced, native, access, view, method>>

\* Mutant: a constructor that throws keeps its owner.
OwnerKept(t) == reader[call[t].handle]

\* A constructor that throws drops its owner.
OwnerAfterCall(t) ==
  IF call'[t] = NoCall /\ rh'[call[t].handle] = NoRead THEN None ELSE reader[call[t].handle]

ReadBufferGoesOn(t) ==
  /\ CheckState(t) \/ CreateState(t) \/ CaptureState(t) \/ EnterRead(t) \/ LeaseRead(t)
       \/ LeaseRefused(t)
  /\ reader' = [reader EXCEPT ![call[t].handle] = OwnerAfterCall(t)]
  /\ UNCHANGED <<referenced, native, access, view, method>>

\* A Buffer of another backend is copied into shared memory.
ReadForeign(h) ==
  /\ LockFree
  /\ Promote(h)
  /\ reader' = [reader EXCEPT ![h] = Foreign]
  /\ UNCHANGED <<referenced, native, access, view, method>>

\* The last view of a read access goes, and with it handle_ and owner_.
DropReadViews(h) ==
  /\ LockFree
  /\ CloseRead(h)
  /\ reader' = [reader EXCEPT ![h] = None]
  /\ UNCHANGED <<referenced, native, access, view, method>>

-----------------------------------------------------------------------------
(* write_buffer and NativeWriteAccess *)

WriteBuffer(x, w) ==
  /\ LockFree
  /\ referenced[x]
  /\ native[w] = NoNative
  /\ \A t \in Threads : method[t].on # w
  /\ GetWriteHandle(x, w)
  /\ native' = [native EXCEPT ![w] = [owner |-> x, exports |-> 0, closed |-> FALSE]]
  /\ access' = [access EXCEPT ![w] = [native |-> TRUE, view |-> None]]
  /\ UNCHANGED <<referenced, reader, view, method>>

\* The destructor of a native object that was not closed gives up handle_ ...
DestroyNative(w) ==
  /\ w \in LooseNatives
  /\ ~native[w].closed
  /\ CloseWrite(w)
  /\ native' = [native EXCEPT ![w].closed = TRUE]
  /\ UNCHANGED <<referenced, reader, access, view, method>>

\* ... and then owner_, which may be the last reference to the Buffer.
DropOwner(w) ==
  /\ w \in LooseNatives
  /\ native[w].closed
  /\ native' = [native EXCEPT ![w] = NoNative]
  /\ UNCHANGED <<vars, referenced, reader, access, view, method>>

\* Mutant: close() does not look at the exported views.
CloseAnyway(w) == TRUE

MayClose(w) == native[w].exports = 0

\* Mutant: remove_export is not called.
StillExported(w) == native[w].exports

\* remove_export
Unexported(w) == IF native[w].exports # 0 THEN native[w].exports - 1 ELSE 0

\* The view v is gone; its managed buffer is released with the last view.
Release(v) ==
  LET w == view[v].of IN
  /\ view' = [view EXCEPT ![v].live = FALSE]
  /\ native' = IF \E u \in LiveViews(w) \ {v} : view[u].root = view[v].root
               THEN native ELSE [native EXCEPT ![w].exports = Unexported(w)]

-----------------------------------------------------------------------------
(* memoryview: CPython *)

\* The name of a new view: no view, managed buffer or attribute has it.
Unused(v) ==
  /\ view[v] = NoView /\ \A u \in Views : view[u].root # v
  /\ \A w \in WriteHandles : access[w].view # v

\* A slice or a cast shares the managed buffer of its view.
DeriveView(v, u) ==
  /\ LockFree
  /\ view[v].live /\ Unused(u)
  /\ view' = [view EXCEPT ![u] = [view[v] EXCEPT !.exported = FALSE]]
  /\ UNCHANGED <<vars, referenced, reader, native, access, method>>

\* An array is made over v, or is gone again: v cannot be released meanwhile.
ExportView(v) ==
  /\ LockFree
  /\ view[v].live
  /\ view' = [view EXCEPT ![v].exported = ~@]
  /\ UNCHANGED <<vars, referenced, reader, native, access, method>>

\* v.release(), or the last reference to v goes.
ReleaseView(v) ==
  /\ LockFree
  /\ view[v].live /\ ~view[v].exported
  /\ Release(v)
  /\ UNCHANGED <<vars, referenced, reader, access, method>>

\* A released memoryview that no WriteAccess keeps is forgotten.
ForgetView(v) ==
  /\ view[v] # NoView /\ ~view[v].live
  /\ \A w \in WriteHandles : access[w].view # v
  /\ \A t \in Threads : method[t].made # v
  /\ view' = [view EXCEPT ![v] = NoView]
  /\ UNCHANGED <<vars, referenced, reader, native, access, method>>

-----------------------------------------------------------------------------
(* WriteAccess *)

Begin(t, w, pc) ==
  /\ LockFree
  /\ method[t] = NoMethod /\ access[w] # NoAccess
  /\ method' = [method EXCEPT ![t] = [NoMethod EXCEPT !.pc = pc, !.on = w]]
  /\ UNCHANGED <<vars, referenced, reader, native, access, view>>

Goto(t, pc) == method' = [method EXCEPT ![t].pc = pc]
Raise(t) == method' = [method EXCEPT ![t] = NoMethod]
Ends(t) == Raise(t)

At(t, pc) == LockFree /\ method[t].pc = pc

Usable(w) == access[w].native /\ ~native[w].closed

\* __enter__: the access must be open ...
EnterOpen(t) ==
  /\ At(t, "enter")
  /\ IF Usable(method[t].on) THEN Goto(t, "enter_view") ELSE Raise(t)
  /\ UNCHANGED <<vars, referenced, reader, native, access, view>>

\* ... and not entered.
EnterOnce(t) ==
  /\ At(t, "enter_view")
  /\ IF access[method[t].on].view = None THEN Goto(t, "make_view") ELSE Raise(t)
  /\ UNCHANGED <<vars, referenced, reader, native, access, view>>

\* memoryview(self._native) asks for the buffer, which a closed access refuses.
MakeView(t) ==
  LET w == method[t].on IN
  /\ At(t, "make_view")
  /\ \/ /\ Usable(w)
        /\ \E v \in Views :
             /\ Unused(v)
             /\ view' = [view EXCEPT ![v] = [of |-> w, root |-> v, live |-> TRUE, exported |-> FALSE]]
             /\ method' = [method EXCEPT ![t] = [@ EXCEPT !.pc = "keep_view", !.made = v]]
        /\ native' = [native EXCEPT ![w].exports = @ + 1]
     \/ /\ ~Usable(w)
        /\ Raise(t)
        /\ UNCHANGED <<native, view>>
  /\ UNCHANGED <<vars, referenced, reader, access>>

KeepView(t) ==
  /\ At(t, "keep_view")
  /\ access' = [access EXCEPT ![method[t].on].view = method[t].made]
  /\ Ends(t)
  /\ UNCHANGED <<vars, referenced, reader, native, view>>

\* close() of a closed access returns at once.
CloseOnce(t) ==
  /\ At(t, "close")
  /\ IF access[method[t].on].native THEN Goto(t, "close_view") ELSE Ends(t)
  /\ UNCHANGED <<vars, referenced, reader, native, access, view>>

CloseEntered(t) ==
  /\ At(t, "close_view")
  /\ Goto(t, IF access[method[t].on].view = None THEN "close_native" ELSE "release_view")
  /\ UNCHANGED <<vars, referenced, reader, native, access, view>>

Releasable(v) == v # None /\ ~view[v].exported

\* self._view.release() raises when an array uses the view, or when another
\* thread has set the attribute to None since it was looked at.
CloseReleases(t) ==
  LET v == access[method[t].on].view IN
  /\ At(t, "release_view")
  /\ \/ /\ Releasable(v)
        /\ IF view[v].live THEN Release(v) ELSE UNCHANGED <<view, native>>
        /\ Goto(t, "close_native")
     \/ /\ ~Releasable(v)
        /\ Raise(t)
        /\ UNCHANGED <<view, native>>
  /\ UNCHANGED <<vars, referenced, reader, access>>

\* NativeWriteAccess::close raises while there are exports, and closes once.
CloseNative(t) ==
  LET w == method[t].on IN
  /\ At(t, "close_native")
  /\ \/ /\ access[w].native /\ MayClose(w)
        /\ IF native[w].closed THEN UNCHANGED vars ELSE CloseWrite(w)
        /\ native' = [native EXCEPT ![w] = [@ EXCEPT !.closed = TRUE, !.owner = None]]
        /\ Goto(t, "forget_view")
     \/ /\ ~access[w].native \/ ~MayClose(w)
        /\ Raise(t)
        /\ UNCHANGED <<vars, native>>
  /\ UNCHANGED <<referenced, reader, access, view>>

ForgetClosedView(t) ==
  /\ At(t, "forget_view")
  /\ access' = [access EXCEPT ![method[t].on].view = None]
  /\ Goto(t, "forget_native")
  /\ UNCHANGED <<vars, referenced, reader, native, view>>

ForgetNative(t) ==
  /\ At(t, "forget_native")
  /\ access' = [access EXCEPT ![method[t].on].native = FALSE]
  /\ Ends(t)
  /\ UNCHANGED <<vars, referenced, reader, native, view>>

\* The WriteAccess is dropped, closed or not.
ForgetAccess(w) ==
  /\ LockFree
  /\ access[w] # NoAccess
  /\ \A t \in Threads : method[t].on # w
  /\ access' = [access EXCEPT ![w] = NoAccess]
  /\ UNCHANGED <<vars, referenced, reader, native, view, method>>

-----------------------------------------------------------------------------
MethodGoesOn(t) ==
  \/ EnterOpen(t) \/ EnterOnce(t) \/ MakeView(t) \/ KeepView(t)
  \/ CloseOnce(t) \/ CloseEntered(t) \/ CloseReleases(t) \/ CloseNative(t)
  \/ ForgetClosedView(t) \/ ForgetNative(t)

PyNext ==
  \/ \E x \in Buffers :
       \/ AllocateBuffer(x) \/ ReceiveBuffer(x) \/ PublishBuffer(x) \/ ForgetBuffer(x)
       \/ DestroyBuffer(x)
       \/ \E t \in Threads, h \in ReadHandles : BeginReadBuffer(t, x, h)
       \/ \E w \in WriteHandles : WriteBuffer(x, w)
  \/ \E h \in ReadHandles : ReadForeign(h) \/ DropReadViews(h)
  \/ \E w \in WriteHandles : DestroyNative(w) \/ DropOwner(w) \/ ForgetAccess(w)
  \/ \E v \in Views :
       ExportView(v) \/ ReleaseView(v) \/ ForgetView(v) \/ \E u \in Views : DeriveView(v, u)
  \/ \E t \in Threads :
       \/ ReadBufferGoesOn(t) \/ MethodGoesOn(t)
       \/ \E w \in WriteHandles : Begin(t, w, "enter") \/ Begin(t, w, "close")

PySpec == PyInit /\ [][PyNext]_<<vars, pyVars>>

-----------------------------------------------------------------------------
(* Properties *)

Pcs ==
  {"idle", "enter", "enter_view", "make_view", "keep_view", "close", "close_view",
   "release_view", "close_native", "forget_view", "forget_native"}

\* Every variable has the type of the object that it stands for.
PyTypeOK ==
  /\ TypeOK
  /\ referenced \in [Buffers -> BOOLEAN]
  /\ reader \in [ReadHandles -> Buffers \cup {Foreign, None}]
  /\ native \in [WriteHandles -> [owner : Buffers \cup {None}, exports : 0 .. Cardinality(Views),
                                  closed : BOOLEAN]]
  /\ access \in [WriteHandles -> [native : BOOLEAN, view : Views \cup {None}]]
  /\ view \in [Views -> [of : WriteHandles \cup {None}, root : Views \cup {None},
                         live : BOOLEAN, exported : BOOLEAN]]
  /\ method \in [Threads -> [pc : Pcs, on : WriteHandles \cup {None}, made : Views \cup {None}]]

\* A memoryview never outlives what it shows.  While a writable view lives, its
\* access is open, holds its handle, and keeps the Buffer that owns the block;
\* a read access keeps the Buffer of its block (owner_ of the native objects,
\* the exports that close() rejects).
ViewsAreBacked ==
  /\ \A v \in Views : view[v].live =>
       LET w == view[v].of
           x == native[w].owner IN
       /\ ~native[w].closed /\ wh[w] # NoWrite
       /\ x # None /\ buffer[x].block = wh[w].block /\ Owned(x)
  /\ \A h \in ReadHandles : rh[h] # NoRead /\ ~rh[h].promoted =>
       reader[h] \in Buffers /\ buffer[reader[h]].block = rh[h].block

\* The exports that a native access counts are its managed buffers: views that
\* share one count once, and views of two racing __enter__ calls count twice.
ExportAccounting ==
  \A w \in WriteHandles : native[w].exports = Cardinality(ManagedBuffers(w))

\* When Python code has dropped all its references, every block and every
\* reader reference was given back, also by constructors that threw.
EverythingGivenBack ==
  LockFree /\ (\A x \in Buffers : ~referenced[x]) /\ access = [w \in WriteHandles |-> NoAccess]
    /\ (\A v \in Views : ~view[v].live) /\ rh = [h \in ReadHandles |-> NoRead] =>
      used = {} /\ reader_state = [b \in BlockIds |-> 0] /\ wh = [w \in WriteHandles |-> NoWrite]
=============================================================================
