----------------------------- MODULE PyAccessProofs -----------------------------
(***************************************************************************)
(* The Python access objects for any number of buffers, handles, threads   *)
(* and memoryviews.                                                        *)
(*                                                                         *)
(* The argument: every step is a step of LocalHandles or leaves its        *)
(* variables alone, so that LocalInv holds.  The interpreter lock leaves   *)
(* one call into C++ at a time.  A handle's HandleState is then that of    *)
(* the Buffer which its native object keeps, and a writer's HandleState    *)
(* has no reader.  Views keep their native object open, because exports    *)
(* count the managed buffers of its live views.                            *)
(***************************************************************************)
EXTENDS PyAccess, LocalHandlesProofs

NativeRecord == [owner : Buffers \cup {None}, exports : Nat, closed : BOOLEAN]
AccessRecord == [native : BOOLEAN, view : Views \cup {None}]
ViewRecord ==
  [of : WriteHandles \cup {None}, root : Views \cup {None}, live : BOOLEAN, exported : BOOLEAN]
MethodRecord == [pc : Pcs, on : WriteHandles \cup {None}, made : Views \cup {None}]

PyTypes ==
  /\ referenced \in [Buffers -> BOOLEAN]
  /\ reader \in [ReadHandles -> Buffers \cup {Foreign, None}]
  /\ native \in [WriteHandles -> NativeRecord]
  /\ access \in [WriteHandles -> AccessRecord]
  /\ view \in [Views -> ViewRecord]
  /\ method \in [Threads -> MethodRecord]

\* One thread at a time is inside C++, for a Buffer that the new object keeps;
\* nobody changes the HandleState of that Buffer meanwhile.
CallsFit ==
  /\ \A t, u \in Threads : call[t] # NoCall /\ call[u] # NoCall => t = u
  /\ \A t \in Threads : call[t] # NoCall =>
       /\ reader[call[t].handle] = call[t].buf
       /\ call[t].pc = "create" => buffer[call[t].buf].state = NoState
       /\ call[t].pc \in {"enter", "lease"} => call[t].state = buffer[call[t].buf].state

\* A read access that was not promoted keeps the Buffer whose block and HandleState
\* its handle has; one without a handle keeps nothing once its constructor is over.
ReadersFit ==
  \A h \in ReadHandles :
    /\ rh[h] # NoRead /\ ~rh[h].promoted =>
         /\ reader[h] \in Buffers
         /\ buffer[reader[h]].block = rh[h].block /\ buffer[reader[h]].state = rh[h].state
    /\ reader[h] # None => rh[h] # NoRead \/ \E t \in Threads : call[t].handle = h

\* An open native object has a handle and keeps the Buffer that owns its block.
NativesFit ==
  \A w \in WriteHandles :
    IF native[w].closed
    THEN wh[w] = NoWrite
    ELSE /\ wh[w] # NoWrite
         /\ native[w].owner \in Buffers /\ Owned(native[w].owner)
         /\ buffer[native[w].owner].block = wh[w].block
         /\ buffer[native[w].owner].state = wh[w].state

ViewsFit ==
  \A v \in Views : view[v].live =>
    view[v].of \in WriteHandles /\ view[v].root \in Views /\ ~native[view[v].of].closed

MethodsFit == \A t \in Threads : method[t].pc # "idle" => method[t].on \in WriteHandles

PyInv ==
  /\ LocalInv /\ PyTypes
  /\ CallsFit /\ ReadersFit /\ NativesFit
  /\ ViewsFit /\ MethodsFit /\ ExportAccounting

-----------------------------------------------------------------------------
(* Steps of LocalHandles *)

\* Every step of Python code is a step of LocalHandles, or of none of its objects.
LEMMA PyStepsAreLocal == MethodsFit /\ PyNext => [Next]_vars
  <1>. SUFFICES ASSUME MethodsFit, PyNext PROVE [Next]_vars
    OBVIOUS
  <1>1. ASSUME NEW t \in Threads, ReadStep(t) PROVE Next
    BY <1>1 DEF Next
  <1>2. ASSUME NEW x \in Buffers, BufferStep(x) PROVE Next
    BY <1>2 DEF Next
  <1>3. ASSUME NEW w \in WriteHandles, CloseWrite(w) PROVE Next
    BY <1>3 DEF Next, HandleStep
  <1>4. ASSUME NEW h \in ReadHandles, Promote(h) \/ CloseRead(h) PROVE Next
    BY <1>4 DEF Next, HandleStep
  <1>5. ASSUME NEW x \in Buffers,
               \/ AllocateBuffer(x) \/ ReceiveBuffer(x) \/ PublishBuffer(x)
               \/ ForgetBuffer(x) \/ DestroyBuffer(x)
        PROVE  [Next]_vars
    BY <1>2, <1>5 DEF AllocateBuffer, ReceiveBuffer, PublishBuffer, ForgetBuffer, DestroyBuffer,
                      BufferStep
  <1>6. ASSUME NEW x \in Buffers, NEW t \in Threads, NEW h \in ReadHandles,
               BeginReadBuffer(t, x, h)
        PROVE  [Next]_vars
    BY <1>1, <1>6 DEF BeginReadBuffer, ReadStep
  <1>7. ASSUME NEW x \in Buffers, NEW w \in WriteHandles, WriteBuffer(x, w) PROVE [Next]_vars
    BY <1>2, <1>7 DEF WriteBuffer, BufferStep
  <1>8. ASSUME NEW h \in ReadHandles, ReadForeign(h) \/ DropReadViews(h) PROVE [Next]_vars
    BY <1>4, <1>8 DEF ReadForeign, DropReadViews
  <1>9. ASSUME NEW w \in WriteHandles, DestroyNative(w) \/ DropOwner(w) \/ ForgetAccess(w)
        PROVE  [Next]_vars
    BY <1>3, <1>9 DEF DestroyNative, DropOwner, ForgetAccess
  <1>10. ASSUME NEW v \in Views, NEW u \in Views,
                ExportView(v) \/ ReleaseView(v) \/ ForgetView(v) \/ DeriveView(v, u)
         PROVE  [Next]_vars
    BY <1>10 DEF ExportView, ReleaseView, ForgetView, DeriveView
  <1>11. ASSUME NEW t \in Threads, ReadBufferGoesOn(t) PROVE [Next]_vars
    BY <1>1, <1>11 DEF ReadBufferGoesOn, ReadStep
  <1>12. ASSUME NEW t \in Threads, MethodGoesOn(t) PROVE [Next]_vars
    <2>1. CASE CloseNative(t)
      <3>1. method[t].on \in WriteHandles
        BY <2>1 DEF CloseNative, At, MethodsFit
      <3>. QED BY <1>3, <2>1, <3>1 DEF CloseNative
    <2>. QED BY <1>12, <2>1
             DEF MethodGoesOn, EnterOpen, EnterOnce, MakeView, KeepView, CloseOnce, CloseEntered,
                 CloseReleases, ForgetClosedView, ForgetNative
  <1>13. ASSUME NEW t \in Threads, NEW w \in WriteHandles,
                Begin(t, w, "enter") \/ Begin(t, w, "close")
         PROVE  [Next]_vars
    BY <1>13 DEF Begin
  <1>. QED BY <1>5, <1>6, <1>7, <1>8, <1>9, <1>10, <1>11, <1>12, <1>13 DEF PyNext

-----------------------------------------------------------------------------
(* Types *)

\* The records that the operations write have the types of the variables.
LEMMA PyRecordTypes ==
  /\ NoNative \in NativeRecord /\ NoAccess \in AccessRecord /\ NoView \in ViewRecord
  /\ NoMethod \in MethodRecord
  /\ \A r \in NativeRecord, n \in Nat : [r EXCEPT !.exports = n] \in NativeRecord
  /\ \A r \in NativeRecord : [r EXCEPT !.closed = TRUE, !.owner = None] \in NativeRecord
  /\ \A x \in Buffers : [owner |-> x, exports |-> 0, closed |-> FALSE] \in NativeRecord
  /\ \A r \in AccessRecord, v \in Views \cup {None} : [r EXCEPT !.view = v] \in AccessRecord
  /\ \A r \in AccessRecord : [r EXCEPT !.native = FALSE] \in AccessRecord
  /\ [native |-> TRUE, view |-> None] \in AccessRecord
  /\ \A r \in ViewRecord : [r EXCEPT !.live = FALSE] \in ViewRecord
  /\ \A r \in ViewRecord, e \in BOOLEAN : [r EXCEPT !.exported = e] \in ViewRecord
  /\ \A w \in WriteHandles, v \in Views :
       [of |-> w, root |-> v, live |-> TRUE, exported |-> FALSE] \in ViewRecord
  /\ \A r \in MethodRecord, pc \in Pcs : [r EXCEPT !.pc = pc] \in MethodRecord
  /\ \A r \in MethodRecord, pc \in Pcs, v \in Views :
       [r EXCEPT !.pc = pc, !.made = v] \in MethodRecord
  /\ \A w \in WriteHandles, pc \in Pcs :
       [NoMethod EXCEPT !.pc = pc, !.on = w] \in MethodRecord
  BY DEF NativeRecord, AccessRecord, ViewRecord, MethodRecord, NoNative, NoAccess, NoView,
         NoMethod, Pcs

\* The fields of the records
LEMMA PyFields ==
  ASSUME PyTypes
  PROVE  /\ \A w \in WriteHandles : native[w].exports \in Nat /\ native[w].closed \in BOOLEAN
                                    /\ native[w].owner \in Buffers \cup {None}
         /\ \A w \in WriteHandles : access[w].view \in Views \cup {None}
         /\ \A v \in Views : view[v].live \in BOOLEAN /\ view[v].exported \in BOOLEAN
         /\ \A t \in Threads : method[t].pc \in Pcs /\ method[t].made \in Views \cup {None}
  BY DEF PyTypes, NativeRecord, AccessRecord, ViewRecord, MethodRecord

\* A view goes, and with the last of its buffer an export.
LEMMA ReleaseTypes ==
  ASSUME PyTypes, NEW v \in Views, Release(v)
  PROVE  view' \in [Views -> ViewRecord] /\ native' \in [WriteHandles -> NativeRecord]
  <1>1. view \in [Views -> ViewRecord] /\ native \in [WriteHandles -> NativeRecord]
    BY DEF PyTypes
  <1>2. view' \in [Views -> ViewRecord]
    BY <1>1, PyRecordTypes DEF Release
  <1>3. CASE UNCHANGED native
    BY <1>1, <1>2, <1>3
  <1>4. CASE native' = [native EXCEPT ![view[v].of].exports = Unexported(view[v].of)]
    <2>1. CASE view[v].of \in WriteHandles
      <3>1. Unexported(view[v].of) \in Nat
        BY <2>1, PyFields DEF Unexported
      <3>. QED BY <1>1, <1>2, <1>4, <2>1, <3>1, PyRecordTypes
    <2>2. CASE view[v].of \notin WriteHandles
      <3>1. native' = native
        BY <1>1, <1>4, <2>2
      <3>. QED BY <1>1, <1>2, <3>1
    <2>. QED BY <2>1, <2>2
  <1>. QED BY <1>3, <1>4 DEF Release

\* Buffers and read accesses
LEMMA BufferTypes ==
  ASSUME PyInv, NEW x \in Buffers,
         \/ AllocateBuffer(x) \/ ReceiveBuffer(x) \/ PublishBuffer(x)
         \/ ForgetBuffer(x) \/ DestroyBuffer(x)
         \/ \E t \in Threads, h \in ReadHandles : BeginReadBuffer(t, x, h)
  PROVE  PyTypes'
  <1>1. PyTypes
    BY DEF PyInv
  <1>2. referenced' \in [Buffers -> BOOLEAN]
    BY <1>1 DEF PyTypes, AllocateBuffer, ReceiveBuffer, PublishBuffer, ForgetBuffer,
                DestroyBuffer, BeginReadBuffer, pyVars
  <1>3. reader' \in [ReadHandles -> Buffers \cup {Foreign, None}]
    BY <1>1 DEF PyTypes, AllocateBuffer, ReceiveBuffer, PublishBuffer, ForgetBuffer,
                DestroyBuffer, BeginReadBuffer, pyVars
  <1>4. UNCHANGED <<native, access, view, method>>
    BY DEF AllocateBuffer, ReceiveBuffer, PublishBuffer, ForgetBuffer, DestroyBuffer,
           BeginReadBuffer, pyVars
  <1>. QED BY <1>1, <1>2, <1>3, <1>4 DEF PyTypes

\* Handles and read accesses
LEMMA ReaderTypes ==
  ASSUME PyInv,
         \/ \E h \in ReadHandles : ReadForeign(h) \/ DropReadViews(h)
         \/ \E t \in Threads : ReadBufferGoesOn(t)
  PROVE  PyTypes'
  <1>1. PyTypes
    BY DEF PyInv
  <1>2. UNCHANGED <<referenced, native, access, view, method>>
    BY DEF ReadForeign, DropReadViews, ReadBufferGoesOn
  <1>3. reader' \in [ReadHandles -> Buffers \cup {Foreign, None}]
    <2>1. ASSUME NEW h \in ReadHandles, ReadForeign(h) \/ DropReadViews(h)
          PROVE  reader' \in [ReadHandles -> Buffers \cup {Foreign, None}]
      BY <1>1, <2>1 DEF PyTypes, ReadForeign, DropReadViews
    <2>2. ASSUME NEW t \in Threads, ReadBufferGoesOn(t)
          PROVE  reader' \in [ReadHandles -> Buffers \cup {Foreign, None}]
      <3>1. call[t].handle \in ReadHandles =>
              OwnerAfterCall(t) \in Buffers \cup {Foreign, None}
        BY <1>1 DEF PyTypes, OwnerAfterCall
      <3>2. reader' = [reader EXCEPT ![call[t].handle] = OwnerAfterCall(t)]
        BY <2>2 DEF ReadBufferGoesOn
      <3>. QED BY <1>1, <3>1, <3>2 DEF PyTypes
    <2>. QED BY <2>1, <2>2
  <1>. QED BY <1>1, <1>2, <1>3 DEF PyTypes

\* Write accesses and memoryviews
LEMMA ViewTypes ==
  ASSUME PyInv,
         \/ \E x \in Buffers, w \in WriteHandles : WriteBuffer(x, w)
         \/ \E w \in WriteHandles : DestroyNative(w) \/ DropOwner(w) \/ ForgetAccess(w)
         \/ \E v \in Views : ExportView(v) \/ ReleaseView(v) \/ ForgetView(v)
                             \/ \E u \in Views : DeriveView(v, u)
  PROVE  PyTypes'
  <1>1. PyTypes
    BY DEF PyInv
  <1>2. ASSUME NEW x \in Buffers, NEW w \in WriteHandles, WriteBuffer(x, w) PROVE PyTypes'
    <2>1. native' \in [WriteHandles -> NativeRecord] /\ access' \in [WriteHandles -> AccessRecord]
      BY <1>1, <1>2, PyRecordTypes DEF PyTypes, WriteBuffer
    <2>2. UNCHANGED <<referenced, reader, view, method>>
      BY <1>2 DEF WriteBuffer
    <2>. QED BY <1>1, <2>1, <2>2 DEF PyTypes
  <1>3. ASSUME NEW w \in WriteHandles, DestroyNative(w) \/ DropOwner(w) PROVE PyTypes'
    <2>1. native' \in [WriteHandles -> NativeRecord]
      <3>1. CASE DestroyNative(w)
        BY <1>1, <3>1 DEF PyTypes, DestroyNative, NativeRecord
      <3>2. CASE DropOwner(w)
        BY <1>1, <3>2, PyRecordTypes DEF PyTypes, DropOwner
      <3>. QED BY <1>3, <3>1, <3>2
    <2>2. UNCHANGED <<referenced, reader, access, view, method>>
      BY <1>3 DEF DestroyNative, DropOwner
    <2>. QED BY <1>1, <2>1, <2>2 DEF PyTypes
  <1>4. ASSUME NEW w \in WriteHandles, ForgetAccess(w) PROVE PyTypes'
    <2>1. access' \in [WriteHandles -> AccessRecord]
      BY <1>1, <1>4, PyRecordTypes DEF PyTypes, ForgetAccess
    <2>2. UNCHANGED <<referenced, reader, native, view, method>>
      BY <1>4 DEF ForgetAccess
    <2>. QED BY <1>1, <2>1, <2>2 DEF PyTypes
  <1>5. ASSUME NEW v \in Views, NEW u \in Views,
               ExportView(v) \/ ForgetView(v) \/ DeriveView(v, u)
        PROVE  PyTypes'
    <2>1. view' \in [Views -> ViewRecord]
      <3>1. view \in [Views -> ViewRecord] /\ (~view[v].exported) \in BOOLEAN
        <4>1. view \in [Views -> ViewRecord]
          BY <1>1 DEF PyTypes
        <4>. QED BY <4>1
      <3>2. CASE ExportView(v)
        <4>1. view' = [view EXCEPT ![v] = [view[v] EXCEPT !.exported = ~view[v].exported]]
          BY <3>2 DEF ExportView
        <4>2. [view[v] EXCEPT !.exported = ~view[v].exported] \in ViewRecord
          BY <3>1, PyRecordTypes
        <4>. QED BY <3>1, <4>1, <4>2
      <3>3. CASE ForgetView(v)
        <4>1. view' = [view EXCEPT ![v] = NoView]
          BY <3>3 DEF ForgetView
        <4>. QED BY <3>1, <4>1, PyRecordTypes
      <3>4. CASE DeriveView(v, u)
        <4>1. view' = [view EXCEPT ![u] = [view[v] EXCEPT !.exported = FALSE]]
          BY <3>4 DEF DeriveView
        <4>2. [view[v] EXCEPT !.exported = FALSE] \in ViewRecord
          BY <3>1, PyRecordTypes
        <4>. QED BY <3>1, <4>1, <4>2
      <3>. QED BY <1>5, <3>2, <3>3, <3>4
    <2>2. UNCHANGED <<referenced, reader, native, access, method>>
      BY <1>5 DEF ExportView, ForgetView, DeriveView
    <2>. QED BY <1>1, <2>1, <2>2 DEF PyTypes
  <1>6. ASSUME NEW v \in Views, ReleaseView(v) PROVE PyTypes'
    <2>1. UNCHANGED <<referenced, reader, access, method>>
      BY <1>6 DEF ReleaseView
    <2>. QED BY <1>1, <1>6, <2>1, ReleaseTypes DEF PyTypes, ReleaseView
  <1>. QED BY <1>2, <1>3, <1>4, <1>5, <1>6

\* The methods of WriteAccess
LEMMA MethodTypes ==
  ASSUME PyInv, NEW t \in Threads,
         MethodGoesOn(t) \/ \E w \in WriteHandles : Begin(t, w, "enter") \/ Begin(t, w, "close")
  PROVE  PyTypes' /\ MethodsFit'
  <1>1. PyTypes /\ MethodsFit /\ method \in [Threads -> MethodRecord]
    BY DEF PyInv, PyTypes
  <1>2. ASSUME method[t].pc # "idle" /\ (Raise(t) \/ \E pc \in Pcs : Goto(t, pc))
        PROVE  method' \in [Threads -> MethodRecord] /\ MethodsFit'
    <2>1. method' \in [Threads -> MethodRecord]
      <3>1. CASE Raise(t)
        BY <1>1, <3>1, PyRecordTypes DEF Raise
      <3>2. ASSUME NEW pc \in Pcs, Goto(t, pc) PROVE method' \in [Threads -> MethodRecord]
        <4>1. method' = [method EXCEPT ![t] = [method[t] EXCEPT !.pc = pc]]
          BY <3>2 DEF Goto
        <4>. QED BY <1>1, <4>1, PyRecordTypes
      <3>. QED BY <1>2, <3>1, <3>2
    <2>2. \A u \in Threads : method'[u].pc # "idle" => method'[u].on \in WriteHandles
      BY <1>1, <1>2 DEF Raise, Goto, MethodsFit, MethodRecord, NoMethod
    <2>. QED BY <2>1, <2>2 DEF MethodsFit
  <1>3. UNCHANGED <<referenced, reader>>
    BY DEF MethodGoesOn, EnterOpen, EnterOnce, MakeView, KeepView, CloseOnce, CloseEntered,
           CloseReleases, CloseNative, ForgetClosedView, ForgetNative, Begin
  <1>4. ASSUME NEW w \in WriteHandles, Begin(t, w, "enter") \/ Begin(t, w, "close")
        PROVE  PyTypes' /\ MethodsFit'
    <2>1. PICK m \in MethodRecord : method' = [method EXCEPT ![t] = m] /\ m.on = w
      <3>1. PICK pc \in Pcs : method' = [method EXCEPT ![t] =
                                           [NoMethod EXCEPT !.pc = pc, !.on = w]]
        BY <1>4 DEF Begin, Pcs
      <3>2. [NoMethod EXCEPT !.pc = pc, !.on = w] \in MethodRecord
        BY PyRecordTypes
      <3>3. [NoMethod EXCEPT !.pc = pc, !.on = w].on = w
        BY DEF NoMethod
      <3>. QED BY <3>1, <3>2, <3>3
    <2>2. method' \in [Threads -> MethodRecord]
      BY <1>1, <2>1
    <2>3. MethodsFit'
      BY <1>1, <2>1 DEF MethodsFit
    <2>4. UNCHANGED <<native, access, view>>
      BY <1>4 DEF Begin
    <2>. QED BY <1>1, <1>3, <2>2, <2>3, <2>4 DEF PyTypes
  <1>5. ASSUME EnterOpen(t) \/ EnterOnce(t) \/ CloseOnce(t) \/ CloseEntered(t)
        PROVE  PyTypes' /\ MethodsFit'
    <2>1. method[t].pc # "idle" /\ (Raise(t) \/ \E pc \in Pcs : Goto(t, pc))
      BY <1>5 DEF EnterOpen, EnterOnce, CloseOnce, CloseEntered, At, Ends, Pcs
    <2>2. UNCHANGED <<native, access, view>>
      BY <1>5 DEF EnterOpen, EnterOnce, CloseOnce, CloseEntered
    <2>. QED BY <1>1, <1>2, <1>3, <2>1, <2>2 DEF PyTypes
  <1>6. ASSUME KeepView(t) \/ ForgetClosedView(t) \/ ForgetNative(t)
        PROVE  PyTypes' /\ MethodsFit'
    <2>1. method[t].pc # "idle" /\ (Raise(t) \/ \E pc \in Pcs : Goto(t, pc))
      BY <1>6 DEF KeepView, ForgetClosedView, ForgetNative, At, Ends, Pcs
    <2>2. UNCHANGED <<native, view>>
      BY <1>6 DEF KeepView, ForgetClosedView, ForgetNative
    <2>3. access' \in [WriteHandles -> AccessRecord]
      <3>1. access \in [WriteHandles -> AccessRecord] /\ method[t].made \in Views \cup {None}
        BY <1>1, PyFields DEF PyTypes
      <3>2. PICK w : w = method[t].on
        OBVIOUS
      <3>3. ASSUME NEW v \in Views \cup {None}, access' = [access EXCEPT ![w].view = v]
            PROVE  access' \in [WriteHandles -> AccessRecord]
        <4>1. access' = [access EXCEPT ![w] = [access[w] EXCEPT !.view = v]]
          BY <3>3
        <4>. QED BY <3>1, <4>1, PyRecordTypes
      <3>4. ASSUME access' = [access EXCEPT ![w].native = FALSE]
            PROVE  access' \in [WriteHandles -> AccessRecord]
        <4>1. access' = [access EXCEPT ![w] = [access[w] EXCEPT !.native = FALSE]]
          BY <3>4
        <4>. QED BY <3>1, <4>1, PyRecordTypes
      <3>. QED BY <1>6, <3>1, <3>2, <3>3, <3>4 DEF KeepView, ForgetClosedView, ForgetNative
    <2>. QED BY <1>1, <1>2, <1>3, <2>1, <2>2, <2>3 DEF PyTypes
  <1>7. ASSUME CloseNative(t) PROVE PyTypes' /\ MethodsFit'
    <2>1. method[t].pc # "idle" /\ (Raise(t) \/ \E pc \in Pcs : Goto(t, pc))
      BY <1>7 DEF CloseNative, At, Pcs
    <2>2. UNCHANGED <<access, view>>
      BY <1>7 DEF CloseNative
    <2>3. native' \in [WriteHandles -> NativeRecord]
      <3>1. PICK w : w = method[t].on
        OBVIOUS
      <3>2. \/ native' = [native EXCEPT
                  ![w] = [native[w] EXCEPT !.closed = TRUE, !.owner = None]]
            \/ native' = native
        BY <1>7, <3>1 DEF CloseNative
      <3>3. native \in [WriteHandles -> NativeRecord] /\ w \in WriteHandles
        BY <1>1, <1>7, <3>1 DEF PyTypes, CloseNative, At, MethodsFit
      <3>4. [native[w] EXCEPT !.closed = TRUE, !.owner = None] \in NativeRecord
        BY <3>3, PyRecordTypes
      <3>. QED BY <3>2, <3>3, <3>4
    <2>. QED BY <1>1, <1>2, <1>3, <2>1, <2>2, <2>3 DEF PyTypes
  <1>8. ASSUME CloseReleases(t) PROVE PyTypes' /\ MethodsFit'
    <2>1. method[t].pc # "idle" /\ (Raise(t) \/ \E pc \in Pcs : Goto(t, pc))
      BY <1>8 DEF CloseReleases, At, Pcs
    <2>2. UNCHANGED access
      BY <1>8 DEF CloseReleases
    <2>3. view' \in [Views -> ViewRecord] /\ native' \in [WriteHandles -> NativeRecord]
      <3>1. CASE UNCHANGED <<view, native>>
        BY <1>1, <3>1 DEF PyTypes
      <3>2. CASE ~UNCHANGED <<view, native>>
        <4>1. PICK v : v = access[method[t].on].view
          OBVIOUS
        <4>2. v \in Views /\ Release(v)
          <5>1. method[t].on \in WriteHandles
            BY <1>1, <2>1 DEF MethodsFit
          <5>. QED BY <1>1, <1>8, <3>2, <4>1, <5>1, PyFields DEF CloseReleases, Releasable
        <4>. QED BY <1>1, <4>2, ReleaseTypes
      <3>. QED BY <3>1, <3>2
    <2>. QED BY <1>1, <1>2, <1>3, <2>1, <2>2, <2>3 DEF PyTypes
  <1>9. ASSUME MakeView(t) PROVE PyTypes' /\ MethodsFit'
    <2>1. PICK w : w = method[t].on
      OBVIOUS
    <2>2. w \in WriteHandles /\ method[t].pc = "make_view" /\ UNCHANGED access
      BY <1>1, <1>9, <2>1 DEF MakeView, At, MethodsFit
    <2>3. CASE Usable(w)
      <3>1. PICK v \in Views :
              /\ view' = [view EXCEPT ![v] = [of |-> w, root |-> v, live |-> TRUE,
                                              exported |-> FALSE]]
              /\ method' = [method EXCEPT ![t] = [method[t] EXCEPT !.pc = "keep_view", !.made = v]]
        BY <1>9, <2>1, <2>3 DEF MakeView
      <3>2. native' = [native EXCEPT ![w] = [native[w] EXCEPT !.exports = native[w].exports + 1]]
        BY <1>9, <2>1, <2>3 DEF MakeView
      <3>3. native' \in [WriteHandles -> NativeRecord] /\ view' \in [Views -> ViewRecord]
        <4>1. native[w].exports + 1 \in Nat
          BY <1>1, <2>2, PyFields
        <4>. QED BY <1>1, <2>2, <3>1, <3>2, <4>1, PyRecordTypes DEF PyTypes
      <3>4. method' \in [Threads -> MethodRecord]
        BY <1>1, <3>1, PyRecordTypes DEF Pcs
      <3>5. \A u \in Threads : method'[u].pc # "idle" => method'[u].on \in WriteHandles
        BY <1>1, <2>1, <2>2, <3>1 DEF MethodsFit
      <3>. QED BY <1>1, <1>3, <2>2, <3>3, <3>4, <3>5 DEF PyTypes, MethodsFit
    <2>4. CASE ~Usable(w)
      <3>1. Raise(t) /\ UNCHANGED <<native, view>>
        BY <1>9, <2>1, <2>4 DEF MakeView
      <3>. QED BY <1>1, <1>2, <1>3, <2>2, <3>1 DEF PyTypes
    <2>. QED BY <2>3, <2>4
  <1>. QED BY <1>4, <1>5, <1>6, <1>7, <1>8, <1>9 DEF MethodGoesOn

-----------------------------------------------------------------------------
(* Views and exports *)

\* Managed buffers are named by views, so that there are no more of them.
LEMMA ManagedAreFew ==
  ASSUME ViewsFit, NEW w \in WriteHandles
  PROVE  /\ IsFiniteSet(ManagedBuffers(w))
         /\ Cardinality(ManagedBuffers(w)) \in 0 .. Cardinality(Views)
  <1>1. ManagedBuffers(w) \subseteq Views
    BY DEF ManagedBuffers, LiveViews, ViewsFit
  <1>2. /\ IsFiniteSet(ManagedBuffers(w)) /\ Cardinality(Views) \in Nat
        /\ Cardinality(ManagedBuffers(w)) <= Cardinality(Views)
    BY <1>1, ViewsAssumption, FS_Subset, FS_CardinalityType
  <1>3. Cardinality(ManagedBuffers(w)) \in Nat
    BY <1>2, FS_CardinalityType
  <1>. QED BY <1>2, <1>3

\* A native access without exports has no views, and one without views no exports.
LEMMA ExportsMeanViews ==
  ASSUME ViewsFit, ExportAccounting, NEW w \in WriteHandles
  PROVE  native[w].exports = 0 <=> LiveViews(w) = {}
  <1>1. native[w].exports = Cardinality(ManagedBuffers(w))
    BY DEF ExportAccounting
  <1>2. Cardinality(ManagedBuffers(w)) = 0 <=> ManagedBuffers(w) = {}
    BY ManagedAreFew, FS_EmptySet
  <1>3. ManagedBuffers(w) = {} <=> LiveViews(w) = {}
    BY DEF ManagedBuffers
  <1>. QED BY <1>1, <1>2, <1>3

\* A step that leaves views and exports alone, and closes no access that has views.
LEMMA ViewsFrame ==
  ASSUME ViewsFit, ExportAccounting, UNCHANGED view,
         \A w \in WriteHandles : native'[w].exports = native[w].exports,
         \A w \in WriteHandles : LiveViews(w) # {} => native'[w].closed = native[w].closed
  PROVE  ViewsFit' /\ ExportAccounting'
  <1>1. \A w \in WriteHandles : ManagedBuffers(w)' = ManagedBuffers(w)
    BY DEF ManagedBuffers, LiveViews
  <1>2. ExportAccounting'
    BY <1>1 DEF ExportAccounting
  <1>3. \A v \in Views : view[v].live => LiveViews(view[v].of) # {}
    BY DEF LiveViews
  <1>4. ViewsFit'
    BY <1>3 DEF ViewsFit
  <1>. QED BY <1>2, <1>4

\* A view without a live one behind it may come, change its mark or go, and so may
\* one more view of a managed buffer.
LEMMA ViewComesOrGoes ==
  ASSUME PyTypes, ViewsFit, ExportAccounting, NEW v \in Views, NEW u \in Views,
         ExportView(v) \/ ForgetView(v) \/ DeriveView(v, u)
  PROVE  ViewsFit' /\ ExportAccounting'
  <1>1. view \in [Views -> ViewRecord] /\ UNCHANGED native
    BY DEF PyTypes, ExportView, ForgetView, DeriveView
  <1>2. CASE DeriveView(v, u)
    <2>1. view[v].live /\ ~view[u].live /\ v # u
      BY <1>2 DEF DeriveView, Unused, NoView
    <2>2. /\ \A y \in Views \ {u} : view'[y] = view[y]
          /\ view'[u].of = view[v].of /\ view'[u].root = view[v].root /\ view'[u].live
      BY <1>1, <1>2, <2>1 DEF DeriveView, ViewRecord
    <2>3. ViewsFit'
      BY <1>1, <2>1, <2>2 DEF ViewsFit
    <2>4. \A w \in WriteHandles : ManagedBuffers(w)' = ManagedBuffers(w)
      BY <2>1, <2>2 DEF ManagedBuffers, LiveViews
    <2>. QED BY <1>1, <2>3, <2>4 DEF ExportAccounting
  <1>3. CASE ExportView(v)
    <2>1. \A y \in Views : /\ view'[y].live = view[y].live /\ view'[y].of = view[y].of
                           /\ view'[y].root = view[y].root
      BY <1>1, <1>3 DEF ExportView, ViewRecord
    <2>2. ViewsFit'
      BY <1>1, <2>1 DEF ViewsFit
    <2>3. \A w \in WriteHandles : ManagedBuffers(w)' = ManagedBuffers(w)
      BY <2>1 DEF ManagedBuffers, LiveViews
    <2>. QED BY <1>1, <2>2, <2>3 DEF ExportAccounting
  <1>4. CASE ForgetView(v)
    <2>1. \A y \in Views : IF view[y].live THEN view'[y] = view[y] ELSE ~view'[y].live
      BY <1>1, <1>4 DEF ForgetView, NoView
    <2>2. ViewsFit'
      BY <1>1, <2>1 DEF ViewsFit
    <2>3. \A w \in WriteHandles : ManagedBuffers(w)' = ManagedBuffers(w)
      BY <2>1 DEF ManagedBuffers, LiveViews
    <2>. QED BY <1>1, <2>2, <2>3 DEF ExportAccounting
  <1>. QED BY <1>2, <1>3, <1>4

\* A view of a live access goes, and its managed buffer with the last of them.
LEMMA ReleaseExports ==
  ASSUME PyTypes, ViewsFit, ExportAccounting, NEW v \in Views, view[v].live, Release(v)
  PROVE  /\ ViewsFit' /\ ExportAccounting'
         /\ \A w \in WriteHandles : native'[w].closed = native[w].closed
                                    /\ native'[w].owner = native[w].owner
  <1>1. view \in [Views -> ViewRecord] /\ native \in [WriteHandles -> NativeRecord]
    BY DEF PyTypes
  <1>2. PICK w, r : w = view[v].of /\ r = view[v].root
    OBVIOUS
  <1>3. w \in WriteHandles /\ r \in Views
    BY <1>2 DEF ViewsFit
  <1>4. \A y \in Views : /\ view'[y].of = view[y].of /\ view'[y].root = view[y].root
                         /\ view'[y].live <=> view[y].live /\ y # v
    BY <1>1 DEF Release, ViewRecord
  <1>5. PICK last \in BOOLEAN :
          last <=> ~\E u \in LiveViews(w) \ {v} : view[u].root = r
    OBVIOUS
  <1>6. /\ ~last => native' = native
        /\ last => native' = [native EXCEPT ![w].exports = Unexported(w)]
    BY <1>2, <1>5 DEF Release
  <1>7. \A z \in WriteHandles : native'[z].closed = native[z].closed
                                /\ native'[z].owner = native[z].owner
    BY <1>1, <1>6 DEF NativeRecord
  <1>8. ViewsFit'
    BY <1>4, <1>7 DEF ViewsFit
  <1>9. ASSUME NEW z \in WriteHandles, z # w
        PROVE  ManagedBuffers(z)' = ManagedBuffers(z) /\ native'[z] = native[z]
    <2>1. LiveViews(z)' = LiveViews(z)
      BY <1>2, <1>4, <1>9 DEF LiveViews
    <2>2. ManagedBuffers(z)' = ManagedBuffers(z)
      BY <1>4, <2>1 DEF ManagedBuffers, LiveViews
    <2>. QED BY <1>1, <1>6, <1>9, <2>2
  <1>10. LiveViews(w)' = LiveViews(w) \ {v} /\ v \in LiveViews(w)
    BY <1>2, <1>4 DEF LiveViews
  <1>11. CASE ~last
    <2>1. ManagedBuffers(w)' = ManagedBuffers(w)
      BY <1>2, <1>4, <1>5, <1>10, <1>11 DEF ManagedBuffers, LiveViews
    <2>. QED BY <1>6, <1>7, <1>8, <1>9, <1>11, <2>1 DEF ExportAccounting
  <1>12. CASE last
    <2>1. ManagedBuffers(w)' = ManagedBuffers(w) \ {r} /\ r \in ManagedBuffers(w)
      BY <1>2, <1>4, <1>5, <1>10, <1>12 DEF ManagedBuffers, LiveViews
    <2>2. PICK M : M = ManagedBuffers(w)
      OBVIOUS
    <2>3. IsFiniteSet(M) /\ r \in M
      BY <1>3, <2>1, <2>2, ManagedAreFew
    <2>4. Cardinality(M \ {r}) = Cardinality(M) - 1 /\ Cardinality(M) \in Nat
      BY <2>3, FS_RemoveElement, FS_CardinalityType
    <2>5. Cardinality(M \ {r}) \in Nat
      BY <2>3, FS_RemoveElement, FS_CardinalityType
    <2>6. native[w].exports = Cardinality(M)
      BY <1>3, <2>2 DEF ExportAccounting
    <2>7. native'[w].exports = Cardinality(M) - 1
      BY <1>1, <1>3, <1>6, <1>12, <2>4, <2>5, <2>6 DEF Unexported, NativeRecord
    <2>8. native'[w].exports = Cardinality(ManagedBuffers(w)')
      BY <2>1, <2>2, <2>4, <2>7
    <2>. QED BY <1>7, <1>8, <1>9, <2>8 DEF ExportAccounting
  <1>. QED BY <1>11, <1>12

\* memoryview(self._native): a managed buffer that no view shares yet, and an export.
LEMMA MakeViewExports ==
  ASSUME PyTypes, ViewsFit, ExportAccounting, MethodsFit, NEW t \in Threads, MakeView(t)
  PROVE  /\ ViewsFit' /\ ExportAccounting'
         /\ \A w \in WriteHandles : native'[w].closed = native[w].closed
                                    /\ native'[w].owner = native[w].owner
  <1>1. view \in [Views -> ViewRecord] /\ native \in [WriteHandles -> NativeRecord]
    BY DEF PyTypes
  <1>2. PICK w : w = method[t].on
    OBVIOUS
  <1>3. w \in WriteHandles
    BY <1>2 DEF MakeView, At, MethodsFit
  <1>4. CASE ~Usable(w)
    <2>1. UNCHANGED <<view, native>>
      BY <1>2, <1>4 DEF MakeView
    <2>. QED BY <2>1, ViewsFrame
  <1>5. CASE Usable(w)
    <2>1. PICK v \in Views :
            /\ Unused(v)
            /\ view' = [view EXCEPT ![v] = [of |-> w, root |-> v, live |-> TRUE,
                                            exported |-> FALSE]]
      BY <1>2, <1>5 DEF MakeView
    <2>2. native' = [native EXCEPT ![w] = [native[w] EXCEPT !.exports = native[w].exports + 1]]
      BY <1>2, <1>5 DEF MakeView
    <2>3. /\ \A y \in Views \ {v} : view'[y] = view[y]
          /\ view'[v].of = w /\ view'[v].root = v /\ view'[v].live /\ ~view[v].live
          /\ \A y \in Views : view[y].root # v
      BY <1>1, <2>1 DEF Unused, NoView
    <2>4. /\ \A z \in WriteHandles : native'[z].closed = native[z].closed
                                     /\ native'[z].owner = native[z].owner
          /\ \A z \in WriteHandles \ {w} : native'[z] = native[z]
          /\ native'[w].exports = native[w].exports + 1
      BY <1>1, <1>3, <2>2 DEF NativeRecord
    <2>5. ViewsFit'
      BY <1>3, <1>5, <2>3, <2>4 DEF ViewsFit, Usable
    <2>6. \A z \in WriteHandles \ {w} : ManagedBuffers(z)' = ManagedBuffers(z)
      BY <2>3 DEF ManagedBuffers, LiveViews
    <2>7. ManagedBuffers(w)' = ManagedBuffers(w) \cup {v} /\ v \notin ManagedBuffers(w)
      BY <2>3 DEF ManagedBuffers, LiveViews
    <2>8. PICK M : M = ManagedBuffers(w)
      OBVIOUS
    <2>9. IsFiniteSet(M) /\ v \notin M
      BY <1>3, <2>7, <2>8, ManagedAreFew
    <2>10. Cardinality(M \cup {v}) = Cardinality(M) + 1
      BY <2>9, FS_AddElement
    <2>11. native'[w].exports = Cardinality(ManagedBuffers(w)')
      BY <1>3, <2>4, <2>7, <2>8, <2>10 DEF ExportAccounting
    <2>. QED BY <2>4, <2>5, <2>6, <2>11 DEF ExportAccounting
  <1>. QED BY <1>4, <1>5

-----------------------------------------------------------------------------
(* Handles and the Buffers that their native objects keep *)

\* What LocalInv says of handles and calls.
LEMMA LocalFacts ==
  ASSUME PyInv
  PROVE  /\ buffer \in [Buffers -> BufferRecord] /\ rh \in [ReadHandles -> ReadRecord]
         /\ wh \in [WriteHandles -> WriteRecord] /\ call \in [Threads -> CallRecord]
         /\ \A h \in ReadHandles : rh[h] # NoRead => rh[h].state # NoState
         /\ \A w \in WriteHandles : wh[w] # NoWrite => wh[w].state # NoState
         /\ \A t \in Threads : call[t].pc = "idle" <=> call[t] = NoCall
         /\ \A t \in Threads : call[t] # NoCall =>
              call[t].buf \in Buffers /\ call[t].handle \in ReadHandles
              /\ rh[call[t].handle] = NoRead
         /\ \A t \in Threads : call[t].pc \in {"enter", "lease"} => call[t].state # NoState
  <1>1. Types
    BY DEF PyInv, LocalInv, ShapeInv
  <1>2. /\ \A h \in ReadHandles : ReadFits(rh[h])
        /\ \A w \in WriteHandles : WriteFits(wh[w])
        /\ \A t \in Threads : CallFits(call[t])
    BY DEF PyInv, LocalInv, ShapeInv
  <1>3. \A t \in Threads : call[t].pc = "idle" <=> call[t] = NoCall
    BY <1>2 DEF CallFits, NoCall
  <1>4. \A t \in Threads : call[t] # NoCall =>
          call[t].buf \in Buffers /\ call[t].handle \in ReadHandles /\ rh[call[t].handle] = NoRead
    BY <1>2, <1>3 DEF CallFits
  <1>5. \A t \in Threads : call[t].pc \in {"enter", "lease"} => call[t].state # NoState
    BY <1>2 DEF CallFits
  <1>. QED BY <1>1, <1>2, <1>3, <1>4, <1>5 DEF Types, ReadFits, WriteFits

HandlesFit == CallsFit /\ ReadersFit /\ NativesFit

\* A step that leaves handles, Buffers and owners alone.
LEMMA HandlesFrame ==
  ASSUME PyInv, UNCHANGED <<buffer, rh, wh, call, reader>>,
         \A w \in WriteHandles : native'[w].closed = native[w].closed
                                 /\ native'[w].owner = native[w].owner
  PROVE  HandlesFit'
  <1>1. CallsFit'
    BY DEF PyInv, CallsFit
  <1>2. ReadersFit'
    BY DEF PyInv, ReadersFit
  <1>3. NativesFit'
    BY DEF PyInv, NativesFit, Owned
  <1>. QED BY <1>1, <1>2, <1>3 DEF HandlesFit

\* A Buffer that no handle and no call uses may change.
LEMMA UnusedBuffer ==
  ASSUME PyInv, NEW x \in Buffers, UNCHANGED <<rh, wh, call, reader, native>>,
         \A y \in Buffers \ {x} : buffer'[y] = buffer[y],
         \A t \in Threads : call[t] # NoCall => call[t].buf # x,
         \A h \in ReadHandles : rh[h] # NoRead /\ ~rh[h].promoted => reader[h] # x,
         \A w \in WriteHandles : ~native[w].closed => native[w].owner # x
  PROVE  HandlesFit'
  <1>1. CallsFit'
    <2>1. \A t \in Threads : call[t] # NoCall => buffer'[call[t].buf] = buffer[call[t].buf]
      BY LocalFacts
    <2>. QED BY <2>1 DEF PyInv, CallsFit
  <1>2. ReadersFit'
    BY DEF PyInv, ReadersFit
  <1>3. NativesFit'
    BY DEF PyInv, NativesFit, Owned
  <1>. QED BY <1>1, <1>2, <1>3 DEF HandlesFit

\* allocate_buffer, a delivery, and the deletion of a Buffer
LEMMA BufferHandles ==
  ASSUME PyInv, NEW x \in Buffers, AllocateBuffer(x) \/ ReceiveBuffer(x) \/ DestroyBuffer(x)
  PROVE  HandlesFit'
  <1>1. CASE AllocateBuffer(x) \/ ReceiveBuffer(x)
    <2>1. /\ buffer[x] = Empty /\ \A t \in Threads : call[t] = NoCall
          /\ UNCHANGED <<rh, wh, call, reader, native>>
          /\ \A y \in Buffers \ {x} : buffer'[y] = buffer[y]
      BY <1>1, LocalFacts DEF AllocateBuffer, ReceiveBuffer, Allocate, Import, LockFree
    <2>2. \A h \in ReadHandles : rh[h] # NoRead /\ ~rh[h].promoted => reader[h] # x
      BY <2>1, LocalFacts DEF PyInv, ReadersFit, Empty
    <2>3. \A w \in WriteHandles : ~native[w].closed => native[w].owner # x
      BY <2>1 DEF PyInv, NativesFit, Owned, Empty
    <2>. QED BY <2>1, <2>2, <2>3, UnusedBuffer
  <1>2. CASE DestroyBuffer(x)
    <2>1. /\ \A h \in ReadHandles : reader[h] # x
          /\ \A w \in WriteHandles : native[w].owner # x
          /\ UNCHANGED <<rh, wh, call, reader, native>>
          /\ \A y \in Buffers \ {x} : buffer'[y] = buffer[y]
      BY <1>2, LocalFacts DEF DestroyBuffer, LooseBuffers, Reset, pyVars
    <2>2. \A t \in Threads : call[t] # NoCall => call[t].buf # x
      BY <2>1, LocalFacts DEF PyInv, CallsFit
    <2>. QED BY <2>1, <2>2, UnusedBuffer
  <1>. QED BY <1>1, <1>2

\* The constructor of a read access starts, and is the only call.
LEMMA BeginHandles ==
  ASSUME PyInv, NEW t \in Threads, NEW x \in Buffers, NEW h \in ReadHandles,
         BeginReadBuffer(t, x, h)
  PROVE  HandlesFit'
  <1>1. /\ \A u \in Threads : call[u] = NoCall
        /\ rh[h] = NoRead /\ UNCHANGED <<buffer, rh, wh, native>>
        /\ reader' = [reader EXCEPT ![h] = x]
        /\ call' = [call EXCEPT ![t] = [NoCall EXCEPT !.pc = "check", !.buf = x, !.handle = h]]
    BY DEF BeginReadBuffer, BeginRead, LockFree
  <1>2. reader \in [ReadHandles -> Buffers \cup {Foreign, None}]
    BY DEF PyInv, PyTypes
  <1>3. /\ \A u \in Threads \ {t} : call'[u] = NoCall
        /\ call'[t].pc = "check" /\ call'[t].buf = x /\ call'[t].handle = h
        /\ reader'[h] = x /\ \A g \in ReadHandles \ {h} : reader'[g] = reader[g]
    BY <1>1, <1>2, LocalFacts DEF NoCall
  <1>4. CallsFit'
    BY <1>3 DEF CallsFit
  <1>5. \A u \in Threads : call[u].handle \notin ReadHandles
    BY <1>1, LocalAssumption DEF NoCall
  <1>6. ReadersFit'
    BY <1>1, <1>3, <1>5 DEF PyInv, ReadersFit
  <1>7. NativesFit'
    BY <1>1 DEF PyInv, NativesFit, Owned
  <1>. QED BY <1>4, <1>6, <1>7 DEF HandlesFit

\* The constructor of a read access goes on, step by step, and throws or ends.
LEMMA GoesOnHandles ==
  ASSUME PyInv, NEW t \in Threads, ReadBufferGoesOn(t)
  PROVE  HandlesFit'
  <1>1. PICK h, x : h = call[t].handle /\ x = call[t].buf
    OBVIOUS
  <1>2. /\ call[t] # NoCall /\ \A u \in Threads \ {t} : call[u] = NoCall
        /\ h \in ReadHandles /\ x \in Buffers /\ reader[h] = x /\ rh[h] = NoRead
    <2>1. call[t].pc # "idle"
      BY DEF ReadBufferGoesOn, CheckState, CreateState, CaptureState, EnterRead, LeaseRead,
             LeaseRefused
    <2>. QED BY <1>1, <2>1, LocalFacts DEF PyInv, CallsFit
  <1>3. /\ reader \in [ReadHandles -> Buffers \cup {Foreign, None}]
        /\ reader' = [reader EXCEPT ![h] = OwnerAfterCall(t)] /\ UNCHANGED <<wh, native>>
    BY <1>1 DEF PyInv, PyTypes, ReadBufferGoesOn, CheckState, CreateState, CaptureState,
                EnterRead, LeaseRead, LeaseRefused
  <1>4. \A u \in Threads, g \in ReadHandles : call[u].handle = g => u = t /\ g = h
    BY <1>1, <1>2, LocalAssumption DEF NoCall
  <1>5. ASSUME NEW c, call' = [call EXCEPT ![t] = c], c # NoCall, c.handle = h, c.buf = x,
               c.pc = "create" => buffer[x].state = NoState,
               c.pc \in {"enter", "lease"} => c.state = buffer[x].state,
               UNCHANGED <<buffer, rh>>
        PROVE  HandlesFit'
    <2>1. call'[t] = c /\ \A u \in Threads \ {t} : call'[u] = NoCall
      BY <1>2, <1>5, LocalFacts
    <2>2. UNCHANGED reader
      BY <1>1, <1>2, <1>3, <1>5, <2>1 DEF OwnerAfterCall
    <2>3. CallsFit'
      BY <1>2, <1>5, <2>1, <2>2 DEF CallsFit
    <2>4. ReadersFit'
      BY <1>4, <1>5, <2>1, <2>2 DEF PyInv, ReadersFit
    <2>5. NativesFit'
      BY <1>3, <1>5 DEF PyInv, NativesFit, Owned
    <2>. QED BY <2>3, <2>4, <2>5 DEF HandlesFit
  <1>6. CASE CheckState(t)
    <2>1. PICK c : c = [call[t] EXCEPT !.pc = IF buffer[call[t].buf].state = NoState
                                              THEN "create" ELSE "capture"]
      OBVIOUS
    <2>2. call' = [call EXCEPT ![t] = c] /\ UNCHANGED <<buffer, rh>>
      BY <1>6, <2>1 DEF CheckState, Proceed
    <2>3. /\ c.handle = h /\ c.buf = x /\ c # NoCall
          /\ c.pc \in {"create", "capture"} /\ (c.pc = "create" => buffer[x].state = NoState)
      BY <1>1, <2>1, LocalFacts DEF CallRecord, NoCall
    <2>. QED BY <1>5, <2>2, <2>3
  <1>7. CASE CaptureState(t)
    <2>1. PICK c : c = [call[t] EXCEPT !.pc = "enter", !.state = buffer[call[t].buf].state]
      OBVIOUS
    <2>2. call' = [call EXCEPT ![t] = c] /\ UNCHANGED <<buffer, rh>>
      BY <1>7, <2>1 DEF CaptureState
    <2>3. c.handle = h /\ c.buf = x /\ c # NoCall /\ c.pc = "enter" /\ c.state = buffer[x].state
      BY <1>1, <2>1, LocalFacts DEF CallRecord, NoCall
    <2>. QED BY <1>5, <2>2, <2>3
  <1>8. CASE CreateState(t)
    <2>1. buffer[x].state = NoState
      BY <1>1, <1>2, <1>8 DEF CreateState, PyInv, CallsFit
    <2>2. /\ call' = [call EXCEPT ![t] = [call[t] EXCEPT !.pc = "capture"]] /\ UNCHANGED rh
          /\ buffer' = [buffer EXCEPT ![x].state = FreshState]
      BY <1>1, <1>8 DEF CreateState, Proceed
    <2>3. /\ \A u \in Threads \ {t} : call'[u] = NoCall
          /\ call'[t].pc = "capture" /\ call'[t].buf = x /\ call'[t].handle = h
      BY <1>1, <1>2, <2>2, LocalFacts DEF CallRecord
    <2>4. UNCHANGED reader
      BY <1>1, <1>2, <1>3, <2>3 DEF OwnerAfterCall, NoCall
    <2>5. \A y \in Buffers : /\ y # x => buffer'[y] = buffer[y]
                             /\ buffer'[y].block = buffer[y].block
                             /\ buffer'[y].writable = buffer[y].writable
      BY <2>2, LocalFacts DEF BufferRecord
    <2>6. CallsFit'
      BY <1>2, <2>3, <2>4 DEF CallsFit
    <2>7. \A g \in ReadHandles : rh[g] # NoRead /\ ~rh[g].promoted => reader[g] # x
      BY <2>1, LocalFacts DEF PyInv, ReadersFit
    <2>8. ReadersFit'
      BY <1>4, <2>2, <2>3, <2>4, <2>5, <2>7 DEF PyInv, ReadersFit
    <2>9. \A w \in WriteHandles : ~native[w].closed => native[w].owner # x
      BY <2>1, LocalFacts DEF PyInv, NativesFit
    <2>10. NativesFit'
      BY <1>3, <2>5, <2>9 DEF PyInv, NativesFit, Owned
    <2>. QED BY <2>6, <2>8, <2>10 DEF HandlesFit
  <1>9. CASE EnterRead(t) /\ ~Writing(call[t].state)
    <2>1. PICK c : c = [call[t] EXCEPT !.pc = "lease"]
      OBVIOUS
    <2>2. call' = [call EXCEPT ![t] = c] /\ UNCHANGED <<buffer, rh>>
      BY <1>9, <2>1 DEF EnterRead, Proceed
    <2>3. c.handle = h /\ c.buf = x /\ c # NoCall /\ c.pc = "lease" /\ c.state = buffer[x].state
      BY <1>1, <1>2, <1>9, <2>1, LocalFacts DEF CallRecord, NoCall, EnterRead, PyInv, CallsFit
    <2>. QED BY <1>5, <2>2, <2>3
  <1>10. CASE LeaseRefused(t) \/ (EnterRead(t) /\ Writing(call[t].state))
    <2>1. call' = [call EXCEPT ![t] = NoCall] /\ UNCHANGED <<buffer, rh>>
      BY <1>10 DEF LeaseRefused, EnterRead, Return
    <2>2. \A u \in Threads : call'[u] = NoCall
      BY <1>2, <2>1, LocalFacts
    <2>3. reader'[h] = None /\ \A g \in ReadHandles \ {h} : reader'[g] = reader[g]
      BY <1>1, <1>2, <1>3, <2>1, <2>2 DEF OwnerAfterCall
    <2>4. CallsFit'
      BY <2>2 DEF CallsFit
    <2>5. ReadersFit'
      BY <1>2, <1>4, <2>1, <2>2, <2>3 DEF PyInv, ReadersFit
    <2>6. NativesFit'
      BY <1>3, <2>1 DEF PyInv, NativesFit, Owned
    <2>. QED BY <2>4, <2>5, <2>6 DEF HandlesFit
  <1>11. CASE LeaseRead(t)
    <2>1. PICK r : r = [block |-> buffer[call[t].buf].block, state |-> call[t].state,
                        promoted |-> FALSE]
      OBVIOUS
    <2>2. /\ call' = [call EXCEPT ![t] = NoCall] /\ UNCHANGED buffer
          /\ rh' = [rh EXCEPT ![h] = r]
      BY <1>1, <1>11, <2>1 DEF LeaseRead, Return
    <2>3. /\ r.block = buffer[x].block /\ r.state = buffer[x].state /\ r # NoRead
      BY <1>1, <1>2, <1>11, <2>1, LocalFacts DEF LeaseRead, PyInv, CallsFit, NoRead
    <2>4. /\ \A u \in Threads : call'[u] = NoCall
          /\ rh'[h] = r /\ \A g \in ReadHandles \ {h} : rh'[g] = rh[g]
      BY <1>2, <2>2, LocalFacts
    <2>5. UNCHANGED reader
      BY <1>1, <1>2, <1>3, <2>3, <2>4 DEF OwnerAfterCall
    <2>6. CallsFit'
      BY <2>4 DEF CallsFit
    <2>7. ReadersFit'
      BY <1>2, <1>4, <2>2, <2>3, <2>4, <2>5 DEF PyInv, ReadersFit
    <2>8. NativesFit'
      BY <1>3, <2>2 DEF PyInv, NativesFit, Owned
    <2>. QED BY <2>6, <2>7, <2>8 DEF HandlesFit
  <1>. QED BY <1>6, <1>7, <1>8, <1>9, <1>10, <1>11 DEF ReadBufferGoesOn

\* A copy of a foreign Buffer is read, or a read access goes.
LEMMA ReaderHandles ==
  ASSUME PyInv, NEW h \in ReadHandles, ReadForeign(h) \/ DropReadViews(h)
  PROVE  HandlesFit'
  <1>1. /\ \A t \in Threads : call[t] = NoCall
        /\ UNCHANGED <<buffer, wh, call, native>>
    BY DEF ReadForeign, DropReadViews, Promote, CloseRead, LockFree
  <1>2. reader \in [ReadHandles -> Buffers \cup {Foreign, None}]
    BY DEF PyInv, PyTypes
  <1>3. /\ \A g \in ReadHandles \ {h} : rh'[g] = rh[g] /\ reader'[g] = reader[g]
        /\ IF rh'[h] = NoRead THEN reader'[h] = None ELSE rh'[h].promoted
    <2>1. CASE ReadForeign(h)
      <3>1. PICK r \in [block : BlockIds, state : {FreshState}, promoted : {TRUE}] :
              rh' = [rh EXCEPT ![h] = r]
        BY <2>1 DEF ReadForeign, Promote, Available, LocalBlocks
      <3>2. r.promoted /\ r # NoRead
        <4>1. r.promoted = TRUE
          BY <3>1
        <4>2. NoRead.promoted = FALSE
          BY DEF NoRead
        <4>. QED BY <4>1, <4>2
      <3>3. \A g \in ReadHandles \ {h} : rh'[g] = rh[g] /\ reader'[g] = reader[g]
        BY <1>2, <2>1, <3>1, LocalFacts DEF ReadForeign
      <3>. QED BY <3>1, <3>2, <3>3, LocalFacts
    <2>2. CASE DropReadViews(h)
      BY <1>2, <2>2, LocalFacts DEF DropReadViews, CloseRead
    <2>. QED BY <2>1, <2>2
  <1>4. CallsFit'
    BY <1>1 DEF CallsFit
  <1>5. \A t \in Threads, g \in ReadHandles : call[t].handle # g
    BY <1>1, LocalAssumption DEF NoCall
  <1>6. ReadersFit'
    BY <1>1, <1>3, <1>5 DEF PyInv, ReadersFit
  <1>7. NativesFit'
    BY <1>1 DEF PyInv, NativesFit, Owned
  <1>. QED BY <1>4, <1>6, <1>7 DEF HandlesFit

\* The constructor of a write access: a new HandleState is that of a Buffer that has
\* neither readers nor a writer.
LEMMA WriteHandleKept ==
  ASSUME PyInv, NEW x \in Buffers, NEW w \in WriteHandles, WriteBuffer(x, w)
  PROVE  HandlesFit'
  <1>1. /\ \A t \in Threads : call[t] = NoCall
        /\ UNCHANGED <<rh, call, reader>> /\ Owned(x) /\ native[w] = NoNative
        /\ native' = [native EXCEPT ![w] = [owner |-> x, exports |-> 0, closed |-> FALSE]]
    BY DEF WriteBuffer, GetWriteHandle, LockFree
  <1>2. native \in [WriteHandles -> NativeRecord]
    BY DEF PyInv, PyTypes
  <1>3. /\ native'[w].owner = x /\ ~native'[w].closed
        /\ \A v \in WriteHandles \ {w} : native'[v] = native[v]
    BY <1>1, <1>2
  <1>4. /\ \A y \in Buffers : /\ buffer'[y].block = buffer[y].block
                              /\ buffer'[y].writable = buffer[y].writable
                              /\ buffer[y].state # NoState => buffer'[y].state = buffer[y].state
        /\ wh'[w].block = buffer[x].block /\ wh'[w].state = buffer'[x].state
        /\ wh'[w] # NoWrite /\ \A v \in WriteHandles \ {w} : wh'[v] = wh[v]
    <2>1. PICK s : /\ buffer'[x].state = s
                   /\ wh' = [wh EXCEPT ![w] = [block |-> buffer[x].block, state |-> s]]
                   /\ \/ buffer[x].state # NoState /\ UNCHANGED buffer
                      \/ buffer[x].state = NoState /\ buffer' = [buffer EXCEPT ![x].state = s]
      BY LocalFacts DEF WriteBuffer, GetWriteHandle, Grant, BufferRecord
    <2>2. \A y \in Buffers : /\ buffer'[y].block = buffer[y].block
                             /\ buffer'[y].writable = buffer[y].writable
                             /\ buffer[y].state # NoState => buffer'[y].state = buffer[y].state
      BY <2>1, LocalFacts DEF BufferRecord
    <2>3. wh'[w].block = buffer[x].block /\ buffer[x].block # NoBlock /\ wh'[w].state = s
      BY <1>1, <2>1, LocalFacts DEF Owned
    <2>. QED BY <2>1, <2>2, <2>3, LocalFacts DEF NoWrite
  <1>5. CallsFit'
    BY <1>1 DEF CallsFit
  <1>6. ReadersFit'
    BY <1>1, <1>4, LocalFacts DEF PyInv, ReadersFit
  <1>7. NativesFit'
    <2>1. ASSUME NEW v \in WriteHandles, v # w, native[v].closed
          PROVE  native'[v].closed /\ wh'[v] = NoWrite
      BY <1>3, <1>4, <2>1 DEF PyInv, NativesFit
    <2>2. ASSUME NEW v \in WriteHandles, v # w, ~native[v].closed
          PROVE  /\ ~native'[v].closed /\ wh'[v] # NoWrite
                 /\ native'[v].owner \in Buffers /\ Owned(native[v].owner)'
                 /\ buffer'[native'[v].owner].block = wh'[v].block
                 /\ buffer'[native'[v].owner].state = wh'[v].state
      <3>1. PICK y \in Buffers : y = native[v].owner
        BY <2>2 DEF PyInv, NativesFit
      <3>2. /\ Owned(y) /\ buffer[y].block = wh[v].block /\ buffer[y].state = wh[v].state
            /\ wh[v] # NoWrite /\ wh[v].state # NoState
        BY <2>2, <3>1, LocalFacts DEF PyInv, NativesFit
      <3>3. native'[v] = native[v] /\ wh'[v] = wh[v]
        BY <1>3, <1>4, <2>2
      <3>4. Owned(y)' /\ buffer'[y].block = buffer[y].block /\ buffer'[y].state = buffer[y].state
        BY <1>4, <3>2 DEF Owned
      <3>. QED BY <2>2, <3>1, <3>2, <3>3, <3>4
    <2>3. Owned(x)' /\ buffer'[x].block = wh'[w].block /\ buffer'[x].state = wh'[w].state
      BY <1>1, <1>4 DEF Owned
    <2>4. ASSUME NEW v \in WriteHandles
          PROVE  IF native'[v].closed
                 THEN wh'[v] = NoWrite
                 ELSE /\ wh'[v] # NoWrite
                      /\ native'[v].owner \in Buffers /\ Owned(native[v].owner)'
                      /\ buffer'[native'[v].owner].block = wh'[v].block
                      /\ buffer'[native'[v].owner].state = wh'[v].state
      <3>1. CASE v = w
        BY <1>3, <1>4, <2>3, <3>1
      <3>2. CASE v # w
        BY <1>3, <2>1, <2>2, <3>2
      <3>. QED BY <3>1, <3>2
    <2>. QED BY <2>4 DEF NativesFit
  <1>. QED BY <1>5, <1>6, <1>7 DEF HandlesFit

\* A native object that is closed has given its handle up.
LEMMA NativeCloses ==
  ASSUME PyInv, NEW w \in WriteHandles,
         UNCHANGED <<buffer, rh, call, reader>>,
         wh'[w] = NoWrite, \A v \in WriteHandles \ {w} : wh'[v] = wh[v],
         native'[w].closed,
         \A v \in WriteHandles \ {w} : native'[v] = native[v]
  PROVE  HandlesFit'
  <1>1. CallsFit'
    BY DEF PyInv, CallsFit
  <1>2. ReadersFit'
    BY DEF PyInv, ReadersFit
  <1>3. NativesFit'
    BY DEF PyInv, NativesFit, Owned
  <1>. QED BY <1>1, <1>2, <1>3 DEF HandlesFit

\* NativeWriteAccess::close and the destructor close a handle once, without views.
LEMMA ClosingHandles ==
  ASSUME PyInv, NEW w \in WriteHandles,
         \/ DestroyNative(w) \/ DropOwner(w)
         \/ \E t \in Threads : method[t].on = w /\ CloseNative(t)
  PROVE  HandlesFit' /\ ViewsFit' /\ ExportAccounting'
  <1>1. native \in [WriteHandles -> NativeRecord] /\ ViewsFit /\ ExportAccounting
    BY DEF PyInv, PyTypes
  <1>2. UNCHANGED <<reader, view>>
    BY DEF DestroyNative, DropOwner, CloseNative
  <1>3. CASE UNCHANGED <<vars, native>>
    <2>1. UNCHANGED <<buffer, rh, wh, call, reader, view, native>>
      BY <1>2, <1>3 DEF vars
    <2>. QED BY <1>1, <2>1, HandlesFrame, ViewsFrame
  <1>4. CASE ~UNCHANGED <<vars, native>>
    <2>1. LiveViews(w) = {} /\ native[w].exports = 0
      <3>1. LiveViews(w) = {} \/ native[w].exports = 0
        BY <1>4 DEF DestroyNative, DropOwner, LooseNatives, CloseNative, MayClose
      <3>. QED BY <1>1, <3>1, ExportsMeanViews
    <2>2. IF native[w].closed THEN UNCHANGED vars ELSE CloseWrite(w)
      BY <1>4 DEF DestroyNative, DropOwner, CloseNative
    <2>3. UNCHANGED <<buffer, rh, call>>
      BY <2>2 DEF CloseWrite, vars
    <2>4. wh'[w] = NoWrite /\ \A v \in WriteHandles \ {w} : wh'[v] = wh[v]
      <3>1. CASE native[w].closed
        BY <2>2, <3>1 DEF PyInv, NativesFit, vars
      <3>2. CASE ~native[w].closed
        BY <2>2, <3>2, LocalFacts DEF CloseWrite
      <3>. QED BY <3>1, <3>2
    <2>5. /\ native'[w].closed
          /\ native'[w].exports = native[w].exports
          /\ \A v \in WriteHandles \ {w} : native'[v] = native[v]
      <3>1. CASE DestroyNative(w)
        BY <1>1, <3>1 DEF DestroyNative, NativeRecord
      <3>2. CASE DropOwner(w)
        BY <1>1, <2>1, <3>2 DEF DropOwner, NoNative
      <3>3. CASE ~DestroyNative(w) /\ ~DropOwner(w)
        <4>1. native' = [native EXCEPT ![w] = [native[w] EXCEPT !.closed = TRUE, !.owner = None]]
          BY <1>4, <3>3 DEF CloseNative
        <4>. QED BY <1>1, <4>1 DEF NativeRecord
      <3>. QED BY <3>1, <3>2, <3>3
    <2>6. HandlesFit'
      BY <1>2, <2>3, <2>4, <2>5, NativeCloses
    <2>7. /\ \A v \in WriteHandles : native'[v].exports = native[v].exports
          /\ \A v \in WriteHandles : LiveViews(v) # {} => native'[v].closed = native[v].closed
      BY <2>1, <2>5
    <2>. QED BY <1>1, <1>2, <2>6, <2>7, ViewsFrame
  <1>. QED BY <1>3, <1>4

-----------------------------------------------------------------------------
(* The inductive invariant *)

\* Python code starts without objects.
LEMMA InitPyInv == PyInit => PyInv
  <1>. SUFFICES ASSUME PyInit PROVE PyInv
    OBVIOUS
  <1>1. LocalInv /\ \A t \in Threads : call[t] = NoCall
    BY InitLocalInv DEF PyInit, Init
  <1>2. PyTypes
    BY PyRecordTypes DEF PyInit, PyTypes
  <1>3. CallsFit
    BY <1>1 DEF CallsFit
  <1>4. ReadersFit /\ NativesFit
    BY DEF PyInit, Init, ReadersFit, NativesFit, NoNative
  <1>5. ViewsFit /\ MethodsFit /\ \A w \in WriteHandles : ManagedBuffers(w) = {}
    BY DEF PyInit, ViewsFit, MethodsFit, ManagedBuffers, LiveViews, NoView, NoMethod
  <1>6. ExportAccounting
    BY <1>5, FS_EmptySet DEF PyInit, ExportAccounting, NoNative
  <1>. QED BY <1>1, <1>2, <1>3, <1>4, <1>5, <1>6 DEF PyInv

\* Every step keeps the invariant.
LEMMA NextPyInv == PyInv /\ [PyNext]_<<vars, pyVars>> => PyInv'
  <1>. SUFFICES ASSUME PyInv, [PyNext]_<<vars, pyVars>> PROVE PyInv'
    OBVIOUS
  <1>1. LocalInv /\ PyTypes /\ ViewsFit /\ MethodsFit /\ ExportAccounting
    BY DEF PyInv
  <1>2. LocalInv'
    <2>1. [Next]_vars
      BY <1>1, PyStepsAreLocal
    <2>. QED BY <1>1, <2>1, NextLocalInv
  <1>3. ASSUME PyTypes', HandlesFit', ViewsFit', MethodsFit', ExportAccounting' PROVE PyInv'
    BY <1>2, <1>3 DEF PyInv, HandlesFit
  <1>4. ASSUME UNCHANGED method PROVE MethodsFit'
    BY <1>1, <1>4 DEF MethodsFit
  <1>5. ASSUME UNCHANGED <<view, native>> PROVE ViewsFit' /\ ExportAccounting'
    BY <1>1, <1>5, ViewsFrame
  <1>6. ASSUME UNCHANGED <<vars, reader>>,
               \A w \in WriteHandles : native'[w].closed = native[w].closed
                                       /\ native'[w].owner = native[w].owner
        PROVE  HandlesFit'
    BY <1>6, HandlesFrame DEF vars
  <1>7. CASE UNCHANGED <<vars, pyVars>>
    <2>1. PyTypes'
      BY <1>1, <1>7 DEF PyTypes, pyVars
    <2>. QED BY <1>3, <1>4, <1>5, <1>6, <1>7, <2>1 DEF pyVars
  <1>8. ASSUME NEW x \in Buffers, AllocateBuffer(x) \/ ReceiveBuffer(x) \/ DestroyBuffer(x)
        PROVE  PyInv'
    <2>1. UNCHANGED <<view, native, method>>
      BY <1>8 DEF AllocateBuffer, ReceiveBuffer, DestroyBuffer, pyVars
    <2>. QED BY <1>3, <1>4, <1>5, <1>8, <2>1, BufferTypes, BufferHandles
  <1>9. ASSUME NEW x \in Buffers, PublishBuffer(x) PROVE PyInv'
    <2>1. UNCHANGED <<buffer, rh, wh, call, reader, view, native, method>>
      BY <1>9 DEF PublishBuffer, FinalizeWrite, pyVars
    <2>2. HandlesFit'
      BY <2>1, HandlesFrame
    <2>. QED BY <1>3, <1>4, <1>5, <1>9, <2>1, <2>2, BufferTypes
  <1>10. ASSUME NEW x \in Buffers, ForgetBuffer(x) PROVE PyInv'
    <2>1. UNCHANGED <<vars, reader, view, native, method>>
      BY <1>10 DEF ForgetBuffer
    <2>. QED BY <1>3, <1>4, <1>5, <1>6, <1>10, <2>1, BufferTypes
  <1>11. ASSUME NEW x \in Buffers, NEW t \in Threads, NEW h \in ReadHandles,
                BeginReadBuffer(t, x, h)
         PROVE  PyInv'
    <2>1. UNCHANGED <<view, native, method>>
      BY <1>11 DEF BeginReadBuffer
    <2>. QED BY <1>3, <1>4, <1>5, <1>11, <2>1, BufferTypes, BeginHandles
  <1>12. ASSUME NEW t \in Threads, ReadBufferGoesOn(t) PROVE PyInv'
    <2>1. UNCHANGED <<view, native, method>>
      BY <1>12 DEF ReadBufferGoesOn
    <2>. QED BY <1>3, <1>4, <1>5, <1>12, <2>1, ReaderTypes, GoesOnHandles
  <1>13. ASSUME NEW h \in ReadHandles, ReadForeign(h) \/ DropReadViews(h) PROVE PyInv'
    <2>1. UNCHANGED <<view, native, method>>
      BY <1>13 DEF ReadForeign, DropReadViews
    <2>. QED BY <1>3, <1>4, <1>5, <1>13, <2>1, ReaderTypes, ReaderHandles
  <1>14. ASSUME NEW x \in Buffers, NEW w \in WriteHandles, WriteBuffer(x, w) PROVE PyInv'
    <2>1. UNCHANGED <<view, method>> /\ native[w] = NoNative
          /\ native' = [native EXCEPT ![w] = [owner |-> x, exports |-> 0, closed |-> FALSE]]
      BY <1>14 DEF WriteBuffer
    <2>2. LiveViews(w) = {} /\ native[w].exports = 0
      BY <1>1, <2>1, ExportsMeanViews DEF NoNative
    <2>3. /\ \A v \in WriteHandles : native'[v].exports = native[v].exports
          /\ \A v \in WriteHandles : LiveViews(v) # {} => native'[v].closed = native[v].closed
      BY <1>1, <2>1, <2>2 DEF PyTypes
    <2>4. ViewsFit' /\ ExportAccounting'
      BY <1>1, <2>1, <2>3, ViewsFrame
    <2>. QED BY <1>3, <1>4, <1>14, <2>1, <2>4, ViewTypes, WriteHandleKept
  <1>15. ASSUME NEW w \in WriteHandles, DestroyNative(w) \/ DropOwner(w) PROVE PyInv'
    <2>1. UNCHANGED method
      BY <1>15 DEF DestroyNative, DropOwner
    <2>. QED BY <1>3, <1>4, <1>15, <2>1, ViewTypes, ClosingHandles
  <1>16. ASSUME NEW w \in WriteHandles, ForgetAccess(w) PROVE PyInv'
    <2>1. UNCHANGED <<vars, reader, view, native, method>>
      BY <1>16 DEF ForgetAccess
    <2>. QED BY <1>3, <1>4, <1>5, <1>6, <1>16, <2>1, ViewTypes
  <1>17. ASSUME NEW v \in Views, NEW u \in Views,
                ExportView(v) \/ ForgetView(v) \/ DeriveView(v, u)
         PROVE  PyInv'
    <2>1. UNCHANGED <<vars, reader, native, method>>
      BY <1>17 DEF ExportView, ForgetView, DeriveView
    <2>. QED BY <1>1, <1>3, <1>4, <1>6, <1>17, <2>1, ViewTypes, ViewComesOrGoes
  <1>18. ASSUME NEW v \in Views, ReleaseView(v) PROVE PyInv'
    <2>1. UNCHANGED <<vars, reader, method>> /\ view[v].live /\ Release(v)
      BY <1>18 DEF ReleaseView
    <2>. QED BY <1>1, <1>3, <1>4, <1>6, <1>18, <2>1, ViewTypes, ReleaseExports
  <1>19. ASSUME NEW t \in Threads, NEW w \in WriteHandles,
                Begin(t, w, "enter") \/ Begin(t, w, "close")
         PROVE  PyInv'
    <2>1. UNCHANGED <<vars, reader, view, native>>
      BY <1>19 DEF Begin
    <2>. QED BY <1>3, <1>5, <1>6, <1>19, <2>1, MethodTypes
  <1>20. ASSUME NEW t \in Threads, MethodGoesOn(t) PROVE PyInv'
    <2>1. PyTypes' /\ MethodsFit'
      BY <1>20, MethodTypes
    <2>2. CASE \/ EnterOpen(t) \/ EnterOnce(t) \/ KeepView(t) \/ CloseOnce(t) \/ CloseEntered(t)
               \/ ForgetClosedView(t) \/ ForgetNative(t)
      <3>1. UNCHANGED <<vars, reader, view, native>>
        BY <2>2 DEF EnterOpen, EnterOnce, KeepView, CloseOnce, CloseEntered, ForgetClosedView,
                    ForgetNative
      <3>. QED BY <1>3, <1>5, <1>6, <2>1, <3>1
    <2>3. CASE MakeView(t)
      <3>1. UNCHANGED <<vars, reader>>
        BY <2>3 DEF MakeView
      <3>. QED BY <1>1, <1>3, <1>6, <2>1, <2>3, <3>1, MakeViewExports
    <2>4. CASE CloseReleases(t)
      <3>1. UNCHANGED <<vars, reader>>
        BY <2>4 DEF CloseReleases
      <3>2. PICK v : v = access[method[t].on].view
        OBVIOUS
      <3>3. CASE UNCHANGED <<view, native>>
        BY <1>3, <1>5, <1>6, <2>1, <3>1, <3>3
      <3>4. CASE ~UNCHANGED <<view, native>>
        <4>1. v # None /\ view[v].live /\ Release(v) /\ method[t].on \in WriteHandles
          BY <1>1, <2>4, <3>2, <3>4 DEF CloseReleases, Releasable, At, MethodsFit
        <4>2. v \in Views
          BY <1>1, <3>2, <4>1, PyFields
        <4>. QED BY <1>1, <1>3, <1>6, <2>1, <3>1, <4>1, <4>2, ReleaseExports
      <3>. QED BY <3>3, <3>4
    <2>5. CASE CloseNative(t)
      <3>1. method[t].on \in WriteHandles
        BY <1>1, <2>5 DEF CloseNative, At, MethodsFit
      <3>. QED BY <1>3, <2>1, <2>5, <3>1, ClosingHandles
    <2>. QED BY <1>20, <2>2, <2>3, <2>4, <2>5 DEF MethodGoesOn
  <1>21. CASE PyNext
    BY <1>8, <1>9, <1>10, <1>11, <1>12, <1>13, <1>14, <1>15, <1>16, <1>17, <1>18, <1>19, <1>20,
       <1>21
       DEF PyNext
  <1>. QED BY <1>7, <1>21

-----------------------------------------------------------------------------
(* Theorems *)

\* However the threads of a Python program interleave the methods of write accesses,
\* views and reads, handles agree with the Buffers that their native objects keep.
THEOREM PyInvariant == PySpec => []PyInv
  BY InitPyInv, NextPyInv, PTL DEF PySpec

\* The Python package implements LocalHandles: each constructor, method and destructor
\* is a step of the C++ objects or leaves them alone, so that what is proved of these
\* holds under Python as well.
THEOREM PythonUsesHandles == PySpec => Spec
  <1>1. PyInit => Init
    BY DEF PyInit
  <1>2. PyInv /\ [PyNext]_<<vars, pyVars>> => [Next]_vars
    <2>1. PyInv /\ PyNext => [Next]_vars
      BY PyStepsAreLocal DEF PyInv
    <2>2. UNCHANGED <<vars, pyVars>> => UNCHANGED vars
      OBVIOUS
    <2>. QED BY <2>1, <2>2
  <1>. QED BY <1>1, <1>2, PyInvariant, PTL DEF PySpec, Spec

\* Buffers, native objects, accesses, views and methods keep the types of their
\* attributes; no export count exceeds the number of views.
THEOREM PyTypeCorrect == PySpec => []PyTypeOK
  <1>1. PyInv => PyTypeOK
    <2>. SUFFICES ASSUME PyInv PROVE PyTypeOK
      OBVIOUS
    <2>1. TypeOK /\ PyTypes
      BY TypesMatch DEF PyInv, LocalInv, ShapeInv
    <2>2. \A w \in WriteHandles : native[w].exports \in 0 .. Cardinality(Views)
      BY ManagedAreFew DEF PyInv, ExportAccounting
    <2>3. native \in [WriteHandles -> [owner : Buffers \cup {None},
                                       exports : 0 .. Cardinality(Views), closed : BOOLEAN]]
      BY <2>1, <2>2 DEF PyTypes, NativeRecord
    <2>. QED BY <2>1, <2>3 DEF PyTypeOK, PyTypes, AccessRecord, ViewRecord, MethodRecord
  <1>. QED BY <1>1, PyInvariant, PTL

\* owner_ of the native objects and the exports that close() rejects: no memoryview
\* outlives the handle, the Buffer or the block that it shows.
THEOREM ViewsStayBacked == PySpec => []ViewsAreBacked
  <1>1. PyInv => ViewsAreBacked
    <2>. SUFFICES ASSUME PyInv PROVE ViewsAreBacked
      OBVIOUS
    <2>1. ViewsFit /\ NativesFit /\ ReadersFit
      BY DEF PyInv
    <2>2. ASSUME NEW v \in Views, view[v].live, NEW w, w = view[v].of
          PROVE  /\ ~native[w].closed /\ wh[w] # NoWrite /\ native[w].owner # None
                 /\ buffer[native[w].owner].block = wh[w].block /\ Owned(native[w].owner)
      <3>1. w \in WriteHandles /\ ~native[w].closed
        BY <2>1, <2>2 DEF ViewsFit
      <3>. QED BY <2>1, <3>1, LocalAssumption DEF NativesFit
    <2>. QED BY <2>1, <2>2 DEF ViewsAreBacked, ReadersFit
  <1>. QED BY <1>1, PyInvariant, PTL

\* add_export and remove_export: what a native access counts are the managed buffers
\* of its live views, however they are derived, kept, released and forgotten.
THEOREM ExportsAreCounted == PySpec => []ExportAccounting
  <1>1. PyInv => ExportAccounting
    BY DEF PyInv
  <1>. QED BY <1>1, PyInvariant, PTL

\* A block has a promoted handle or a buffer, and not more of them.
LEMMA OneHolder ==
  ASSUME PyInv, NEW b \in LocalBlocks, NEW x \in Buffers, buffer[x].block = b
  PROVE  /\ \A y \in Buffers : buffer[y].block = b => y = x
         /\ \A h \in ReadHandles : rh[h].promoted => rh[h].block # b
  <1>1. PICK B : B = {y \in Buffers : buffer[y].block = b}
    OBVIOUS
  <1>2. PICK P : P = {h \in ReadHandles : rh[h].promoted /\ rh[h].block = b}
    OBVIOUS
  <1>3. IsFiniteSet(B) /\ IsFiniteSet(P) /\ x \in B
    BY <1>1, <1>2, LocalAssumption, FS_Subset
  <1>4. Cardinality(B) + Cardinality(P) \in {0, 1}
    BY <1>1, <1>2, OwnersMatch DEF PyInv, LocalInv, OneOwner
  <1>5. Cardinality(B) \in Nat /\ Cardinality(P) \in Nat /\ Cardinality(B \ {x}) \in Nat
    BY <1>3, FS_CardinalityType, FS_RemoveElement
  <1>6. Cardinality(B \ {x}) = Cardinality(B) - 1
    BY <1>3, FS_RemoveElement
  <1>7. Cardinality(B \ {x}) = 0 /\ Cardinality(P) = 0
    BY <1>4, <1>5, <1>6
  <1>8. B \ {x} = {} /\ P = {}
    BY <1>3, <1>7, FS_EmptySet, FS_RemoveElement
  <1>. QED BY <1>1, <1>2, <1>8

\* write_buffer and read_buffer: while a writer is active nobody holds a ReadHandle of
\* its block.  A promoted handle owns its block alone; any other one has the HandleState
\* of the Buffer that it keeps, and that Buffer is the writer's.
THEOREM WritersExcludeReaders == PySpec => []WriterExcludesReaders
  <1>1. PyInv => WriterExcludesReaders
    <2>. SUFFICES ASSUME PyInv, NEW w \in WriteHandles, NEW h \in ReadHandles,
                         WriterActive(w), rh[h].block = wh[w].block
                  PROVE  FALSE
      BY DEF WriterExcludesReaders
    <2>1. ~native[w].closed
      BY DEF PyInv, NativesFit, WriterActive, NoWrite
    <2>2. PICK x \in Buffers : x = native[w].owner
      BY <2>1 DEF PyInv, NativesFit
    <2>3. Owned(x) /\ buffer[x].block = wh[w].block /\ buffer[x].state = wh[w].state
      BY <2>1, <2>2 DEF PyInv, NativesFit
    <2>4. buffer[x].block \in LocalBlocks /\ buffer[x].block # NoBlock
      BY <2>3 DEF PyInv, LocalInv, ShapeInv, BufferFits, Owned
    <2>5. rh[h] # NoRead /\ ~rh[h].promoted
      BY <2>3, <2>4, OneHolder DEF NoRead
    <2>6. /\ reader[h] \in Buffers /\ buffer[reader[h]].block = rh[h].block
          /\ buffer[reader[h]].state = rh[h].state
      BY <2>5 DEF PyInv, ReadersFit
    <2>7. reader[h] = x
      BY <2>3, <2>4, <2>6, OneHolder
    <2>8. rh[h].state = wh[w].state
      BY <2>3, <2>6, <2>7
    <2>. QED BY <2>8, InvariantWriterAlone DEF PyInv, WriterAlone
  <1>. QED BY <1>1, PyInvariant, PTL

\* The destructors and the constructors that threw: without references, accesses,
\* views and reads no block is used, no reader is counted, no writer left.
THEOREM NothingIsLeaked == PySpec => []EverythingGivenBack
  <1>1. PyInv => EverythingGivenBack
    <2>. SUFFICES ASSUME PyInv, LockFree, \A x \in Buffers : ~referenced[x],
                         access = [w \in WriteHandles |-> NoAccess],
                         \A v \in Views : ~view[v].live,
                         rh = [h \in ReadHandles |-> NoRead]
                  PROVE  /\ used = {} /\ reader_state = [b \in BlockIds |-> 0]
                         /\ wh = [w \in WriteHandles |-> NoWrite]
      BY DEF EverythingGivenBack
    <2>1. \A w \in WriteHandles : native[w] = NoNative
      BY DEF LockFree, LooseNatives, LiveViews, NoAccess
    <2>2. wh = [w \in WriteHandles |-> NoWrite]
      BY <2>1, LocalFacts DEF PyInv, NativesFit, NoNative
    <2>3. \A h \in ReadHandles : reader[h] = None
      <3>1. \A t \in Threads, h \in ReadHandles : call[t].handle # h
        BY LocalAssumption DEF LockFree, NoCall
      <3>. QED BY <3>1 DEF PyInv, ReadersFit
    <2>4. \A x \in Buffers : buffer[x] = Empty
      BY <2>1, <2>3, LocalAssumption DEF LockFree, LooseBuffers, NoNative
    <2>5. \A b \in BlockIds : b # NoBlock
      BY LocalAssumption DEF BlockIds, Header!BlockIds, NoBlock
    <2>6. \A b \in BlockIds : /\ {h \in ReadHandles : rh[h].block = b} = {}
                              /\ {h \in ReadHandles : rh[h].promoted /\ rh[h].block = b} = {}
                              /\ {x \in Buffers : buffer[x].block = b} = {}
                              /\ {x \in Buffers : buffer[x].block = b /\ buffer[x].held} = {}
                              /\ {x \in Buffers : buffer[x].block = b /\ Imported(x)} = {}
      BY <2>4, <2>5 DEF NoRead, Empty
    <2>7. Cardinality({}) = 0
      BY FS_EmptySet
    <2>8. \A b \in BlockIds : reader_state[b] = 0
      <3>1. ASSUME NEW b \in BlockIds PROVE reader_state[b] = 0
        <4>1. /\ Cardinality({h \in ReadHandles : rh[h].block = b}) = 0
              /\ Cardinality({x \in Buffers : buffer[x].block = b /\ buffer[x].held}) = 0
              /\ Cardinality({x \in Buffers : buffer[x].block = b /\ Imported(x)}) = 0
          BY <2>6, <2>7
        <4>2. LeaseAccounting
          BY DEF PyInv, LocalInv, LeaseInv
        <4>3. reader_state[b] =
                Cardinality({h \in ReadHandles : rh[h].block = b})
                  + Cardinality({x \in Buffers : buffer[x].block = b /\ buffer[x].held})
                  + Cardinality({x \in Buffers : buffer[x].block = b /\ Imported(x)})
          BY <4>2 DEF LeaseAccounting
        <4>. QED BY <4>1, <4>3
      <3>. QED BY <3>1
    <2>9. reader_state = [b \in BlockIds |-> 0]
      BY <2>8 DEF PyInv, LocalInv, ShapeInv, Types
    <2>10. \A b \in LocalBlocks : b \notin used
      <3>1. OneOwner /\ LocalBlocks \subseteq BlockIds
        BY OwnersMatch DEF PyInv, LocalInv, LocalBlocks
      <3>. QED BY <2>6, <2>7, <3>1 DEF OneOwner
    <2>11. used = {}
      BY <2>10 DEF PyInv, LocalInv, ShapeInv, Types
    <2>. QED BY <2>2, <2>9, <2>11
  <1>. QED BY <1>1, PyInvariant, PTL
=============================================================================
