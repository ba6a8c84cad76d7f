----------------------------- MODULE FdBrokerProofs -----------------------------
(***************************************************************************)
(* The descriptors of a process with any number of pools, blocks and       *)
(* clients, whose registrations may fail at any point and whose pools may  *)
(* be destroyed while their dispatchers run.                               *)
(*                                                                         *)
(* The argument: at any moment a number names the memfd of a block only if *)
(* the pool, an entry of its dispatcher or the call that is under way has  *)
(* it, and the same for listening sockets.  A call that opens or closes a  *)
(* number changes the holder in the same step, a dispatcher closes only    *)
(* connections, and other threads only files of their own.                 *)
(***************************************************************************)
EXTENDS FdBroker, FiniteSetTheorems, WellFoundedInduction, TLAPS

Registering == {"listening", "duplicated", "entered", "failed"}
Removing == {"erased", "unwatched"}
Duplicated == {"duplicated", "entered"} \cup Removing

\* The call that is under way is about b, and at one of pcs.
InHand(b, pcs) == owner[PoolOf[b]].block = b /\ owner[PoolOf[b]].pc \in pcs

\* A call has what its progress says.
OwnerFits(o, p) ==
  /\ o.pc = "idle" => o = NoOwner
  /\ o.pc \in Registering \cup Removing => o.block \in BlocksOf(p) /\ o.sock \in Numbers
  /\ o.pc \in Registering => registered[o.block] = None
  /\ o.pc \in Removing => registered[o.block] = o.sock
  /\ o.pc \in Duplicated => o.dup \in Numbers

\* Number n is the listening socket of b, or the duplicate of its memfd.
HoldsSock(b, n) ==
  \/ registered[b] = n /\ ~InHand(b, {"unwatched"})
  \/ InHand(b, Registering) /\ owner[PoolOf[b]].sock = n

HoldsDup(b, n) ==
  \/ <<registered[b], n>> \in sockets[PoolOf[b]] /\ ~InHand(b, Removing)
  \/ InHand(b, Duplicated) /\ owner[PoolOf[b]].dup = n

\* A number names a file of b when b holds it, and b holds one of each kind.
FilesAreHeld(b) ==
  /\ \A n \in Numbers :
       /\ fds[n] = Listener(b) <=> HoldsSock(b, n)
       /\ fds[n] = MemFd(b) <=> native[b] = n \/ HoldsDup(b, n)
       /\ ~(native[b] = n /\ HoldsDup(b, n))
  /\ \A n, m \in Numbers : HoldsDup(b, n) /\ HoldsDup(b, m) => n = m

\* An entry is that of a registered block, or of the one being registered.
EntriesFit(p) ==
  /\ \A e \in sockets[p] :
       \/ \E b \in BlocksOf(p) : registered[b] = e[1] /\ ~InHand(b, Removing)
       \/ owner[p].pc = "entered" /\ e = <<owner[p].sock, owner[p].dup>>
  /\ owner[p].pc = "entered" => <<owner[p].sock, owner[p].dup>> \in sockets[p]

RegisteredFits(b) ==
  /\ registered[b] # None /\ ~InHand(b, Removing) =>
       \E n \in Numbers : <<registered[b], n>> \in sockets[PoolOf[b]]
  /\ path[b] <=> registered[b] # None \/ InHand(b, Registering)

\* A dispatcher that has accepted has a connection of its own.
ConnectionsFit ==
  /\ \A p \in Pools : thread[p].pc \in {"found", "accepted"} =>
       thread[p].sock \in Numbers /\ thread[p].fd \in Numbers
  /\ \A p \in Pools : thread[p].pc = "accepted" =>
       thread[p].conn \in Numbers /\ \E c \in Clients : fds[thread[p].conn] = Connection(c)
  /\ \A p, q \in Pools : p # q /\ thread[p].pc = "accepted" /\ thread[q].pc = "accepted" =>
       thread[p].conn # thread[q].conn

\* sockets and epoll are functions on the pools.
ShapeOK ==
  /\ sockets \in [Pools -> SUBSET (Numbers \X Numbers)]
  /\ epoll \in [Pools -> SUBSET (Numbers \X Blocks)]

BrokerInv ==
  /\ TypeOK /\ ShapeOK
  /\ \A p \in Pools : OwnerFits(owner[p], p)
  /\ \A b \in Blocks : FilesAreHeld(b)
  /\ \A p \in Pools : EntriesFit(p)
  /\ \A b \in Blocks : RegisteredFits(b)
  /\ ConnectionsFit

-----------------------------------------------------------------------------
(* The numbers that a dispatcher found, before any pool is destroyed *)

Calm == \A p \in Pools : ~Destroying(p)

\* What epoll reports is a registered socket.
EventsFit(p) ==
  /\ \A e \in epoll[p] : registered[e[2]] = e[1]
  /\ \A n \in thread[p].events : \E b \in BlocksOf(p) : registered[b] = n

\* The socket that was found is that of the block whose memfd was found.
FoundFits(p) ==
  thread[p].pc = "found" =>
    \E b \in BlocksOf(p) :
      registered[b] = thread[p].sock /\ <<thread[p].sock, thread[p].fd>> \in sockets[p]

\* The memfd that will be sent is that of the block the client asked for.
AcceptedFits(p) ==
  thread[p].pc = "accepted" =>
    \E c \in Clients :
      /\ fds[thread[p].conn] = Connection(c) /\ client[c].pc = "accepted"
      /\ client[c].want \in BlocksOf(p) /\ registered[client[c].want] # None
      /\ <<registered[client[c].want], thread[p].fd>> \in sockets[p]

\* Two dispatchers serve two clients.
ClientsDiffer ==
  \A p, q \in Pools : p # q /\ thread[p].pc = "accepted" /\ thread[q].pc = "accepted" =>
    fds[thread[p].conn] # fds[thread[q].conn]

CalmInv ==
  /\ \A c \in Clients : client[c].pc = "queued" => client[c].want \in Blocks
  /\ Calm => /\ \A p \in Pools : EventsFit(p) /\ FoundFits(p) /\ AcceptedFits(p)
             /\ ClientsDiffer /\ ServedTheBlock

-----------------------------------------------------------------------------
(* The same while the process's one pool is destroyed *)

OtherFiles == {OtherFile(o) : o \in Others}

\* As long as the number that was found is a listening socket at all, it is the one
\* of the block whose memfd was found.
FoundAfter(p) ==
  thread[p].pc = "found" =>
    \A b \in Blocks : fds[thread[p].sock] = Listener(b) => fds[thread[p].fd] = MemFd(b)

\* The number of the memfd may have been closed and taken by another thread.
AcceptedAfter(p) ==
  thread[p].pc = "accepted" =>
    \E c \in Clients :
      /\ fds[thread[p].conn] = Connection(c) /\ client[c].pc = "accepted"
      /\ fds[thread[p].fd] \in {MemFd(client[c].want), Closed} \cup OtherFiles

DestructionInv ==
  /\ \A p \in Pools : Destroying(p) => FoundAfter(p) /\ AcceptedAfter(p)
  /\ NeverAnotherBlock

-----------------------------------------------------------------------------
(* Files and numbers *)

\* Two files are equal only if they are of one kind and one owner.
LEMMA FileKinds ==
  /\ \A x, y : MemFd(x) # Listener(y) /\ MemFd(x) # Connection(y) /\ Listener(x) # Connection(y)
  /\ \A x : MemFd(x) # Closed /\ Listener(x) # Closed /\ Connection(x) # Closed
  /\ \A x, y : MemFd(x) = MemFd(y) => x = y
  /\ \A x, y : Listener(x) = Listener(y) => x = y
  /\ \A x, y : Connection(x) = Connection(y) => x = y
  /\ \A x, y : OtherFile(x) # MemFd(y) /\ OtherFile(x) # Listener(y)
               /\ OtherFile(x) # Connection(y)
  /\ \A x : OtherFile(x) # Closed /\ OtherFile(x).kind = "other"
  /\ \A x : Listener(x).kind = "listener" /\ Listener(x).of = x
  /\ \A x : Connection(x).kind = "connection" /\ Connection(x).of = x
  /\ \A x : MemFd(x).kind = "memfd" /\ Closed.kind = "closed"
  BY DEF MemFd, Listener, Connection, OtherFile, Closed

\* -1 is no descriptor number.
LEMMA NoneIsNoNumber == None \notin Numbers
  BY BrokerAssumption DEF None, Numbers

\* A new descriptor gets a number that was free: the lowest one exists.
LEMMA LowestNumber ==
  ASSUME FreeNumbers # {}
  PROVE  NewNumber \in Numbers /\ fds[NewNumber] = Closed
  <1>1. FreeNumbers \subseteq Nat
    BY BrokerAssumption DEF FreeNumbers, Numbers
  <1>2. PICK n \in FreeNumbers : \A m \in FreeNumbers : <<m, n>> \notin OpToRel(<, Nat)
    BY <1>1, NatLessThanWellFounded, WFMin, Zenon
  <1>3. \A m \in FreeNumbers : ~(m < n)
    BY <1>1, <1>2, Zenon DEF OpToRel
  <1>4. \A m \in FreeNumbers : n <= m
    BY <1>1, <1>3
  <1>5. NewNumber \in FreeNumbers
    BY <1>4 DEF NewNumber
  <1>. QED BY <1>5 DEF FreeNumbers

-----------------------------------------------------------------------------
(* Types *)

PcOfOwner ==
  {"idle", "listening", "duplicated", "entered", "failed", "removing", "erased", "unwatched",
   "joining", "gone"}
PcOfThread == {"wait", "serve", "found", "accepted", "exited"}
PcOfClient == {"idle", "queued", "accepted", "served", "reset"}

Owners == [pc : PcOfOwner, block : Blocks \cup {None}, sock : MaybeNumber, dup : MaybeNumber]
Threads ==
  [pc : PcOfThread, events : SUBSET Numbers, sock : MaybeNumber, fd : MaybeNumber,
   conn : MaybeNumber]
ClientStates == [pc : PcOfClient, want : Blocks \cup {None}, got : Files]

\* TypeOK and ShapeOK, with the sets of records named
Typed ==
  /\ fds \in [Numbers -> Files] /\ native \in [Blocks -> MaybeNumber]
  /\ path \in [Blocks -> BOOLEAN] /\ registered \in [Blocks -> MaybeNumber]
  /\ sockets \in [Pools -> SUBSET (Numbers \X Numbers)]
  /\ epoll \in [Pools -> SUBSET (Numbers \X Blocks)]
  /\ \A p \in Pools : epoll[p] \subseteq Numbers \X BlocksOf(p)
  /\ running \in [Pools -> BOOLEAN]
  /\ owner \in [Pools -> Owners]
  /\ thread \in [Pools -> Threads]
  /\ client \in [Clients -> ClientStates]

\* A record of an owner, a thread or a client keeps its type when a field changes.
LEMMA RecordTypes ==
  /\ \A o \in Owners, pc \in PcOfOwner : [o EXCEPT !.pc = pc] \in Owners
  /\ \A pc \in PcOfOwner, b \in Blocks \cup {None}, n, m \in MaybeNumber :
       [pc |-> pc, block |-> b, sock |-> n, dup |-> m] \in Owners
  /\ \A o \in Owners, n \in MaybeNumber :
       [o EXCEPT !.pc = "duplicated", !.dup = n] \in Owners
  /\ NoOwner \in Owners /\ [NoOwner EXCEPT !.pc = "removing"] \in Owners
  /\ \A t \in Threads, pc \in PcOfThread : [t EXCEPT !.pc = pc] \in Threads
  /\ \A t \in Threads, S \in SUBSET Numbers :
       /\ [t EXCEPT !.pc = "serve", !.events = S] \in Threads
       /\ [t EXCEPT !.events = S] \in Threads
  /\ \A t \in Threads, n \in Numbers, m \in Numbers :
       [t EXCEPT !.pc = "found", !.events = t.events \ {n}, !.sock = n, !.fd = m] \in Threads
  /\ \A t \in Threads, n \in Numbers : [t EXCEPT !.pc = "accepted", !.conn = n] \in Threads
  /\ NoThread \in Threads
  /\ \A c \in ClientStates, pc \in PcOfClient : [c EXCEPT !.pc = pc] \in ClientStates
  /\ \A c \in ClientStates, f \in Files : [c EXCEPT !.pc = "served", !.got = f] \in ClientStates
  /\ \A b \in Blocks : [pc |-> "queued", want |-> b, got |-> Closed] \in ClientStates
  BY DEF Owners, Threads, ClientStates, PcOfOwner, PcOfThread, PcOfClient, NoOwner, NoThread,
         MaybeNumber, Files

\* Typed is the two type invariants together.
LEMMA TypedIsTypeOK == Typed <=> TypeOK /\ ShapeOK
  BY DEF Typed, TypeOK, ShapeOK, Owners, Threads, ClientStates, PcOfOwner, PcOfThread,
         PcOfClient

\* Every step keeps the types.
LEMMA TypeStep ==
  ASSUME BrokerInv, [Next]_vars
  PROVE  Typed'
  <1>1. \A b \in Blocks : PoolOf[b] \in Pools /\ b \in BlocksOf(PoolOf[b])
    BY BrokerAssumption DEF BlocksOf
  <1>2. \A p \in Pools : BlocksOf(p) \subseteq Blocks
    BY DEF BlocksOf
  <1>3. /\ Closed \in Files /\ \A b \in Blocks : MemFd(b) \in Files /\ Listener(b) \in Files
        /\ \A c \in Clients : Connection(c) \in Files
        /\ \A o \in Others : OtherFile(o) \in Files
    BY DEF Files
  <1>4. FreeNumbers # {} => NewNumber \in Numbers
    BY LowestNumber
  <1>5. Numbers \subseteq MaybeNumber /\ None \in MaybeNumber
    BY DEF MaybeNumber
  <1>6. Typed /\ \A p \in Pools : OwnerFits(owner[p], p)
    BY TypedIsTypeOK DEF BrokerInv
  <1>7. \A p \in Pools : owner[p] \in Owners /\ thread[p] \in Threads
    BY <1>6 DEF Typed
  <1>8. \A p \in Pools, t \in Threads : [thread EXCEPT ![p] = t] \in [Pools -> Threads]
    BY <1>6 DEF Typed
  <1>10. CASE UNCHANGED vars
    BY <1>6, <1>10 DEF Typed, vars, BlocksOf
  <1>11. ASSUME NEW b \in Blocks, CreateBlock(b) PROVE Typed'
    BY <1>1, <1>3, <1>4, <1>5, <1>6, <1>11
       DEF CreateBlock, Open, Typed
  <1>12. ASSUME NEW b \in Blocks, ListenFor(b) PROVE Typed'
    BY <1>1, <1>3, <1>4, <1>5, <1>6, RecordTypes, <1>12
       DEF ListenFor, Open, Typed, PcOfOwner
  <1>13. ASSUME NEW p \in Pools, BeginDestroy(p) PROVE Typed'
    BY <1>6, <1>7, RecordTypes, <1>13
       DEF BeginDestroy, To, Typed, PcOfOwner
  <1>14. ASSUME NEW c \in Clients, NEW b \in Blocks, Connect(c, b) PROVE Typed'
    BY <1>6, RecordTypes, <1>14
       DEF Connect, Typed
  <1>15. ASSUME NEW p \in Pools, Duplicate(p) PROVE Typed'
    BY <1>2, <1>3, <1>4, <1>5, <1>6, <1>7, RecordTypes, <1>15
       DEF Duplicate, Open, Typed, OwnerFits, Registering
  <1>16. ASSUME NEW p \in Pools, EnterSocket(p) PROVE Typed'
    <2>1. <<owner[p].sock, owner[p].dup>> \in Numbers \X Numbers
      BY <1>6, <1>16 DEF EnterSocket, OwnerFits, Registering, Duplicated
    <2>2. owner' \in [Pools -> Owners]
      BY <1>6, <1>7, <1>16, RecordTypes DEF EnterSocket, To, Typed, PcOfOwner
    <2>3. sockets' \in [Pools -> SUBSET (Numbers \X Numbers)]
      BY <1>6, <1>16, <2>1 DEF EnterSocket, Typed
    <2>. QED BY <1>6, <1>16, <2>2, <2>3 DEF EnterSocket, Typed
  <1>17. ASSUME NEW p \in Pools, Watch(p) PROVE Typed'
    <2>1. owner[p].sock \in Numbers /\ owner[p].block \in BlocksOf(p)
      BY <1>6, <1>17 DEF Watch, OwnerFits, Registering
    <2>2. Watched(p) \subseteq Numbers \X BlocksOf(p) /\ Watched(p) \subseteq Numbers \X Blocks
      BY <1>2, <1>6, <2>1 DEF Watched, Typed
    <2>3. /\ epoll' \in [Pools -> SUBSET (Numbers \X Blocks)]
          /\ \A q \in Pools : epoll'[q] \subseteq Numbers \X BlocksOf(q)
      BY <1>6, <1>17, <2>2 DEF Watch, Typed
    <2>4. owner' \in [Pools -> Owners]
      BY <1>6, <1>17, RecordTypes DEF Watch, Typed
    <2>5. registered' \in [Blocks -> MaybeNumber]
      BY <1>2, <1>5, <1>6, <1>17, <2>1 DEF Watch, Typed
    <2>6. \A q \in Pools : BlocksOf(q)' = BlocksOf(q)
      BY DEF BlocksOf
    <2>. QED BY <1>6, <1>17, <2>3, <2>4, <2>5, <2>6 DEF Watch, Typed
  <1>18. ASSUME NEW p \in Pools, WatchFails(p) PROVE Typed'
    BY <1>3, <1>6, <1>7, RecordTypes, <1>18
       DEF WatchFails, To, Close, Typed, PcOfOwner
  <1>19. ASSUME NEW p \in Pools, DuplicateFails(p) PROVE Typed'
    BY <1>6, <1>7, RecordTypes, <1>19
       DEF DuplicateFails, To, Typed, PcOfOwner
  <1>20. ASSUME NEW p \in Pools, RegisterFails(p) PROVE Typed'
    BY <1>3, <1>6, RecordTypes, <1>20
       DEF RegisterFails, Close, ResetQueue, Typed, PcOfClient
  <1>21. ASSUME NEW p \in Pools, EraseSocket(p) PROVE Typed'
    <2>1. PICK b \in BlocksOf(p), entry \in sockets[p] :
            /\ sockets' = [sockets EXCEPT ![p] = WithoutEntry(p, entry)]
            /\ owner' = [owner EXCEPT ![p] = [pc |-> "erased", block |-> b, sock |-> entry[1],
                                              dup |-> entry[2]]]
      BY <1>21 DEF EraseSocket
    <2>2. entry[1] \in MaybeNumber /\ entry[2] \in MaybeNumber /\ b \in Blocks \cup {None}
      BY <1>2, <1>5, <1>6 DEF Typed
    <2>3. owner' \in [Pools -> Owners]
      BY <1>6, <2>1, <2>2, RecordTypes DEF Typed, PcOfOwner
    <2>4. sockets' \in [Pools -> SUBSET (Numbers \X Numbers)]
      BY <1>6, <2>1 DEF Typed, WithoutEntry
    <2>. QED BY <1>6, <1>21, <2>3, <2>4 DEF EraseSocket, Typed
  <1>22. ASSUME NEW p \in Pools, CloseSocket(p) PROVE Typed'
    BY <1>3, <1>6, <1>7, RecordTypes, <1>22
       DEF CloseSocket, To, Close, ResetQueue, Typed, PcOfOwner, PcOfClient
  <1>23. ASSUME NEW p \in Pools, CloseDuplicate(p) PROVE Typed'
    BY <1>3, <1>5, <1>6, RecordTypes, <1>23
       DEF CloseDuplicate, CloseServed, Close, Typed
  <1>24. ASSUME NEW p \in Pools, Stop(p) PROVE Typed'
    BY <1>6, <1>7, RecordTypes, <1>24
       DEF Stop, Stopped, To, Typed, PcOfOwner
  <1>25. ASSUME NEW p \in Pools, ClosePool(p) PROVE Typed'
    BY <1>3, <1>5, <1>6, <1>7, RecordTypes, <1>25
       DEF ClosePool, To, Typed, PcOfOwner
  <1>27. ASSUME NEW p \in Pools, BatchDone(p) PROVE Typed'
    BY <1>6, RecordTypes, <1>27
       DEF BatchDone, Typed
  <1>29. ASSUME NEW p \in Pools, Accept(p) PROVE Typed'
    <2>1. PICK c \in Clients :
            /\ Open(Connection(c))
            /\ client' = [client EXCEPT ![c].pc = "accepted"]
            /\ thread' = [thread EXCEPT ![p] = [@ EXCEPT !.pc = "accepted", !.conn = NewNumber]]
      BY <1>29 DEF Accept, Queue
    <2>2. NewNumber \in Numbers
      BY <1>4, <1>29 DEF Accept
    <2>3. fds' \in [Numbers -> Files]
      BY <1>3, <1>6, <2>1 DEF Open, Typed
    <2>4. client' \in [Clients -> ClientStates]
      BY <1>6, <2>1, RecordTypes DEF Typed, PcOfClient
    <2>5. thread' \in [Pools -> Threads]
      BY <1>6, <1>7, <2>1, <2>2, RecordTypes DEF Typed
    <2>. QED BY <1>6, <1>29, <2>3, <2>4, <2>5 DEF Accept, Typed
  <1>30. ASSUME NEW p \in Pools, AcceptFails(p) PROVE Typed'
    BY <1>6, <1>7, RecordTypes, <1>30
       DEF AcceptFails, Typed, PcOfThread
  <1>26. ASSUME NEW p \in Pools, Wait(p) PROVE Typed'
    <2>1. Ready(p) \in SUBSET Numbers
      BY <1>6 DEF Ready, Typed
    <2>2. /\ [thread[p] EXCEPT !.pc = "serve", !.events = Ready(p)] \in Threads
          /\ [thread[p] EXCEPT !.pc = "exited"] \in Threads
      BY <1>7, <2>1, RecordTypes DEF PcOfThread
    <2>3. thread' \in [Pools -> Threads]
      BY <1>6, <1>26, <2>2 DEF Wait, Typed
    <2>. QED BY <1>6, <1>26, <2>3 DEF Wait, Typed
  <1>28. ASSUME NEW p \in Pools, LookUp(p) PROVE Typed'
    <2>1. thread[p].events \in SUBSET Numbers
      BY <1>7 DEF Threads
    <2>2. \A entry \in sockets[p] : entry[2] \in Numbers
      BY <1>6 DEF Typed
    <2>3. ASSUME NEW n \in thread[p].events, NEW entry \in sockets[p],
                 thread' = [thread EXCEPT ![p] =
                   [@ EXCEPT !.pc = "found", !.events = thread[p].events \ {n}, !.sock = n,
                             !.fd = entry[2]]]
          PROVE  thread' \in [Pools -> Threads]
      <3>1. n \in Numbers /\ entry[2] \in Numbers
        BY <2>1, <2>2
      <3>2. [thread[p] EXCEPT !.pc = "found", !.events = thread[p].events \ {n}, !.sock = n,
                              !.fd = entry[2]] \in Threads
        BY <1>7, <3>1, RecordTypes
      <3>. QED BY <1>8, <2>3, <3>2
    <2>4. ASSUME NEW n \in thread[p].events, thread' = [thread EXCEPT ![p].events = @ \ {n}]
          PROVE  thread' \in [Pools -> Threads]
      <3>1. thread[p].events \ {n} \in SUBSET Numbers
        BY <2>1
      <3>2. [thread[p] EXCEPT !.events = @ \ {n}] \in Threads
        BY <1>7, <3>1, RecordTypes
      <3>. QED BY <1>6, <2>4, <3>2 DEF Typed
    <2>5. thread' \in [Pools -> Threads]
      BY <1>28, <2>3, <2>4 DEF LookUp
    <2>. QED BY <1>6, <1>28, <2>5 DEF LookUp, Typed
  <1>31. ASSUME NEW p \in Pools, Send(p) PROVE Typed'
    <2>1. thread[p].conn \in Numbers /\ thread[p].fd \in Numbers
      BY <1>31 DEF Send, BrokerInv, ConnectionsFit
    <2>. QED BY <1>3, <1>6, <1>7, <1>31, <2>1, RecordTypes
             DEF Send, HangUp, Close, Peer, FoundFile, Typed, PcOfThread, PcOfClient
  <1>32. ASSUME NEW o \in Others, OpenOther(o) PROVE Typed'
    BY <1>3, <1>4, <1>6, <1>32 DEF OpenOther, Open, Typed
  <1>33. ASSUME NEW o \in Others, CloseOther(o) PROVE Typed'
    BY <1>3, <1>6, <1>33 DEF CloseOther, Close, Typed
  <1>. QED BY <1>10, <1>11, <1>12, <1>13, <1>14, <1>15, <1>16, <1>17, <1>18, <1>19, <1>20,
              <1>21, <1>22, <1>23, <1>24, <1>25, <1>26, <1>27, <1>28, <1>29, <1>30, <1>31,
              <1>32, <1>33
           DEF Next, Begin, OwnerGoesOn, Dispatch

-----------------------------------------------------------------------------
(* Steps that leave the files of the blocks alone *)

\* What a proof needs of the invariant at one pool and one block
LEMMA InvFacts ==
  ASSUME BrokerInv
  PROVE  /\ Typed /\ ConnectionsFit
         /\ \A b \in Blocks : PoolOf[b] \in Pools /\ FilesAreHeld(b) /\ RegisteredFits(b)
         /\ \A p \in Pools : OwnerFits(owner[p], p) /\ EntriesFit(p)
         /\ \A p \in Pools : BlocksOf(p) \subseteq Blocks /\ \A b \in BlocksOf(p) : PoolOf[b] = p
  BY BrokerAssumption, TypedIsTypeOK DEF BrokerInv, BlocksOf

\* The parts of the invariant after a step make it up.
LEMMA InvParts ==
  ASSUME Typed', ConnectionsFit',
         \A b \in Blocks : FilesAreHeld(b)' /\ RegisteredFits(b)',
         \A p \in Pools : OwnerFits(owner[p], p)' /\ EntriesFit(p)'
  PROVE  BrokerInv'
  <1>1. Typed' => TypeOK' /\ ShapeOK'
    BY DEF Typed, TypeOK, ShapeOK, Owners, Threads, ClientStates, PcOfOwner, PcOfThread,
           PcOfClient, BlocksOf
  <1>. QED BY <1>1 DEF BrokerInv

\* Dispatchers keep their connections in a step that closes none.
LEMMA ConnectionsKept ==
  ASSUME ConnectionsFit, UNCHANGED thread,
         \A n \in Numbers, c \in Clients : fds[n] = Connection(c) => fds'[n] = Connection(c)
  PROVE  ConnectionsFit'
  BY DEF ConnectionsFit

\* A step that only opens or closes connections keeps the invariant if its
\* dispatchers keep theirs.
LEMMA QuietStep ==
  ASSUME BrokerInv, Typed', ConnectionsFit',
         UNCHANGED <<native, path, registered, sockets, owner>>,
         \A n \in Numbers, b \in Blocks :
           /\ fds'[n] = MemFd(b) <=> fds[n] = MemFd(b)
           /\ fds'[n] = Listener(b) <=> fds[n] = Listener(b)
  PROVE  BrokerInv'
  <1>1. \A b \in Blocks : FilesAreHeld(b)'
    BY InvFacts DEF FilesAreHeld, HoldsSock, HoldsDup, InHand
  <1>2. \A b \in Blocks : RegisteredFits(b)'
    BY InvFacts DEF RegisteredFits, InHand
  <1>3. \A p \in Pools : OwnerFits(owner[p], p)' /\ EntriesFit(p)'
    BY InvFacts DEF OwnerFits, EntriesFit, InHand, BlocksOf
  <1>. QED BY <1>1, <1>2, <1>3, InvParts

\* Waiting, the end of a batch, a look-up, an accept that fails, a new client.
LEMMA LoopSteps ==
  ASSUME BrokerInv, [Next]_vars, NEW p \in Pools,
         \/ Wait(p) \/ BatchDone(p) \/ LookUp(p) \/ AcceptFails(p)
         \/ \E c \in Clients, b \in Blocks : Connect(c, b)
  PROVE  BrokerInv'
  <1>1. Typed' /\ Typed
    BY TypeStep, InvFacts
  <1>2. UNCHANGED <<fds, native, path, registered, sockets, owner>>
    BY DEF Wait, BatchDone, LookUp, AcceptFails, Connect
  <1>3. \A q \in Pools : thread'[q] = thread[q] \/ q = p
    BY <1>1 DEF Typed, Wait, BatchDone, LookUp, AcceptFails, Connect
  <1>. DEFINE Fits == /\ thread'[p].pc # "accepted"
                      /\ thread'[p].pc = "found" =>
                           thread'[p].sock \in Numbers /\ thread'[p].fd \in Numbers
  <1>4. thread[p] \in Threads
    BY <1>1 DEF Typed
  <1>5. thread'[p] # thread[p] => Fits
    <2>1. CASE Wait(p)
      <3>1. CASE running[p]
        <4>1. thread' = [thread EXCEPT ![p] = [@ EXCEPT !.pc = "serve", !.events = Ready(p)]]
          BY <2>1, <3>1 DEF Wait
        <4>. QED BY <1>1, <1>4, <4>1 DEF Typed, Threads
      <3>2. CASE ~running[p]
        BY <1>1, <1>4, <2>1, <3>2 DEF Typed, Wait, Threads
      <3>. QED BY <3>1, <3>2
    <2>2. CASE BatchDone(p)
      BY <1>1, <2>2 DEF Typed, BatchDone, NoThread
    <2>3. CASE LookUp(p)
      <3>1. thread[p].events \subseteq Numbers /\ \A entry \in sockets[p] : entry[2] \in Numbers
        BY <1>1, <1>4 DEF Threads, Typed
      <3>2. ASSUME NEW n \in thread[p].events, NEW entry \in sockets[p],
                   thread' = [thread EXCEPT ![p] =
                     [@ EXCEPT !.pc = "found", !.events = thread[p].events \ {n}, !.sock = n,
                               !.fd = entry[2]]]
            PROVE  Fits
        BY <1>1, <1>4, <3>1, <3>2 DEF Typed, Threads
      <3>3. ASSUME NEW n \in thread[p].events, thread[p].pc = "serve",
                   thread' = [thread EXCEPT ![p].events = @ \ {n}]
            PROVE  Fits
        BY <1>1, <1>4, <3>3 DEF Typed, Threads
      <3>. QED BY <2>3, <3>2, <3>3 DEF LookUp
    <2>4. CASE AcceptFails(p)
      BY <1>1, <1>4, <2>4 DEF Typed, AcceptFails, Threads
    <2>5. CASE \E c \in Clients, b \in Blocks : Connect(c, b)
      BY <2>5 DEF Connect
    <2>. QED BY <2>1, <2>2, <2>3, <2>4, <2>5
  <1>6. ConnectionsFit'
    BY <1>2, <1>3, <1>5, InvFacts DEF ConnectionsFit
  <1>. QED BY <1>1, <1>2, <1>6, QuietStep

\* The dispatcher accepts: the new number is a connection.
LEMMA AcceptStep ==
  ASSUME BrokerInv, [Next]_vars, NEW p \in Pools, Accept(p)
  PROVE  BrokerInv'
  <1>1. Typed' /\ Typed /\ ConnectionsFit
    BY TypeStep, InvFacts
  <1>2. PICK c \in Clients :
          /\ fds' = [fds EXCEPT ![NewNumber] = Connection(c)]
          /\ thread' = [thread EXCEPT ![p] = [@ EXCEPT !.pc = "accepted", !.conn = NewNumber]]
    BY DEF Accept, Open, Queue
  <1>3. NewNumber \in Numbers /\ fds[NewNumber] = Closed
    BY LowestNumber DEF Accept
  <1>4. fds'[NewNumber] = Connection(c) /\ \A n \in Numbers \ {NewNumber} : fds'[n] = fds[n]
    BY <1>1, <1>2, <1>3 DEF Typed
  <1>5. /\ \A q \in Pools \ {p} : thread'[q] = thread[q]
        /\ thread'[p].pc = "accepted" /\ thread'[p].conn = NewNumber
        /\ thread'[p].sock = thread[p].sock /\ thread'[p].fd = thread[p].fd
    BY <1>1, <1>2 DEF Typed, Threads
  <1>6. ConnectionsFit'
    BY <1>1, <1>3, <1>4, <1>5, FileKinds DEF ConnectionsFit, Accept
  <1>. QED BY <1>1, <1>3, <1>4, <1>6, FileKinds, QuietStep DEF Accept

\* The dispatcher sends and closes its connection: no other thread has it.
LEMMA SendStep ==
  ASSUME BrokerInv, [Next]_vars, NEW p \in Pools, Send(p)
  PROVE  BrokerInv'
  <1>1. Typed' /\ Typed /\ ConnectionsFit
    BY TypeStep, InvFacts
  <1>2. PICK c \in Clients : thread[p].conn \in Numbers /\ fds[thread[p].conn] = Connection(c)
    BY <1>1 DEF ConnectionsFit, Send
  <1>3. /\ fds'[thread[p].conn] = Closed
        /\ \A n \in Numbers \ {thread[p].conn} : fds'[n] = fds[n]
    BY <1>1, <1>2 DEF Typed, Send, HangUp, Close
  <1>4. /\ \A q \in Pools \ {p} : thread'[q] = thread[q]
        /\ thread'[p].pc = "serve"
    BY <1>1 DEF Typed, Threads, Send
  <1>5. ConnectionsFit'
    BY <1>1, <1>2, <1>3, <1>4 DEF ConnectionsFit, Send
  <1>. QED BY <1>1, <1>2, <1>3, <1>5, FileKinds, QuietStep DEF Send

\* Another thread opens or closes a file of its own: it takes a number that was
\* free, and gives back only its own.
LEMMA OtherFileStep ==
  ASSUME BrokerInv, [Next]_vars, NEW o \in Others, OpenOther(o) \/ CloseOther(o)
  PROVE  /\ BrokerInv'
         /\ \A n \in Numbers :
              \/ fds'[n] = fds[n]
              \/ fds[n] = Closed /\ fds'[n] = OtherFile(o)
              \/ fds[n] = OtherFile(o) /\ fds'[n] = Closed
  <1>1. Typed' /\ Typed /\ ConnectionsFit
    BY TypeStep, InvFacts
  <1>2. UNCHANGED <<native, path, registered, sockets, owner, thread>>
    BY DEF OpenOther, CloseOther
  <1>3. \A n \in Numbers :
          \/ fds'[n] = fds[n]
          \/ fds[n] = Closed /\ fds'[n] = OtherFile(o)
          \/ fds[n] = OtherFile(o) /\ fds'[n] = Closed
    <2>1. CASE OpenOther(o)
      <3>1. NewNumber \in Numbers /\ fds[NewNumber] = Closed
        BY <2>1, LowestNumber DEF OpenOther
      <3>. QED BY <1>1, <2>1, <3>1 DEF OpenOther, Open, Typed
    <2>2. CASE CloseOther(o)
      BY <1>1, <2>2 DEF CloseOther, Close, Typed
    <2>. QED BY <2>1, <2>2
  <1>4. ConnectionsFit'
    BY <1>1, <1>2, <1>3, FileKinds, ConnectionsKept
  <1>5. \A n \in Numbers, b \in Blocks :
          /\ fds'[n] = MemFd(b) <=> fds[n] = MemFd(b)
          /\ fds'[n] = Listener(b) <=> fds[n] = Listener(b)
    BY <1>3, FileKinds
  <1>. QED BY <1>1, <1>2, <1>3, <1>4, <1>5, QuietStep

\* A step of pool p does not disturb the others.
LEMMA OtherPools ==
  ASSUME BrokerInv, NEW p \in Pools,
         \A q \in Pools \ {p} : owner'[q] = owner[q] /\ sockets'[q] = sockets[q],
         \A b \in Blocks \ BlocksOf(p) : registered'[b] = registered[b] /\ path'[b] = path[b]
  PROVE  /\ \A q \in Pools \ {p} : OwnerFits(owner[q], q)' /\ EntriesFit(q)'
         /\ \A b \in Blocks \ BlocksOf(p) : RegisteredFits(b)'
         /\ \A b \in Blocks \ BlocksOf(p), n \in Numbers :
              (HoldsSock(b, n)' <=> HoldsSock(b, n)) /\ (HoldsDup(b, n)' <=> HoldsDup(b, n))
  <1>1. \A b \in Blocks \ BlocksOf(p) : PoolOf[b] \in Pools \ {p}
    BY InvFacts DEF BlocksOf
  <1>2. \A q \in Pools \ {p} : \A b \in BlocksOf(q) : PoolOf[b] = q /\ b \in Blocks \ BlocksOf(p)
    BY DEF BlocksOf
  <1>3. \A q \in Pools \ {p} : BlocksOf(q)' = BlocksOf(q)
    BY DEF BlocksOf
  <1>4. ASSUME NEW q \in Pools \ {p} PROVE OwnerFits(owner[q], q)'
    BY <1>2, <1>3, InvFacts DEF OwnerFits
  <1>5. ASSUME NEW q \in Pools \ {p} PROVE EntriesFit(q)'
    BY <1>2, <1>3, InvFacts DEF EntriesFit, InHand
  <1>6. \A b \in Blocks \ BlocksOf(p) : RegisteredFits(b)'
    BY <1>1, InvFacts DEF RegisteredFits, InHand
  <1>7. \A b \in Blocks \ BlocksOf(p), n \in Numbers :
          (HoldsSock(b, n)' <=> HoldsSock(b, n)) /\ (HoldsDup(b, n)' <=> HoldsDup(b, n))
    BY <1>1 DEF HoldsSock, HoldsDup, InHand
  <1>. QED BY <1>4, <1>5, <1>6, <1>7

\* A block keeps its files in a step that changes no number of them and neither
\* gives it a number nor takes one from it.
LEMMA FilesKept ==
  ASSUME NEW b \in Blocks, FilesAreHeld(b), native'[b] = native[b],
         \A n \in Numbers : /\ fds'[n] = Listener(b) <=> fds[n] = Listener(b)
                            /\ fds'[n] = MemFd(b) <=> fds[n] = MemFd(b)
                            /\ HoldsSock(b, n)' <=> HoldsSock(b, n)
                            /\ HoldsDup(b, n)' <=> HoldsDup(b, n)
  PROVE  FilesAreHeld(b)'
  BY DEF FilesAreHeld

-----------------------------------------------------------------------------
(* Registration *)

\* create_platform_mapping: the pool has the new memfd and nobody else does.
LEMMA CreateBlockStep ==
  ASSUME BrokerInv, [Next]_vars, NEW b0 \in Blocks, CreateBlock(b0)
  PROVE  BrokerInv'
  <1>1. Typed' /\ Typed
    BY TypeStep, InvFacts
  <1>2. NewNumber \in Numbers /\ fds[NewNumber] = Closed
    BY LowestNumber DEF CreateBlock
  <1>3. /\ fds'[NewNumber] = MemFd(b0) /\ \A n \in Numbers \ {NewNumber} : fds'[n] = fds[n]
        /\ native'[b0] = NewNumber /\ \A b \in Blocks \ {b0} : native'[b] = native[b]
    BY <1>1, <1>2 DEF Typed, CreateBlock, Open
  <1>4. UNCHANGED <<path, registered, sockets, owner, thread>> /\ native[b0] = None
    BY DEF CreateBlock
  <1>5. \A b \in Blocks, n \in Numbers :
          (HoldsSock(b, n)' <=> HoldsSock(b, n)) /\ (HoldsDup(b, n)' <=> HoldsDup(b, n))
    BY <1>4 DEF HoldsSock, HoldsDup, InHand
  <1>6. ASSUME NEW b \in Blocks PROVE FilesAreHeld(b)'
    BY <1>2, <1>3, <1>4, <1>5, InvFacts, FileKinds, NoneIsNoNumber DEF FilesAreHeld
  <1>7. ConnectionsFit'
    BY <1>2, <1>3, <1>4, InvFacts, FileKinds, ConnectionsKept
  <1>8. \A b \in Blocks : RegisteredFits(b)'
    BY <1>4, InvFacts DEF RegisteredFits, InHand
  <1>9. \A p \in Pools : OwnerFits(owner[p], p)' /\ EntriesFit(p)'
    BY <1>4, InvFacts DEF OwnerFits, EntriesFit, InHand, BlocksOf
  <1>. QED BY <1>1, <1>6, <1>7, <1>8, <1>9, InvParts

\* create_fd_server_socket: the call has the listening socket.
LEMMA ListenForStep ==
  ASSUME BrokerInv, [Next]_vars, NEW b0 \in Blocks, ListenFor(b0)
  PROVE  BrokerInv'
  <1>. DEFINE p0 == PoolOf[b0]
  <1>1. Typed' /\ Typed /\ p0 \in Pools
    BY TypeStep, InvFacts
  <1>2. NewNumber \in Numbers /\ fds[NewNumber] = Closed
    BY LowestNumber DEF ListenFor
  <1>3. /\ fds'[NewNumber] = Listener(b0) /\ \A n \in Numbers \ {NewNumber} : fds'[n] = fds[n]
        /\ path'[b0] = TRUE /\ \A b \in Blocks \ {b0} : path'[b] = path[b]
        /\ owner'[p0] = [pc |-> "listening", block |-> b0, sock |-> NewNumber, dup |-> None]
        /\ \A p \in Pools \ {p0} : owner'[p] = owner[p]
    BY <1>1, <1>2 DEF Typed, ListenFor, Open
  <1>4. /\ UNCHANGED <<native, registered, sockets, thread>>
        /\ owner[p0].pc = "idle" /\ registered[b0] = None
    BY DEF ListenFor, NoOwner
  <1>5. \A b \in Blocks \ {b0}, S \in {Registering, Duplicated, Removing, {"unwatched"}} :
          InHand(b, S)' <=> InHand(b, S)
    BY <1>1, <1>3, <1>4, InvFacts DEF InHand, Registering, Duplicated, Removing
  <1>6. /\ InHand(b0, Registering)' /\ ~InHand(b0, Registering)
        /\ \A S \in {Duplicated, Removing, {"unwatched"}} : ~InHand(b0, S)' /\ ~InHand(b0, S)
    BY <1>1, <1>3, <1>4, InvFacts DEF InHand, Registering, Duplicated, Removing
  <1>7. \A b \in Blocks, n \in Numbers : HoldsDup(b, n)' <=> HoldsDup(b, n)
    <2>1. \A b \in Blocks, S \in {Duplicated, Removing} : InHand(b, S)' <=> InHand(b, S)
      BY <1>5, <1>6
    <2>2. \A b \in Blocks : InHand(b, Duplicated) => PoolOf[b] # p0
      BY <1>4 DEF InHand, Duplicated, Removing
    <2>. QED BY <1>1, <1>3, <1>4, <2>1, <2>2, InvFacts DEF HoldsDup
  <1>8. ASSUME NEW b \in Blocks PROVE FilesAreHeld(b)'
    <2>1. \A n \in Numbers : HoldsSock(b, n)' <=> IF b = b0 THEN n = NewNumber
                                                            ELSE HoldsSock(b, n)
      BY <1>1, <1>3, <1>4, <1>5, <1>6, InvFacts, NoneIsNoNumber DEF HoldsSock, InHand
    <2>2. \A n \in Numbers : ~HoldsSock(b0, n)
      BY <1>4, <1>6, NoneIsNoNumber DEF HoldsSock
    <2>. QED BY <1>2, <1>3, <1>4, <1>7, <2>1, <2>2, InvFacts, FileKinds DEF FilesAreHeld
  <1>9. ConnectionsFit'
    BY <1>2, <1>3, <1>4, InvFacts, FileKinds, ConnectionsKept
  <1>10. ASSUME NEW b \in Blocks PROVE RegisteredFits(b)'
    BY <1>3, <1>4, <1>5, <1>6, InvFacts DEF RegisteredFits
  <1>11. ASSUME NEW p \in Pools PROVE OwnerFits(owner[p], p)'
    BY <1>1, <1>2, <1>3, <1>4, InvFacts
       DEF OwnerFits, Registering, Removing, Duplicated, BlocksOf
  <1>12. ASSUME NEW p \in Pools PROVE EntriesFit(p)'
    <2>1. CASE p # p0
      <3>1. \A b \in Blocks \ BlocksOf(p0) : path'[b] = path[b]
        BY <1>3 DEF BlocksOf
      <3>. QED BY <1>1, <1>3, <1>4, <2>1, <3>1, OtherPools
    <2>2. CASE p = p0
      <3>1. owner'[p].pc = "listening" /\ owner[p].pc = "idle" /\ sockets'[p] = sockets[p]
        BY <1>3, <1>4, <2>2
      <3>2. \A b \in BlocksOf(p) : PoolOf[b] = p /\ registered'[b] = registered[b]
        BY <1>4, <2>2, InvFacts
      <3>3. EntriesFit(p)
        BY InvFacts
      <3>. QED BY <3>1, <3>2, <3>3 DEF EntriesFit, BlocksOf, InHand, Removing
    <2>. QED BY <2>1, <2>2
  <1>. QED BY <1>1, <1>8, <1>9, <1>10, <1>11, <1>12, InvParts

\* Inside register_block: the block is not registered, the call alone has the
\* listening socket, and the duplicate as long as there is one.
LEMMA Registration ==
  ASSUME BrokerInv, NEW p \in Pools, owner[p].pc \in Registering,
         NEW x, x = owner[p].block
  PROVE  /\ x \in BlocksOf(p) /\ x \in Blocks /\ PoolOf[x] = p /\ registered[x] = None
         /\ owner[p].sock \in Numbers /\ fds[owner[p].sock] = Listener(x) /\ path[x]
         /\ \A n \in Numbers : HoldsSock(x, n) <=> n = owner[p].sock
         /\ owner[p].pc \in Duplicated =>
              owner[p].dup \in Numbers /\ fds[owner[p].dup] = MemFd(x)
         /\ \A n \in Numbers :
              HoldsDup(x, n) <=> owner[p].pc \in Duplicated /\ n = owner[p].dup
         /\ \A b \in BlocksOf(p) \ {x} :
              b \in Blocks /\ PoolOf[b] = p /\ registered[b] # owner[p].sock
         /\ \A b \in BlocksOf(p) : ~InHand(b, Removing) /\ ~InHand(b, {"unwatched"})
  <1>1. x \in BlocksOf(p) /\ x \in Blocks /\ PoolOf[x] = p /\ registered[x] = None
        /\ owner[p].sock \in Numbers /\ (owner[p].pc \in Duplicated => owner[p].dup \in Numbers)
    BY InvFacts DEF OwnerFits
  <1>2. \A b \in BlocksOf(p) : ~InHand(b, Removing) /\ ~InHand(b, {"unwatched"})
    BY InvFacts DEF InHand, Registering, Removing
  <1>3. InHand(x, Registering) /\ (InHand(x, Duplicated) <=> owner[p].pc \in Duplicated)
    BY <1>1 DEF InHand
  <1>4. \A n \in Numbers : HoldsSock(x, n) <=> n = owner[p].sock
    BY <1>1, <1>3, NoneIsNoNumber DEF HoldsSock
  <1>5. \A n \in Numbers : HoldsDup(x, n) <=> owner[p].pc \in Duplicated /\ n = owner[p].dup
    BY <1>1, <1>3, InvFacts, NoneIsNoNumber DEF HoldsDup, Typed
  <1>6. FilesAreHeld(x) /\ \A b \in BlocksOf(p) : b \in Blocks /\ PoolOf[b] = p
    BY <1>1, InvFacts
  <1>7. fds[owner[p].sock] = Listener(x)
        /\ (owner[p].pc \in Duplicated => fds[owner[p].dup] = MemFd(x))
    BY <1>1, <1>4, <1>5, <1>6 DEF FilesAreHeld
  <1>8. path[x]
    BY <1>1, <1>3, InvFacts DEF RegisteredFits
  <1>9. ASSUME NEW b \in BlocksOf(p) \ {x} PROVE registered[b] # owner[p].sock
    <2>1. FilesAreHeld(b)
      BY InvFacts
    <2>2. registered[b] = owner[p].sock => HoldsSock(b, owner[p].sock)
      BY <1>2 DEF HoldsSock
    <2>3. HoldsSock(b, owner[p].sock) => fds[owner[p].sock] = Listener(b)
      BY <1>1, <2>1 DEF FilesAreHeld
    <2>. QED BY <1>7, <2>2, <2>3, FileKinds
  <1>. QED BY <1>1, <1>2, <1>4, <1>5, <1>6, <1>7, <1>8, <1>9

\* add_socket duplicates the descriptor: the call has the new number.
LEMMA DuplicateStep ==
  ASSUME BrokerInv, [Next]_vars, NEW p \in Pools, Duplicate(p)
  PROVE  BrokerInv'
  <1>0. PICK x : x = owner[p].block
    OBVIOUS
  <1>1. Typed' /\ Typed
    BY TypeStep, InvFacts
  <1>2. NewNumber \in Numbers /\ fds[NewNumber] = Closed
    BY LowestNumber DEF Duplicate
  <1>3. owner[p].pc \in Registering /\ owner[p].pc \notin Duplicated /\ owner[p] \in Owners
    BY <1>1 DEF Duplicate, Registering, Duplicated, Removing, Typed
  <1>4. /\ fds'[NewNumber] = MemFd(x) /\ \A n \in Numbers \ {NewNumber} : fds'[n] = fds[n]
        /\ owner'[p].pc = "duplicated" /\ owner'[p].block = x
        /\ owner'[p].sock = owner[p].sock /\ owner'[p].dup = NewNumber
        /\ \A q \in Pools \ {p} : owner'[q] = owner[q]
    BY <1>0, <1>1, <1>2, <1>3 DEF Typed, Duplicate, Open, Owners
  <1>5. UNCHANGED <<native, path, registered, sockets, thread>> /\ owner[p].pc = "listening"
    BY DEF Duplicate
  <1>6. /\ \A q \in Pools \ {p} : OwnerFits(owner[q], q)' /\ EntriesFit(q)'
        /\ \A b \in Blocks \ BlocksOf(p) : RegisteredFits(b)'
        /\ \A b \in Blocks \ BlocksOf(p), n \in Numbers :
             (HoldsSock(b, n)' <=> HoldsSock(b, n)) /\ (HoldsDup(b, n)' <=> HoldsDup(b, n))
    BY <1>4, <1>5, OtherPools
  <1>7. \A b \in BlocksOf(p) \ {x}, n \in Numbers :
          (HoldsSock(b, n)' <=> HoldsSock(b, n)) /\ (HoldsDup(b, n)' <=> HoldsDup(b, n))
    BY <1>0, <1>3, <1>4, <1>5, Registration DEF HoldsSock, HoldsDup, InHand
  <1>8. ASSUME NEW b \in Blocks PROVE FilesAreHeld(b)'
    <2>1. CASE b # x
      BY <1>2, <1>4, <1>5, <1>6, <1>7, <2>1, InvFacts, FileKinds, FilesKept
    <2>2. CASE b = x
      <3>1. \A n \in Numbers : (HoldsSock(x, n)' <=> n = owner[p].sock)
                               /\ (HoldsDup(x, n)' <=> n = NewNumber)
        BY <1>0, <1>1, <1>3, <1>4, <1>5, Registration, NoneIsNoNumber
           DEF HoldsSock, HoldsDup, InHand, Registering, Duplicated, Removing, Typed
      <3>. QED BY <1>0, <1>2, <1>3, <1>4, <1>5, <2>2, <3>1, InvFacts, Registration, FileKinds
               DEF FilesAreHeld
    <2>. QED BY <2>1, <2>2
  <1>9. ConnectionsFit'
    BY <1>2, <1>4, <1>5, InvFacts, FileKinds, ConnectionsKept
  <1>10. ASSUME NEW b \in BlocksOf(p) PROVE RegisteredFits(b)'
    BY <1>0, <1>3, <1>4, <1>5, InvFacts, Registration
       DEF RegisteredFits, InHand, Registering, Removing
  <1>11. OwnerFits(owner[p], p)'
    BY <1>0, <1>2, <1>3, <1>4, <1>5, Registration
       DEF OwnerFits, Registering, Removing, Duplicated, BlocksOf
  <1>12. EntriesFit(p)'
    <2>1. EntriesFit(p) /\ \A b \in BlocksOf(p) : PoolOf[b] = p
      BY InvFacts
    <2>. QED BY <1>4, <1>5, <2>1 DEF EntriesFit, InHand, Removing, BlocksOf
  <1>. QED BY <1>1, <1>6, <1>8, <1>9, <1>10, <1>11, <1>12, InvParts

\* The entry of the map is that of the block being registered.
LEMMA EnterSocketStep ==
  ASSUME BrokerInv, [Next]_vars, NEW p \in Pools, EnterSocket(p)
  PROVE  BrokerInv'
  <1>. DEFINE entry == <<owner[p].sock, owner[p].dup>>
  <1>0. PICK x : x = owner[p].block
    OBVIOUS
  <1>1. Typed' /\ Typed
    BY TypeStep, InvFacts
  <1>2. owner[p].pc \in Registering /\ owner[p].pc \in Duplicated /\ owner[p] \in Owners
    BY <1>1 DEF EnterSocket, Registering, Duplicated, Removing, Typed
  <1>3. /\ sockets'[p] = sockets[p] \cup {entry}
        /\ owner'[p].pc = "entered" /\ owner'[p].block = x
        /\ owner'[p].sock = owner[p].sock /\ owner'[p].dup = owner[p].dup
        /\ \A q \in Pools \ {p} : owner'[q] = owner[q] /\ sockets'[q] = sockets[q]
    BY <1>0, <1>1, <1>2 DEF Typed, EnterSocket, To, Owners
  <1>4. UNCHANGED <<fds, native, path, registered, thread>> /\ owner[p].pc = "duplicated"
    BY DEF EnterSocket
  <1>5. /\ \A q \in Pools \ {p} : OwnerFits(owner[q], q)' /\ EntriesFit(q)'
        /\ \A b \in Blocks \ BlocksOf(p) : RegisteredFits(b)'
        /\ \A b \in Blocks \ BlocksOf(p), n \in Numbers :
             (HoldsSock(b, n)' <=> HoldsSock(b, n)) /\ (HoldsDup(b, n)' <=> HoldsDup(b, n))
    BY <1>3, <1>4, OtherPools
  <1>6. \A b \in BlocksOf(p) \ {x}, n \in Numbers :
          (HoldsSock(b, n)' <=> HoldsSock(b, n)) /\ (HoldsDup(b, n)' <=> HoldsDup(b, n))
    BY <1>0, <1>2, <1>3, <1>4, Registration DEF HoldsSock, HoldsDup, InHand
  <1>7. \A n \in Numbers : (HoldsSock(x, n)' <=> HoldsSock(x, n))
                           /\ (HoldsDup(x, n)' <=> HoldsDup(x, n))
    <2>1. x \in BlocksOf(p) /\ PoolOf[x] = p /\ registered[x] = None
          /\ owner[p].sock \in Numbers
      BY <1>0, <1>2, Registration
    <2>. QED BY <1>0, <1>1, <1>3, <1>4, <2>1, NoneIsNoNumber
             DEF HoldsSock, HoldsDup, InHand, Registering, Duplicated, Removing, Typed
  <1>8. ASSUME NEW b \in Blocks PROVE FilesAreHeld(b)'
    <2>1. \A n \in Numbers : (HoldsSock(b, n)' <=> HoldsSock(b, n))
                             /\ (HoldsDup(b, n)' <=> HoldsDup(b, n))
      BY <1>5, <1>6, <1>7
    <2>2. FilesAreHeld(b)
      BY InvFacts
    <2>. QED BY <1>4, <2>1, <2>2, FilesKept
  <1>9. ConnectionsFit'
    BY <1>4, InvFacts, ConnectionsKept
  <1>10. ASSUME NEW b \in BlocksOf(p) PROVE RegisteredFits(b)'
    <2>1. b \in Blocks /\ PoolOf[b] = p /\ RegisteredFits(b)
      BY InvFacts
    <2>. QED BY <1>0, <1>3, <1>4, <2>1 DEF RegisteredFits, InHand, Registering, Removing
  <1>11. OwnerFits(owner[p], p)'
    <2>1. OwnerFits(owner[p], p)
      BY InvFacts
    <2>. QED BY <1>0, <1>2, <1>3, <1>4, <2>1
             DEF OwnerFits, Registering, Removing, Duplicated, BlocksOf
  <1>12. EntriesFit(p)'
    <2>1. EntriesFit(p) /\ \A b \in BlocksOf(p) : PoolOf[b] = p
      BY InvFacts
    <2>. QED BY <1>3, <1>4, <2>1 DEF EntriesFit, InHand, Removing, BlocksOf
  <1>. QED BY <1>1, <1>5, <1>8, <1>9, <1>10, <1>11, <1>12, InvParts

\* The block is registered: what the call had is the block's.
LEMMA WatchStep ==
  ASSUME BrokerInv, [Next]_vars, NEW p \in Pools, Watch(p)
  PROVE  BrokerInv'
  <1>. DEFINE entry == <<owner[p].sock, owner[p].dup>>
  <1>0. PICK x : x = owner[p].block
    OBVIOUS
  <1>1. Typed' /\ Typed
    BY TypeStep, InvFacts
  <1>2. owner[p].pc \in Registering /\ owner[p].pc \in Duplicated
    BY DEF Watch, Registering, Duplicated
  <1>3. x \in BlocksOf(p) /\ x \in Blocks /\ PoolOf[x] = p /\ registered[x] = None
        /\ owner[p].sock \in Numbers /\ owner[p].dup \in Numbers /\ path[x]
    BY <1>0, <1>2, Registration
  <1>4. /\ registered'[x] = owner[p].sock /\ \A b \in Blocks \ {x} : registered'[b] = registered[b]
        /\ owner'[p].pc = "idle" /\ owner'[p] = NoOwner
        /\ \A q \in Pools \ {p} : owner'[q] = owner[q]
    BY <1>0, <1>1, <1>3 DEF Typed, Watch, NoOwner
  <1>5. UNCHANGED <<fds, native, path, sockets, thread>> /\ owner[p].pc = "entered"
    BY DEF Watch
  <1>6. /\ \A q \in Pools \ {p} : OwnerFits(owner[q], q)' /\ EntriesFit(q)'
        /\ \A b \in Blocks \ BlocksOf(p) : RegisteredFits(b)'
        /\ \A b \in Blocks \ BlocksOf(p), n \in Numbers :
             (HoldsSock(b, n)' <=> HoldsSock(b, n)) /\ (HoldsDup(b, n)' <=> HoldsDup(b, n))
    <2>1. \A b \in Blocks \ BlocksOf(p) : registered'[b] = registered[b]
      BY <1>3, <1>4
    <2>. QED BY <1>4, <1>5, <2>1, OtherPools
  <1>7. \A b \in BlocksOf(p) \ {x}, n \in Numbers :
          (HoldsSock(b, n)' <=> HoldsSock(b, n)) /\ (HoldsDup(b, n)' <=> HoldsDup(b, n))
    BY <1>0, <1>2, <1>4, <1>5, Registration
       DEF HoldsSock, HoldsDup, InHand, Registering, Duplicated, Removing
  <1>8. /\ entry \in sockets[p]
        /\ \A n \in Numbers : <<owner[p].sock, n>> \in sockets[p] => n = owner[p].dup
    <2>1. EntriesFit(p)
      BY InvFacts
    <2>2. \A b \in BlocksOf(p) : registered[b] # owner[p].sock
      BY <1>0, <1>2, <1>3, NoneIsNoNumber, Registration
    <2>. QED BY <1>5, <2>1, <2>2 DEF EntriesFit
  <1>9. \A n \in Numbers : (HoldsSock(x, n)' <=> HoldsSock(x, n))
                           /\ (HoldsDup(x, n)' <=> HoldsDup(x, n))
    <2>1. \A n \in Numbers : (HoldsSock(x, n) <=> n = owner[p].sock)
                             /\ (HoldsDup(x, n) <=> n = owner[p].dup)
      BY <1>0, <1>2, Registration
    <2>2. \A n \in Numbers : HoldsSock(x, n)' <=> n = owner[p].sock
      BY <1>3, <1>4 DEF HoldsSock, InHand, Registering
    <2>3. \A n \in Numbers : HoldsDup(x, n)' <=> n = owner[p].dup
      BY <1>3, <1>4, <1>5, <1>8 DEF HoldsDup, InHand, Duplicated, Removing
    <2>. QED BY <2>1, <2>2, <2>3
  <1>10. ASSUME NEW b \in Blocks PROVE FilesAreHeld(b)'
    <2>1. \A n \in Numbers : (HoldsSock(b, n)' <=> HoldsSock(b, n))
                             /\ (HoldsDup(b, n)' <=> HoldsDup(b, n))
      BY <1>6, <1>7, <1>9
    <2>2. FilesAreHeld(b)
      BY InvFacts
    <2>. QED BY <1>5, <2>1, <2>2, FilesKept
  <1>11. ConnectionsFit'
    BY <1>5, InvFacts, ConnectionsKept
  <1>12. ASSUME NEW b \in BlocksOf(p) PROVE RegisteredFits(b)'
    <2>1. b \in Blocks /\ PoolOf[b] = p /\ RegisteredFits(b)
      BY InvFacts
    <2>. QED BY <1>0, <1>3, <1>4, <1>5, <1>8, <2>1, NoneIsNoNumber
             DEF RegisteredFits, InHand, Registering, Removing
  <1>13. OwnerFits(owner[p], p)'
    BY <1>0, <1>4 DEF OwnerFits, Registering, Removing, Duplicated, BlocksOf
  <1>14. EntriesFit(p)'
    <2>1. EntriesFit(p) /\ \A b \in BlocksOf(p) : PoolOf[b] = p
      BY InvFacts
    <2>2. \A e \in sockets[p] : e \in Numbers \X Numbers
      BY <1>1 DEF Typed
    <2>. QED BY <1>3, <1>4, <1>5, <2>1, <2>2, InvFacts, NoneIsNoNumber
             DEF EntriesFit, InHand, Removing, BlocksOf
  <1>. QED BY <1>1, <1>6, <1>10, <1>11, <1>12, <1>13, <1>14, InvParts

\* epoll_ctl failed: the entry goes and the duplicate is closed.
LEMMA WatchFailsStep ==
  ASSUME BrokerInv, [Next]_vars, NEW p \in Pools, WatchFails(p)
  PROVE  BrokerInv'
  <1>. DEFINE entry == <<owner[p].sock, owner[p].dup>>
  <1>0. PICK x : x = owner[p].block
    OBVIOUS
  <1>1. Typed' /\ Typed
    BY TypeStep, InvFacts
  <1>2. owner[p].pc \in Registering /\ owner[p].pc \in Duplicated /\ owner[p] \in Owners
    BY <1>1 DEF WatchFails, Registering, Duplicated, Typed
  <1>3. x \in BlocksOf(p) /\ x \in Blocks /\ PoolOf[x] = p /\ registered[x] = None
        /\ owner[p].sock \in Numbers /\ owner[p].dup \in Numbers
        /\ fds[owner[p].dup] = MemFd(x)
    BY <1>0, <1>2, Registration
  <1>4. /\ sockets'[p] = sockets[p] \ {entry}
        /\ fds'[owner[p].dup] = Closed
        /\ \A n \in Numbers \ {owner[p].dup} : fds'[n] = fds[n]
        /\ owner'[p].pc = "failed" /\ owner'[p].block = x /\ owner'[p].sock = owner[p].sock
        /\ \A q \in Pools \ {p} : owner'[q] = owner[q] /\ sockets'[q] = sockets[q]
    BY <1>0, <1>1, <1>2, <1>3 DEF Typed, WatchFails, To, Close, Owners
  <1>5. UNCHANGED <<native, path, registered, thread>> /\ owner[p].pc = "entered"
    BY DEF WatchFails
  <1>6. /\ \A q \in Pools \ {p} : OwnerFits(owner[q], q)' /\ EntriesFit(q)'
        /\ \A b \in Blocks \ BlocksOf(p) : RegisteredFits(b)'
        /\ \A b \in Blocks \ BlocksOf(p), n \in Numbers :
             (HoldsSock(b, n)' <=> HoldsSock(b, n)) /\ (HoldsDup(b, n)' <=> HoldsDup(b, n))
    BY <1>4, <1>5, OtherPools
  <1>7. \A b \in BlocksOf(p) \ {x}, n \in Numbers :
          (HoldsSock(b, n)' <=> HoldsSock(b, n)) /\ (HoldsDup(b, n)' <=> HoldsDup(b, n))
    BY <1>0, <1>2, <1>4, <1>5, Registration DEF HoldsSock, HoldsDup, InHand
  <1>8. ASSUME NEW b \in Blocks PROVE FilesAreHeld(b)'
    <2>1. CASE b # x
      <3>1. \A n \in Numbers : (HoldsSock(b, n)' <=> HoldsSock(b, n))
                               /\ (HoldsDup(b, n)' <=> HoldsDup(b, n))
        BY <1>6, <1>7, <2>1
      <3>2. FilesAreHeld(b)
        BY InvFacts
      <3>. QED BY <1>3, <1>4, <1>5, <2>1, <3>1, <3>2, FileKinds, FilesKept
    <2>2. CASE b = x
      <3>1. \A n \in Numbers : HoldsSock(x, n)' <=> n = owner[p].sock
        BY <1>3, <1>4, <1>5, NoneIsNoNumber DEF HoldsSock, InHand, Registering
      <3>2. \A n \in Numbers : ~HoldsDup(x, n)'
        BY <1>0, <1>1, <1>3, <1>4, <1>5, NoneIsNoNumber
           DEF HoldsDup, InHand, Duplicated, Removing, Typed
      <3>3. FilesAreHeld(x) /\ \A n \in Numbers : (HoldsSock(x, n) <=> n = owner[p].sock)
                                                  /\ (HoldsDup(x, n) <=> n = owner[p].dup)
        BY <1>0, <1>2, <1>3, InvFacts, Registration
      <3>. QED BY <1>3, <1>4, <1>5, <2>2, <3>1, <3>2, <3>3, FileKinds DEF FilesAreHeld
    <2>. QED BY <2>1, <2>2
  <1>9. ConnectionsFit'
    BY <1>3, <1>4, <1>5, InvFacts, FileKinds, ConnectionsKept
  <1>10. ASSUME NEW b \in BlocksOf(p) PROVE RegisteredFits(b)'
    <2>1. b \in Blocks /\ PoolOf[b] = p /\ RegisteredFits(b)
          /\ (b # x => registered[b] # owner[p].sock)
      BY <1>0, <1>2, InvFacts, Registration
    <2>. QED BY <1>0, <1>3, <1>4, <1>5, <2>1 DEF RegisteredFits, InHand, Registering, Removing
  <1>11. OwnerFits(owner[p], p)'
    BY <1>0, <1>3, <1>4, <1>5 DEF OwnerFits, Registering, Removing, Duplicated, BlocksOf
  <1>12. EntriesFit(p)'
    <2>1. EntriesFit(p) /\ \A b \in BlocksOf(p) : PoolOf[b] = p
      BY InvFacts
    <2>. QED BY <1>4, <1>5, <2>1 DEF EntriesFit, InHand, Removing, BlocksOf
  <1>. QED BY <1>1, <1>6, <1>8, <1>9, <1>10, <1>11, <1>12, InvParts

\* dup() failed, or the dispatcher is not running: the call has its socket still.
LEMMA DuplicateFailsStep ==
  ASSUME BrokerInv, [Next]_vars, NEW p \in Pools, DuplicateFails(p)
  PROVE  BrokerInv'
  <1>0. PICK x : x = owner[p].block
    OBVIOUS
  <1>1. Typed' /\ Typed
    BY TypeStep, InvFacts
  <1>2. owner[p].pc \in Registering /\ owner[p] \in Owners /\ owner[p].pc = "listening"
    BY <1>1 DEF DuplicateFails, Registering, Typed
  <1>3. /\ owner'[p].pc = "failed" /\ owner'[p].block = x /\ owner'[p].sock = owner[p].sock
        /\ \A q \in Pools \ {p} : owner'[q] = owner[q]
    BY <1>0, <1>1, <1>2 DEF Typed, DuplicateFails, To, Owners
  <1>4. UNCHANGED <<fds, native, path, registered, sockets, thread>>
    BY DEF DuplicateFails
  <1>5. /\ \A q \in Pools \ {p} : OwnerFits(owner[q], q)' /\ EntriesFit(q)'
        /\ \A b \in Blocks \ BlocksOf(p) : RegisteredFits(b)'
        /\ \A b \in Blocks \ BlocksOf(p), n \in Numbers :
             (HoldsSock(b, n)' <=> HoldsSock(b, n)) /\ (HoldsDup(b, n)' <=> HoldsDup(b, n))
    BY <1>3, <1>4, OtherPools
  <1>6. \A b \in BlocksOf(p), n \in Numbers :
          (HoldsSock(b, n)' <=> HoldsSock(b, n)) /\ (HoldsDup(b, n)' <=> HoldsDup(b, n))
    <2>1. \A b \in BlocksOf(p) : PoolOf[b] = p
      BY InvFacts
    <2>. QED BY <1>0, <1>2, <1>3, <1>4, <2>1
             DEF HoldsSock, HoldsDup, InHand, Registering, Removing, Duplicated
  <1>7. ASSUME NEW b \in Blocks PROVE FilesAreHeld(b)'
    <2>1. \A n \in Numbers : (HoldsSock(b, n)' <=> HoldsSock(b, n))
                             /\ (HoldsDup(b, n)' <=> HoldsDup(b, n))
      BY <1>5, <1>6
    <2>2. FilesAreHeld(b)
      BY InvFacts
    <2>. QED BY <1>4, <2>1, <2>2, FilesKept
  <1>8. ConnectionsFit'
    BY <1>4, InvFacts, ConnectionsKept
  <1>9. ASSUME NEW b \in BlocksOf(p) PROVE RegisteredFits(b)'
    <2>1. b \in Blocks /\ PoolOf[b] = p /\ RegisteredFits(b)
      BY InvFacts
    <2>. QED BY <1>0, <1>2, <1>3, <1>4, <2>1 DEF RegisteredFits, InHand, Registering, Removing
  <1>10. OwnerFits(owner[p], p)'
    <2>1. OwnerFits(owner[p], p)
      BY InvFacts
    <2>. QED BY <1>0, <1>2, <1>3, <1>4, <2>1
             DEF OwnerFits, Registering, Removing, Duplicated, BlocksOf
  <1>11. EntriesFit(p)'
    <2>1. EntriesFit(p) /\ \A b \in BlocksOf(p) : PoolOf[b] = p
      BY InvFacts
    <2>. QED BY <1>2, <1>3, <1>4, <2>1 DEF EntriesFit, InHand, Removing, BlocksOf
  <1>. QED BY <1>1, <1>5, <1>7, <1>8, <1>9, <1>10, <1>11, InvParts

\* register_block gives up: socket and path go.
LEMMA RegisterFailsStep ==
  ASSUME BrokerInv, [Next]_vars, NEW p \in Pools, RegisterFails(p)
  PROVE  BrokerInv'
  <1>0. PICK x : x = owner[p].block
    OBVIOUS
  <1>1. Typed' /\ Typed
    BY TypeStep, InvFacts
  <1>2. owner[p].pc \in Registering /\ owner[p].pc = "failed" /\ owner[p].pc \notin Duplicated
    BY DEF RegisterFails, Registering, Duplicated, Removing
  <1>3. x \in BlocksOf(p) /\ x \in Blocks /\ PoolOf[x] = p /\ registered[x] = None
        /\ owner[p].sock \in Numbers /\ fds[owner[p].sock] = Listener(x)
    BY <1>0, <1>2, Registration
  <1>4. /\ fds'[owner[p].sock] = Closed
        /\ \A n \in Numbers \ {owner[p].sock} : fds'[n] = fds[n]
        /\ ~path'[x] /\ \A b \in Blocks \ {x} : path'[b] = path[b]
        /\ owner'[p].pc = "idle" /\ owner'[p] = NoOwner
        /\ \A q \in Pools \ {p} : owner'[q] = owner[q]
    BY <1>0, <1>1, <1>3 DEF Typed, RegisterFails, Close, NoOwner
  <1>5. UNCHANGED <<native, registered, sockets, thread>>
    BY DEF RegisterFails
  <1>6. /\ \A q \in Pools \ {p} : OwnerFits(owner[q], q)' /\ EntriesFit(q)'
        /\ \A b \in Blocks \ BlocksOf(p) : RegisteredFits(b)'
        /\ \A b \in Blocks \ BlocksOf(p), n \in Numbers :
             (HoldsSock(b, n)' <=> HoldsSock(b, n)) /\ (HoldsDup(b, n)' <=> HoldsDup(b, n))
    <2>1. \A b \in Blocks \ BlocksOf(p) : path'[b] = path[b]
      BY <1>3, <1>4
    <2>. QED BY <1>4, <1>5, <2>1, OtherPools
  <1>7. \A b \in BlocksOf(p) \ {x}, n \in Numbers :
          (HoldsSock(b, n)' <=> HoldsSock(b, n)) /\ (HoldsDup(b, n)' <=> HoldsDup(b, n))
    BY <1>0, <1>2, <1>4, <1>5, Registration
       DEF HoldsSock, HoldsDup, InHand, Registering, Duplicated, Removing
  <1>8. ASSUME NEW b \in Blocks PROVE FilesAreHeld(b)'
    <2>1. CASE b # x
      <3>1. \A n \in Numbers : (HoldsSock(b, n)' <=> HoldsSock(b, n))
                               /\ (HoldsDup(b, n)' <=> HoldsDup(b, n))
        BY <1>6, <1>7, <2>1
      <3>2. FilesAreHeld(b)
        BY InvFacts
      <3>. QED BY <1>3, <1>4, <1>5, <2>1, <3>1, <3>2, FileKinds, FilesKept
    <2>2. CASE b = x
      <3>1. \A n \in Numbers : ~HoldsSock(x, n)'
        BY <1>3, <1>4, <1>5, NoneIsNoNumber DEF HoldsSock, InHand, Registering
      <3>2. \A n \in Numbers : ~HoldsDup(x, n)'
        BY <1>0, <1>1, <1>3, <1>4, <1>5, NoneIsNoNumber
           DEF HoldsDup, InHand, Duplicated, Removing, Typed
      <3>3. FilesAreHeld(x) /\ \A n \in Numbers : (HoldsSock(x, n) <=> n = owner[p].sock)
                                                  /\ ~HoldsDup(x, n)
        BY <1>0, <1>2, <1>3, InvFacts, Registration
      <3>. QED BY <1>3, <1>4, <1>5, <2>2, <3>1, <3>2, <3>3, FileKinds DEF FilesAreHeld
    <2>. QED BY <2>1, <2>2
  <1>9. ConnectionsFit'
    BY <1>3, <1>4, <1>5, InvFacts, FileKinds, ConnectionsKept
  <1>10. ASSUME NEW b \in BlocksOf(p) PROVE RegisteredFits(b)'
    <2>1. b \in Blocks /\ PoolOf[b] = p /\ RegisteredFits(b)
      BY InvFacts
    <2>. QED BY <1>0, <1>2, <1>3, <1>4, <1>5, <2>1
             DEF RegisteredFits, InHand, Registering, Removing
  <1>11. OwnerFits(owner[p], p)'
    BY <1>0, <1>4 DEF OwnerFits, Registering, Removing, Duplicated, BlocksOf
  <1>12. EntriesFit(p)'
    <2>1. EntriesFit(p) /\ \A b \in BlocksOf(p) : PoolOf[b] = p
      BY InvFacts
    <2>. QED BY <1>2, <1>4, <1>5, <2>1 DEF EntriesFit, InHand, Removing, BlocksOf
  <1>. QED BY <1>1, <1>6, <1>8, <1>9, <1>10, <1>11, <1>12, InvParts

-----------------------------------------------------------------------------
(* Destruction *)

\* A call that is about no block: it has no file in hand.
Aside == {"idle", "removing", "joining", "gone"}

\* The destructor begins, or stops the dispatcher.
LEMMA AsideStep ==
  ASSUME BrokerInv, Typed', NEW p \in Pools,
         UNCHANGED <<fds, native, path, registered, sockets, thread>>,
         owner[p].pc \in Aside, owner'[p].pc \in Aside \ {"idle"},
         \A q \in Pools \ {p} : owner'[q] = owner[q]
  PROVE  BrokerInv'
  <1>1. /\ \A q \in Pools \ {p} : OwnerFits(owner[q], q)' /\ EntriesFit(q)'
        /\ \A b \in Blocks \ BlocksOf(p) : RegisteredFits(b)'
        /\ \A b \in Blocks \ BlocksOf(p), n \in Numbers :
             (HoldsSock(b, n)' <=> HoldsSock(b, n)) /\ (HoldsDup(b, n)' <=> HoldsDup(b, n))
    BY OtherPools
  <1>2. \A b \in BlocksOf(p) : b \in Blocks /\ PoolOf[b] = p
    BY InvFacts
  <1>3. \A b \in BlocksOf(p), n \in Numbers :
          (HoldsSock(b, n)' <=> HoldsSock(b, n)) /\ (HoldsDup(b, n)' <=> HoldsDup(b, n))
    BY <1>2 DEF HoldsSock, HoldsDup, InHand, Registering, Removing, Duplicated, Aside
  <1>4. ASSUME NEW b \in Blocks PROVE FilesAreHeld(b)'
    <2>1. \A n \in Numbers : (HoldsSock(b, n)' <=> HoldsSock(b, n))
                             /\ (HoldsDup(b, n)' <=> HoldsDup(b, n))
      BY <1>1, <1>3
    <2>2. FilesAreHeld(b)
      BY InvFacts
    <2>. QED BY <2>1, <2>2, FilesKept
  <1>5. ConnectionsFit'
    BY InvFacts, ConnectionsKept
  <1>6. ASSUME NEW b \in BlocksOf(p) PROVE RegisteredFits(b)'
    <2>1. RegisteredFits(b)
      BY <1>2, InvFacts
    <2>. QED BY <1>2, <2>1 DEF RegisteredFits, InHand, Registering, Removing, Aside
  <1>7. OwnerFits(owner[p], p)'
    BY DEF OwnerFits, Registering, Removing, Duplicated, Aside
  <1>8. EntriesFit(p)'
    <2>1. EntriesFit(p)
      BY InvFacts
    <2>. QED BY <1>2, <2>1 DEF EntriesFit, InHand, Removing, BlocksOf, Aside
  <1>. QED BY <1>1, <1>4, <1>5, <1>6, <1>7, <1>8, InvParts

\* ~SharedBufferMemoryPool begins; stop() clears running_.
LEMMA BeginAndStopSteps ==
  ASSUME BrokerInv, [Next]_vars, NEW p \in Pools, BeginDestroy(p) \/ Stop(p)
  PROVE  BrokerInv'
  <1>1. Typed' /\ Typed
    BY TypeStep, InvFacts
  <1>2. owner[p] \in Owners
    BY <1>1 DEF Typed
  <1>3. UNCHANGED <<fds, native, path, registered, sockets, thread>>
    BY DEF BeginDestroy, Stop
  <1>4. /\ owner[p].pc \in Aside /\ owner'[p].pc \in Aside \ {"idle"}
        /\ \A q \in Pools \ {p} : owner'[q] = owner[q]
    BY <1>1, <1>2 DEF BeginDestroy, Stop, To, NoOwner, Typed, Owners, Aside
  <1>. QED BY <1>1, <1>3, <1>4, AsideStep

\* While a block is removed, its entry is gone and the call has its duplicate; the
\* listening socket is open until it is unwatched.
LEMMA Removal ==
  ASSUME BrokerInv, NEW p \in Pools, owner[p].pc \in Removing,
         NEW x, x = owner[p].block
  PROVE  /\ x \in BlocksOf(p) /\ x \in Blocks /\ PoolOf[x] = p
         /\ owner[p].sock \in Numbers /\ owner[p].dup \in Numbers
         /\ registered[x] = owner[p].sock
         /\ fds[owner[p].dup] = MemFd(x) /\ path[x]
         /\ \A n \in Numbers : HoldsDup(x, n) <=> n = owner[p].dup
         /\ owner[p].pc = "erased" => fds[owner[p].sock] = Listener(x)
         /\ \A n \in Numbers :
              HoldsSock(x, n) <=> owner[p].pc = "erased" /\ n = owner[p].sock
         /\ \A b \in BlocksOf(p) \ {x} : b \in Blocks /\ PoolOf[b] = p
  <1>1. /\ x \in BlocksOf(p) /\ x \in Blocks /\ PoolOf[x] = p
        /\ owner[p].sock \in Numbers /\ owner[p].dup \in Numbers
        /\ registered[x] = owner[p].sock
    BY InvFacts DEF OwnerFits, Duplicated
  <1>2. /\ InHand(x, Removing) /\ InHand(x, Duplicated) /\ ~InHand(x, Registering)
        /\ (InHand(x, {"unwatched"}) <=> owner[p].pc # "erased")
    BY <1>1 DEF InHand, Duplicated, Removing, Registering
  <1>3. \A n \in Numbers : HoldsDup(x, n) <=> n = owner[p].dup
    BY <1>1, <1>2 DEF HoldsDup
  <1>4. \A n \in Numbers : HoldsSock(x, n) <=> owner[p].pc = "erased" /\ n = owner[p].sock
    BY <1>1, <1>2 DEF HoldsSock
  <1>5. FilesAreHeld(x) /\ RegisteredFits(x) /\ \A b \in BlocksOf(p) : b \in Blocks /\ PoolOf[b] = p
    BY <1>1, InvFacts
  <1>6. fds[owner[p].dup] = MemFd(x) /\ (owner[p].pc = "erased" => fds[owner[p].sock] = Listener(x))
    BY <1>1, <1>3, <1>4, <1>5 DEF FilesAreHeld
  <1>7. path[x]
    BY <1>1, <1>5, NoneIsNoNumber DEF RegisteredFits
  <1>. QED BY <1>1, <1>3, <1>4, <1>5, <1>6, <1>7

\* remove_socket: the entry that leaves the map is the only one of its block.
LEMMA EraseSocketStep ==
  ASSUME BrokerInv, [Next]_vars, NEW p \in Pools, EraseSocket(p)
  PROVE  BrokerInv'
  <1>1. Typed' /\ Typed
    BY TypeStep, InvFacts
  <1>2. PICK x \in BlocksOf(p), entry \in sockets[p] :
          /\ registered[x] = entry[1]
          /\ sockets' = [sockets EXCEPT ![p] = @ \ {entry}]
          /\ owner' = [owner EXCEPT ![p] = [pc |-> "erased", block |-> x, sock |-> entry[1],
                                            dup |-> entry[2]]]
    BY DEF EraseSocket, WithoutEntry
  <1>3. UNCHANGED <<fds, native, path, registered, thread>> /\ owner[p].pc = "removing"
    BY DEF EraseSocket
  <1>4. /\ sockets'[p] = sockets[p] \ {entry}
        /\ owner'[p].pc = "erased" /\ owner'[p].block = x /\ owner'[p].sock = entry[1]
        /\ owner'[p].dup = entry[2]
        /\ \A q \in Pools \ {p} : owner'[q] = owner[q] /\ sockets'[q] = sockets[q]
    BY <1>1, <1>2 DEF Typed
  <1>5. /\ entry = <<entry[1], entry[2]>> /\ entry[1] \in Numbers /\ entry[2] \in Numbers
        /\ \A b \in BlocksOf(p) : b \in Blocks /\ PoolOf[b] = p
    BY <1>1, <1>2, InvFacts DEF Typed
  <1>6. /\ \A q \in Pools \ {p} : OwnerFits(owner[q], q)' /\ EntriesFit(q)'
        /\ \A b \in Blocks \ BlocksOf(p) : RegisteredFits(b)'
        /\ \A b \in Blocks \ BlocksOf(p), n \in Numbers :
             (HoldsSock(b, n)' <=> HoldsSock(b, n)) /\ (HoldsDup(b, n)' <=> HoldsDup(b, n))
    BY <1>3, <1>4, OtherPools
  <1>7. \A b \in BlocksOf(p) : ~InHand(b, Removing) /\ ~InHand(b, {"unwatched"})
                               /\ ~InHand(b, Registering) /\ ~InHand(b, Duplicated)
    BY <1>3, <1>5 DEF InHand, Removing, Registering, Duplicated
  <1>8. fds[entry[1]] = Listener(x) /\ \A b \in BlocksOf(p) \ {x} : registered[b] # entry[1]
    <2>1. \A b \in BlocksOf(p) : registered[b] = entry[1] => HoldsSock(b, entry[1])
      BY <1>7 DEF HoldsSock
    <2>2. \A b \in BlocksOf(p) : HoldsSock(b, entry[1]) => fds[entry[1]] = Listener(b)
      BY <1>5, InvFacts DEF FilesAreHeld
    <2>. QED BY <1>2, <2>1, <2>2, FileKinds
  <1>9. \A n \in Numbers : HoldsDup(x, n) <=> n = entry[2]
    <2>1. HoldsDup(x, entry[2])
      BY <1>2, <1>5, <1>7 DEF HoldsDup
    <2>2. FilesAreHeld(x)
      BY <1>5, InvFacts
    <2>. QED BY <1>5, <2>1, <2>2 DEF FilesAreHeld
  <1>10. \A n \in Numbers : <<entry[1], n>> \in sockets[p] => n = entry[2]
    BY <1>2, <1>5, <1>7, <1>9 DEF HoldsDup
  <1>11. \A b \in BlocksOf(p), n \in Numbers : HoldsSock(b, n)' <=> HoldsSock(b, n)
    BY <1>3, <1>4, <1>5, <1>7 DEF HoldsSock, InHand, Registering
  <1>12. \A b \in BlocksOf(p), n \in Numbers : HoldsDup(b, n)' <=> HoldsDup(b, n)
    <2>1. \A n \in Numbers : HoldsDup(x, n)' <=> n = entry[2]
      BY <1>4, <1>5 DEF HoldsDup, InHand, Removing, Duplicated
    <2>2. \A b \in BlocksOf(p) \ {x}, n \in Numbers : HoldsDup(b, n)' <=> HoldsDup(b, n)
      BY <1>3, <1>4, <1>5, <1>7, <1>8 DEF HoldsDup, InHand
    <2>. QED BY <1>9, <2>1, <2>2
  <1>13. ASSUME NEW b \in Blocks PROVE FilesAreHeld(b)'
    <2>1. \A n \in Numbers : (HoldsSock(b, n)' <=> HoldsSock(b, n))
                             /\ (HoldsDup(b, n)' <=> HoldsDup(b, n))
      BY <1>6, <1>11, <1>12
    <2>2. FilesAreHeld(b)
      BY InvFacts
    <2>. QED BY <1>3, <2>1, <2>2, FilesKept
  <1>14. ConnectionsFit'
    BY <1>3, InvFacts, ConnectionsKept
  <1>15. ASSUME NEW b \in BlocksOf(p) PROVE RegisteredFits(b)'
    <2>1. RegisteredFits(b)
      BY <1>5, InvFacts
    <2>2. ~InHand(b, Registering)' /\ ~InHand(b, Registering)
      BY <1>4, <1>5, <1>7 DEF InHand, Registering
    <2>3. b = x => InHand(b, Removing)'
      BY <1>4, <1>5 DEF InHand, Removing
    <2>. QED BY <1>3, <1>4, <1>5, <1>7, <1>8, <2>1, <2>2, <2>3 DEF RegisteredFits
  <1>16. OwnerFits(owner[p], p)'
    BY <1>2, <1>3, <1>4, <1>5 DEF OwnerFits, Registering, Removing, Duplicated, BlocksOf
  <1>17. EntriesFit(p)'
    <2>1. EntriesFit(p) /\ \A e \in sockets[p] : e = <<e[1], e[2]>> /\ e[2] \in Numbers
      BY <1>1, InvFacts DEF Typed
    <2>2. ASSUME NEW e \in sockets'[p]
          PROVE  \E b \in BlocksOf(p) : registered[b] = e[1] /\ b # x
      <3>1. PICK b \in BlocksOf(p) : registered[b] = e[1]
        BY <1>3, <1>4, <2>1 DEF EntriesFit
      <3>2. b # x
        BY <1>2, <1>4, <1>10, <2>1, <3>1
      <3>. QED BY <3>1, <3>2
    <2>. QED BY <1>3, <1>4, <1>5, <2>2 DEF EntriesFit, InHand, BlocksOf
  <1>. QED BY <1>1, <1>6, <1>13, <1>14, <1>15, <1>16, <1>17, InvParts

\* The listening socket is unwatched and closed.
LEMMA CloseSocketStep ==
  ASSUME BrokerInv, [Next]_vars, NEW p \in Pools, CloseSocket(p)
  PROVE  BrokerInv'
  <1>0. PICK x : x = owner[p].block
    OBVIOUS
  <1>1. Typed' /\ Typed
    BY TypeStep, InvFacts
  <1>2. owner[p].pc \in Removing /\ owner[p].pc = "erased" /\ owner[p] \in Owners
    BY <1>1 DEF CloseSocket, Removing, Typed
  <1>3. /\ x \in BlocksOf(p) /\ x \in Blocks /\ PoolOf[x] = p /\ registered[x] = owner[p].sock
        /\ owner[p].sock \in Numbers /\ owner[p].dup \in Numbers
        /\ fds[owner[p].sock] = Listener(x)
        /\ \A b \in BlocksOf(p) \ {x} : b \in Blocks /\ PoolOf[b] = p
    BY <1>0, <1>2, Removal
  <1>4. /\ fds'[owner[p].sock] = Closed
        /\ \A n \in Numbers \ {owner[p].sock} : fds'[n] = fds[n]
        /\ owner'[p].pc = "unwatched" /\ owner'[p].block = x /\ owner'[p].sock = owner[p].sock
        /\ owner'[p].dup = owner[p].dup
        /\ \A q \in Pools \ {p} : owner'[q] = owner[q]
    BY <1>0, <1>1, <1>2, <1>3 DEF Typed, CloseSocket, To, Close, Owners
  <1>5. UNCHANGED <<native, path, registered, sockets, thread>>
    BY DEF CloseSocket
  <1>6. /\ \A q \in Pools \ {p} : OwnerFits(owner[q], q)' /\ EntriesFit(q)'
        /\ \A b \in Blocks \ BlocksOf(p) : RegisteredFits(b)'
        /\ \A b \in Blocks \ BlocksOf(p), n \in Numbers :
             (HoldsSock(b, n)' <=> HoldsSock(b, n)) /\ (HoldsDup(b, n)' <=> HoldsDup(b, n))
    BY <1>4, <1>5, OtherPools
  <1>7. \A b \in BlocksOf(p) \ {x}, n \in Numbers :
          (HoldsSock(b, n)' <=> HoldsSock(b, n)) /\ (HoldsDup(b, n)' <=> HoldsDup(b, n))
    BY <1>0, <1>3, <1>4, <1>5 DEF HoldsSock, HoldsDup, InHand
  <1>8. ASSUME NEW b \in Blocks PROVE FilesAreHeld(b)'
    <2>1. CASE b # x
      <3>1. \A n \in Numbers : (HoldsSock(b, n)' <=> HoldsSock(b, n))
                               /\ (HoldsDup(b, n)' <=> HoldsDup(b, n))
        BY <1>6, <1>7, <2>1
      <3>2. FilesAreHeld(b)
        BY InvFacts
      <3>. QED BY <1>3, <1>4, <1>5, <2>1, <3>1, <3>2, FileKinds, FilesKept
    <2>2. CASE b = x
      <3>1. \A n \in Numbers : ~HoldsSock(x, n)'
        BY <1>3, <1>4 DEF HoldsSock, InHand, Registering
      <3>2. \A n \in Numbers : HoldsDup(x, n)' <=> n = owner[p].dup
        BY <1>3, <1>4 DEF HoldsDup, InHand, Duplicated, Removing
      <3>3. FilesAreHeld(x) /\ \A n \in Numbers : (HoldsSock(x, n) <=> n = owner[p].sock)
                                                  /\ (HoldsDup(x, n) <=> n = owner[p].dup)
        BY <1>0, <1>2, <1>3, InvFacts, Removal
      <3>. QED BY <1>3, <1>4, <1>5, <2>2, <3>1, <3>2, <3>3, FileKinds DEF FilesAreHeld
    <2>. QED BY <2>1, <2>2
  <1>9. ConnectionsFit'
    BY <1>3, <1>4, <1>5, InvFacts, FileKinds, ConnectionsKept
  <1>10. ASSUME NEW b \in BlocksOf(p) PROVE RegisteredFits(b)'
    <2>1. RegisteredFits(b)
      BY <1>3, InvFacts
    <2>. QED BY <1>0, <1>2, <1>3, <1>4, <1>5, <2>1
             DEF RegisteredFits, InHand, Registering, Removing
  <1>11. OwnerFits(owner[p], p)'
    BY <1>3, <1>4, <1>5 DEF OwnerFits, Registering, Removing, Duplicated, BlocksOf
  <1>12. EntriesFit(p)'
    <2>1. EntriesFit(p) /\ \A b \in BlocksOf(p) : PoolOf[b] = p
      BY InvFacts
    <2>. QED BY <1>0, <1>2, <1>4, <1>5, <2>1 DEF EntriesFit, InHand, Removing, BlocksOf
  <1>. QED BY <1>1, <1>6, <1>8, <1>9, <1>10, <1>11, <1>12, InvParts

\* The duplicate is closed and the path unlinked: nothing is left of the registration.
LEMMA CloseDuplicateStep ==
  ASSUME BrokerInv, [Next]_vars, NEW p \in Pools, CloseDuplicate(p)
  PROVE  BrokerInv'
  <1>0. PICK x : x = owner[p].block
    OBVIOUS
  <1>1. Typed' /\ Typed
    BY TypeStep, InvFacts
  <1>2. owner[p].pc \in Removing /\ owner[p].pc = "unwatched"
    BY DEF CloseDuplicate, Removing
  <1>3. /\ x \in BlocksOf(p) /\ x \in Blocks /\ PoolOf[x] = p
        /\ owner[p].dup \in Numbers /\ fds[owner[p].dup] = MemFd(x)
        /\ \A b \in BlocksOf(p) \ {x} : b \in Blocks /\ PoolOf[b] = p
    BY <1>0, <1>2, Removal
  <1>4. /\ fds'[owner[p].dup] = Closed
        /\ \A n \in Numbers \ {owner[p].dup} : fds'[n] = fds[n]
        /\ ~path'[x] /\ \A b \in Blocks \ {x} : path'[b] = path[b]
        /\ registered'[x] = None /\ \A b \in Blocks \ {x} : registered'[b] = registered[b]
        /\ owner'[p].pc = "removing"
        /\ \A q \in Pools \ {p} : owner'[q] = owner[q]
    BY <1>0, <1>1, <1>3 DEF Typed, CloseDuplicate, CloseServed, Close, NoOwner
  <1>5. UNCHANGED <<native, sockets, thread>>
    BY DEF CloseDuplicate
  <1>6. /\ \A q \in Pools \ {p} : OwnerFits(owner[q], q)' /\ EntriesFit(q)'
        /\ \A b \in Blocks \ BlocksOf(p) : RegisteredFits(b)'
        /\ \A b \in Blocks \ BlocksOf(p), n \in Numbers :
             (HoldsSock(b, n)' <=> HoldsSock(b, n)) /\ (HoldsDup(b, n)' <=> HoldsDup(b, n))
    <2>1. \A b \in Blocks \ BlocksOf(p) : registered'[b] = registered[b] /\ path'[b] = path[b]
      BY <1>3, <1>4
    <2>. QED BY <1>4, <1>5, <2>1, OtherPools
  <1>7. \A b \in BlocksOf(p) \ {x}, n \in Numbers :
          (HoldsSock(b, n)' <=> HoldsSock(b, n)) /\ (HoldsDup(b, n)' <=> HoldsDup(b, n))
    BY <1>0, <1>3, <1>4, <1>5 DEF HoldsSock, HoldsDup, InHand, Registering, Duplicated, Removing
  <1>8. ASSUME NEW b \in Blocks PROVE FilesAreHeld(b)'
    <2>1. CASE b # x
      <3>1. \A n \in Numbers : (HoldsSock(b, n)' <=> HoldsSock(b, n))
                               /\ (HoldsDup(b, n)' <=> HoldsDup(b, n))
        BY <1>6, <1>7, <2>1
      <3>2. FilesAreHeld(b)
        BY InvFacts
      <3>. QED BY <1>3, <1>4, <1>5, <2>1, <3>1, <3>2, FileKinds, FilesKept
    <2>2. CASE b = x
      <3>1. \A n \in Numbers : ~HoldsSock(x, n)'
        BY <1>3, <1>4, NoneIsNoNumber DEF HoldsSock, InHand, Registering
      <3>2. \A n \in Numbers : ~HoldsDup(x, n)'
        BY <1>1, <1>3, <1>4, NoneIsNoNumber DEF HoldsDup, InHand, Duplicated, Removing, Typed
      <3>3. FilesAreHeld(x) /\ \A n \in Numbers : ~HoldsSock(x, n)
                                                  /\ (HoldsDup(x, n) <=> n = owner[p].dup)
        BY <1>0, <1>2, <1>3, InvFacts, Removal
      <3>. QED BY <1>3, <1>4, <1>5, <2>2, <3>1, <3>2, <3>3, FileKinds DEF FilesAreHeld
    <2>. QED BY <2>1, <2>2
  <1>9. ConnectionsFit'
    BY <1>3, <1>4, <1>5, InvFacts, FileKinds, ConnectionsKept
  <1>10. ASSUME NEW b \in BlocksOf(p) PROVE RegisteredFits(b)'
    <2>1. RegisteredFits(b)
      BY <1>3, InvFacts
    <2>. QED BY <1>0, <1>2, <1>3, <1>4, <1>5, <2>1
             DEF RegisteredFits, InHand, Registering, Removing
  <1>11. OwnerFits(owner[p], p)'
    BY <1>4 DEF OwnerFits, Registering, Removing, Duplicated, BlocksOf
  <1>12. EntriesFit(p)'
    <2>1. EntriesFit(p) /\ \A b \in BlocksOf(p) : b \in Blocks /\ PoolOf[b] = p
      BY InvFacts
    <2>. QED BY <1>0, <1>2, <1>4, <1>5, <2>1 DEF EntriesFit, InHand, Removing, BlocksOf
  <1>. QED BY <1>1, <1>6, <1>8, <1>9, <1>10, <1>11, <1>12, InvParts

\* The pool closes its own descriptors, which no entry and no call has.
LEMMA ClosePoolStep ==
  ASSUME BrokerInv, [Next]_vars, NEW p \in Pools, ClosePool(p)
  PROVE  BrokerInv'
  <1>1. Typed' /\ Typed
    BY TypeStep, InvFacts
  <1>2. owner[p].pc = "joining" /\ owner[p] \in Owners
    BY <1>1 DEF ClosePool, Typed
  <1>3. /\ \A n \in Numbers :
             fds'[n] = IF \E b \in BlocksOf(p) : native[b] = n THEN Closed ELSE fds[n]
        /\ \A b \in Blocks : native'[b] = IF b \in BlocksOf(p) THEN None ELSE native[b]
        /\ owner'[p].pc = "gone" /\ \A q \in Pools \ {p} : owner'[q] = owner[q]
    BY <1>1, <1>2 DEF Typed, ClosePool, To, Owners
  <1>4. UNCHANGED <<path, registered, sockets, thread>>
    BY DEF ClosePool
  <1>5. \A b \in BlocksOf(p) : b \in Blocks /\ PoolOf[b] = p
    BY InvFacts
  <1>6. \A n \in Numbers, b \in BlocksOf(p) : native[b] = n => fds[n] = MemFd(b)
    BY <1>5, InvFacts DEF FilesAreHeld
  <1>7. /\ \A q \in Pools \ {p} : OwnerFits(owner[q], q)' /\ EntriesFit(q)'
        /\ \A b \in Blocks \ BlocksOf(p) : RegisteredFits(b)'
        /\ \A b \in Blocks \ BlocksOf(p), n \in Numbers :
             (HoldsSock(b, n)' <=> HoldsSock(b, n)) /\ (HoldsDup(b, n)' <=> HoldsDup(b, n))
    BY <1>3, <1>4, OtherPools
  <1>8. \A b \in BlocksOf(p), n \in Numbers :
          (HoldsSock(b, n)' <=> HoldsSock(b, n)) /\ (HoldsDup(b, n)' <=> HoldsDup(b, n))
    BY <1>2, <1>3, <1>4, <1>5 DEF HoldsSock, HoldsDup, InHand, Registering, Duplicated, Removing
  <1>9. ASSUME NEW b \in Blocks PROVE FilesAreHeld(b)'
    <2>1. FilesAreHeld(b)
      BY InvFacts
    <2>2. \A n \in Numbers : (HoldsSock(b, n)' <=> HoldsSock(b, n))
                             /\ (HoldsDup(b, n)' <=> HoldsDup(b, n))
      BY <1>7, <1>8
    <2>3. \A n \in Numbers : fds'[n] = Listener(b) <=> fds[n] = Listener(b)
      BY <1>3, <1>6, FileKinds
    <2>4. CASE b \notin BlocksOf(p)
      <3>1. native'[b] = native[b]
        BY <1>3, <2>4
      <3>2. \A n \in Numbers : fds'[n] = MemFd(b) <=> fds[n] = MemFd(b)
        BY <1>3, <1>6, <2>4, FileKinds
      <3>. QED BY <2>1, <2>2, <2>3, <3>1, <3>2, FilesKept
    <2>5. CASE b \in BlocksOf(p)
      <3>1. native'[b] = None
        BY <1>3, <2>5
      <3>2. \A n \in Numbers : fds'[n] = MemFd(b) <=> HoldsDup(b, n)
        BY <1>3, <1>6, <2>1, <2>5, FileKinds DEF FilesAreHeld
      <3>. QED BY <2>1, <2>2, <2>3, <3>1, <3>2, NoneIsNoNumber DEF FilesAreHeld
    <2>. QED BY <2>4, <2>5
  <1>10. ConnectionsFit'
    BY <1>3, <1>4, <1>6, InvFacts, FileKinds, ConnectionsKept
  <1>11. ASSUME NEW b \in BlocksOf(p) PROVE RegisteredFits(b)'
    <2>1. RegisteredFits(b)
      BY <1>5, InvFacts
    <2>. QED BY <1>2, <1>3, <1>4, <1>5, <2>1
             DEF RegisteredFits, InHand, Registering, Removing
  <1>12. OwnerFits(owner[p], p)'
    BY <1>3 DEF OwnerFits, Registering, Removing, Duplicated, BlocksOf
  <1>13. EntriesFit(p)'
    <2>1. EntriesFit(p)
      BY InvFacts
    <2>. QED BY <1>2, <1>3, <1>4, <1>5, <2>1 DEF EntriesFit, InHand, Removing, BlocksOf
  <1>. QED BY <1>1, <1>7, <1>9, <1>10, <1>11, <1>12, <1>13, InvParts

-----------------------------------------------------------------------------
(* The invariant, for any number of pools *)

\* A process starts with no descriptor of the library.
LEMMA InitBrokerInv == Init => BrokerInv
  <1>. SUFFICES ASSUME Init PROVE BrokerInv
    OBVIOUS
  <1>1. Typed
    <2>1. NoClient \in ClientStates
      BY DEF NoClient, ClientStates, PcOfClient, Files
    <2>. QED BY <2>1, RecordTypes DEF Init, Typed, Files, MaybeNumber
  <1>2. \A p \in Pools : owner[p].pc = "idle" /\ owner[p] = NoOwner /\ sockets[p] = {}
    BY DEF Init, NoOwner
  <1>3. \A b \in Blocks : PoolOf[b] \in Pools
    BY BrokerAssumption
  <1>4. \A p \in Pools : OwnerFits(owner[p], p) /\ EntriesFit(p)
    BY <1>2 DEF OwnerFits, EntriesFit, Registering, Removing, Duplicated
  <1>5. \A b \in Blocks, S \in {Registering, Removing, Duplicated, {"unwatched"}} : ~InHand(b, S)
    BY <1>2, <1>3 DEF InHand, Registering, Removing, Duplicated
  <1>6. \A b \in Blocks : FilesAreHeld(b)
    <2>1. \A b \in Blocks, n \in Numbers : ~HoldsSock(b, n) /\ ~HoldsDup(b, n)
      BY <1>2, <1>3, <1>5, NoneIsNoNumber DEF Init, HoldsSock, HoldsDup
    <2>. QED BY <2>1, FileKinds, NoneIsNoNumber DEF Init, FilesAreHeld
  <1>7. \A b \in Blocks : RegisteredFits(b)
    BY <1>5 DEF Init, RegisteredFits
  <1>8. ConnectionsFit
    BY DEF Init, NoThread, ConnectionsFit
  <1>. QED BY <1>1, <1>4, <1>6, <1>7, <1>8, TypedIsTypeOK DEF BrokerInv

\* Every step keeps the invariant.
LEMMA NextBrokerInv == BrokerInv /\ [Next]_vars => BrokerInv'
  <1>. SUFFICES ASSUME BrokerInv, [Next]_vars PROVE BrokerInv'
    OBVIOUS
  <1>1. CASE UNCHANGED vars
    <2>1. Typed' /\ ConnectionsFit'
      BY <1>1, TypeStep, InvFacts, ConnectionsKept DEF vars
    <2>. QED BY <1>1, <2>1, QuietStep DEF vars
  <1>2. CASE Begin
    <2>1. ASSUME NEW c \in Clients, NEW b \in Blocks, Connect(c, b) PROVE BrokerInv'
      <3>1. PoolOf[b] \in Pools
        BY BrokerAssumption
      <3>. QED BY <2>1, <3>1, LoopSteps
    <2>. QED BY <1>2, <2>1, CreateBlockStep, ListenForStep, BeginAndStopSteps, OtherFileStep
             DEF Begin
  <1>3. CASE \E p \in Pools : OwnerGoesOn(p)
    BY <1>3, DuplicateStep, EnterSocketStep, WatchStep, WatchFailsStep, DuplicateFailsStep,
       RegisterFailsStep, EraseSocketStep, CloseSocketStep, CloseDuplicateStep,
       BeginAndStopSteps, ClosePoolStep
       DEF OwnerGoesOn
  <1>4. CASE \E p \in Pools : Dispatch(p)
    BY <1>4, LoopSteps, AcceptStep, SendStep DEF Dispatch
  <1>. QED BY <1>1, <1>2, <1>3, <1>4 DEF Next

\* At any moment the pool, an entry or the call that is under way has each number
\* that names a memfd or a listening socket of a block.
THEOREM BrokerInvariance == Spec => []BrokerInv
  BY InitBrokerInv, NextBrokerInv, PTL DEF Spec

\* Every variable of FdBroker has its type.
THEOREM BrokerTypeCorrect == Spec => []TypeOK
  <1>1. BrokerInv => TypeOK
    BY DEF BrokerInv
  <1>. QED BY <1>1, BrokerInvariance, PTL

\* Between calls a block's numbers are the pool's own, its listening socket and the
\* number in its entry.
LEMMA FilesBetweenCalls ==
  ASSUME BrokerInv, NEW p \in Pools, owner[p].pc \in {"idle", "gone"}, NEW b \in BlocksOf(p)
  PROVE  /\ path[b] = (registered[b] # None)
         /\ native[b] \in MaybeNumber /\ registered[b] \in MaybeNumber
         /\ \A n \in Numbers : fds[n] = Listener(b) <=> n = registered[b]
         /\ registered[b] = None =>
              \A n \in Numbers : fds[n] = MemFd(b) <=> n = native[b]
         /\ registered[b] # None =>
              \E m \in Numbers :
                m # native[b] /\ \A n \in Numbers : fds[n] = MemFd(b) <=> n \in {native[b], m}
  <1>1. b \in Blocks /\ PoolOf[b] = p /\ FilesAreHeld(b) /\ RegisteredFits(b) /\ Typed
    BY InvFacts
  <1>2. ~InHand(b, Registering) /\ ~InHand(b, Removing) /\ ~InHand(b, Duplicated)
        /\ ~InHand(b, {"unwatched"})
    BY <1>1 DEF InHand, Registering, Removing, Duplicated
  <1>3. native[b] \in MaybeNumber /\ registered[b] \in MaybeNumber /\ path[b] \in BOOLEAN
    BY <1>1 DEF Typed
  <1>4. path[b] = (registered[b] # None)
    BY <1>1, <1>2, <1>3 DEF RegisteredFits
  <1>5. \A n \in Numbers : HoldsSock(b, n) <=> n = registered[b]
    BY <1>2 DEF HoldsSock
  <1>6. registered[b] = None => \A n \in Numbers : ~HoldsDup(b, n)
    BY <1>1, <1>2, NoneIsNoNumber DEF HoldsDup, Typed
  <1>7. registered[b] # None =>
          \E m \in Numbers : HoldsDup(b, m) /\ \A n \in Numbers : HoldsDup(b, n) => n = m
    <2>1. registered[b] # None => \E m \in Numbers : <<registered[b], m>> \in sockets[p]
      BY <1>1, <1>2 DEF RegisteredFits
    <2>2. registered[b] # None => \E m \in Numbers : HoldsDup(b, m)
      BY <1>1, <1>2, <2>1 DEF HoldsDup
    <2>. QED BY <1>1, <2>2 DEF FilesAreHeld
  <1>. QED BY <1>1, <1>3, <1>4, <1>5, <1>6, <1>7 DEF FilesAreHeld

\* Registrations that fail and pools that are destroyed leave no descriptor and no
\* path behind, and close none twice.
THEOREM BrokerAccounting == Spec => []DescriptorAccounting
  <1>1. ASSUME BrokerInv, NEW p \in Pools, owner[p].pc \in {"idle", "gone"},
               NEW b \in BlocksOf(p)
        PROVE  /\ HowMany(MemFd(b)) = Held(b, native) + Held(b, registered)
               /\ HowMany(Listener(b)) = Held(b, registered)
               /\ path[b] = (registered[b] # None)
    <2>. DEFINE M == {n \in Numbers : fds[n] = MemFd(b)}
                L == {n \in Numbers : fds[n] = Listener(b)}
    <2>1. native[b] \in MaybeNumber /\ registered[b] \in MaybeNumber
          /\ path[b] = (registered[b] # None)
      BY <1>1, FilesBetweenCalls
    <2>2. L = IF registered[b] = None THEN {} ELSE {registered[b]}
      BY <1>1, <2>1, FilesBetweenCalls, NoneIsNoNumber DEF MaybeNumber
    <2>3. registered[b] = None => M = IF native[b] = None THEN {} ELSE {native[b]}
      BY <1>1, <2>1, FilesBetweenCalls, NoneIsNoNumber DEF MaybeNumber
    <2>4. registered[b] # None =>
            \E m \in Numbers : /\ m # native[b]
                               /\ M = IF native[b] = None THEN {m} ELSE {native[b], m}
      BY <1>1, <2>1, FilesBetweenCalls, NoneIsNoNumber DEF MaybeNumber
    <2>5. Cardinality({}) = 0 /\ \A n : Cardinality({n}) = 1
      BY FS_EmptySet, FS_Singleton
    <2>6. \A n, m : n # m => Cardinality({n, m}) = 2
      <3>1. ASSUME NEW n, NEW m, n # m PROVE Cardinality({n, m}) = 2
        <4>1. IsFiniteSet({n}) /\ m \notin {n} /\ {n} \cup {m} = {n, m}
          BY <3>1, FS_Singleton
        <4>2. Cardinality({n} \cup {m}) = Cardinality({n}) + 1
          BY <4>1, FS_AddElement
        <4>. QED BY <2>5, <4>1, <4>2
      <3>. QED BY <3>1
    <2>. HIDE DEF M, L
    <2>7. Cardinality(L) = Held(b, registered)
      BY <2>2, <2>5 DEF Held
    <2>8. Cardinality(M) = Held(b, native) + Held(b, registered)
      <3>1. CASE registered[b] = None /\ native[b] = None
        <4>1. M = {}
          BY <2>3, <3>1
        <4>. QED BY <2>5, <3>1, <4>1 DEF Held
      <3>2. CASE registered[b] = None /\ native[b] # None
        <4>1. M = {native[b]}
          BY <2>3, <3>2
        <4>2. Cardinality(M) = 1
          BY <2>5, <4>1
        <4>. QED BY <3>2, <4>2 DEF Held
      <3>3. CASE registered[b] # None /\ native[b] = None
        <4>1. PICK m \in Numbers : M = {m}
          BY <2>4, <3>3
        <4>2. Cardinality(M) = 1
          BY <2>5, <4>1
        <4>. QED BY <3>3, <4>2 DEF Held
      <3>4. CASE registered[b] # None /\ native[b] # None
        <4>1. PICK m \in Numbers : native[b] # m /\ M = {native[b], m}
          BY <2>4, <3>4
        <4>2. Cardinality(M) = 2
          BY <2>6, <4>1
        <4>. QED BY <3>4, <4>2 DEF Held
      <3>. QED BY <3>1, <3>2, <3>3, <3>4
    <2>. QED BY <2>1, <2>7, <2>8 DEF HowMany, M, L
  <1>2. BrokerInv => DescriptorAccounting
    BY <1>1 DEF DescriptorAccounting
  <1>. QED BY <1>2, BrokerInvariance, PTL

-----------------------------------------------------------------------------
(* What a client receives before a pool is destroyed *)

\* What a dispatcher finds in its map is one block's socket and its memfd.
LEMMA EntryNamesItsBlock ==
  ASSUME BrokerInv, NEW p \in Pools, NEW n \in Numbers, NEW m \in Numbers,
         <<n, m>> \in sockets[p],
         owner[p].pc # "entered" \/ \E b \in BlocksOf(p) : registered[b] = n
  PROVE  \E b \in BlocksOf(p) :
           registered[b] = n /\ ~InHand(b, Removing) /\ fds[n] = Listener(b) /\ fds[m] = MemFd(b)
  <1>1. EntriesFit(p) /\ \A b \in BlocksOf(p) : b \in Blocks /\ PoolOf[b] = p /\ FilesAreHeld(b)
    BY InvFacts
  <1>2. \E b \in BlocksOf(p) : registered[b] = n /\ ~InHand(b, Removing)
    <2>1. CASE owner[p].pc = "entered"
      BY <1>1, <2>1 DEF InHand, Removing
    <2>2. CASE owner[p].pc # "entered"
      BY <1>1, <2>2 DEF EntriesFit
    <2>. QED BY <2>1, <2>2
  <1>3. PICK b \in BlocksOf(p) : registered[b] = n /\ ~InHand(b, Removing)
    BY <1>2
  <1>4. HoldsSock(b, n) /\ HoldsDup(b, m)
    BY <1>1, <1>3 DEF HoldsSock, HoldsDup, InHand, Removing
  <1>. QED BY <1>1, <1>3, <1>4 DEF FilesAreHeld

\* The memfd of a registered block is behind the number in its entry.
LEMMA ServedNumber ==
  ASSUME BrokerInv, NEW p \in Pools, ~Destroying(p), NEW b \in BlocksOf(p), registered[b] # None,
         NEW m \in Numbers, <<registered[b], m>> \in sockets[p]
  PROVE  fds[m] = MemFd(b)
  <1>1. /\ b \in Blocks /\ PoolOf[b] = p /\ FilesAreHeld(b)
        /\ registered[b] \in Numbers
    BY InvFacts DEF Typed, MaybeNumber
  <1>2. ~InHand(b, Removing)
    BY <1>1 DEF InHand, Destroying, Removing
  <1>3. HoldsDup(b, m)
    BY <1>1, <1>2 DEF HoldsDup
  <1>. QED BY <1>1, <1>3 DEF FilesAreHeld

\* A pool that is being destroyed stays so.
LEMMA DestroyingStays ==
  ASSUME BrokerInv, [Next]_vars, NEW p \in Pools, Destroying(p)
  PROVE  Destroying(p)'
  <1>1. Typed /\ owner[p] \in Owners
    BY InvFacts DEF Typed
  <1>2. CASE UNCHANGED vars
    BY <1>2 DEF vars, Destroying
  <1>3. CASE Begin
    <2>1. ASSUME NEW b \in Blocks, ListenFor(b) PROVE Destroying(p)'
      <3>1. PoolOf[b] # p
        BY <2>1 DEF ListenFor, NoOwner, Destroying
      <3>. QED BY <1>1, <2>1, <3>1 DEF ListenFor, Destroying, Typed
    <2>2. ASSUME NEW q \in Pools, BeginDestroy(q) PROVE Destroying(p)'
      BY <1>1, <2>2 DEF BeginDestroy, To, Destroying, Typed, Owners
    <2>3. ASSUME UNCHANGED owner PROVE Destroying(p)'
      BY <2>3 DEF Destroying
    <2>. QED BY <1>3, <2>1, <2>2, <2>3 DEF Begin, CreateBlock, Connect, OpenOther, CloseOther
  <1>4. ASSUME NEW q \in Pools, OwnerGoesOn(q) PROVE Destroying(p)'
    <2>1. CASE q # p
      <3>1. owner'[p] = owner[p]
        BY <1>1, <1>4, <2>1
           DEF OwnerGoesOn, Duplicate, EnterSocket, Watch, WatchFails, DuplicateFails,
               RegisterFails, EraseSocket, CloseSocket, CloseDuplicate, Stop, ClosePool, To, Typed
      <3>. QED BY <3>1 DEF Destroying
    <2>2. CASE q = p
      <3>1. EraseSocket(p) \/ CloseSocket(p) \/ CloseDuplicate(p) \/ Stop(p) \/ ClosePool(p)
        BY <1>4, <2>2 DEF OwnerGoesOn, Destroying, Duplicate, EnterSocket, Watch, WatchFails,
                          DuplicateFails, RegisterFails
      <3>. QED BY <1>1, <3>1 DEF EraseSocket, CloseSocket, CloseDuplicate, Stop, ClosePool,
                                 Destroying, To, NoOwner, Typed, Owners
    <2>. QED BY <2>1, <2>2
  <1>5. CASE \E q \in Pools : Dispatch(q)
    BY <1>5 DEF Dispatch, Wait, BatchDone, LookUp, Accept, AcceptFails, Send, Destroying
  <1>. QED BY <1>2, <1>3, <1>4, <1>5 DEF Next

\* A step in which no dispatcher moves: clients come and go, registered blocks stay.
LEMMA CalmFrame ==
  ASSUME BrokerInv, CalmInv, BrokerInv', Calm, UNCHANGED thread,
         \A b \in Blocks : registered[b] # None => registered'[b] = registered[b],
         \A b \in Blocks, n \in Numbers :
           registered[b] # None /\ <<registered[b], n>> \in sockets[PoolOf[b]] =>
             <<registered[b], n>> \in sockets'[PoolOf[b]],
         \A p \in Pools : \A e \in epoll'[p] : e \in epoll[p] \/ registered'[e[2]] = e[1],
         \A n \in Numbers, c \in Clients : fds[n] = Connection(c) => fds'[n] = Connection(c),
         \A c \in Clients : \/ client'[c] = client[c]
                            \/ client'[c].pc = "reset" /\ client[c].pc = "queued"
                            \/ client'[c].pc = "queued" /\ client[c].pc = "idle"
                               /\ client'[c].want \in Blocks
  PROVE  CalmInv'
  <1>1. /\ Typed /\ ConnectionsFit
        /\ \A p \in Pools : EventsFit(p) /\ FoundFits(p) /\ AcceptedFits(p)
        /\ \A p \in Pools : \A b \in BlocksOf(p) : b \in Blocks /\ PoolOf[b] = p
        /\ \A p \in Pools : BlocksOf(p)' = BlocksOf(p)
    BY InvFacts DEF CalmInv, BlocksOf
  <1>2. ASSUME NEW p \in Pools PROVE EventsFit(p)'
    <2>1. \A e \in epoll[p] : e[2] \in Blocks /\ e[1] \in Numbers
      BY <1>1 DEF Typed
    <2>2. thread[p].events \subseteq Numbers
      BY <1>1 DEF Typed, Threads
    <2>. QED BY <1>1, <2>1, <2>2, NoneIsNoNumber DEF EventsFit
  <1>3. ASSUME NEW p \in Pools PROVE FoundFits(p)'
    <2>1. ASSUME thread[p].pc = "found"
          PROVE  \E b \in BlocksOf(p) : /\ registered'[b] = thread[p].sock
                                        /\ <<thread[p].sock, thread[p].fd>> \in sockets'[p]
      <3>1. /\ thread[p].sock \in Numbers /\ thread[p].fd \in Numbers
            /\ \E b \in BlocksOf(p) :
                 registered[b] = thread[p].sock /\ <<thread[p].sock, thread[p].fd>> \in sockets[p]
        BY <1>1, <2>1 DEF FoundFits, ConnectionsFit
      <3>. QED BY <1>1, <3>1, NoneIsNoNumber
    <2>. QED BY <1>1, <2>1 DEF FoundFits
  <1>4. ASSUME NEW p \in Pools PROVE AcceptedFits(p)'
    <2>1. ASSUME thread[p].pc = "accepted"
          PROVE  \E c \in Clients :
                   /\ fds'[thread[p].conn] = Connection(c) /\ client'[c].pc = "accepted"
                   /\ client'[c].want \in BlocksOf(p) /\ registered'[client'[c].want] # None
                   /\ <<registered'[client'[c].want], thread[p].fd>> \in sockets'[p]
      <3>1. thread[p].conn \in Numbers /\ thread[p].fd \in Numbers
        BY <1>1, <2>1 DEF ConnectionsFit
      <3>2. PICK c \in Clients :
              /\ fds[thread[p].conn] = Connection(c) /\ client[c].pc = "accepted"
              /\ client[c].want \in BlocksOf(p) /\ registered[client[c].want] # None
              /\ <<registered[client[c].want], thread[p].fd>> \in sockets[p]
        BY <1>1, <2>1 DEF AcceptedFits
      <3>3. client'[c] = client[c]
        BY <3>2
      <3>. QED BY <1>1, <3>1, <3>2, <3>3
    <2>. QED BY <1>1, <2>1 DEF AcceptedFits
  <1>5. ClientsDiffer'
    <2>1. \A p \in Pools : thread[p].pc = "accepted" => fds'[thread[p].conn] = fds[thread[p].conn]
      BY <1>1 DEF ConnectionsFit
    <2>. QED BY <2>1 DEF CalmInv, ClientsDiffer
  <1>6. \A c \in Clients : client'[c].pc = "queued" => client'[c].want \in Blocks
    BY DEF CalmInv
  <1>7. ServedTheBlock'
    BY DEF CalmInv, ServedTheBlock
  <1>. QED BY <1>2, <1>3, <1>4, <1>5, <1>6, <1>7 DEF CalmInv

\* Begin: a call of an owner, a client, or another thread.
LEMMA CalmBegin ==
  ASSUME BrokerInv, CalmInv, BrokerInv', [Next]_vars, Calm, Begin,
         \A p \in Pools : ~BeginDestroy(p)
  PROVE  CalmInv'
  <1>1. Typed
    BY InvFacts
  <1>2. ASSUME NEW b0 \in Blocks, CreateBlock(b0) PROVE CalmInv'
    <2>1. NewNumber \in Numbers /\ fds[NewNumber] = Closed
      BY <1>2, LowestNumber DEF CreateBlock
    <2>2. \A n \in Numbers, c \in Clients : fds[n] = Connection(c) => fds'[n] = Connection(c)
      BY <1>1, <1>2, <2>1, FileKinds DEF CreateBlock, Open, Typed
    <2>. QED BY <1>2, <2>2, CalmFrame DEF CreateBlock
  <1>3. ASSUME NEW b0 \in Blocks, ListenFor(b0) PROVE CalmInv'
    <2>1. NewNumber \in Numbers /\ fds[NewNumber] = Closed
      BY <1>3, LowestNumber DEF ListenFor
    <2>2. \A n \in Numbers, c \in Clients : fds[n] = Connection(c) => fds'[n] = Connection(c)
      BY <1>1, <1>3, <2>1, FileKinds DEF ListenFor, Open, Typed
    <2>. QED BY <1>3, <2>2, CalmFrame DEF ListenFor
  <1>4. ASSUME NEW c \in Clients, NEW b0 \in Blocks, Connect(c, b0) PROVE CalmInv'
    <2>1. \A d \in Clients : \/ client'[d] = client[d]
                             \/ client'[d].pc = "queued" /\ client[d].pc = "idle"
                                /\ client'[d].want \in Blocks
      BY <1>1, <1>4 DEF Connect, NoClient, Typed
    <2>. QED BY <1>4, <2>1, CalmFrame DEF Connect
  <1>5. ASSUME NEW o \in Others, OpenOther(o) \/ CloseOther(o) PROVE CalmInv'
    <2>1. \A n \in Numbers, c \in Clients : fds[n] = Connection(c) => fds'[n] = Connection(c)
      BY <1>5, OtherFileStep, FileKinds
    <2>2. UNCHANGED <<registered, sockets, epoll, thread, client>>
      BY <1>5 DEF OpenOther, CloseOther
    <2>. QED BY <2>1, <2>2, CalmFrame
  <1>. QED BY <1>2, <1>3, <1>4, <1>5 DEF Begin

\* A call of register_block goes on.
LEMMA CalmRegistration ==
  ASSUME BrokerInv, CalmInv, BrokerInv', [Next]_vars, Calm, NEW p \in Pools,
         \/ Duplicate(p) \/ EnterSocket(p) \/ Watch(p)
         \/ WatchFails(p) \/ DuplicateFails(p) \/ RegisterFails(p)
  PROVE  CalmInv'
  <1>1. Typed /\ owner[p] \in Owners /\ owner[p].pc \in Registering
        /\ \A b \in Blocks : PoolOf[b] \in Pools
    BY InvFacts DEF Typed, Registering, Duplicate, EnterSocket, Watch, WatchFails,
                    DuplicateFails, RegisterFails
  <1>2. PICK x : x = owner[p].block
    OBVIOUS
  <1>3. /\ x \in Blocks /\ PoolOf[x] = p /\ registered[x] = None /\ x \in BlocksOf(p)
        /\ owner[p].sock \in Numbers /\ fds[owner[p].sock] = Listener(x)
        /\ owner[p].pc \in Duplicated =>
             owner[p].dup \in Numbers /\ fds[owner[p].dup] = MemFd(x)
        /\ \A b \in BlocksOf(p) \ {x} : registered[b] # owner[p].sock
    BY <1>1, <1>2, Registration
  <1>4. UNCHANGED thread
    BY DEF Duplicate, EnterSocket, Watch, WatchFails, DuplicateFails, RegisterFails
  <1>5. \A b \in Blocks : registered[b] # None => registered'[b] = registered[b]
    BY <1>1, <1>2, <1>3 DEF Duplicate, EnterSocket, Watch, WatchFails, DuplicateFails,
                            RegisterFails, Typed
  <1>6. \A e \in sockets[p] : e \in sockets'[p] \/ e[1] = owner[p].sock
    BY <1>1 DEF Duplicate, EnterSocket, Watch, WatchFails, DuplicateFails, RegisterFails, Typed
  <1>7. \A q \in Pools \ {p} : sockets'[q] = sockets[q] /\ epoll'[q] = epoll[q]
    BY <1>1 DEF Duplicate, EnterSocket, Watch, WatchFails, DuplicateFails, RegisterFails, Typed
  <1>8. \A b \in Blocks, n \in Numbers :
          registered[b] # None /\ <<registered[b], n>> \in sockets[PoolOf[b]] =>
            <<registered[b], n>> \in sockets'[PoolOf[b]]
    <2>1. ASSUME NEW b \in Blocks, NEW n \in Numbers, PoolOf[b] = p, registered[b] # None,
                 <<registered[b], n>> \in sockets[p]
          PROVE  <<registered[b], n>> \in sockets'[p]
      <3>1. b \in BlocksOf(p) \ {x}
        BY <1>3, <2>1 DEF BlocksOf
      <3>. QED BY <1>3, <1>6, <2>1, <3>1
    <2>. QED BY <1>1, <1>7, <2>1
  <1>9. \A q \in Pools : \A e \in epoll'[q] : e \in epoll[q] \/ registered'[e[2]] = e[1]
    <2>1. CASE Watch(p)
      <3>1. epoll'[p] = epoll[p] \cup {<<owner[p].sock, x>>} /\ registered'[x] = owner[p].sock
        BY <1>1, <1>2, <1>3, <2>1 DEF Watch, Watched, Typed
      <3>. QED BY <1>7, <3>1
    <2>2. CASE ~Watch(p)
      BY <2>2 DEF Duplicate, EnterSocket, WatchFails, DuplicateFails, RegisterFails
    <2>. QED BY <2>1, <2>2
  <1>10. \A n \in Numbers, c \in Clients : fds[n] = Connection(c) => fds'[n] = Connection(c)
    <2>1. CASE Duplicate(p)
      <3>1. NewNumber \in Numbers /\ fds[NewNumber] = Closed
        BY <2>1, LowestNumber DEF Duplicate
      <3>. QED BY <1>1, <2>1, <3>1, FileKinds DEF Duplicate, Open, Typed
    <2>2. CASE WatchFails(p)
      BY <1>1, <1>3, <2>2, FileKinds DEF WatchFails, Close, Duplicated, Typed
    <2>3. CASE RegisterFails(p)
      BY <1>1, <1>3, <2>3, FileKinds DEF RegisterFails, Close, Typed
    <2>4. CASE EnterSocket(p) \/ Watch(p) \/ DuplicateFails(p)
      BY <2>4 DEF EnterSocket, Watch, DuplicateFails
    <2>. QED BY <2>1, <2>2, <2>3, <2>4
  <1>11. \A c \in Clients : \/ client'[c] = client[c]
                            \/ client'[c].pc = "reset" /\ client[c].pc = "queued"
    <2>1. CASE RegisterFails(p)
      BY <1>1, <2>1 DEF RegisterFails, ResetQueue, Queue, Typed, ClientStates
    <2>2. CASE ~RegisterFails(p)
      BY <2>2 DEF Duplicate, EnterSocket, Watch, WatchFails, DuplicateFails
    <2>. QED BY <2>1, <2>2
  <1>. QED BY <1>4, <1>5, <1>8, <1>9, <1>10, <1>11, CalmFrame

\* A dispatcher waits, takes events, looks up and gives up.
LEMMA CalmLoop ==
  ASSUME BrokerInv, CalmInv, BrokerInv', [Next]_vars, Calm, NEW p \in Pools,
         Wait(p) \/ BatchDone(p) \/ LookUp(p) \/ AcceptFails(p)
  PROVE  CalmInv'
  <1>1. /\ Typed /\ thread[p] \in Threads
        /\ \A q \in Pools : EventsFit(q) /\ FoundFits(q) /\ AcceptedFits(q)
        /\ \A q \in Pools : BlocksOf(q)' = BlocksOf(q)
    BY InvFacts DEF Typed, CalmInv, BlocksOf
  <1>2. UNCHANGED <<fds, registered, sockets, epoll, owner, client>>
    BY DEF Wait, BatchDone, LookUp, AcceptFails
  <1>3. \A q \in Pools \ {p} : thread'[q] = thread[q]
    BY <1>1 DEF Wait, BatchDone, LookUp, AcceptFails, Typed
  <1>. DEFINE OfBlocks(S) == \A n \in S : \E b \in BlocksOf(p) : registered[b] = n
              Fits == /\ OfBlocks(thread'[p].events) /\ FoundFits(p)'
                      /\ thread'[p].pc # "accepted"
  <1>4. SUFFICES Fits
    <2>1. \A q \in Pools \ {p} : EventsFit(q)' /\ FoundFits(q)' /\ AcceptedFits(q)'
      BY <1>1, <1>2, <1>3 DEF EventsFit, FoundFits, AcceptedFits
    <2>2. EventsFit(p)' /\ AcceptedFits(p)'
      BY <1>1, <1>2, <1>4 DEF EventsFit, AcceptedFits
    <2>3. ClientsDiffer'
      BY <1>2, <1>3, <1>4 DEF CalmInv, ClientsDiffer
    <2>. QED BY <1>2, <1>4, <2>1, <2>2, <2>3 DEF CalmInv, ServedTheBlock
  <1>5. CASE Wait(p)
    <2>1. OfBlocks(Ready(p))
      <3>1. epoll[p] \subseteq Numbers \X BlocksOf(p)
        BY <1>1 DEF Typed
      <3>. QED BY <1>1, <3>1 DEF Ready, EventsFit
    <2>2. CASE running[p]
      <3>1. thread' = [thread EXCEPT ![p] = [@ EXCEPT !.pc = "serve", !.events = Ready(p)]]
        BY <1>5, <2>2 DEF Wait
      <3>2. thread'[p].pc = "serve" /\ thread'[p].events = Ready(p)
        BY <1>1, <3>1 DEF Typed, Threads
      <3>. QED BY <2>1, <3>2 DEF FoundFits
    <2>3. CASE ~running[p]
      <3>1. thread' = [thread EXCEPT ![p].pc = "exited"]
        BY <1>5, <2>3 DEF Wait
      <3>2. thread'[p].pc = "exited" /\ thread'[p].events = thread[p].events
        BY <1>1, <3>1 DEF Typed, Threads
      <3>. QED BY <1>1, <3>2 DEF FoundFits, EventsFit
    <2>. QED BY <2>2, <2>3
  <1>6. CASE BatchDone(p)
    BY <1>1, <1>6 DEF BatchDone, NoThread, FoundFits, Typed
  <1>7. CASE AcceptFails(p)
    <2>1. thread'[p].pc = "serve" /\ thread'[p].events = thread[p].events
      BY <1>1, <1>7 DEF AcceptFails, Typed, Threads
    <2>. QED BY <1>1, <2>1 DEF FoundFits, EventsFit
  <1>8. CASE LookUp(p)
    <2>1. PICK n \in thread[p].events :
            \/ \E entry \in sockets[p] :
                 /\ entry[1] = n
                 /\ thread' = [thread EXCEPT ![p] =
                      [@ EXCEPT !.pc = "found", !.events = thread[p].events \ {n}, !.sock = n,
                                !.fd = entry[2]]]
            \/ thread[p].pc = "serve" /\ thread' = [thread EXCEPT ![p].events = @ \ {n}]
      BY <1>8 DEF LookUp
    <2>2. ASSUME thread[p].pc = "serve", thread' = [thread EXCEPT ![p].events = @ \ {n}]
          PROVE  Fits
      <3>1. thread'[p].pc = "serve" /\ thread'[p].events \subseteq thread[p].events
        BY <1>1, <2>2 DEF Typed, Threads
      <3>. QED BY <1>1, <3>1 DEF FoundFits, EventsFit
    <2>3. ASSUME NEW entry \in sockets[p], entry[1] = n,
                 thread' = [thread EXCEPT ![p] =
                   [@ EXCEPT !.pc = "found", !.events = thread[p].events \ {n}, !.sock = n,
                             !.fd = entry[2]]]
          PROVE  Fits
      <3>1. /\ thread'[p].pc = "found" /\ thread'[p].events \subseteq thread[p].events
            /\ thread'[p].sock = n /\ thread'[p].fd = entry[2]
        BY <1>1, <2>3 DEF Typed, Threads
      <3>2. <<n, entry[2]>> \in sockets[p]
        BY <1>1, <2>3 DEF Typed
      <3>3. \E b \in BlocksOf(p) : registered[b] = n
        BY <1>1, <2>1 DEF EventsFit
      <3>4. FoundFits(p)'
        BY <1>1, <1>2, <3>1, <3>2, <3>3 DEF FoundFits
      <3>. QED BY <1>1, <3>1, <3>4 DEF EventsFit
    <2>. QED BY <2>1, <2>2, <2>3
  <1>. QED BY <1>5, <1>6, <1>7, <1>8

\* Which client an accept takes, and from which socket.
LEMMA AcceptFacts ==
  ASSUME BrokerInv, NEW p \in Pools, Accept(p)
  PROVE  /\ NewNumber \in Numbers /\ fds[NewNumber] = Closed
         /\ fds' = [fds EXCEPT ![NewNumber] = fds'[NewNumber]]
         /\ UNCHANGED <<registered, sockets, epoll, owner>>
         /\ thread[p].sock \in Numbers /\ thread[p].fd \in Numbers /\ thread[p].pc = "found"
         /\ \A q \in Pools \ {p} : thread'[q] = thread[q]
         /\ thread'[p].pc = "accepted" /\ thread'[p].conn = NewNumber
         /\ thread'[p].fd = thread[p].fd /\ thread'[p].events = thread[p].events
         /\ \E b \in Blocks, c \in Clients :
              /\ fds[thread[p].sock] = Listener(b)
              /\ client[c].pc = "queued" /\ client[c].want = b
              /\ client'[c].pc = "accepted" /\ client'[c].want = b
              /\ \A d \in Clients \ {c} : client'[d] = client[d]
              /\ fds'[NewNumber] = Connection(c)
  <1>1. Typed /\ thread[p] \in Threads /\ ConnectionsFit
    BY InvFacts DEF Typed
  <1>2. NewNumber \in Numbers /\ fds[NewNumber] = Closed
    BY LowestNumber DEF Accept
  <1>3. PICK c \in Queue(fds[thread[p].sock].of) :
          /\ Open(Connection(c))
          /\ client' = [client EXCEPT ![c].pc = "accepted"]
          /\ thread' = [thread EXCEPT ![p] = [@ EXCEPT !.pc = "accepted", !.conn = NewNumber]]
    BY DEF Accept
  <1>4. thread[p].sock \in Numbers /\ thread[p].fd \in Numbers /\ thread[p].pc = "found"
    BY <1>1 DEF Accept, ConnectionsFit
  <1>5. PICK b \in Blocks : fds[thread[p].sock] = Listener(b)
    <2>1. fds[thread[p].sock] \in Files /\ fds[thread[p].sock].kind = "listener"
      BY <1>1, <1>4 DEF Accept, Typed
    <2>. QED BY <2>1, FileKinds DEF Files
  <1>6. c \in Clients /\ client[c].pc = "queued" /\ client[c].want = b
    BY <1>3, <1>5, FileKinds DEF Queue
  <1>7. /\ client'[c].pc = "accepted" /\ client'[c].want = b
        /\ \A d \in Clients \ {c} : client'[d] = client[d]
    BY <1>1, <1>3, <1>6 DEF Typed, ClientStates
  <1>8. /\ thread'[p].pc = "accepted" /\ thread'[p].conn = NewNumber
        /\ thread'[p].fd = thread[p].fd /\ thread'[p].events = thread[p].events
        /\ \A q \in Pools \ {p} : thread'[q] = thread[q]
    BY <1>1, <1>3 DEF Typed, Threads
  <1>9. fds' = [fds EXCEPT ![NewNumber] = Connection(c)] /\ fds'[NewNumber] = Connection(c)
    BY <1>1, <1>2, <1>3 DEF Open, Typed
  <1>10. UNCHANGED <<registered, sockets, epoll, owner>>
    BY DEF Accept
  <1>. QED BY <1>2, <1>4, <1>5, <1>6, <1>7, <1>8, <1>9, <1>10

\* The client that is accepted asked for the block whose memfd was found.
LEMMA CalmAccept ==
  ASSUME BrokerInv, CalmInv, BrokerInv', [Next]_vars, Calm, NEW p \in Pools, Accept(p)
  PROVE  CalmInv'
  <1>1. /\ Typed /\ ConnectionsFit
        /\ \A q \in Pools : EventsFit(q) /\ FoundFits(q) /\ AcceptedFits(q)
        /\ \A q \in Pools : BlocksOf(q)' = BlocksOf(q)
    BY InvFacts DEF CalmInv, BlocksOf
  <1>2. PICK b \in Blocks, c \in Clients :
          /\ fds[thread[p].sock] = Listener(b)
          /\ client[c].pc = "queued" /\ client[c].want = b
          /\ client'[c].pc = "accepted" /\ client'[c].want = b
          /\ \A d \in Clients \ {c} : client'[d] = client[d]
          /\ fds'[NewNumber] = Connection(c)
    BY AcceptFacts
  <1>3. /\ thread[p].sock \in Numbers /\ thread[p].fd \in Numbers /\ thread[p].pc = "found"
        /\ thread'[p].pc = "accepted" /\ thread'[p].conn = NewNumber
        /\ thread'[p].fd = thread[p].fd /\ thread'[p].events = thread[p].events
        /\ \A q \in Pools \ {p} : thread'[q] = thread[q]
        /\ UNCHANGED <<registered, sockets, epoll, owner>>
        /\ NewNumber \in Numbers /\ fds[NewNumber] = Closed
    BY AcceptFacts
  <1>4. \A n \in Numbers : fds[n] # Closed => fds'[n] = fds[n]
    BY <1>1, AcceptFacts DEF Typed
  <1>5. AcceptedFits(p)'
    <2>1. PICK d \in BlocksOf(p) : registered[d] = thread[p].sock
                                   /\ <<thread[p].sock, thread[p].fd>> \in sockets[p]
      BY <1>1, <1>3 DEF FoundFits
    <2>2. d = b
      <3>1. d \in Blocks /\ PoolOf[d] = p /\ FilesAreHeld(d)
        BY <2>1, InvFacts
      <3>2. HoldsSock(d, thread[p].sock)
        BY <2>1, <3>1 DEF HoldsSock, InHand, Calm, Destroying
      <3>. QED BY <1>2, <1>3, <3>1, <3>2, FileKinds DEF FilesAreHeld
    <2>3. registered[b] # None /\ <<registered[b], thread[p].fd>> \in sockets[p]
      BY <1>3, <2>1, <2>2, NoneIsNoNumber
    <2>. QED BY <1>1, <1>2, <1>3, <2>1, <2>2, <2>3 DEF AcceptedFits
  <1>6. ASSUME NEW q \in Pools \ {p}, thread[q].pc = "accepted"
        PROVE  \E d \in Clients : /\ d # c /\ fds'[thread[q].conn] = Connection(d)
                                  /\ client'[d] = client[d] /\ client[d].pc = "accepted"
                                  /\ client[d].want \in BlocksOf(q)
                                  /\ registered[client[d].want] # None
                                  /\ <<registered[client[d].want], thread[q].fd>> \in sockets[q]
                                  /\ fds'[thread[q].conn] = fds[thread[q].conn]
    <2>1. thread[q].conn \in Numbers
      BY <1>1, <1>6 DEF ConnectionsFit
    <2>. QED BY <1>1, <1>2, <1>4, <1>6, <2>1, FileKinds DEF AcceptedFits
  <1>7. ASSUME NEW q \in Pools \ {p} PROVE AcceptedFits(q)'
    <2>1. thread'[q] = thread[q] /\ BlocksOf(q)' = BlocksOf(q)
      BY <1>1, <1>3
    <2>2. UNCHANGED <<registered, sockets>>
      BY <1>3
    <2>. QED BY <1>6, <2>1, <2>2 DEF AcceptedFits
  <1>8. ClientsDiffer'
    <2>1. \A q \in Pools \ {p} :
            thread[q].pc = "accepted" =>
              /\ fds'[thread[q].conn] = fds[thread[q].conn]
              /\ fds'[thread[q].conn] # fds'[NewNumber]
      <3>1. ASSUME NEW q \in Pools \ {p}, thread[q].pc = "accepted"
            PROVE  fds'[thread[q].conn] # Connection(c)
        <4>1. PICK d \in Clients : d # c /\ fds'[thread[q].conn] = Connection(d)
          BY <1>6, <3>1
        <4>. QED BY <4>1, FileKinds
      <3>. QED BY <1>2, <1>6, <3>1
    <2>3. \A q \in Pools \ {p} :
            thread'[q].pc = "accepted" =>
              /\ fds'[thread'[q].conn] = fds[thread[q].conn] /\ thread[q].pc = "accepted"
              /\ fds'[thread'[q].conn] # fds'[thread'[p].conn]
      BY <1>3, <2>1
    <2>4. \A q, r \in Pools \ {p} :
            q # r /\ thread[q].pc = "accepted" /\ thread[r].pc = "accepted" =>
              fds[thread[q].conn] # fds[thread[r].conn]
      BY DEF CalmInv, ClientsDiffer
    <2>. QED BY <2>3, <2>4 DEF ClientsDiffer
  <1>9. ASSUME NEW q \in Pools PROVE EventsFit(q)' /\ FoundFits(q)'
    <2>1. /\ thread'[q].events = thread[q].events
          /\ thread'[q] = thread[q] \/ thread'[q].pc # "found"
      BY <1>3
    <2>2. EventsFit(q) /\ FoundFits(q) /\ BlocksOf(q)' = BlocksOf(q)
      BY <1>1
    <2>. QED BY <1>3, <2>1, <2>2 DEF EventsFit, FoundFits
  <1>10. ServedTheBlock'
    BY <1>2 DEF CalmInv, ServedTheBlock
  <1>11. \A d \in Clients : client'[d].pc = "queued" => client'[d].want \in Blocks
    BY <1>2 DEF CalmInv
  <1>. QED BY <1>5, <1>7, <1>8, <1>9, <1>10, <1>11 DEF CalmInv

\* What a send changes: one client, which gets the file behind the number that was
\* found, or nothing.
LEMMA SendFacts ==
  ASSUME BrokerInv, NEW p \in Pools, NEW c \in Clients, fds[thread[p].conn] = Connection(c), Send(p)
  PROVE  /\ UNCHANGED <<registered, sockets, epoll, owner>>
         /\ \A q \in Pools \ {p} : thread'[q] = thread[q]
         /\ thread'[p].pc = "serve" /\ thread'[p].events = thread[p].events
         /\ \A d \in Clients \ {c} : client'[d] = client[d]
         /\ client'[c].want = client[c].want
         /\ \/ client'[c].pc = "reset"
            \/ /\ client'[c].pc = "served" /\ client'[c].got = fds[thread[p].fd]
               /\ fds[thread[p].fd] # Closed
         /\ \A n \in Numbers : n # thread[p].conn => fds'[n] = fds[n]
  <1>1. Typed /\ thread[p] \in Threads /\ client[c] \in ClientStates
    BY InvFacts DEF Typed
  <1>2. Peer(thread[p].conn) = c
    BY FileKinds DEF Peer
  <1>3. /\ \A d \in Clients \ {c} : client'[d] = client[d]
        /\ client'[c].want = client[c].want
        /\ \/ client'[c].pc = "reset"
           \/ /\ client'[c].pc = "served" /\ client'[c].got = fds[thread[p].fd]
              /\ fds[thread[p].fd] # Closed
    <2>1. CASE FoundFile(p) = Closed
      BY <1>1, <1>2, <2>1 DEF Send, Typed, ClientStates
    <2>2. CASE FoundFile(p) # Closed
      BY <1>1, <1>2, <2>2 DEF Send, Typed, ClientStates, FoundFile
    <2>. QED BY <2>1, <2>2
  <1>4. /\ thread'[p].pc = "serve" /\ thread'[p].events = thread[p].events
        /\ \A q \in Pools \ {p} : thread'[q] = thread[q]
    BY <1>1 DEF Send, Typed, Threads
  <1>5. \A n \in Numbers : n # thread[p].conn => fds'[n] = fds[n]
    BY <1>1 DEF Send, HangUp, Close, Typed
  <1>6. UNCHANGED <<registered, sockets, epoll, owner>>
    BY DEF Send
  <1>. QED BY <1>3, <1>4, <1>5, <1>6

\* The client receives the memfd of the block it asked for.
LEMMA CalmSend ==
  ASSUME BrokerInv, CalmInv, BrokerInv', [Next]_vars, Calm, NEW p \in Pools, Send(p)
  PROVE  CalmInv'
  <1>1. /\ Typed /\ ConnectionsFit
        /\ \A q \in Pools : EventsFit(q) /\ FoundFits(q) /\ AcceptedFits(q)
        /\ \A q \in Pools : BlocksOf(q)' = BlocksOf(q)
    BY InvFacts DEF CalmInv, BlocksOf
  <1>2. thread[p].pc = "accepted" /\ thread[p].fd \in Numbers
    BY <1>1 DEF Send, ConnectionsFit
  <1>3. PICK c \in Clients :
          /\ fds[thread[p].conn] = Connection(c) /\ client[c].pc = "accepted"
          /\ client[c].want \in BlocksOf(p) /\ registered[client[c].want] # None
          /\ <<registered[client[c].want], thread[p].fd>> \in sockets[p]
    BY <1>1, <1>2 DEF AcceptedFits
  <1>4. fds[thread[p].fd] = MemFd(client[c].want)
    BY <1>2, <1>3, ServedNumber DEF Calm
  <1>5. /\ UNCHANGED <<registered, sockets, epoll, owner>>
        /\ \A q \in Pools \ {p} : thread'[q] = thread[q]
        /\ thread'[p].pc = "serve" /\ thread'[p].events = thread[p].events
        /\ \A d \in Clients \ {c} : client'[d] = client[d]
        /\ client'[c].want = client[c].want
        /\ \/ client'[c].pc = "reset"
           \/ client'[c].pc = "served" /\ client'[c].got = MemFd(client[c].want)
        /\ \A n \in Numbers : n # thread[p].conn => fds'[n] = fds[n]
    BY <1>3, <1>4, SendFacts
  <1>6. ASSUME NEW q \in Pools \ {p}, thread[q].pc = "accepted"
        PROVE  /\ fds'[thread[q].conn] = fds[thread[q].conn]
               /\ \E d \in Clients : /\ fds[thread[q].conn] = Connection(d)
                                     /\ client'[d] = client[d] /\ client[d].pc = "accepted"
                                     /\ client[d].want \in BlocksOf(q)
                                     /\ registered[client[d].want] # None
                                     /\ <<registered[client[d].want], thread[q].fd>> \in sockets[q]
    <2>1. thread[q].conn \in Numbers /\ thread[q].conn # thread[p].conn
      BY <1>1, <1>2, <1>6 DEF ConnectionsFit
    <2>2. fds[thread[q].conn] # Connection(c)
      BY <1>2, <1>3, <1>6 DEF CalmInv, ClientsDiffer
    <2>. QED BY <1>1, <1>5, <1>6, <2>1, <2>2 DEF AcceptedFits
  <1>7. ASSUME NEW q \in Pools PROVE AcceptedFits(q)'
    <2>1. CASE q = p
      BY <1>5, <2>1 DEF AcceptedFits
    <2>2. CASE q # p
      <3>1. q \in Pools \ {p} /\ thread'[q] = thread[q] /\ BlocksOf(q)' = BlocksOf(q)
        BY <1>1, <1>5, <2>2
      <3>. QED BY <1>5, <1>6, <3>1 DEF AcceptedFits
    <2>. QED BY <2>1, <2>2
  <1>8. ClientsDiffer'
    BY <1>5, <1>6 DEF CalmInv, ClientsDiffer
  <1>9. ASSUME NEW q \in Pools PROVE EventsFit(q)' /\ FoundFits(q)'
    <2>1. /\ thread'[q].events = thread[q].events
          /\ thread'[q] = thread[q] \/ thread'[q].pc # "found"
      BY <1>5
    <2>2. EventsFit(q) /\ FoundFits(q) /\ BlocksOf(q)' = BlocksOf(q)
      BY <1>1
    <2>. QED BY <1>5, <2>1, <2>2 DEF EventsFit, FoundFits
  <1>10. ServedTheBlock'
    BY <1>5 DEF CalmInv, ServedTheBlock
  <1>11. \A d \in Clients : client'[d].pc = "queued" => client'[d].want \in Blocks
    BY <1>5 DEF CalmInv
  <1>. QED BY <1>7, <1>8, <1>9, <1>10, <1>11 DEF CalmInv

\* A client in a queue waits for a block, also while a pool is destroyed.
LEMMA QueuedForABlock ==
  ASSUME BrokerInv, CalmInv, [Next]_vars
  PROVE  \A c \in Clients : client'[c].pc = "queued" => client'[c].want \in Blocks
  <1>. SUFFICES ASSUME NEW c \in Clients, client'[c].pc = "queued", client'[c] # client[c]
                PROVE  client'[c].want \in Blocks
    BY DEF CalmInv
  <1>1. Typed /\ client[c] \in ClientStates
    BY InvFacts DEF Typed
  <1>2. CASE UNCHANGED vars
    BY <1>2 DEF vars
  <1>3. CASE Begin
    <2>1. ASSUME NEW d \in Clients, NEW b \in Blocks, Connect(d, b)
          PROVE  client'[c].want \in Blocks
      BY <1>1, <2>1 DEF Connect, Typed
    <2>2. ASSUME UNCHANGED client PROVE FALSE
      BY <2>2
    <2>. QED BY <1>3, <2>1, <2>2
             DEF Begin, CreateBlock, ListenFor, BeginDestroy, OpenOther, CloseOther
  <1>4. CASE \E p \in Pools : OwnerGoesOn(p)
    BY <1>1, <1>4
       DEF OwnerGoesOn, Duplicate, EnterSocket, Watch, WatchFails, DuplicateFails, RegisterFails,
           EraseSocket, CloseSocket, CloseDuplicate, Stop, ClosePool, ResetQueue, Typed,
           ClientStates
  <1>5. ASSUME NEW p \in Pools, Dispatch(p) PROVE client'[c].want \in Blocks
    <2>1. Accept(p) \/ Send(p)
      BY <1>5 DEF Dispatch, Wait, BatchDone, LookUp, AcceptFails
    <2>2. CASE Accept(p)
      BY <2>2, AcceptFacts
    <2>3. CASE Send(p)
      <3>1. \E d \in Clients : fds[thread[p].conn] = Connection(d)
        BY <2>3, InvFacts DEF Send, ConnectionsFit
      <3>. QED BY <2>3, <3>1, SendFacts
    <2>. QED BY <2>1, <2>2, <2>3
  <1>. QED BY <1>2, <1>3, <1>4, <1>5 DEF Next

\* The invariant of the process whose pools all live, with any number of them.
LEMMA NextCalmInv == BrokerInv /\ CalmInv /\ [Next]_vars => CalmInv'
  <1>. SUFFICES ASSUME BrokerInv, CalmInv, [Next]_vars, Calm' PROVE CalmInv'
    BY QueuedForABlock DEF CalmInv
  <1>1. Calm /\ BrokerInv'
    BY DestroyingStays, NextBrokerInv DEF Calm
  <1>2. CASE UNCHANGED vars
    BY <1>2 DEF vars, CalmInv, EventsFit, FoundFits, AcceptedFits, ClientsDiffer, ServedTheBlock,
                Calm, Destroying, BlocksOf
  <1>3. CASE Begin
    <2>1. ASSUME NEW p \in Pools, BeginDestroy(p) PROVE FALSE
      <3>1. owner'[p].pc = "removing"
        BY <2>1, InvFacts DEF BeginDestroy, To, Typed, Owners
      <3>. QED BY <3>1 DEF Calm, Destroying
    <2>. QED BY <1>1, <1>3, <2>1, CalmBegin
  <1>4. ASSUME NEW p \in Pools, OwnerGoesOn(p) PROVE CalmInv'
    <2>1. ~(EraseSocket(p) \/ CloseSocket(p) \/ CloseDuplicate(p) \/ Stop(p) \/ ClosePool(p))
      BY <1>1 DEF EraseSocket, CloseSocket, CloseDuplicate, Stop, ClosePool, Calm, Destroying
    <2>. QED BY <1>1, <1>4, <2>1, CalmRegistration DEF OwnerGoesOn
  <1>5. CASE \E p \in Pools : Dispatch(p)
    BY <1>1, <1>5, CalmLoop, CalmAccept, CalmSend DEF Dispatch
  <1>. QED BY <1>2, <1>3, <1>4, <1>5 DEF Next

\* Any number of pools, any number of clients, any other threads: while no pool is
\* being destroyed, a dispatcher's map never pairs a socket with another's memfd.
THEOREM CalmServing == Spec => [](BrokerInv /\ CalmInv)
  <1>1. Init => BrokerInv /\ CalmInv
    <2>1. Init => CalmInv
      BY DEF Init, CalmInv, EventsFit, FoundFits, AcceptedFits, ClientsDiffer, NoThread, NoClient,
             ServedTheBlock
    <2>. QED BY <2>1, InitBrokerInv
  <1>2. BrokerInv /\ CalmInv /\ [Next]_vars => BrokerInv' /\ CalmInv'
    BY NextBrokerInv, NextCalmInv
  <1>. QED BY <1>1, <1>2, PTL DEF Spec

\* Until the first pool is destroyed, every client that is served has the memfd of
\* the block it asked for, whoever else in the process opens and closes files.
THEOREM BrokerServesUntilDestruction == Spec => []ServedBeforeDestruction
  <1>1. CalmInv => ServedBeforeDestruction
    BY DEF CalmInv, Calm, ServedBeforeDestruction
  <1>. QED BY <1>1, CalmServing, PTL

-----------------------------------------------------------------------------
(* One pool: what a client receives while it is destroyed *)

\* A step in which the dispatcher does not move: files are closed, a block's memfd
\* after its socket, and other threads use the numbers.
LEMMA DestructionFrame ==
  ASSUME BrokerInv, DestructionInv, NEW p, Pools = {p}, Destroying(p), UNCHANGED thread,
         \A b \in Blocks, n, m \in Numbers :
           fds'[n] = Listener(b) =>
             fds[n] = Listener(b) /\ (fds[m] = MemFd(b) => fds'[m] = MemFd(b)),
         \A n \in Numbers : fds'[n] \in {fds[n], Closed} \cup OtherFiles,
         \A n \in Numbers, c \in Clients : fds[n] = Connection(c) => fds'[n] = Connection(c),
         \A c \in Clients : \/ client'[c] = client[c]
                            \/ client'[c].pc \in {"reset", "queued"}
                               /\ client[c].pc \in {"queued", "idle"}
  PROVE  DestructionInv'
  <1>1. ConnectionsFit /\ FoundAfter(p) /\ AcceptedAfter(p)
    BY InvFacts DEF DestructionInv
  <1>2. FoundAfter(p)'
    BY <1>1 DEF FoundAfter, ConnectionsFit
  <1>3. AcceptedAfter(p)'
    <2>1. ASSUME thread[p].pc = "accepted"
          PROVE  \E c \in Clients :
                   /\ fds'[thread[p].conn] = Connection(c) /\ client'[c].pc = "accepted"
                   /\ fds'[thread[p].fd] \in {MemFd(client'[c].want), Closed} \cup OtherFiles
      <3>1. thread[p].conn \in Numbers /\ thread[p].fd \in Numbers
        BY <1>1, <2>1 DEF ConnectionsFit
      <3>2. PICK c \in Clients :
              /\ fds[thread[p].conn] = Connection(c) /\ client[c].pc = "accepted"
              /\ fds[thread[p].fd] \in {MemFd(client[c].want), Closed} \cup OtherFiles
        BY <1>1, <2>1 DEF AcceptedAfter
      <3>3. client'[c] = client[c]
        BY <3>2
      <3>. QED BY <3>1, <3>2, <3>3
    <2>. QED BY <2>1 DEF AcceptedAfter, OtherFiles
  <1>4. NeverAnotherBlock'
    BY DEF DestructionInv, NeverAnotherBlock
  <1>. QED BY <1>2, <1>3, <1>4 DEF DestructionInv

\* The destructor begins: what the dispatcher holds now fits what it found.
LEMMA DestructionBegins ==
  ASSUME BrokerInv, CalmInv, DestructionInv, NEW p, Pools = {p}, BeginDestroy(p)
  PROVE  DestructionInv'
  <1>1. /\ Typed /\ ConnectionsFit /\ p \in Pools /\ ~Destroying(p) /\ owner[p].pc = "idle"
    BY InvFacts DEF BeginDestroy, NoOwner, Destroying
  <1>2. FoundFits(p) /\ AcceptedFits(p)
    BY <1>1 DEF CalmInv, Calm
  <1>3. UNCHANGED <<fds, thread, client>>
    BY DEF BeginDestroy
  <1>4. FoundAfter(p)'
    <2>1. ASSUME thread[p].pc = "found"
          PROVE  \A b \in Blocks :
                   fds[thread[p].sock] = Listener(b) => fds[thread[p].fd] = MemFd(b)
      <3>1. /\ thread[p].sock \in Numbers /\ thread[p].fd \in Numbers
            /\ <<thread[p].sock, thread[p].fd>> \in sockets[p]
        BY <1>1, <1>2, <2>1 DEF FoundFits, ConnectionsFit
      <3>. QED BY <1>1, <3>1, EntryNamesItsBlock, FileKinds
    <2>. QED BY <1>3, <2>1 DEF FoundAfter
  <1>5. AcceptedAfter(p)'
    <2>1. ASSUME thread[p].pc = "accepted"
          PROVE  \E c \in Clients : /\ fds[thread[p].conn] = Connection(c)
                                    /\ client[c].pc = "accepted"
                                    /\ fds[thread[p].fd] = MemFd(client[c].want)
      <3>1. thread[p].fd \in Numbers
        BY <1>1, <2>1 DEF ConnectionsFit
      <3>. QED BY <1>1, <1>2, <2>1, <3>1, ServedNumber DEF AcceptedFits
    <2>. QED BY <1>3, <2>1 DEF AcceptedAfter
  <1>6. NeverAnotherBlock'
    BY <1>3 DEF DestructionInv, NeverAnotherBlock
  <1>. QED BY <1>4, <1>5, <1>6 DEF DestructionInv

\* A client or another thread, while the pool is destroyed.
LEMMA DestructionBegin ==
  ASSUME BrokerInv, DestructionInv, NEW p, Pools = {p}, [Next]_vars, Destroying(p), Begin
  PROVE  DestructionInv'
  <1>1. Typed /\ \A b \in Blocks : PoolOf[b] = p
    BY InvFacts DEF Typed
  <1>2. owner[p] # NoOwner
    BY DEF Destroying, NoOwner
  <1>3. ASSUME NEW c \in Clients, NEW b \in Blocks, Connect(c, b) PROVE DestructionInv'
    <2>1. \A d \in Clients :
            client'[d] = client[d] \/ (client'[d].pc = "queued" /\ client[d].pc = "idle")
      BY <1>1, <1>3 DEF Connect, NoClient, Typed
    <2>. QED BY <1>3, <2>1, DestructionFrame DEF Connect
  <1>4. ASSUME NEW o \in Others, OpenOther(o) \/ CloseOther(o) PROVE DestructionInv'
    <2>1. \A n \in Numbers :
            \/ fds'[n] = fds[n]
            \/ fds[n] = Closed /\ fds'[n] = OtherFile(o)
            \/ fds[n] = OtherFile(o) /\ fds'[n] = Closed
      BY <1>4, OtherFileStep
    <2>2. UNCHANGED <<thread, client>>
      BY <1>4 DEF OpenOther, CloseOther
    <2>. QED BY <2>1, <2>2, FileKinds, DestructionFrame DEF OtherFiles
  <1>. QED BY <1>1, <1>2, <1>3, <1>4 DEF Begin, CreateBlock, ListenFor, BeginDestroy

\* A step of the destructor.
LEMMA DestructionGoesOn ==
  ASSUME BrokerInv, DestructionInv, NEW p, Pools = {p}, [Next]_vars,
         EraseSocket(p) \/ CloseSocket(p) \/ CloseDuplicate(p) \/ Stop(p) \/ ClosePool(p)
  PROVE  DestructionInv'
  <1>1. Typed /\ p \in Pools /\ owner[p] \in Owners
    BY InvFacts DEF Typed
  <1>2. UNCHANGED thread
    BY DEF EraseSocket, CloseSocket, CloseDuplicate, Stop, ClosePool
  <1>3. Destroying(p)
    BY DEF EraseSocket, CloseSocket, CloseDuplicate, Stop, ClosePool, Destroying
  <1>5. \A c \in Clients : \/ client'[c] = client[c]
                           \/ client'[c].pc = "reset" /\ client[c].pc = "queued"
    <2>1. CASE CloseSocket(p)
      BY <1>1, <2>1 DEF CloseSocket, ResetQueue, Queue, Typed, ClientStates
    <2>2. CASE ~CloseSocket(p)
      BY <2>2 DEF EraseSocket, CloseDuplicate, Stop, ClosePool
    <2>. QED BY <2>1, <2>2
  <1>6. PICK x : x = owner[p].block
    OBVIOUS
  <1>7. CASE EraseSocket(p) \/ Stop(p)
    <2>1. UNCHANGED fds
      BY <1>7 DEF EraseSocket, Stop
    <2>. QED BY <1>2, <1>3, <1>5, <2>1, DestructionFrame
  <1>8. CASE CloseSocket(p)
    <2>1. owner[p].pc \in Removing /\ owner[p].pc = "erased"
      BY <1>8 DEF CloseSocket, Removing
    <2>2. owner[p].sock \in Numbers /\ fds[owner[p].sock] = Listener(x)
      BY <1>1, <1>6, <2>1, Removal
    <2>3. /\ fds'[owner[p].sock] = Closed
          /\ \A n \in Numbers \ {owner[p].sock} : fds'[n] = fds[n]
      BY <1>1, <1>8, <2>2 DEF CloseSocket, Close, Typed
    <2>. QED BY <1>2, <1>3, <1>5, <2>2, <2>3, FileKinds, DestructionFrame
  <1>9. CASE CloseDuplicate(p)
    <2>1. owner[p].pc \in Removing /\ owner[p].pc = "unwatched"
      BY <1>9 DEF CloseDuplicate, Removing
    <2>2. /\ x \in Blocks /\ owner[p].dup \in Numbers /\ fds[owner[p].dup] = MemFd(x)
          /\ \A n \in Numbers : ~HoldsSock(x, n)
      BY <1>1, <1>6, <2>1, Removal
    <2>3. \A n \in Numbers : fds[n] # Listener(x)
      BY <2>2, InvFacts DEF FilesAreHeld
    <2>4. /\ fds'[owner[p].dup] = Closed
          /\ \A n \in Numbers \ {owner[p].dup} : fds'[n] = fds[n]
      BY <1>1, <1>9, <2>2 DEF CloseDuplicate, CloseServed, Close, Typed
    <2>5. ASSUME NEW b \in Blocks, NEW n \in Numbers, NEW m \in Numbers,
                 fds'[n] = Listener(b)
          PROVE  fds[n] = Listener(b) /\ (fds[m] = MemFd(b) => fds'[m] = MemFd(b))
      <3>1. fds[n] = Listener(b) /\ b # x
        BY <2>3, <2>4, <2>5, FileKinds
      <3>. QED BY <2>2, <2>4, <3>1, FileKinds
    <2>6. \A n \in Numbers, c \in Clients : fds[n] = Connection(c) => fds'[n] = Connection(c)
      BY <2>2, <2>4, FileKinds
    <2>. QED BY <1>2, <1>3, <1>5, <2>4, <2>5, <2>6, DestructionFrame
  <1>10. CASE ClosePool(p)
    <2>1. thread[p].pc = "exited" /\ UNCHANGED <<thread, client>>
      BY <1>10 DEF ClosePool
    <2>. QED BY <2>1 DEF DestructionInv, FoundAfter, AcceptedAfter, NeverAnotherBlock
  <1>. QED BY <1>7, <1>8, <1>9, <1>10

\* The dispatcher goes on while the pool is destroyed.
LEMMA DestructionDispatch ==
  ASSUME BrokerInv, DestructionInv, NEW p, Pools = {p}, [Next]_vars, Destroying(p), Dispatch(p)
  PROVE  DestructionInv'
  <1>1. /\ Typed /\ ConnectionsFit /\ p \in Pools /\ thread[p] \in Threads
        /\ FoundAfter(p) /\ AcceptedAfter(p)
    BY InvFacts DEF Typed, DestructionInv
  <1>2. ASSUME UNCHANGED <<fds, client>>, FoundAfter(p)', thread'[p].pc # "accepted"
        PROVE  DestructionInv'
    BY <1>2 DEF DestructionInv, AcceptedAfter, NeverAnotherBlock
  <1>3. CASE Wait(p) \/ BatchDone(p) \/ AcceptFails(p)
    <2>1. UNCHANGED <<fds, client>>
      BY <1>3 DEF Wait, BatchDone, AcceptFails
    <2>2. CASE Wait(p)
      <3>1. CASE running[p]
        <4>1. thread' = [thread EXCEPT ![p] = [@ EXCEPT !.pc = "serve", !.events = Ready(p)]]
          BY <2>2, <3>1 DEF Wait
        <4>2. thread'[p].pc = "serve"
          BY <1>1, <4>1 DEF Typed, Threads
        <4>. QED BY <1>2, <2>1, <4>2 DEF FoundAfter
      <3>2. CASE ~running[p]
        <4>1. thread'[p].pc = "exited"
          BY <1>1, <2>2, <3>2 DEF Wait, Typed, Threads
        <4>. QED BY <1>2, <2>1, <4>1 DEF FoundAfter
      <3>. QED BY <3>1, <3>2
    <2>3. CASE BatchDone(p)
      <3>1. thread'[p].pc = "wait"
        BY <1>1, <2>3 DEF BatchDone, NoThread, Typed
      <3>. QED BY <1>2, <2>1, <3>1 DEF FoundAfter
    <2>4. CASE AcceptFails(p)
      <3>1. thread'[p].pc = "serve"
        BY <1>1, <2>4 DEF AcceptFails, Typed, Threads
      <3>. QED BY <1>2, <2>1, <3>1 DEF FoundAfter
    <2>. QED BY <1>3, <2>2, <2>3, <2>4
  <1>4. CASE LookUp(p)
    <2>1. UNCHANGED <<fds, client>>
      BY <1>4 DEF LookUp
    <2>2. PICK n \in thread[p].events :
            \/ \E entry \in sockets[p] :
                 /\ entry[1] = n
                 /\ thread' = [thread EXCEPT ![p] =
                      [@ EXCEPT !.pc = "found", !.events = thread[p].events \ {n}, !.sock = n,
                                !.fd = entry[2]]]
            \/ thread[p].pc = "serve" /\ thread' = [thread EXCEPT ![p].events = @ \ {n}]
      BY <1>4 DEF LookUp
    <2>3. ASSUME thread[p].pc = "serve", thread' = [thread EXCEPT ![p].events = @ \ {n}]
          PROVE  DestructionInv'
      <3>1. thread'[p].pc = "serve"
        BY <1>1, <2>3 DEF Typed, Threads
      <3>. QED BY <1>2, <2>1, <3>1 DEF FoundAfter
    <2>4. ASSUME NEW entry \in sockets[p], entry[1] = n,
                 thread' = [thread EXCEPT ![p] =
                   [@ EXCEPT !.pc = "found", !.events = thread[p].events \ {n}, !.sock = n,
                             !.fd = entry[2]]]
          PROVE  DestructionInv'
      <3>1. thread'[p].pc = "found" /\ thread'[p].sock = n /\ thread'[p].fd = entry[2]
        BY <1>1, <2>4 DEF Typed, Threads
      <3>2. n \in Numbers /\ entry[2] \in Numbers /\ <<n, entry[2]>> \in sockets[p]
        BY <1>1, <2>4 DEF Typed
      <3>3. owner[p].pc # "entered"
        BY DEF Destroying
      <3>4. \A b \in Blocks : fds[n] = Listener(b) => fds[entry[2]] = MemFd(b)
        BY <1>1, <3>2, <3>3, EntryNamesItsBlock, FileKinds
      <3>. QED BY <1>2, <2>1, <3>1, <3>4 DEF FoundAfter
    <2>. QED BY <2>2, <2>3, <2>4
  <1>5. CASE Accept(p)
    <2>1. PICK b \in Blocks, c \in Clients :
            /\ fds[thread[p].sock] = Listener(b)
            /\ client[c].pc = "queued" /\ client[c].want = b
            /\ client'[c].pc = "accepted" /\ client'[c].want = b
            /\ \A d \in Clients \ {c} : client'[d] = client[d]
            /\ fds'[NewNumber] = Connection(c)
      BY <1>1, <1>5, AcceptFacts
    <2>2. /\ thread[p].fd \in Numbers /\ thread[p].pc = "found"
          /\ thread'[p].pc = "accepted" /\ thread'[p].conn = NewNumber
          /\ thread'[p].fd = thread[p].fd
          /\ NewNumber \in Numbers /\ fds[NewNumber] = Closed
          /\ fds' = [fds EXCEPT ![NewNumber] = fds'[NewNumber]]
      BY <1>1, <1>5, AcceptFacts
    <2>3. fds[thread[p].fd] = MemFd(b)
      BY <1>1, <2>1, <2>2 DEF FoundAfter
    <2>4. fds'[thread[p].fd] = MemFd(b)
      BY <1>1, <2>2, <2>3, FileKinds DEF Typed
    <2>5. AcceptedAfter(p)' /\ FoundAfter(p)'
      BY <2>1, <2>2, <2>4 DEF AcceptedAfter, FoundAfter
    <2>6. NeverAnotherBlock'
      BY <2>1 DEF DestructionInv, NeverAnotherBlock
    <2>. QED BY <2>5, <2>6 DEF DestructionInv
  <1>6. CASE Send(p)
    <2>1. PICK c \in Clients :
            /\ fds[thread[p].conn] = Connection(c)
            /\ fds[thread[p].fd] \in {MemFd(client[c].want), Closed} \cup OtherFiles
      BY <1>1, <1>6 DEF Send, AcceptedAfter
    <2>2. /\ thread'[p].pc = "serve"
          /\ \A d \in Clients \ {c} : client'[d] = client[d]
          /\ client'[c].want = client[c].want
          /\ \/ client'[c].pc = "reset"
             \/ /\ client'[c].pc = "served"
                /\ client'[c].got \in {MemFd(client[c].want)} \cup OtherFiles
      BY <1>1, <1>6, <2>1, SendFacts
    <2>3. NeverAnotherBlock'
      BY <2>2 DEF DestructionInv, NeverAnotherBlock, OtherFiles
    <2>. QED BY <2>2, <2>3 DEF DestructionInv, FoundAfter, AcceptedAfter
  <1>. QED BY <1>3, <1>4, <1>5, <1>6 DEF Dispatch

\* The client of a process with one pool never receives another block's memfd, also
\* while the pool is destroyed under its dispatcher and other threads take the
\* numbers that are closed.
THEOREM BrokerNeverServesAnotherBlock ==
  ASSUME NEW p, Pools = {p} PROVE Spec => []NeverAnotherBlock
  <1>1. Init => DestructionInv
    BY DEF Init, DestructionInv, Destroying, NoOwner, NoClient, NeverAnotherBlock
  <1>2. BrokerInv /\ CalmInv /\ DestructionInv /\ [Next]_vars /\ CalmInv' => DestructionInv'
    <2>. SUFFICES ASSUME BrokerInv, CalmInv, DestructionInv, [Next]_vars, CalmInv'
                  PROVE  DestructionInv'
      OBVIOUS
    <2>1. CASE ~Destroying(p)'
      <3>1. ServedTheBlock'
        BY <2>1 DEF CalmInv, Calm
      <3>2. NeverAnotherBlock'
        BY <3>1 DEF ServedTheBlock, NeverAnotherBlock
      <3>. QED BY <2>1, <3>2 DEF DestructionInv
    <2>2. CASE Destroying(p)' /\ ~Destroying(p)
      <3>1. BeginDestroy(p)
        <4>1. Typed /\ owner[p] \in Owners /\ \A b \in Blocks : PoolOf[b] = p
          BY InvFacts DEF Typed
        <4>2. UNCHANGED owner => FALSE
          BY <2>2 DEF Destroying
        <4>3. CASE Begin
          <5>1. ASSUME NEW b \in Blocks, ListenFor(b) PROVE FALSE
            <6>1. owner'[p].pc = "listening"
              BY <4>1, <5>1 DEF ListenFor, Typed
            <6>. QED BY <2>2, <6>1 DEF Destroying
          <5>. QED BY <4>2, <4>3, <5>1 DEF Begin, CreateBlock, Connect, OpenOther, CloseOther
        <4>4. CASE OwnerGoesOn(p)
          <5>1. \/ Duplicate(p) \/ EnterSocket(p) \/ Watch(p)
                \/ WatchFails(p) \/ DuplicateFails(p) \/ RegisterFails(p)
            BY <2>2, <4>4 DEF OwnerGoesOn, EraseSocket, CloseSocket, CloseDuplicate, Stop,
                              ClosePool, Destroying
          <5>2. owner'[p].pc \in Registering \cup {"idle"}
            <6>1. CASE EnterSocket(p) \/ WatchFails(p) \/ DuplicateFails(p)
              BY <4>1, <6>1 DEF EnterSocket, WatchFails, DuplicateFails, To, Registering, Typed,
                                Owners
            <6>2. CASE Watch(p) \/ RegisterFails(p)
              BY <4>1, <6>2 DEF Watch, RegisterFails, NoOwner, Typed
            <6>3. CASE Duplicate(p)
              BY <4>1, <6>3 DEF Duplicate, Registering, Typed, Owners
            <6>. QED BY <5>1, <6>1, <6>2, <6>3
          <5>. QED BY <2>2, <5>2 DEF Destroying, Registering
        <4>5. CASE Dispatch(p) \/ UNCHANGED vars
          BY <4>2, <4>5 DEF Dispatch, Wait, BatchDone, LookUp, Accept, AcceptFails, Send, vars
        <4>. QED BY <4>3, <4>4, <4>5 DEF Next
      <3>. QED BY <3>1, DestructionBegins
    <2>3. CASE Destroying(p)
      <3>1. CASE UNCHANGED vars
        BY <3>1 DEF vars, DestructionInv, FoundAfter, AcceptedAfter, NeverAnotherBlock, Destroying
      <3>2. CASE OwnerGoesOn(p)
        <4>1. EraseSocket(p) \/ CloseSocket(p) \/ CloseDuplicate(p) \/ Stop(p) \/ ClosePool(p)
          BY <2>3, <3>2 DEF OwnerGoesOn, Destroying, Duplicate, EnterSocket, Watch, WatchFails,
                            DuplicateFails, RegisterFails
        <4>. QED BY <4>1, DestructionGoesOn
      <3>. QED BY <2>3, <3>1, <3>2, DestructionBegin, DestructionDispatch DEF Next
    <2>. QED BY <2>1, <2>2, <2>3
  <1>3. DestructionInv => NeverAnotherBlock
    BY DEF DestructionInv
  <1>. QED BY <1>1, <1>2, <1>3, CalmServing, PTL DEF Spec
=============================================================================
