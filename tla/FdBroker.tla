------------------------------- MODULE FdBroker -------------------------------
(***************************************************************************)
(* SharedBufferFdBroker on Linux (shared_buffer_platform_linux.cpp): in    *)
(* one publisher process, pools that register their blocks, a dispatcher   *)
(* thread for each pool that passes the memfd of a block to whoever        *)
(* connects to the block's socket, and the destruction of a pool while its *)
(* dispatcher runs.                                                        *)
(*                                                                         *)
(* The kernel is external: descriptor numbers are those of the process,    *)
(* a new one is the lowest that is free, a listening socket queues its     *)
(* clients, closing it resets them, and epoll reports a registered socket  *)
(* while it has clients.  epoll_wait() fails only with EINTR, which is a   *)
(* wait that returns.                                                      *)
(*                                                                         *)
(* The rest of the process opens and closes files of its own at any time:  *)
(* above all receive_fd_from_socket, which an importing thread runs (a     *)
(* socket, then the descriptor it receives), and the dispatchers' epoll    *)
(* and eventfd descriptors.  None of these is a listening socket.          *)
(***************************************************************************)
EXTENDS Integers, FiniteSets

CONSTANTS
  Pools,        \* SharedBufferMemoryPool objects of the process
  Blocks,       \* their blocks
  PoolOf,       \* PoolOf[b]: the pool of b
  Clients,      \* import_platform_mapping calls of other processes
  Others,       \* what else the process may hold open
  MaxFd         \* the limit of the process: descriptor numbers 0 .. MaxFd

VARIABLES
  fds,          \* fds[n]: the file behind number n
  native,       \* native[b]: SharedBufferBlock::native_handle
  path,         \* path[b]: the socket file of b exists in /tmp
  registered,   \* registered[b]: server_socket of the RegisteredBlock
  sockets,      \* sockets[p]: FDDispatcher::sockets_, pairs <<server socket, dup>>
  epoll,        \* epoll[p]: the epoll set, pairs <<number, block of the listener>>
  running,      \* running[p]: running_
  owner,        \* owner[p]: the thread that is inside register_block or the destructor
  thread,       \* thread[p]: the dispatcher thread
  client        \* client[c]: a subscriber that connects to the socket of a block

vars == <<fds, native, path, registered, sockets, epoll, running, owner, thread, client>>

ASSUME BrokerAssumption ==
  /\ PoolOf \in [Blocks -> Pools]
  /\ IsFiniteSet(Clients) /\ IsFiniteSet(Blocks)
  /\ MaxFd \in Nat

-----------------------------------------------------------------------------
(* Files and descriptor numbers *)

None == -1
Numbers == 0 .. MaxFd
Closed == [kind |-> "closed", of |-> None]
MemFd(b) == [kind |-> "memfd", of |-> b]
Listener(b) == [kind |-> "listener", of |-> b]
Connection(c) == [kind |-> "connection", of |-> c]
OtherFile(o) == [kind |-> "other", of |-> o]

FreeNumbers == {n \in Numbers : fds[n] = Closed}
NewNumber == CHOOSE n \in FreeNumbers : \A m \in FreeNumbers : n <= m

Open(file) == fds' = [fds EXCEPT ![NewNumber] = file]
Close(n) == fds' = [fds EXCEPT ![n] = Closed]

BlocksOf(p) == {b \in Blocks : PoolOf[b] = p}

\* Clients in the queue of b's listening socket
Queue(b) == {c \in Clients : client[c].pc = "queued" /\ client[c].want = b}

\* Closing the listening socket of b resets them.
ResetQueue(b) ==
  client' = [c \in Clients |-> IF c \in Queue(b) THEN [client[c] EXCEPT !.pc = "reset"]
                                                 ELSE client[c]]

NoOwner == [pc |-> "idle", block |-> None, sock |-> None, dup |-> None]
NoThread == [pc |-> "wait", events |-> {}, sock |-> None, fd |-> None, conn |-> None]
NoClient == [pc |-> "idle", want |-> None, got |-> Closed]

Init ==
  /\ fds = [n \in Numbers |-> Closed]
  /\ native = [b \in Blocks |-> None]
  /\ path = [b \in Blocks |-> FALSE]
  /\ registered = [b \in Blocks |-> None]
  /\ sockets = [p \in Pools |-> {}]
  /\ epoll = [p \in Pools |-> {}]
  /\ running = [p \in Pools |-> TRUE]
  /\ owner = [p \in Pools |-> NoOwner]
  /\ thread = [p \in Pools |-> NoThread]
  /\ client = [c \in Clients |-> NoClient]

\* create_platform_mapping for a new block
CreateBlock(b) ==
  /\ owner[PoolOf[b]] = NoOwner
  /\ native[b] = None
  /\ FreeNumbers # {}
  /\ Open(MemFd(b))
  /\ native' = [native EXCEPT ![b] = NewNumber]
  /\ UNCHANGED <<path, registered, sockets, epoll, running, owner, thread, client>>

-----------------------------------------------------------------------------
(* SharedBufferFdBroker::register_block, under the mutexes of pool and broker *)

To(p, pc) == owner' = [owner EXCEPT ![p].pc = pc]

\* create_fd_server_socket: from here on clients can connect.
ListenFor(b) ==
  LET p == PoolOf[b] IN
  /\ owner[p] = NoOwner
  /\ native[b] # None
  /\ registered[b] = None
  /\ FreeNumbers # {}
  /\ Open(Listener(b))
  /\ path' = [path EXCEPT ![b] = TRUE]
  /\ owner' = [owner EXCEPT ![p] = [pc |-> "listening", block |-> b, sock |-> NewNumber,
                                    dup |-> None]]
  /\ UNCHANGED <<native, registered, sockets, epoll, running, thread, client>>

\* Mutant: a dup() that failed goes unnoticed.
DuplicateUnchecked(p) ==
  /\ owner[p].pc = "listening"
  /\ owner' = [owner EXCEPT ![p].pc = "duplicated"]
  /\ UNCHANGED <<fds, native, path, registered, sockets, epoll, running, thread, client>>

\* add_socket: the block's descriptor is duplicated ...
Duplicate(p) ==
  /\ owner[p].pc = "listening"
  /\ running[p]
  /\ FreeNumbers # {}
  /\ Open(MemFd(owner[p].block))
  /\ owner' = [owner EXCEPT ![p] = [@ EXCEPT !.pc = "duplicated", !.dup = NewNumber]]
  /\ UNCHANGED <<native, path, registered, sockets, epoll, running, thread, client>>

\* ... entered in the map ...
EnterSocket(p) ==
  /\ owner[p].pc = "duplicated"
  /\ sockets' = [sockets EXCEPT ![p] = @ \cup {<<owner[p].sock, owner[p].dup>>}]
  /\ To(p, "entered")
  /\ UNCHANGED <<fds, native, path, registered, epoll, running, thread, client>>

\* Mutant: the socket is not given to epoll.
Unwatched(p) == epoll[p]

Watched(p) == epoll[p] \cup {<<owner[p].sock, owner[p].block>>}

\* ... and watched; the block is registered.
Watch(p) ==
  /\ owner[p].pc = "entered"
  /\ epoll' = [epoll EXCEPT ![p] = Watched(p)]
  /\ registered' = [registered EXCEPT ![owner[p].block] = owner[p].sock]
  /\ owner' = [owner EXCEPT ![p] = NoOwner]
  /\ UNCHANGED <<fds, native, path, sockets, running, thread, client>>

\* epoll_ctl fails: the entry is erased and the duplicate closed.
WatchFails(p) ==
  /\ owner[p].pc = "entered"
  /\ sockets' = [sockets EXCEPT ![p] = @ \ {<<owner[p].sock, owner[p].dup>>}]
  /\ Close(owner[p].dup)
  /\ To(p, "failed")
  /\ UNCHANGED <<native, path, registered, epoll, running, thread, client>>

\* dup fails, or the dispatcher never started.
DuplicateFails(p) ==
  /\ owner[p].pc = "listening"
  /\ To(p, "failed")
  /\ UNCHANGED <<fds, native, path, registered, sockets, epoll, running, thread, client>>

\* register_block closes and unlinks the socket and throws.
RegisterFails(p) ==
  LET b == owner[p].block IN
  /\ owner[p].pc = "failed"
  /\ Close(owner[p].sock)
  /\ ResetQueue(b)
  /\ path' = [path EXCEPT ![b] = FALSE]
  /\ owner' = [owner EXCEPT ![p] = NoOwner]
  /\ UNCHANGED <<native, registered, sockets, epoll, running, thread>>

-----------------------------------------------------------------------------
(* ~SharedBufferMemoryPool, ~SharedBufferFdBroker, ~FDDispatcher *)

BeginDestroy(p) ==
  /\ owner[p] = NoOwner
  /\ To(p, "removing")
  /\ UNCHANGED <<fds, native, path, registered, sockets, epoll, running, thread, client>>

WithoutEntry(p, entry) == sockets[p] \ {entry}

\* remove_socket: the entry leaves the map first ...
EraseSocket(p) ==
  \E b \in BlocksOf(p), entry \in sockets[p] :
    /\ owner[p].pc = "removing"
    /\ registered[b] = entry[1]
    /\ sockets' = [sockets EXCEPT ![p] = WithoutEntry(p, entry)]
    /\ owner' = [owner EXCEPT ![p] = [pc |-> "erased", block |-> b, sock |-> entry[1],
                                      dup |-> entry[2]]]
    /\ UNCHANGED <<fds, native, path, registered, epoll, running, thread, client>>

\* ... then the socket is unwatched and closed ...
CloseSocket(p) ==
  LET b == owner[p].block IN
  /\ owner[p].pc = "erased"
  /\ epoll' = [epoll EXCEPT ![p] = @ \ {<<owner[p].sock, b>>}]
  /\ Close(owner[p].sock)
  /\ ResetQueue(b)
  /\ To(p, "unwatched")
  /\ UNCHANGED <<native, path, registered, sockets, running, thread>>

\* Mutant: the duplicate is left open.
KeepDuplicate(p) == UNCHANGED fds

CloseServed(p) == Close(owner[p].dup)

\* ... and the duplicate closed; ~SharedBufferFdBroker unlinks the path.
CloseDuplicate(p) ==
  LET b == owner[p].block IN
  /\ owner[p].pc = "unwatched"
  /\ CloseServed(p)
  /\ path' = [path EXCEPT ![b] = FALSE]
  /\ registered' = [registered EXCEPT ![b] = None]
  /\ owner' = [owner EXCEPT ![p] = [NoOwner EXCEPT !.pc = "removing"]]
  /\ UNCHANGED <<native, sockets, epoll, running, thread, client>>

\* Mutant: the thread is woken up, but running_ stays set.
StillRunning(p) == running

Stopped(p) == [running EXCEPT ![p] = FALSE]

\* stop(): running_ is cleared and the thread is woken up.
Stop(p) ==
  /\ owner[p].pc = "removing"
  /\ \A b \in BlocksOf(p) : registered[b] = None
  /\ running' = Stopped(p)
  /\ To(p, "joining")
  /\ UNCHANGED <<fds, native, path, registered, sockets, epoll, thread, client>>

\* thread_.join(), then the pool closes the descriptors of its blocks.
ClosePool(p) ==
  /\ owner[p].pc = "joining"
  /\ thread[p].pc = "exited"
  /\ fds' = [n \in Numbers |-> IF \E b \in BlocksOf(p) : native[b] = n THEN Closed ELSE fds[n]]
  /\ native' = [b \in Blocks |-> IF b \in BlocksOf(p) THEN None ELSE native[b]]
  /\ To(p, "gone")
  /\ UNCHANGED <<path, registered, sockets, epoll, running, thread, client>>

-----------------------------------------------------------------------------
(* FDDispatcher::run *)

Ready(p) == {e[1] : e \in {e \in epoll[p] : Queue(e[2]) # {}}}

\* epoll_wait() reports up to 16 sockets; the event of stop() has no entry.
Wait(p) ==
  /\ thread[p].pc = "wait"
  /\ IF running[p]
     THEN /\ Ready(p) # {}
          /\ thread' = [thread EXCEPT ![p] = [@ EXCEPT !.pc = "serve", !.events = Ready(p)]]
     ELSE thread' = [thread EXCEPT ![p].pc = "exited"]
  /\ UNCHANGED <<fds, native, path, registered, sockets, epoll, running, owner, client>>

BatchDone(p) ==
  /\ thread[p].pc = "serve"
  /\ thread[p].events = {}
  /\ thread' = [thread EXCEPT ![p] = NoThread]
  /\ UNCHANGED <<fds, native, path, registered, sockets, epoll, running, owner, client>>

\* sockets_.find under the mutex; afterwards the numbers are used without it.
LookUp(p) ==
  \E n \in thread[p].events :
    /\ thread[p].pc = "serve"
    /\ \/ \E entry \in sockets[p] :
            /\ entry[1] = n
            /\ thread' = [thread EXCEPT ![p] =
                 [@ EXCEPT !.pc = "found", !.events = thread[p].events \ {n}, !.sock = n,
                           !.fd = entry[2]]]
       \/ /\ \A entry \in sockets[p] : entry[1] # n
          /\ thread' = [thread EXCEPT ![p].events = @ \ {n}]
    /\ UNCHANGED <<fds, native, path, registered, sockets, epoll, running, owner, client>>

\* accept4() takes the next client of whatever socket the number names now; it
\* blocks on a listening socket without clients.
Accept(p) ==
  /\ thread[p].pc = "found"
  /\ fds[thread[p].sock].kind = "listener"
  /\ FreeNumbers # {}
  /\ \E c \in Queue(fds[thread[p].sock].of) :
       /\ Open(Connection(c))
       /\ client' = [client EXCEPT ![c].pc = "accepted"]
       /\ thread' = [thread EXCEPT ![p] = [@ EXCEPT !.pc = "accepted", !.conn = NewNumber]]
  /\ UNCHANGED <<native, path, registered, sockets, epoll, running, owner>>

\* The number does not name a listening socket, or the process is at its limit.
AcceptFails(p) ==
  /\ thread[p].pc = "found"
  /\ fds[thread[p].sock].kind # "listener" \/ FreeNumbers = {}
  /\ thread' = [thread EXCEPT ![p].pc = "serve"]
  /\ UNCHANGED <<fds, native, path, registered, sockets, epoll, running, owner, client>>

\* The client whose connection has number n
Peer(n) == fds[n].of

\* Mutant: a descriptor of the pool is sent, not the one that was found.
SomeFile(p) == MemFd(CHOOSE b \in BlocksOf(p) : TRUE)

\* Whatever the number that was found names now
FoundFile(p) == fds[thread[p].fd]

HangUp(p) == Close(thread[p].conn)

\* send_fd, which fails on a closed number; then the connection is closed.
Send(p) ==
  /\ thread[p].pc = "accepted"
  /\ client' = [client EXCEPT ![Peer(thread[p].conn)] =
       IF FoundFile(p) = Closed THEN [@ EXCEPT !.pc = "reset"]
                                ELSE [@ EXCEPT !.pc = "served", !.got = FoundFile(p)]]
  /\ HangUp(p)
  /\ thread' = [thread EXCEPT ![p].pc = "serve"]
  /\ UNCHANGED <<native, path, registered, sockets, epoll, running, owner>>

-----------------------------------------------------------------------------
(* receive_fd_from_socket of a subscriber: connect, then wait for the answer *)

Connect(c, b) ==
  /\ client[c] = NoClient
  /\ path[b]
  /\ \E n \in Numbers : fds[n] = Listener(b)
  /\ client' = [client EXCEPT ![c] = [pc |-> "queued", want |-> b, got |-> Closed]]
  /\ UNCHANGED <<fds, native, path, registered, sockets, epoll, running, owner, thread>>

-----------------------------------------------------------------------------
(* Other threads of the process: receive_fd_from_socket and whoever has files *)

OpenOther(o) ==
  /\ \A n \in Numbers : fds[n] # OtherFile(o)
  /\ FreeNumbers # {}
  /\ Open(OtherFile(o))
  /\ UNCHANGED <<native, path, registered, sockets, epoll, running, owner, thread, client>>

CloseOther(o) ==
  /\ \E n \in Numbers : fds[n] = OtherFile(o) /\ Close(n)
  /\ UNCHANGED <<native, path, registered, sockets, epoll, running, owner, thread, client>>

-----------------------------------------------------------------------------
(* The process *)

Begin ==
  \/ \E b \in Blocks : CreateBlock(b) \/ ListenFor(b)
  \/ \E p \in Pools : BeginDestroy(p)
  \/ \E c \in Clients, b \in Blocks : Connect(c, b)
  \/ \E o \in Others : OpenOther(o) \/ CloseOther(o)

\* A call of register_block or of the destructor goes on.
OwnerGoesOn(p) ==
  \/ Duplicate(p) \/ EnterSocket(p) \/ Watch(p)
  \/ WatchFails(p) \/ DuplicateFails(p) \/ RegisterFails(p)
  \/ EraseSocket(p) \/ CloseSocket(p) \/ CloseDuplicate(p) \/ Stop(p) \/ ClosePool(p)

\* The loop of the dispatcher goes on.
Dispatch(p) ==
  Wait(p) \/ BatchDone(p) \/ LookUp(p) \/ Accept(p) \/ AcceptFails(p) \/ Send(p)

Next ==
  \/ Begin
  \/ \E p \in Pools : OwnerGoesOn(p) \/ Dispatch(p)

Spec == Init /\ [][Next]_vars

\* The scheduler runs every thread that is not blocked; nobody has to call.
FairSpec ==
  Spec /\ \A p \in Pools : WF_vars(OwnerGoesOn(p)) /\ WF_vars(Dispatch(p))

-----------------------------------------------------------------------------
(* Properties *)

Files ==
  {Closed} \cup {MemFd(b) : b \in Blocks} \cup {Listener(b) : b \in Blocks}
    \cup {Connection(c) : c \in Clients} \cup {OtherFile(o) : o \in Others}
MaybeNumber == Numbers \cup {None}

\* Every variable has the type of what it stands for in the broker, the pool and the kernel.
TypeOK ==
  /\ fds \in [Numbers -> Files]
  /\ native \in [Blocks -> MaybeNumber]
  /\ path \in [Blocks -> BOOLEAN]
  /\ registered \in [Blocks -> MaybeNumber]
  /\ \A p \in Pools : sockets[p] \subseteq Numbers \X Numbers
  /\ \A p \in Pools : epoll[p] \subseteq Numbers \X BlocksOf(p)
  /\ running \in [Pools -> BOOLEAN]
  /\ owner \in [Pools ->
       [pc : {"idle", "listening", "duplicated", "entered", "failed", "removing", "erased",
              "unwatched", "joining", "gone"},
        block : Blocks \cup {None}, sock : MaybeNumber, dup : MaybeNumber]]
  /\ thread \in [Pools ->
       [pc : {"wait", "serve", "found", "accepted", "exited"}, events : SUBSET Numbers,
        sock : MaybeNumber, fd : MaybeNumber, conn : MaybeNumber]]
  /\ client \in [Clients ->
       [pc : {"idle", "queued", "accepted", "served", "reset"},
        want : Blocks \cup {None}, got : Files]]

\* A subscriber that connected to the socket of a block receives the memfd of
\* that block and no other file, whatever the owner closes meanwhile
\* (FDDispatcher::run against remove_socket).
ServedTheBlock ==
  \A c \in Clients : client[c].pc = "served" => client[c].got = MemFd(client[c].want)

Destroying(p) == owner[p].pc \in {"removing", "erased", "unwatched", "joining", "gone"}

\* As long as no pool of the process is being destroyed, this is so: the numbers
\* that a dispatcher has looked up and uses after the unlock (FDDispatcher::run)
\* name the same files until the send, although registrations fail and close
\* theirs (register_block, add_socket), and other threads open and close files.
ServedBeforeDestruction == (\A p \in Pools : ~Destroying(p)) => ServedTheBlock

\* A process with one pool never hands out another block's memfd, not even while
\* the pool is destroyed under its dispatcher (remove_socket closes the socket
\* before the duplicate): at worst the client gets a file that another thread opened.
NeverAnotherBlock ==
  \A c \in Clients : client[c].pc = "served" =>
    client[c].got \in {MemFd(client[c].want)} \cup {OtherFile(o) : o \in Others}

HowMany(file) == Cardinality({n \in Numbers : fds[n] = file})
Held(b, numbers) == IF numbers[b] = None THEN 0 ELSE 1

\* Between calls the process holds exactly the descriptors its pools know of:
\* the pool's own, and for a registered block one listening socket with its
\* path and one duplicate.  Neither a registration that failed half-way nor
\* the destruction leaks a descriptor or a path, or closes one twice.
DescriptorAccounting ==
  \A p \in Pools : owner[p].pc \in {"idle", "gone"} =>
    \A b \in BlocksOf(p) :
      /\ HowMany(MemFd(b)) = Held(b, native) + Held(b, registered)
      /\ HowMany(Listener(b)) = Held(b, registered)
      /\ path[b] = (registered[b] # None)

\* Every client of a socket is answered, with a descriptor or by a closed connection.
ClientAnswered ==
  \A c \in Clients : client[c].pc = "queued" ~> client[c].pc \in {"served", "reset"}

\* A destructor that has begun returns: the dispatcher is woken up and joined.
DestroyReturns ==
  \A p \in Pools : owner[p].pc = "removing" ~> owner[p].pc = "gone"
=============================================================================
