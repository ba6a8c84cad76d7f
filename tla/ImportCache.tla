----------------------------- MODULE ImportCache -----------------------------
(***************************************************************************)
(* SharedBufferHandleCache (shared_buffer_ipc_manager.cpp): the threads of *)
(* one subscriber process import blocks by descriptor; one mutex guards    *)
(* the map from (pid, block id, ipc name) to mappings and is held across   *)
(* the exchange with the publisher's broker.  Blocks are created, used     *)
(* again and destroyed by their publishers meanwhile.                      *)
(* recvmsg() has no timeout: an import whose broker never answers stays at *)
(* "miss" with the mutex.  No fairness excludes this, and nothing is       *)
(* claimed about calls that return.                                        *)
(*                                                                         *)
(* A block is the memfd of one SharedBufferBlock; its name in IdentityOf   *)
(* holds what the descriptor and the broker's path are made of.  Two       *)
(* blocks with the same identity exist one after the other: a pool, or a   *)
(* process, that replaces another one.  Sizes are left out: an import with *)
(* the wrong size is refused as one with the wrong UID is.                 *)
(***************************************************************************)
EXTENDS Integers, FiniteSets

CONSTANTS
  Memfds,       \* memfds that publishers create
  IdentityOf,   \* IdentityOf[m]: [pid, id, name] of the block of m
  Threads,      \* threads of the subscriber that import
  MaxUid        \* bound: publications of all blocks

VARIABLES
  state,        \* state[m]: "new", "served" by a broker, or "gone"
  uid,          \* uid[m]: ipc_uid in the header of m
  lastUid,      \* UIDs drawn so far; draws are distinct
  sent,         \* descriptors published so far, and the memfd they are about
  cache,        \* cache(): pairs <<key, memfd>>
  mapped,       \* mapped[m]: mappings of m in the subscriber
  mutex,        \* the thread that holds cache_mutex()
  call          \* call[t]: the import_block call of t

vars == <<state, uid, lastUid, sent, cache, mapped, mutex, call>>
publisher == <<state, uid, lastUid, sent>>

Identities == {IdentityOf[m] : m \in Memfds}

None == 0

ASSUME CacheAssumption ==
  /\ IsFiniteSet(Memfds) /\ IsFiniteSet(Threads) /\ None \notin Memfds \cup Threads
  /\ MaxUid \in Nat
  /\ \A m \in Memfds : DOMAIN IdentityOf[m] = {"pid", "id", "name"}

Nobody == None
NoMemfd == None
NoDescriptor == [of |-> NoMemfd, uid |-> None]
NoCall == [pc |-> "idle", desc |-> NoDescriptor, got |-> NoMemfd]

Init ==
  /\ state = [m \in Memfds |-> "new"]
  /\ uid = [m \in Memfds |-> None]
  /\ lastUid = None
  /\ sent = {}
  /\ cache = {}
  /\ mapped = [m \in Memfds |-> 0]
  /\ mutex = Nobody
  /\ call = [t \in Threads |-> NoCall]

-----------------------------------------------------------------------------
(* Publishers *)

\* What a broker hands out under an identity
ServedAs(identity) == {m \in Memfds : state[m] = "served" /\ IdentityOf[m] = identity}

\* create_block and register_block: the path holds the number of the open
\* descriptor, so that no other block of the process has it now.
Create(m) ==
  /\ state[m] = "new"
  /\ ServedAs(IdentityOf[m]) = {}
  /\ state' = [state EXCEPT ![m] = "served"]
  /\ UNCHANGED <<uid, lastUid, sent, cache, mapped, mutex, call>>

\* A new use of the block is published under a new UID.
Publish(m) ==
  /\ state[m] = "served"
  /\ lastUid < MaxUid
  /\ lastUid' = lastUid + 1
  /\ uid' = [uid EXCEPT ![m] = lastUid + 1]
  /\ sent' = sent \cup {[of |-> m, uid |-> lastUid + 1]}
  /\ UNCHANGED <<state, cache, mapped, mutex, call>>

\* The pool is destroyed or its process ends; mappings of others stay.
Vanish(m) ==
  /\ state[m] = "served"
  /\ state' = [state EXCEPT ![m] = "gone"]
  /\ UNCHANGED <<uid, lastUid, sent, cache, mapped, mutex, call>>

-----------------------------------------------------------------------------
(* import_block *)

\* CacheKey{pid, block_id, ipc_name} of a descriptor
CacheKey(desc) == IdentityOf[desc.of]

Cached(desc) == {entry[2] : entry \in {e \in cache : e[1] = CacheKey(desc)}}

Goto(t, pc) == call' = [call EXCEPT ![t].pc = pc]

\* A descriptor is delivered, in any order, late or more than once.
Begin(t) ==
  \E desc \in sent :
    /\ call[t].pc \in {"idle", "imported", "refused"}
    /\ call' = [call EXCEPT ![t] = [NoCall EXCEPT !.pc = "lock", !.desc = desc]]
    /\ UNCHANGED <<state, uid, lastUid, sent, cache, mapped, mutex>>

Lock(t) ==
  /\ call[t].pc = "lock"
  /\ mutex = Nobody
  /\ mutex' = t
  /\ Goto(t, "find")
  /\ UNCHANGED <<publisher, cache, mapped>>

Hit(t) ==
  /\ call[t].pc = "find"
  /\ \E m \in Cached(call[t].desc) :
       call' = [call EXCEPT ![t] = [@ EXCEPT !.pc = "hit", !.got = m]]
  /\ UNCHANGED <<publisher, cache, mapped, mutex>>

\* Mutant: the mutex is given up for the exchange with the broker.
GivenUp == Nobody

\* The lock_guard lives until the call returns.
KeptForExchange == mutex

Miss(t) ==
  /\ call[t].pc = "find"
  /\ Cached(call[t].desc) = {}
  /\ mutex' = KeptForExchange
  /\ Goto(t, "miss")
  /\ UNCHANGED <<publisher, cache, mapped>>

\* import_platform_mapping: whatever the path leads to now is mapped.
Receive(t) ==
  /\ call[t].pc = "miss"
  /\ \E m \in ServedAs(IdentityOf[call[t].desc.of]) :
       /\ mapped' = [mapped EXCEPT ![m] = @ + 1]
       /\ call' = [call EXCEPT ![t] = [@ EXCEPT !.pc = "received", !.got = m]]
  /\ UNCHANGED <<publisher, cache, mutex>>

\* Nobody listens, the connection is reset, or a system call fails.  A broker
\* that is silent leads neither here nor to Receive.
ReceiveFails(t) ==
  /\ call[t].pc = "miss"
  /\ mutex' = Nobody
  /\ call' = [call EXCEPT ![t] = [@ EXCEPT !.pc = "refused"]]
  /\ UNCHANGED <<publisher, cache, mapped>>

\* Mutant: a mapping is checked for its shape only.
ValidUnchecked(t) == uid[call[t].got] # None

\* validate_mapping: the header holds the UID of the descriptor.
Valid(t) == uid[call[t].got] = call[t].desc.uid

AcceptHit(t) ==
  /\ call[t].pc = "hit"
  /\ Valid(t)
  /\ mutex' = Nobody
  /\ Goto(t, "imported")
  /\ UNCHANGED <<publisher, cache, mapped>>

\* Mutant: a cached mapping is unmapped, as a new one is.
AllDropped(t) == 1

\* Mappings that leave with the exception: the new one, not a cached one
MappingsDropped(t) == IF call[t].pc = "received" THEN 1 ELSE 0

\* The exception of validate_mapping leaves import_block.
AfterRefusal(t) ==
  /\ mapped' = [mapped EXCEPT ![call[t].got] = @ - MappingsDropped(t)]
  /\ mutex' = Nobody
  /\ Goto(t, "refused")
  /\ UNCHANGED <<publisher, cache>>

RefuseHit(t) ==
  /\ call[t].pc = "hit"
  /\ ~Valid(t)
  /\ AfterRefusal(t)

\* cache().emplace keeps an entry that is there.
AcceptReceived(t) ==
  LET desc == call[t].desc IN
  /\ call[t].pc = "received"
  /\ Valid(t)
  /\ cache' = IF Cached(desc) = {} THEN cache \cup {<<CacheKey(desc), call[t].got>>} ELSE cache
  /\ mutex' = Nobody
  /\ Goto(t, "imported")
  /\ UNCHANGED <<publisher, mapped>>

\* The new mapping is destroyed before the exception leaves.
RefuseReceived(t) ==
  /\ call[t].pc = "received"
  /\ ~Valid(t)
  /\ AfterRefusal(t)

ImportGoesOn(t) ==
  \/ Lock(t) \/ Hit(t) \/ Miss(t) \/ Receive(t) \/ ReceiveFails(t)
  \/ AcceptHit(t) \/ RefuseHit(t) \/ AcceptReceived(t) \/ RefuseReceived(t)

Next ==
  \/ \E m \in Memfds : Create(m) \/ Publish(m) \/ Vanish(m)
  \/ \E t \in Threads : Begin(t) \/ ImportGoesOn(t)

Spec == Init /\ [][Next]_vars

-----------------------------------------------------------------------------
(* Properties *)

Pcs == {"idle", "lock", "find", "hit", "miss", "received", "imported", "refused"}
Descriptors == [of : Memfds, uid : 1 .. MaxUid]

\* Every variable has the type of what it stands for.
TypeOK ==
  /\ state \in [Memfds -> {"new", "served", "gone"}]
  /\ uid \in [Memfds -> 0 .. MaxUid]
  /\ lastUid \in 0 .. MaxUid
  /\ sent \subseteq Descriptors
  /\ cache \subseteq Identities \X Memfds
  /\ mapped \in [Memfds -> Nat]
  /\ mutex \in Threads \cup {Nobody}
  /\ call \in [Threads -> [pc : Pcs, desc : Descriptors \cup {NoDescriptor},
                           got : Memfds \cup {NoMemfd}]]

\* An import returns the memfd that its descriptor was published from, though
\* the key names no publication and brokers hand out whatever has the name now.
ImportedIsNamed ==
  \A t \in Threads : call[t].pc = "imported" => call[t].got = call[t].desc.of

\* Threads that import the same block at once keep one mapping: a memfd is
\* mapped once if the cache has it or an import is about to enter it, and not
\* otherwise; imports that fail leave no mapping behind.
MappingsAreCached ==
  \A m \in Memfds :
    mapped[m] = Cardinality({e \in cache : e[2] = m})
                + Cardinality({t \in Threads : call[t].pc = "received" /\ call[t].got = m})

\* A process maps one memfd at most under each name: the one that its cache has.
OneMappingPerName ==
  \A identity \in Identities :
    Cardinality({m \in Memfds : IdentityOf[m] = identity /\ mapped[m] > 0}) <= 1

\* While a mapping is cached, the name it is cached under leads to no other memfd.
KeyKeepsItsMemfd ==
  \A e \in cache : \A m \in ServedAs(e[1]) : m = e[2]
=============================================================================
