----------------------------- MODULE NamedMappings -----------------------------
(***************************************************************************)
(* File mappings on Windows (shared_buffer_platform_windows.cpp): a pool   *)
(* creates the mapping of its block under a name, descriptors carry the    *)
(* name, and a subscriber opens it in its own session and caches it.       *)
(*                                                                         *)
(* A pool stands for its first block, so that all names have the same      *)
(* block id; a name is a process id and a number, the nonce plus the       *)
(* attempt.  Nonces are drawn from a small set: they collide.  An object   *)
(* is the mapping that a pool created, and its name leads to it while any  *)
(* process has a handle.                                                   *)
(***************************************************************************)
EXTENDS EndpointDiscovery

CONSTANTS
  Pools,
  ProcessOf,     \* ProcessOf[k]: the process that creates pool k
  Nonces,        \* what uid_dist_ draws for a name
  MaxAttempts,   \* 8 in the code
  MaxUid         \* bound: publications

NoObject == "none"

ASSUME NamingAssumption ==
  /\ IsFiniteSet(Pools) /\ NoObject \notin Pools /\ ProcessOf \in [Pools -> Processes]
  /\ Nonces \subseteq Nat /\ MaxAttempts \in Nat \ {0} /\ MaxUid \in Nat

VARIABLES
  alive,     \* processes that have not ended
  pool,      \* pool[k]: the block of k and where its creation is
  name,      \* name[o]: the name of object o, or None
  handles,   \* handles[p][o]: handles that p has to object o
  uid,       \* uid[o]: ipc_uid in the header of o
  lastUid,   \* UIDs drawn so far; draws are distinct
  sent,      \* descriptors sent so far, to whom and from which pool
  cache,     \* cache[p]: pairs <<key, object>>
  call       \* call[p]: the import_block call of p, which holds the cache mutex

naming == <<alive, pool, name, handles, uid, lastUid, sent, cache, call>>
vars == <<discovery, naming>>

NoPool == [pc |-> "new", nonce |-> 0, attempt |-> 0, object |-> NoObject]
NoDescriptor == [to |-> NoObject, from |-> NoObject, name |-> None, uid |-> 0]
NoCall == [pc |-> "idle", desc |-> NoDescriptor, object |-> NoObject]

Init ==
  /\ DiscoveryInit
  /\ alive = Processes
  /\ pool = [k \in Pools |-> NoPool]
  /\ name = [o \in Pools |-> None]
  /\ handles = [p \in Processes |-> [o \in Pools |-> 0]]
  /\ uid = [o \in Pools |-> 0]
  /\ lastUid = 0
  /\ sent = {}
  /\ cache = [p \in Processes |-> {}]
  /\ call = [p \in Processes |-> NoCall]

-----------------------------------------------------------------------------
(* Windows: named objects in the namespaces of sessions *)

Namespace(p) == <<place[p].host, place[p].session>>

Exists(o) == \E p \in Processes : handles[p][o] > 0

\* What a name leads to in the session of p
Named(p, n) ==
  {o \in Pools : Exists(o) /\ name[o] = n /\ Namespace(ProcessOf[o]) = Namespace(p)}

TakeHandle(p, o) == handles' = [handles EXCEPT ![p][o] = @ + 1]
DropHandle(p, o) == handles' = [handles EXCEPT ![p][o] = @ - 1]

-----------------------------------------------------------------------------
(* create_platform_mapping *)

\* Local\rosidl_shared_buffer_<pid>_<nonce + attempt>_<block id>
NameOf(k) == <<place[ProcessOf[k]].pid, pool[k].nonce + pool[k].attempt>>

Creating(k, pc) == ProcessOf[k] \in alive /\ pool[k].pc = pc

Becomes(k, pc) == pool' = [pool EXCEPT ![k].pc = pc]

\* create_block draws the nonce.
Draw(k) ==
  /\ Creating(k, "new") /\ Windows(ProcessOf[k])
  /\ \E nonce \in Nonces : pool' = [pool EXCEPT ![k] = [@ EXCEPT !.pc = "create", !.nonce = nonce]]
  /\ UNCHANGED <<discovery, alive, name, handles, uid, lastUid, sent, cache, call>>

CreateNew(k) ==
  /\ Creating(k, "create")
  /\ Named(ProcessOf[k], NameOf(k)) = {}
  /\ name' = [name EXCEPT ![k] = NameOf(k)]
  /\ TakeHandle(ProcessOf[k], k)
  /\ pool' = [pool EXCEPT ![k] = [@ EXCEPT !.pc = "map", !.object = k]]
  /\ UNCHANGED <<discovery, alive, uid, lastUid, sent, cache, call>>

\* Mutant: an object that exists already is taken.
Accepted == "map"

\* ERROR_ALREADY_EXISTS is not accepted.
Retried == "retry"

\* CreateFileMappingW opens an object that has the name.
CreateOpens(k) ==
  /\ Creating(k, "create")
  /\ \E o \in Named(ProcessOf[k], NameOf(k)) :
       /\ TakeHandle(ProcessOf[k], o)
       /\ pool' = [pool EXCEPT ![k] = [@ EXCEPT !.pc = Retried, !.object = o]]
  /\ UNCHANGED <<discovery, alive, name, uid, lastUid, sent, cache, call>>

CreateFails(k) ==
  /\ Creating(k, "create")
  /\ Becomes(k, "failed")
  /\ UNCHANGED <<discovery, alive, name, handles, uid, lastUid, sent, cache, call>>

NextAttempt(k) == pool[k].attempt + 1

\* The handle of the other object is closed, and the next attempt is made, if any.
CreateRetries(k) ==
  /\ Creating(k, "retry")
  /\ DropHandle(ProcessOf[k], pool[k].object)
  /\ pool' = [pool EXCEPT ![k] =
                [@ EXCEPT !.pc = IF NextAttempt(k) < MaxAttempts THEN "create" ELSE "failed",
                          !.attempt = NextAttempt(k), !.object = NoObject]]
  /\ UNCHANGED <<discovery, alive, name, uid, lastUid, sent, cache, call>>

\* MapViewOfFile, and the header that create_block constructs
MapNew(k) ==
  /\ Creating(k, "map")
  /\ uid' = [uid EXCEPT ![pool[k].object] = 0]
  /\ Becomes(k, "ready")
  /\ UNCHANGED <<discovery, alive, name, handles, lastUid, sent, cache, call>>

\* Mutant: the handle stays open when the view cannot be mapped.
LeaveOpen(p, o) == UNCHANGED handles

CloseUnmapped(p, o) == DropHandle(p, o)

MapNewFails(k) ==
  /\ Creating(k, "map")
  /\ CloseUnmapped(ProcessOf[k], pool[k].object)
  /\ pool' = [pool EXCEPT ![k] = [@ EXCEPT !.pc = "failed", !.object = NoObject]]
  /\ UNCHANGED <<discovery, alive, name, uid, lastUid, sent, cache, call>>

\* destroy_platform_mapping
DestroyPool(k) ==
  /\ Creating(k, "ready")
  /\ DropHandle(ProcessOf[k], pool[k].object)
  /\ pool' = [pool EXCEPT ![k] = [@ EXCEPT !.pc = "gone", !.object = NoObject]]
  /\ UNCHANGED <<discovery, alive, name, uid, lastUid, sent, cache, call>>

\* A process ends: the kernel closes its handles.
Exit(p) ==
  /\ p \in alive
  /\ alive' = alive \ {p}
  /\ handles' = [handles EXCEPT ![p] = [o \in Pools |-> 0]]
  /\ pool' = [k \in Pools |-> IF ProcessOf[k] = p THEN NoPool ELSE pool[k]]
  /\ cache' = [cache EXCEPT ![p] = {}]
  /\ call' = [call EXCEPT ![p] = NoCall]
  /\ UNCHANGED <<discovery, name, uid, lastUid, sent>>

-----------------------------------------------------------------------------
(* Descriptors *)

\* A new use of the block of k is published to q; register_block returns the name.
Publish(k, q) ==
  /\ Creating(k, "ready")
  /\ q # ProcessOf[k] /\ MaySend(ProcessOf[k], q)
  /\ lastUid < MaxUid
  /\ lastUid' = lastUid + 1
  /\ uid' = [uid EXCEPT ![pool[k].object] = lastUid + 1]
  /\ sent' = sent \cup {[to |-> q, from |-> k, name |-> NameOf(k), uid |-> lastUid + 1]}
  /\ UNCHANGED <<discovery, alive, pool, name, handles, cache, call>>

-----------------------------------------------------------------------------
(* import_block and import_platform_mapping *)

Importing(p, pc) == p \in alive /\ call[p].pc = pc
Goto(p, pc) == call' = [call EXCEPT ![p].pc = pc]
Ends(p) == call' = [call EXCEPT ![p] = NoCall]

\* CacheKey: the name holds the process id and the block id as well.
Cached(p, n) == {entry[2] : entry \in {e \in cache[p] : e[1] = n}}

\* A descriptor is delivered, late or more than once.
Begin(p) ==
  /\ Importing(p, "idle") /\ Windows(p)
  /\ \E desc \in sent :
       /\ desc.to = p
       /\ call' = [call EXCEPT ![p] = [@ EXCEPT !.pc = "find", !.desc = desc]]
  /\ UNCHANGED <<discovery, alive, pool, name, handles, uid, lastUid, sent, cache>>

\* Mutant: whatever the name leads to is accepted.
ValidUnchecked(p, o) == TRUE

\* validate_mapping
Valid(p, o) == uid[o] = call[p].desc.uid

\* The call returns the cached mapping or refuses the descriptor.
Hit(p) ==
  /\ Importing(p, "find")
  /\ Cached(p, call[p].desc.name) # {}
  /\ Ends(p)
  /\ UNCHANGED <<discovery, alive, pool, name, handles, uid, lastUid, sent, cache>>

\* OpenFileMappingW finds the name in the session of the caller.
Open(p) ==
  /\ Importing(p, "find")
  /\ Cached(p, call[p].desc.name) = {}
  /\ \E o \in Named(p, call[p].desc.name) :
       /\ TakeHandle(p, o)
       /\ call' = [call EXCEPT ![p] = [@ EXCEPT !.pc = "open", !.object = o]]
  /\ UNCHANGED <<discovery, alive, pool, name, uid, lastUid, sent, cache>>

\* No such name, no access, or no memory
OpenFails(p) ==
  /\ Importing(p, "find")
  /\ Cached(p, call[p].desc.name) = {}
  /\ Ends(p)
  /\ UNCHANGED <<discovery, alive, pool, name, handles, uid, lastUid, sent, cache>>

\* Mutant: the view is enough, the handle is closed.
ViewOnly(p, o) == DropHandle(p, o)

\* The imported block keeps the handle beside the view.
HandleKept(p, o) == UNCHANGED handles

MapOpened(p) ==
  /\ Importing(p, "open")
  /\ Goto(p, "mapped")
  /\ HandleKept(p, call[p].object)
  /\ UNCHANGED <<discovery, alive, pool, name, uid, lastUid, sent, cache>>

MapOpenedFails(p) ==
  /\ Importing(p, "open")
  /\ CloseUnmapped(p, call[p].object)
  /\ Ends(p)
  /\ UNCHANGED <<discovery, alive, pool, name, uid, lastUid, sent, cache>>

Accept(p) ==
  /\ Importing(p, "mapped") /\ Valid(p, call[p].object)
  /\ cache' = [cache EXCEPT ![p] = @ \cup {<<call[p].desc.name, call[p].object>>}]
  /\ Ends(p)
  /\ UNCHANGED <<discovery, alive, pool, name, handles, uid, lastUid, sent>>

Refuse(p) ==
  /\ Importing(p, "mapped") /\ ~Valid(p, call[p].object)
  /\ DropHandle(p, call[p].object)
  /\ Ends(p)
  /\ UNCHANGED <<discovery, alive, pool, name, uid, lastUid, sent, cache>>

-----------------------------------------------------------------------------
CreateGoesOn(k) ==
  CreateNew(k) \/ CreateOpens(k) \/ CreateFails(k) \/ CreateRetries(k) \/ MapNew(k) \/ MapNewFails(k)

Next ==
  \/ \E p \in alive :
       /\ AnnounceEndpoint(p) \/ AnnouncePlain(p) \/ \E q \in Processes \ {p} : Discover(p, q)
       /\ UNCHANGED naming
  \/ \E k \in Pools :
       \/ Draw(k) \/ CreateGoesOn(k) \/ DestroyPool(k)
       \/ \E q \in Processes : Publish(k, q)
  \/ \E p \in Processes :
       \/ Exit(p) \/ Begin(p) \/ Hit(p) \/ Open(p) \/ OpenFails(p)
       \/ MapOpened(p) \/ MapOpenedFails(p) \/ Accept(p) \/ Refuse(p)

Spec == Init /\ [][Next]_vars

-----------------------------------------------------------------------------
(* Properties *)

PoolPcs == {"new", "create", "retry", "map", "ready", "failed", "gone"}
CallPcs == {"idle", "find", "open", "mapped"}

Pids == {place[p].pid : p \in Processes}
Numbers == {nonce + attempt : nonce \in Nonces, attempt \in 0 .. MaxAttempts}
Names == Pids \X Numbers
Descriptors == [to : Processes, from : Pools, name : Names, uid : 1 .. MaxUid]

\* Every variable has the type of what it stands for.
TypeOK ==
  /\ DiscoveryTypeOK
  /\ alive \subseteq Processes
  /\ pool \in [Pools -> [pc : PoolPcs, nonce : Nonces \cup {0}, attempt : 0 .. MaxAttempts,
                         object : Pools \cup {NoObject}]]
  /\ name \in [Pools -> Names \cup {None}]
  /\ handles \in [Processes -> [Pools -> Nat]]
  /\ uid \in [Pools -> 0 .. MaxUid] /\ lastUid \in 0 .. MaxUid
  /\ sent \subseteq Descriptors
  /\ cache \in [Processes -> SUBSET (Names \X Pools)]
  /\ call \in [Processes -> [pc : CallPcs, desc : Descriptors \cup {NoDescriptor},
                             object : Pools \cup {NoObject}]]

\* Two pools never use one object as their blocks, whatever nonces they drew:
\* a name that exists is not taken over.
BlocksOwnTheirObjects ==
  \A k, l \in Pools : k # l /\ pool[k].object = pool[l].object =>
    pool[k].object = NoObject \/ "retry" \in {pool[k].pc, pool[l].pc}

\* While a subscriber caches a mapping, its name leads to no other object, also
\* after the pool is gone and another one drew the same nonce: the handle of
\* the subscriber keeps the name taken.
NameKeepsItsObject ==
  \A p \in Processes : \A entry \in cache[p] : Named(p, entry[1]) \subseteq {entry[2]}

Uses(p, o) ==
  Cardinality({k \in Pools : ProcessOf[k] = p /\ pool[k].object = o})
    + Cardinality({entry \in cache[p] : entry[2] = o})
    + Cardinality({c \in {call[p]} : c.object = o})

\* A process has one handle for each block, cached mapping and call that uses
\* it: none is left behind by an attempt or a view that failed, and none is
\* closed twice.
HandleAccounting == \A p \in Processes : \A o \in Pools : handles[p][o] = Uses(p, o)

\* A process maps what the descriptor was sent for, from its own session.  To
\* one that has no verdict, or was judged compatible because its host has the
\* same name or its fallback is the same, a name means nothing; a late
\* descriptor finds a name that means another block.
ImportsStayLocal ==
  \A p \in Processes : \A entry \in cache[p] :
    /\ Namespace(ProcessOf[entry[2]]) = Namespace(p)
    /\ \E desc \in sent : desc.to = p /\ desc.name = entry[1] /\ desc.from = entry[2]
=============================================================================
