---------------------------- MODULE ImportCacheProofs ----------------------------
(***************************************************************************)
(* The invariants of ImportCache for any number of publishers, blocks with *)
(* the same name, importing threads and publications.                      *)
(*                                                                         *)
(* The argument: the mutex leaves one thread between the look-up and the   *)
(* entry, so that a key that was not there is still not there when the     *)
(* memfd that was received is entered; and a UID is drawn for one memfd,   *)
(* so that validate_mapping tells successors with the same name apart.     *)
(***************************************************************************)
EXTENDS ImportCache, FiniteSetTheorems, TLAPS

\* A UID names one memfd, that of the descriptor it was sent with.
UidsNameMemfds ==
  /\ \A m \in Memfds : uid[m] <= lastUid
  /\ \A d \in sent : d.uid <= lastUid
  /\ \A d \in sent : \A m \in Memfds : uid[m] = d.uid => m = d.of

\* A call works on a descriptor that was sent, and on a memfd once it has one.
CallsAreImports ==
  \A t \in Threads :
    /\ call[t].pc # "idle" => call[t].desc \in sent
    /\ call[t].pc \in {"hit", "received"} =>
         call[t].got \in Memfds /\ IdentityOf[call[t].got] = CacheKey(call[t].desc)

\* One thread is between the acquisition of the mutex and the end of its call.
MutexHeld ==
  \A t \in Threads : call[t].pc \in {"find", "hit", "miss", "received"} => mutex = t

\* The cache is a function from keys to memfds that have the name in the key.
CacheIsMap ==
  /\ \A e \in cache : e[1] = IdentityOf[e[2]]
  /\ \A d, e \in cache : d[1] = e[1] => d = e

\* The thread that asked the broker did not find its key, and nobody entered it since.
MissIsTrue == \A t \in Threads : call[t].pc \in {"miss", "received"} => Cached(call[t].desc) = {}

InCache(m) == IF \E e \in cache : e[2] = m THEN 1 ELSE 0
Received(m) == IF \E t \in Threads : call[t].pc = "received" /\ call[t].got = m THEN 1 ELSE 0

MappedOnce == \A m \in Memfds : mapped[m] = InCache(m) + Received(m)

CacheInv ==
  /\ TypeOK
  /\ UidsNameMemfds
  /\ CallsAreImports
  /\ MutexHeld
  /\ CacheIsMap
  /\ MissIsTrue
  /\ MappedOnce
  /\ ImportedIsNamed

-----------------------------------------------------------------------------
\* An empty cache, and no call
LEMMA CacheInit == Init => CacheInv
  BY CacheAssumption
  DEF Init, CacheInv, TypeOK, UidsNameMemfds, CallsAreImports, MutexHeld, CacheIsMap, MissIsTrue,
      MappedOnce, InCache, Received, ImportedIsNamed, NoCall, NoDescriptor, Descriptors, Pcs,
      None, NoMemfd, Nobody

\* The publishers do not touch the subscriber's state.
LEMMA PublisherStep ==
  ASSUME CacheInv, NEW m \in Memfds, Create(m) \/ Publish(m) \/ Vanish(m)
  PROVE  CacheInv'
  <1>. USE DEF CacheInv
  <1>1. UNCHANGED <<cache, mapped, mutex, call>> /\ sent \subseteq sent'
    BY DEF Create, Publish, Vanish
  <1>2. MutexHeld' /\ CacheIsMap' /\ MissIsTrue' /\ MappedOnce' /\ ImportedIsNamed' /\ CallsAreImports'
    BY <1>1 DEF MutexHeld, CacheIsMap, MissIsTrue, MappedOnce, ImportedIsNamed, CallsAreImports,
                InCache, Received, Cached, CacheKey
  <1>3. CASE Create(m) \/ Vanish(m)
    <2>1. UNCHANGED <<uid, lastUid, sent>> /\ state' \in [Memfds -> {"new", "served", "gone"}]
      BY <1>3 DEF Create, Vanish, TypeOK
    <2>. QED BY <1>1, <1>2, <2>1 DEF TypeOK, UidsNameMemfds
  <1>4. CASE Publish(m)
    <2>1. /\ lastUid \in Nat /\ lastUid' = lastUid + 1 /\ lastUid' \in 1 .. MaxUid
          /\ uid' = [uid EXCEPT ![m] = lastUid']
          /\ sent' = sent \cup {[of |-> m, uid |-> lastUid']}
          /\ UNCHANGED state
      BY <1>4, CacheAssumption DEF Publish, TypeOK
    <2>2. uid \in [Memfds -> 0 .. MaxUid] /\ sent \subseteq Descriptors
      BY DEF TypeOK
    <2>3. UidsNameMemfds'
      BY <2>1, <2>2 DEF UidsNameMemfds, Descriptors
    <2>4. uid' \in [Memfds -> 0 .. MaxUid] /\ lastUid' \in 0 .. MaxUid
      BY <2>1, <2>2
    <2>5. [of |-> m, uid |-> lastUid'] \in Descriptors
      BY <2>1 DEF Descriptors
    <2>6. sent' \subseteq Descriptors
      BY <2>1, <2>2, <2>5
    <2>. QED BY <1>1, <1>2, <2>1, <2>3, <2>4, <2>6 DEF TypeOK
  <1>. QED BY <1>3, <1>4

\* The record of a call, field by field.
LEMMA CallTypes ==
  ASSUME CacheInv, NEW t \in Threads
  PROVE  /\ call[t].pc \in Pcs
         /\ call[t].desc \in Descriptors \cup {NoDescriptor}
         /\ call[t].got \in Memfds \cup {NoMemfd}
  BY DEF CacheInv, TypeOK

\* Steps that move one call and the mutex only.
LEMMA CallFrame ==
  ASSUME CacheInv, NEW t \in Threads, UNCHANGED <<publisher, cache, mapped>>,
         mutex' \in Threads \cup {Nobody},
         call' \in [Threads -> [pc : Pcs, desc : Descriptors \cup {NoDescriptor},
                                got : Memfds \cup {NoMemfd}]],
         \A u \in Threads : u # t => call'[u] = call[u],
         CallsAreImports', MutexHeld', MissIsTrue',
         call[t].pc # "received", call'[t].pc # "received",
         call'[t].pc = "imported" => call'[t].got = call'[t].desc.of
  PROVE  CacheInv'
  <1>1. TypeOK' /\ UidsNameMemfds' /\ CacheIsMap'
    BY DEF CacheInv, TypeOK, UidsNameMemfds, CacheIsMap, publisher
  <1>2. ASSUME NEW m \in Memfds PROVE InCache(m)' = InCache(m) /\ Received(m)' = Received(m)
    BY DEF InCache, Received
  <1>3. MappedOnce'
    BY <1>2 DEF CacheInv, MappedOnce
  <1>4. ImportedIsNamed'
    BY DEF CacheInv, ImportedIsNamed
  <1>. QED BY <1>1, <1>3, <1>4 DEF CacheInv

\* A call begins, waits for the mutex, and looks its key up.
LEMMA LookupStep ==
  ASSUME CacheInv, NEW t \in Threads, Begin(t) \/ Lock(t) \/ Hit(t) \/ Miss(t)
  PROVE  CacheInv'
  <1>. USE DEF CacheInv
  <1>0. /\ call \in [Threads -> [pc : Pcs, desc : Descriptors \cup {NoDescriptor},
                                 got : Memfds \cup {NoMemfd}]]
        /\ sent \subseteq Descriptors /\ cache \subseteq Identities \X Memfds
        /\ mutex \in Threads \cup {Nobody}
    BY DEF TypeOK
  <1>1. CASE Begin(t)
    <2>1. PICK desc \in sent :
            /\ call[t].pc \in {"idle", "imported", "refused"}
            /\ call' = [call EXCEPT ![t] = [pc |-> "lock", desc |-> desc, got |-> NoMemfd]]
            /\ UNCHANGED <<publisher, cache, mapped, mutex>>
      BY <1>1 DEF Begin, NoCall, publisher
    <2>2. CallsAreImports' /\ MutexHeld' /\ MissIsTrue'
      BY <1>0, <2>1 DEF CallsAreImports, MutexHeld, MissIsTrue, Cached, CacheKey, publisher
    <2>. QED BY <1>0, <2>1, <2>2, CallFrame DEF Pcs
  <1>2. CASE Lock(t)
    <2>1. /\ call[t].pc = "lock" /\ mutex = Nobody /\ mutex' = t
          /\ call' = [call EXCEPT ![t].pc = "find"]
          /\ UNCHANGED <<publisher, cache, mapped>>
      BY <1>2 DEF Lock, Goto
    <2>2. CallsAreImports' /\ MissIsTrue'
      BY <1>0, <2>1 DEF CallsAreImports, MissIsTrue, Cached, CacheKey, publisher
    <2>3. MutexHeld'
      BY <1>0, <2>1, CacheAssumption DEF MutexHeld, Nobody
    <2>. QED BY <1>0, <2>1, <2>2, <2>3, CallFrame DEF Pcs
  <1>3. CASE Hit(t)
    <2>1. PICK m \in Cached(call[t].desc) :
            call' = [call EXCEPT ![t] = [@ EXCEPT !.pc = "hit", !.got = m]]
      BY <1>3 DEF Hit
    <2>2. call[t].pc = "find" /\ UNCHANGED <<publisher, cache, mapped, mutex>>
      BY <1>3 DEF Hit, publisher
    <2>3. m \in Memfds /\ IdentityOf[m] = CacheKey(call[t].desc)
      BY <1>0 DEF Cached, CacheIsMap
    <2>4. CallsAreImports' /\ MutexHeld' /\ MissIsTrue'
      BY <1>0, <2>1, <2>2, <2>3 DEF CallsAreImports, MutexHeld, MissIsTrue, Cached, CacheKey, publisher
    <2>5. call'[t].pc = "hit" /\ \A u \in Threads : u # t => call'[u] = call[u]
      BY <1>0, <2>1
    <2>6. call' \in [Threads -> [pc : Pcs, desc : Descriptors \cup {NoDescriptor},
                                 got : Memfds \cup {NoMemfd}]]
      BY <1>0, <2>1, <2>3 DEF Pcs
    <2>. QED BY <1>0, <2>2, <2>4, <2>5, <2>6, CallFrame
  <1>4. CASE Miss(t)
    <2>1. /\ call[t].pc = "find" /\ Cached(call[t].desc) = {}
          /\ call' = [call EXCEPT ![t].pc = "miss"]
          /\ UNCHANGED <<publisher, cache, mapped, mutex>>
      BY <1>4 DEF Miss, Goto, KeptForExchange
    <2>2. CallsAreImports' /\ MutexHeld' /\ MissIsTrue'
      BY <1>0, <2>1 DEF CallsAreImports, MutexHeld, MissIsTrue, Cached, CacheKey, publisher
    <2>. QED BY <1>0, <2>1, <2>2, CallFrame DEF Pcs
  <1>. QED BY <1>1, <1>2, <1>3, <1>4

\* A cached mapping is accepted or refused, or the broker does not answer.
LEMMA ReturnStep ==
  ASSUME CacheInv, NEW t \in Threads, AcceptHit(t) \/ RefuseHit(t) \/ ReceiveFails(t)
  PROVE  CacheInv'
  <1>. USE DEF CacheInv
  <1>0. /\ call \in [Threads -> [pc : Pcs, desc : Descriptors \cup {NoDescriptor},
                                 got : Memfds \cup {NoMemfd}]]
        /\ sent \subseteq Descriptors /\ mapped \in [Memfds -> Nat]
    BY DEF TypeOK
  <1>1. /\ call[t].pc \in {"hit", "miss"} /\ mutex' = Nobody /\ UNCHANGED <<publisher, cache>>
        /\ \/ call' = [call EXCEPT ![t].pc = "imported"] /\ Valid(t) /\ call[t].pc = "hit"
           \/ call' = [call EXCEPT ![t].pc = "refused"]
    BY DEF AcceptHit, RefuseHit, ReceiveFails, AfterRefusal, Goto
  <1>2. UNCHANGED mapped
    <2>1. CASE RefuseHit(t)
      <3>1. mapped' = [mapped EXCEPT ![call[t].got] = @ - 0] /\ call[t].pc = "hit"
        BY <2>1 DEF RefuseHit, AfterRefusal, MappingsDropped
      <3>2. call[t].got \in Memfds
        BY <3>1 DEF CallsAreImports
      <3>. QED BY <1>0, <3>1, <3>2
    <2>. QED BY <2>1 DEF AcceptHit, ReceiveFails
  <1>3. CallsAreImports' /\ MissIsTrue'
    <2>1. /\ \A u \in Threads : u # t => call'[u] = call[u]
          /\ call'[t].pc \in {"imported", "refused"} /\ call'[t].desc = call[t].desc
      BY <1>0, <1>1
    <2>2. call[t].desc \in sent /\ UNCHANGED <<sent, cache>>
      BY <1>1 DEF CallsAreImports, publisher
    <2>3. CallsAreImports'
      BY <2>1, <2>2 DEF CallsAreImports, CacheKey
    <2>4. MissIsTrue'
      BY <2>1, <2>2 DEF MissIsTrue, Cached, CacheKey
    <2>. QED BY <2>3, <2>4
  <1>4. MutexHeld'
    BY <1>0, <1>1 DEF MutexHeld
  <1>5. call'[t].pc = "imported" => call'[t].got = call'[t].desc.of
    <2>. SUFFICES ASSUME call[t].pc = "hit", Valid(t) PROVE call[t].got = call[t].desc.of
      BY <1>0, <1>1
    <2>. QED BY DEF CallsAreImports, Valid, UidsNameMemfds
  <1>. QED BY <1>0, <1>1, <1>2, <1>3, <1>4, <1>5, CallFrame DEF Pcs

\* The broker hands out the memfd that has the name now, and it is mapped.
LEMMA ReceiveStep ==
  ASSUME CacheInv, NEW t \in Threads, Receive(t)
  PROVE  CacheInv'
  <1>. USE DEF CacheInv
  <1>0. /\ call \in [Threads -> [pc : Pcs, desc : Descriptors \cup {NoDescriptor},
                                 got : Memfds \cup {NoMemfd}]]
        /\ mapped \in [Memfds -> Nat]
    BY DEF TypeOK
  <1>1. PICK m \in ServedAs(IdentityOf[call[t].desc.of]) :
          /\ mapped' = [mapped EXCEPT ![m] = @ + 1]
          /\ call' = [call EXCEPT ![t] = [@ EXCEPT !.pc = "received", !.got = m]]
    BY DEF Receive
  <1>2. call[t].pc = "miss" /\ UNCHANGED <<publisher, cache, mutex>>
    BY DEF Receive
  <1>3. m \in Memfds /\ IdentityOf[m] = CacheKey(call[t].desc)
    BY <1>1 DEF ServedAs, CacheKey
  <1>4. /\ call'[t].pc = "received" /\ call'[t].got = m /\ call'[t].desc = call[t].desc
        /\ \A u \in Threads : u # t => call'[u] = call[u]
    BY <1>0, <1>1
  <1>5. \A u \in Threads : call[u].pc # "received"
    BY <1>2 DEF MutexHeld
  <1>6. TypeOK'
    <2>1. call' \in [Threads -> [pc : Pcs, desc : Descriptors \cup {NoDescriptor},
                                 got : Memfds \cup {NoMemfd}]]
      BY <1>0, <1>1, <1>3 DEF Pcs
    <2>2. mapped' \in [Memfds -> Nat]
      BY <1>0, <1>1, <1>3
    <2>. QED BY <1>2, <2>1, <2>2 DEF TypeOK, publisher
  <1>7. CallsAreImports' /\ MutexHeld' /\ MissIsTrue' /\ ImportedIsNamed' /\ UidsNameMemfds' /\ CacheIsMap'
    BY <1>2, <1>3, <1>4
    DEF CallsAreImports, MutexHeld, MissIsTrue, ImportedIsNamed, UidsNameMemfds, CacheIsMap, Cached,
        CacheKey, publisher
  <1>8. MappedOnce'
    <2>. SUFFICES ASSUME NEW n \in Memfds PROVE mapped'[n] = InCache(n)' + Received(n)'
      BY DEF MappedOnce
    <2>1. InCache(n)' = InCache(n) /\ InCache(n) \in {0, 1}
      BY <1>2 DEF InCache
    <2>2. Received(n) = 0
      BY <1>5 DEF Received
    <2>3. Received(n)' = IF n = m THEN 1 ELSE 0
      BY <1>4, <1>5 DEF Received
    <2>4. mapped[n] = InCache(n)
      BY <2>1, <2>2 DEF MappedOnce
    <2>5. mapped'[n] = IF n = m THEN mapped[n] + 1 ELSE mapped[n]
      BY <1>0, <1>1
    <2>. QED BY <2>1, <2>3, <2>4, <2>5
  <1>. QED BY <1>6, <1>7, <1>8

\* What was received becomes the entry of its key, or is unmapped again.
LEMMA ReceivedStep ==
  ASSUME CacheInv, NEW t \in Threads, AcceptReceived(t) \/ RefuseReceived(t)
  PROVE  CacheInv'
  <1>. USE DEF CacheInv
  <1>. DEFINE m == call[t].got
              desc == call[t].desc
              entry == <<CacheKey(desc), m>>
  <1>0. /\ call \in [Threads -> [pc : Pcs, desc : Descriptors \cup {NoDescriptor},
                                 got : Memfds \cup {NoMemfd}]]
        /\ mapped \in [Memfds -> Nat] /\ sent \subseteq Descriptors
        /\ cache \subseteq Identities \X Memfds
    BY DEF TypeOK
  <1>1. call[t].pc = "received" /\ mutex' = Nobody /\ UNCHANGED publisher
    BY DEF AcceptReceived, RefuseReceived, AfterRefusal
  <1>2. /\ m \in Memfds /\ IdentityOf[m] = CacheKey(desc) /\ desc \in sent
        /\ Cached(desc) = {}
    BY <1>1 DEF CallsAreImports, MissIsTrue
  <1>3. \A u \in Threads : u # t => call[u].pc \notin {"find", "hit", "miss", "received"}
    BY <1>1 DEF MutexHeld
  <1>4. /\ call'[t].pc \in {"imported", "refused"} /\ call'[t].got = m /\ call'[t].desc = desc
        /\ \A u \in Threads : u # t => call'[u] = call[u]
        /\ call' \in [Threads -> [pc : Pcs, desc : Descriptors \cup {NoDescriptor},
                                  got : Memfds \cup {NoMemfd}]]
    BY <1>0 DEF AcceptReceived, RefuseReceived, AfterRefusal, Goto, Pcs
  <1>5. \A e \in cache : e[2] # m
    BY <1>2 DEF Cached, CacheIsMap
  <1>6. InCache(m) = 0 /\ Received(m) = 1
    BY <1>1, <1>5 DEF InCache, Received
  <1>7. mapped[m] = 1
    BY <1>2, <1>6 DEF MappedOnce
  <1>8. \A n \in Memfds : Received(n)' = 0 /\ (n # m => Received(n) = 0)
    BY <1>3, <1>4 DEF Received
  <1>9. UidsNameMemfds' /\ CallsAreImports' /\ MutexHeld' /\ MissIsTrue'
    BY <1>1, <1>2, <1>3, <1>4
    DEF UidsNameMemfds, CallsAreImports, MutexHeld, MissIsTrue, CacheKey, publisher
  <1>10. CASE AcceptReceived(t)
    <2>1. Valid(t) /\ UNCHANGED mapped /\ cache' = cache \cup {entry}
      BY <1>2, <1>10 DEF AcceptReceived
    <2>2. m = desc.of
      BY <1>2, <2>1 DEF Valid, UidsNameMemfds
    <2>3. ImportedIsNamed'
      BY <1>4, <2>2 DEF ImportedIsNamed
    <2>4. entry \in Identities \X Memfds /\ entry[1] = IdentityOf[m] /\ entry[2] = m
      BY <1>2 DEF Identities
    <2>5. CacheIsMap'
      BY <1>2, <2>1, <2>4 DEF CacheIsMap, Cached
    <2>6. \A n \in Memfds : InCache(n)' = IF n = m THEN 1 ELSE InCache(n)
      BY <2>1, <2>4 DEF InCache
    <2>7. MappedOnce'
      <3>. SUFFICES ASSUME NEW n \in Memfds PROVE mapped'[n] = InCache(n)' + Received(n)'
        BY DEF MappedOnce
      <3>1. mapped[n] = InCache(n) + Received(n) /\ InCache(n) \in {0, 1}
        BY DEF MappedOnce, InCache
      <3>. QED BY <1>7, <1>8, <2>1, <2>6, <3>1
    <2>8. TypeOK'
      BY <1>0, <1>1, <1>4, <2>1, <2>4 DEF TypeOK, publisher
    <2>. QED BY <1>9, <2>3, <2>5, <2>7, <2>8
  <1>11. CASE RefuseReceived(t)
    <2>1. mapped' = [mapped EXCEPT ![m] = @ - 1] /\ UNCHANGED cache
      BY <1>1, <1>11 DEF RefuseReceived, AfterRefusal, MappingsDropped
    <2>2. call'[t].pc = "refused"
      BY <1>0, <1>11 DEF RefuseReceived, AfterRefusal, Goto
    <2>3. ImportedIsNamed' /\ CacheIsMap'
      BY <1>4, <2>1, <2>2 DEF ImportedIsNamed, CacheIsMap
    <2>4. MappedOnce'
      <3>. SUFFICES ASSUME NEW n \in Memfds PROVE mapped'[n] = InCache(n)' + Received(n)'
        BY DEF MappedOnce
      <3>1. mapped[n] = InCache(n) + Received(n) /\ InCache(n)' = InCache(n) /\ InCache(n) \in {0, 1}
        BY <2>1 DEF MappedOnce, InCache
      <3>2. mapped'[n] = IF n = m THEN 0 ELSE mapped[n]
        BY <1>0, <1>2, <1>7, <2>1
      <3>. QED BY <1>6, <1>8, <3>1, <3>2
    <2>5. mapped' \in [Memfds -> Nat]
      BY <1>0, <1>2, <1>7, <2>1
    <2>6. TypeOK'
      BY <1>1, <1>4, <2>1, <2>5 DEF TypeOK, publisher
    <2>. QED BY <1>9, <2>3, <2>4, <2>6
  <1>. QED BY <1>10, <1>11

\* The mutex orders the calls; publishers and calls interleave.
LEMMA CacheStep == CacheInv /\ [Next]_vars => CacheInv'
  <1>. SUFFICES ASSUME CacheInv, [Next]_vars PROVE CacheInv'
    OBVIOUS
  <1>1. CASE UNCHANGED vars
    <2>1. TypeOK' /\ UidsNameMemfds' /\ CacheIsMap'
      BY <1>1 DEF vars, CacheInv, TypeOK, UidsNameMemfds, CacheIsMap
    <2>2. CallsAreImports' /\ MutexHeld' /\ MissIsTrue' /\ ImportedIsNamed'
      BY <1>1 DEF vars, CacheInv, CallsAreImports, MutexHeld, MissIsTrue, ImportedIsNamed, Cached, CacheKey
    <2>3. MappedOnce'
      BY <1>1 DEF vars, CacheInv, MappedOnce, InCache, Received
    <2>. QED BY <2>1, <2>2, <2>3 DEF CacheInv
  <1>2. CASE Next
    BY <1>2, PublisherStep, LookupStep, ReturnStep, ReceiveStep, ReceivedStep DEF Next, ImportGoesOn
  <1>. QED BY <1>1, <1>2

\* The inductive invariant of the cache.
LEMMA CacheInvariant == Spec => []CacheInv
  BY CacheInit, CacheStep, PTL DEF Spec

-----------------------------------------------------------------------------
\* The variables of the cache keep their types: no mapping is dropped twice.
THEOREM CacheTypes == Spec => []TypeOK
  <1>1. CacheInv => TypeOK
    BY DEF CacheInv
  <1>. QED BY <1>1, CacheInvariant, PTL

\* import_block returns the memfd that the descriptor was published from, for
\* any number of pools and processes that reuse its name.
THEOREM ImportsAreNamed == Spec => []ImportedIsNamed
  <1>1. CacheInv => ImportedIsNamed
    BY DEF CacheInv
  <1>. QED BY <1>1, CacheInvariant, PTL

\* Mappings and cache entries correspond, for any number of threads: none is
\* lost, made twice, or left behind by an import that failed.
THEOREM NoMappingLost == Spec => []MappingsAreCached
  <1>1. CacheInv => MappingsAreCached
    <2>. SUFFICES ASSUME CacheInv, NEW m \in Memfds
                  PROVE  mapped[m] = Cardinality({e \in cache : e[2] = m})
                           + Cardinality({t \in Threads : call[t].pc = "received" /\ call[t].got = m})
      BY DEF MappingsAreCached
    <2>. DEFINE E == {e \in cache : e[2] = m}
                T == {t \in Threads : call[t].pc = "received" /\ call[t].got = m}
    <2>1. Cardinality(E) = InCache(m)
      <3>1. CASE E = {}
        BY <3>1, FS_EmptySet DEF InCache
      <3>2. CASE E # {}
        <4>1. PICK e \in E : TRUE
          BY <3>2
        <4>2. E = {e}
          BY <4>1 DEF CacheInv, CacheIsMap
        <4>. QED BY <4>1, <4>2, FS_Singleton DEF InCache
      <3>. QED BY <3>1, <3>2
    <2>2. Cardinality(T) = Received(m)
      <3>1. CASE T = {}
        BY <3>1, FS_EmptySet DEF Received
      <3>2. CASE T # {}
        <4>1. PICK t \in T : TRUE
          BY <3>2
        <4>2. T = {t}
          BY <4>1 DEF CacheInv, MutexHeld
        <4>. QED BY <4>1, <4>2, FS_Singleton DEF Received
      <3>. QED BY <3>1, <3>2
    <2>. QED BY <2>1, <2>2 DEF CacheInv, MappedOnce
  <1>. QED BY <1>1, CacheInvariant, PTL

\* A process never maps two memfds of one name, although a second pool or a
\* successor of the publisher may have created another one.
THEOREM NamesAreMappedOnce == Spec => []OneMappingPerName
  <1>1. CacheInv => OneMappingPerName
    <2>. SUFFICES ASSUME CacheInv, NEW identity \in Identities
                  PROVE  Cardinality({m \in Memfds : IdentityOf[m] = identity /\ mapped[m] > 0}) <= 1
      BY DEF OneMappingPerName
    <2>. DEFINE S == {m \in Memfds : IdentityOf[m] = identity /\ mapped[m] > 0}
    <2>1. ASSUME NEW m \in S, NEW n \in S PROVE m = n
      <3>1. /\ (\E e \in cache : e[2] = m) \/ (\E t \in Threads : call[t].pc = "received" /\ call[t].got = m)
            /\ (\E e \in cache : e[2] = n) \/ (\E t \in Threads : call[t].pc = "received" /\ call[t].got = n)
        BY DEF CacheInv, MappedOnce, InCache, Received
      <3>2. ASSUME NEW t \in Threads, call[t].pc = "received", NEW e \in cache,
                   IdentityOf[call[t].got] = identity, IdentityOf[e[2]] = identity
            PROVE  FALSE
        BY <3>2 DEF CacheInv, CallsAreImports, MissIsTrue, Cached, CacheIsMap
      <3>3. ASSUME NEW t \in Threads, NEW u \in Threads, call[t].pc = "received", call[u].pc = "received"
            PROVE  t = u
        BY <3>3 DEF CacheInv, MutexHeld
      <3>. QED BY <3>1, <3>2, <3>3 DEF CacheInv, CacheIsMap
    <2>2. CASE S = {}
      BY <2>2, FS_EmptySet
    <2>3. CASE S # {}
      <3>1. PICK m \in S : TRUE
        BY <2>3
      <3>2. S = {m}
        BY <2>1, <3>1
      <3>3. Cardinality(S) = 1
        BY <3>2, FS_Singleton
      <3>. HIDE DEF S
      <3>4. Cardinality(S) <= 1
        BY <3>3
      <3>. QED BY <3>4 DEF S
    <2>. QED BY <2>2, <2>3
  <1>. QED BY <1>1, CacheInvariant, PTL
=============================================================================
