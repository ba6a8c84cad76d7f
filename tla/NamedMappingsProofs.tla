--------------------------- MODULE NamedMappingsProofs ---------------------------
(***************************************************************************)
(* The invariants of NamedMappings, and of the EndpointDiscovery below it, *)
(* for any number of processes, placements, pools, nonces and attempts.    *)
(***************************************************************************)
EXTENDS NamedMappings, FiniteSetTheorems, TLAPS

-----------------------------------------------------------------------------
(* Discovery *)

NoIdentity == {None, Plain}

\* A process announces the one identity that its endpoint_manager keeps, and
\* compares with it.
DiscoveryInv ==
  /\ \A p \in Processes :
       announced[p] \notin NoIdentity => announced[p] = endpoint_manager[p]
  /\ \A p, q \in Processes : compatibility_cache[p][q] = "yes" =>
       announced[q] \notin NoIdentity /\ endpoint_manager[p] = announced[q]
  /\ \A p, q \in Processes : compatibility_cache[p][q] = "no" =>
       \/ announced[q] = Plain
       \/ /\ announced[q] \notin NoIdentity
          /\ endpoint_manager[p] # None /\ endpoint_manager[p] # announced[q]

\* The two non-identities differ.
LEMMA PlainIsNotNone == None # Plain
  <1>1. DOMAIN None = {} /\ DOMAIN Plain = {1}
    BY DEF None, Plain
  <1>. QED BY <1>1

\* An evaluated identity is never mistaken for a missing one.
LEMMA EvaluationsAreIdentities == \A p \in Processes : None \notin Evaluations(p)
  BY DEF Evaluations, Certain, Uncertain, None

\* Nothing is announced or judged yet.
LEMMA DiscoveryInitial == DiscoveryInit => DiscoveryTypeOK /\ DiscoveryInv
  BY DEF DiscoveryInit, DiscoveryTypeOK, DiscoveryInv, NoIdentity, Identities, AllIdentities

\* A question answers with the identity of the process, which was kept or is kept now.
LEMMA MetadataStep ==
  ASSUME DiscoveryTypeOK, NEW p \in Processes, NEW m \in Metadata(p)
  PROVE  /\ m \in Identities(p) /\ m \in AllIdentities /\ m # None
         /\ endpoint_manager[p] # None => m = endpoint_manager[p]
  BY EvaluationsAreIdentities DEF Metadata, DiscoveryTypeOK, Identities, AllIdentities

\* Where a process runs decides what it may announce.
LEMMA IdentitiesFrame ==
  ASSUME UNCHANGED place
  PROVE  AllIdentities' = AllIdentities /\ \A p : Identities(p)' = Identities(p)
  BY DEF AllIdentities, Identities, Evaluations, Certain, Uncertain, Windows

\* An endpoint is judged after it is announced, so that announcing contradicts
\* no verdict.
LEMMA AnnounceStep ==
  ASSUME DiscoveryTypeOK, DiscoveryInv, NEW p \in Processes, AnnounceEndpoint(p) \/ AnnouncePlain(p)
  PROVE  DiscoveryTypeOK' /\ DiscoveryInv' /\ UNCHANGED place
  <1>. UNCHANGED place
    BY DEF AnnounceEndpoint, AnnouncePlain
  <1>1. CASE AnnounceEndpoint(p)
    <2>1. PICK m \in Metadata(p) :
            /\ endpoint_manager' = [endpoint_manager EXCEPT ![p] = m]
            /\ announced' = [announced EXCEPT ![p] = m]
      BY <1>1 DEF AnnounceEndpoint
    <2>2. announced[p] = None /\ UNCHANGED compatibility_cache
      BY <1>1 DEF AnnounceEndpoint
    <2>3. DiscoveryTypeOK'
      BY <2>1, <2>2, MetadataStep, IdentitiesFrame DEF DiscoveryTypeOK
    <2>4. /\ m # None /\ (endpoint_manager[p] # None => m = endpoint_manager[p])
          /\ \A r \in Processes : endpoint_manager'[r] = IF r = p THEN m ELSE endpoint_manager[r]
          /\ \A r \in Processes : announced'[r] = IF r = p THEN m ELSE announced[r]
      BY <2>1, MetadataStep DEF DiscoveryTypeOK
    <2>5. ASSUME NEW r \in Processes PROVE announced'[r] \notin NoIdentity => announced'[r] = endpoint_manager'[r]
      BY <2>2, <2>4 DEF DiscoveryInv, NoIdentity
    <2>6. ASSUME NEW r \in Processes, NEW s \in Processes, compatibility_cache'[r][s] = "yes"
          PROVE  announced'[s] \notin NoIdentity /\ endpoint_manager'[r] = announced'[s]
      <3>1. compatibility_cache[r][s] = "yes"
        BY <2>2, <2>6
      <3>2. s # p /\ announced[s] \notin NoIdentity /\ endpoint_manager[r] = announced[s]
        BY <2>2, <3>1 DEF DiscoveryInv, NoIdentity
      <3>. QED BY <2>4, <3>2 DEF NoIdentity
    <2>7. ASSUME NEW r \in Processes, NEW s \in Processes, compatibility_cache'[r][s] = "no"
          PROVE  \/ announced'[s] = Plain
                 \/ /\ announced'[s] \notin NoIdentity
                    /\ endpoint_manager'[r] # None /\ endpoint_manager'[r] # announced'[s]
      <3>1. compatibility_cache[r][s] = "no"
        BY <2>2, <2>7
      <3>2. \/ announced[s] = Plain
            \/ /\ announced[s] \notin NoIdentity
               /\ endpoint_manager[r] # None /\ endpoint_manager[r] # announced[s]
        BY <3>1 DEF DiscoveryInv
      <3>3. s # p
        BY <2>2, <3>2, PlainIsNotNone DEF NoIdentity
      <3>. QED BY <2>4, <3>2, <3>3 DEF NoIdentity
    <2>. QED BY <2>3, <2>5, <2>6, <2>7 DEF DiscoveryInv
  <1>2. CASE AnnouncePlain(p)
    <2>1. /\ announced[p] = None /\ announced' = [announced EXCEPT ![p] = Plain]
          /\ UNCHANGED <<endpoint_manager, compatibility_cache>>
      BY <1>2 DEF AnnouncePlain
    <2>2. DiscoveryTypeOK'
      BY <2>1, IdentitiesFrame DEF DiscoveryTypeOK
    <2>3. DiscoveryInv'
      BY <2>1 DEF DiscoveryTypeOK, DiscoveryInv, NoIdentity
    <2>. QED BY <2>2, <2>3
  <1>. QED BY <1>1, <1>2

\* The verdict is about the identity that is kept from now on.
LEMMA DiscoverStep ==
  ASSUME DiscoveryTypeOK, DiscoveryInv, NEW p \in Processes, NEW q \in Processes, Discover(p, q)
  PROVE  DiscoveryTypeOK' /\ DiscoveryInv' /\ UNCHANGED place
  <1>. UNCHANGED <<place, announced>>
    BY DEF Discover, DiscoverEndpoint, DiscoverPlain
  <1>1. CASE DiscoverEndpoint(p, q)
    <2>1. PICK m \in Metadata(p) :
            /\ endpoint_manager' = [endpoint_manager EXCEPT ![p] = m]
            /\ compatibility_cache' =
                 [compatibility_cache EXCEPT ![p][q] = IF m = announced[q] THEN "yes" ELSE "no"]
      BY <1>1 DEF DiscoverEndpoint, Judge
    <2>2. announced[q] \notin NoIdentity
      BY <1>1 DEF DiscoverEndpoint, NoIdentity
    <2>3. DiscoveryTypeOK'
      BY <2>1, MetadataStep, IdentitiesFrame DEF DiscoveryTypeOK
    <2>4. /\ m # None /\ (endpoint_manager[p] # None => m = endpoint_manager[p])
          /\ \A r \in Processes : endpoint_manager'[r] = IF r = p THEN m ELSE endpoint_manager[r]
          /\ \A r, s \in Processes : compatibility_cache'[r][s] =
               IF r = p /\ s = q THEN (IF m = announced[q] THEN "yes" ELSE "no")
               ELSE compatibility_cache[r][s]
      BY <2>1, MetadataStep DEF DiscoveryTypeOK
    <2>5. DiscoveryInv'
      BY <2>2, <2>4 DEF DiscoveryInv, NoIdentity
    <2>. QED BY <2>3, <2>5
  <1>2. CASE DiscoverPlain(p, q)
    <2>1. /\ announced[q] = Plain /\ UNCHANGED endpoint_manager
          /\ compatibility_cache' = [compatibility_cache EXCEPT ![p][q] = "no"]
      BY <1>2 DEF DiscoverPlain, Judge
    <2>2. DiscoveryTypeOK'
      BY <2>1, IdentitiesFrame DEF DiscoveryTypeOK
    <2>3. \A r, s \in Processes : compatibility_cache'[r][s] =
            IF r = p /\ s = q THEN "no" ELSE compatibility_cache[r][s]
      BY <2>1 DEF DiscoveryTypeOK
    <2>4. DiscoveryInv'
      BY <2>1, <2>3 DEF DiscoveryInv, NoIdentity
    <2>. QED BY <2>2, <2>4
  <1>. QED BY <1>1, <1>2 DEF Discover

\* Nothing else touches the discovery.
LEMMA DiscoveryFrame ==
  ASSUME DiscoveryTypeOK, DiscoveryInv, UNCHANGED discovery
  PROVE  DiscoveryTypeOK' /\ DiscoveryInv'
  BY IdentitiesFrame DEF discovery, DiscoveryTypeOK, DiscoveryInv

\* Both verdicts compare the two identities that were announced.
LEMMA AgreementHolds == DiscoveryInv => VerdictsAgree
  BY DEF DiscoveryInv, VerdictsAgree, NoIdentity

-----------------------------------------------------------------------------
(* The strengthening *)

Mark(b) == IF b THEN 1 ELSE 0

PoolRecord == [pc : PoolPcs, nonce : Nonces \cup {0}, attempt : 0 .. MaxAttempts,
               object : Pools \cup {NoObject}]
CallRecord == [pc : CallPcs, desc : Descriptors \cup {NoDescriptor}, object : Pools \cup {NoObject}]

\* A pool has its own object once the object is created, and another one while
\* it gives that back.
PoolFits(k, r) ==
  /\ r.pc \in {"map", "ready"} => r.object = k
  /\ r.pc = "retry" => r.object \in Pools
  /\ r.pc \notin {"map", "ready", "retry"} => r.object = NoObject
  /\ r.pc \in {"new", "create", "retry"} => r.attempt < MaxAttempts
  /\ r.pc # "new" => r.nonce \in Nonces

PoolShape == \A k \in Pools : PoolFits(k, pool[k])

\* A call has an object from its own session, with the name that it asked for
\* and did not find in the cache.
CallFits(p, c) ==
  /\ c.pc \in {"idle", "find"} => c.object = NoObject
  /\ c.pc # "idle" => c.desc \in sent /\ c.desc.to = p
  /\ c.pc \in {"open", "mapped"} =>
       /\ c.object \in Pools
       /\ Cached(p, c.desc.name) = {}
       /\ name[c.object] = c.desc.name
       /\ Namespace(ProcessOf[c.object]) = Namespace(p)

CallShape == \A p \in Processes : CallFits(p, call[p])

\* The key of an entry is the name of its object.
CacheShape ==
  \A p \in Processes :
    /\ IsFiniteSet(cache[p])
    /\ \A entry \in cache[p] : name[entry[2]] = entry[1]

\* A UID names one object, that of the descriptor it was sent with.
UidShape ==
  /\ \A o \in Pools : uid[o] <= lastUid
  /\ \A d \in sent : d.uid <= lastUid
  /\ \A d \in sent : \A o \in Pools : uid[o] = d.uid => o = d.from

\* Objects that exist have different names in one session.
NamesUnique ==
  \A o1, o2 \in Pools :
    Exists(o1) /\ Exists(o2) /\ name[o1] = name[o2]
      /\ Namespace(ProcessOf[o1]) = Namespace(ProcessOf[o2]) => o1 = o2

\* The object of a pool is not created yet.
Uncreated ==
  \A k \in Pools :
    ProcessOf[k] \in alive /\ pool[k].pc \in {"new", "create", "retry"} => name[k] = None

NamingInv ==
  /\ PoolShape
  /\ CallShape
  /\ CacheShape
  /\ UidShape
  /\ NamesUnique
  /\ Uncreated
  /\ HandleAccounting
  /\ ImportsStayLocal

\* What one step of a pool, or of a call, leaves as it was
MappingInv == TypeOK /\ DiscoveryInv /\ NamingInv

-----------------------------------------------------------------------------
(* Counting *)

PoolUses(p, o) == Cardinality({k \in Pools : ProcessOf[k] = p /\ pool[k].object = o})
CacheUses(p, o) == Cardinality({entry \in cache[p] : entry[2] = o})

\* Sets that differ in one element at most
LEMMA OneElement ==
  ASSUME NEW S, IsFiniteSet(S), NEW T, IsFiniteSet(T), NEW x, S \ {x} = T \ {x}
  PROVE  /\ Cardinality(S) \in Nat /\ Cardinality(T) \in Nat
         /\ Cardinality(T) + Mark(x \in S) = Cardinality(S) + Mark(x \in T)
  <1>1. Cardinality(S) \in Nat /\ Cardinality(T) \in Nat
    BY FS_CardinalityType
  <1>2. Cardinality(S \ {x}) = IF x \in S THEN Cardinality(S) - 1 ELSE Cardinality(S)
    BY FS_RemoveElement
  <1>3. Cardinality(T \ {x}) = IF x \in T THEN Cardinality(T) - 1 ELSE Cardinality(T)
    BY FS_RemoveElement
  <1>. QED BY <1>1, <1>2, <1>3 DEF Mark

CallUses(c, o) == Cardinality({d \in {c} : d.object = o})

\* A call uses one object.
LEMMA OneCall ==
  ASSUME NEW c, NEW o
  PROVE  CallUses(c, o) = Mark(c.object = o)
  <1>. USE DEF CallUses
  <1>1. CASE c.object = o
    <2>1. {d \in {c} : d.object = o} = {c}
      BY <1>1
    <2>. QED BY <1>1, <2>1, FS_Singleton DEF Mark
  <1>2. CASE c.object # o
    <2>1. {d \in {c} : d.object = o} = {}
      BY <1>2
    <2>. QED BY <1>2, <2>1, FS_EmptySet DEF Mark
  <1>. QED BY <1>1, <1>2

\* The uses of an object, one kind at a time
LEMMA UsesSum ==
  ASSUME CacheShape, NEW p \in Processes, NEW o \in Pools
  PROVE  /\ PoolUses(p, o) \in Nat /\ CacheUses(p, o) \in Nat
         /\ Uses(p, o) = PoolUses(p, o) + CacheUses(p, o) + Mark(call[p].object = o)
  <1>1. PoolUses(p, o) \in Nat
    <2>1. IsFiniteSet({k \in Pools : ProcessOf[k] = p /\ pool[k].object = o})
      BY NamingAssumption, FS_Subset
    <2>. QED BY <2>1, FS_CardinalityType DEF PoolUses
  <1>2. CacheUses(p, o) \in Nat
    <2>1. IsFiniteSet({entry \in cache[p] : entry[2] = o})
      BY FS_Subset DEF CacheShape
    <2>. QED BY <2>1, FS_CardinalityType DEF CacheUses
  <1>3. Uses(p, o) = PoolUses(p, o) + CacheUses(p, o) + CallUses(call[p], o)
    BY DEF Uses, CallUses, PoolUses, CacheUses
  <1>4. CallUses(call[p], o) = Mark(call[p].object = o)
    BY OneCall
  <1>. QED BY <1>1, <1>2, <1>3, <1>4

\* One pool takes or gives up an object together with a handle.
LEMMA PoolMove ==
  ASSUME CacheShape, HandleAccounting, NEW k \in Pools, UNCHANGED <<cache, call>>,
         \A l \in Pools \ {k} : pool'[l].object = pool[l].object,
         \A p \in Processes : \A o \in Pools :
           handles'[p][o] = handles[p][o] + Mark(p = ProcessOf[k] /\ pool'[k].object = o)
                                          - Mark(p = ProcessOf[k] /\ pool[k].object = o)
  PROVE  HandleAccounting' /\ \A p \in Processes : \A o \in Pools : handles'[p][o] \in Nat
  <1>. SUFFICES ASSUME NEW p \in Processes, NEW o \in Pools
                PROVE  handles'[p][o] = Uses(p, o)' /\ handles'[p][o] \in Nat
    BY DEF HandleAccounting
  <1>. DEFINE S == {l \in Pools : ProcessOf[l] = p /\ pool[l].object = o}
              T == {l \in Pools : ProcessOf[l] = p /\ pool'[l].object = o}
  <1>1. IsFiniteSet(S) /\ IsFiniteSet(T)
    BY NamingAssumption, FS_Subset
  <1>2. S \ {k} = T \ {k}
    OBVIOUS
  <1>. HIDE DEF S, T
  <1>3. Cardinality(T) \in Nat /\ Cardinality(T) + Mark(k \in S) = Cardinality(S) + Mark(k \in T)
    BY <1>1, <1>2, OneElement
  <1>4. /\ Mark(k \in S) = Mark(p = ProcessOf[k] /\ pool[k].object = o)
        /\ Mark(k \in T) = Mark(p = ProcessOf[k] /\ pool'[k].object = o)
    BY DEF Mark, S, T
  <1>5. Uses(p, o)' = Cardinality(T) + CacheUses(p, o) + Mark(call[p].object = o)
    <2>1. CallUses(call[p], o) = Mark(call[p].object = o)
      BY OneCall
    <2>. QED BY <2>1 DEF Uses, CallUses, CacheUses, T
  <1>6. handles[p][o] = Cardinality(S) + CacheUses(p, o) + Mark(call[p].object = o)
    BY UsesSum DEF HandleAccounting, PoolUses, S
  <1>7. CacheUses(p, o) \in Nat /\ Cardinality(S) \in Nat
    BY <1>1, UsesSum, FS_CardinalityType
  <1>8. /\ handles'[p][o] = handles[p][o] + Mark(p = ProcessOf[k] /\ pool'[k].object = o)
                                          - Mark(p = ProcessOf[k] /\ pool[k].object = o)
        /\ \A b : Mark(b) \in {0, 1}
    BY DEF Mark
  <1>. QED BY <1>3, <1>4, <1>5, <1>6, <1>7, <1>8

\* So does one call.
LEMMA CallMove ==
  ASSUME CacheShape, HandleAccounting, NEW q \in Processes, UNCHANGED <<cache, pool>>,
         \A p \in Processes \ {q} : call'[p].object = call[p].object,
         \A p \in Processes : \A o \in Pools :
           handles'[p][o] = handles[p][o] + Mark(p = q /\ call'[q].object = o)
                                          - Mark(p = q /\ call[q].object = o)
  PROVE  HandleAccounting' /\ \A p \in Processes : \A o \in Pools : handles'[p][o] \in Nat
  <1>. SUFFICES ASSUME NEW p \in Processes, NEW o \in Pools
                PROVE  handles'[p][o] = Uses(p, o)' /\ handles'[p][o] \in Nat
    BY DEF HandleAccounting
  <1>1. Uses(p, o)' = PoolUses(p, o) + CacheUses(p, o) + Mark(call'[p].object = o)
    <2>1. CallUses(call'[p], o) = Mark(call'[p].object = o)
      BY OneCall
    <2>. QED BY <2>1 DEF Uses, CallUses, CacheUses, PoolUses
  <1>2. handles[p][o] = PoolUses(p, o) + CacheUses(p, o) + Mark(call[p].object = o)
    BY UsesSum DEF HandleAccounting
  <1>3. /\ PoolUses(p, o) \in Nat /\ CacheUses(p, o) \in Nat
        /\ handles'[p][o] = handles[p][o] + Mark(p = q /\ call'[q].object = o)
                                          - Mark(p = q /\ call[q].object = o)
    BY UsesSum
  <1>. QED BY <1>1, <1>2, <1>3 DEF Mark

\* An accepted call hands its handle to the cache.
LEMMA AcceptMove ==
  ASSUME CacheShape, HandleAccounting, NEW q \in Processes, NEW entry,
         entry \notin cache[q], entry[2] = call[q].object, NoObject \notin Pools,
         UNCHANGED <<handles, pool>>,
         \A p \in Processes \ {q} : call'[p].object = call[p].object /\ cache'[p] = cache[p],
         call'[q].object = NoObject, cache'[q] = cache[q] \cup {entry}
  PROVE  HandleAccounting'
  <1>. SUFFICES ASSUME NEW p \in Processes, NEW o \in Pools
                PROVE  handles[p][o] = Uses(p, o)'
    BY DEF HandleAccounting
  <1>. DEFINE S == {e \in cache[p] : e[2] = o}
              T == {e \in cache'[p] : e[2] = o}
  <1>1. IsFiniteSet(S) /\ IsFiniteSet(T)
    <2>1. IsFiniteSet(cache[p]) /\ IsFiniteSet(cache'[p])
      BY FS_AddElement DEF CacheShape
    <2>. QED BY <2>1, FS_Subset
  <1>2. S \ {entry} = T \ {entry}
    OBVIOUS
  <1>3. /\ Mark(entry \in S) = 0 \/ p # q
        /\ p = q => Mark(entry \in T) = Mark(call[q].object = o)
        /\ p # q => S = T
    BY DEF Mark
  <1>4. CallUses(call'[p], o) = Mark(call'[p].object = o)
    BY OneCall
  <1>. HIDE DEF S, T
  <1>5. Uses(p, o)' = PoolUses(p, o) + Cardinality(T) + Mark(call'[p].object = o)
    BY <1>4 DEF Uses, CallUses, PoolUses, T
  <1>6. handles[p][o] = PoolUses(p, o) + Cardinality(S) + Mark(call[p].object = o)
    BY UsesSum DEF HandleAccounting, CacheUses, S
  <1>7. /\ Cardinality(T) \in Nat /\ Cardinality(S) \in Nat
        /\ Cardinality(T) + Mark(entry \in S) = Cardinality(S) + Mark(entry \in T)
    BY <1>1, <1>2, OneElement
  <1>8. PoolUses(p, o) \in Nat
    BY UsesSum
  <1>9. CASE p = q
    <2>1. Mark(call'[p].object = o) = 0
      BY <1>9 DEF Mark
    <2>. QED BY <1>3, <1>5, <1>6, <1>7, <1>8, <1>9, <2>1 DEF Mark
  <1>10. CASE p # q
    BY <1>3, <1>5, <1>6, <1>10
  <1>. QED BY <1>9, <1>10

-----------------------------------------------------------------------------
(* Frames *)

LEMMA NoneIsNoName == None \notin Names
  <1>1. DOMAIN None = {} /\ \A n \in Names : DOMAIN n = {1, 2}
    BY DEF None, Names
  <1>. QED BY <1>1

\* Names, descriptors and namespaces depend on where processes run only.
LEMMA PlaceFrame ==
  ASSUME UNCHANGED place
  PROVE  /\ Names' = Names /\ Descriptors' = Descriptors
         /\ \A p : Namespace(p)' = Namespace(p)
  BY DEF Names, Pids, Numbers, Descriptors, Namespace

\* A pool that drew its nonce has a name in the bounds.
LEMMA NameOfPool ==
  ASSUME MappingInv, NEW k \in Pools, pool[k].pc # "new"
  PROVE  NameOf(k) \in Names
  <1>1. /\ pool[k].nonce \in Nonces /\ pool[k].attempt \in 0 .. MaxAttempts
        /\ ProcessOf[k] \in Processes
    BY NamingAssumption DEF MappingInv, NamingInv, PoolShape, PoolFits, TypeOK
  <1>. QED BY <1>1 DEF NameOf, Names, Pids, Numbers

\* A handle more, a handle less
LEMMA HandleMoves ==
  ASSUME handles \in [Processes -> [Pools -> Nat]], NEW q \in Processes, NEW x \in Pools
  PROVE  /\ TakeHandle(q, x) =>
              /\ handles' \in [Processes -> [Pools -> Int]]
              /\ \A p \in Processes : \A o \in Pools :
                   handles'[p][o] = handles[p][o] + Mark(p = q /\ x = o)
         /\ DropHandle(q, x) =>
              /\ handles' \in [Processes -> [Pools -> Int]]
              /\ \A p \in Processes : \A o \in Pools :
                   handles'[p][o] = handles[p][o] - Mark(p = q /\ x = o)
  BY DEF TakeHandle, DropHandle, Mark

\* What follows when processes, names and descriptors stay as they are
LEMMA PublicFrame ==
  ASSUME MappingInv, UNCHANGED <<discovery, alive, name, lastUid, sent>>
  PROVE  /\ DiscoveryTypeOK' /\ DiscoveryInv'
         /\ Names' = Names /\ Descriptors' = Descriptors
         /\ \A p : Namespace(p)' = Namespace(p)
         /\ alive' \subseteq Processes
         /\ name' \in [Pools -> Names' \cup {None}]
         /\ lastUid' \in 0 .. MaxUid /\ sent' \subseteq Descriptors'
         /\ UNCHANGED cache => CacheShape' /\ ImportsStayLocal'
  <1>1. DiscoveryTypeOK' /\ DiscoveryInv' /\ UNCHANGED place
    BY DiscoveryFrame DEF MappingInv, TypeOK, discovery
  <1>2. Names' = Names /\ Descriptors' = Descriptors /\ \A p : Namespace(p)' = Namespace(p)
    BY <1>1, PlaceFrame
  <1>3. UNCHANGED cache => CacheShape' /\ ImportsStayLocal'
    BY <1>2 DEF MappingInv, NamingInv, CacheShape, ImportsStayLocal
  <1>. QED BY <1>1, <1>2, <1>3 DEF MappingInv, TypeOK

\* Handles are taken to objects that exist.
LEMMA UniqueFrame ==
  ASSUME NamesUnique, UNCHANGED <<place, name>>, \A o \in Pools : Exists(o)' => Exists(o)
  PROVE  NamesUnique'
  BY PlaceFrame DEF NamesUnique

\* A step of a pool, other than a new object, that moves a handle as the object
\* of the pool
LEMMA PoolStep ==
  ASSUME MappingInv, NEW k \in Pools,
         pool' \in [Pools -> PoolRecord], \A l \in Pools \ {k} : pool'[l] = pool[l],
         PoolFits(k, pool'[k]),
         pool'[k].pc \in {"new", "create", "retry"} => pool[k].pc \in {"new", "create", "retry"},
         UNCHANGED <<discovery, alive, name, lastUid, sent, cache, call>>,
         uid' \in [Pools -> 0 .. MaxUid], UidShape',
         handles' \in [Processes -> [Pools -> Int]],
         \A p \in Processes : \A o \in Pools :
           handles'[p][o] = handles[p][o] + Mark(p = ProcessOf[k] /\ pool'[k].object = o)
                                          - Mark(p = ProcessOf[k] /\ pool[k].object = o),
         pool'[k].object \in Pools => pool'[k].object = pool[k].object \/ Exists(pool'[k].object)
  PROVE  MappingInv'
  <1>1. /\ DiscoveryTypeOK' /\ DiscoveryInv' /\ CacheShape' /\ ImportsStayLocal'
        /\ Names' = Names /\ Descriptors' = Descriptors /\ \A p : Namespace(p)' = Namespace(p)
        /\ alive' \subseteq Processes /\ name' \in [Pools -> Names' \cup {None}]
        /\ lastUid' \in 0 .. MaxUid /\ sent' \subseteq Descriptors'
    BY PublicFrame
  <1>2. HandleAccounting' /\ \A p \in Processes : \A o \in Pools : handles'[p][o] \in Nat
    BY PoolMove DEF MappingInv, NamingInv
  <1>3. TypeOK'
    <2>1. handles' \in [Processes -> [Pools -> Nat]]
      BY <1>2
    <2>2. /\ cache' \in [Processes -> SUBSET (Names' \X Pools)]
          /\ call' \in [Processes -> [pc : CallPcs, desc : Descriptors' \cup {NoDescriptor},
                                      object : Pools \cup {NoObject}]]
      BY <1>1 DEF MappingInv, TypeOK
    <2>. QED BY <1>1, <2>1, <2>2 DEF TypeOK, PoolRecord
  <1>4. PoolShape' /\ Uncreated'
    BY DEF MappingInv, NamingInv, PoolShape, PoolFits, Uncreated
  <1>5. CallShape'
    <2>. SUFFICES ASSUME NEW p \in Processes PROVE CallFits(p, call[p])'
      BY DEF CallShape
    <2>1. CallFits(p, call[p]) /\ call'[p] = call[p]
      BY DEF MappingInv, NamingInv, CallShape
    <2>2. \A n : Cached(p, n)' = Cached(p, n)
      BY DEF Cached
    <2>. QED BY <1>1, <2>1, <2>2 DEF CallFits
  <1>6. NamesUnique'
    <2>1. ASSUME NEW o \in Pools, Exists(o)' PROVE Exists(o)
      <3>1. PICK p \in Processes : handles'[p][o] > 0
        BY <2>1 DEF Exists
      <3>2. /\ handles[p][o] \in Nat
            /\ handles'[p][o] = handles[p][o] + Mark(p = ProcessOf[k] /\ pool'[k].object = o)
                                              - Mark(p = ProcessOf[k] /\ pool[k].object = o)
        BY DEF MappingInv, TypeOK
      <3>3. handles[p][o] > 0 \/ (pool'[k].object = o /\ pool[k].object # o)
            \/ (p = ProcessOf[k] /\ pool[k].object = o)
        BY <3>1, <3>2 DEF Mark
      <3>4. CASE p = ProcessOf[k] /\ pool[k].object = o
        BY <3>1, <3>2, <3>4 DEF Exists, Mark
      <3>. QED BY <3>3, <3>4 DEF Exists
    <2>. QED BY <2>1, UniqueFrame DEF MappingInv, NamingInv, discovery
  <1>. QED BY <1>1, <1>2, <1>3, <1>4, <1>5, <1>6 DEF MappingInv, NamingInv

\* A step of a call, other than a new entry, that moves a handle as the object
\* of the call
LEMMA CallStep ==
  ASSUME MappingInv, NEW q \in Processes,
         call' \in [Processes -> CallRecord], \A p \in Processes \ {q} : call'[p] = call[p],
         CallFits(q, call'[q]),
         UNCHANGED <<discovery, alive, pool, name, uid, lastUid, sent, cache>>,
         handles' \in [Processes -> [Pools -> Int]],
         \A p \in Processes : \A o \in Pools :
           handles'[p][o] = handles[p][o] + Mark(p = q /\ call'[q].object = o)
                                          - Mark(p = q /\ call[q].object = o),
         call'[q].object \in Pools => call'[q].object = call[q].object \/ Exists(call'[q].object)
  PROVE  MappingInv'
  <1>1. /\ DiscoveryTypeOK' /\ DiscoveryInv' /\ CacheShape' /\ ImportsStayLocal'
        /\ Names' = Names /\ Descriptors' = Descriptors /\ \A p : Namespace(p)' = Namespace(p)
        /\ alive' \subseteq Processes /\ name' \in [Pools -> Names' \cup {None}]
        /\ lastUid' \in 0 .. MaxUid /\ sent' \subseteq Descriptors'
    BY PublicFrame
  <1>2. HandleAccounting' /\ \A p \in Processes : \A o \in Pools : handles'[p][o] \in Nat
    BY CallMove DEF MappingInv, NamingInv
  <1>3. TypeOK'
    <2>1. handles' \in [Processes -> [Pools -> Nat]]
      BY <1>2
    <2>2. cache' \in [Processes -> SUBSET (Names' \X Pools)]
      BY <1>1 DEF MappingInv, TypeOK
    <2>3. call' \in [Processes -> [pc : CallPcs, desc : Descriptors' \cup {NoDescriptor},
                                  object : Pools \cup {NoObject}]]
      BY <1>1 DEF CallRecord
    <2>. QED BY <1>1, <2>1, <2>2, <2>3 DEF MappingInv, TypeOK
  <1>4. PoolShape' /\ Uncreated' /\ UidShape'
    BY DEF MappingInv, NamingInv, PoolShape, PoolFits, Uncreated, UidShape
  <1>5. CallShape'
    <2>. SUFFICES ASSUME NEW p \in Processes PROVE CallFits(p, call[p])'
      BY DEF CallShape
    <2>1. CallFits(p, call'[p])
      BY DEF MappingInv, NamingInv, CallShape
    <2>2. \A n : Cached(p, n)' = Cached(p, n)
      BY DEF Cached
    <2>. QED BY <1>1, <2>1, <2>2 DEF CallFits
  <1>6. NamesUnique'
    <2>1. ASSUME NEW o \in Pools, Exists(o)' PROVE Exists(o)
      <3>1. PICK p \in Processes : handles'[p][o] > 0
        BY <2>1 DEF Exists
      <3>2. /\ handles[p][o] \in Nat
            /\ handles'[p][o] = handles[p][o] + Mark(p = q /\ call'[q].object = o)
                                              - Mark(p = q /\ call[q].object = o)
        BY DEF MappingInv, TypeOK
      <3>3. handles[p][o] > 0 \/ (call'[q].object = o /\ call[q].object # o)
        BY <3>1, <3>2 DEF Mark
      <3>. QED BY <3>3 DEF Exists
    <2>. QED BY <2>1, UniqueFrame DEF MappingInv, NamingInv, discovery
  <1>. QED BY <1>1, <1>2, <1>3, <1>4, <1>5, <1>6 DEF MappingInv, NamingInv

-----------------------------------------------------------------------------
(* The steps of a pool *)

LEMMA TypesOfPool ==
  ASSUME MappingInv, NEW k \in Pools
  PROVE  /\ pool \in [Pools -> PoolRecord] /\ pool[k] \in PoolRecord /\ PoolFits(k, pool[k])
         /\ ProcessOf[k] \in Processes
         /\ handles \in [Processes -> [Pools -> Nat]]
         /\ uid \in [Pools -> 0 .. MaxUid]
         /\ NoObject \notin Pools
  BY NamingAssumption DEF MappingInv, NamingInv, TypeOK, PoolRecord, PoolShape

\* Steps that move no handle
LEMMA SameHandles ==
  ASSUME handles \in [Processes -> [Pools -> Nat]], UNCHANGED handles
  PROVE  /\ handles' \in [Processes -> [Pools -> Int]]
         /\ \A p \in Processes : \A o \in Pools : \A b :
              handles'[p][o] = handles[p][o] + Mark(b) - Mark(b)
  BY DEF Mark

\* The UIDs do not change.
LEMMA UidFrame == UidShape /\ UNCHANGED <<uid, lastUid, sent>> => UidShape'
  BY DEF UidShape

\* Drawing a nonce, and failing, touches no object.
LEMMA QuietPoolStep ==
  ASSUME MappingInv, NEW k \in Pools, Draw(k) \/ CreateFails(k)
  PROVE  MappingInv'
  <1>1. /\ pool \in [Pools -> PoolRecord] /\ pool[k] \in PoolRecord /\ PoolFits(k, pool[k])
        /\ handles \in [Processes -> [Pools -> Nat]] /\ uid \in [Pools -> 0 .. MaxUid]
    BY TypesOfPool
  <1>2. /\ UNCHANGED <<discovery, alive, name, handles, uid, lastUid, sent, cache, call>>
        /\ pool[k].pc \in {"new", "create"}
    BY DEF Draw, CreateFails, Creating
  <1>3. /\ pool' \in [Pools -> PoolRecord] /\ \A l \in Pools \ {k} : pool'[l] = pool[l]
        /\ PoolFits(k, pool'[k]) /\ pool'[k].object = pool[k].object
    <2>1. CASE Draw(k)
      <3>1. PICK nonce \in Nonces :
              pool' = [pool EXCEPT ![k] = [@ EXCEPT !.pc = "create", !.nonce = nonce]]
        BY <2>1 DEF Draw
      <3>2. pool[k].pc = "new"
        BY <2>1 DEF Draw, Creating
      <3>. QED BY <1>1, <3>1, <3>2 DEF PoolRecord, PoolFits, PoolPcs
    <2>2. CASE CreateFails(k)
      <3>1. pool' = [pool EXCEPT ![k].pc = "failed"] /\ pool[k].pc = "create"
        BY <2>2 DEF CreateFails, Creating, Becomes
      <3>. QED BY <1>1, <3>1 DEF PoolRecord, PoolFits, PoolPcs
    <2>. QED BY <2>1, <2>2
  <1>4. UidShape'
    BY <1>2, UidFrame DEF MappingInv, NamingInv
  <1>. QED BY <1>1, <1>2, <1>3, <1>4, SameHandles, PoolStep

\* The new header has no UID, so that no descriptor matches it.
LEMMA MapNewStep ==
  ASSUME MappingInv, NEW k \in Pools, MapNew(k)
  PROVE  MappingInv'
  <1>1. /\ pool \in [Pools -> PoolRecord] /\ pool[k] \in PoolRecord /\ PoolFits(k, pool[k])
        /\ handles \in [Processes -> [Pools -> Nat]] /\ uid \in [Pools -> 0 .. MaxUid]
    BY TypesOfPool
  <1>2. /\ UNCHANGED <<discovery, alive, name, handles, lastUid, sent, cache, call>>
        /\ pool[k].pc = "map" /\ pool[k].object = k
        /\ uid' = [uid EXCEPT ![k] = 0]
        /\ pool' = [pool EXCEPT ![k].pc = "ready"]
    BY <1>1 DEF MapNew, Creating, Becomes, PoolFits
  <1>3. /\ pool' \in [Pools -> PoolRecord] /\ \A l \in Pools \ {k} : pool'[l] = pool[l]
        /\ PoolFits(k, pool'[k]) /\ pool'[k].object = pool[k].object /\ pool'[k].pc = "ready"
    BY <1>1, <1>2 DEF PoolRecord, PoolFits, PoolPcs
  <1>4. uid' \in [Pools -> 0 .. MaxUid] /\ UidShape'
    <2>1. sent \subseteq Descriptors /\ lastUid \in 0 .. MaxUid /\ MaxUid \in Nat
      BY NamingAssumption DEF MappingInv, TypeOK
    <2>2. \A d \in sent : d.uid \in 1 .. MaxUid
      BY <2>1 DEF Descriptors
    <2>. QED BY <1>1, <1>2, <2>1, <2>2 DEF MappingInv, NamingInv, UidShape
  <1>. QED BY <1>1, <1>2, <1>3, <1>4, SameHandles, PoolStep

\* The object of another pool is opened for a moment.
LEMMA CreateOpensStep ==
  ASSUME MappingInv, NEW k \in Pools, CreateOpens(k)
  PROVE  MappingInv'
  <1>1. /\ pool \in [Pools -> PoolRecord] /\ pool[k] \in PoolRecord /\ PoolFits(k, pool[k])
        /\ handles \in [Processes -> [Pools -> Nat]] /\ uid \in [Pools -> 0 .. MaxUid]
        /\ ProcessOf[k] \in Processes /\ NoObject \notin Pools
    BY TypesOfPool
  <1>2. PICK o \in Pools :
          /\ Exists(o) /\ TakeHandle(ProcessOf[k], o)
          /\ pool' = [pool EXCEPT ![k] = [@ EXCEPT !.pc = "retry", !.object = o]]
    BY DEF CreateOpens, Named, Retried
  <1>3. /\ UNCHANGED <<discovery, alive, name, uid, lastUid, sent, cache, call>>
        /\ pool[k].pc = "create" /\ pool[k].object = NoObject
    BY <1>1 DEF CreateOpens, Creating, PoolFits
  <1>4. /\ pool' \in [Pools -> PoolRecord] /\ \A l \in Pools \ {k} : pool'[l] = pool[l]
        /\ PoolFits(k, pool'[k]) /\ pool'[k].object = o /\ pool'[k].pc = "retry"
    BY <1>1, <1>2, <1>3 DEF PoolRecord, PoolFits, PoolPcs
  <1>5. UidShape'
    BY <1>3, UidFrame DEF MappingInv, NamingInv
  <1>6. /\ handles' \in [Processes -> [Pools -> Int]]
        /\ \A p \in Processes : \A x \in Pools :
             handles'[p][x] = handles[p][x] + Mark(p = ProcessOf[k] /\ pool'[k].object = x)
                                            - Mark(p = ProcessOf[k] /\ pool[k].object = x)
    BY <1>1, <1>2, <1>3, <1>4, HandleMoves DEF Mark
  <1>. QED BY <1>1, <1>2, <1>3, <1>4, <1>5, <1>6, PoolStep

\* A handle is given up with the object.
LEMMA GiveUpStep ==
  ASSUME MappingInv, NEW k \in Pools, CreateRetries(k) \/ MapNewFails(k) \/ DestroyPool(k)
  PROVE  MappingInv'
  <1>1. /\ pool \in [Pools -> PoolRecord] /\ pool[k] \in PoolRecord /\ PoolFits(k, pool[k])
        /\ handles \in [Processes -> [Pools -> Nat]] /\ uid \in [Pools -> 0 .. MaxUid]
        /\ ProcessOf[k] \in Processes /\ NoObject \notin Pools
    BY TypesOfPool
  <1>2. /\ UNCHANGED <<discovery, alive, name, uid, lastUid, sent, cache, call>>
        /\ pool[k].pc \in {"retry", "map", "ready"} /\ pool[k].object \in Pools
        /\ DropHandle(ProcessOf[k], pool[k].object)
    BY <1>1 DEF CreateRetries, MapNewFails, DestroyPool, Creating, PoolFits, CloseUnmapped
  <1>3. /\ pool' \in [Pools -> PoolRecord] /\ \A l \in Pools \ {k} : pool'[l] = pool[l]
        /\ PoolFits(k, pool'[k]) /\ pool'[k].object = NoObject
        /\ pool'[k].pc \in {"new", "create", "retry"} => pool[k].pc = "retry"
    <2>1. CASE CreateRetries(k)
      <3>1. pool[k].attempt \in 0 .. MaxAttempts /\ pool[k].attempt < MaxAttempts /\ pool[k].pc = "retry"
        BY <1>1, <2>1 DEF CreateRetries, Creating, PoolFits, PoolRecord
      <3>2. pool' = [pool EXCEPT ![k] =
                [@ EXCEPT !.pc = IF pool[k].attempt + 1 < MaxAttempts THEN "create" ELSE "failed",
                          !.attempt = pool[k].attempt + 1, !.object = NoObject]]
        BY <2>1 DEF CreateRetries, NextAttempt
      <3>3. /\ pool[k].attempt + 1 \in 0 .. MaxAttempts /\ pool[k].nonce \in Nonces
            /\ pool[k].attempt + 1 < MaxAttempts \/ ~(pool[k].attempt + 1 < MaxAttempts)
        BY <1>1, <3>1, NamingAssumption DEF PoolFits
      <3>4. PICK pc \in {"create", "failed"} :
              /\ pc = "create" => pool[k].attempt + 1 < MaxAttempts
              /\ pool' = [pool EXCEPT ![k] =
                   [@ EXCEPT !.pc = pc, !.attempt = pool[k].attempt + 1, !.object = NoObject]]
        BY <3>2
      <3>. QED BY <1>1, <3>1, <3>3, <3>4 DEF PoolRecord, PoolFits, PoolPcs
    <2>2. CASE MapNewFails(k) \/ DestroyPool(k)
      <3>1. PICK pc \in {"failed", "gone"} :
              pool' = [pool EXCEPT ![k] = [@ EXCEPT !.pc = pc, !.object = NoObject]]
        BY <2>2 DEF MapNewFails, DestroyPool
      <3>2. pool[k].nonce \in Nonces
        BY <1>1, <1>2 DEF PoolFits
      <3>. QED BY <1>1, <3>1, <3>2 DEF PoolRecord, PoolFits, PoolPcs
    <2>. QED BY <2>1, <2>2
  <1>4. UidShape'
    BY <1>2, UidFrame DEF MappingInv, NamingInv
  <1>5. /\ handles' \in [Processes -> [Pools -> Int]]
        /\ \A p \in Processes : \A x \in Pools :
             handles'[p][x] = handles[p][x] + Mark(p = ProcessOf[k] /\ pool'[k].object = x)
                                            - Mark(p = ProcessOf[k] /\ pool[k].object = x)
    BY <1>1, <1>2, <1>3, HandleMoves DEF Mark
  <1>. QED BY <1>1, <1>2, <1>3, <1>4, <1>5, PoolStep

\* What the entries and calls of subscribers refer to has a name.
LEMMA ObjectsAreNamed ==
  ASSUME MappingInv, NEW k \in Pools, name[k] = None, NEW p \in Processes
  PROVE  /\ \A entry \in cache[p] : entry[2] # k
         /\ call[p].object # k
  <1>1. ASSUME NEW entry \in cache[p] PROVE entry[2] # k
    <2>1. entry[1] \in Names /\ name[entry[2]] = entry[1]
      BY DEF MappingInv, NamingInv, TypeOK, CacheShape
    <2>. QED BY <2>1, NoneIsNoName
  <1>2. call[p].object # k
    <2>1. CallFits(p, call[p]) /\ call[p].pc \in CallPcs /\ sent \subseteq Descriptors
      BY DEF MappingInv, NamingInv, TypeOK, CallShape
    <2>2. CASE call[p].pc \in {"idle", "find"}
      BY <2>1, <2>2, NamingAssumption DEF CallFits
    <2>3. CASE call[p].pc \in {"open", "mapped"}
      <3>1. call[p].desc \in Descriptors /\ name[call[p].object] = call[p].desc.name
        BY <2>1, <2>3 DEF CallFits
      <3>. QED BY <3>1, NoneIsNoName DEF Descriptors
    <2>. QED BY <2>1, <2>2, <2>3 DEF CallPcs
  <1>. QED BY <1>1, <1>2

\* The name of a new object is free in the session.
LEMMA CreateNewStep ==
  ASSUME MappingInv, NEW k \in Pools, CreateNew(k)
  PROVE  MappingInv'
  <1>1. /\ pool \in [Pools -> PoolRecord] /\ pool[k] \in PoolRecord /\ PoolFits(k, pool[k])
        /\ handles \in [Processes -> [Pools -> Nat]] /\ uid \in [Pools -> 0 .. MaxUid]
        /\ ProcessOf[k] \in Processes /\ NoObject \notin Pools
    BY TypesOfPool
  <1>2. /\ UNCHANGED <<discovery, alive, uid, lastUid, sent, cache, call>>
        /\ ProcessOf[k] \in alive /\ pool[k].pc = "create" /\ pool[k].object = NoObject
        /\ TakeHandle(ProcessOf[k], k)
        /\ name' = [name EXCEPT ![k] = NameOf(k)]
        /\ pool' = [pool EXCEPT ![k] = [@ EXCEPT !.pc = "map", !.object = k]]
    BY <1>1 DEF CreateNew, Creating, PoolFits
  <1>3. /\ name[k] = None /\ NameOf(k) \in Names /\ name \in [Pools -> Names \cup {None}]
        /\ name'[k] = NameOf(k) /\ \A o \in Pools \ {k} : name'[o] = name[o]
    BY <1>2, NameOfPool DEF MappingInv, NamingInv, Uncreated, TypeOK
  <1>4. /\ pool' \in [Pools -> PoolRecord] /\ \A l \in Pools \ {k} : pool'[l] = pool[l]
        /\ PoolFits(k, pool'[k]) /\ pool'[k].object = k /\ pool'[k].pc = "map"
    BY <1>1, <1>2 DEF PoolRecord, PoolFits, PoolPcs
  <1>5. /\ DiscoveryTypeOK' /\ DiscoveryInv' /\ UNCHANGED place
        /\ Names' = Names /\ Descriptors' = Descriptors /\ \A p : Namespace(p)' = Namespace(p)
    BY <1>2, DiscoveryFrame, PlaceFrame DEF MappingInv, TypeOK, discovery
  <1>6. /\ handles' \in [Processes -> [Pools -> Int]]
        /\ \A p \in Processes : \A x \in Pools :
             handles'[p][x] = handles[p][x] + Mark(p = ProcessOf[k] /\ pool'[k].object = x)
                                            - Mark(p = ProcessOf[k] /\ pool[k].object = x)
    BY <1>1, <1>2, <1>4, HandleMoves DEF Mark
  <1>7. HandleAccounting' /\ \A p \in Processes : \A o \in Pools : handles'[p][o] \in Nat
    BY <1>2, <1>4, <1>6, PoolMove DEF MappingInv, NamingInv
  <1>8. TypeOK'
    <2>1. handles' \in [Processes -> [Pools -> Nat]]
      BY <1>6, <1>7
    <2>2. name' \in [Pools -> Names' \cup {None}]
      BY <1>2, <1>3, <1>5
    <2>3. /\ cache' \in [Processes -> SUBSET (Names' \X Pools)]
          /\ call' \in [Processes -> [pc : CallPcs, desc : Descriptors' \cup {NoDescriptor},
                                      object : Pools \cup {NoObject}]]
          /\ alive' \subseteq Processes /\ uid' \in [Pools -> 0 .. MaxUid]
          /\ lastUid' \in 0 .. MaxUid /\ sent' \subseteq Descriptors'
      BY <1>2, <1>5 DEF MappingInv, TypeOK
    <2>. QED BY <1>4, <1>5, <2>1, <2>2, <2>3 DEF TypeOK, PoolRecord
  <1>9. PoolShape' /\ Uncreated' /\ UidShape' /\ ImportsStayLocal'
    <2>1. PoolShape' /\ Uncreated'
      BY <1>2, <1>3, <1>4 DEF MappingInv, NamingInv, PoolShape, PoolFits, Uncreated
    <2>2. UidShape' /\ ImportsStayLocal'
      BY <1>2, <1>5 DEF MappingInv, NamingInv, UidShape, ImportsStayLocal
    <2>. QED BY <2>1, <2>2
  <1>10. CacheShape'
    <2>. SUFFICES ASSUME NEW p \in Processes
                  PROVE  IsFiniteSet(cache[p]) /\ \A entry \in cache[p] : name'[entry[2]] = entry[1]
      BY <1>2 DEF CacheShape
    <2>1. IsFiniteSet(cache[p]) /\ cache[p] \subseteq Names \X Pools
          /\ \A entry \in cache[p] : name[entry[2]] = entry[1] /\ entry[2] # k
      BY <1>3, ObjectsAreNamed DEF MappingInv, NamingInv, TypeOK, CacheShape
    <2>. QED BY <1>3, <2>1
  <1>11. CallShape'
    <2>. SUFFICES ASSUME NEW p \in Processes PROVE CallFits(p, call[p])'
      BY DEF CallShape
    <2>1. CallFits(p, call[p]) /\ call'[p] = call[p] /\ call[p].object # k
      BY <1>2, <1>3, ObjectsAreNamed DEF MappingInv, NamingInv, CallShape
    <2>2. \A n : Cached(p, n)' = Cached(p, n)
      BY <1>2 DEF Cached
    <2>. QED BY <1>2, <1>3, <1>5, <2>1, <2>2 DEF CallFits
  <1>12. NamesUnique'
    <2>1. ASSUME NEW o \in Pools, o # k, Exists(o)' PROVE Exists(o)
      <3>1. PICK p \in Processes : handles'[p][o] > 0
        BY <2>1 DEF Exists
      <3>2. handles'[p][o] = handles[p][o]
        BY <1>1, <1>2, <2>1 DEF TakeHandle
      <3>. QED BY <3>1, <3>2 DEF Exists
    <2>2. ASSUME NEW o \in Pools, o # k, Exists(o)', name'[o] = NameOf(k),
                 Namespace(ProcessOf[o]) = Namespace(ProcessOf[k])
          PROVE  FALSE
      BY <1>3, <2>1, <2>2 DEF CreateNew, Named
    <2>. SUFFICES ASSUME NEW o1 \in Pools, NEW o2 \in Pools, Exists(o1)', Exists(o2)',
                         name'[o1] = name'[o2],
                         Namespace(ProcessOf[o1]) = Namespace(ProcessOf[o2]), o1 # o2
                  PROVE  FALSE
      BY <1>5 DEF NamesUnique
    <2>3. CASE o1 = k \/ o2 = k
      BY <1>3, <2>2, <2>3
    <2>4. CASE o1 # k /\ o2 # k
      BY <1>3, <2>1, <2>4 DEF MappingInv, NamingInv, NamesUnique
    <2>. QED BY <2>3, <2>4
  <1>. QED BY <1>5, <1>7, <1>8, <1>9, <1>10, <1>11, <1>12 DEF MappingInv, NamingInv

\* The UID of a publication is new, so that it names the one object.
LEMMA PublishStep ==
  ASSUME MappingInv, NEW k \in Pools, NEW q \in Processes, Publish(k, q)
  PROVE  MappingInv'
  <1>1. /\ PoolFits(k, pool[k]) /\ pool[k].pc = "ready" /\ pool[k].object = k
        /\ UNCHANGED <<discovery, alive, pool, name, handles, cache, call>>
    BY TypesOfPool DEF Publish, Creating, PoolFits
  <1>. DEFINE d == [to |-> q, from |-> k, name |-> NameOf(k), uid |-> lastUid + 1]
  <1>2. /\ lastUid \in Nat /\ lastUid + 1 \in 1 .. MaxUid /\ lastUid' = lastUid + 1
        /\ uid \in [Pools -> 0 .. MaxUid] /\ uid' = [uid EXCEPT ![k] = lastUid + 1]
        /\ sent' = sent \cup {d} /\ sent \subseteq Descriptors
    BY <1>1, NamingAssumption DEF Publish, MappingInv, TypeOK
  <1>3. d \in Descriptors
    BY <1>1, <1>2, NameOfPool DEF Descriptors
  <1>4. /\ DiscoveryTypeOK' /\ DiscoveryInv' /\ UNCHANGED place
        /\ Names' = Names /\ Descriptors' = Descriptors /\ \A p : Namespace(p)' = Namespace(p)
    BY <1>1, DiscoveryFrame, PlaceFrame DEF MappingInv, TypeOK, discovery
  <1>5. TypeOK'
    BY <1>1, <1>2, <1>3, <1>4 DEF MappingInv, TypeOK
  <1>6. UidShape'
    <2>1. \A e \in sent : e.uid \in Nat /\ e.uid <= lastUid
      BY <1>2 DEF MappingInv, NamingInv, UidShape, Descriptors
    <2>2. \A o \in Pools : uid[o] \in Nat /\ uid[o] <= lastUid
      BY <1>2 DEF MappingInv, NamingInv, UidShape
    <2>3. \A e \in sent : \A o \in Pools : uid[o] = e.uid => o = e.from
      BY DEF MappingInv, NamingInv, UidShape
    <2>4. d.uid = lastUid + 1 /\ d.from = k
      OBVIOUS
    <2>5. \A o \in Pools : uid'[o] = IF o = k THEN lastUid + 1 ELSE uid[o]
      BY <1>2
    <2>. HIDE DEF d
    <2>. QED BY <1>2, <2>1, <2>2, <2>3, <2>4, <2>5 DEF UidShape
  <1>7. sent \subseteq sent'
    BY <1>2
  <1>8. CallShape'
    <2>. SUFFICES ASSUME NEW p \in Processes PROVE CallFits(p, call[p])'
      BY DEF CallShape
    <2>1. CallFits(p, call[p]) /\ call'[p] = call[p]
      BY <1>1 DEF MappingInv, NamingInv, CallShape
    <2>2. \A n : Cached(p, n)' = Cached(p, n)
      BY <1>1 DEF Cached
    <2>. QED BY <1>1, <1>4, <1>7, <2>1, <2>2 DEF CallFits
  <1>9. PoolShape' /\ Uncreated' /\ CacheShape' /\ NamesUnique'
    <2>1. \A o : Exists(o)' = Exists(o)
      BY <1>1 DEF Exists
    <2>. QED BY <1>1, <1>4, <2>1
         DEF MappingInv, NamingInv, PoolShape, PoolFits, Uncreated, CacheShape, NamesUnique
  <1>10. HandleAccounting'
    <2>1. \A p, o : Uses(p, o)' = Uses(p, o)
      BY <1>1 DEF Uses
    <2>. QED BY <1>1, <2>1 DEF MappingInv, NamingInv, HandleAccounting
  <1>11. ImportsStayLocal'
    BY <1>1, <1>4, <1>7 DEF MappingInv, NamingInv, ImportsStayLocal
  <1>. QED BY <1>4, <1>5, <1>6, <1>8, <1>9, <1>10, <1>11 DEF MappingInv, NamingInv

\* All that a process has ends with it.
LEMMA ExitStep ==
  ASSUME MappingInv, NEW p \in Processes, Exit(p)
  PROVE  MappingInv'
  <1>1. /\ UNCHANGED <<discovery, name, uid, lastUid, sent>>
        /\ alive' = alive \ {p} /\ alive \subseteq Processes
        /\ handles \in [Processes -> [Pools -> Nat]]
        /\ handles' = [handles EXCEPT ![p] = [o \in Pools |-> 0]]
        /\ pool \in [Pools -> PoolRecord]
        /\ pool' = [k \in Pools |-> IF ProcessOf[k] = p THEN NoPool ELSE pool[k]]
        /\ cache \in [Processes -> SUBSET (Names \X Pools)] /\ cache' = [cache EXCEPT ![p] = {}]
        /\ call \in [Processes -> CallRecord] /\ call' = [call EXCEPT ![p] = NoCall]
    BY DEF Exit, MappingInv, TypeOK, PoolRecord, CallRecord
  <1>2. /\ DiscoveryTypeOK' /\ DiscoveryInv' /\ UNCHANGED place
        /\ Names' = Names /\ Descriptors' = Descriptors /\ \A q : Namespace(q)' = Namespace(q)
    BY <1>1, DiscoveryFrame, PlaceFrame DEF MappingInv, TypeOK, discovery
  <1>3. NoPool \in PoolRecord /\ NoCall \in CallRecord /\ \A k \in Pools : PoolFits(k, NoPool)
    BY NamingAssumption DEF NoPool, NoCall, PoolRecord, CallRecord, PoolFits, PoolPcs, CallPcs
  <1>4. TypeOK'
    <2>1. pool' \in [Pools -> PoolRecord] /\ call' \in [Processes -> CallRecord]
      BY <1>1, <1>3
    <2>2. /\ handles' \in [Processes -> [Pools -> Nat]]
          /\ cache' \in [Processes -> SUBSET (Names \X Pools)]
      BY <1>1
    <2>3. /\ name' \in [Pools -> Names' \cup {None}]
          /\ uid' \in [Pools -> 0 .. MaxUid] /\ lastUid' \in 0 .. MaxUid
          /\ sent' \subseteq Descriptors' /\ alive' \subseteq Processes
      BY <1>1, <1>2 DEF MappingInv, TypeOK
    <2>. QED BY <1>2, <2>1, <2>2, <2>3 DEF TypeOK, PoolRecord, CallRecord
  <1>5. PoolShape' /\ Uncreated' /\ UidShape'
    <2>1. PoolShape'
      BY <1>1, <1>3 DEF MappingInv, NamingInv, PoolShape
    <2>2. Uncreated'
      BY <1>1 DEF MappingInv, NamingInv, Uncreated
    <2>. QED BY <1>1, <2>1, <2>2 DEF MappingInv, NamingInv, UidShape
  <1>6. CacheShape' /\ ImportsStayLocal'
    <2>1. \A q \in Processes : cache'[q] = IF q = p THEN {} ELSE cache[q]
      BY <1>1
    <2>. QED BY <1>1, <1>2, <2>1, FS_EmptySet DEF MappingInv, NamingInv, CacheShape, ImportsStayLocal
  <1>7. CallShape'
    <2>. SUFFICES ASSUME NEW q \in Processes PROVE CallFits(q, call[q])'
      BY DEF CallShape
    <2>1. CASE q = p
      <3>1. call'[q] = NoCall
        BY <1>1, <2>1
      <3>. QED BY <3>1 DEF CallFits, NoCall
    <2>2. CASE q # p
      <3>1. CallFits(q, call[q]) /\ call'[q] = call[q]
        BY <1>1, <2>2 DEF MappingInv, NamingInv, CallShape
      <3>2. \A n : Cached(q, n)' = Cached(q, n)
        BY <1>1, <2>2 DEF Cached
      <3>. QED BY <1>1, <1>2, <3>1, <3>2 DEF CallFits
    <2>. QED BY <2>1, <2>2
  <1>8. NamesUnique'
    <2>1. ASSUME NEW o \in Pools, Exists(o)' PROVE Exists(o)
      BY <1>1, <2>1 DEF Exists
    <2>. QED BY <1>1, <1>2, <2>1, UniqueFrame DEF MappingInv, NamingInv
  <1>9. HandleAccounting'
    <2>. SUFFICES ASSUME NEW q \in Processes, NEW o \in Pools PROVE handles'[q][o] = Uses(q, o)'
      BY DEF HandleAccounting
    <2>1. CASE q = p
      <3>1. {k \in Pools : ProcessOf[k] = q /\ pool'[k].object = o} = {}
        BY <1>1, <2>1, NamingAssumption DEF NoPool
      <3>2. {entry \in cache'[q] : entry[2] = o} = {}
        BY <1>1, <2>1
      <3>3. CallUses(call'[q], o) = Mark(call'[q].object = o) /\ call'[q].object # o
        BY <1>1, <2>1, OneCall, NamingAssumption DEF NoCall
      <3>4. handles'[q][o] = 0
        BY <1>1, <2>1
      <3>5. Uses(q, o)' = Cardinality({k \in Pools : ProcessOf[k] = q /\ pool'[k].object = o})
                           + Cardinality({entry \in cache'[q] : entry[2] = o})
                           + CallUses(call'[q], o)
        BY DEF Uses, CallUses
      <3>6. Cardinality({k \in Pools : ProcessOf[k] = q /\ pool'[k].object = o}) = 0
        BY <3>1, FS_EmptySet
      <3>7. Cardinality({entry \in cache'[q] : entry[2] = o}) = 0
        BY <3>2, FS_EmptySet
      <3>8. CallUses(call'[q], o) = 0
        BY <3>3 DEF Mark
      <3>. QED BY <3>4, <3>5, <3>6, <3>7, <3>8
    <2>2. CASE q # p
      <3>1. {k \in Pools : ProcessOf[k] = q /\ pool'[k].object = o}
              = {k \in Pools : ProcessOf[k] = q /\ pool[k].object = o}
        BY <1>1, <2>2
      <3>2. cache'[q] = cache[q] /\ call'[q] = call[q] /\ handles'[q][o] = handles[q][o]
        BY <1>1, <2>2
      <3>. QED BY <3>1, <3>2 DEF Uses, MappingInv, NamingInv, HandleAccounting
    <2>. QED BY <2>1, <2>2
  <1>. QED BY <1>2, <1>4, <1>5, <1>6, <1>7, <1>8, <1>9 DEF MappingInv, NamingInv

-----------------------------------------------------------------------------
(* The steps of a call *)

LEMMA TypesOfCall ==
  ASSUME MappingInv, NEW q \in Processes
  PROVE  /\ call \in [Processes -> CallRecord] /\ call[q] \in CallRecord /\ CallFits(q, call[q])
         /\ handles \in [Processes -> [Pools -> Nat]]
         /\ sent \subseteq Descriptors /\ NoObject \notin Pools
  BY NamingAssumption DEF MappingInv, NamingInv, TypeOK, CallRecord, CallShape

\* A call that ended has no object.
LEMMA NoCallFits == NoCall \in CallRecord /\ NoCall.object = NoObject /\ \A q : CallFits(q, NoCall)
  BY DEF NoCall, CallRecord, CallPcs, CallFits

\* A descriptor arrives, is found, is given up, or its object is mapped.
LEMMA QuietCallStep ==
  ASSUME MappingInv, NEW q \in Processes, Begin(q) \/ Hit(q) \/ OpenFails(q) \/ MapOpened(q)
  PROVE  MappingInv'
  <1>1. /\ call \in [Processes -> CallRecord] /\ call[q] \in CallRecord /\ CallFits(q, call[q])
        /\ handles \in [Processes -> [Pools -> Nat]] /\ sent \subseteq Descriptors
        /\ NoObject \notin Pools
    BY TypesOfCall
  <1>2. UNCHANGED <<discovery, alive, pool, name, handles, uid, lastUid, sent, cache>>
    BY DEF Begin, Hit, OpenFails, MapOpened, HandleKept
  <1>3. /\ call' \in [Processes -> CallRecord]
        /\ \A p \in Processes \ {q} : call'[p] = call[p]
        /\ CallFits(q, call'[q]) /\ call'[q].object = call[q].object
    <2>1. CASE Begin(q)
      <3>1. PICK desc \in sent :
              desc.to = q /\ call' = [call EXCEPT ![q] = [@ EXCEPT !.pc = "find", !.desc = desc]]
        BY <2>1 DEF Begin
      <3>2. call[q].pc = "idle"
        BY <2>1 DEF Begin, Importing
      <3>. QED BY <1>1, <3>1, <3>2 DEF CallRecord, CallFits, CallPcs
    <2>2. CASE Hit(q) \/ OpenFails(q)
      <3>1. call' = [call EXCEPT ![q] = NoCall] /\ call[q].pc = "find"
        BY <2>2 DEF Hit, OpenFails, Importing, Ends
      <3>. QED BY <1>1, <3>1, NoCallFits DEF CallFits
    <2>3. CASE MapOpened(q)
      <3>1. call' = [call EXCEPT ![q].pc = "mapped"] /\ call[q].pc = "open"
        BY <2>3 DEF MapOpened, Importing, Goto
      <3>. QED BY <1>1, <3>1 DEF CallRecord, CallFits, CallPcs
    <2>. QED BY <2>1, <2>2, <2>3
  <1>. QED BY <1>1, <1>2, <1>3, SameHandles, CallStep

\* The object of the name is opened in the session of the caller.
LEMMA OpenStep ==
  ASSUME MappingInv, NEW q \in Processes, Open(q)
  PROVE  MappingInv'
  <1>1. /\ call \in [Processes -> CallRecord] /\ call[q] \in CallRecord /\ CallFits(q, call[q])
        /\ handles \in [Processes -> [Pools -> Nat]] /\ NoObject \notin Pools
    BY TypesOfCall
  <1>2. /\ UNCHANGED <<discovery, alive, pool, name, uid, lastUid, sent, cache>>
        /\ call[q].pc = "find" /\ Cached(q, call[q].desc.name) = {} /\ call[q].object = NoObject
    BY <1>1 DEF Open, Importing, CallFits
  <1>3. PICK o \in Pools :
          /\ Exists(o) /\ name[o] = call[q].desc.name /\ Namespace(ProcessOf[o]) = Namespace(q)
          /\ TakeHandle(q, o)
          /\ call' = [call EXCEPT ![q] = [@ EXCEPT !.pc = "open", !.object = o]]
    BY DEF Open, Named
  <1>4. /\ call' \in [Processes -> CallRecord]
        /\ \A p \in Processes \ {q} : call'[p] = call[p]
        /\ CallFits(q, call'[q]) /\ call'[q].object = o
    BY <1>1, <1>2, <1>3 DEF CallRecord, CallFits, CallPcs
  <1>5. /\ handles' \in [Processes -> [Pools -> Int]]
        /\ \A p \in Processes : \A x \in Pools :
             handles'[p][x] = handles[p][x] + Mark(p = q /\ call'[q].object = x)
                                            - Mark(p = q /\ call[q].object = x)
    BY <1>1, <1>2, <1>3, <1>4, HandleMoves DEF Mark
  <1>. QED BY <1>2, <1>3, <1>4, <1>5, CallStep

\* A call that fails closes the handle.
LEMMA DropStep ==
  ASSUME MappingInv, NEW q \in Processes, MapOpenedFails(q) \/ Refuse(q)
  PROVE  MappingInv'
  <1>1. /\ call \in [Processes -> CallRecord] /\ call[q] \in CallRecord /\ CallFits(q, call[q])
        /\ handles \in [Processes -> [Pools -> Nat]] /\ NoObject \notin Pools
    BY TypesOfCall
  <1>2. /\ UNCHANGED <<discovery, alive, pool, name, uid, lastUid, sent, cache>>
        /\ call[q].object \in Pools /\ DropHandle(q, call[q].object)
        /\ call' = [call EXCEPT ![q] = NoCall]
    BY <1>1 DEF MapOpenedFails, Refuse, Importing, CloseUnmapped, Ends, CallFits
  <1>3. /\ call' \in [Processes -> CallRecord]
        /\ \A p \in Processes \ {q} : call'[p] = call[p]
        /\ CallFits(q, call'[q]) /\ call'[q].object = NoObject
    BY <1>1, <1>2, NoCallFits
  <1>4. /\ handles' \in [Processes -> [Pools -> Int]]
        /\ \A p \in Processes : \A x \in Pools :
             handles'[p][x] = handles[p][x] + Mark(p = q /\ call'[q].object = x)
                                            - Mark(p = q /\ call[q].object = x)
    BY <1>1, <1>2, <1>3, HandleMoves DEF Mark
  <1>. QED BY <1>1, <1>2, <1>3, <1>4, CallStep

\* The UID tells which object the descriptor was sent for.
LEMMA AcceptStep ==
  ASSUME MappingInv, NEW q \in Processes, Accept(q)
  PROVE  MappingInv'
  <1>. DEFINE desc == call[q].desc
              o == call[q].object
              entry == <<desc.name, o>>
  <1>1. /\ call \in [Processes -> CallRecord] /\ call[q] \in CallRecord /\ CallFits(q, call[q])
        /\ sent \subseteq Descriptors /\ NoObject \notin Pools
    BY TypesOfCall
  <1>2. /\ UNCHANGED <<discovery, alive, pool, name, handles, uid, lastUid, sent>>
        /\ call[q].pc = "mapped" /\ uid[o] = desc.uid
        /\ cache' = [cache EXCEPT ![q] = @ \cup {entry}]
        /\ call' = [call EXCEPT ![q] = NoCall]
    BY DEF Accept, Importing, Valid, Ends
  <1>3. /\ o \in Pools /\ desc \in sent /\ desc.to = q /\ Cached(q, desc.name) = {}
        /\ name[o] = desc.name /\ Namespace(ProcessOf[o]) = Namespace(q)
        /\ desc.from = o /\ desc.name \in Names
    BY <1>1, <1>2 DEF CallFits, Descriptors, MappingInv, NamingInv, UidShape
  <1>4. entry \notin cache[q] /\ entry[1] = desc.name /\ entry[2] = o
    BY <1>3 DEF Cached
  <1>5. /\ cache \in [Processes -> SUBSET (Names \X Pools)]
        /\ cache'[q] = cache[q] \cup {entry}
        /\ \A p \in Processes \ {q} : cache'[p] = cache[p] /\ call'[p] = call[p]
        /\ call'[q] = NoCall /\ call' \in [Processes -> CallRecord]
        /\ cache' \in [Processes -> SUBSET (Names \X Pools)]
    BY <1>1, <1>2, <1>3, NoCallFits DEF MappingInv, TypeOK
  <1>6. /\ DiscoveryTypeOK' /\ DiscoveryInv' /\ UNCHANGED place
        /\ Names' = Names /\ Descriptors' = Descriptors /\ \A p : Namespace(p)' = Namespace(p)
    BY <1>2, DiscoveryFrame, PlaceFrame DEF MappingInv, TypeOK, discovery
  <1>. HIDE DEF entry
  <1>7. HandleAccounting'
    BY <1>1, <1>2, <1>4, <1>5, AcceptMove, NoCallFits DEF MappingInv, NamingInv
  <1>8. TypeOK'
    BY <1>2, <1>5, <1>6 DEF MappingInv, TypeOK, CallRecord
  <1>9. PoolShape' /\ Uncreated' /\ UidShape' /\ NamesUnique'
    <2>1. \A x : Exists(x)' = Exists(x)
      BY <1>2 DEF Exists
    <2>. QED BY <1>2, <1>6, <2>1
         DEF MappingInv, NamingInv, PoolShape, PoolFits, Uncreated, UidShape, NamesUnique
  <1>10. CacheShape'
    <2>. SUFFICES ASSUME NEW p \in Processes
                  PROVE  IsFiniteSet(cache'[p]) /\ \A e \in cache'[p] : name[e[2]] = e[1]
      BY <1>2 DEF CacheShape
    <2>1. IsFiniteSet(cache[p]) /\ \A e \in cache[p] : name[e[2]] = e[1]
      BY DEF MappingInv, NamingInv, CacheShape
    <2>2. IsFiniteSet(cache'[p])
      BY <1>5, <2>1, FS_AddElement
    <2>. QED BY <1>3, <1>4, <1>5, <2>1, <2>2
  <1>11. CallShape'
    <2>. SUFFICES ASSUME NEW p \in Processes PROVE CallFits(p, call[p])'
      BY DEF CallShape
    <2>1. CASE p = q
      <3>1. call'[p] = NoCall
        BY <1>5, <2>1
      <3>. QED BY <3>1 DEF CallFits, NoCall
    <2>2. CASE p # q
      <3>1. CallFits(p, call[p]) /\ call'[p] = call[p]
        BY <1>5, <2>2 DEF MappingInv, NamingInv, CallShape
      <3>2. \A n : Cached(p, n)' = Cached(p, n)
        BY <1>5, <2>2 DEF Cached
      <3>. QED BY <1>2, <1>6, <3>1, <3>2 DEF CallFits
    <2>. QED BY <2>1, <2>2
  <1>12. ImportsStayLocal'
    <2>. SUFFICES ASSUME NEW p \in Processes, NEW e \in cache'[p]
                  PROVE  /\ Namespace(ProcessOf[e[2]]) = Namespace(p)
                         /\ \E d \in sent : d.to = p /\ d.name = e[1] /\ d.from = e[2]
      BY <1>2, <1>6 DEF ImportsStayLocal
    <2>1. CASE e \in cache[p]
      BY <2>1 DEF MappingInv, NamingInv, ImportsStayLocal
    <2>2. CASE p = q /\ e = entry
      BY <1>3, <1>4, <2>2
    <2>. QED BY <1>5, <2>1, <2>2
  <1>. QED BY <1>6, <1>7, <1>8, <1>9, <1>10, <1>11, <1>12 DEF MappingInv, NamingInv

-----------------------------------------------------------------------------
(* The theorems *)

LEMMA MappingInit == Init => MappingInv
  <1>. SUFFICES ASSUME Init PROVE MappingInv
    OBVIOUS
  <1>1. DiscoveryTypeOK /\ DiscoveryInv
    BY DiscoveryInitial DEF Init
  <1>2. /\ NoPool \in PoolRecord /\ NoCall \in CallRecord /\ \A k \in Pools : PoolFits(k, NoPool)
        /\ NoObject \notin Pools /\ MaxUid \in Nat
    BY NamingAssumption DEF NoPool, NoCall, PoolRecord, CallRecord, PoolFits, PoolPcs, CallPcs
  <1>3. TypeOK
    BY <1>1, <1>2 DEF Init, TypeOK, PoolRecord, CallRecord
  <1>4. PoolShape /\ CallShape /\ UidShape /\ NamesUnique /\ Uncreated /\ ImportsStayLocal
    BY <1>2, NoCallFits DEF Init, PoolShape, CallShape, UidShape, NamesUnique, Exists, Uncreated,
                            ImportsStayLocal
  <1>5. CacheShape
    BY FS_EmptySet DEF Init, CacheShape
  <1>6. HandleAccounting
    <2>. SUFFICES ASSUME NEW q \in Processes, NEW o \in Pools PROVE handles[q][o] = Uses(q, o)
      BY DEF HandleAccounting
    <2>1. {k \in Pools : ProcessOf[k] = q /\ pool[k].object = o} = {}
      BY <1>2 DEF Init, NoPool
    <2>2. {entry \in cache[q] : entry[2] = o} = {}
      BY DEF Init
    <2>3. CallUses(call[q], o) = Mark(call[q].object = o) /\ call[q].object # o
      BY <1>2, OneCall, NoCallFits DEF Init
    <2>4. handles[q][o] = 0
      BY DEF Init
    <2>5. Uses(q, o) = Cardinality({k \in Pools : ProcessOf[k] = q /\ pool[k].object = o})
                        + Cardinality({entry \in cache[q] : entry[2] = o})
                        + CallUses(call[q], o)
      BY DEF Uses, CallUses
    <2>6. Cardinality({k \in Pools : ProcessOf[k] = q /\ pool[k].object = o}) = 0
      BY <2>1, FS_EmptySet
    <2>7. Cardinality({entry \in cache[q] : entry[2] = o}) = 0
      BY <2>2, FS_EmptySet
    <2>8. CallUses(call[q], o) = 0
      BY <2>3 DEF Mark
    <2>. QED BY <2>4, <2>5, <2>6, <2>7, <2>8
  <1>. QED BY <1>1, <1>3, <1>4, <1>5, <1>6 DEF MappingInv, NamingInv

\* Discovery and stuttering leave the mappings as they are.
LEMMA NamingFrame ==
  ASSUME MappingInv, UNCHANGED <<place, naming>>, DiscoveryTypeOK', DiscoveryInv'
  PROVE  MappingInv'
  <1>1. /\ UNCHANGED <<alive, pool, name, handles, uid, lastUid, sent, cache, call>>
        /\ Names' = Names /\ Descriptors' = Descriptors /\ \A p : Namespace(p)' = Namespace(p)
    BY PlaceFrame DEF naming
  <1>2. TypeOK'
    BY <1>1 DEF MappingInv, TypeOK
  <1>3. CallShape'
    <2>. SUFFICES ASSUME NEW p \in Processes PROVE CallFits(p, call[p])'
      BY DEF CallShape
    <2>1. CallFits(p, call[p]) /\ call'[p] = call[p] /\ \A n : Cached(p, n)' = Cached(p, n)
      BY <1>1 DEF MappingInv, NamingInv, CallShape, Cached
    <2>. QED BY <1>1, <2>1 DEF CallFits
  <1>4. PoolShape' /\ CacheShape' /\ UidShape' /\ Uncreated' /\ ImportsStayLocal'
    BY <1>1 DEF MappingInv, NamingInv, PoolShape, PoolFits, CacheShape, UidShape, Uncreated, ImportsStayLocal
  <1>5. NamesUnique' /\ HandleAccounting'
    <2>1. /\ \A x : Exists(x)' = Exists(x)
          /\ \A p, x : Uses(p, x)' = Uses(p, x)
      BY <1>1 DEF Exists, Uses
    <2>. QED BY <1>1, <2>1 DEF MappingInv, NamingInv, NamesUnique, HandleAccounting
  <1>. QED BY <1>2, <1>3, <1>4, <1>5 DEF MappingInv, NamingInv

\* One case for the RMW, the pools and the calls
LEMMA MappingStep == MappingInv /\ [Next]_vars => MappingInv'
  <1>. SUFFICES ASSUME MappingInv, [Next]_vars PROVE MappingInv'
    OBVIOUS
  <1>1. DiscoveryTypeOK /\ DiscoveryInv /\ alive \subseteq Processes
    BY DEF MappingInv, TypeOK
  <1>2. CASE UNCHANGED vars
    BY <1>1, <1>2, DiscoveryFrame, NamingFrame DEF vars, discovery
  <1>3. ASSUME NEW p \in alive, UNCHANGED naming,
               AnnounceEndpoint(p) \/ AnnouncePlain(p) \/ \E q \in Processes \ {p} : Discover(p, q)
        PROVE  MappingInv'
    BY <1>1, <1>3, AnnounceStep, DiscoverStep, NamingFrame
  <1>4. ASSUME NEW k \in Pools,
               Draw(k) \/ CreateGoesOn(k) \/ DestroyPool(k) \/ \E q \in Processes : Publish(k, q)
        PROVE  MappingInv'
    BY <1>4, QuietPoolStep, CreateNewStep, CreateOpensStep, GiveUpStep, MapNewStep, PublishStep
       DEF CreateGoesOn
  <1>5. ASSUME NEW p \in Processes,
               \/ Exit(p) \/ Begin(p) \/ Hit(p) \/ Open(p) \/ OpenFails(p)
               \/ MapOpened(p) \/ MapOpenedFails(p) \/ Accept(p) \/ Refuse(p)
        PROVE  MappingInv'
    BY <1>5, ExitStep, QuietCallStep, OpenStep, DropStep, AcceptStep
  <1>. QED BY <1>2, <1>3, <1>4, <1>5 DEF Next

\* The invariant that all theorems below follow from
LEMMA MappingInvariant == Spec => []MappingInv
  BY MappingInit, MappingStep, PTL DEF Spec

\* Every variable keeps its type, for any number of processes and pools.
THEOREM NamingTypes == Spec => []TypeOK
  <1>1. MappingInv => TypeOK
    BY DEF MappingInv
  <1>. QED BY <1>1, MappingInvariant, PTL

\* on_discovering_endpoint: two endpoints with this backend never disagree, as
\* get_endpoint_manager keeps the one identity that it announced.
THEOREM VerdictsNeverDiffer == Spec => []VerdictsAgree
  <1>1. MappingInv => VerdictsAgree
    BY AgreementHolds DEF MappingInv
  <1>. QED BY <1>1, MappingInvariant, PTL

\* create_platform_mapping takes no object that exists: no two pools share a
\* block, whatever nonces they draw and however many attempts they make.
THEOREM BlocksAreOwned == Spec => []BlocksOwnTheirObjects
  <1>1. MappingInv => BlocksOwnTheirObjects
    BY NamingAssumption DEF MappingInv, NamingInv, TypeOK, PoolShape, PoolFits, BlocksOwnTheirObjects
  <1>. QED BY <1>1, MappingInvariant, PTL

\* The handle that import_platform_mapping keeps holds the name of a cached
\* mapping.
THEOREM CachedNamesStay == Spec => []NameKeepsItsObject
  <1>1. MappingInv => NameKeepsItsObject
    <2>. SUFFICES ASSUME MappingInv, NEW p \in Processes, NEW entry \in cache[p],
                         NEW o \in Named(p, entry[1])
                  PROVE  o = entry[2]
      BY DEF NameKeepsItsObject
    <2>1. /\ entry[2] \in Pools /\ name[entry[2]] = entry[1]
          /\ Namespace(ProcessOf[entry[2]]) = Namespace(p)
      BY DEF MappingInv, NamingInv, TypeOK, CacheShape, ImportsStayLocal
    <2>2. Exists(entry[2])
      <3>. DEFINE S == {e \in cache[p] : e[2] = entry[2]}
      <3>1. IsFiniteSet(S) /\ S # {}
        BY FS_Subset DEF MappingInv, NamingInv, CacheShape
      <3>2. Cardinality(S) \in Nat /\ Cardinality(S) # 0
        BY <3>1, FS_CardinalityType, FS_EmptySet
      <3>3. handles[p][entry[2]] = PoolUses(p, entry[2]) + Cardinality(S)
                                     + Mark(call[p].object = entry[2])
        BY <2>1, UsesSum DEF MappingInv, NamingInv, HandleAccounting, CacheUses
      <3>4. PoolUses(p, entry[2]) \in Nat
        BY <2>1, UsesSum DEF MappingInv, NamingInv
      <3>. QED BY <3>2, <3>3, <3>4 DEF Exists, Mark
    <2>3. o \in Pools /\ Exists(o) /\ name[o] = entry[1] /\ Namespace(ProcessOf[o]) = Namespace(p)
      BY DEF Named
    <2>. QED BY <2>1, <2>2, <2>3 DEF MappingInv, NamingInv, NamesUnique
  <1>. QED BY <1>1, MappingInvariant, PTL

\* Every handle is closed once, by the pool, the call or the cache that has it,
\* or by the end of its process.
THEOREM HandlesAreAccounted == Spec => []HandleAccounting
  <1>1. MappingInv => HandleAccounting
    BY DEF MappingInv, NamingInv
  <1>. QED BY <1>1, MappingInvariant, PTL

\* import_block maps the block that the descriptor was sent for, in the session
\* of the caller, also where endpoints were judged by chance or not at all.
THEOREM ImportsAreLocal == Spec => []ImportsStayLocal
  <1>1. MappingInv => ImportsStayLocal
    BY DEF MappingInv, NamingInv
  <1>. QED BY <1>1, MappingInvariant, PTL
=============================================================================
