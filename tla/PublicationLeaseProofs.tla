------------------------ MODULE PublicationLeaseProofs ------------------------
(* What a reader may conclude from the abstract specification alone. *)
EXTENDS PublicationLease, TLAPS

\* The generation in a lease is not 0, so that a block that is being written,
\* or is published anew, is one that nobody holds.
LeaseRecords == [block : Blocks, generation : Generations \cup {0}, bytes : Bytes]

LeaseInv ==
  /\ generation \in [Blocks -> Generations \cup {0}]
  /\ bytes \in [Blocks -> Bytes]
  /\ lease \in [Readers -> SUBSET LeaseRecords]
  /\ \A r \in Readers : \A l \in lease[r] : l.generation # 0
  /\ LeasesAreKept

\* No buffer is published yet.
LEMMA LeaseInit == Init => LeaseInv
BY DEF Init, LeaseInv, LeasesAreKept

\* Grants and returns change one holder; the rest starts or ends a publication.
LEMMA LeaseStep == LeaseInv /\ [Next]_leaseVars => LeaseInv'
<1> SUFFICES ASSUME LeaseInv, [Next]_leaseVars PROVE LeaseInv'
  OBVIOUS
<1> USE DEF LeaseInv, LeasesAreKept, LeaseRecords
<1>1. ASSUME NEW b \in Blocks, Write(b) PROVE LeaseInv'
  <2>1. \A r \in Readers : \A l \in lease[r] : l.block # b
    BY <1>1 DEF Write
  <2> QED
    BY <1>1, <2>1 DEF Write
<1>2. ASSUME NEW b \in Blocks, Publish(b) PROVE LeaseInv'
  <2>1. \A r \in Readers : \A l \in lease[r] : l.block # b
    BY <1>2 DEF Publish
  <2> QED
    BY <1>2, <2>1 DEF Publish
<1>3. ASSUME NEW b \in Blocks, Retire(b) PROVE LeaseInv'
  <2>1. \A r \in Readers : \A l \in lease[r] : l.block # b
    BY <1>3 DEF Retire, Holders
  <2> QED
    BY <1>3, <2>1 DEF Retire
<1>4. ASSUME NEW r \in Readers, NEW b \in Blocks, Grant(r, b) PROVE LeaseInv'
  BY <1>4 DEF Grant
<1>5. ASSUME NEW r \in Readers, Return(r) PROVE LeaseInv'
  BY <1>5 DEF Return
<1>6. CASE UNCHANGED leaseVars
  BY <1>6 DEF leaseVars
<1> QED
  BY <1>1, <1>2, <1>3, <1>4, <1>5, <1>6 DEF Next

\* The promise of the abstract specification: as long as a lease is held, its
\* block keeps the generation and the bytes that the lease was granted on, so
\* that a specification that implements it never changes what a subscriber reads.
THEOREM LeasesKept == Spec => []LeasesAreKept
<1>1. LeaseInv => LeasesAreKept
  BY DEF LeaseInv
<1> QED
  BY <1>1, LeaseInit, LeaseStep, PTL DEF Spec
=============================================================================
