--------------------------- MODULE PublicationLease ---------------------------
(***************************************************************************)
(* What the transport promises to subscribers, without claims, counters,   *)
(* grace periods, UID checks or a pool: a lease that is granted on a       *)
(* generation of a block pins the generation and its bytes until it is     *)
(* returned, and a generation that has ended never comes back.             *)
(***************************************************************************)
EXTENDS Naturals

CONSTANTS
  Blocks,        \* the blocks
  Readers,       \* who may hold a lease
  Generations,   \* names of publications; 0 is not one
  Bytes          \* what a block may contain

VARIABLES
  generation,   \* generation[b]: the current publication of b, or 0
  bytes,        \* bytes[b]: the contents of b
  published,    \* the generations published so far
  lease         \* lease[r]: {} or {[block, generation, bytes]}

leaseVars == <<generation, bytes, published, lease>>

Holders(b) == {r \in Readers : \E l \in lease[r] : l.block = b}

Init ==
  /\ generation = [b \in Blocks |-> 0]
  /\ bytes \in [Blocks -> Bytes]
  /\ published = {}
  /\ lease = [r \in Readers |-> {}]

\* The owner changes a block that is not published.
Write(b) ==
  /\ generation[b] = 0
  /\ \E v \in Bytes : bytes' = [bytes EXCEPT ![b] = v]
  /\ UNCHANGED <<generation, published, lease>>

Publish(b) ==
  \E g \in Generations \ published :
    /\ generation[b] = 0
    /\ generation' = [generation EXCEPT ![b] = g]
    /\ published' = published \cup {g}
    /\ UNCHANGED <<bytes, lease>>

Grant(r, b) ==
  /\ lease[r] = {}
  /\ generation[b] # 0
  /\ lease' = [lease EXCEPT ![r] =
                 {[block |-> b, generation |-> generation[b], bytes |-> bytes[b]]}]
  /\ UNCHANGED <<generation, bytes, published>>

Return(r) ==
  /\ lease' = [lease EXCEPT ![r] = {}]
  /\ UNCHANGED <<generation, bytes, published>>

\* The block is reused: nobody holds it.
Retire(b) ==
  /\ Holders(b) = {}
  /\ generation' = [generation EXCEPT ![b] = 0]
  /\ UNCHANGED <<bytes, published, lease>>

Next ==
  \/ \E b \in Blocks : Write(b) \/ Publish(b) \/ Retire(b)
  \/ \E r \in Readers : Return(r) \/ \E b \in Blocks : Grant(r, b)

Spec == Init /\ [][Next]_leaseVars

\* The promise: a lease shows what its generation was published with.
LeasesAreKept ==
  \A r \in Readers : \A l \in lease[r] :
    generation[l.block] = l.generation /\ bytes[l.block] = l.bytes
=============================================================================
