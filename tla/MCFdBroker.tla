------------------------------ MODULE MCFdBroker ------------------------------
(* FdBroker for TLC. *)
EXTENDS FdBroker, TLC

CONSTANTS p1, p2, b1, b2, c1, c2, o1

\* All blocks in one pool, or a pool for each block
OnePool == [b \in {b1, b2} |-> p1]
TwoPools == b1 :> p1 @@ b2 :> p2
=============================================================================
