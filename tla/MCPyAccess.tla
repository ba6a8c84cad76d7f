------------------------------ MODULE MCPyAccess ------------------------------
(* PyAccess for TLC. *)
EXTENDS PyAccess, TLC

CONSTANTS x1, x2, h1, h2, w1, w2, t1, t2, v1, v2, v3

Alike ==
  Permutations(Buffers) \cup Permutations(ReadHandles) \cup Permutations(WriteHandles)
    \cup Permutations(Threads) \cup Permutations(Views)
=============================================================================
