---------------------------- MODULE MCLocalHandles ----------------------------
(* LocalHandles for TLC. *)
EXTENDS LocalHandles, TLC

CONSTANTS x1, x2, h1, h2, w1, w2, t1, t2

Alike ==
  Permutations(Buffers) \cup Permutations(ReadHandles) \cup Permutations(WriteHandles)
    \cup Permutations(Threads)
=============================================================================
