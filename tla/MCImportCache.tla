----------------------------- MODULE MCImportCache -----------------------------
(* ImportCache for TLC. *)
EXTENDS ImportCache, TLC

CONSTANTS m1, m2, m3, t1, t2

\* The first blocks of two pools of one process, m2 that of a successor of m1's
TwoPools ==
  [m \in {m1, m2, m3} |->
    [pid |-> 1, id |-> 0, name |-> IF m = m3 THEN "fd 4" ELSE "fd 3"]]
=============================================================================
