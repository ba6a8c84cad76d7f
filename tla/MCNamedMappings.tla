---------------------------- MODULE MCNamedMappings ----------------------------
(* NamedMappings for TLC. *)
EXTENDS NamedMappings

At(os, host, hostname, user, session, pid) ==
  [os |-> os, host |-> host, hostname |-> hostname, user |-> user, session |-> session,
   pid |-> pid]

Publisher == At("windows", "A", "pc", "u", "1", "10")

\* Where the second process runs: beside the first one, in another session, on
\* another host with the same process id, with another name or the same name,
\* or on a host with another system.
Around ==
  {At("windows", "A", "pc", "u", "1", "11"), At("windows", "A", "pc", "u", "2", "11"),
   At("windows", "B", "other", "u", "1", "10"), At("windows", "B", "pc", "u", "1", "10"),
   At("linux", "B", "other", "u", "1", "11")}

Placed == {[p \in {"p", "q"} |-> IF p = "p" THEN Publisher ELSE there] : there \in Around}

BothOfPublisher == [k \in {"k1", "k2"} |-> "p"]
=============================================================================
