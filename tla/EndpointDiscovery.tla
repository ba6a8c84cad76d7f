--------------------------- MODULE EndpointDiscovery ---------------------------
(***************************************************************************)
(* Which endpoints may exchange descriptors: HostEndpointManager and the   *)
(* compatibility cache of SharedBufferBackend (host_endpoint_manager.cpp,  *)
(* shared_buffer_backend_plugin.cpp).                                      *)
(*                                                                         *)
(* A process announces its metadata with an endpoint and compares what     *)
(* others announce with its own.  System calls that fail leave a process   *)
(* without an identity, at any evaluation anew; the plugin keeps the first *)
(* one.  A host is what process ids and named objects belong to; its name  *)
(* is what the operating system reports, and hosts or containers may share *)
(* a name.  Each process has one plugin and one endpoint, whose gid stands *)
(* for the process.                                                        *)
(***************************************************************************)
EXTENDS Integers, FiniteSets

CONSTANTS
  Processes,
  Placements    \* where processes may be: [os, host, hostname, user, session, pid] for each

\* Nothing is assumed of host names.
ASSUME PlacementAssumption ==
  \A where \in Placements : \A p \in Processes :
    /\ DOMAIN where[p] = {"os", "host", "hostname", "user", "session", "pid"}
    /\ \A q \in Processes \ {p} :
         where[p].host = where[q].host => where[p].pid # where[q].pid

VARIABLES
  place,                 \* place[p]: where p runs
  endpoint_manager,      \* endpoint_manager[p]: its metadata_, or None
  announced,             \* announced[p]: what the RMW tells of p's endpoint
  compatibility_cache    \* compatibility_cache[p][q]: p's verdict on q's endpoint

discovery == <<place, endpoint_manager, announced, compatibility_cache>>

None == <<>>
Plain == <<"no shared_buffer">>

DiscoveryInit ==
  /\ place \in Placements
  /\ endpoint_manager = [p \in Processes |-> None]
  /\ announced = [p \in Processes |-> None]
  /\ compatibility_cache = [p \in Processes |-> [q \in Processes |-> "unknown"]]

-----------------------------------------------------------------------------
(* HostEndpointManager *)

Windows(p) == place[p].os = "windows"

\* gethostname, GetComputerNameA: the name, which need not name one host only
Certain(p) ==
  IF Windows(p) THEN <<place[p].hostname, place[p].user, place[p].session>>
                ELSE <<place[p].hostname, place[p].user>>

\* A system call failed.
Uncertain(p) ==
  IF Windows(p) THEN <<"unavailable", place[p].pid>> ELSE <<"unknown", place[p].user>>

Evaluations(p) == {Certain(p), Uncertain(p)}

\* Mutant: the manager is created for each question.
EvaluatedAnew(p) == Evaluations(p)

\* get_endpoint_manager creates the manager once, under manager_mutex_.
Metadata(p) == IF endpoint_manager[p] = None THEN Evaluations(p) ELSE {endpoint_manager[p]}

-----------------------------------------------------------------------------
(* The RMW's calls *)

\* An endpoint is created with this backend ...
AnnounceEndpoint(p) ==
  /\ announced[p] = None
  /\ \E m \in Metadata(p) :
       /\ endpoint_manager' = [endpoint_manager EXCEPT ![p] = m]
       /\ announced' = [announced EXCEPT ![p] = m]
  /\ UNCHANGED <<place, compatibility_cache>>

\* ... or without it.
AnnouncePlain(p) ==
  /\ announced[p] = None
  /\ announced' = [announced EXCEPT ![p] = Plain]
  /\ UNCHANGED <<place, endpoint_manager, compatibility_cache>>

Judge(p, q, verdict) ==
  compatibility_cache' = [compatibility_cache EXCEPT ![p][q] = verdict]

\* on_discovering_endpoint: the comparison reads nothing that changes, so that
\* it is one step with the entry under compatibility_mutex_.
DiscoverEndpoint(p, q) ==
  /\ announced[q] \notin {None, Plain}
  /\ \E m \in Metadata(p) :
       /\ endpoint_manager' = [endpoint_manager EXCEPT ![p] = m]
       /\ Judge(p, q, IF m = announced[q] THEN "yes" ELSE "no")
  /\ UNCHANGED <<place, announced>>

DiscoverPlain(p, q) ==
  /\ announced[q] = Plain
  /\ Judge(p, q, "no")
  /\ UNCHANGED <<place, endpoint_manager, announced>>

\* create_descriptor_with_endpoint: an endpoint without a verdict gets one, too.
MaySend(p, q) == compatibility_cache[p][q] # "no"

Discover(p, q) == DiscoverEndpoint(p, q) \/ DiscoverPlain(p, q)

-----------------------------------------------------------------------------
(* Properties *)

Identities(p) == {None} \cup Evaluations(p)
AllIdentities == UNION {Identities(p) : p \in Processes}

DiscoveryTypeOK ==
  /\ place \in Placements
  /\ endpoint_manager \in [Processes -> AllIdentities]
  /\ announced \in [Processes -> AllIdentities \cup {Plain}]
  /\ \A p \in Processes :
       endpoint_manager[p] \in Identities(p) /\ announced[p] \in Identities(p) \cup {Plain}
  /\ compatibility_cache \in [Processes -> [Processes -> {"unknown", "yes", "no"}]]

\* Two endpoints with this backend judge each other alike, however often the
\* system calls behind their metadata fail: never does one send descriptors to
\* the other and get copies back.
VerdictsAgree ==
  \A p, q \in Processes :
    announced[p] # Plain /\ announced[q] # Plain /\ compatibility_cache[p][q] = "yes" =>
      compatibility_cache[q][p] # "no"
=============================================================================
