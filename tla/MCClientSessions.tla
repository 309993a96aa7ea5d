-------------------------- MODULE MCClientSessions --------------------------
(* ClientSessions on small instances: one thread with two principals, and     *)
(* threads at once with one.  Threads, owners and verifiers are               *)
(* interchangeable.                                                           *)
EXTENDS ClientSessions, TLC

CONSTANT p1

Workload(threads, principals, reboots, maxClients, maxSessions) ==
  [threads |-> threads, principals |-> principals, reboots |-> reboots,
   maxClients |-> maxClients, maxSessions |-> maxSessions]

OneByOne == {Workload({t}, Principals, TRUE, 3, 2) : t \in Threads}
TwoAtOnce ==
  {Workload(ts, {p1}, TRUE, 2, 3) : ts \in {ts \in SUBSET Threads : Cardinality(ts) = 2}}
AllAtOnce == {Workload(Threads, {p1}, TRUE, 2, 2), Workload(Threads, {p1}, FALSE, 2, 3)}
OneByOneOrAtOnce == OneByOne \cup TwoAtOnce \cup AllAtOnce

WithoutReboots == {Workload(Threads, Principals, FALSE, 2, 3)}

Symmetry == Permutations(Threads) \cup Permutations(Owners) \cup Permutations(Verifiers)
=============================================================================
