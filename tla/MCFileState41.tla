---------------------------- MODULE MCFileState41 ----------------------------
(* FileState41 on small instances: opens and delegations of two threads, and  *)
(* the locks of one thread under opens that deny nothing.                     *)
EXTENDS FileState41, TLC

Share(access, deny, want) == [access |-> access, deny |-> deny, want |-> want]

\* A reader that takes a delegation, a writer, and a reader that denies
\* everything
SomeShares == {Share({"R"}, {}, TRUE), Share({"W"}, {}, FALSE), Share({"R"}, {"R", "W"}, FALSE)}

DenyNone == {Share({"R", "W"}, {}, FALSE)}

\* Ranges that overlap in their edge
TwoRanges == {<<0, 1>>, <<1, 2>>}

Opening ==
  {[threads |-> Threads, owners |-> {o}, lockOwners |-> {}, shares |-> SomeShares,
    requests |-> {"CLOSE", "DELEGRETURN"}, ranges |-> {}, entries |-> 3] : o \in Owners}
Locking ==
  {[threads |-> {t}, owners |-> Owners, lockOwners |-> LockOwners, shares |-> DenyNone,
    requests |-> {"IO", "CLOSE", "LOCK", "LOCKU"}, ranges |-> TwoRanges, entries |-> 4] :
     t \in Threads}
OpeningOrLocking == Opening \cup Locking

Symmetry == Permutations(Threads) \cup Permutations(Clients)
              \cup Permutations(Owners) \cup Permutations(LockOwners)
=============================================================================
