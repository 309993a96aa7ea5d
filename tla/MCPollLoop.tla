----------------------------- MODULE MCPollLoop -----------------------------
(* PollLoop on small instances.  Threads and pipes are interchangeable.       *)
EXTENDS PollLoop, TLC

Symmetry == Permutations(Threads) \cup Permutations(Pipes)
=============================================================================
