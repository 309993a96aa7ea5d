--------------------------- MODULE MCReplayCache ---------------------------
(* ReplayCache on small instances.                                            *)
EXTENDS ReplayCache

Workload(shapes, n, cut) == [shapes |-> shapes, calls |-> n, resets |-> cut]

\* Seqids wrap around with the third call; replies that are kept and that are
\* not follow each other; CREATE_SESSION is sent alone and inside a session.
AllWorkloads ==
  {Workload({"work"}, 3, 1),
   Workload({"work", "workUncached"}, 2, 1),
   Workload({"session", "inSession"}, 2, 0)}
=============================================================================
