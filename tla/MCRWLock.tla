------------------------------ MODULE MCRWLock ------------------------------
(* Model values for the threads: two that contend, a third that can overtake  *)
(* either, a fourth so that readers and writers can both be plural.          *)
EXTENDS RWLock

CONSTANTS t1, t2, t3, t4

FourThreads == {t1, t2, t3, t4}
=============================================================================
