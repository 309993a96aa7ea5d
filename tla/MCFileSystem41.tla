--------------------------- MODULE MCFileSystem41 ---------------------------
(* FileSystem41 on small instances.  Threads are interchangeable, and names.  *)
EXTENDS FileSystem41, TLC

Symmetry == Permutations(Threads) \cup Permutations(Names)
=============================================================================
