--------------------------- MODULE AbstractRWLock ---------------------------
(* What a read/write lock with writer preference promises its callers,       *)
(* whatever it is built from.  A caller asks, is granted, and releases; a     *)
(* caller that trades one mode for the other (upgrade, downgrade) gives its   *)
(* own grant back at the moment it asks for the new one.                      *)
(*                                                                           *)
(* src/nfs4.1/locking.py says this in the docstring of _RWLock: once a thread *)
(* has the write lock "no one else can do anything", and the wish for it      *)
(* blocks "any requests for read locks".                                      *)

CONSTANT Threads

VARIABLE mode   \* mode[t]: what t has, or has asked for

Modes == {"idle", "wantRead", "wantWrite", "reading", "writing"}

Holders(m)  == {t \in Threads : mode[t] = m}

Init == mode = [t \in Threads |-> "idle"]

\* A thread asks for the lock in mode w, giving back what it holds.
Ask(t, w) ==
  /\ mode[t] \in {"idle", "reading", "writing"}
  /\ w \in {"wantRead", "wantWrite"}
  /\ mode' = [mode EXCEPT ![t] = w]

\* A reader gets in when nobody has or wants to write: asking and being
\* granted may be one step.
GrantRead(t) ==
  /\ mode[t] \in {"idle", "wantRead", "writing"}
  /\ \A u \in Threads \ {t} : mode[u] \notin {"wantWrite", "writing"}
  /\ mode' = [mode EXCEPT ![t] = "reading"]

\* A writer gets in when nobody else has the lock in any mode.
GrantWrite(t) ==
  /\ mode[t] \in {"idle", "wantWrite", "reading"}
  /\ \A u \in Threads \ {t} : mode[u] \notin {"reading", "writing"}
  /\ mode' = [mode EXCEPT ![t] = "writing"]

Release(t) ==
  /\ mode[t] \in {"reading", "writing"}
  /\ mode' = [mode EXCEPT ![t] = "idle"]

Next == \E t \in Threads :
          \/ \E w \in {"wantRead", "wantWrite"} : Ask(t, w)
          \/ GrantRead(t)
          \/ GrantWrite(t)
          \/ Release(t)

Spec == Init /\ [][Next]_mode
=============================================================================
