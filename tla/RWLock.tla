------------------------------- MODULE RWLock -------------------------------
(* The read/write lock of src/nfs4.1/locking.py (class _RWLock), which every  *)
(* FSObject of the server carries and which op_lookup, op_getattr, op_create, *)
(* op_link and FSObject.unlink take from concurrent worker threads.           *)
(*                                                                           *)
(* Every method body is one "with self._cond" block, so a body is atomic up   *)
(* to a cond.wait(), which releases _cond and parks the thread until some     *)
(* notifyAll(); the loop around the wait then tests its condition again.      *)
(* A step is therefore either a whole method up to its end or its first wait, *)
(* or one turn of a wait loop of a woken thread (Retry).                      *)
(*                                                                           *)
(* A thread holds the lock at most once, as in the server, where an acquire   *)
(* is followed by its release in a finally clause and never nested.           *)
EXTENDS Naturals, FiniteSets

CONSTANT Threads

ASSUME ThreadsAssumption == IsFiniteSet(Threads)

VARIABLES
  writeCount, \* _write_count: how many want or have the write lock
  writeLock,  \* _write_lock is locked
  readCount,  \* _read_count: how many want or have the read lock
  readLock,   \* _read_lock: how many have the read lock
  at,         \* where each thread is
  waiting     \* the threads in cond.wait() that no notifyAll() has woken

vars == <<writeCount, writeLock, readCount, readLock, at, waiting>>

(* "inRead": in the wait loop of _acquire_read; "inReaders" and "inWriter":   *)
(* in the outer and the inner wait loop of _acquire_write.                    *)
Places == {"idle", "inRead", "inReaders", "inWriter", "reading", "writing"}

At(p) == {t \in Threads : at[t] = p}
InLoop(t) == at[t] \in {"inRead", "inReaders", "inWriter"}
HasOrWantsWrite == {t \in Threads : at[t] \in {"inReaders", "inWriter", "writing"}}
HasOrWantsRead  == {t \in Threads : at[t] \in {"inRead", "reading"}}

Init ==
  /\ writeCount = 0 /\ writeLock = FALSE
  /\ readCount = 0 /\ readLock = 0
  /\ at = [t \in Threads |-> "idle"]
  /\ waiting = {}

-----------------------------------------------------------------------------
(* The test of a wait loop and what follows it, on the values wc, wl, rl the  *)
(* fields have at that moment; asleep is the set of waiting threads then.     *)

\* Mutant: a reader waits only for a writer that has the lock.
TryReadPastWaitingWriters(t, wc, rl, asleep) ==
  \/ /\ writeLock
     /\ at' = [at EXCEPT ![t] = "inRead"]
     /\ waiting' = asleep \cup {t}
     /\ readLock' = rl
  \/ /\ ~writeLock
     /\ at' = [at EXCEPT ![t] = "reading"]
     /\ waiting' = asleep
     /\ readLock' = rl + 1

\* while self._write_count > 0: wait()  else: _read_lock += 1
TryRead(t, wc, rl, asleep) ==
  \/ /\ wc > 0
     /\ at' = [at EXCEPT ![t] = "inRead"]
     /\ waiting' = asleep \cup {t}
     /\ readLock' = rl
  \/ /\ wc = 0
     /\ at' = [at EXCEPT ![t] = "reading"]
     /\ waiting' = asleep
     /\ readLock' = rl + 1

\* while not self._write_lock.acquire(False): wait()
TryWriteLock(t, asleep) ==
  \/ /\ writeLock
     /\ at' = [at EXCEPT ![t] = "inWriter"]
     /\ waiting' = asleep \cup {t}
     /\ UNCHANGED writeLock
  \/ /\ ~writeLock
     /\ at' = [at EXCEPT ![t] = "writing"]
     /\ waiting' = asleep
     /\ writeLock' = TRUE

\* Mutant: the outer loop of _acquire_write is missing.
TryWritePastReaders(t, rl, asleep) == TryWriteLock(t, asleep)

\* while self._read_lock > 0: wait()  else: the inner loop
TryWrite(t, rl, asleep) ==
  \/ /\ rl > 0
     /\ at' = [at EXCEPT ![t] = "inReaders"]
     /\ waiting' = asleep \cup {t}
     /\ UNCHANGED writeLock
  \/ /\ rl = 0
     /\ TryWriteLock(t, asleep)

-----------------------------------------------------------------------------
\* acquire(): take the read lock
Acquire(t) ==
  /\ at[t] = "idle"
  /\ readCount' = readCount + 1
  /\ TryRead(t, writeCount, readLock, waiting)
  /\ UNCHANGED <<writeCount, writeLock>>

\* acquire_write(): take the write lock
AcquireWrite(t) ==
  /\ at[t] = "idle"
  /\ writeCount' = writeCount + 1
  /\ TryWrite(t, readLock, waiting)
  /\ UNCHANGED <<readCount, readLock>>

\* Mutant: the last reader leaves and notifies nobody.
ReleaseReadSilently ==
  /\ readLock > 0
  /\ readCount' = readCount - 1
  /\ readLock' = readLock - 1
  /\ UNCHANGED <<writeCount, writeLock, waiting>>

\* release() of a thread that has the lock in some mode: the code tells the
\* mode from _read_lock, not from the caller.
ReleaseRead ==
  /\ readLock > 0
  /\ readCount' = readCount - 1
  /\ readLock' = readLock - 1
  /\ waiting' = IF readLock = 1 THEN {} ELSE waiting
  /\ UNCHANGED <<writeCount, writeLock>>

\* Mutant: the writer leaves and notifies nobody.
ReleaseWriteSilently ==
  /\ readLock = 0
  /\ writeCount' = writeCount - 1
  /\ writeLock' = FALSE
  /\ UNCHANGED <<readCount, readLock, waiting>>

ReleaseWrite ==
  /\ readLock = 0
  /\ writeCount' = writeCount - 1
  /\ writeLock' = FALSE
  /\ waiting' = {}
  /\ UNCHANGED <<readCount, readLock>>

Release(t) ==
  /\ at[t] \in {"reading", "writing"}
  /\ at' = [at EXCEPT ![t] = "idle"]
  /\ ReleaseRead \/ ReleaseWrite

\* upgrade(): _release_read(notify=False), then _acquire_write()
Upgrade(t) ==
  /\ at[t] = "reading"
  /\ readCount' = readCount - 1
  /\ readLock' = readLock - 1
  /\ writeCount' = writeCount + 1
  /\ TryWrite(t, readLock - 1, waiting)

\* Mutant: downgrade() keeps the thread among the writers.
DowngradeStaysWriter(t) ==
  /\ at[t] = "writing"
  /\ writeLock' = FALSE
  /\ readCount' = readCount + 1
  /\ TryRead(t, writeCount - 1, readLock, {})
  /\ UNCHANGED writeCount

\* downgrade(): _release_write(), which wakes everyone, then _acquire_read()
Downgrade(t) ==
  /\ at[t] = "writing"
  /\ writeCount' = writeCount - 1
  /\ writeLock' = FALSE
  /\ readCount' = readCount + 1
  /\ TryRead(t, writeCount - 1, readLock, {})

\* Mutant: the wait of _acquire_read is an "if": a woken reader walks in.
RetryOnce(t) ==
  /\ t \notin waiting
  /\ \/ /\ at[t] = "inRead"
        /\ TryRead(t, 0, readLock, waiting)
        /\ UNCHANGED writeLock
     \/ /\ at[t] = "inReaders"
        /\ TryWrite(t, readLock, waiting)
        /\ UNCHANGED readLock
     \/ /\ at[t] = "inWriter"
        /\ TryWriteLock(t, waiting)
        /\ UNCHANGED readLock
  /\ UNCHANGED <<writeCount, readCount>>

\* cond.wait() returns to a woken thread, which goes round its loop
Retry(t) ==
  /\ t \notin waiting
  /\ \/ /\ at[t] = "inRead"
        /\ TryRead(t, writeCount, readLock, waiting)
        /\ UNCHANGED writeLock
     \/ /\ at[t] = "inReaders"
        /\ TryWrite(t, readLock, waiting)
        /\ UNCHANGED readLock
     \/ /\ at[t] = "inWriter"
        /\ TryWriteLock(t, waiting)
        /\ UNCHANGED readLock
  /\ UNCHANGED <<writeCount, readCount>>

Next == \E t \in Threads :
          \/ Acquire(t) \/ AcquireWrite(t) \/ Release(t)
          \/ Upgrade(t) \/ Downgrade(t) \/ Retry(t)

Spec == Init /\ [][Next]_vars

(* A woken thread runs again, and a holder gives the lock back: the server    *)
(* releases it in a finally clause.  Nobody has to ask for the lock.          *)
Fairness == \A t \in Threads : WF_vars(Retry(t)) /\ WF_vars(Release(t))

FairSpec == Spec /\ Fairness

-----------------------------------------------------------------------------
TypeOK ==
  /\ writeCount \in Nat /\ readCount \in Nat /\ readLock \in Nat
  /\ writeLock \in BOOLEAN
  /\ at \in [Threads -> Places]
  /\ waiting \in SUBSET Threads

(* "Once have this lock, no one else can do anything": a thread that has the  *)
(* write lock has it alone.                                                   *)
Exclusion ==
  \A t \in At("writing") : \A u \in Threads \ {t} : at[u] \notin {"reading", "writing"}

(* The three counters are what the comments beside them say: release() and    *)
(* both wait loops decide on them alone.                                      *)
Counters ==
  /\ writeCount = Cardinality(HasOrWantsWrite)
  /\ readCount = Cardinality(HasOrWantsRead)
  /\ readLock = Cardinality(At("reading"))
  /\ writeLock <=> At("writing") # {}

(* A thread asleep in cond.wait() has something to wait for that will notify  *)
(* it: a writer that has or wants the lock, the readers that are in, or, when *)
(* the last reader went by upgrade() and told nobody, the upgraded writer.    *)
Stuck(t) ==
  CASE at[t] = "inRead"    -> writeCount > 0
    [] at[t] = "inReaders" -> readLock > 0 \/ writeLock
    [] at[t] = "inWriter"  -> writeLock
    [] OTHER               -> FALSE

NoLostWakeup == \A t \in waiting : Stuck(t)

(* A writer past the outer loop of _acquire_write never looks at _read_lock   *)
(* again: no reader may get in behind its back.                               *)
InnerLoopHasNoReaders == At("inWriter") # {} => readLock = 0

(* A writer is never overtaken: while one waits, no step lets a reader in.    *)
WriterPreference ==
  [][(\E t \in Threads : at[t] \in {"inReaders", "inWriter"} /\ at'[t] = at[t])
       => At("reading")' \subseteq At("reading")]_vars

(* Readers cannot starve writers: while a thread wants the write lock, the    *)
(* write lock is handed out again and again.                                  *)
WritersGetIn ==
  \A t \in Threads :
    (at[t] \in {"inReaders", "inWriter"}) ~> (At("writing") # {})

-----------------------------------------------------------------------------
\* What a caller sees of a thread's place
mode == [t \in Threads |->
           CASE at[t] = "inRead" -> "wantRead"
             [] at[t] \in {"inReaders", "inWriter"} -> "wantWrite"
             [] OTHER -> at[t]]

Abstract == INSTANCE AbstractRWLock

(* The class implements the lock its docstring describes.                     *)
ImplementsAbstract == Abstract!Spec
=============================================================================
