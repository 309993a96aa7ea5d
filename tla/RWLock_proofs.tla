---------------------------- MODULE RWLock_proofs ----------------------------
(* Proofs about RWLock for every finite set of threads.  The inductive        *)
(* invariant is the conjunction of the properties the runs check: exclusion   *)
(* holds because the counters are right, the counters stay right because      *)
(* release() guesses the mode right, and that needs exclusion.                *)
EXTENDS RWLock, FiniteSetTheorems, TLAPS

IInv ==
  /\ TypeOK
  /\ Counters
  /\ Exclusion
  /\ InnerLoopHasNoReaders
  /\ NoLostWakeup

Write == {"inReaders", "inWriter", "writing"}
Read  == {"inRead", "reading"}
In(p, S) == IF p \in S THEN 1 ELSE 0
Among(f, S) == {u \in Threads : f[u] \in S}

(* Moving one thread changes the number of threads in a set of places by what *)
(* it leaves and what it enters.                                              *)
LEMMA CountMove ==
  ASSUME NEW f \in [Threads -> Places], NEW t \in Threads, NEW q \in Places, NEW S
  PROVE  /\ Cardinality(Among(f, S)) \in Nat
         /\ Cardinality(Among([f EXCEPT ![t] = q], S))
              = (Cardinality(Among(f, S)) - In(f[t], S)) + In(q, S)
<1> DEFINE A == Among(f, S)
           B == Among([f EXCEPT ![t] = q], S)
<1>1. IsFiniteSet(A)
  BY ThreadsAssumption, FS_Subset DEF Among
<1>2. Cardinality(A) \in Nat
  BY <1>1, FS_CardinalityType
<1>3. /\ IsFiniteSet(A \ {t})
      /\ Cardinality(A \ {t}) = Cardinality(A) - In(f[t], S)
  <2>1. t \in A <=> f[t] \in S
    BY DEF Among
  <2> QED  BY <1>1, <1>2, <2>1, FS_RemoveElement DEF In
<1>4. CASE q \in S
  <2>1. B = (A \ {t}) \cup {t}
    BY <1>4 DEF Among
  <2>2. Cardinality(B) = Cardinality(A \ {t}) + 1
    BY <1>3, <2>1, FS_AddElement
  <2>3. In(q, S) = 1
    BY <1>4 DEF In
  <2> QED  BY <1>2, <1>3, <2>2, <2>3
<1>5. CASE q \notin S
  <2>1. B = A \ {t}
    BY <1>5 DEF Among
  <2>2. In(q, S) = 0
    BY <1>5 DEF In
  <2>3. In(f[t], S) \in Nat
    BY DEF In
  <2>4. Cardinality(B) = Cardinality(A) - In(f[t], S)
    BY <1>3, <2>1
  <2> HIDE DEF A, B
  <2>5. Cardinality(B) = (Cardinality(A) - In(f[t], S)) + In(q, S)
    BY <1>2, <2>2, <2>3, <2>4
  <2> QED  BY <1>2, <2>5 DEF A, B
<1> QED  BY <1>2, <1>4, <1>5

(* What CountMove says of the three counted sets of RWLock.                   *)
LEMMA CountedSets ==
  ASSUME TypeOK, Counters, NEW t \in Threads, NEW q \in Places,
         at' = [at EXCEPT ![t] = q]
  PROVE  /\ Cardinality(HasOrWantsWrite') = (writeCount - In(at[t], Write)) + In(q, Write)
         /\ Cardinality(HasOrWantsRead')  = (readCount - In(at[t], Read)) + In(q, Read)
         /\ Cardinality(At("reading")')   = (readLock - In(at[t], {"reading"})) + In(q, {"reading"})
<1>1. /\ HasOrWantsWrite = Among(at, Write) /\ HasOrWantsWrite' = Among(at', Write)
      /\ HasOrWantsRead = Among(at, Read)   /\ HasOrWantsRead' = Among(at', Read)
      /\ At("reading") = Among(at, {"reading"}) /\ At("reading")' = Among(at', {"reading"})
  BY DEF HasOrWantsWrite, HasOrWantsRead, At, Among, Write, Read
<1>2. at \in [Threads -> Places]
  BY DEF TypeOK
<1>3. \A S : Cardinality(Among(at', S)) = (Cardinality(Among(at, S)) - In(at[t], S)) + In(q, S)
  BY <1>2, CountMove
<1> QED  BY <1>1, <1>3 DEF Counters

(* A counter is zero exactly when nobody is in the places it counts.          *)
LEMMA ZeroCounts ==
  ASSUME Counters
  PROVE  /\ writeCount = 0 <=> HasOrWantsWrite = {}
         /\ readLock = 0 <=> At("reading") = {}
<1>1. IsFiniteSet(HasOrWantsWrite) /\ IsFiniteSet(At("reading"))
  BY ThreadsAssumption, FS_Subset DEF HasOrWantsWrite, At
<1> QED  BY <1>1, FS_EmptySet DEF Counters

-----------------------------------------------------------------------------
(* The four invariants of a move of t to place q, from what the code did to   *)
(* the fields.                                                                *)
Moves(t, q) ==
  /\ at' = [at EXCEPT ![t] = q]
  /\ writeCount' = (writeCount - In(at[t], Write)) + In(q, Write)
  /\ readCount'  = (readCount - In(at[t], Read)) + In(q, Read)
  /\ readLock'   = (readLock - In(at[t], {"reading"})) + In(q, {"reading"})
  /\ writeLock'  = ((writeLock /\ at[t] # "writing") \/ q = "writing")

(* q may be entered: "reading" with no other writer inside or waiting,        *)
(* "writing" with nobody inside, "inWriter" behind a writer.                  *)
Legal(t, q) ==
  /\ q \in Places
  /\ q = "reading" => HasOrWantsWrite \subseteq {t}
  /\ q = "writing" => At("reading") \subseteq {t} /\ At("writing") = {}
  /\ q = "inWriter" => At("reading") \subseteq {t}

\* Thread t, and it alone, moves, to a place it may enter.
LegalStep(t) == at' = [at EXCEPT ![t] = at'[t]] /\ Legal(t, at'[t])

LEMMA LegalMove ==
  ASSUME IInv, NEW t \in Threads, NEW q, Moves(t, q), Legal(t, q)
  PROVE  /\ Counters'
         /\ Exclusion'
         /\ InnerLoopHasNoReaders'
         /\ writeCount' \in Nat /\ readCount' \in Nat /\ readLock' \in Nat
         /\ writeLock' \in BOOLEAN /\ at' \in [Threads -> Places]
<1> USE DEF Legal
<1>0. /\ at \in [Threads -> Places] /\ at' = [at EXCEPT ![t] = q] /\ q \in Places
      /\ at' \in [Threads -> Places]
      /\ \A u \in Threads : at'[u] = IF u = t THEN q ELSE at[u]
  BY DEF IInv, TypeOK, Moves
<1>1. /\ writeCount' = Cardinality(HasOrWantsWrite')
      /\ readCount' = Cardinality(HasOrWantsRead')
      /\ readLock' = Cardinality(At("reading")')
  BY <1>0, CountedSets DEF IInv, Moves
<1>2. IsFiniteSet(HasOrWantsWrite') /\ IsFiniteSet(HasOrWantsRead') /\ IsFiniteSet(At("reading")')
  BY ThreadsAssumption, FS_Subset DEF HasOrWantsWrite, HasOrWantsRead, At
<1>3. writeCount' \in Nat /\ readCount' \in Nat /\ readLock' \in Nat
  BY <1>1, <1>2, FS_CardinalityType
<1>4. Exclusion'
  BY <1>0 DEF IInv, Exclusion, At, HasOrWantsWrite
<1>5. writeLock' <=> At("writing")' # {}
  <2>1. writeLock <=> At("writing") # {}
    BY DEF IInv, Counters
  <2>2. at[t] = "writing" => \A u \in Threads \ {t} : at[u] # "writing"
    BY DEF IInv, Exclusion, At
  <2>3. writeLock' <=> (writeLock /\ at[t] # "writing") \/ q = "writing"
    BY DEF Moves
  <2> QED  BY <1>0, <2>1, <2>2, <2>3 DEF At
<1>6. InnerLoopHasNoReaders'
  <2>1. SUFFICES ASSUME NEW u \in Threads, at'[u] = "inWriter"
                 PROVE  At("reading")' = {}
    BY <1>1, <1>2, FS_EmptySet DEF InnerLoopHasNoReaders, At
  <2>2. CASE u = t
    BY <1>0, <2>1, <2>2 DEF At
  <2>3. CASE u # t
    <3>1. at[u] = "inWriter" /\ u \in HasOrWantsWrite
      BY <1>0, <2>1, <2>3 DEF HasOrWantsWrite
    <3>2. At("reading") = {}
      BY <3>1, ZeroCounts DEF IInv, InnerLoopHasNoReaders, At
    <3> QED  BY <1>0, <2>3, <3>1, <3>2 DEF At
  <2> QED  BY <2>2, <2>3
<1>7. writeLock' \in BOOLEAN
  BY DEF Moves
<1> QED  BY <1>0, <1>1, <1>3, <1>4, <1>5, <1>6, <1>7 DEF Counters

-----------------------------------------------------------------------------
(* The sleepers after a move: either somebody notified everyone, or the move  *)
(* left alone what the others sleep on; the mover sleeps for a reason.        *)
LEMMA Sleepers ==
  ASSUME IInv, NEW t \in Threads, NEW q \in Places, at' = [at EXCEPT ![t] = q],
         NEW asleep \in SUBSET waiting, t \notin asleep,
         waiting' = asleep \/ (waiting' = asleep \cup {t} /\ Stuck(t)'),
         \A u \in asleep : at[u] = "inRead" => writeCount' > 0,
         \A u \in asleep : at[u] = "inReaders" => readLock' > 0 \/ writeLock',
         \A u \in asleep : at[u] = "inWriter" => writeLock'
  PROVE  /\ NoLostWakeup'
         /\ waiting' \in SUBSET Threads
<1>1. waiting' \in SUBSET Threads
  BY DEF IInv, TypeOK
<1>2. SUFFICES ASSUME NEW u \in waiting' PROVE Stuck(u)'
  BY <1>1 DEF NoLostWakeup
<1>3. CASE u \notin asleep
  BY <1>2, <1>3
<1>4. CASE u \in asleep
  <2>1. u \in waiting /\ u # t
    BY <1>4
  <2>2. Stuck(u)
    BY <2>1 DEF IInv, NoLostWakeup
  <2>3. at[u] \in {"inRead", "inReaders", "inWriter"}
    BY <2>2 DEF Stuck
  <2>4. at'[u] = at[u]
    BY <2>1, <1>1, <1>2 DEF IInv, TypeOK
  <2> QED  BY <1>4, <2>3, <2>4 DEF Stuck
<1> QED  BY <1>3, <1>4

(* A thread that is not in a wait loop is not asleep.                         *)
LEMMA AwakeOutsideLoops ==
  ASSUME IInv, NEW t \in Threads, ~InLoop(t)
  PROVE  t \notin waiting
BY DEF IInv, NoLostWakeup, Stuck, InLoop

LEMMA InitInv == Init => IInv
<1> SUFFICES ASSUME Init PROVE IInv
  OBVIOUS
<1>1. TypeOK
  BY DEF Init, TypeOK, Places
<1>2. HasOrWantsWrite = {} /\ HasOrWantsRead = {} /\ \A p \in Places \ {"idle"} : At(p) = {}
  BY DEF Init, HasOrWantsWrite, HasOrWantsRead, At, Places
<1>3. Counters
  BY <1>2, FS_EmptySet DEF Init, Counters, Places
<1>4. Exclusion /\ InnerLoopHasNoReaders /\ NoLostWakeup
  BY <1>2 DEF Init, Exclusion, InnerLoopHasNoReaders, NoLostWakeup, Places
<1> QED  BY <1>1, <1>3, <1>4 DEF IInv

-----------------------------------------------------------------------------
(* TryRead and TryWrite, whoever calls them: the thread goes to a place it    *)
(* may enter, and if it goes to sleep there it is for a reason.               *)
LEMMA TryReadMove ==
  ASSUME IInv, NEW t \in Threads, NEW asleep \in SUBSET waiting, t \notin asleep,
         at[t] \in {"idle", "inRead", "writing"},
         writeCount' = writeCount - In(at[t], Write),
         readCount' = (readCount - In(at[t], Read)) + 1,
         writeLock' = (writeLock /\ at[t] # "writing"),
         at[t] = "writing" => asleep = {},
         TryRead(t, writeCount', readLock, asleep)
  PROVE  IInv' /\ LegalStep(t)
<1> DEFINE q == IF writeCount' > 0 THEN "inRead" ELSE "reading"
<1>1. writeCount \in Nat /\ readCount \in Nat /\ readLock \in Nat /\ writeLock \in BOOLEAN
  BY DEF IInv, TypeOK
<1>2. writeCount' \in Int
  BY <1>1 DEF In
<1>3. at' = [at EXCEPT ![t] = q]
  BY <1>2 DEF TryRead
<1>4. Moves(t, q)
  BY <1>1, <1>2, <1>3 DEF Moves, In, Read, Write, TryRead
<1>5. HasOrWantsWrite \subseteq {t} \/ q = "inRead"
  <2>1. CASE writeCount' > 0
    BY <2>1
  <2>2. CASE ~(writeCount' > 0)
    <3>1. writeCount' = 0
      BY <2>2 DEF TryRead
    <3>2. Cardinality(HasOrWantsWrite') = (writeCount - In(at[t], Write)) + In("reading", Write)
      BY <1>3, <2>2, CountedSets DEF IInv, Places
    <3>3. Cardinality(HasOrWantsWrite') = 0
      BY <1>1, <3>1, <3>2 DEF In, Write
    <3>4. HasOrWantsWrite' = {}
      BY <3>3, ThreadsAssumption, FS_Subset, FS_EmptySet DEF HasOrWantsWrite
    <3> QED  BY <1>3, <2>2, <3>4 DEF HasOrWantsWrite, IInv, TypeOK
  <2> QED  BY <2>1, <2>2
<1>6. Legal(t, q)
  BY <1>5 DEF Legal, Places
<1>7. /\ Counters' /\ Exclusion' /\ InnerLoopHasNoReaders'
      /\ writeCount' \in Nat /\ readCount' \in Nat /\ readLock' \in Nat
      /\ writeLock' \in BOOLEAN /\ at' \in [Threads -> Places]
  BY <1>4, <1>6, LegalMove
<1>8. NoLostWakeup' /\ waiting' \in SUBSET Threads
  <2>1. q \in Places
    BY DEF Places
  <2>2. waiting' = asleep \/ (waiting' = asleep \cup {t} /\ Stuck(t)')
    BY <1>3 DEF TryRead, Stuck, IInv, TypeOK
  <2>3. \A u \in asleep : Stuck(u) /\ writeCount' = writeCount /\ writeLock' = writeLock
    BY DEF IInv, NoLostWakeup, In, Write, TypeOK
  <2>4. readLock' = readLock \/ readLock' = readLock + 1
    BY DEF TryRead
  <2>5. /\ \A u \in asleep : at[u] = "inRead" => writeCount' > 0
        /\ \A u \in asleep : at[u] = "inReaders" => readLock' > 0 \/ writeLock'
        /\ \A u \in asleep : at[u] = "inWriter" => writeLock'
    BY <1>1, <2>3, <2>4 DEF Stuck
  <2> HIDE DEF q
  <2> QED  BY <1>3, <2>1, <2>2, <2>5, Sleepers
<1>9. LegalStep(t)
  BY <1>3, <1>6 DEF LegalStep, IInv, TypeOK
<1> QED  BY <1>7, <1>8, <1>9 DEF IInv, TypeOK

LEMMA TryWriteMove ==
  ASSUME IInv, NEW t \in Threads, t \notin waiting,
         at[t] \in {"idle", "inReaders", "inWriter", "reading"},
         writeCount' = (writeCount - In(at[t], Write)) + 1,
         readCount' = readCount - In(at[t], Read),
         readLock' = readLock - In(at[t], {"reading"}),
         \/ TryWrite(t, readLock', waiting)
         \/ at[t] = "inWriter" /\ TryWriteLock(t, waiting)
  PROVE  IInv' /\ LegalStep(t)
<1> DEFINE q == at'[t]
<1>1. writeCount \in Nat /\ readCount \in Nat /\ readLock \in Nat /\ writeLock \in BOOLEAN
      /\ at \in [Threads -> Places]
  BY DEF IInv, TypeOK
<1>2. at' = [at EXCEPT ![t] = q] /\ q \in {"inReaders", "inWriter", "writing"}
  BY <1>1 DEF TryWrite, TryWriteLock
<1>3. q # "inReaders" => At("reading") \subseteq {t}
  <2>1. HAVE q # "inReaders"
  <2>2. CASE at[t] = "inWriter"
    <3>1. readLock = 0
      BY <2>2 DEF IInv, InnerLoopHasNoReaders, At
    <3> QED  BY <3>1, ZeroCounts DEF IInv
  <2>3. CASE at[t] # "inWriter"
    <3>1. readLock' = 0
      BY <2>1, <2>3, <1>1 DEF TryWrite
    <3>2. Cardinality(At("reading")') = (readLock - In(at[t], {"reading"})) + In(q, {"reading"})
      BY <1>2, CountedSets DEF IInv, Places
    <3>3. Cardinality(At("reading")') = 0
      BY <1>1, <1>2, <3>1, <3>2 DEF In
    <3>4. At("reading")' = {}
      BY <3>3, ThreadsAssumption, FS_Subset, FS_EmptySet DEF At
    <3> QED  BY <1>1, <1>2, <3>4 DEF At
  <2> QED  BY <2>2, <2>3
<1>4. /\ q = "writing" => ~writeLock
      /\ q = "inWriter" => writeLock
      /\ writeLock' <=> writeLock \/ q = "writing"
      /\ writeLock' \in BOOLEAN
  <2>1. CASE q = "inReaders" /\ writeLock' = writeLock
    BY <1>1, <2>1
  <2>2. CASE q = "inWriter" /\ writeLock /\ writeLock' = writeLock
    BY <1>1, <2>2
  <2>3. CASE q = "writing" /\ ~writeLock /\ writeLock' = TRUE
    BY <2>3
  <2>4. \/ q = "inReaders" /\ writeLock' = writeLock
        \/ q = "inWriter" /\ writeLock /\ writeLock' = writeLock
        \/ q = "writing" /\ ~writeLock /\ writeLock' = TRUE
    BY <1>1 DEF TryWrite, TryWriteLock
  <2> QED  BY <2>1, <2>2, <2>3, <2>4
<1>5. Legal(t, q)
  BY <1>2, <1>3, <1>4 DEF Legal, Places, IInv, Counters
<1>6. Moves(t, q)
  <2>1. at[t] # "writing"
    OBVIOUS
  <2>2. writeLock' = ((writeLock /\ at[t] # "writing") \/ q = "writing")
    BY <1>1, <1>4, <2>1
  <2> QED  BY <1>1, <1>2, <2>2 DEF Moves, In, Read, Write
<1>7. /\ Counters' /\ Exclusion' /\ InnerLoopHasNoReaders'
      /\ writeCount' \in Nat /\ readCount' \in Nat /\ readLock' \in Nat
      /\ writeLock' \in BOOLEAN /\ at' \in [Threads -> Places]
  BY <1>5, <1>6, LegalMove
<1>8. NoLostWakeup' /\ waiting' \in SUBSET Threads
  <2>1. waiting' = waiting \/ (waiting' = waiting \cup {t} /\ Stuck(t)')
    BY <1>1, <1>2 DEF TryWrite, TryWriteLock, Stuck
  <2>2. \A u \in waiting : Stuck(u) /\ u # t
    BY DEF IInv, NoLostWakeup
  <2>3. writeCount' > 0
    <3>1. t \in HasOrWantsWrite' /\ IsFiniteSet(HasOrWantsWrite')
      BY <1>2, ThreadsAssumption, FS_Subset DEF HasOrWantsWrite
    <3>2. writeCount' # 0
      BY <1>7, <3>1, FS_EmptySet DEF Counters
    <3> QED  BY <1>7, <3>2
  <2>4. \A u \in waiting : at[u] = "inReaders" => readLock' > 0 \/ writeLock'
    <3>1. SUFFICES ASSUME NEW u \in waiting, at[u] = "inReaders", ~writeLock'
                   PROVE  readLock' > 0
      OBVIOUS
    <3>2. q # "writing" /\ q # "inWriter" /\ ~writeLock
      BY <1>4, <3>1
    <3>3. q = "inReaders"
      BY <1>2, <3>2
    <3>4. CASE at[t] = "inWriter" /\ TryWriteLock(t, waiting)
      BY <1>1, <3>3, <3>4 DEF TryWriteLock
    <3>5. CASE TryWrite(t, readLock', waiting)
      BY <1>1, <3>3, <3>5 DEF TryWrite, TryWriteLock
    <3> QED  BY <3>4, <3>5
  <2>5. \A u \in waiting : at[u] = "inWriter" => writeLock'
    BY <1>4, <2>2 DEF Stuck
  <2>6. q \in Places
    BY <1>2 DEF Places
  <2> HIDE DEF q
  <2> QED  BY <1>2, <2>1, <2>2, <2>3, <2>4, <2>5, <2>6, Sleepers
<1>9. LegalStep(t)
  BY <1>2, <1>5 DEF LegalStep
<1> QED  BY <1>7, <1>8, <1>9 DEF IInv, TypeOK

-----------------------------------------------------------------------------
LEMMA ReleaseInv ==
  ASSUME IInv, NEW t \in Threads, Release(t)
  PROVE  IInv' /\ LegalStep(t)
<1> DEFINE r == at[t] = "reading"
<1>1. /\ writeCount \in Nat /\ readCount \in Nat /\ readLock \in Nat /\ writeLock \in BOOLEAN
      /\ at \in [Threads -> Places] /\ at[t] \in {"reading", "writing"}
      /\ at' = [at EXCEPT ![t] = "idle"] /\ waiting \in SUBSET Threads
  BY DEF IInv, TypeOK, Release
\* release() finds the mode right
<1>2. r <=> readLock > 0
  <2>1. readLock = 0 <=> At("reading") = {}
    BY ZeroCounts DEF IInv
  <2>2. at[t] = "writing" => At("reading") = {}
    BY <1>1 DEF IInv, Exclusion, At
  <2> QED  BY <1>1, <2>1, <2>2 DEF At
<1>3. Legal(t, "idle") /\ "idle" \in Places
  BY DEF Legal, Places
<1>4. Moves(t, "idle")
  <2>1. CASE r
    <3>1. ReleaseRead
      BY <1>1, <1>2, <2>1 DEF Release, ReleaseWrite
    <3>2. writeLock' = ((writeLock /\ at[t] # "writing") \/ "idle" = "writing")
      BY <1>1, <2>1, <3>1 DEF ReleaseRead
    <3>3. /\ writeCount' = (writeCount - In(at[t], Write)) + In("idle", Write)
          /\ readCount' = (readCount - In(at[t], Read)) + In("idle", Read)
          /\ readLock' = (readLock - In(at[t], {"reading"})) + In("idle", {"reading"})
      BY <1>1, <2>1, <3>1 DEF ReleaseRead, In, Read, Write
    <3> QED  BY <1>1, <3>2, <3>3, Zenon DEF Moves
  <2>2. CASE ~r
    <3>1. ReleaseWrite
      BY <1>1, <1>2, <2>2 DEF Release, ReleaseRead
    <3>2. at[t] = "writing"
      BY <1>1, <2>2
    <3>3. writeLock' = ((writeLock /\ at[t] # "writing") \/ "idle" = "writing")
      BY <3>1, <3>2 DEF ReleaseWrite
    <3>4. /\ writeCount' = (writeCount - In(at[t], Write)) + In("idle", Write)
          /\ readCount' = (readCount - In(at[t], Read)) + In("idle", Read)
          /\ readLock' = (readLock - In(at[t], {"reading"})) + In("idle", {"reading"})
      BY <1>1, <3>1, <3>2 DEF ReleaseWrite, In, Read, Write
    <3> QED  BY <1>1, <3>3, <3>4, Zenon DEF Moves
  <2> QED  BY <2>1, <2>2
<1>5. /\ Counters' /\ Exclusion' /\ InnerLoopHasNoReaders'
      /\ writeCount' \in Nat /\ readCount' \in Nat /\ readLock' \in Nat
      /\ writeLock' \in BOOLEAN /\ at' \in [Threads -> Places]
  BY <1>3, <1>4, LegalMove
<1>6. NoLostWakeup' /\ waiting' \in SUBSET Threads
  <2>1. CASE waiting' = {}
    BY <2>1 DEF NoLostWakeup
  <2>2. CASE waiting' # {}
    <3>1. readLock > 1 /\ waiting' = waiting /\ readLock' = readLock - 1
          /\ UNCHANGED <<writeCount, writeLock>>
      BY <1>1, <2>2 DEF Release, ReleaseRead, ReleaseWrite
    <3>2. \A u \in waiting : Stuck(u)
      BY DEF IInv, NoLostWakeup
    <3>3. t \notin waiting
      BY <1>1, AwakeOutsideLoops DEF InLoop
    <3>4. /\ \A u \in waiting : at[u] = "inRead" => writeCount' > 0
          /\ \A u \in waiting : at[u] = "inReaders" => readLock' > 0 \/ writeLock'
          /\ \A u \in waiting : at[u] = "inWriter" => writeLock'
      BY <1>1, <3>1, <3>2 DEF Stuck
    <3> QED  BY <1>1, <1>3, <3>1, <3>3, <3>4, Sleepers
  <2> QED  BY <2>1, <2>2
<1>7. LegalStep(t)
  BY <1>1, <1>3 DEF LegalStep
<1> QED  BY <1>5, <1>6, <1>7 DEF IInv, TypeOK

\* What a step is, seen from the thread that takes it
Kind(t) ==
  \/ at[t] = "idle" /\ at'[t] \in {"inRead", "reading", "inReaders", "inWriter", "writing"}
  \/ at[t] = "reading" /\ at'[t] \in {"inReaders", "inWriter", "writing"}
  \/ at[t] = "writing" /\ at'[t] \in {"inRead", "reading"}
  \/ at[t] \in {"reading", "writing"} /\ at'[t] = "idle"
  \/ at[t] = "inRead" /\ at'[t] \in {"inRead", "reading"}
  \/ at[t] \in {"inReaders", "inWriter"} /\ at'[t] \in {"inReaders", "inWriter", "writing"}

(* Every step keeps the invariant and is a legal move of one thread.          *)
LEMMA StepInv ==
  ASSUME IInv, Next
  PROVE  IInv' /\ \E t \in Threads : LegalStep(t) /\ Kind(t)
<1>0. /\ at \in [Threads -> Places] /\ writeCount \in Nat /\ readCount \in Nat /\ readLock \in Nat /\ writeLock \in BOOLEAN
      /\ waiting \in SUBSET Threads
  BY DEF IInv, TypeOK
<1>1. ASSUME NEW t \in Threads, Acquire(t) PROVE IInv' /\ LegalStep(t) /\ Kind(t)
  <2>1. at[t] = "idle" /\ t \notin waiting
    BY <1>1, AwakeOutsideLoops DEF Acquire, InLoop
  <2>2. /\ writeCount' = writeCount - In(at[t], Write)
        /\ readCount' = (readCount - In(at[t], Read)) + 1
        /\ writeCount' = writeCount
    BY <1>0, <1>1, <2>1 DEF Acquire, In, Read, Write
  <2>3. writeLock' = (writeLock /\ at[t] # "writing")
    BY <1>0, <1>1, <2>1 DEF Acquire
  <2>4. TryRead(t, writeCount', readLock, waiting)
    BY <1>1, <2>2 DEF Acquire
  <2>5. Kind(t)
    BY <1>0, <2>1, <2>4 DEF TryRead, Kind
  <2> QED  BY <2>1, <2>2, <2>3, <2>4, <2>5, TryReadMove
<1>2. ASSUME NEW t \in Threads, AcquireWrite(t) PROVE IInv' /\ LegalStep(t) /\ Kind(t)
  <2>1. at[t] = "idle" /\ t \notin waiting
    BY <1>2, AwakeOutsideLoops DEF AcquireWrite, InLoop
  <2>2. /\ writeCount' = (writeCount - In(at[t], Write)) + 1
        /\ readCount' = readCount - In(at[t], Read)
        /\ readLock' = readLock - In(at[t], {"reading"})
        /\ TryWrite(t, readLock', waiting)
    BY <1>0, <1>2, <2>1 DEF AcquireWrite, In, Read, Write
  <2>3. Kind(t)
    BY <1>0, <2>1, <2>2 DEF TryWrite, TryWriteLock, Kind
  <2> QED  BY <2>1, <2>2, <2>3, TryWriteMove
<1>3. ASSUME NEW t \in Threads, Release(t) PROVE IInv' /\ LegalStep(t) /\ Kind(t)
  <2>1. Kind(t)
    BY <1>0, <1>3 DEF Release, Kind
  <2> QED  BY <1>3, <2>1, ReleaseInv
<1>4. ASSUME NEW t \in Threads, Upgrade(t) PROVE IInv' /\ LegalStep(t) /\ Kind(t)
  <2>1. at[t] = "reading" /\ t \notin waiting
    BY <1>4, AwakeOutsideLoops DEF Upgrade, InLoop
  <2>2. /\ writeCount' = (writeCount - In(at[t], Write)) + 1
        /\ readCount' = readCount - In(at[t], Read)
        /\ readLock' = readLock - In(at[t], {"reading"})
    BY <1>0, <1>4, <2>1 DEF Upgrade, In, Read, Write
  <2>3. TryWrite(t, readLock', waiting)
    BY <1>4 DEF Upgrade
  <2>4. Kind(t)
    BY <1>0, <2>1, <2>3 DEF TryWrite, TryWriteLock, Kind
  <2> QED  BY <2>1, <2>2, <2>3, <2>4, TryWriteMove
<1>5. ASSUME NEW t \in Threads, Downgrade(t) PROVE IInv' /\ LegalStep(t) /\ Kind(t)
  <2>1. at[t] = "writing"
    BY <1>5 DEF Downgrade
  <2>2. /\ writeCount' = writeCount - In(at[t], Write)
        /\ readCount' = (readCount - In(at[t], Read)) + 1
        /\ writeCount' = writeCount - 1
    BY <1>0, <1>5, <2>1 DEF Downgrade, In, Read, Write
  <2>3. writeLock' = (writeLock /\ at[t] # "writing")
    BY <1>5, <2>1 DEF Downgrade
  <2>4. TryRead(t, writeCount', readLock, {})
    BY <1>5, <2>2 DEF Downgrade
  <2>5. Kind(t)
    BY <1>0, <2>1, <2>4 DEF TryRead, Kind
  <2> QED  BY <2>1, <2>2, <2>3, <2>4, <2>5, TryReadMove
<1>6. ASSUME NEW t \in Threads, Retry(t) PROVE IInv' /\ LegalStep(t) /\ Kind(t)
  <2>1. t \notin waiting /\ UNCHANGED <<writeCount, readCount>>
    BY <1>6 DEF Retry
  <2>2. CASE at[t] = "inRead"
    <3>1. /\ writeCount' = writeCount - In(at[t], Write)
          /\ readCount' = (readCount - In(at[t], Read)) + 1
          /\ TryRead(t, writeCount', readLock, waiting)
      BY <1>0, <1>6, <2>1, <2>2 DEF Retry, In, Read, Write
    <3>2. writeLock' = (writeLock /\ at[t] # "writing")
      BY <1>0, <1>6, <2>2 DEF Retry
    <3>3. Kind(t)
      BY <1>0, <2>2, <3>1 DEF TryRead, Kind
    <3> QED  BY <2>1, <2>2, <3>1, <3>2, <3>3, TryReadMove
  <2>3. CASE at[t] \in {"inReaders", "inWriter"}
    <3>1. /\ writeCount' = (writeCount - In(at[t], Write)) + 1
          /\ readCount' = readCount - In(at[t], Read)
          /\ readLock' = readLock - In(at[t], {"reading"})
      BY <1>0, <1>6, <2>1, <2>3 DEF Retry, In, Read, Write
    <3>2. \/ TryWrite(t, readLock', waiting)
          \/ at[t] = "inWriter" /\ TryWriteLock(t, waiting)
      BY <1>6, <2>3 DEF Retry
    <3>3. Kind(t)
      BY <1>0, <2>3, <3>2 DEF TryWrite, TryWriteLock, Kind
    <3> QED  BY <2>1, <2>3, <3>1, <3>2, <3>3, TryWriteMove
  <2> QED  BY <1>6, <2>2, <2>3 DEF Retry
<1> QED  BY <1>1, <1>2, <1>3, <1>4, <1>5, <1>6 DEF Next

LEMMA NextInv == IInv /\ [Next]_vars => IInv'
<1>1. ASSUME IInv, Next PROVE IInv'
  BY <1>1, StepInv
<1>2. ASSUME IInv, UNCHANGED vars PROVE IInv'
  BY <1>2 DEF vars, IInv, TypeOK, Counters, Exclusion, InnerLoopHasNoReaders, NoLostWakeup,
              Stuck, At, HasOrWantsRead, HasOrWantsWrite
<1> QED  BY <1>1, <1>2

(* In every reachable state the counters are exact, the lock excludes, and no *)
(* wake-up is lost: none of these holds without the others.                   *)
THEOREM Invariance == Spec => []IInv
BY InitInv, NextInv, PTL DEF Spec

(* Every field keeps its type; no counter goes below zero, so the ValueError  *)
(* "Unmatched release" is never raised.                                       *)
THEOREM TypeCorrect == Spec => []TypeOK
<1>1. IInv => TypeOK
  BY DEF IInv
<1> QED  BY <1>1, Invariance, PTL

(* A thread that has the write lock has it alone.                             *)
THEOREM MutualExclusion == Spec => []Exclusion
<1>1. IInv => Exclusion
  BY DEF IInv
<1> QED  BY <1>1, Invariance, PTL

(* The counters release() and the wait loops decide on are right.             *)
THEOREM CountersRight == Spec => []Counters
<1>1. IInv => Counters
  BY DEF IInv
<1> QED  BY <1>1, Invariance, PTL

(* No thread sleeps on a condition that already holds, although upgrade()     *)
(* lets the last reader go without a notifyAll().                             *)
THEOREM NoWakeupLost == Spec => []NoLostWakeup
<1>1. IInv => NoLostWakeup
  BY DEF IInv
<1> QED  BY <1>1, Invariance, PTL

-----------------------------------------------------------------------------
(* A writer that waits is not overtaken by a reader.                          *)
THEOREM WritersFirst == Spec => WriterPreference
<1> DEFINE A == (\E t \in Threads : at[t] \in {"inReaders", "inWriter"} /\ at'[t] = at[t])
                  => At("reading")' \subseteq At("reading")
<1>1. IInv /\ [Next]_vars => [A]_vars
  <2>1. SUFFICES ASSUME IInv, Next, NEW u \in Threads,
                        at[u] \in {"inReaders", "inWriter"}, at'[u] = at[u],
                        NEW v \in At("reading")'
                 PROVE  v \in At("reading")
    OBVIOUS
  <2>2. PICK t \in Threads : LegalStep(t)
    BY <2>1, StepInv
  <2>3. CASE v # t
    BY <2>1, <2>2, <2>3 DEF LegalStep, At, IInv, TypeOK
  <2>4. CASE v = t
    <3>1. u \in HasOrWantsWrite /\ u # t
      BY <2>1, <2>4 DEF At, HasOrWantsWrite
    <3> QED  BY <2>1, <2>2, <2>4, <3>1 DEF LegalStep, Legal, At
  <2> QED  BY <2>3, <2>4
<1> QED  BY <1>1, Invariance, PTL DEF Spec, WriterPreference

(* The class implements the lock its docstring describes.                     *)
THEOREM Refinement == Spec => ImplementsAbstract
<1>1. Init => Abstract!Init
  BY DEF Init, Abstract!Init, mode
<1>2. IInv /\ [Next]_vars => [Abstract!Next]_mode
  <2>1. CASE UNCHANGED vars
    BY <2>1 DEF vars, mode
  <2>2. ASSUME IInv, Next PROVE [Abstract!Next]_mode
    <3>1. PICK t \in Threads : LegalStep(t) /\ Kind(t)
      BY <2>2, StepInv
    <3> DEFINE q == at'[t]
    <3>2. /\ at \in [Threads -> Places] /\ q \in Places /\ at' = [at EXCEPT ![t] = q]
      BY <2>2, <3>1 DEF IInv, TypeOK, LegalStep, Legal
    <3>3. /\ mode \in [Threads -> Abstract!Modes]
          /\ \A u \in Threads :
               /\ mode[u] \in {"wantWrite", "writing"} => u \in HasOrWantsWrite
               /\ mode[u] = "reading" => u \in At("reading")
               /\ mode[u] = "writing" => u \in At("writing")
      BY <3>2 DEF mode, Places, Abstract!Modes, HasOrWantsWrite, At
    <3>4. /\ mode[t] = CASE at[t] = "inRead" -> "wantRead"
                        [] at[t] \in {"inReaders", "inWriter"} -> "wantWrite"
                        [] OTHER -> at[t]
          /\ mode' = [mode EXCEPT ![t] = CASE q = "inRead" -> "wantRead"
                        [] q \in {"inReaders", "inWriter"} -> "wantWrite"
                        [] OTHER -> q]
      BY <3>2 DEF mode
    <3>5. CASE q = "reading"
      <4>1. Abstract!GrantRead(t)
        BY <3>1, <3>2, <3>3, <3>4, <3>5 DEF Abstract!GrantRead, LegalStep, Legal, Kind
      <4> QED  BY <4>1 DEF Abstract!Next
    <3>6. CASE q = "writing"
      <4>1. mode[t] \in {"idle", "wantWrite", "reading"}
        BY <3>1, <3>4, <3>6 DEF Kind
      <4>2. \A u \in Threads \ {t} : mode[u] \notin {"reading", "writing"}
        BY <3>1, <3>3, <3>6 DEF LegalStep, Legal
      <4>3. Abstract!GrantWrite(t)
        BY <3>4, <3>6, <4>1, <4>2 DEF Abstract!GrantWrite
      <4> QED  BY <4>3 DEF Abstract!Next
    <3>7. CASE q = "idle"
      <4>1. Abstract!Release(t)
        BY <3>1, <3>4, <3>7 DEF Abstract!Release, Kind
      <4> QED  BY <4>1 DEF Abstract!Next
    <3>8. CASE q = "inRead"
      <4>1. CASE at[t] = "inRead"
        BY <3>3, <3>4, <3>8, <4>1
      <4>2. CASE at[t] # "inRead"
        <5>1. Abstract!Ask(t, "wantRead")
          BY <3>1, <3>4, <3>8, <4>2 DEF Abstract!Ask, Kind
        <5> QED  BY <5>1 DEF Abstract!Next
      <4> QED  BY <4>1, <4>2
    <3>9. CASE q \in {"inReaders", "inWriter"}
      <4>1. CASE at[t] \in {"inReaders", "inWriter"}
        BY <3>3, <3>4, <3>9, <4>1
      <4>2. CASE at[t] \notin {"inReaders", "inWriter"}
        <5>1. Abstract!Ask(t, "wantWrite")
          BY <3>1, <3>4, <3>9, <4>2 DEF Abstract!Ask, Kind
        <5> QED  BY <5>1 DEF Abstract!Next
      <4> QED  BY <4>1, <4>2
    <3> QED  BY <3>2, <3>5, <3>6, <3>7, <3>8, <3>9 DEF Places
  <2> QED  BY <2>1, <2>2
<1> QED  BY <1>1, <1>2, Invariance, PTL DEF Spec, ImplementsAbstract, Abstract!Spec
=============================================================================
