-------------------------- MODULE FileState41_proofs --------------------------
(* Proofs about FileState41, for any number of threads, clients, owners and   *)
(* StateTableEntries, any shares and any ranges of locks.                     *)
EXTENDS FileState41, SequenceTheorems, WellFoundedInduction, TLAPS

-----------------------------------------------------------------------------
(* The inductive invariant                                                    *)

Types == {"SHARE", "BYTE", "DELEG"}
ShareKeys == {<<c, o>> : c \in Clients, o \in Owners}
ByteKeys == {<<c, o, l>> : c \in Clients, o \in Owners, l \in LockOwners}
DelegKeys == {<<c>> : c \in Clients}
Keys == ShareKeys \cup ByteKeys \cup DelegKeys

Ranges == {r \in Nat \X Nat : r[1] <= r[2]}
Locks == [type : {"READ", "WRITE"}, range : Ranges]
Entries == [type : Types, key : Keys, access : SUBSET Modes, deny : SUBSET Modes,
            locks : Seq(Locks), invalid : BOOLEAN]
Caches == [valid : BOOLEAN, access : SUBSET Modes, deny : SUBSET Modes]
Ops == {"IO", "CLOSE", "LOCK", "LOCKU", "DELEGRETURN"}
ThreadStates ==
  [pc : {"idle", "setattr"}] \cup [pc : {"open"}, client : Clients]
    \cup [pc : {"found"}, id : Nat, op : Ops]
    \cup [pc : {"reboot"}, client : Clients, todo : SUBSET Nat]

\* The key of an entry is one for its type.
KeyOK(e) ==
  /\ e.type = "SHARE" => e.key \in ShareKeys
  /\ e.type = "BYTE" => e.key \in ByteKeys
  /\ e.type = "DELEG" => e.key \in DelegKeys

\* What a thread found, or is to delete, is an entry, of a type that can do it.
ThreadOK(e) ==
  /\ e.pc = "found" =>
       /\ e.id \in Ids
       /\ e.op = "CLOSE" => entry[e.id].type = "SHARE"
       /\ e.op = "LOCK" => entry[e.id].type \in {"SHARE", "BYTE"}
       /\ e.op = "LOCKU" => entry[e.id].type = "BYTE"
       /\ e.op = "DELEGRETURN" => entry[e.id].type = "DELEG"
  /\ e.pc = "reboot" => e.todo \subseteq Ids

TypeOK ==
  /\ workload \in Workloads
  /\ entry \in Seq(Entries) /\ \A id \in Ids : KeyOK(entry[id])
  /\ tree \in SUBSET Ids
  /\ known \in [Clients -> SUBSET Ids]
  /\ cache \in Caches
  /\ anonWriters \in Int
  /\ stuck \in BOOLEAN /\ gone \in SUBSET Clients
  /\ thread \in [Threads -> ThreadStates] /\ \A t \in Threads : ThreadOK(thread[t])

\* The cached union leaves out nothing.
CacheOK ==
  cache.valid => \A id \in Embedded("SHARE") :
    entry[id].access \subseteq cache.access /\ entry[id].deny \subseteq cache.deny

IInv == TypeOK /\ CacheOK /\ SharesCompatible /\ AnonWriteExcludesDeny /\ LocksAreSound

-----------------------------------------------------------------------------
(* Locks                                                                      *)

Disjoint(locks) ==
  \A i, j \in DOMAIN locks : i # j => ~ShareByte(locks[i], locks[j])

LEMMA Least ==
  ASSUME NEW S \in SUBSET Nat, S # {}
  PROVE  Min(S) \in S
<1> DEFINE R == {p \in Nat \X Nat : p[1] < p[2]}
<1>1. OpToRel(<, Nat) = R
  BY DEF OpToRel
<1>2. PICK x \in S : \A y \in S : <<y, x>> \notin R
  BY ZenonT(40), <1>1, WFMin, NatLessThanWellFounded
<1>3. ASSUME NEW y \in S
      PROVE  x <= y
  <2>1. x \in Nat /\ y \in Nat /\ <<y, x>> \in Nat \X Nat /\ <<y, x>>[1] = y /\ <<y, x>>[2] = x
    OBVIOUS
  <2>2. ~(y < x)
    BY <1>2, <2>1
  <2> QED  BY <2>1, <2>2
<1> QED  BY <1>3 DEF Min

(* ByteLock.overlaps says of two locks whether they share a byte.             *)
LEMMA OverlapIsSharing ==
  \A l, m \in Locks : ShareByte(l, m) <=> Overlaps(l.range, m.range)
<1> SUFFICES ASSUME NEW l \in Locks, NEW m \in Locks
             PROVE  ShareByte(l, m) <=> Overlaps(l.range, m.range)
  OBVIOUS
<1>1. l.range \in Ranges /\ m.range \in Ranges
  BY DEF Locks
<1>2. PICK a \in Nat, b \in Nat, p \in Nat, q \in Nat :
        /\ a = l.range[1] /\ b = l.range[2] /\ p = m.range[1] /\ q = m.range[2] /\ a <= b /\ p <= q
  BY <1>1 DEF Ranges
<1>3. (\E x \in a..b : x \in p..q) <=> ((a <= p /\ p <= b) \/ (p <= a /\ a <= q))
  BY <1>2
<1> QED  BY <1>2, <1>3 DEF ShareByte, Overlaps

LEMMA SharingIsMutual ==
  \A l, m \in Locks : ShareByte(l, m) => ShareByte(m, l)
BY OverlapIsSharing DEF Overlaps

(* What is left of a list when one of its members goes.                       *)
LEMMA Removed ==
  ASSUME NEW S, NEW q \in Seq(S), NEW i \in DOMAIN q
  PROVE  /\ RemoveAt(q, i) \in Seq(S)
         /\ \A j \in DOMAIN RemoveAt(q, i) :
              /\ j \in Nat /\ (j < i => j \in DOMAIN q /\ RemoveAt(q, i)[j] = q[j])
              /\ (j >= i => j + 1 \in DOMAIN q /\ RemoveAt(q, i)[j] = q[j + 1])
<1>1. PICK n \in Nat : n = Len(q) /\ DOMAIN q = 1..n
  OBVIOUS
<1>2. PICK h \in Nat, g \in Nat : i = h + 1 /\ n = h + 1 + g
  <2>1. i \in Nat /\ i - 1 \in Nat /\ n - i \in Nat
    BY <1>1
  <2>2. i = (i - 1) + 1 /\ n = (i - 1) + 1 + (n - i)
    BY <2>1
  <2> QED  BY <2>1, <2>2
<1> PICK a : a = SubSeq(q, 1, h)
  OBVIOUS
<1> PICK b : b = SubSeq(q, h + 2, n)
  OBVIOUS
<1>3. RemoveAt(q, i) = a \o b
  <2>1. i - 1 = h /\ i + 1 = h + 2
    BY <1>2
  <2> QED  BY <1>1, <2>1 DEF RemoveAt
<1>4. a \in Seq(S) /\ Len(a) = h /\ \A j \in 1..h : a[j] = q[j]
  <2>1. \A j \in 1..h : q[j] \in S
    BY <1>1, <1>2
  <2> QED  BY <2>1, SubSeqProperties
<1>5. b \in Seq(S) /\ Len(b) = g /\ \A j \in 1..g : b[j] = q[h + 1 + j]
  <2>1. \A j \in (h + 2)..n : q[j] \in S
    BY <1>1, <1>2
  <2>2. /\ b \in Seq(S) /\ Len(b) = IF h + 2 <= n THEN n - (h + 2) + 1 ELSE 0
        /\ \A j \in 1..(n - (h + 2) + 1) : b[j] = q[h + 2 + j - 1]
    BY <1>2, <2>1, SubSeqProperties
  <2>3. n - (h + 2) + 1 = g /\ \A j \in 1..g : h + 2 + j - 1 = h + 1 + j
    BY <1>2
  <2> QED  BY <1>2, <2>2, <2>3
<1>6. a \o b \in Seq(S) /\ Len(a \o b) = h + g
  BY <1>4, <1>5, ConcatProperties
<1>7. ASSUME NEW j \in 1..(h + g)
      PROVE  (a \o b)[j] = IF j <= h THEN q[j] ELSE q[j + 1]
  <2>1. (a \o b)[j] = IF j <= h THEN a[j] ELSE b[j - h]
    <3>1. \A x \in 1..Len(a) + Len(b) : (a \o b)[x] = IF x <= Len(a) THEN a[x] ELSE b[x - Len(a)]
      BY <1>4, <1>5, ConcatProperties
    <3> QED  BY <1>4, <1>5, <3>1
  <2>2. CASE j <= h
    BY <1>4, <2>1, <2>2
  <2>3. CASE ~(j <= h)
    <3>1. j - h \in 1..g /\ h + 1 + (j - h) = j + 1
      BY <2>3
    <3> QED  BY <1>5, <2>1, <2>3, <3>1
  <2> QED  BY <2>2, <2>3
<1>8. DOMAIN (a \o b) = 1..(h + g)
  BY <1>6
<1>9. \A j \in 1..(h + g) :
        /\ j \in Nat /\ (j <= h <=> j < i) /\ (j <= h => j \in 1..n) /\ (j > h => j + 1 \in 1..n)
        /\ (j > h <=> j >= i)
  BY <1>2
<1>10. PICK r : r = a \o b
  OBVIOUS
<1>11. ASSUME NEW j \in 1..(h + g)
       PROVE  /\ j \in Nat /\ (j < i => j \in DOMAIN q /\ r[j] = q[j])
              /\ (j >= i => j + 1 \in DOMAIN q /\ r[j] = q[j + 1])
  <2>1. r[j] = IF j <= h THEN q[j] ELSE q[j + 1]
    BY <1>7, <1>10
  <2> QED  BY <1>1, <1>9, <2>1
<1> QED  BY <1>3, <1>6, <1>8, <1>10, <1>11

(* LOCKU keeps the locks of an owner disjoint.                                *)
LEMMA RemovedDisjoint ==
  ASSUME NEW q \in Seq(Locks), NEW i \in DOMAIN q, Disjoint(q)
  PROVE  /\ RemoveAt(q, i) \in Seq(Locks) /\ Disjoint(RemoveAt(q, i))
         /\ Range(RemoveAt(q, i)) \subseteq Range(q)
<1> PICK r : r = RemoveAt(q, i)
  OBVIOUS
<1>1. i \in Nat
  OBVIOUS
<1>2. /\ r \in Seq(Locks)
      /\ \A j \in DOMAIN r :
           /\ j \in Nat /\ (j < i => j \in DOMAIN q /\ r[j] = q[j])
           /\ (j >= i => j + 1 \in DOMAIN q /\ r[j] = q[j + 1])
  BY Removed
<1>3. Disjoint(r)
  <2> SUFFICES ASSUME NEW j \in DOMAIN r, NEW k \in DOMAIN r, j # k
               PROVE  ~ShareByte(r[j], r[k])
    BY DEF Disjoint
  <2>1. PICK x \in DOMAIN q : r[j] = q[x] /\ ((x = j /\ j < i) \/ (x = j + 1 /\ j >= i))
    BY <1>1, <1>2
  <2>2. PICK y \in DOMAIN q : r[k] = q[y] /\ ((y = k /\ k < i) \/ (y = k + 1 /\ k >= i))
    BY <1>1, <1>2
  <2>3. x # y
    BY <1>1, <1>2, <2>1, <2>2
  <2> QED  BY <2>1, <2>2, <2>3 DEF Disjoint
<1>4. Range(r) \subseteq Range(q)
  BY <1>1, <1>2 DEF Range
<1> QED  BY <1>2, <1>3, <1>4

(* LOCK keeps them disjoint too, and adds no lock but the one asked for.      *)
LEMMA AddedDisjoint ==
  ASSUME NEW q \in Seq(Locks), Disjoint(q), NEW lock \in Locks, NEW r \in WithLock(q, lock)
  PROVE  /\ r \in Seq(Locks) /\ Disjoint(r)
         /\ \A l \in Range(r) : l \in Range(q) \/ l = lock
<1> DEFINE over == {i \in DOMAIN q : Overlaps(q[i].range, lock.range)}
<1>0. /\ \A i \in DOMAIN q : i \in Nat /\ q[i] \in Locks
      /\ \A l, m \in Locks : ShareByte(l, m) <=> Overlaps(l.range, m.range)
      /\ \A l, m \in Locks : ShareByte(l, m) => ShareByte(m, l)
  BY OverlapIsSharing, SharingIsMutual
<1>1. CASE over = {}
  <2>1. r = Append(q, lock)
    BY <1>1 DEF WithLock
  <2>2. PICK n \in Nat : n = Len(q) /\ DOMAIN q = 1..n
    OBVIOUS
  <2>3. r \in Seq(Locks) /\ DOMAIN r = 1..(n + 1) /\ r[n + 1] = lock /\ \A i \in 1..n : r[i] = q[i]
    BY <2>1, <2>2
  <2>4. \A i \in DOMAIN q : ~ShareByte(q[i], lock) /\ ~ShareByte(lock, q[i])
    BY <1>0, <1>1
  <2>5. \A i \in 1..(n + 1) : i \in 1..n \/ i = n + 1
    BY <2>2
  <2>6. Disjoint(r)
    BY <2>2, <2>3, <2>4, <2>5 DEF Disjoint
  <2>7. \A l \in Range(r) : l \in Range(q) \/ l = lock
    BY <2>2, <2>3, <2>5 DEF Range
  <2> QED  BY <2>3, <2>6, <2>7
<1>2. CASE over # {}
  <2>1. PICK i \in over : i = Min(over)
    <3>1. over \in SUBSET Nat
      BY <1>0
    <3> HIDE DEF over
    <3> QED  BY <1>2, <3>1, Least
  <2>2. q[i].range = lock.range /\ r = [q EXCEPT ![i] = lock]
    BY <1>2, <2>1 DEF WithLock
  <2>3. r \in Seq(Locks) /\ DOMAIN r = DOMAIN q /\ r[i] = lock /\ \A j \in DOMAIN q : j # i => r[j] = q[j]
    BY <2>1, <2>2
  <2>4. ASSUME NEW j \in DOMAIN q, j # i
        PROVE  ~ShareByte(q[j], lock) /\ ~ShareByte(lock, q[j])
    <3>1. ~ShareByte(q[j], q[i]) /\ ~ShareByte(q[i], q[j])
      BY <2>1, <2>4 DEF Disjoint
    <3> QED  BY <2>2, <3>1 DEF ShareByte
  <2>5. Disjoint(r)
    BY <2>3, <2>4 DEF Disjoint
  <2>6. \A l \in Range(r) : l \in Range(q) \/ l = lock
    BY <2>3 DEF Range
  <2> QED  BY <2>3, <2>5, <2>6
<1> QED  BY <1>1, <1>2

-----------------------------------------------------------------------------
(* What the steps keep                                                        *)

\* The entries stay, with their types and keys.
EntriesStay ==
  /\ entry' \in Seq(Entries) /\ Len(entry) <= Len(entry')
  /\ \A id \in Ids : entry'[id].type = entry[id].type /\ entry'[id].key = entry[id].key

\* No open is new, and none gets or denies more than before.
SharesStay ==
  \A id \in ShareIds(entry') :
    id \in Ids /\ entry'[id].access = entry[id].access /\ entry'[id].deny = entry[id].deny

LEMMA Workload ==
  ASSUME workload \in Workloads
  PROVE  /\ workload.threads \subseteq Threads /\ workload.owners \subseteq Owners
         /\ workload.lockOwners \subseteq LockOwners
         /\ \A s \in workload.shares :
              s.access \in SUBSET Modes /\ s.deny \in SUBSET Modes /\ s.want \in BOOLEAN
         /\ workload.ranges \subseteq Ranges
<1>1. /\ workload.threads \subseteq Threads /\ workload.owners \subseteq Owners
      /\ workload.lockOwners \subseteq LockOwners
      /\ workload.shares \subseteq
            [access : (SUBSET {"R", "W"}) \ {{}}, deny : SUBSET {"R", "W"}, want : BOOLEAN]
      /\ \A r \in workload.ranges : r \in Nat \X Nat /\ r[1] <= r[2]
  BY FileStateAssumption
<1> QED  BY <1>1 DEF Modes, Ranges

LEMMA IdsStay ==
  ASSUME TypeOK, EntriesStay
  PROVE  Ids \subseteq Ids' /\ Ids = DOMAIN entry /\ Ids' = DOMAIN entry'
<1>1. PICK n \in Nat : n = Len(entry) /\ DOMAIN entry = 1..n
  BY DEF TypeOK
<1>2. PICK m \in Nat : m = Len(entry') /\ DOMAIN entry' = 1..m
  BY DEF EntriesStay
<1>3. n <= m
  BY <1>1, <1>2 DEF EntriesStay
<1> QED  BY <1>1, <1>2, <1>3 DEF Ids

(* The types, from those of what a step changes.                              *)
LEMMA TypesKept ==
  ASSUME TypeOK, EntriesStay, workload' = workload,
         \A id \in Ids' : id \in Ids \/ KeyOK(entry[id])',
         tree' \subseteq Ids', known' \in [Clients -> SUBSET Ids'], cache' \in Caches,
         anonWriters' \in Int, stuck' \in BOOLEAN, gone' \in SUBSET Clients,
         thread' \in [Threads -> ThreadStates],
         \A t \in Threads : thread'[t] = thread[t] \/ ThreadOK(thread[t])'
  PROVE  TypeOK'
<1>1. Ids \subseteq Ids'
  BY IdsStay
<1>2. \A id \in Ids' : KeyOK(entry[id])'
  BY DEF TypeOK, EntriesStay, KeyOK
<1>3. ASSUME NEW t \in Threads
      PROVE  ThreadOK(thread[t])'
  <2>1. ThreadOK(thread[t])
    BY DEF TypeOK
  <2>2. CASE thread'[t] = thread[t]
    BY <1>1, <2>1, <2>2 DEF ThreadOK, EntriesStay
  <2> QED  BY <2>2
<1> QED  BY <1>2, <1>3 DEF TypeOK, EntriesStay

LEMMA CurrentIsComplete ==
  ASSUME TypeOK, CacheOK
  PROVE  /\ Current \in Caches /\ Current.valid
         /\ \A id \in Embedded("SHARE") :
              entry[id].access \subseteq Current.access /\ entry[id].deny \subseteq Current.deny
<1>1. CASE cache.valid
  BY <1>1 DEF TypeOK, CacheOK, Current
<1>2. CASE ~cache.valid
  <2>1. Current = ShareUnion
    BY <1>2 DEF Current
  <2>2. ASSUME NEW id \in Embedded("SHARE")
        PROVE  entry[id] \in Entries
    BY DEF TypeOK, Ids, Embedded
  <2>3. \A id \in Embedded("SHARE") : entry[id].access \subseteq Modes /\ entry[id].deny \subseteq Modes
    BY <2>2 DEF Entries
  <2> QED  BY <2>1, <2>3 DEF ShareUnion, Caches
<1> QED  BY <1>1, <1>2 DEF TypeOK, Caches

(* Opens that stay as they are, or go, keep what is said of shares.           *)
LEMMA SharesKept ==
  ASSUME TypeOK, CacheOK, SharesCompatible, AnonWriteExcludesDeny,
         \A id \in Embedded("SHARE")' :
           /\ id \in Embedded("SHARE")
           /\ entry'[id].access = entry[id].access /\ entry'[id].deny = entry[id].deny,
         cache' = cache \/ cache' = Current,
         anonWriters' = anonWriters \/ anonWriters' = anonWriters - 1
  PROVE  CacheOK' /\ SharesCompatible' /\ AnonWriteExcludesDeny'
<1>1. CacheOK'
  BY CurrentIsComplete DEF CacheOK
<1>2. SharesCompatible'
  BY DEF SharesCompatible
<1>3. AnonWriteExcludesDeny'
  <2>1. anonWriters' > 0 => anonWriters > 0
    BY DEF TypeOK
  <2> QED  BY <2>1 DEF AnonWriteExcludesDeny
<1> QED  BY <1>1, <1>2, <1>3

(* Locks that stay, or go, keep what is said of locks.                        *)
LEMMA LocksKept ==
  ASSUME TypeOK, LocksAreSound, EntriesStay,
         \A id \in Embedded("BYTE")' : entry'[id].locks = <<>> \/ id \in Embedded("BYTE"),
         \A id \in Ids' :
           \/ entry'[id].locks = <<>>
           \/ /\ id \in Ids /\ Range(entry'[id].locks) \subseteq Range(entry[id].locks)
              /\ Disjoint(entry'[id].locks)
  PROVE  LocksAreSound'
<1>1. OwnLocksDisjoint'
  BY DEF OwnLocksDisjoint, Disjoint
<1>2. StrangersLocksCompatible'
  <2> SUFFICES ASSUME NEW id \in Embedded("BYTE")', NEW ie \in Embedded("BYTE")',
                      \A i \in 1..3 : entry'[id].key[i] # entry'[ie].key[i],
                      NEW l \in Range(entry'[id].locks), NEW m \in Range(entry'[ie].locks),
                      ShareByte(l, m)
               PROVE  l.type = "READ" /\ m.type = "READ"
    BY DEF StrangersLocksCompatible
  <2>1. entry'[id].locks # <<>> /\ entry'[ie].locks # <<>>
    BY DEF Range
  <2>2. id \in Embedded("BYTE") /\ ie \in Embedded("BYTE") /\ id \in Ids /\ ie \in Ids
    BY <2>1 DEF TypeOK, Embedded
  <2>3. id \in Ids' /\ ie \in Ids'
    BY <2>2, IdsStay
  <2>4. l \in Range(entry[id].locks) /\ m \in Range(entry[ie].locks)
    BY <2>1, <2>2, <2>3
  <2>5. \A i \in 1..3 : entry[id].key[i] # entry[ie].key[i]
    BY <2>2 DEF EntriesStay
  <2> QED  BY <2>2, <2>4, <2>5 DEF LocksAreSound, StrangersLocksCompatible
<1> QED  BY <1>1, <1>2 DEF LocksAreSound

LEMMA SameEntries ==
  ASSUME TypeOK, entry' = entry
  PROVE  EntriesStay
<1>1. Len(entry) \in Nat
  BY DEF TypeOK
<1> QED  BY <1>1 DEF TypeOK, EntriesStay

LEMMA SharesOnlyStay ==
  ASSUME TypeOK, EntriesStay, Len(entry') = Len(entry),
         \A id \in Ids : entry'[id].access = entry[id].access /\ entry'[id].deny = entry[id].deny
  PROVE  SharesStay
<1>1. Ids' = Ids /\ DOMAIN entry' = Ids'
  BY IdsStay DEF Ids
<1> QED  BY <1>1 DEF SharesStay, ShareIds

LEMMA StateKept ==
  ASSUME IInv, EntriesStay, Len(entry') = Len(entry), tree' \subseteq tree,
         \A id \in Ids : /\ entry'[id].access = entry[id].access
                         /\ entry'[id].deny = entry[id].deny
                         /\ entry'[id].locks = entry[id].locks,
         cache' = cache \/ cache' = Current,
         anonWriters' = anonWriters \/ anonWriters' = anonWriters - 1
  PROVE  CacheOK' /\ SharesCompatible' /\ AnonWriteExcludesDeny' /\ LocksAreSound'
<1>1. Ids' = Ids /\ tree \subseteq Ids
  BY DEF Ids, IInv, TypeOK
<1>2. ASSUME NEW type \in Types, NEW id \in Embedded(type)'
      PROVE  id \in Embedded(type) /\ id \in Ids
  BY <1>1 DEF Embedded, EntriesStay
<1>3. CacheOK' /\ SharesCompatible' /\ AnonWriteExcludesDeny'
  <2>1. \A id \in Embedded("SHARE")' :
           /\ id \in Embedded("SHARE")
           /\ entry'[id].access = entry[id].access /\ entry'[id].deny = entry[id].deny
    BY <1>2 DEF Types
  <2> QED  BY <2>1, SharesKept DEF IInv
<1>4. LocksAreSound'
  <2>1. \A id \in Embedded("BYTE")' : id \in Embedded("BYTE")
    BY <1>2 DEF Types
  <2>2. \A id \in Ids : Disjoint(entry[id].locks)
    BY DEF IInv, LocksAreSound, OwnLocksDisjoint, Disjoint
  <2>3. \A id \in Ids' :
           /\ id \in Ids /\ Range(entry'[id].locks) \subseteq Range(entry[id].locks)
           /\ Disjoint(entry'[id].locks)
    BY <1>1, <2>2
  <2> QED  BY <2>1, <2>3, LocksKept DEF IInv
<1> QED  BY <1>3, <1>4

(* A step that touches neither the entries nor the tree.                      *)
LEMMA QuietStep ==
  ASSUME IInv, workload' = workload, entry' = entry, tree' = tree,
         known' \in [Clients -> SUBSET Ids], cache' = cache \/ cache' = Current,
         anonWriters' = anonWriters \/ anonWriters' = anonWriters - 1,
         stuck' \in BOOLEAN, gone' \in SUBSET Clients,
         thread' \in [Threads -> ThreadStates],
         \A t \in Threads : thread'[t] = thread[t] \/ ThreadOK(thread[t])'
  PROVE  IInv' /\ SharesStay
<1>1. EntriesStay /\ Ids' = Ids /\ Len(entry') = Len(entry)
  BY SameEntries DEF IInv, Ids
<1>2. CacheOK' /\ SharesCompatible' /\ AnonWriteExcludesDeny' /\ LocksAreSound'
  BY <1>1, StateKept
<1>3. cache' \in Caches /\ anonWriters' \in Int
  BY CurrentIsComplete DEF IInv, TypeOK
<1>4. TypeOK'
  BY <1>1, <1>3, TypesKept DEF IInv, TypeOK
<1>5. SharesStay
  BY <1>1, SharesOnlyStay DEF IInv
<1> QED  BY <1>2, <1>4, <1>5 DEF IInv

LEMMA ThreadSet ==
  ASSUME TypeOK, NEW t \in Threads, NEW e \in ThreadStates, thread' = [thread EXCEPT ![t] = e]
  PROVE  /\ thread' \in [Threads -> ThreadStates] /\ thread'[t] = e
         /\ \A u \in Threads : u # t => thread'[u] = thread[u]
BY DEF TypeOK

LEMMA BecomesIdle ==
  ASSUME TypeOK, NEW t \in Threads, thread' = [thread EXCEPT ![t] = Idle]
  PROVE  /\ thread' \in [Threads -> ThreadStates]
         /\ \A u \in Threads : thread'[u] = thread[u] \/ ThreadOK(thread[u])'
<1>1. Idle \in ThreadStates /\ Idle.pc = "idle"
  BY DEF Idle, ThreadStates
<1>2. thread' \in [Threads -> ThreadStates] /\ thread'[t] = Idle
      /\ \A u \in Threads : u # t => thread'[u] = thread[u]
  BY <1>1, ThreadSet
<1>3. ThreadOK(thread[t])'
  BY <1>1, <1>2 DEF ThreadOK
<1> QED  BY <1>2, <1>3

-----------------------------------------------------------------------------
(* The steps, one by one                                                      *)

LEMMA OpenFileStep ==
  ASSUME IInv, workload' = workload, NEW t \in Threads, NEW c \in Clients, OpenFile(t, c)
  PROVE  IInv' /\ SharesStay
<1> PICK e : e = [pc |-> "open", client |-> c]
  OBVIOUS
<1>1. e \in ThreadStates /\ e.pc = "open"
  BY DEF ThreadStates
<1>2. thread' \in [Threads -> ThreadStates] /\ thread'[t] = e
      /\ \A u \in Threads : u # t => thread'[u] = thread[u]
  BY <1>1, ThreadSet DEF OpenFile, IInv
<1>3. ThreadOK(thread[t])'
  BY <1>1, <1>2 DEF ThreadOK
<1> QED  BY <1>2, <1>3, QuietStep DEF OpenFile, IInv, TypeOK

LEMMA OpenRefusedStep ==
  ASSUME IInv, workload' = workload, NEW t \in Threads, NEW access, NEW deny,
         OpenDenied(t, access, deny) \/ OpenDelayed(t, access, deny)
  PROVE  IInv' /\ SharesStay
<1>1. thread' = [thread EXCEPT ![t] = Idle]
  BY DEF OpenDenied, OpenDelayed
<1>2. /\ thread' \in [Threads -> ThreadStates]
      /\ \A u \in Threads : thread'[u] = thread[u] \/ ThreadOK(thread[u])'
  BY <1>1, BecomesIdle DEF IInv
<1> QED  BY <1>2, QuietStep DEF OpenDenied, OpenDelayed, IInv, TypeOK

LEMMA FindStateStep ==
  ASSUME IInv, workload' = workload, NEW t \in Threads, NEW id \in Ids,
         NEW op \in Operations(id), FindState(t, id, op)
  PROVE  IInv' /\ SharesStay
<1> PICK e : e = [pc |-> "found", id |-> id, op |-> op]
  OBVIOUS
<1>1. id \in Nat /\ entry[id] \in Entries
  BY DEF IInv, TypeOK, Ids
<1>2. /\ entry[id].type \in Types
      /\ entry[id].type = "SHARE" => op \in {"IO", "LOCK", "CLOSE"}
      /\ entry[id].type = "BYTE" => op \in {"IO", "LOCK", "LOCKU"}
      /\ entry[id].type = "DELEG" => op \in {"IO", "DELEGRETURN"}
  BY <1>1 DEF Operations, Entries, Types
<1>3. e \in ThreadStates /\ e.pc = "found" /\ e.id = id /\ e.op = op
  BY <1>1, <1>2 DEF ThreadStates, Ops, Types
<1>4. thread' \in [Threads -> ThreadStates] /\ thread'[t] = e
      /\ \A u \in Threads : u # t => thread'[u] = thread[u]
  BY <1>3, ThreadSet DEF FindState, IInv
<1>5. entry' = entry /\ Ids' = Ids
  BY DEF FindState, Ids
<1>6. ThreadOK(thread[t])'
  BY <1>2, <1>3, <1>4, <1>5 DEF ThreadOK, Types
<1> QED  BY <1>4, <1>6, QuietStep DEF FindState, IInv, TypeOK

LEMMA QuietThreadStep ==
  ASSUME IInv, workload' = workload, NEW t \in Threads,
         FoundInvalid(t) \/ ReadOrWrite(t) \/ TestShare(t) \/ SetattrEnds(t)
  PROVE  IInv' /\ SharesStay
<1>1. CASE FoundInvalid(t) \/ ReadOrWrite(t) \/ SetattrEnds(t)
  <2>1. thread' = [thread EXCEPT ![t] = Idle]
    BY <1>1 DEF FoundInvalid, ReadOrWrite, SetattrEnds
  <2>2. /\ thread' \in [Threads -> ThreadStates]
        /\ \A u \in Threads : thread'[u] = thread[u] \/ ThreadOK(thread[u])'
    BY <2>1, BecomesIdle DEF IInv
  <2> QED
    BY <1>1, <2>2, QuietStep DEF FoundInvalid, ReadOrWrite, SetattrEnds, IInv, TypeOK
<1>2. CASE TestShare(t)
  BY <1>2, QuietStep DEF TestShare, IInv, TypeOK
<1> QED  BY <1>1, <1>2

LEMMA RebootBeginsStep ==
  ASSUME IInv, workload' = workload, NEW t \in Threads, NEW c \in Clients, Reboot(t, c)
  PROVE  IInv' /\ SharesStay
<1> PICK e : e = [pc |-> "reboot", client |-> c, todo |-> known[c]]
  OBVIOUS
<1>1. known[c] \in SUBSET Ids /\ Ids \subseteq Nat
  BY DEF IInv, TypeOK, Ids
<1>2. e \in ThreadStates /\ e.pc = "reboot" /\ e.todo = known[c]
  BY <1>1 DEF ThreadStates
<1>3. thread' \in [Threads -> ThreadStates] /\ thread'[t] = e
      /\ \A u \in Threads : u # t => thread'[u] = thread[u]
  BY <1>2, ThreadSet DEF Reboot, IInv
<1>4. Ids' = Ids
  BY DEF Reboot, Ids
<1>5. ThreadOK(thread[t])'
  BY <1>1, <1>2, <1>3, <1>4 DEF ThreadOK
<1> QED  BY <1>3, <1>5, QuietStep DEF Reboot, IInv, TypeOK

LEMMA RebootEndsStep ==
  ASSUME IInv, workload' = workload, NEW t \in Threads, RebootEnds(t)
  PROVE  IInv' /\ SharesStay
<1>1. /\ thread' \in [Threads -> ThreadStates]
      /\ \A u \in Threads : thread'[u] = thread[u] \/ ThreadOK(thread[u])'
  BY BecomesIdle DEF IInv, RebootEnds
<1>2. known' \in [Clients -> SUBSET Ids]
  BY DEF RebootEnds, IInv, TypeOK
<1>3. thread[t].client \in Clients
  BY DEF RebootEnds, IInv, TypeOK, ThreadStates
<1> QED  BY <1>1, <1>2, <1>3, QuietStep DEF RebootEnds, IInv, TypeOK

LEMMA RecallStep ==
  ASSUME IInv, workload' = workload, NEW id \in Ids, Recall(id)
  PROVE  IInv' /\ SharesStay
<1>1. UNCHANGED <<entry, tree, known, cache, anonWriters, stuck, gone, thread>>
  BY DEF Recall, RecallStarts, RecallSends, RecallAnswered
<1> QED  BY <1>1, QuietStep DEF IInv, TypeOK

(* A step that may mark entries invalid and take them out of the tree.        *)
LEMMA ShrinkingStep ==
  ASSUME IInv, workload' = workload, EntriesStay, Len(entry') = Len(entry),
         \A id \in Ids : /\ entry'[id].access = entry[id].access
                         /\ entry'[id].deny = entry[id].deny
                         /\ entry'[id].locks = entry[id].locks,
         tree' \subseteq tree, known' \in [Clients -> SUBSET Ids],
         UNCHANGED <<cache, anonWriters, stuck, gone>>,
         thread' \in [Threads -> ThreadStates],
         \A t \in Threads : thread'[t] = thread[t] \/ ThreadOK(thread[t])'
  PROVE  IInv' /\ SharesStay
<1>1. Ids' = Ids
  BY DEF Ids
<1>2. CacheOK' /\ SharesCompatible' /\ AnonWriteExcludesDeny' /\ LocksAreSound'
  BY StateKept
<1>3. tree' \subseteq Ids
  BY DEF IInv, TypeOK
<1>4. TypeOK'
  BY <1>1, <1>3, TypesKept DEF IInv, TypeOK
<1>5. SharesStay
  BY <1>1, SharesOnlyStay DEF IInv
<1> QED  BY <1>2, <1>4, <1>5 DEF IInv

LEMMA Replaced ==
  ASSUME NEW S, NEW q \in Seq(S), NEW i \in DOMAIN q, NEW e \in S
  PROVE  /\ [q EXCEPT ![i] = e] \in Seq(S) /\ Len([q EXCEPT ![i] = e]) = Len(q)
         /\ [q EXCEPT ![i] = e][i] = e
         /\ \A j \in DOMAIN q : j # i => [q EXCEPT ![i] = e][j] = q[j]
OBVIOUS

LEMMA InvalidEntry ==
  ASSUME TypeOK, NEW id \in Ids, entry' = [entry EXCEPT ![id].invalid = TRUE]
  PROVE  /\ EntriesStay /\ Len(entry') = Len(entry)
         /\ \A ie \in Ids : /\ entry'[ie].access = entry[ie].access
                            /\ entry'[ie].deny = entry[ie].deny
                            /\ entry'[ie].locks = entry[ie].locks
<1>1. PICK n \in Nat : n = Len(entry) /\ Ids = 1..n /\ DOMAIN entry = 1..n
  BY DEF TypeOK, Ids
<1> PICK e : e = [entry[id] EXCEPT !.invalid = TRUE]
  OBVIOUS
<1>2. entry[id] \in Entries
  BY <1>1 DEF TypeOK
<1>3. /\ e \in Entries /\ e.type = entry[id].type /\ e.key = entry[id].key
      /\ e.access = entry[id].access /\ e.deny = entry[id].deny /\ e.locks = entry[id].locks
  BY <1>2 DEF Entries
<1>4. entry' = [entry EXCEPT ![id] = e]
  OBVIOUS
<1>5. /\ entry' \in Seq(Entries) /\ Len(entry') = n /\ entry'[id] = e
      /\ \A ie \in Ids : ie # id => entry'[ie] = entry[ie]
  <2>1. entry \in Seq(Entries) /\ id \in DOMAIN entry
    BY <1>1 DEF TypeOK
  <2>2. /\ entry' \in Seq(Entries) /\ Len(entry') = Len(entry) /\ entry'[id] = e
        /\ \A ie \in DOMAIN entry : ie # id => entry'[ie] = entry[ie]
    BY <1>3, <1>4, <2>1, Replaced
  <2> QED  BY <1>1, <2>2
<1> QED  BY <1>1, <1>3, <1>5 DEF EntriesStay

LEMMA CloseStep ==
  ASSUME IInv, workload' = workload, NEW t \in Threads, Close(t)
  PROVE  IInv' /\ SharesStay
<1>1. /\ thread' \in [Threads -> ThreadStates]
      /\ \A u \in Threads : thread'[u] = thread[u] \/ ThreadOK(thread[u])'
  BY BecomesIdle DEF IInv, Close
<1>2. EntriesStay /\ Len(entry') = Len(entry)
  BY SameEntries DEF IInv, Close
<1> QED  BY <1>1, <1>2, ShrinkingStep DEF IInv, TypeOK, Close

LEMMA DelegReturnStep ==
  ASSUME IInv, workload' = workload, NEW t \in Threads, DelegReturn(t)
  PROVE  IInv' /\ SharesStay
<1>1. /\ thread' \in [Threads -> ThreadStates]
      /\ \A u \in Threads : thread'[u] = thread[u] \/ ThreadOK(thread[u])'
  BY BecomesIdle DEF IInv, DelegReturn
<1>2. thread[t].id \in Ids
  BY DEF IInv, TypeOK, ThreadOK, DelegReturn, Holds
<1>3. known' \in [Clients -> SUBSET Ids]
  BY DEF IInv, TypeOK, DelegReturn
<1>4. entry' = [entry EXCEPT ![thread[t].id].invalid = TRUE]
  BY DEF DelegReturn
<1> QED  BY <1>1, <1>2, <1>3, <1>4, InvalidEntry, ShrinkingStep DEF IInv, DelegReturn

LEMMA RebootDeletesStep ==
  ASSUME IInv, workload' = workload, NEW t \in Threads, NEW id \in Ids, RebootDeletes(t, id)
  PROVE  IInv' /\ SharesStay
<1> PICK e : e = [thread[t] EXCEPT !.todo = @ \ {id}]
  OBVIOUS
<1>1. /\ thread[t] \in ThreadStates /\ thread[t].pc = "reboot" /\ thread[t].todo \subseteq Ids
      /\ Ids \subseteq Nat
  BY DEF IInv, TypeOK, ThreadOK, RebootDeletes, Ids
<1>2. e \in ThreadStates /\ e.pc = "reboot" /\ e.todo \subseteq thread[t].todo
  BY <1>1 DEF ThreadStates
<1>3. thread' \in [Threads -> ThreadStates] /\ thread'[t] = e
      /\ \A u \in Threads : u # t => thread'[u] = thread[u]
  BY <1>2, ThreadSet DEF RebootDeletes, IInv
<1>4. /\ EntriesStay /\ Len(entry') = Len(entry)
      /\ \A ie \in Ids : /\ entry'[ie].access = entry[ie].access
                         /\ entry'[ie].deny = entry[ie].deny
                         /\ entry'[ie].locks = entry[ie].locks
  <2>1. CASE entry' = entry
    BY <2>1, SameEntries DEF IInv
  <2>2. CASE entry' = [entry EXCEPT ![id].invalid = TRUE]
    BY <2>2, InvalidEntry DEF IInv
  <2> QED  BY <2>1, <2>2 DEF RebootDeletes
<1>5. ThreadOK(thread[t])'
  <2>1. Ids' = Ids
    BY <1>4 DEF Ids
  <2> QED  BY <1>1, <1>2, <1>3, <2>1 DEF ThreadOK
<1>6. tree' \subseteq tree
  BY DEF RebootDeletes
<1>7. known' \in [Clients -> SUBSET Ids]
  BY DEF IInv, TypeOK, RebootDeletes
<1>8. UNCHANGED <<cache, anonWriters, stuck, gone>>
  BY DEF RebootDeletes
<1> QED  BY <1>3, <1>4, <1>5, <1>6, <1>7, <1>8, ShrinkingStep

LEMMA SetattrBeginsStep ==
  ASSUME IInv, workload' = workload, NEW t \in Threads, SetattrBegins(t)
  PROVE  IInv' /\ SharesStay
<1> PICK e : e = [pc |-> "setattr"]
  OBVIOUS
<1>1. e \in ThreadStates /\ e.pc = "setattr"
  BY DEF ThreadStates
<1>2. thread' \in [Threads -> ThreadStates] /\ thread'[t] = e
      /\ \A u \in Threads : u # t => thread'[u] = thread[u]
  BY <1>1, ThreadSet DEF SetattrBegins, IInv
<1>3. ThreadOK(thread[t])'
  BY <1>1, <1>2 DEF ThreadOK
<1>4. entry' = entry /\ tree' = tree /\ cache' = Current /\ EntriesStay
  BY SameEntries DEF SetattrBegins, IInv
<1>5. cache' \in Caches /\ anonWriters' \in Int
  BY CurrentIsComplete DEF SetattrBegins, IInv, TypeOK
<1>6. TypeOK'
  <2>1. Ids' = Ids
    BY <1>4 DEF Ids
  <2> QED
    BY <1>2, <1>3, <1>4, <1>5, <2>1, TypesKept DEF SetattrBegins, IInv, TypeOK
<1>7. CacheOK' /\ Embedded("SHARE")' = Embedded("SHARE")
  BY <1>4, CurrentIsComplete DEF CacheOK, Embedded, IInv
<1>8. SharesCompatible' /\ LocksAreSound'
  BY <1>4 DEF IInv, SharesCompatible, LocksAreSound, StrangersLocksCompatible, OwnLocksDisjoint,
              Embedded, Ids
<1>9. AnonWriteExcludesDeny'
  <2>1. "W" \notin Current.deny
    BY DEF SetattrBegins, ShareConflict
  <2>2. \A id \in Embedded("SHARE") : "W" \notin entry[id].deny
    BY <2>1, CurrentIsComplete DEF IInv
  <2> QED  BY <1>4, <1>7, <2>2 DEF AnonWriteExcludesDeny
<1>10. SharesStay
  BY <1>4, SharesOnlyStay DEF IInv
<1> QED  BY <1>6, <1>7, <1>8, <1>9, <1>10 DEF IInv

LEMMA RemoveLockStep ==
  ASSUME IInv, workload' = workload, NEW t \in Threads, NEW range, RemoveLock(t, range)
  PROVE  IInv' /\ SharesStay
<1> PICK id : id = thread[t].id
  OBVIOUS
<1> PICK q : q = entry[id].locks
  OBVIOUS
<1>1. id \in Ids
  BY DEF IInv, TypeOK, ThreadOK, RemoveLock, Holds
<1>2. PICK n \in Nat : n = Len(entry) /\ Ids = 1..n /\ DOMAIN entry = 1..n
  BY DEF IInv, TypeOK, Ids
<1>3. entry[id] \in Entries /\ q \in Seq(Locks)
  <2>1. entry[id] \in Entries
    BY <1>1, <1>2 DEF IInv, TypeOK
  <2> QED  BY <2>1 DEF Entries
<1>4. /\ thread' \in [Threads -> ThreadStates]
      /\ \A u \in Threads : thread'[u] = thread[u] \/ ThreadOK(thread[u])'
  BY BecomesIdle DEF IInv, RemoveLock
<1>5. CASE entry' = entry
  BY <1>4, <1>5, QuietStep DEF IInv, TypeOK, RemoveLock
<1>6. CASE entry' # entry
  <2> DEFINE here == {i \in DOMAIN q : q[i].range = range}
  <2>1. here # {} /\ entry' = [entry EXCEPT ![id].locks = RemoveAt(q, Min(here))]
    BY <1>6 DEF RemoveLock
  <2>2. Min(here) \in DOMAIN q
    <3>1. here \in SUBSET Nat /\ here \subseteq DOMAIN q
      BY <1>3
    <3> HIDE DEF here
    <3> QED  BY <2>1, <3>1, Least
  <2> PICK r : r = RemoveAt(q, Min(here))
    OBVIOUS
  <2>3. Disjoint(q)
    BY <1>1 DEF IInv, LocksAreSound, OwnLocksDisjoint, Disjoint
  <2>4. r \in Seq(Locks) /\ Disjoint(r) /\ Range(r) \subseteq Range(q)
    BY <1>3, <2>2, <2>3, RemovedDisjoint
  <2> HIDE DEF here
  <2> PICK e : e = [entry[id] EXCEPT !.locks = r]
    OBVIOUS
  <2>5. /\ e \in Entries /\ e.type = entry[id].type /\ e.key = entry[id].key
        /\ e.access = entry[id].access /\ e.deny = entry[id].deny /\ e.locks = r
    BY <1>3, <2>4 DEF Entries
  <2>6. entry' = [entry EXCEPT ![id] = e]
    BY <2>1
  <2>7. /\ entry' \in Seq(Entries) /\ Len(entry') = n /\ entry'[id] = e
        /\ \A ie \in Ids : ie # id => entry'[ie] = entry[ie]
    BY <1>1, <1>2, <2>5, <2>6, Replaced DEF IInv, TypeOK
  <2>8. EntriesStay /\ Ids' = Ids
    <3>1. Len(entry) = n /\ n <= n
      BY <1>2
    <3> QED  BY <1>2, <2>5, <2>7, <3>1 DEF EntriesStay, Ids
  <2>9. tree' = tree /\ tree \subseteq Ids /\ \A type \in Types : Embedded(type)' = Embedded(type)
    BY <2>5, <2>7 DEF RemoveLock, Embedded, IInv, TypeOK
  <2>10. CacheOK' /\ SharesCompatible' /\ AnonWriteExcludesDeny'
    <3>1. \A ie \in Ids : entry'[ie].access = entry[ie].access /\ entry'[ie].deny = entry[ie].deny
      BY <2>5, <2>7
    <3>2. \A ie \in Embedded("SHARE")' :
             /\ ie \in Embedded("SHARE")
             /\ entry'[ie].access = entry[ie].access /\ entry'[ie].deny = entry[ie].deny
      BY <2>9, <3>1 DEF Types, Embedded
    <3> QED  BY <3>2, SharesKept DEF IInv, RemoveLock
  <2>11. LocksAreSound'
    <3>1. \A ie \in Ids : Disjoint(entry[ie].locks)
      BY DEF IInv, LocksAreSound, OwnLocksDisjoint, Disjoint
    <3>2. \A ie \in Ids' :
            /\ ie \in Ids /\ Range(entry'[ie].locks) \subseteq Range(entry[ie].locks)
            /\ Disjoint(entry'[ie].locks)
      BY ZenonT(40), <2>4, <2>5, <2>7, <2>8, <3>1
    <3> QED  BY <2>8, <2>9, <3>2, LocksKept DEF IInv, Types
  <2>12. TypeOK'
    BY <1>4, <2>8, <2>9, TypesKept DEF IInv, TypeOK, RemoveLock
  <2>13. SharesStay
    <3>1. \A ie \in Ids : entry'[ie].access = entry[ie].access /\ entry'[ie].deny = entry[ie].deny
      BY <2>5, <2>7
    <3> QED  BY <1>2, <2>7, <2>8, <3>1, SharesOnlyStay DEF IInv
  <2> QED  BY <2>10, <2>11, <2>12, <2>13 DEF IInv
<1> QED  BY <1>5, <1>6

-----------------------------------------------------------------------------
(* LOCK                                                                       *)

LEMMA NewEntryOK ==
  ASSUME NEW type \in Types, NEW key \in Keys
  PROVE  NewEntry(type, key) \in Entries
<1>1. <<>> \in Seq(Locks)
  OBVIOUS
<1> QED  BY <1>1 DEF NewEntry, Entries

(* grab_entry finds an entry in the tree or adds one.                         *)
LEMMA Grabbed ==
  ASSUME NEW type, NEW key, NEW es
  PROVE  \/ Grab(type, key, es).es = es /\ Grab(type, key, es).id \in AtKey(type, key)
         \/ /\ Grab(type, key, es).es = Append(es, NewEntry(type, key))
            /\ Grab(type, key, es).id = Len(es) + 1
BY DEF Grab

LEMMA Appended ==
  ASSUME NEW S, NEW q \in Seq(S), NEW e \in S
  PROVE  /\ Append(q, e) \in Seq(S) /\ Len(Append(q, e)) = Len(q) + 1
         /\ Append(q, e)[Len(q) + 1] = e /\ \A j \in 1..Len(q) : Append(q, e)[j] = q[j]
OBVIOUS

LEMMA LockKeys ==
  /\ \A k \in ShareKeys, l \in LockOwners : Append(k, l) \in ByteKeys
  /\ \A k \in ByteKeys : Len(k) = 3 /\ \A i \in 1..3 : k[i] # None
<1>1. ASSUME NEW c \in Clients, NEW o \in Owners, NEW l \in LockOwners
      PROVE  Append(<<c, o>>, l) = <<c, o, l>> /\ Len(<<c, o, l>>) = 3
  <2> PICK S : S = {c, o, l}
    OBVIOUS
  <2> PICK q : q = <<c, o>>
    OBVIOUS
  <2> PICK r : r = <<c, o, l>>
    OBVIOUS
  <2>1. q \in Seq(S) /\ Len(q) = 2 /\ q[1] = c /\ q[2] = o
    OBVIOUS
  <2>2. r \in Seq(S) /\ Len(r) = 3 /\ r[1] = c /\ r[2] = o /\ r[3] = l
    OBVIOUS
  <2>3. /\ Append(q, l) \in Seq(S) /\ Len(Append(q, l)) = 3
        /\ Append(q, l)[3] = l /\ Append(q, l)[1] = c /\ Append(q, l)[2] = o
    <3>1. l \in S /\ Len(q) + 1 = 3 /\ 1 \in 1..Len(q) /\ 2 \in 1..Len(q)
      BY <2>1
    <3> QED  BY <2>1, <3>1, Appended
  <2>4. Append(q, l) = r
    <3>1. \A i \in 1..3 : Append(q, l)[i] = r[i]
      BY <2>2, <2>3
    <3> QED  BY <2>2, <2>3, <3>1, SeqEqual
  <2> QED  BY <2>2, <2>4
<1>2. ASSUME NEW k \in ShareKeys, NEW l \in LockOwners
      PROVE  Append(k, l) \in ByteKeys
  <2>1. PICK c \in Clients, o \in Owners : k = <<c, o>>
    BY DEF ShareKeys
  <2>2. Append(k, l) = <<c, o, l>>
    BY <1>1, <2>1
  <2> QED  BY <2>2 DEF ByteKeys
<1>3. ASSUME NEW c \in Clients, NEW o \in Owners, NEW l \in LockOwners, NEW i \in 1..3
      PROVE  <<c, o, l>>[i] # None
  BY FileStateAssumption
<1> QED  BY <1>1, <1>2, <1>3 DEF ByteKeys

(* The entry that a LOCK uses: its own, one in the tree, or a new one.        *)
LockUses(b, es, key, lock) ==
  /\ es \in Seq(Entries) /\ key \in ByteKeys
  /\ b \in DOMAIN es /\ es[b].type = "BYTE" /\ es[b].key = key /\ Disjoint(es[b].locks)
  /\ Len(entry) <= Len(es) /\ \A id \in Ids : es[id] = entry[id]
  /\ \A id \in DOMAIN es : id \in Ids \/ id = b
  /\ es[b].locks = <<>> \/ b \in Ids
  /\ es[b].locks = <<>> \/ tree' = tree \/ b \in tree
  /\ tree' \subseteq tree \cup {b}
  /\ known' \in [Clients -> SUBSET (Ids \cup {b})]
  /\ \/ entry' = es
     \/ /\ ~Conflicting(key, lock)
        /\ \E list \in WithLock(es[b].locks, lock) : entry' = [es EXCEPT ![b].locks = list]

LEMMA LockEntry ==
  ASSUME IInv, NEW t \in Threads, NEW owner \in LockOwners, NEW lock \in Locks,
         AddLock(t, owner, lock)
  PROVE  \E b, es, key : LockUses(b, es, key, lock)
<1> PICK from : from = thread[t].id
  OBVIOUS
<1>1. from \in Ids /\ entry[from].type \in {"SHARE", "BYTE"}
  BY DEF IInv, TypeOK, ThreadOK, AddLock, Holds
<1>2. PICK n \in Nat : n = Len(entry) /\ Ids = 1..n /\ DOMAIN entry = 1..n
  BY DEF IInv, TypeOK, Ids
<1>3. /\ entry \in Seq(Entries) /\ \A id \in Ids : entry[id] \in Entries /\ KeyOK(entry[id])
      /\ tree \subseteq Ids /\ known \in [Clients -> SUBSET Ids]
  BY <1>2 DEF IInv, TypeOK
<1>4. \A id \in Ids : Disjoint(entry[id].locks)
  BY DEF IInv, LocksAreSound, OwnLocksDisjoint, Disjoint
<1> PICK key : key = IF entry[from].type = "BYTE" THEN entry[from].key
                     ELSE Append(entry[from].key, owner)
  OBVIOUS
<1> PICK byte : byte = IF entry[from].type = "BYTE" THEN [es |-> entry, id |-> from]
                       ELSE Grab("BYTE", key, entry)
  OBVIOUS
<1> PICK b : b = byte.id
  OBVIOUS
<1> PICK es : es = byte.es
  OBVIOUS
<1>5. key \in ByteKeys
  BY <1>1, <1>3, LockKeys DEF KeyOK
<1>6. /\ \/ entry' = es
         \/ /\ ~Conflicting(key, lock)
            /\ \E list \in WithLock(es[b].locks, lock) : entry' = [es EXCEPT ![b].locks = list]
      /\ \/ b = from /\ tree' = tree /\ known' = known
         \/ /\ b # from /\ tree' = tree \cup {b}
            /\ known' = [known EXCEPT ![key[1]] = @ \cup {b}]
  BY DEF AddLock
<1>7. tree' \subseteq tree \cup {b} /\ known' \in [Clients -> SUBSET (Ids \cup {b})]
  <2>1. known \in [Clients -> SUBSET (Ids \cup {b})]
    BY <1>3
  <2>2. ASSUME known' = [known EXCEPT ![key[1]] = @ \cup {b}]
        PROVE  known' \in [Clients -> SUBSET (Ids \cup {b})]
    <3> PICK k : k = [known EXCEPT ![key[1]] = @ \cup {b}]
      OBVIOUS
    <3>1. DOMAIN k = Clients /\ \A c \in Clients : k[c] \in SUBSET (Ids \cup {b})
      BY <2>1
    <3>2. k = [c \in Clients |-> k[c]]
      BY <2>1
    <3>3. k \in [Clients -> SUBSET (Ids \cup {b})]
      BY <3>1, <3>2
    <3>4. known' = k
      BY <2>2
    <3> QED  BY <3>3, <3>4
  <2>3. known' \in [Clients -> SUBSET (Ids \cup {b})]
    BY ZenonT(40), <1>6, <2>1, <2>2
  <2> QED  BY <1>6, <2>3
<1> SUFFICES LockUses(b, es, key, lock)
  OBVIOUS
<1>8. /\ b \in DOMAIN es /\ es \in Seq(Entries) /\ es[b].type = "BYTE" /\ es[b].key = key
         /\ Disjoint(es[b].locks)
      /\ Len(entry) <= Len(es) /\ \A id \in Ids : es[id] = entry[id]
      /\ \A id \in DOMAIN es : id \in Ids \/ id = b
      /\ es[b].locks = <<>> \/ b \in Ids
      /\ es[b].locks = <<>> \/ tree' = tree \/ b \in tree
  <2>1. CASE es = entry /\ b = from /\ entry[from].type = "BYTE"
    <3>1. b \in Ids /\ tree' = tree /\ entry[b].type = "BYTE" /\ entry[b].key = key
      BY <1>1, <1>6, <2>1
    <3>2. n <= n
      BY <1>2
    <3> QED  BY <1>2, <1>3, <1>4, <2>1, <3>1, <3>2
  <2>2. CASE es = entry /\ b \in AtKey("BYTE", key)
    <3>1. b \in Ids /\ b \in tree /\ entry[b].type = "BYTE" /\ entry[b].key = key
      BY <1>3, <2>2 DEF AtKey, Embedded
    <3>2. n <= n
      BY <1>2
    <3> QED  BY <1>2, <1>3, <1>4, <2>2, <3>1, <3>2
  <2>3. CASE es = Append(entry, NewEntry("BYTE", key)) /\ b = n + 1
    <3> PICK e : e = NewEntry("BYTE", key)
      OBVIOUS
    <3>1. e \in Entries /\ e.type = "BYTE" /\ e.key = key /\ e.locks = <<>>
      <4>1. "BYTE" \in Types /\ key \in Keys
        BY <1>5 DEF Types, Keys
      <4>2. e.type = "BYTE" /\ e.key = key /\ e.locks = <<>>
        BY DEF NewEntry
      <4> QED  BY <4>1, <4>2, NewEntryOK
    <3>2. /\ es \in Seq(Entries) /\ Len(es) = n + 1 /\ es[n + 1] = e
          /\ \A id \in 1..n : es[id] = entry[id]
      <4>1. es = Append(entry, e)
        BY <2>3
      <4>2. /\ Append(entry, e) \in Seq(Entries) /\ Len(Append(entry, e)) = Len(entry) + 1
            /\ Append(entry, e)[Len(entry) + 1] = e
            /\ \A id \in 1..Len(entry) : Append(entry, e)[id] = entry[id]
        BY SMTT(40), <1>3, <3>1, Appended
      <4> QED  BY <1>2, <4>1, <4>2
    <3>3. DOMAIN es = 1..(n + 1) /\ n <= n + 1 /\ n + 1 \in 1..(n + 1)
          /\ \A id \in 1..(n + 1) : id \in 1..n \/ id = n + 1
      <4>1. \A q \in Seq(Entries) : DOMAIN q = 1..Len(q)
        OBVIOUS
      <4>2. DOMAIN es = 1..(n + 1)
        BY ZenonT(40), <3>2, <4>1
      <4>3. n <= n + 1 /\ n + 1 \in 1..(n + 1)
            /\ \A id \in 1..(n + 1) : id \in 1..n \/ id = n + 1
        OBVIOUS
      <4> QED  BY <4>2, <4>3
    <3>4. Disjoint(<<>>)
      BY DEF Disjoint
    <3> QED  BY <1>2, <2>3, <3>1, <3>2, <3>3, <3>4
  <2>4. \/ es = entry /\ b = from /\ entry[from].type = "BYTE"
        \/ es = entry /\ b \in AtKey("BYTE", key)
        \/ es = Append(entry, NewEntry("BYTE", key)) /\ b = n + 1
    BY SMTT(40), <1>2, Grabbed
  <2> QED  BY <2>1, <2>2, <2>3, <2>4
<1> QED  BY <1>5, <1>6, <1>7, <1>8 DEF LockUses

LEMMA AddLockStep ==
  ASSUME IInv, workload' = workload, NEW t \in Threads, NEW owner \in LockOwners,
         NEW lock \in Locks, AddLock(t, owner, lock)
  PROVE  IInv' /\ SharesStay
<1>1. PICK b, es, key : LockUses(b, es, key, lock)
  BY LockEntry
<1> PICK old : old = es[b].locks
  OBVIOUS
<1>2. PICK n \in Nat : n = Len(entry) /\ Ids = 1..n /\ DOMAIN entry = 1..n
  BY DEF IInv, TypeOK, Ids
<1>3. PICK m \in Nat : m = Len(es) /\ DOMAIN es = 1..m
  BY <1>1 DEF LockUses
<1>4. n <= m /\ \A id \in 1..n : es[id] = entry[id]
  BY <1>1, <1>2, <1>3 DEF LockUses
<1>5. es[b] \in Entries /\ old \in Seq(Locks) /\ Disjoint(old) /\ es[b].type = "BYTE" /\ es[b].key = key
  <2>1. es[b] \in Entries
    BY <1>1 DEF LockUses
  <2> QED  BY <1>1, <2>1 DEF LockUses, Entries
(* The locks of the entry are those it had, or have the new one.              *)
<1>6. PICK new \in Seq(Locks) :
        /\ entry' = [es EXCEPT ![b] = [es[b] EXCEPT !.locks = new]]
        /\ Disjoint(new)
        /\ \A l \in Range(new) : l \in Range(old) \/ (l = lock /\ ~Conflicting(key, lock))
  <2>1. CASE entry' = es
    <3>1. es[b] = [es[b] EXCEPT !.locks = old]
      BY <1>5 DEF Entries
    <3>2. es = [es EXCEPT ![b] = es[b]]
      BY <1>1 DEF LockUses
    <3> QED  BY <1>5, <2>1, <3>1, <3>2
  <2>2. CASE entry' # es
    <3>1. PICK list \in WithLock(old, lock) : entry' = [es EXCEPT ![b].locks = list]
      BY <1>1, <2>2 DEF LockUses
    <3>2. ~Conflicting(key, lock)
      BY <1>1, <2>2 DEF LockUses
    <3>3. list \in Seq(Locks) /\ Disjoint(list) /\ \A l \in Range(list) : l \in Range(old) \/ l = lock
      BY <1>5, AddedDisjoint
    <3> QED  BY <3>1, <3>2, <3>3
  <2> QED  BY <2>1, <2>2
<1> PICK e : e = [es[b] EXCEPT !.locks = new]
  OBVIOUS
<1>7. /\ e \in Entries /\ e.type = "BYTE" /\ e.key = key /\ e.locks = new
      /\ e.access = es[b].access /\ e.deny = es[b].deny
  BY <1>5 DEF Entries
<1>8. /\ entry' \in Seq(Entries) /\ Len(entry') = m /\ entry'[b] = e
      /\ \A id \in 1..m : id # b => entry'[id] = es[id]
  <2>1. es \in Seq(Entries) /\ b \in DOMAIN es
    BY <1>1 DEF LockUses
  <2>2. /\ [es EXCEPT ![b] = e] \in Seq(Entries) /\ Len([es EXCEPT ![b] = e]) = Len(es)
        /\ [es EXCEPT ![b] = e][b] = e
        /\ \A id \in DOMAIN es : id # b => [es EXCEPT ![b] = e][id] = es[id]
    BY <1>7, <2>1, Replaced
  <2> QED  BY <1>3, <1>6, <2>2
<1>9. Ids' = 1..m /\ Ids \subseteq 1..m /\ b \in 1..m /\ \A id \in 1..m : id \in Ids \/ id = b
  <2>1. Ids' = 1..m
    BY <1>8 DEF Ids
  <2>2. 1..n \subseteq 1..m
    BY <1>4
  <2> QED  BY <1>1, <1>2, <1>3, <2>1, <2>2 DEF LockUses
<1>10. \A id \in Ids : id # b => entry'[id] = entry[id]
  BY <1>2, <1>4, <1>8, <1>9
<1>11. b \in Ids => /\ entry[b].type = "BYTE" /\ entry[b].key = key /\ entry[b].locks = old
                    /\ entry[b].access = e.access /\ entry[b].deny = e.deny
  BY <1>2, <1>4, <1>5, <1>7
<1>12. EntriesStay
  <2>1. Len(entry) <= Len(entry')
    BY <1>2, <1>4, <1>8
  <2> QED  BY <1>7, <1>8, <1>10, <1>11, <2>1 DEF EntriesStay
<1>13. tree \subseteq Ids /\ tree' \subseteq tree \cup {b} /\ known' \in [Clients -> SUBSET Ids']
  BY <1>1, <1>9 DEF LockUses, IInv, TypeOK
<1>14. TypeOK'
  <2>1. /\ thread' \in [Threads -> ThreadStates]
        /\ \A u \in Threads : thread'[u] = thread[u] \/ ThreadOK(thread[u])'
    BY BecomesIdle DEF IInv, AddLock
  <2>2. KeyOK(e)
    BY <1>1, <1>7 DEF KeyOK, LockUses
  <2>3. \A id \in Ids' : id \in Ids \/ KeyOK(entry[id])'
    BY <1>8, <1>9, <2>2 DEF KeyOK
  <2>4. UNCHANGED <<cache, anonWriters, stuck, gone>>
    BY DEF AddLock
  <2>5. tree' \subseteq Ids'
    BY <1>9, <1>13
  <2> QED  BY <1>12, <1>13, <2>1, <2>3, <2>4, <2>5, TypesKept DEF IInv, TypeOK
<1>15. CacheOK' /\ SharesCompatible' /\ AnonWriteExcludesDeny'
  <2>1. \A id \in Embedded("SHARE")' :
           /\ id \in Embedded("SHARE")
           /\ entry'[id].access = entry[id].access /\ entry'[id].deny = entry[id].deny
    BY <1>7, <1>8, <1>10, <1>13 DEF Embedded
  <2> QED  BY <2>1, SharesKept DEF IInv, AddLock
<1>16. OwnLocksDisjoint'
  <2>1. \A id \in Ids : Disjoint(entry[id].locks)
    BY DEF IInv, LocksAreSound, OwnLocksDisjoint, Disjoint
  <2>2. \A id \in Ids' : Disjoint(entry'[id].locks)
    BY <1>6, <1>7, <1>8, <1>9, <1>10, <2>1
  <2> QED  BY <2>2 DEF OwnLocksDisjoint, Disjoint
(* One that was in the tree keeps its locks, but for the new one.             *)
<1>17. ASSUME NEW id \in Embedded("BYTE")', NEW l \in Range(entry'[id].locks)
       PROVE  /\ entry'[id].key = IF id = b THEN key ELSE entry[id].key
              /\ l \in Locks
              /\ \/ id = b /\ l = lock /\ ~Conflicting(key, lock)
                 \/ id \in Embedded("BYTE") /\ l \in Range(entry[id].locks)
  <2>1. id \in tree' /\ entry'[id].type = "BYTE" /\ id \in Ids'
    BY <1>9, <1>13 DEF Embedded
  <2>2. CASE id # b
    <3>1. id \in Ids /\ id \in tree /\ entry'[id] = entry[id]
      BY <1>9, <1>10, <1>13, <2>1, <2>2
    <3>2. id \in Embedded("BYTE") /\ l \in Range(entry[id].locks)
      BY <2>1, <3>1 DEF Embedded
    <3>3. entry[id].locks \in Seq(Locks)
      <4>1. entry[id] \in Entries
        BY <3>1 DEF IInv, TypeOK, Ids
      <4> QED  BY <4>1 DEF Entries
    <3>4. l \in Locks
      BY <3>2, <3>3 DEF Range
    <3> QED  BY <2>2, <3>1, <3>2, <3>4
  <2>3. CASE id = b
    <3>1. l \in Range(new) /\ entry'[id].key = key
      BY <1>7, <1>8, <2>3
    <3>2. l \in Locks
      BY <3>1 DEF Range
    <3>3. CASE l = lock /\ ~Conflicting(key, lock)
      BY <2>3, <3>1, <3>2, <3>3
    <3>4. CASE l \in Range(old)
      <4>1. old # <<>>
        BY <3>4 DEF Range
      <4>2. b \in Ids /\ b \in tree
        BY <1>1, <2>1, <2>3, <4>1 DEF LockUses
      <4> QED  BY <1>11, <2>3, <3>1, <3>2, <3>4, <4>2 DEF Embedded
    <3> QED  BY <1>6, <3>1, <3>3, <3>4
  <2> QED  BY <2>2, <2>3
(* No stranger in the tree has a lock that conflicts with the new one.        *)
<1>18. ASSUME NEW ie \in Embedded("BYTE"), \A i \in 1..3 : key[i] # entry[ie].key[i],
              ~Conflicting(key, lock), NEW m1 \in Range(entry[ie].locks), m1 \in Locks,
              ShareByte(m1, lock)
       PROVE  m1.type = "READ" /\ lock.type = "READ"
  <2>1. Len(key) = 3 /\ \A i \in 1..3 : key[i] # None
    BY <1>1, LockKeys DEF LockUses
  <2>2. ~Matches(key, entry[ie].key)
    BY <1>18, <2>1 DEF Matches
  <2>3. ~LocksConflict(m1, lock)
    BY <1>18, <2>2 DEF Conflicting
  <2>4. Overlaps(m1.range, lock.range)
    BY <1>18, OverlapIsSharing
  <2>5. m1.type \in {"READ", "WRITE"} /\ lock.type \in {"READ", "WRITE"}
    BY <1>18 DEF Locks
  <2> QED  BY <2>3, <2>4, <2>5 DEF LocksConflict
<1>19. StrangersLocksCompatible'
  <2> SUFFICES ASSUME NEW id \in Embedded("BYTE")', NEW ie \in Embedded("BYTE")',
                      \A i \in 1..3 : entry'[id].key[i] # entry'[ie].key[i],
                      NEW l \in Range(entry'[id].locks), NEW m1 \in Range(entry'[ie].locks),
                      ShareByte(l, m1)
               PROVE  l.type = "READ" /\ m1.type = "READ"
    BY DEF StrangersLocksCompatible
  <2>1. id # ie
    OBVIOUS
  <2>2. l \in Locks /\ m1 \in Locks /\ ShareByte(m1, l)
    BY <1>17, SharingIsMutual
  <2>3. CASE id = b /\ l = lock /\ ~Conflicting(key, lock)
    <3>1. ie \in Embedded("BYTE") /\ m1 \in Range(entry[ie].locks) /\ entry'[ie].key = entry[ie].key
          /\ entry'[id].key = key
      BY <1>17, <2>1, <2>3
    <3>2. \A i \in 1..3 : key[i] # entry[ie].key[i]
      BY <3>1
    <3> QED  BY <1>18, <2>2, <2>3, <3>1, <3>2
  <2>4. CASE ie = b /\ m1 = lock /\ ~Conflicting(key, lock)
    <3>1. id \in Embedded("BYTE") /\ l \in Range(entry[id].locks) /\ entry'[id].key = entry[id].key
          /\ entry'[ie].key = key
      BY <1>17, <2>1, <2>4
    <3>2. \A i \in 1..3 : key[i] # entry[id].key[i]
      BY <3>1
    <3> QED  BY <1>18, <2>2, <2>4, <3>1, <3>2
  <2>5. CASE /\ id \in Embedded("BYTE") /\ l \in Range(entry[id].locks)
             /\ ie \in Embedded("BYTE") /\ m1 \in Range(entry[ie].locks)
    <3>1. entry'[id].key = entry[id].key /\ entry'[ie].key = entry[ie].key
      BY <1>11, <1>13, <1>17, <2>5 DEF Embedded
    <3>2. \A i \in 1..3 : entry[id].key[i] # entry[ie].key[i]
      BY <3>1
    <3> QED  BY <2>5, <3>2 DEF IInv, LocksAreSound, StrangersLocksCompatible
  <2> QED  BY <1>17, <2>3, <2>4, <2>5
<1>20. SharesStay
  <2>1. DOMAIN entry' = Ids'
    BY <1>12, IdsStay DEF IInv
  <2> QED  BY <1>7, <1>8, <1>9, <1>10, <2>1 DEF SharesStay, ShareIds
<1> QED  BY <1>14, <1>15, <1>16, <1>19, <1>20 DEF IInv, LocksAreSound

-----------------------------------------------------------------------------
(* OPEN                                                                       *)

Extends(g, es, type, key) ==
  /\ g.es \in Seq(Entries) /\ Len(es) <= Len(g.es)
  /\ \A id \in 1..Len(es) : g.es[id] = es[id]
  /\ g.id \in 1..Len(g.es) /\ g.es[g.id].type = type /\ g.es[g.id].key = key
  /\ g.id \in 1..Len(es) => g.id \in tree
  /\ \A id \in 1..Len(g.es) :
       id \in 1..Len(es) \/ (id = g.id /\ g.es[id] = NewEntry(type, key))

LEMMA GrabExtends ==
  ASSUME TypeOK, NEW type \in Types, NEW key \in Keys, NEW es \in Seq(Entries),
         Len(entry) <= Len(es), \A id \in Ids : es[id] = entry[id],
         NEW g, g = Grab(type, key, es)
  PROVE  Extends(g, es, type, key)
<1>1. PICK n \in Nat : n = Len(es)
  OBVIOUS
<1>2. CASE g.es = es /\ g.id \in AtKey(type, key)
  <2>1. g.id \in Ids /\ g.id \in tree /\ entry[g.id].type = type /\ entry[g.id].key = key
    BY <1>2 DEF AtKey, Embedded, TypeOK
  <2>2. PICK m \in Nat : m = Len(entry) /\ Ids = 1..m
    BY DEF TypeOK, Ids
  <2>3. g.id \in 1..n /\ n <= n
    BY <1>1, <2>1, <2>2
  <2> QED  BY <1>1, <1>2, <2>1, <2>3 DEF Extends
<1>3. CASE g.es = Append(es, NewEntry(type, key)) /\ g.id = n + 1
  <2> PICK e : e = NewEntry(type, key)
    OBVIOUS
  <2>1. e \in Entries
    BY NewEntryOK
  <2>2. e.type = type /\ e.key = key
    BY DEF NewEntry
  <2>3. /\ Append(es, e) \in Seq(Entries) /\ Len(Append(es, e)) = Len(es) + 1
        /\ Append(es, e)[Len(es) + 1] = e
        /\ \A id \in 1..Len(es) : Append(es, e)[id] = es[id]
    BY <2>1, Appended
  <2>4. g.es \in Seq(Entries) /\ Len(g.es) = n + 1 /\ g.es[n + 1] = e
        /\ \A id \in 1..n : g.es[id] = es[id]
    BY <1>1, <1>3, <2>3
  <2>5. n <= n + 1 /\ n + 1 \in 1..(n + 1) /\ n + 1 \notin 1..n
        /\ \A id \in 1..(n + 1) : id \in 1..n \/ id = n + 1
    BY <1>1
  <2> QED  BY <1>1, <1>3, <2>2, <2>4, <2>5 DEF Extends
<1> QED  BY <1>1, <1>2, <1>3, Grabbed

(* An OPEN changes one entry, that of its owner, or makes it; what else is    *)
(* new is a delegation.                                                       *)
OpensAs(n, access, deny) ==
  /\ EntriesStay
  /\ n \in Ids' /\ entry'[n].type = "SHARE"
  /\ \A id \in Ids : id # n => entry'[id] = entry[id]
  /\ n \in Ids => /\ n \in tree /\ entry'[n].locks = entry[n].locks
                  /\ entry'[n].access = entry[n].access \cup access
                  /\ entry'[n].deny = entry[n].deny \cup deny
  /\ n \notin Ids => entry'[n].access = access /\ entry'[n].deny = deny
  /\ \A id \in Ids' : \/ id \in Ids
                      \/ /\ entry'[id].locks = <<>> /\ KeyOK(entry[id])'
                         /\ id = n \/ entry'[id].type = "DELEG"
  /\ tree' \subseteq tree \cup {n} \cup (Ids' \ Ids)

LEMMA OpenEffect ==
  ASSUME IInv, NEW t \in Threads, NEW owner \in Owners, NEW access \in SUBSET Modes,
         NEW deny \in SUBSET Modes, NEW want \in BOOLEAN, OpenGranted(t, owner, access, deny, want)
  PROVE  \E n : OpensAs(n, access, deny)
<1> PICK c : c = thread[t].client
  OBVIOUS
<1> PICK sk : sk = <<c, owner>>
  OBVIOUS
<1> PICK dk : dk = <<c>>
  OBVIOUS
<1> PICK share : share = Grab("SHARE", sk, entry)
  OBVIOUS
<1> PICK deleg : deleg = Grab("DELEG", dk, share.es)
  OBVIOUS
<1> PICK n : n = share.id
  OBVIOUS
<1>1. PICK es, d :
        /\ \/ es = share.es /\ d = n
           \/ es = deleg.es /\ d = deleg.id
        /\ entry' = AddShare(n, access, deny, es)
        /\ tree' \subseteq tree \cup {n, d}
  <2>1. CASE want /\ "W" \notin access
    <3>1. /\ entry' = AddShare(n, access, deny, deleg.es)
          /\ tree' \subseteq tree \cup {n, deleg.id}
      BY <2>1 DEF OpenGranted
    <3> QED  BY <3>1
  <2>2. CASE ~(want /\ "W" \notin access)
    <3>1. entry' = AddShare(n, access, deny, share.es) /\ tree' \subseteq tree \cup {n, n}
      BY <2>2 DEF OpenGranted
    <3> QED  BY <3>1
  <2> QED  BY <2>1, <2>2
<1>2. /\ c \in Clients /\ sk \in ShareKeys /\ dk \in DelegKeys
      /\ sk \in Keys /\ dk \in Keys /\ "SHARE" \in Types /\ "DELEG" \in Types
  <2>1. thread[t] \in ThreadStates /\ thread[t].pc = "open"
    BY DEF OpenGranted, IInv, TypeOK
  <2>2. c \in Clients
    BY <2>1 DEF ThreadStates
  <2> QED  BY <2>2 DEF ShareKeys, DelegKeys, Keys, Types
<1>3. PICK k \in Nat : k = Len(entry) /\ Ids = 1..k /\ entry \in Seq(Entries) /\ k <= k
  BY DEF IInv, TypeOK, Ids
<1>4. /\ share.es \in Seq(Entries) /\ k <= Len(share.es)
      /\ \A id \in 1..k : share.es[id] = entry[id]
      /\ n \in 1..Len(share.es) /\ share.es[n].type = "SHARE"
      /\ n \in 1..k => n \in tree
      /\ \A id \in 1..Len(share.es) :
           id \in 1..k \/ (id = n /\ share.es[id] = NewEntry("SHARE", sk))
  <2>1. Len(entry) <= Len(entry) /\ (\A id \in Ids : entry[id] = entry[id]) /\ TypeOK
    BY <1>3 DEF IInv
  <2>2. Extends(share, entry, "SHARE", sk)
    BY <1>2, <1>3, <2>1, GrabExtends
  <2> QED  BY <1>3, <2>2 DEF Extends
<1>5. PICK m \in Nat : m = Len(share.es) /\ k <= m /\ m <= m
  BY <1>4
<1>6. /\ deleg.es \in Seq(Entries) /\ m <= Len(deleg.es)
      /\ \A id \in 1..m : deleg.es[id] = share.es[id]
      /\ deleg.id \in 1..Len(deleg.es)
      /\ deleg.id \in 1..m => deleg.id \in tree
      /\ \A id \in 1..Len(deleg.es) :
           id \in 1..m \/ (id = deleg.id /\ deleg.es[id] = NewEntry("DELEG", dk))
  <2>1. /\ Len(entry) <= Len(share.es) /\ (\A id \in Ids : share.es[id] = entry[id])
        /\ TypeOK /\ share.es \in Seq(Entries)
    BY <1>3, <1>4 DEF IInv
  <2>2. Extends(deleg, share.es, "DELEG", dk)
    BY <1>2, <2>1, GrabExtends
  <2> QED  BY <1>5, <2>2 DEF Extends
(* Both grabs together.                                                       *)
<1>7. PICK p \in Nat :
        /\ es \in Seq(Entries) /\ p = Len(es) /\ m <= p
        /\ \A id \in 1..m : es[id] = share.es[id]
        /\ d \in 1..p /\ (d \in 1..m => d = n \/ d \in tree)
        /\ \A id \in 1..p : id \in 1..m \/ es[id] = NewEntry("DELEG", dk)
  <2>1. CASE es = share.es /\ d = n
    BY <1>4, <1>5, <2>1
  <2>2. CASE es = deleg.es /\ d = deleg.id
    BY SMTT(40), <1>6, <2>2
  <2> QED  BY <1>1, <2>1, <2>2
<1>8. 1..k \subseteq 1..m /\ 1..m \subseteq 1..p /\ n \in 1..m /\ k <= p
  <2>1. n \in 1..m
    BY <1>4, <1>5
  <2>2. k <= m /\ m <= p
    BY <1>5, <1>7
  <2> QED  BY <2>1, <2>2
<1>9. es[n] \in Entries /\ es[n].type = "SHARE" /\ DOMAIN es = 1..p /\ n \in 1..p
  <2>1. es \in Seq(Entries) /\ Len(es) = p
    BY <1>7
  <2>2. DOMAIN es = 1..p /\ \A id \in 1..p : es[id] \in Entries
    BY <2>1
  <2>3. n \in 1..p /\ n \in 1..m
    BY <1>8
  <2>4. es[n] = share.es[n]
    BY <1>7, <2>3
  <2>5. es[n].type = "SHARE"
    BY <1>4, <2>4
  <2> QED  BY <2>2, <2>3, <2>5
<1>10. PICK e \in Entries :
         /\ entry' = [es EXCEPT ![n] = e]
         /\ e.type = "SHARE" /\ e.key = es[n].key /\ e.locks = es[n].locks
         /\ e.access = es[n].access \cup access /\ e.deny = es[n].deny \cup deny
  <2> PICK e : e = [es[n] EXCEPT !.access = @ \cup access, !.deny = @ \cup deny]
    OBVIOUS
  <2>1. e \in Entries /\ e.type = "SHARE" /\ e.key = es[n].key /\ e.locks = es[n].locks
        /\ e.access = es[n].access \cup access /\ e.deny = es[n].deny \cup deny
    BY ZenonT(40), <1>9 DEF Entries
  <2>2. entry' = [es EXCEPT ![n] = e]
    BY <1>1 DEF AddShare
  <2> QED  BY <2>1, <2>2
<1>12. /\ entry' \in Seq(Entries) /\ Len(entry') = p /\ entry'[n] = e
       /\ \A id \in 1..p : id # n => entry'[id] = es[id]
  <2>1. n \in DOMAIN es /\ DOMAIN es = 1..p
    BY <1>9
  <2>2. /\ [es EXCEPT ![n] = e] \in Seq(Entries) /\ Len([es EXCEPT ![n] = e]) = Len(es)
        /\ [es EXCEPT ![n] = e][n] = e
        /\ \A id \in DOMAIN es : id # n => [es EXCEPT ![n] = e][id] = es[id]
    <3>1. es \in Seq(Entries) /\ e \in Entries
      BY <1>7, <1>10
    <3> QED  BY <2>1, <3>1, Replaced
  <2> QED  BY <1>7, <1>10, <2>1, <2>2
<1>13. Ids' = 1..p
  BY <1>12 DEF Ids
<1>14. ASSUME NEW id \in Ids, id # n
       PROVE  entry'[id] = entry[id]
  <2>1. id \in 1..k /\ id \in 1..m /\ id \in 1..p
    BY <1>3, <1>8
  <2>2. entry'[id] = es[id] /\ es[id] = share.es[id] /\ share.es[id] = entry[id]
    BY <1>4, <1>7, <1>12, <1>14, <2>1
  <2> QED  BY <2>2
<1>15. n \in Ids => es[n] = entry[n] /\ n \in tree
  BY <1>3, <1>4, <1>7, <1>8
<1>16. EntriesStay
  <2>1. Len(entry) <= Len(entry')
    BY <1>3, <1>8, <1>12
  <2>2. n \in Ids => entry'[n].type = entry[n].type /\ entry'[n].key = entry[n].key
    <3>1. entry'[n] = e /\ e.type = es[n].type /\ e.key = es[n].key
      BY <1>9, <1>10, <1>12
    <3> QED  BY <1>15, <3>1
  <2> QED  BY <1>12, <1>14, <2>1, <2>2 DEF EntriesStay
<1>17. n \notin Ids => es[n] = NewEntry("SHARE", sk)
  BY <1>3, <1>4, <1>7, <1>8
<1>18. n \notin Ids => e.access = access /\ e.deny = deny /\ e.locks = <<>> /\ e.key = sk
  BY SMTT(40), <1>10, <1>17 DEF NewEntry
<1>19. ASSUME NEW id \in Ids', id \notin Ids
       PROVE  /\ entry'[id].locks = <<>> /\ KeyOK(entry[id])'
              /\ id = n \/ entry'[id].type = "DELEG"
  <2>1. CASE id = n
    BY <1>2, <1>10, <1>12, <1>18, <1>19, <2>1 DEF KeyOK
  <2>2. CASE id # n
    <3>1. entry'[id] = NewEntry("DELEG", dk)
      BY <1>3, <1>4, <1>5, <1>7, <1>12, <1>13, <1>19, <2>2
    <3> QED  BY <1>2, <3>1 DEF KeyOK, NewEntry
  <2> QED  BY <2>1, <2>2
<1>20. tree' \subseteq tree \cup {n} \cup (Ids' \ Ids)
  <2>1. d \in 1..m => d = n \/ d \in tree
    BY <1>7
  <2>2. d \in Ids' /\ (d \in Ids => d \in 1..m)
    BY <1>3, <1>7, <1>8, <1>13
  <2> QED  BY <1>1, <2>1, <2>2
<1>21. OpensAs(n, access, deny)
  BY <1>8, <1>10, <1>12, <1>13, <1>14, <1>15, <1>16, <1>18, <1>19, <1>20 DEF OpensAs
<1> QED  BY <1>21

\* An OPEN may get or deny access in the face of the delegations there are.
DelegsAllow(id) ==
  LET before == IF id \in Ids THEN entry[id] ELSE NewEntry("SHARE", <<>>)
  IN ("W" \in entry'[id].access \ before.access \/ "R" \in entry'[id].deny \ before.deny)
       => Embedded("DELEG") = {}

LEMMA OpenGrantedStep ==
  ASSUME IInv, workload' = workload, NEW t \in Threads, NEW owner \in Owners,
         NEW access \in SUBSET Modes, NEW deny \in SUBSET Modes, NEW want \in BOOLEAN,
         OpenGranted(t, owner, access, deny, want)
  PROVE  IInv' /\ \A id \in ShareIds(entry') : DelegsAllow(id)
<1>1. PICK n : OpensAs(n, access, deny)
  BY OpenEffect
<1>2. /\ EntriesStay /\ Ids \subseteq Ids' /\ Ids' = DOMAIN entry'
      /\ tree \subseteq Ids /\ tree' \subseteq Ids'
  <2>1. EntriesStay /\ tree \subseteq Ids
    BY <1>1 DEF OpensAs, IInv, TypeOK
  <2>2. Ids \subseteq Ids' /\ Ids' = DOMAIN entry'
    BY <2>1, IdsStay DEF IInv
  <2> QED  BY <1>1, <2>1, <2>2 DEF OpensAs
<1>3. /\ ~ShareConflict(access, deny) /\ ~DelegConflict(access, deny)
      /\ UNCHANGED <<anonWriters, stuck, gone>>
      /\ cache' = [Current EXCEPT !.valid = FALSE]
      /\ thread' = [thread EXCEPT ![t] = Idle]
  BY DEF OpenGranted
<1>4. cache' \in Caches /\ cache'.valid = FALSE
  <2>1. Current \in Caches
    BY CurrentIsComplete DEF IInv
  <2> QED  BY <1>3, <2>1 DEF Caches
<1>5. known' \in [Clients -> SUBSET Ids']
  <2> PICK c : c = thread[t].client
    OBVIOUS
  <2>1. PICK ids : tree' = tree \cup ids /\ known' = [known EXCEPT ![c] = @ \cup ids]
    BY DEF OpenGranted
  <2>2. ids \subseteq Ids'
    BY <1>2, <2>1
  <2>3. known \in [Clients -> SUBSET Ids']
    BY <1>2 DEF IInv, TypeOK
  <2> PICK k : k = [known EXCEPT ![c] = @ \cup ids]
    OBVIOUS
  <2>4. k = [d \in Clients |-> k[d]]
    BY <2>3
  <2>5. \A d \in Clients : k[d] \in SUBSET Ids'
    BY <2>2, <2>3
  <2>6. k \in [Clients -> SUBSET Ids']
    BY <2>4, <2>5
  <2> QED  BY <2>1, <2>6
<1>6. TypeOK'
  <2>1. /\ thread' \in [Threads -> ThreadStates]
        /\ \A u \in Threads : thread'[u] = thread[u] \/ ThreadOK(thread[u])'
    BY <1>3, BecomesIdle DEF IInv
  <2>2. \A id \in Ids' : id \in Ids \/ KeyOK(entry[id])'
    BY <1>1 DEF OpensAs
  <2> QED  BY <1>2, <1>3, <1>4, <1>5, <2>1, <2>2, TypesKept DEF IInv, TypeOK
(* The opens are those there were, and that of the owner with its new share.  *)
<1>7. ASSUME NEW id \in Embedded("SHARE")', id # n
      PROVE  id \in Embedded("SHARE") /\ entry'[id] = entry[id]
  <2>1. id \in tree' /\ entry'[id].type = "SHARE" /\ id \in Ids'
    BY <1>2 DEF Embedded
  <2>2. id \in Ids
    BY <1>1, <1>7, <2>1 DEF OpensAs
  <2> QED  BY <1>1, <1>7, <2>1, <2>2 DEF OpensAs, Embedded
<1>8. \/ /\ n \in Embedded("SHARE") /\ n \in Ids
         /\ entry'[n].access = entry[n].access \cup access
         /\ entry'[n].deny = entry[n].deny \cup deny
      \/ n \notin Ids /\ entry'[n].access = access /\ entry'[n].deny = deny
  BY <1>1 DEF OpensAs, Embedded, EntriesStay
<1>9. ASSUME NEW id \in Embedded("SHARE")
      PROVE  access \cap entry[id].deny = {} /\ deny \cap entry[id].access = {}
  BY <1>3, CurrentIsComplete DEF IInv, ShareConflict
<1>10. CacheOK'
  BY <1>4 DEF CacheOK
<1>11. SharesCompatible'
  <2> SUFFICES ASSUME NEW id \in Embedded("SHARE")', NEW ie \in Embedded("SHARE")', id # ie
               PROVE  entry'[id].access \cap entry'[ie].deny = {}
    BY DEF SharesCompatible
  <2>1. \A x, y \in Embedded("SHARE") : x # y => entry[x].access \cap entry[y].deny = {}
    BY DEF IInv, SharesCompatible
  <2>2. CASE id = n
    <3>1. ie \in Embedded("SHARE") /\ entry'[ie] = entry[ie]
      BY <1>7, <2>2
    <3> QED  BY <1>8, <1>9, <2>1, <2>2, <3>1
  <2>3. CASE ie = n
    <3>1. id \in Embedded("SHARE") /\ entry'[id] = entry[id]
      BY <1>7, <2>3
    <3> QED  BY <1>8, <1>9, <2>1, <2>3, <3>1
  <2>4. CASE id # n /\ ie # n
    BY <1>7, <2>1, <2>4
  <2> QED  BY <2>2, <2>3, <2>4
<1>12. AnonWriteExcludesDeny'
  <2> SUFFICES ASSUME anonWriters > 0, NEW id \in Embedded("SHARE")'
               PROVE  "W" \notin entry'[id].deny
    BY <1>3 DEF AnonWriteExcludesDeny
  <2>1. \A x \in Embedded("SHARE") : "W" \notin entry[x].deny
    BY DEF IInv, AnonWriteExcludesDeny
  <2>2. "W" \notin deny
    BY <1>3 DEF ShareConflict
  <2>3. CASE id = n
    BY <1>8, <2>1, <2>2, <2>3
  <2>4. CASE id # n
    BY <1>7, <2>1, <2>4
  <2> QED  BY <2>3, <2>4
<1>13. LocksAreSound'
  <2>1. \A id \in Ids : Disjoint(entry[id].locks)
    BY DEF IInv, LocksAreSound, OwnLocksDisjoint, Disjoint
  <2>2. ASSUME NEW id \in Embedded("BYTE")'
        PROVE  entry'[id].locks = <<>> \/ id \in Embedded("BYTE")
    <3>1. id \in tree' /\ entry'[id].type = "BYTE" /\ id # n /\ id \in Ids'
      BY <1>1, <1>2 DEF Embedded, OpensAs
    <3> QED  BY <1>1, <3>1 DEF Embedded, OpensAs
  <2>3. ASSUME NEW id \in Ids'
        PROVE  \/ entry'[id].locks = <<>>
               \/ /\ id \in Ids /\ Range(entry'[id].locks) \subseteq Range(entry[id].locks)
                  /\ Disjoint(entry'[id].locks)
    <3>1. CASE id \notin Ids
      BY <1>1, <3>1 DEF OpensAs
    <3>2. CASE id \in Ids
      <4>1. entry'[id].locks = entry[id].locks
        BY <1>1, <3>2 DEF OpensAs
      <4> QED  BY <2>1, <3>2, <4>1
    <3> QED  BY <3>1, <3>2
  <2> QED  BY <1>2, <2>2, <2>3, LocksKept DEF IInv
<1>14. ASSUME NEW id \in ShareIds(entry')
       PROVE  DelegsAllow(id)
  <2>1. id \in Ids' /\ entry'[id].type = "SHARE"
    BY <1>2 DEF ShareIds
  <2>2. CASE id # n
    <3>1. id \in Ids /\ entry'[id] = entry[id]
      BY <1>1, <2>1, <2>2 DEF OpensAs
    <3> QED  BY <3>1 DEF DelegsAllow
  <2>3. CASE id = n /\ n \in Ids
    BY <1>3, <1>8, <2>3 DEF DelegsAllow, DelegConflict
  <2>4. CASE id = n /\ n \notin Ids
    BY <1>3, <1>8, <2>4 DEF DelegsAllow, DelegConflict
  <2> QED  BY <2>2, <2>3, <2>4
<1> QED  BY <1>6, <1>10, <1>11, <1>12, <1>13, <1>14 DEF IInv

-----------------------------------------------------------------------------
(* The theorems                                                               *)

LEMMA InitIInv == Init => IInv
<1> SUFFICES ASSUME Init
             PROVE  IInv
  OBVIOUS
<1>1. entry = <<>> /\ Len(entry) = 0 /\ entry \in Seq(Entries) /\ Ids = {} /\ tree = {}
  BY DEF Init, Ids
<1>2. cache \in Caches
  BY DEF Init, Caches
<1>3. Idle \in ThreadStates /\ Idle.pc = "idle"
  BY DEF Idle, ThreadStates
<1>4. thread \in [Threads -> ThreadStates] /\ \A t \in Threads : ThreadOK(thread[t])
  BY <1>3 DEF Init, ThreadOK
<1>5. TypeOK
  <2>1. known \in [Clients -> SUBSET Ids]
    BY DEF Init
  <2>2. workload \in Workloads /\ anonWriters \in Int /\ gone \in SUBSET Clients
    <3>1. workload \in Workloads /\ anonWriters = 0 /\ gone = {}
      BY DEF Init
    <3> QED  BY <3>1
  <2>4. stuck \in BOOLEAN
    <3>1. stuck = FALSE
      BY DEF Init
    <3> QED  BY <3>1
  <2>3. tree \in SUBSET Ids /\ \A id \in Ids : KeyOK(entry[id])
    BY <1>1
  <2> QED  BY <1>1, <1>2, <1>4, <2>1, <2>2, <2>3, <2>4 DEF TypeOK
<1>6. \A type \in Types : Embedded(type) = {}
  BY <1>1 DEF Embedded
<1>7. CacheOK /\ SharesCompatible /\ AnonWriteExcludesDeny
  BY <1>6 DEF Types, CacheOK, SharesCompatible, AnonWriteExcludesDeny
<1>8. LocksAreSound
  BY <1>1, <1>6 DEF Types, LocksAreSound, StrangersLocksCompatible, OwnLocksDisjoint
<1> QED  BY <1>5, <1>7, <1>8 DEF IInv

LEMMA SharesStayAllowed ==
  ASSUME SharesStay, NEW id \in ShareIds(entry')
  PROVE  DelegsAllow(id)
BY DEF SharesStay, DelegsAllow

(* Every step keeps the invariant, and lets opens get and deny access only    *)
(* when the delegations allow it.                                             *)
LEMMA Step ==
  ASSUME IInv, [Next]_vars
  PROVE  IInv' /\ \A id \in ShareIds(entry') : DelegsAllow(id)
<1>1. CASE UNCHANGED vars
  <2>1. /\ workload' = workload /\ entry' = entry /\ tree' = tree /\ known' = known /\ cache' = cache
        /\ anonWriters' = anonWriters /\ stuck' = stuck /\ gone' = gone /\ thread' = thread
    BY <1>1 DEF vars
  <2>2. IInv' /\ SharesStay
    BY <2>1, QuietStep DEF IInv, TypeOK
  <2> QED  BY <2>2, SharesStayAllowed
<1>2. CASE Next
  <2>0. /\ workload' = workload
        /\ workload.threads \subseteq Threads /\ workload.owners \subseteq Owners
        /\ workload.lockOwners \subseteq LockOwners /\ workload.ranges \subseteq Ranges
        /\ \A s \in workload.shares :
              s.access \in SUBSET Modes /\ s.deny \in SUBSET Modes /\ s.want \in BOOLEAN
    BY <1>2, Workload DEF Next, IInv, TypeOK
  <2> SUFFICES ASSUME ~(IInv' /\ \A id \in ShareIds(entry') : DelegsAllow(id))
               PROVE  FALSE
    OBVIOUS
  <2>1. ~(IInv' /\ SharesStay)
    BY SharesStayAllowed
  <2>2. ASSUME NEW t \in workload.threads, NEW c \in Clients, OpenFile(t, c)
        PROVE  FALSE
    BY <2>0, <2>1, <2>2, OpenFileStep
  <2>3. ASSUME NEW t \in workload.threads, Open(t)
        PROVE  FALSE
    <3>1. t \in Threads
      BY <2>0
    <3>2. PICK s \in workload.shares :
            \/ OpenDenied(t, s.access, s.deny) \/ OpenDelayed(t, s.access, s.deny)
            \/ \E o \in workload.owners : OpenGranted(t, o, s.access, s.deny, s.want)
      BY <2>3 DEF Open
    <3>3. CASE OpenDenied(t, s.access, s.deny) \/ OpenDelayed(t, s.access, s.deny)
      BY <2>0, <2>1, <3>1, <3>3, OpenRefusedStep
    <3>4. CASE \E o \in workload.owners : OpenGranted(t, o, s.access, s.deny, s.want)
      <4>1. PICK o \in Owners : OpenGranted(t, o, s.access, s.deny, s.want)
        BY <2>0, <3>4
      <4>2. s.access \in SUBSET Modes /\ s.deny \in SUBSET Modes /\ s.want \in BOOLEAN
        BY <2>0
      <4> QED  BY <2>0, <3>1, <4>1, <4>2, OpenGrantedStep
    <3> QED  BY <3>2, <3>3, <3>4
  <2>4. ASSUME NEW t \in workload.threads, Setattr(t)
        PROVE  FALSE
    BY <2>0, <2>1, <2>4, SetattrBeginsStep, QuietThreadStep DEF Setattr
  <2>5. ASSUME NEW t \in workload.threads, LockSteps(t)
        PROVE  FALSE
    <3>1. t \in Threads
      BY <2>0
    <3>2. PICK range \in Ranges :
            \/ \E o \in LockOwners, type \in {"READ", "WRITE"} : AddLock(t, o, Lock(type, range))
            \/ RemoveLock(t, range)
      BY <2>0, <2>5 DEF LockSteps
    <3>3. ASSUME NEW o \in LockOwners, NEW type \in {"READ", "WRITE"},
                 AddLock(t, o, Lock(type, range))
          PROVE  FALSE
      <4>1. Lock(type, range) \in Locks
        BY DEF Lock, Locks
      <4> QED  BY <2>0, <2>1, <3>1, <3>3, <4>1, AddLockStep
    <3>4. CASE RemoveLock(t, range)
      BY <2>0, <2>1, <3>1, <3>4, RemoveLockStep
    <3> QED  BY <3>2, <3>3, <3>4
  <2>6. ASSUME NEW t \in workload.threads, RebootSteps(t)
        PROVE  FALSE
    BY <2>0, <2>1, <2>6, RebootBeginsStep, RebootDeletesStep, RebootEndsStep DEF RebootSteps
  <2>7. ASSUME NEW t \in workload.threads, NEW id \in Ids, NEW op \in Operations(id),
               FindState(t, id, op)
        PROVE  FALSE
    BY <2>0, <2>1, <2>7, FindStateStep
  <2>8. ASSUME NEW t \in workload.threads,
               TestShare(t) \/ FoundInvalid(t) \/ ReadOrWrite(t) \/ Close(t) \/ DelegReturn(t)
        PROVE  FALSE
    BY <2>0, <2>1, <2>8, QuietThreadStep, CloseStep, DelegReturnStep
  <2>9. ASSUME NEW id \in Ids, Recall(id)
        PROVE  FALSE
    BY <2>0, <2>1, <2>9, RecallStep
  <2> QED  BY <1>2, <2>2, <2>3, <2>4, <2>5, <2>6, <2>7, <2>8, <2>9 DEF Next
<1> QED  BY <1>1, <1>2

(* In every reachable state the variables have their types, the lists of      *)
(* locks and the shares are sound, and a valid cache leaves out no open.      *)
THEOREM Invariance == Spec => []IInv
<1>1. Init => IInv
  BY InitIInv
<1>2. IInv /\ [Next]_vars => IInv'
  BY Step
<1> QED  BY <1>1, <1>2, PTL DEF Spec

(* No two opens of the file deny each other, though OPEN tests a new one      *)
(* against a cached union of all shares that closes do not reset.             *)
THEOREM OpensAreCompatible == Spec => []SharesCompatible
<1>1. IInv => SharesCompatible
  BY DEF IInv
<1> QED  BY <1>1, Invariance, PTL

(* While SETATTR changes the file without the lock, no open denies writing.   *)
THEOREM NoOpenDeniesTheWriter == Spec => []AnonWriteExcludesDeny
<1>1. IInv => AnonWriteExcludesDeny
  BY DEF IInv
<1> QED  BY <1>1, Invariance, PTL

(* Owners with no name in common never hold conflicting locks, and the locks  *)
(* of one owner are disjoint, for any ranges and any number of owners.        *)
THEOREM LocksStaySound == Spec => []LocksAreSound
<1>1. IInv => LocksAreSound
  BY DEF IInv
<1> QED  BY <1>1, Invariance, PTL

(* An open gets or denies access only when no delegation is out that minds.   *)
THEOREM OpensWaitForDelegs == Spec => OpenWaitsForDelegs
<1>1. IInv /\ [Next]_vars =>
        [\A id \in ShareIds(entry') :
           LET before == IF id \in Ids THEN entry[id] ELSE NewEntry("SHARE", <<>>)
           IN ("W" \in entry'[id].access \ before.access \/ "R" \in entry'[id].deny \ before.deny)
                => Embedded("DELEG") = {}]_vars
  BY Step DEF DelegsAllow
<1> QED  BY <1>1, Invariance, PTL DEF Spec, OpenWaitsForDelegs
=============================================================================
