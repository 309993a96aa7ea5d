-------------------------- MODULE FileSystem41_proofs --------------------------
(* Proofs about FileSystem41, for any number of threads, names, objects,      *)
(* requests and crashes.                                                      *)
EXTENDS FileSystem41, SequenceTheorems, FiniteSetTheorems, TLAPS

-----------------------------------------------------------------------------
(* Object ids                                                                 *)

\* Ids were given out up to the one on disk, and the server goes on from there.
NextIdOK ==
  /\ diskNextid \in Nat
  /\ up => nextid = diskNextid
  /\ ~up => \A t \in Threads : thread[t].todo = <<>>
  /\ \A i \in given : i \in Nat /\ i <= diskNextid

(* No id is given to two objects, though the server forgets the first in a    *)
(* crash: alloc_id writes the next id to disk before it gives it out.  This   *)
(* holds whichever requests overlap.                                          *)
THEOREM NoIdIsReused == Spec => []IdsNeverReused
<1>1. Init => NextIdOK
  BY DEF Init, NextIdOK, Dir, Idle
<1>2. NextIdOK /\ [Next]_vars => NextIdOK'
  <2> SUFFICES ASSUME NextIdOK, [Next]_vars
               PROVE  NextIdOK'
    OBVIOUS
  <2>1. CASE UNCHANGED vars
    BY <2>1 DEF vars, NextIdOK
  <2>2. ASSUME NEW t \in Threads, Alloc(t)
        PROVE  NextIdOK'
    <3>1. thread[t].todo # <<>>
      BY <2>2 DEF Alloc, At
    <3>2. up
      BY <3>1 DEF NextIdOK
    <3> QED  BY <2>2, <3>2 DEF Alloc, NextIdOK
  <2>3. ASSUME NEW t \in Threads, Step(t), ~Alloc(t)
        PROVE  NextIdOK'
    <3>1. UNCHANGED <<up, nextid, diskNextid, given>>
      BY <2>3 DEF Step, CheckAbsent, Find, Load, ChooseOpen, Replace, LinkEntry, LinkRefcnt,
                  UnlinkCount, UnlinkDelete, Write, SyncBegin, SyncStore, SyncMark, Finish,
                  memory, onDisk, history
    <3>2. CASE thread[t].todo = <<>>
      <4>1. Finish(t)
        BY <2>3, <3>2 DEF Step, CheckAbsent, Find, Load, ChooseOpen, Replace, LinkEntry,
             LinkRefcnt, UnlinkCount, UnlinkDelete, Write, SyncBegin, SyncStore, SyncMark, At
      <4>2. ~up => thread'[t].todo = <<>> \/ thread'[t] = thread[t]
        BY <4>1 DEF Finish, Idle
      <4>3. \A u \in Threads : u # t => thread'[u] = thread[u]
        BY <4>1 DEF Finish
      <4> QED  BY <3>1, <3>2, <4>2, <4>3 DEF NextIdOK
    <3>3. CASE thread[t].todo # <<>>
      BY <3>1, <3>3 DEF NextIdOK
    <3> QED  BY <3>2, <3>3
  <2>4. ASSUME NEW t \in Threads, NEW op \in Kinds, NEW n \in Names, NEW to \in Names,
               NEW o \in Files \cup {NoId}, Begin(t, op, n, to, o)
        PROVE  NextIdOK'
    BY <2>4 DEF Begin, NextIdOK, memory, onDisk, history
  <2>5. CASE Crash
    BY <2>5 DEF Crash, NextIdOK, Idle, onDisk
  <2>6. CASE Restart
    BY <2>6 DEF Restart, NextIdOK, onDisk, history
  <2> QED  BY <2>1, <2>2, <2>3, <2>4, <2>5, <2>6 DEF Next
<1>3. NextIdOK => IdsNeverReused
  BY DEF NextIdOK, IdsNeverReused
<1> QED  BY <1>1, <1>2, <1>3, PTL DEF Spec

-----------------------------------------------------------------------------
(* The inductive invariant of the other properties: types                     *)

\* OPEN, REMOVE and RENAME, which lock nothing, run alone.
Locked == Overlap \cap {"open", "remove", "rename"} = {}

Syncs == {"sync", "store", "mark"}
Steps ==
  ({"absent", "alloc", "entry", "refcnt", "refcnt + 1", "handle", "find", "choose", "replace",
    "write", "target", "count", "delete"} \X Names)
    \cup (Syncs \X {"dir", "object", "target"})

\* The operations a step belongs to
Makers == {"create", "open"}
Writers == {"write", "commit"}
StepsOf(op) ==
  {s \in Steps :
     /\ s[1] = "alloc" => op \in Makers
     /\ s[1] = "choose" => op = "open"
     /\ s[1] = "replace" => op = "rename"
     /\ s[1] = "find" => op \in {"lookup", "rename"}
     /\ s[1] = "absent" => op \in {"create", "link"}
     /\ s[1] = "handle" => op \in Writers \cup {"link"}
     /\ s[1] \in {"entry", "refcnt", "refcnt + 1"} => op \in Makers \cup {"link", "rename"}
     /\ s[1] \in {"target", "count", "delete"} => op \in {"remove", "rename"}
     /\ s[1] = "write" => op = "write"
     /\ s[1] \in Syncs /\ s[2] = "dir" => op \in Makers \cup {"remove"}
     /\ s[1] \in Syncs /\ s[2] = "object" => op \in Makers \cup Writers
     /\ s[1] \in Syncs /\ s[2] = "target" => op \in {"remove", "rename"}}

\* Those a handler has not begun: SyncBegin puts the others in front.
PlanOf(op) == {s \in StepsOf(op) : s[1] \notin {"store", "mark"}}

FileIds == Files \cup {NoId}
Objects == [loaded : BOOLEAN, change : Nat, lastSync : Nat, refcnt : Int]
DiskObjects == [whole : BOOLEAN, change : Nat, refcnt : Int, version : Nat]
ThreadStates ==
  [op : Kinds \cup {"none"}, name : Names \cup {NoThread}, to : Names \cup {NoThread},
   id : FileIds, target : FileIds, saw : Int, todo : Seq(Steps), promises : BOOLEAN]

TypeOK ==
  /\ up \in BOOLEAN
  /\ entries \in [Names -> FileIds] /\ diskEntries \in [Names -> FileIds]
  /\ names \in [Names -> FileIds]
  /\ object \in [Ids -> Objects] /\ disk \in [Ids -> DiskObjects]
  /\ version \in [Ids -> Nat] /\ stable \in [Ids -> Nat]
  /\ regular \in SUBSET Files
  /\ thread \in [Threads -> ThreadStates]
  /\ \A t \in Threads : thread[t].todo \in Seq(StepsOf(thread[t].op))
  /\ \A t \in Threads : thread[t].todo # <<>> => Tail(thread[t].todo) \in Seq(PlanOf(thread[t].op))
  /\ \A t \in Threads : thread[t].op # "none" => thread[t].name \in Names /\ thread[t].to \in Names
  /\ diskLock \in Threads \cup {NoThread}
  /\ torn \in SUBSET Ids

-----------------------------------------------------------------------------
(* What is left to do                                                         *)

\* CREATE and OPEN
Entering(n) ==
  <<<<"entry", n>>, <<"refcnt", n>>, <<"refcnt + 1", n>>, <<"sync", "object">>, <<"sync", "dir">>>>
Entered(n) == <<<<"refcnt", n>>, <<"refcnt + 1", n>>, <<"sync", "object">>, <<"sync", "dir">>>>
Counting(n) == <<<<"refcnt + 1", n>>, <<"sync", "object">>, <<"sync", "dir">>>>
BothSyncs(s) == <<<<s, "object">>, <<"sync", "dir">>>>
DirSync(s) == <<<<s, "dir">>>>
Checking(n) == <<<<"absent", n>>>> \o Making(n)
Opening(n) == <<<<"choose", n>>>>

\* WRITE and COMMIT
FindToWrite(n) == <<<<"handle", n>>, <<"write", n>>>>
Writing(n) == <<<<"write", n>>>>
FindToSync(n) == <<<<"handle", n>>, <<"sync", "object">>>>
ObjectSync(s) == <<<<s, "object">>>>

-----------------------------------------------------------------------------
(* The inductive invariant of the other properties: memory and disk           *)

\* An object was written to disk, and a crash does not make it a new one.
Safe(o) == Readable(o) /\ (o = Dir \/ disk[o].change > 0) /\ o <= diskNextid

\* The disk has the data that memory has.
Stored(o) == object[o].loaded /\ disk[o].version = version[o] /\ Safe(o)

\* Threads that may still allocate an id
Allocators == {t \in Threads : thread[t].op \in Makers /\ thread[t].id = NoId}

IdsOK ==
  /\ diskNextid \in Nat /\ Dir <= diskNextid /\ diskNextid <= MaxId
  /\ up => nextid = diskNextid /\ nextid + Cardinality(Allocators) <= MaxId
  /\ ~up => diskLock = NoThread /\ \A t \in Threads : thread[t] = Idle
  /\ \A o \in Ids : object[o].loaded => o <= diskNextid
  /\ \A o \in regular : o <= diskNextid

\* Who runs beside whom
Exclusive ==
  \A t, u \in Threads : t # u /\ thread[t].op # "none" /\ thread[u].op # "none" =>
    /\ thread[t].op \in Overlap
    /\ thread[t].op \in {"create", "link"} => thread[u].op \notin {"create", "link", "lookup"}
    /\ thread[t].op \in Writers /\ thread[u].op \in Writers => thread[t].id # thread[u].id

\* Memory is not behind the disk, and where it says it is synced the disk has it.
LoadedOK(o) ==
  /\ disk[o].version <= version[o] /\ version[o] <= object[o].change
  /\ object[o].lastSync <= object[o].change
  /\ o # Dir => object[o].change > 0
  /\ object[o].lastSync = object[o].change => Stored(o)

MemoryOK ==
  /\ up => object[Dir].loaded
  /\ \A o \in Ids : object[o].loaded => LoadedOK(o)

DiskOK ==
  /\ Readable(Dir) /\ version[Dir] = 0 /\ disk[Dir].version = 0
  /\ \A o \in Ids : disk[o].version <= disk[o].change
  /\ \A o \in Files : disk[o].whole => disk[o].change > 0 /\ o <= diskNextid

LockOK ==
  /\ diskLock # NoThread => At(diskLock, "store")
  /\ \A t \in Threads : At(t, "store") => diskLock = t

StableOK == \A o \in Files : stable[o] > 0 => disk[o].version >= stable[o] /\ Safe(o)

\* Where a thread that makes a file is
Choosing(r) == r.todo \in {Checking(r.name), Making(r.name), Opening(r.name)}
Linked(r) ==
  r.todo \in {Entered(r.name), Counting(r.name)} \cup {BothSyncs(s) : s \in Syncs}
Written(r) == r.todo \in {DirSync(s) : s \in Syncs}
Made(r) == r.todo = <<>> /\ r.promises

MakerOK(r) ==
  /\ Choosing(r) \/ r.todo = Entering(r.name) \/ Linked(r) \/ Written(r) \/ r.todo = <<>>
  /\ Choosing(r) => r.id = NoId
  /\ r.todo = Entering(r.name) \/ Linked(r) \/ Written(r) \/ Made(r) => r.id # NoId
  /\ r.id # NoId => object[r.id].loaded
  /\ r.op = "create" => r.id \notin regular

WriterOK(r) ==
  /\ r.todo \in {FindToWrite(r.name), Writing(r.name), FindToSync(r.name), <<>>}
                  \cup {ObjectSync(s) : s \in Syncs}
  /\ r.todo \in {Writing(r.name)} \cup {ObjectSync(s) : s \in Syncs} => object[r.id].loaded
  /\ r.id \in regular
  /\ Made(r) => Stored(r.id)

ThreadOK(t) ==
  /\ At(t, "mark") /\ Synced(t) \in Ids => Stored(Synced(t))
  /\ thread[t].target # NoId => object[thread[t].target].loaded
  /\ thread[t].op \in Makers => MakerOK(thread[t])
  /\ thread[t].op \in Writers => WriterOK(thread[t])
  /\ thread[t].op = "link" => thread[t].id \in regular
  /\ thread[t].op = "rename" /\ thread[t].todo # <<>> => At(t, "find") \/ thread[t].id # NoId

ThreadsOK == \A t \in Threads : ThreadOK(t)

\* Everything but names
DataOK ==
  TypeOK /\ IdsOK /\ Exclusive /\ MemoryOK /\ DiskOK /\ LockOK /\ StableOK /\ ThreadsOK

-----------------------------------------------------------------------------
(* The inductive invariant of the other properties: names                     *)

DirStored == \A n \in Names : entries[n] # NoId => diskEntries[n] = entries[n]

\* Objects that are made, and not yet on disk
Unsaved(r) == r.op \in Makers /\ (r.todo = Entering(r.name) \/ Linked(r))
InMaking(o) == \E t \in Threads : Unsaved(thread[t]) /\ thread[t].id = o

NamerOK(r) ==
  /\ r.op \in Makers =>
       /\ r.todo \in {Making(r.name), Entering(r.name)} => entries[r.name] = NoId
       /\ Linked(r) \/ Written(r) \/ Made(r) => entries[r.name] = r.id
       /\ Written(r) \/ Made(r) => Safe(r.id)
       /\ Made(r) => diskEntries[r.name] = r.id
  /\ r.op = "rename" /\ r.todo # <<>> /\ Head(r.todo)[1] # "find" => r.id # NoId /\ Safe(r.id)
  /\ r.op = "link" /\ r.todo # <<>> /\ Head(r.todo)[1] # "handle" => r.id # NoId /\ Safe(r.id)

NamesOK ==
  /\ \A n \in Names : names[n] # NoId =>
       (up => entries[n] = names[n]) /\ diskEntries[n] = names[n] /\ Safe(names[n])
  /\ \A n \in Names : diskEntries[n] # NoId => Safe(diskEntries[n])
  /\ \A n \in Names : entries[n] # NoId => Safe(entries[n]) \/ InMaking(entries[n])
  /\ \A o \in Files : object[o].loaded => Safe(o) \/ InMaking(o)
  /\ up /\ object[Dir].lastSync = object[Dir].change => DirStored
  /\ \A t \in Threads : NamerOK(thread[t]) /\ (At(t, "mark") /\ Synced(t) = Dir => DirStored)

-----------------------------------------------------------------------------
(* Lemmas about sequences of steps                                            *)

\* Putting a step before others
LEMMA Before ==
  ASSUME NEW a, NEW b
  PROVE  <<a>> \o <<>> = <<a>> /\ <<a>> \o <<b>> = <<a, b>>
<1>1. <<a>> \in Seq({a, b}) /\ <<b>> \in Seq({a, b}) /\ <<a, b>> \in Seq({a, b})
      /\ <<a>> \o <<b>> \in Seq({a, b})
  OBVIOUS
<1>2. Len(<<a>> \o <<b>>) = 2 /\ Len(<<a, b>>) = 2
  OBVIOUS
<1>3. (<<a>> \o <<b>>)[1] = a /\ (<<a>> \o <<b>>)[2] = b
  BY <1>1, ConcatProperties
<1>4. \A i \in 1..2 : (<<a>> \o <<b>>)[i] = <<a, b>>[i]
  <2>1. \A i \in 1..2 : i = 1 \/ i = 2
    OBVIOUS
  <2> QED  BY <1>3, <2>1
<1>5. <<a>> \o <<b>> = <<a, b>>
  BY <1>1, <1>2, <1>4, SeqEqual
<1> QED  BY <1>1, <1>5, ConcatEmptySeq

LEMMA BeforeAll ==
  ASSUME NEW S, NEW a \in S, NEW q \in Seq(S)
  PROVE  /\ <<a>> \o q \in Seq(S) /\ <<a>> \o q # <<>>
         /\ Head(<<a>> \o q) = a /\ Tail(<<a>> \o q) = q
OBVIOUS

LEMMA MakingTails ==
  ASSUME NEW n
  PROVE  /\ Making(n) # <<>> /\ Head(Making(n)) = <<"alloc", n>> /\ Tail(Making(n)) = Entering(n)
         /\ Entering(n) # <<>> /\ Head(Entering(n)) = <<"entry", n>>
         /\ Tail(Entering(n)) = Entered(n)
         /\ Entered(n) # <<>> /\ Head(Entered(n)) = <<"refcnt", n>>
         /\ Tail(Entered(n)) = Counting(n)
         /\ Counting(n) # <<>> /\ Head(Counting(n)) = <<"refcnt + 1", n>>
         /\ Tail(Counting(n)) = BothSyncs("sync")
         /\ Opening(n) # <<>> /\ Head(Opening(n)) = <<"choose", n>>
         /\ Checking(n) # <<>> /\ Head(Checking(n)) = <<"absent", n>>
         /\ Tail(Checking(n)) = Making(n)
<1> DEFINE a == <<"alloc", n>>
           b == <<"entry", n>>
           c == <<"refcnt", n>>
           d == <<"refcnt + 1", n>>
           e == <<"sync", "object">>
           f == <<"sync", "dir">>
           g == <<"choose", n>>
           h == <<"absent", n>>
<1>1. /\ Making(n) = <<a, b, c, d, e, f>> /\ Entering(n) = <<b, c, d, e, f>>
      /\ Entered(n) = <<c, d, e, f>> /\ Counting(n) = <<d, e, f>>
      /\ BothSyncs("sync") = <<e, f>> /\ Opening(n) = <<g>> /\ Checking(n) = <<h>> \o Making(n)
  BY Zenon DEF Making, Entering, Entered, Counting, BothSyncs, Opening, Checking
<1> HIDE DEF a, b, c, d, e, f, g, h
<1>2. Making(n) # <<>> /\ Head(Making(n)) = a /\ Tail(Making(n)) = Entering(n)
  BY <1>1
<1>3. Entering(n) # <<>> /\ Head(Entering(n)) = b /\ Tail(Entering(n)) = Entered(n)
  BY <1>1
<1>4. Entered(n) # <<>> /\ Head(Entered(n)) = c /\ Tail(Entered(n)) = Counting(n)
  BY <1>1
<1>5. Counting(n) # <<>> /\ Head(Counting(n)) = d /\ Tail(Counting(n)) = BothSyncs("sync")
  BY <1>1
<1>6. Opening(n) # <<>> /\ Head(Opening(n)) = g
  BY <1>1
<1>7. Making(n) \in Seq({a, b, c, d, e, f, h})
  BY <1>1
<1>8. Checking(n) # <<>> /\ Head(Checking(n)) = h /\ Tail(Checking(n)) = Making(n)
  BY <1>1, <1>7, BeforeAll, h \in {a, b, c, d, e, f, h}
<1> QED  BY Zenon, <1>2, <1>3, <1>4, <1>5, <1>6, <1>8 DEF a, b, c, d, e, f, g, h

LEMMA SyncTails ==
  ASSUME NEW s, NEW u, NEW n
  PROVE  /\ BothSyncs(s) # <<>> /\ Head(BothSyncs(s)) = <<s, "object">>
         /\ Tail(BothSyncs(s)) = DirSync("sync")
         /\ <<<<u, "object">>>> \o Tail(BothSyncs(s)) = BothSyncs(u)
         /\ DirSync(s) # <<>> /\ Head(DirSync(s)) = <<s, "dir">> /\ Tail(DirSync(s)) = <<>>
         /\ <<<<u, "dir">>>> \o Tail(DirSync(s)) = DirSync(u)
         /\ ObjectSync(s) # <<>> /\ Head(ObjectSync(s)) = <<s, "object">>
         /\ Tail(ObjectSync(s)) = <<>>
         /\ <<<<u, "object">>>> \o Tail(ObjectSync(s)) = ObjectSync(u)
         /\ FindToWrite(n) # <<>> /\ Head(FindToWrite(n)) = <<"handle", n>>
         /\ Tail(FindToWrite(n)) = Writing(n)
         /\ Writing(n) # <<>> /\ Head(Writing(n)) = <<"write", n>> /\ Tail(Writing(n)) = <<>>
         /\ FindToSync(n) # <<>> /\ Head(FindToSync(n)) = <<"handle", n>>
         /\ Tail(FindToSync(n)) = ObjectSync("sync")
<1> DEFINE a == <<s, "object">>
           b == <<"sync", "dir">>
           c == <<s, "dir">>
           d == <<"handle", n>>
           e == <<"write", n>>
           f == <<"sync", "object">>
<1>1. /\ BothSyncs(s) = <<a, b>> /\ DirSync("sync") = <<b>> /\ DirSync(s) = <<c>>
      /\ ObjectSync(s) = <<a>> /\ FindToWrite(n) = <<d, e>> /\ Writing(n) = <<e>>
      /\ FindToSync(n) = <<d, f>> /\ ObjectSync("sync") = <<f>>
  BY Zenon DEF BothSyncs, DirSync, ObjectSync, FindToWrite, Writing, FindToSync
<1> HIDE DEF a, b, c, d, e, f
<1>2. /\ BothSyncs(s) # <<>> /\ Head(BothSyncs(s)) = a /\ Tail(BothSyncs(s)) = DirSync("sync")
      /\ DirSync(s) # <<>> /\ Head(DirSync(s)) = c /\ Tail(DirSync(s)) = <<>>
      /\ ObjectSync(s) # <<>> /\ Head(ObjectSync(s)) = a /\ Tail(ObjectSync(s)) = <<>>
  BY <1>1
<1>3. /\ FindToWrite(n) # <<>> /\ Head(FindToWrite(n)) = d /\ Tail(FindToWrite(n)) = Writing(n)
      /\ Writing(n) # <<>> /\ Head(Writing(n)) = e /\ Tail(Writing(n)) = <<>>
      /\ FindToSync(n) # <<>> /\ Head(FindToSync(n)) = d
      /\ Tail(FindToSync(n)) = ObjectSync("sync")
  BY <1>1
<1>4. <<<<u, "object">>>> \o Tail(BothSyncs(s)) = BothSyncs(u)
  BY Zenon, <1>2, Before DEF BothSyncs, DirSync
<1>5. <<<<u, "dir">>>> \o Tail(DirSync(s)) = DirSync(u)
  BY Zenon, <1>2, Before DEF DirSync
<1>6. <<<<u, "object">>>> \o Tail(ObjectSync(s)) = ObjectSync(u)
  BY Zenon, <1>2, Before DEF ObjectSync
<1> QED  BY Zenon, <1>2, <1>3, <1>4, <1>5, <1>6 DEF a, b, c, d, e, f

\* All todos that a handler begins with or goes on with
LEMMA Todos ==
  ASSUME NEW n \in Names
  PROVE  /\ \A op \in Kinds : Program(op, n) \in Seq(PlanOf(op))
         /\ Making(n) \in Seq(PlanOf("open")) /\ BothSyncs("sync") \in Seq(PlanOf("open"))
         /\ ObjectSync("sync") \in Seq(PlanOf("write"))
         /\ Linking(n) \in Seq(PlanOf("rename")) /\ Unlinking(n) \in Seq(PlanOf("rename"))
<1>1. \A s \in {"alloc", "entry", "refcnt", "refcnt + 1"} :
        <<s, n>> \in PlanOf("create") /\ <<s, n>> \in PlanOf("open")
  BY DEF PlanOf, StepsOf, Steps, Syncs, Makers, Writers
<1>2. \A s \in {"entry", "refcnt", "refcnt + 1"} :
        <<s, n>> \in PlanOf("link") /\ <<s, n>> \in PlanOf("rename")
  BY DEF PlanOf, StepsOf, Steps, Syncs, Makers, Writers
<1>3. \A s \in {"target", "count", "delete"} :
        <<s, n>> \in PlanOf("remove") /\ <<s, n>> \in PlanOf("rename")
  BY DEF PlanOf, StepsOf, Steps, Syncs, Makers, Writers
<1>4. /\ \A op \in {"create", "open"} :
           <<"sync", "object">> \in PlanOf(op) /\ <<"sync", "dir">> \in PlanOf(op)
      /\ \A op \in {"remove", "rename"} : <<"sync", "target">> \in PlanOf(op)
      /\ <<"sync", "object">> \in PlanOf("write") /\ <<"sync", "object">> \in PlanOf("commit")
      /\ <<"sync", "dir">> \in PlanOf("remove")
  BY DEF PlanOf, StepsOf, Steps, Syncs, Makers, Writers
<1>5. /\ <<"absent", n>> \in PlanOf("create") /\ <<"absent", n>> \in PlanOf("link")
      /\ \A op \in {"link", "write", "commit"} : <<"handle", n>> \in PlanOf(op)
      /\ <<"find", n>> \in PlanOf("lookup") /\ <<"find", n>> \in PlanOf("rename")
      /\ <<"choose", n>> \in PlanOf("open") /\ <<"replace", n>> \in PlanOf("rename")
      /\ <<"write", n>> \in PlanOf("write")
  BY DEF PlanOf, StepsOf, Steps, Syncs, Makers, Writers
<1>6. ASSUME NEW S, NEW a \in S, NEW b \in S, NEW c \in S, NEW d \in S, NEW e \in S, NEW f \in S
      PROVE  /\ <<a>> \in Seq(S) /\ <<a, b>> \in Seq(S) /\ <<a, b, c>> \in Seq(S)
             /\ <<a, b, c, d>> \in Seq(S) /\ <<a, b, c, d, e, f>> \in Seq(S)
  OBVIOUS
<1>7. Making(n) \in Seq(PlanOf("create")) /\ Making(n) \in Seq(PlanOf("open"))
  BY <1>1, <1>4, <1>6 DEF Making
<1>8. /\ BothSyncs("sync") \in Seq(PlanOf("open"))
      /\ ObjectSync("sync") \in Seq(PlanOf("write"))
  BY <1>4, <1>6 DEF BothSyncs, ObjectSync
<1>9. Linking(n) \in Seq(PlanOf("link")) /\ Linking(n) \in Seq(PlanOf("rename"))
  BY <1>2, <1>6 DEF Linking
<1>10. Unlinking(n) \in Seq(PlanOf("remove")) /\ Unlinking(n) \in Seq(PlanOf("rename"))
  BY <1>3, <1>4, <1>6 DEF Unlinking
<1>11. Program("create", n) \in Seq(PlanOf("create"))
  BY <1>5, <1>7, BeforeAll DEF Program
<1>12. Program("link", n) \in Seq(PlanOf("link"))
  <2>1. <<<<"handle", n>>, <<"absent", n>>>> \in Seq(PlanOf("link"))
    BY <1>5, <1>6
  <2> QED  BY <2>1, <1>9, ConcatProperties DEF Program
<1>13. Program("remove", n) \in Seq(PlanOf("remove"))
  <2>1. <<<<"sync", "dir">>>> \in Seq(PlanOf("remove"))
    BY <1>4, <1>6
  <2> QED  BY <2>1, <1>10, ConcatProperties DEF Program
<1>14. /\ Program("lookup", n) \in Seq(PlanOf("lookup"))
       /\ Program("open", n) \in Seq(PlanOf("open"))
       /\ Program("rename", n) \in Seq(PlanOf("rename"))
       /\ Program("write", n) \in Seq(PlanOf("write"))
       /\ Program("commit", n) \in Seq(PlanOf("commit"))
  BY <1>4, <1>5, <1>6 DEF Program
<1> QED  BY <1>7, <1>8, <1>9, <1>10, <1>11, <1>12, <1>13, <1>14 DEF Kinds

\* What can be planned can be done.
LEMMA PlansAreSteps ==
  ASSUME NEW op, NEW q \in Seq(PlanOf(op))
  PROVE  /\ q \in Seq(StepsOf(op)) /\ q \in Seq(Steps)
         /\ q # <<>> => Tail(q) \in Seq(PlanOf(op)) /\ Head(q) \in PlanOf(op)
<1>1. ASSUME NEW S, NEW T, S \subseteq T, NEW x \in Seq(S)
      PROVE  x \in Seq(T)
  BY <1>1
<1>2. PlanOf(op) \subseteq StepsOf(op) /\ StepsOf(op) \subseteq Steps
  BY DEF PlanOf, StepsOf
<1> QED  BY <1>1, <1>2

-----------------------------------------------------------------------------
(* Lemmas about steps                                                         *)

LEMMA Sets ==
  /\ Dir \in Ids /\ Dir \notin Files /\ NoId \notin Ids /\ Dir \in Nat /\ Dir > 0
  /\ \A o \in Ids : o \in Nat /\ (o = Dir \/ o \in Files)
  /\ \A o \in Files : o \in Ids /\ o \in Nat /\ o # Dir /\ o # NoId /\ o <= MaxId
  /\ \A o \in FileIds : o = NoId \/ o \in Files
  /\ NoId \in FileIds /\ Files \subseteq FileIds
  /\ MaxId \in Nat /\ NoThread \notin Threads
BY FileSystemAssumption DEF Ids, Dir, Files, NoId, FileIds

\* A step that is next belongs to the operation of the thread.
LEMMA AtStep ==
  ASSUME TypeOK, NEW t \in Threads, NEW s, At(t, s)
  PROVE  /\ Head(thread[t].todo) = <<s, Arg(t)>> /\ <<s, Arg(t)>> \in StepsOf(thread[t].op)
         /\ Tail(thread[t].todo) \in Seq(PlanOf(thread[t].op))
         /\ thread[t].op \in Kinds /\ thread[t].op # "none"
         /\ thread[t].name \in Names /\ thread[t].to \in Names
         /\ s \in Syncs => Arg(t) \in {"dir", "object", "target"}
         /\ s \notin Syncs => Arg(t) \in Names
<1> DEFINE h == Head(thread[t].todo)
<1>1. /\ thread[t] \in ThreadStates /\ thread[t].todo \in Seq(StepsOf(thread[t].op))
      /\ thread[t].todo # <<>> /\ h[1] = s /\ Arg(t) = h[2]
      /\ Tail(thread[t].todo) \in Seq(PlanOf(thread[t].op))
  BY DEF At, Arg, TypeOK
<1>2. h \in StepsOf(thread[t].op)
  BY <1>1
<1> HIDE DEF h
<1>3. h = <<s, Arg(t)>>
  <2>1. \A A, B : h \in A \X B => h = <<h[1], h[2]>>
    OBVIOUS
  <2>2. h \in Steps
    BY <1>2 DEF StepsOf
  <2> QED  BY Zenon, <1>1, <2>1, <2>2 DEF Steps
<1>4. thread[t].op \in Kinds \cup {"none"}
  BY <1>1 DEF ThreadStates
<1>5. thread[t].op # "none"
  BY <1>2 DEF StepsOf, Steps, Syncs, Makers, Writers
<1>6. /\ s \in Syncs => Arg(t) \in {"dir", "object", "target"}
      /\ s \notin Syncs => Arg(t) \in Names
  BY <1>2, <1>3 DEF StepsOf, Steps, Syncs
<1>7. thread[t].name \in Names /\ thread[t].to \in Names
  BY <1>5 DEF TypeOK
<1> QED  BY <1>1, <1>2, <1>3, <1>4, <1>5, <1>6, <1>7 DEF h

\* One step at a time
LEMMA OneStep ==
  ASSUME NEW t, NEW s, NEW u, At(t, s), At(t, u)
  PROVE  s = u
BY DEF At

\* Which operation takes which step
LEMMA StepOf ==
  ASSUME TypeOK, NEW t \in Threads, NEW s, At(t, s)
  PROVE  /\ s = "alloc" => thread[t].op \in Makers
         /\ s = "choose" => thread[t].op = "open"
         /\ s = "replace" => thread[t].op = "rename"
         /\ s = "find" => thread[t].op \in {"lookup", "rename"}
         /\ s = "absent" => thread[t].op \in {"create", "link"}
         /\ s = "handle" => thread[t].op \in Writers \cup {"link"}
         /\ s \in {"entry", "refcnt", "refcnt + 1"} =>
              thread[t].op \in Makers \cup {"link", "rename"}
         /\ s \in {"target", "count", "delete"} => thread[t].op \in {"remove", "rename"}
         /\ s = "write" => thread[t].op = "write"
         /\ s \in Syncs /\ Arg(t) = "dir" => thread[t].op \in Makers \cup {"remove"}
         /\ s \in Syncs /\ Arg(t) = "object" => thread[t].op \in Makers \cup Writers
         /\ s \in Syncs /\ Arg(t) = "target" => thread[t].op \in {"remove", "rename"}
<1>1. <<s, Arg(t)>> \in StepsOf(thread[t].op)
  BY AtStep
<1>2. <<s, Arg(t)>>[1] = s /\ <<s, Arg(t)>>[2] = Arg(t)
  OBVIOUS
<1> QED  BY <1>1, <1>2 DEF StepsOf

LEMMA MakerSteps ==
  ASSUME TypeOK, NEW t \in Threads, NEW s, At(t, s), thread[t].op \in Makers, MakerOK(thread[t])
  PROVE  LET r == thread[t]
             n == r.name IN
         \/ s = "absent" /\ r.todo = Checking(n) /\ Tail(r.todo) = Making(n) /\ Arg(t) = n
         \/ s = "choose" /\ r.todo = Opening(n) /\ Arg(t) = n
         \/ s = "alloc" /\ r.todo = Making(n) /\ Tail(r.todo) = Entering(n) /\ Arg(t) = n
         \/ s = "entry" /\ r.todo = Entering(n) /\ Tail(r.todo) = Entered(n) /\ Arg(t) = n
         \/ s = "refcnt" /\ r.todo = Entered(n) /\ Tail(r.todo) = Counting(n) /\ Arg(t) = n
         \/ s = "refcnt + 1" /\ r.todo = Counting(n) /\ Tail(r.todo) = BothSyncs("sync")
         \/ /\ s \in Syncs /\ r.todo = BothSyncs(s) /\ Tail(r.todo) = DirSync("sync")
            /\ Arg(t) = "object"
         \/ s \in Syncs /\ r.todo = DirSync(s) /\ Tail(r.todo) = <<>> /\ Arg(t) = "dir"
<1> DEFINE r == thread[t]
           n == thread[t].name
<1>1. r.todo # <<>> /\ Head(r.todo) = <<s, Arg(t)>>
  BY AtStep DEF At
<1>2. ASSUME NEW x, NEW y, Head(r.todo) = <<x, y>>
      PROVE  s = x /\ Arg(t) = y
  <2>1. <<s, Arg(t)>> = <<x, y>>
    BY <1>1, <1>2
  <2> HIDE DEF r
  <2> QED  BY <2>1
<1>3. CASE r.todo = Checking(n)
  <2>1. Head(r.todo) = <<"absent", n>> /\ Tail(r.todo) = Making(n)
    BY Zenon, <1>3, MakingTails
  <2> QED  BY Zenon, <1>2, <1>3, <2>1
<1>4. CASE r.todo = Making(n)
  <2>1. Head(r.todo) = <<"alloc", n>> /\ Tail(r.todo) = Entering(n)
    BY Zenon, <1>4, MakingTails
  <2> QED  BY Zenon, <1>2, <1>4, <2>1
<1>5. CASE r.todo = Opening(n)
  <2>1. Head(r.todo) = <<"choose", n>>
    BY Zenon, <1>5, MakingTails
  <2> QED  BY Zenon, <1>2, <1>5, <2>1
<1>6. CASE r.todo = Entering(n)
  <2>1. Head(r.todo) = <<"entry", n>> /\ Tail(r.todo) = Entered(n)
    BY Zenon, <1>6, MakingTails
  <2> QED  BY Zenon, <1>2, <1>6, <2>1
<1>7. CASE r.todo = Entered(n)
  <2>1. Head(r.todo) = <<"refcnt", n>> /\ Tail(r.todo) = Counting(n)
    BY Zenon, <1>7, MakingTails
  <2> QED  BY Zenon, <1>2, <1>7, <2>1
<1>8. CASE r.todo = Counting(n)
  <2>1. Head(r.todo) = <<"refcnt + 1", n>> /\ Tail(r.todo) = BothSyncs("sync")
    BY Zenon, <1>8, MakingTails
  <2> QED  BY Zenon, <1>2, <1>8, <2>1
<1>9. ASSUME NEW u \in Syncs, r.todo = BothSyncs(u)
      PROVE  /\ s \in Syncs /\ r.todo = BothSyncs(s) /\ Tail(r.todo) = DirSync("sync")
             /\ Arg(t) = "object"
  <2>1. Head(r.todo) = <<u, "object">> /\ Tail(r.todo) = DirSync("sync")
    BY Zenon, <1>9, SyncTails
  <2> QED  BY Zenon, <1>2, <1>9, <2>1
<1>10. ASSUME NEW u \in Syncs, r.todo = DirSync(u)
       PROVE  s \in Syncs /\ r.todo = DirSync(s) /\ Tail(r.todo) = <<>> /\ Arg(t) = "dir"
  <2>1. Head(r.todo) = <<u, "dir">> /\ Tail(r.todo) = <<>>
    BY Zenon, <1>10, SyncTails
  <2> QED  BY Zenon, <1>2, <1>10, <2>1
<1> QED  BY <1>1, <1>3, <1>4, <1>5, <1>6, <1>7, <1>8, <1>9, <1>10
         DEF MakerOK, Choosing, Linked, Written

LEMMA WriterSteps ==
  ASSUME TypeOK, NEW t \in Threads, NEW s, At(t, s), thread[t].op \in Writers, WriterOK(thread[t])
  PROVE  LET r == thread[t]
             n == r.name IN
         \/ /\ s = "handle" /\ r.todo = FindToWrite(n) /\ Tail(r.todo) = Writing(n)
         \/ s = "handle" /\ r.todo = FindToSync(n) /\ Tail(r.todo) = ObjectSync("sync")
         \/ s = "write" /\ r.todo = Writing(n)
         \/ /\ s \in Syncs /\ r.todo = ObjectSync(s) /\ Tail(r.todo) = <<>>
            /\ Arg(t) = "object"
<1> DEFINE r == thread[t]
           n == thread[t].name
<1>1. r.todo # <<>> /\ Head(r.todo) = <<s, Arg(t)>>
  BY AtStep DEF At
<1>2. ASSUME NEW x, NEW y, Head(r.todo) = <<x, y>>
      PROVE  s = x /\ Arg(t) = y
  <2>1. <<s, Arg(t)>> = <<x, y>>
    BY <1>1, <1>2
  <2> HIDE DEF r
  <2> QED  BY <2>1
<1>3. CASE r.todo = FindToWrite(n)
  <2>1. Head(r.todo) = <<"handle", n>> /\ Tail(r.todo) = Writing(n)
    BY Zenon, <1>3, SyncTails
  <2> QED  BY Zenon, <1>2, <1>3, <2>1
<1>4. CASE r.todo = FindToSync(n)
  <2>1. Head(r.todo) = <<"handle", n>> /\ Tail(r.todo) = ObjectSync("sync")
    BY Zenon, <1>4, SyncTails
  <2> QED  BY Zenon, <1>2, <1>4, <2>1
<1>5. CASE r.todo = Writing(n)
  <2>1. Head(r.todo) = <<"write", n>> /\ Tail(r.todo) = <<>>
    BY Zenon, <1>5, SyncTails
  <2> QED  BY Zenon, <1>2, <1>5, <2>1
<1>6. ASSUME NEW u \in Syncs, r.todo = ObjectSync(u)
      PROVE  s \in Syncs /\ r.todo = ObjectSync(s) /\ Tail(r.todo) = <<>> /\ Arg(t) = "object"
  <2>1. Head(r.todo) = <<u, "object">> /\ Tail(r.todo) = <<>>
    BY Zenon, <1>6, SyncTails
  <2> QED  BY Zenon, <1>2, <1>6, <2>1
<1> QED  BY <1>1, <1>3, <1>4, <1>5, <1>6 DEF WriterOK

\* A thread went on, and the others did nothing.
Moved(t) ==
  /\ thread' \in [Threads -> ThreadStates]
  /\ \A u \in Threads \ {t} : thread'[u] = thread[u]
  /\ thread'[t].op = thread[t].op /\ thread'[t].name = thread[t].name
  /\ thread'[t].to = thread[t].to
  /\ thread'[t].todo \in Seq(PlanOf(thread[t].op))

LEMMA MovesTo ==
  ASSUME TypeOK, NEW t \in Threads, NEW r \in ThreadStates,
         thread' = [thread EXCEPT ![t] = r],
         r.op = thread[t].op, r.name = thread[t].name, r.to = thread[t].to,
         r.todo \in Seq(PlanOf(thread[t].op))
  PROVE  Moved(t) /\ thread'[t] = r
BY DEF TypeOK, Moved

\* The steps of a plan are not in the middle of a sync.
LEMMA NoneBegun ==
  ASSUME NEW t \in Threads, Moved(t)
  PROVE  ~At(t, "store")' /\ ~At(t, "mark")'
<1>1. thread'[t].todo # <<>> => Head(thread'[t].todo) \in PlanOf(thread[t].op)
  BY PlansAreSteps DEF Moved
<1> QED  BY <1>1 DEF At, PlanOf

LEMMA Advances ==
  ASSUME TypeOK, NEW t \in Threads, NEW s, At(t, s), Advance(t)
  PROVE  /\ Moved(t) /\ thread'[t].todo = Tail(thread[t].todo)
         /\ thread'[t].id = thread[t].id /\ thread'[t].target = thread[t].target
         /\ thread'[t].promises = thread[t].promises
<1>1. Tail(thread[t].todo) \in Seq(PlanOf(thread[t].op)) /\ thread[t] \in ThreadStates
  BY AtStep DEF TypeOK
<1>2. Tail(thread[t].todo) \in Seq(Steps)
  BY <1>1, PlansAreSteps
<1>3. thread' = [thread EXCEPT ![t] = [thread[t] EXCEPT !.todo = Tail(thread[t].todo)]]
  BY Zenon DEF Advance, Then
<1>4. PICK r : r = [thread[t] EXCEPT !.todo = Tail(thread[t].todo)]
  OBVIOUS
<1>5. /\ r \in ThreadStates /\ r.op = thread[t].op /\ r.name = thread[t].name
      /\ r.to = thread[t].to /\ r.todo = Tail(thread[t].todo)
      /\ r.id = thread[t].id /\ r.target = thread[t].target /\ r.promises = thread[t].promises
  BY <1>1, <1>2, <1>4 DEF ThreadStates
<1>6. Moved(t) /\ thread'[t] = r
  BY <1>1, <1>3, <1>4, <1>5, MovesTo
<1> QED  BY <1>5, <1>6

LEMMA Fails ==
  ASSUME TypeOK, NEW t \in Threads, Fail(t)
  PROVE  /\ Moved(t) /\ thread'[t].todo = <<>> /\ thread'[t].promises = FALSE
         /\ thread'[t].id = thread[t].id /\ thread'[t].target = thread[t].target
<1>1. <<>> \in Seq(PlanOf(thread[t].op)) /\ thread[t] \in ThreadStates /\ <<>> \in Seq(Steps)
  BY DEF TypeOK
<1>2. PICK r : r = [[thread[t] EXCEPT !.todo = <<>>] EXCEPT !.promises = FALSE]
  OBVIOUS
<1>3. /\ r \in ThreadStates /\ r.op = thread[t].op /\ r.name = thread[t].name
      /\ r.to = thread[t].to /\ r.todo = <<>> /\ r.promises = FALSE
      /\ r.id = thread[t].id /\ r.target = thread[t].target
  BY <1>1, <1>2 DEF ThreadStates
<1>4. thread' = [thread EXCEPT ![t] = r]
  BY <1>2 DEF Fail, Then
<1>5. Moved(t) /\ thread'[t] = r
  BY <1>1, <1>3, <1>4, MovesTo
<1> QED  BY <1>3, <1>5

\* Then(t, q), for a plan q
LEMMA Goes ==
  ASSUME TypeOK, NEW t \in Threads, NEW q \in Seq(PlanOf(thread[t].op)),
         thread' = [thread EXCEPT ![t] = Then(t, q)]
  PROVE  /\ Moved(t) /\ thread'[t].todo = q
         /\ thread'[t].id = thread[t].id /\ thread'[t].target = thread[t].target
         /\ thread'[t].promises = thread[t].promises
<1>1. thread[t] \in ThreadStates /\ q \in Seq(Steps)
  BY PlansAreSteps DEF TypeOK
<1>2. PICK r : r = Then(t, q)
  OBVIOUS
<1>3. /\ r \in ThreadStates /\ r.op = thread[t].op /\ r.name = thread[t].name
      /\ r.to = thread[t].to /\ r.todo = q
      /\ r.id = thread[t].id /\ r.target = thread[t].target /\ r.promises = thread[t].promises
  BY <1>1, <1>2 DEF ThreadStates, Then
<1>4. Moved(t) /\ thread'[t] = r
  BY <1>2, <1>3, MovesTo
<1> QED  BY <1>3, <1>4

\* With another id
LEMMA GoesWith ==
  ASSUME TypeOK, NEW t \in Threads, NEW q \in Seq(PlanOf(thread[t].op)), NEW i \in FileIds,
         thread' = [thread EXCEPT ![t] = [Then(t, q) EXCEPT !.id = i]]
  PROVE  /\ Moved(t) /\ thread'[t].todo = q
         /\ thread'[t].id = i /\ thread'[t].target = thread[t].target
         /\ thread'[t].promises = thread[t].promises
<1>1. thread[t] \in ThreadStates /\ q \in Seq(Steps)
  BY PlansAreSteps DEF TypeOK
<1>2. PICK r : r = [Then(t, q) EXCEPT !.id = i]
  OBVIOUS
<1>3. /\ r \in ThreadStates /\ r.op = thread[t].op /\ r.name = thread[t].name
      /\ r.to = thread[t].to /\ r.todo = q
      /\ r.id = i /\ r.target = thread[t].target /\ r.promises = thread[t].promises
  BY <1>1, <1>2 DEF ThreadStates, Then
<1>4. Moved(t) /\ thread'[t] = r
  BY ZenonT(40), <1>2, <1>3, MovesTo
<1> QED  BY <1>3, <1>4

\* With another target
LEMMA GoesAt ==
  ASSUME TypeOK, NEW t \in Threads, NEW q \in Seq(PlanOf(thread[t].op)), NEW i \in FileIds,
         thread' = [thread EXCEPT ![t] = [Then(t, q) EXCEPT !.target = i]]
  PROVE  /\ Moved(t) /\ thread'[t].todo = q
         /\ thread'[t].id = thread[t].id /\ thread'[t].target = i
         /\ thread'[t].promises = thread[t].promises
<1>1. thread[t] \in ThreadStates /\ q \in Seq(Steps)
  BY PlansAreSteps DEF TypeOK
<1>2. PICK r : r = [Then(t, q) EXCEPT !.target = i]
  OBVIOUS
<1>3. /\ r \in ThreadStates /\ r.op = thread[t].op /\ r.name = thread[t].name
      /\ r.to = thread[t].to /\ r.todo = q
      /\ r.id = thread[t].id /\ r.target = i /\ r.promises = thread[t].promises
  BY <1>1, <1>2 DEF ThreadStates, Then
<1>4. Moved(t) /\ thread'[t] = r
  BY ZenonT(40), <1>2, <1>3, MovesTo
<1> QED  BY <1>3, <1>4

\* With another count seen
LEMMA GoesSeeing ==
  ASSUME TypeOK, NEW t \in Threads, NEW x \in Int,
         Tail(thread[t].todo) \in Seq(PlanOf(thread[t].op)),
         thread' = [thread EXCEPT ![t] = [Then(t, Tail(@.todo)) EXCEPT !.saw = x]]
  PROVE  /\ Moved(t) /\ thread'[t].todo = Tail(thread[t].todo)
         /\ thread'[t].id = thread[t].id /\ thread'[t].target = thread[t].target
         /\ thread'[t].promises = thread[t].promises
<1>1. thread[t] \in ThreadStates /\ Tail(thread[t].todo) \in Seq(Steps)
  BY PlansAreSteps DEF TypeOK
<1>2. PICK r : r = [Then(t, Tail(thread[t].todo)) EXCEPT !.saw = x]
  OBVIOUS
<1>3. /\ r \in ThreadStates /\ r.op = thread[t].op /\ r.name = thread[t].name
      /\ r.to = thread[t].to /\ r.todo = Tail(thread[t].todo)
      /\ r.id = thread[t].id /\ r.target = thread[t].target /\ r.promises = thread[t].promises
  BY <1>1, <1>2 DEF ThreadStates, Then
<1>4. Moved(t) /\ thread'[t] = r
  BY <1>2, <1>3, MovesTo
<1> QED  BY <1>3, <1>4

-----------------------------------------------------------------------------
(* What a step leaves                                                         *)

\* What a thread stores stays so while it does nothing.
LEMMA SafeKept ==
  ASSUME TypeOK, LockOK, NEW t \in Threads, ~At(t, "store"),
         \A u \in Threads \ {t} : thread'[u] = thread[u],
         diskLock' = diskLock, torn' = torn,
         diskNextid \in Nat, diskNextid' \in Nat, diskNextid <= diskNextid',
         NEW o \in Ids, disk'[o] = disk[o]
  PROVE  /\ Safe(o) => Safe(o)'
         /\ Readable(o) => Readable(o)'
<1>1. Storing(o) => Storing(o)'
  <2> SUFFICES ASSUME Storing(o)
               PROVE  Storing(o)'
    OBVIOUS
  <2>1. diskLock \in Threads \ {t}
    BY DEF Storing, LockOK, TypeOK
  <2>2. thread'[diskLock] = thread[diskLock]
    BY <2>1
  <2> QED  BY <2>2 DEF Storing, Synced, Arg
<1>2. o \in Nat
  BY Sets
<1> QED  BY <1>1, <1>2 DEF Safe, Readable

LEMMA ExclusiveKept ==
  ASSUME Exclusive, NEW t \in Threads, \A u \in Threads \ {t} : thread'[u] = thread[u],
         \/ thread'[t].op = "none"
         \/ /\ thread'[t].op = thread[t].op
            /\ thread[t].op \in Writers => thread'[t].id = thread[t].id
  PROVE  Exclusive'
<1> SUFFICES ASSUME NEW x \in Threads, NEW y \in Threads, x # y,
                    thread'[x].op # "none", thread'[y].op # "none"
             PROVE  /\ thread'[x].op \in Overlap
                    /\ thread'[x].op \in {"create", "link"} =>
                         thread'[y].op \notin {"create", "link", "lookup"}
                    /\ thread'[x].op \in Writers /\ thread'[y].op \in Writers =>
                         thread'[x].id # thread'[y].id
  BY DEF Exclusive
<1>1. \A z \in {x, y} : /\ thread'[z].op = thread[z].op
                        /\ thread[z].op \in Writers => thread'[z].id = thread[z].id
  OBVIOUS
<1> QED  BY <1>1 DEF Exclusive

\* The objects a thread counts on: that it writes, or has just stored
Holds(t, o) ==
  \/ thread[t].op \in Writers /\ thread[t].id = o
  \/ At(t, "mark") /\ Synced(t) = o

\* The other threads
LEMMA OthersKept ==
  ASSUME TypeOK, NEW t \in Threads, NEW u \in Threads \ {t}, ThreadOK(u),
         thread'[u] = thread[u],
         \A o \in Ids : object[o].loaded => object'[o].loaded,
         \A o \in Ids : Holds(u, o) /\ Stored(o) => Stored(o)',
         regular \subseteq regular',
         thread[u].op = "create" /\ thread[u].id \in regular' => thread[u].id \in regular
  PROVE  ThreadOK(u)'
<1>1. /\ At(u, "mark")' = At(u, "mark") /\ Synced(u)' = Synced(u)
      /\ thread[u] \in ThreadStates
  BY DEF At, Synced, Arg, TypeOK
<1>2. thread[u].target \in FileIds /\ thread[u].id \in FileIds
  BY <1>1 DEF ThreadStates
<1>3. thread[u].target # NoId => object'[thread[u].target].loaded
  BY <1>2, Sets DEF ThreadOK
<1>4. (At(u, "mark") /\ Synced(u) \in Ids => Stored(Synced(u)))'
  BY <1>1 DEF ThreadOK, Holds
<1>5. thread[u].op \in Makers => MakerOK(thread[u])'
  <2>1. thread[u].id # NoId => thread[u].id \in Ids
    BY <1>2, Sets
  <2> QED  BY <2>1 DEF ThreadOK, MakerOK, Choosing, Linked, Written, Made
<1>6. thread[u].op \in Writers => WriterOK(thread[u])'
  <2> SUFFICES ASSUME thread[u].op \in Writers
               PROVE  WriterOK(thread[u])'
    OBVIOUS
  <2>1. WriterOK(thread[u]) /\ thread[u].id \in Ids
    BY Sets DEF ThreadOK, WriterOK, TypeOK
  <2>2. Made(thread[u]) => Stored(thread[u].id)'
    BY <2>1 DEF WriterOK, Holds
  <2> QED  BY <2>1, <2>2 DEF WriterOK, Made
<1>7. At(u, "find")' = At(u, "find")
  BY DEF At
<1> QED  BY <1>3, <1>4, <1>5, <1>6, <1>7 DEF ThreadOK

LEMMA FewerAllocators ==
  ASSUME NEW t \in Threads, \A u \in Threads \ {t} : thread'[u] = thread[u],
         thread'[t].op \in Makers /\ thread'[t].id = NoId =>
           thread[t].op \in Makers /\ thread[t].id = NoId
  PROVE  /\ Cardinality(Allocators)' <= Cardinality(Allocators)
         /\ Cardinality(Allocators) \in Nat /\ Cardinality(Allocators)' \in Nat
<1>1. Allocators' \subseteq Allocators
  BY DEF Allocators
<1>2. IsFiniteSet(Allocators) /\ IsFiniteSet(Allocators')
  BY FileSystemAssumption, FS_Subset DEF Allocators
<1> QED  BY <1>1, <1>2, FS_Subset, FS_CardinalityType

LEMMA IdleTyped ==
  /\ Idle \in ThreadStates /\ Idle.op = "none" /\ Idle.todo = <<>> /\ Idle.target = NoId
  /\ Idle.id = NoId
  /\ \A op : <<>> \in Seq(StepsOf(op))
BY Sets DEF Idle, ThreadStates

\* A thread ends.
Ended(t) == thread' = [thread EXCEPT ![t] = Idle]

\* A thread moves that leaves the disk alone.
LEMMA CalmStep ==
  ASSUME DataOK, up, NEW t \in Threads, ~At(t, "store"),
         UNCHANGED <<up, regular, nextid, diskLock, disk, diskNextid, torn>>,
         entries' \in [Names -> FileIds], diskEntries' \in [Names -> FileIds],
         names' \in [Names -> FileIds],
         object' \in [Ids -> Objects], version' \in [Ids -> Nat], stable' \in [Ids -> Nat],
         version'[Dir] = version[Dir],
         \A o \in Ids : object[o].loaded => object'[o].loaded,
         \A o \in Ids : object'[o].loaded => LoadedOK(o)' /\ o <= diskNextid,
         \A u \in Threads \ {t}, o \in Ids :
           Holds(u, o) /\ object[o].loaded => version'[o] = version[o],
         \A o \in Files : stable'[o] > 0 => disk[o].version >= stable'[o] /\ Safe(o),
         \/ Ended(t)
         \/ /\ Moved(t) /\ ThreadOK(t)' /\ thread[t].op # "none"
            /\ thread[t].op \in Writers => thread'[t].id = thread[t].id
            /\ thread[t].op \in Makers /\ thread'[t].id = NoId => thread[t].id = NoId
  PROVE  DataOK'
<1>1. /\ TypeOK /\ IdsOK /\ Exclusive /\ MemoryOK /\ DiskOK /\ LockOK /\ StableOK
      /\ \A u \in Threads : ThreadOK(u)
  BY DEF DataOK, ThreadsOK
<1>2. \A u \in Threads \ {t} : thread'[u] = thread[u]
  BY <1>1 DEF Ended, Moved, TypeOK
<1>3. thread' \in [Threads -> ThreadStates]
  BY <1>1, IdleTyped DEF Ended, Moved, TypeOK
<1>4. Ended(t) => thread'[t] = Idle
  BY <1>1 DEF Ended, TypeOK
<1>5. /\ thread'[t].todo \in Seq(StepsOf(thread'[t].op))
      /\ thread'[t].todo # <<>> => Tail(thread'[t].todo) \in Seq(PlanOf(thread'[t].op))
  <2>1. CASE Ended(t)
    BY <1>4, <2>1, IdleTyped
  <2>2. CASE Moved(t)
    BY <2>2, PlansAreSteps DEF Moved
  <2> QED  BY <2>1, <2>2
<1>6. thread'[t].op # "none" => thread'[t].name \in Names /\ thread'[t].to \in Names
  <2>1. CASE Ended(t)
    BY <1>4, <2>1, IdleTyped
  <2>2. CASE Moved(t)
    BY <1>1, <2>2 DEF Moved, TypeOK
  <2> QED  BY <2>1, <2>2
<1>7. TypeOK'
  <2>1. ASSUME NEW u \in Threads
        PROVE  /\ thread'[u].todo \in Seq(StepsOf(thread'[u].op))
               /\ thread'[u].todo # <<>> => Tail(thread'[u].todo) \in Seq(PlanOf(thread'[u].op))
               /\ thread'[u].op # "none" => thread'[u].name \in Names /\ thread'[u].to \in Names
    BY <1>1, <1>2, <1>5, <1>6 DEF TypeOK
  <2>2. /\ up' \in BOOLEAN /\ disk' \in [Ids -> DiskObjects] /\ regular' \in SUBSET Files
        /\ diskLock' \in Threads \cup {NoThread} /\ torn' \in SUBSET Ids
    BY <1>1 DEF TypeOK
  <2> QED  BY <1>3, <2>1, <2>2 DEF TypeOK
<1>8. \A o \in Ids : (Safe(o) => Safe(o)') /\ (Readable(o) => Readable(o)')
  BY <1>1, <1>2, SafeKept DEF IdsOK
<1>9. IdsOK'
  <2>1. thread'[t].op \in Makers /\ thread'[t].id = NoId =>
          thread[t].op \in Makers /\ thread[t].id = NoId
    <3>1. CASE Ended(t)
      BY <1>4, <3>1, IdleTyped DEF Makers
    <3>2. CASE Moved(t) /\ ~Ended(t)
      BY <3>2 DEF Moved
    <3> QED  BY <3>1, <3>2
  <2>2. /\ Cardinality(Allocators)' <= Cardinality(Allocators)
        /\ Cardinality(Allocators) \in Nat /\ Cardinality(Allocators)' \in Nat
    BY <1>2, <2>1, FewerAllocators
  <2>3. /\ diskNextid \in Nat /\ Dir <= diskNextid /\ diskNextid <= MaxId
        /\ nextid = diskNextid /\ nextid + Cardinality(Allocators) <= MaxId
        /\ \A o \in regular : o <= diskNextid
    BY <1>1 DEF IdsOK
  <2>4. nextid + Cardinality(Allocators)' <= MaxId
    BY <2>2, <2>3, Sets
  <2> QED  BY <2>3, <2>4 DEF IdsOK
<1>10. Exclusive'
  <2>1. \/ thread'[t].op = "none"
        \/ /\ thread'[t].op = thread[t].op
           /\ thread[t].op \in Writers => thread'[t].id = thread[t].id
    BY <1>4, IdleTyped DEF Moved
  <2> QED  BY <1>1, <1>2, <2>1, ExclusiveKept
<1>11. MemoryOK'
  BY <1>1, Sets DEF MemoryOK
<1>12. DiskOK'
  BY <1>1, <1>8, Sets DEF DiskOK
<1>13. LockOK'
  <2>1. ~At(t, "store")'
    <3>1. CASE Ended(t)
      BY <1>4, <3>1, IdleTyped DEF At
    <3>2. CASE Moved(t)
      BY <3>2, NoneBegun
    <3> QED  BY <3>1, <3>2
  <2>2. \A u \in Threads \ {t} : At(u, "store")' = At(u, "store")
    BY <1>2 DEF At
  <2> QED  BY <1>1, <2>1, <2>2, Sets DEF LockOK, TypeOK
<1>14. StableOK'
  BY <1>8, Sets DEF StableOK
<1>15. ThreadsOK'
  <2>1. ASSUME NEW u \in Threads \ {t}
        PROVE  ThreadOK(u)'
    <3>1. \A o \in Ids : Holds(u, o) /\ Stored(o) => Stored(o)'
      BY <1>8 DEF Stored
    <3> QED  BY <1>1, <1>2, <3>1, OthersKept
  <2>2. ThreadOK(t)'
    <3>1. CASE Ended(t)
      BY <1>4, <3>1, IdleTyped DEF ThreadOK, At, Makers, Writers
    <3> QED  BY <3>1
  <2> QED  BY <2>1, <2>2 DEF ThreadsOK
<1> QED  BY <1>7, <1>9, <1>10, <1>11, <1>12, <1>13, <1>14, <1>15 DEF DataOK

-----------------------------------------------------------------------------
(* The steps that change no data                                              *)

\* Only a server that is up works.
LEMMA Working ==
  ASSUME IdsOK, TypeOK, NEW t \in Threads, thread[t] # Idle
  PROVE  up
BY DEF IdsOK, TypeOK

LEMMA AtWork ==
  ASSUME IdsOK, TypeOK, NEW t \in Threads, NEW s, At(t, s)
  PROVE  up /\ thread[t].op # "none"
<1>1. thread[t].todo # <<>>
  BY DEF At
<1>2. thread[t] # Idle
  BY <1>1, IdleTyped
<1> QED  BY <1>2, Working, AtStep

\* What the invariant says of memory stays true when links are counted, or nothing changes.
SameData ==
  /\ object' \in [Ids -> Objects] /\ UNCHANGED version
  /\ \A o \in Ids : /\ object'[o].loaded = object[o].loaded
                    /\ object'[o].change = object[o].change
                    /\ object'[o].lastSync = object[o].lastSync

\* A count, a change or a _last_sync is set.
LEMMA SetRefcnt ==
  ASSUME TypeOK, NEW i, NEW k, i \in Ids => k \in Int,
         object' = [object EXCEPT ![i].refcnt = k], version' = version
  PROVE  SameData
<1>1. object \in [Ids -> Objects]
  BY DEF TypeOK
<1>2. PICK x : x = [object[i] EXCEPT !.refcnt = k]
  OBVIOUS
<1>3. i \in Ids => /\ x \in Objects /\ x.loaded = object[i].loaded
                  /\ x.change = object[i].change /\ x.lastSync = object[i].lastSync
  BY <1>1, <1>2 DEF Objects
<1>4. object' = [object EXCEPT ![i] = x]
  BY <1>2
<1> QED  BY <1>1, <1>3, <1>4 DEF SameData

LEMMA SetChange ==
  ASSUME TypeOK, NEW i \in Ids, NEW k \in Nat, object' = [object EXCEPT ![i].change = k]
  PROVE  /\ object' \in [Ids -> Objects] /\ \A o \in Ids \ {i} : object'[o] = object[o]
         /\ object'[i].loaded = object[i].loaded /\ object'[i].change = k
         /\ object'[i].lastSync = object[i].lastSync
<1>1. object \in [Ids -> Objects]
  BY DEF TypeOK
<1>2. PICK x : x = [object[i] EXCEPT !.change = k]
  OBVIOUS
<1>3. /\ x \in Objects /\ x.loaded = object[i].loaded /\ x.change = k
      /\ x.lastSync = object[i].lastSync
  BY <1>1, <1>2 DEF Objects
<1>4. object' = [object EXCEPT ![i] = x]
  BY <1>2
<1> QED  BY <1>1, <1>3, <1>4

LEMMA SetLastSync ==
  ASSUME TypeOK, NEW i, NEW k, i \in Ids => k \in Nat,
         object' = [object EXCEPT ![i].lastSync = k]
  PROVE  /\ object' \in [Ids -> Objects]
         /\ \A o \in Ids : o # i => object'[o] = object[o]
         /\ i \in Ids => /\ object'[i].loaded = object[i].loaded
                         /\ object'[i].change = object[i].change /\ object'[i].lastSync = k
<1>1. object \in [Ids -> Objects]
  BY DEF TypeOK
<1>2. PICK x : x = [object[i] EXCEPT !.lastSync = k]
  OBVIOUS
<1>3. i \in Ids => /\ x \in Objects /\ x.loaded = object[i].loaded
                  /\ x.change = object[i].change /\ x.lastSync = k
  BY <1>1, <1>2 DEF Objects
<1>4. object' = [object EXCEPT ![i] = x]
  BY <1>2
<1> QED  BY <1>1, <1>3, <1>4

LEMMA QuietStep ==
  ASSUME DataOK, up, NEW t \in Threads, ~At(t, "store"), SameData,
         UNCHANGED <<up, regular, nextid, diskLock, disk, diskNextid, torn, stable>>,
         entries' \in [Names -> FileIds], diskEntries' \in [Names -> FileIds],
         names' \in [Names -> FileIds],
         \/ Ended(t)
         \/ /\ Moved(t) /\ ThreadOK(t)' /\ thread[t].op # "none"
            /\ thread[t].op \in Writers => thread'[t].id = thread[t].id
            /\ thread[t].op \in Makers /\ thread'[t].id = NoId => thread[t].id = NoId
  PROVE  DataOK'
<1>1. TypeOK /\ IdsOK /\ MemoryOK /\ LockOK /\ StableOK
  BY DEF DataOK
<1>2. \A u \in Threads \ {t} : thread'[u] = thread[u]
  BY <1>1 DEF Ended, Moved, TypeOK
<1>3. \A o \in Ids : Safe(o) => Safe(o)'
  BY <1>1, <1>2, SafeKept DEF IdsOK
<1>4. \A o \in Ids : object'[o].loaded => LoadedOK(o)' /\ o <= diskNextid
  BY <1>1, <1>3 DEF SameData, MemoryOK, LoadedOK, Stored, IdsOK
<1>5. \A o \in Files : stable'[o] > 0 => disk[o].version >= stable'[o] /\ Safe(o)
  BY <1>1 DEF StableOK
<1>6. version' \in [Ids -> Nat] /\ stable' \in [Ids -> Nat] /\ version' = version
  BY <1>1 DEF TypeOK, SameData
<1> QED  BY <1>4, <1>5, <1>6, CalmStep DEF SameData

\* A handler that goes on to other planned steps, with the same id and target
LEMMA ThreadKept ==
  ASSUME DataOK, NEW t \in Threads, Moved(t),
         thread'[t].id = thread[t].id, thread'[t].target = thread[t].target,
         \A o \in Ids : object[o].loaded => object'[o].loaded, UNCHANGED regular,
         thread[t].op \in Makers => MakerOK(thread[t])',
         thread[t].op \in Writers => WriterOK(thread[t])',
         thread[t].op = "rename" /\ thread'[t].todo # <<>> => thread[t].id # NoId
  PROVE  ThreadOK(t)'
<1>1. ThreadOK(t) /\ thread[t] \in ThreadStates
  BY DEF DataOK, ThreadsOK, TypeOK
<1>2. thread[t].target \in FileIds
  BY <1>1 DEF ThreadStates
<1>3. thread[t].target # NoId => object'[thread[t].target].loaded
  BY <1>1, <1>2, Sets DEF ThreadOK
<1> QED  BY <1>1, <1>3, NoneBegun DEF ThreadOK, Moved

LEMMA FailKept ==
  ASSUME DataOK, NEW t \in Threads, Fail(t), UNCHANGED regular,
         \A o \in Ids : object[o].loaded => object'[o].loaded
  PROVE  /\ Moved(t) /\ ThreadOK(t)' /\ thread'[t].id = thread[t].id
<1>1. /\ Moved(t) /\ thread'[t].todo = <<>> /\ thread'[t].promises = FALSE
      /\ thread'[t].id = thread[t].id /\ thread'[t].target = thread[t].target
  BY Fails DEF DataOK
<1>2. thread[t].op \in Makers => MakerOK(thread[t])'
  <2> SUFFICES ASSUME thread[t].op \in Makers
               PROVE  MakerOK(thread[t])'
    OBVIOUS
  <2>1. MakerOK(thread[t]) /\ thread[t].id \in FileIds
    BY DEF DataOK, ThreadsOK, ThreadOK, TypeOK, ThreadStates
  <2>2. \A n, s : <<>> \notin {Checking(n), Making(n), Opening(n), Entering(n), Entered(n),
                               Counting(n), BothSyncs(s), DirSync(s)}
    BY MakingTails, SyncTails
  <2>3. thread'[t].op = thread[t].op
    BY <1>1 DEF Moved
  <2>4. thread[t].id # NoId => object'[thread[t].id].loaded
    BY <2>1, Sets DEF MakerOK
  <2> QED  BY <1>1, <2>1, <2>2, <2>3, <2>4 DEF MakerOK, Choosing, Linked, Written, Made
<1>3. thread[t].op \in Writers => WriterOK(thread[t])'
  <2> SUFFICES ASSUME thread[t].op \in Writers
               PROVE  WriterOK(thread[t])'
    OBVIOUS
  <2>1. WriterOK(thread[t])
    BY DEF DataOK, ThreadsOK, ThreadOK
  <2>2. \A n, s : <<>> \notin {Writing(n), ObjectSync(s)}
    BY SyncTails
  <2> QED  BY <1>1, <2>1, <2>2 DEF WriterOK, Made
<1>4. ThreadOK(t)'
  BY <1>1, <1>2, <1>3, ThreadKept
<1> QED  BY <1>1, <1>4

\* The places a handler that makes a file can be in differ.
LEMMA PlacesDiffer ==
  ASSUME NEW n, NEW s \in Syncs, NEW u \in Syncs
  PROVE  /\ Checking(n) \notin {Making(n), Opening(n), Entering(n), Entered(n), Counting(n),
                                BothSyncs(s), DirSync(s), <<>>}
         /\ Making(n) \notin {Opening(n), Entering(n), Entered(n), Counting(n),
                              BothSyncs(s), DirSync(s), <<>>}
         /\ Opening(n) \notin {Entering(n), Entered(n), Counting(n), BothSyncs(s), DirSync(s),
                               <<>>}
         /\ Entering(n) \notin {Entered(n), Counting(n), BothSyncs(s), DirSync(s), <<>>}
         /\ Entered(n) \notin {BothSyncs(s), DirSync(s), <<>>}
         /\ Counting(n) \notin {BothSyncs(s), DirSync(s), <<>>}
         /\ BothSyncs(s) \notin {DirSync(u), <<>>}
         /\ DirSync(s) # <<>>
<1> DEFINE h(q) == Head(q)
           Kind(q) == h(q)[1]
<1>1. /\ Kind(Checking(n)) = "absent" /\ Kind(Making(n)) = "alloc" /\ Kind(Opening(n)) = "choose"
      /\ Kind(Entering(n)) = "entry" /\ Kind(Entered(n)) = "refcnt"
      /\ Kind(Counting(n)) = "refcnt + 1"
  <2>1. /\ h(Checking(n)) = <<"absent", n>> /\ h(Making(n)) = <<"alloc", n>>
        /\ h(Opening(n)) = <<"choose", n>> /\ h(Entering(n)) = <<"entry", n>>
        /\ h(Entered(n)) = <<"refcnt", n>> /\ h(Counting(n)) = <<"refcnt + 1", n>>
    BY Zenon, MakingTails
  <2>2. \A x, y : <<x, y>>[1] = x
    OBVIOUS
  <2> QED  BY Zenon, <2>1, <2>2
<1>2. \A x \in Syncs : /\ Kind(BothSyncs(x)) = x /\ Kind(DirSync(x)) = x
                       /\ h(BothSyncs(x))[2] = "object" /\ h(DirSync(x))[2] = "dir"
  <2> TAKE x \in Syncs
  <2>1. h(BothSyncs(x)) = <<x, "object">> /\ h(DirSync(x)) = <<x, "dir">>
    BY Zenon, SyncTails
  <2> HIDE DEF h
  <2> QED  BY <2>1
<1>3. h(BothSyncs(s))[2] = "object" /\ h(DirSync(u))[2] = "dir"
  BY <1>2
<1>4. <<>> \notin {Checking(n), Making(n), Opening(n), Entering(n), Entered(n), Counting(n),
                   BothSyncs(s), DirSync(s)}
  BY MakingTails, SyncTails
<1> HIDE DEF h, Kind
<1>5. s \notin {"absent", "alloc", "choose", "entry", "refcnt", "refcnt + 1"}
  BY DEF Syncs
<1>6. BothSyncs(s) # DirSync(u)
  BY <1>3
<1>7. Kind(BothSyncs(s)) = s /\ Kind(DirSync(s)) = s
  BY <1>2
<1>8. /\ Checking(n) \notin {Making(n), Opening(n), Entering(n), Entered(n), Counting(n),
                             BothSyncs(s), DirSync(s), <<>>}
      /\ Making(n) \notin {Opening(n), Entering(n), Entered(n), Counting(n),
                           BothSyncs(s), DirSync(s), <<>>}
  BY <1>1, <1>4, <1>5, <1>7
<1>9. /\ Opening(n) \notin {Entering(n), Entered(n), Counting(n), BothSyncs(s), DirSync(s), <<>>}
      /\ Entering(n) \notin {Entered(n), Counting(n), BothSyncs(s), DirSync(s), <<>>}
  BY <1>1, <1>4, <1>5, <1>7
<1>10. /\ Entered(n) \notin {BothSyncs(s), DirSync(s), <<>>}
       /\ Counting(n) \notin {BothSyncs(s), DirSync(s), <<>>}
       /\ BothSyncs(s) \notin {DirSync(u), <<>>} /\ DirSync(s) # <<>>
  BY <1>1, <1>4, <1>5, <1>6, <1>7
<1> QED  BY <1>8, <1>9, <1>10

\* A handler that makes a file goes on.
LEMMA MakerGoesOn ==
  ASSUME DataOK, NEW t \in Threads, NEW s, At(t, s), s \notin {"alloc", "choose"},
         thread[t].op \in Makers, Moved(t), thread'[t].todo = Tail(thread[t].todo),
         thread'[t].id = thread[t].id, UNCHANGED regular,
         \A o \in Ids : object[o].loaded => object'[o].loaded
  PROVE  MakerOK(thread[t])'
<1> DEFINE r == thread[t]
           n == thread[t].name
<1>1. MakerOK(r) /\ r.id \in FileIds /\ TypeOK
  BY DEF DataOK, ThreadsOK, ThreadOK, TypeOK, ThreadStates
<1>2. /\ thread'[t].todo = Tail(r.todo) /\ thread'[t].id = r.id /\ thread'[t].op = r.op
      /\ thread'[t].name = n
  BY DEF Moved
<1>3. r.id # NoId => object'[r.id].loaded
  BY <1>1, Sets DEF MakerOK
<1>4. r.op = "create" => r.id \notin regular'
  BY <1>1 DEF MakerOK
<1>5. CASE s = "absent"
  <2>1. r.todo = Checking(n) /\ Tail(r.todo) = Making(n)
    <3>1. "absent" \notin Syncs
      BY DEF Syncs
    <3> QED  BY Zenon, <1>1, <1>5, <3>1, MakerSteps
  <2>2. r.id = NoId
    BY <1>1, <2>1 DEF MakerOK, Choosing
  <2>3. Choosing(thread[t])'
    BY <1>2, <2>1 DEF Choosing
  <2>4. ~(Linked(thread[t])' \/ Written(thread[t])' \/ Made(thread[t])') /\ Making(n) # Entering(n)
    BY <1>2, <2>1, PlacesDiffer DEF Linked, Written, Made, Syncs
  <2> QED  BY <1>2, <1>3, <1>4, <2>1, <2>2, <2>3, <2>4 DEF MakerOK
<1>6. CASE s # "absent"
  <2>1. \/ r.todo = Entering(n) /\ Tail(r.todo) = Entered(n)
        \/ r.todo = Entered(n) /\ Tail(r.todo) = Counting(n)
        \/ r.todo = Counting(n) /\ Tail(r.todo) = BothSyncs("sync")
        \/ \E u \in Syncs : r.todo = BothSyncs(u) /\ Tail(r.todo) = DirSync("sync")
        \/ \E u \in Syncs : r.todo = DirSync(u) /\ Tail(r.todo) = <<>>
    BY <1>1, <1>6, MakerSteps
  <2>2. r.id # NoId
    BY <1>1, <2>1 DEF MakerOK, Linked, Written
  <2>3. Linked(thread[t])' \/ Written(thread[t])' \/ thread'[t].todo = <<>>
    BY <1>2, <2>1 DEF Linked, Written, Syncs
  <2>4. Tail(r.todo) \notin {Checking(n), Making(n), Opening(n)}
    BY <2>1, PlacesDiffer DEF Syncs
  <2>5. ~Choosing(thread[t])'
    BY <1>2, <2>4 DEF Choosing
  <2> QED  BY <1>2, <1>3, <1>4, <2>2, <2>3, <2>5 DEF MakerOK
<1> QED  BY <1>5, <1>6

\* RENAME knows the file once it has found it.
LEMMA RenameKnows ==
  ASSUME DataOK, NEW t \in Threads, NEW s, At(t, s), s # "find", thread[t].op = "rename"
  PROVE  thread[t].id # NoId
<1>1. ~At(t, "find") /\ thread[t].todo # <<>>
  BY OneStep DEF At
<1> QED  BY <1>1 DEF DataOK, ThreadsOK, ThreadOK

-----------------------------------------------------------------------------
(* Each step                                                                  *)

LEMMA CheckAbsentKeeps ==
  ASSUME DataOK, NEW t \in Threads, CheckAbsent(t)
  PROVE  DataOK'
<1>1. /\ At(t, "absent") /\ UNCHANGED <<up, memory, diskLock, onDisk, history, ops, crashes>>
      /\ Advance(t) \/ Fail(t)
  BY DEF CheckAbsent
<1>2. /\ up /\ thread[t].op # "none" /\ ~At(t, "store") /\ thread[t].op \in {"create", "link"}
      /\ TypeOK
  BY <1>1, AtWork, OneStep, StepOf DEF DataOK
<1>3. SameData /\ UNCHANGED regular
  BY <1>1, <1>2 DEF SameData, memory, TypeOK
<1>4. Moved(t) /\ ThreadOK(t)' /\ thread'[t].id = thread[t].id
  <2>1. CASE Fail(t)
    BY <1>3, <2>1, FailKept DEF SameData
  <2>2. CASE Advance(t)
    <3>1. /\ Moved(t) /\ thread'[t].id = thread[t].id
          /\ thread'[t].target = thread[t].target
      BY <1>1, <1>2, <2>2, Advances
    <3>2. thread[t].op \in Makers => MakerOK(thread[t])'
      BY <1>1, <1>2, <1>3, <2>2, Advances, MakerGoesOn DEF SameData
    <3> QED  BY <1>2, <1>3, <3>1, <3>2, ThreadKept DEF SameData, Writers
  <2> QED  BY <1>1, <2>1, <2>2
<1>5. /\ entries' \in [Names -> FileIds] /\ diskEntries' \in [Names -> FileIds]
      /\ names' \in [Names -> FileIds]
  BY <1>1, <1>2 DEF memory, onDisk, history, TypeOK
<1> QED  BY <1>1, <1>2, <1>3, <1>4, <1>5, QuietStep DEF memory, onDisk, history

\* Handlers that neither make files nor write them go on.
LEMMA AdvanceKept ==
  ASSUME DataOK, NEW t \in Threads, NEW s, At(t, s), s # "find", Advance(t),
         thread[t].op \notin Writers, thread[t].op \in Makers => s \notin {"alloc", "choose"},
         \A o \in Ids : object[o].loaded => object'[o].loaded, UNCHANGED regular
  PROVE  Moved(t) /\ ThreadOK(t)' /\ thread'[t].id = thread[t].id
<1>1. /\ Moved(t) /\ thread'[t].id = thread[t].id
      /\ thread'[t].target = thread[t].target
  BY Advances DEF DataOK
<1>2. thread[t].op \in Makers => MakerOK(thread[t])'
  BY Advances, MakerGoesOn DEF DataOK
<1>3. thread[t].op = "rename" => thread[t].id # NoId
  BY RenameKnows
<1> QED  BY <1>1, <1>2, <1>3, ThreadKept

LEMMA UnlinkCountKeeps ==
  ASSUME DataOK, NEW t \in Threads, UnlinkCount(t)
  PROVE  DataOK'
<1>1. /\ At(t, "count") /\ Advance(t)
      /\ object' = [object EXCEPT ![thread[t].target].refcnt = @ - 1]
      /\ UNCHANGED <<up, entries, version, regular, nextid, diskLock, onDisk, history>>
  BY DEF UnlinkCount
<1>2. /\ up /\ thread[t].op # "none" /\ ~At(t, "store") /\ thread[t].op \in {"remove", "rename"}
      /\ TypeOK
  BY <1>1, AtWork, OneStep, StepOf DEF DataOK
<1>3. SameData
  <2>1. object \in [Ids -> Objects] /\ version' = version
    BY <1>1, <1>2 DEF TypeOK
  <2>2. PICK k : k = object[thread[t].target].refcnt - 1
    OBVIOUS
  <2>3. thread[t].target \in Ids => k \in Int
    BY <2>1, <2>2 DEF Objects
  <2>4. object' = [object EXCEPT ![thread[t].target].refcnt = k]
    BY <1>1, <2>2
  <2> QED  BY Zenon, <1>2, <2>1, <2>3, <2>4, SetRefcnt
<1>4. Moved(t) /\ ThreadOK(t)' /\ thread'[t].id = thread[t].id
  BY <1>1, <1>2, <1>3, AdvanceKept DEF SameData, Writers, Makers
<1>5. /\ entries' \in [Names -> FileIds] /\ diskEntries' \in [Names -> FileIds]
      /\ names' \in [Names -> FileIds]
  BY <1>1, <1>2 DEF onDisk, history, TypeOK
<1> QED  BY <1>1, <1>2, <1>3, <1>4, <1>5, QuietStep DEF onDisk, history

LEMMA UnlinkDeleteKeeps ==
  ASSUME DataOK, NEW t \in Threads, UnlinkDelete(t)
  PROVE  DataOK'
<1>1. /\ At(t, "delete") /\ Advance(t)
      /\ entries' = [entries EXCEPT ![Arg(t)] = NoId]
      /\ names' = [names EXCEPT ![Arg(t)] = NoId]
      /\ UNCHANGED <<up, object, version, regular, nextid, diskLock, onDisk, stable, torn>>
  BY DEF UnlinkDelete
<1>2. /\ up /\ thread[t].op # "none" /\ ~At(t, "store") /\ thread[t].op \in {"remove", "rename"}
      /\ TypeOK
  BY <1>1, AtWork, OneStep, StepOf DEF DataOK
<1>3. SameData
  BY <1>1, <1>2 DEF SameData, TypeOK
<1>4. Moved(t) /\ ThreadOK(t)' /\ thread'[t].id = thread[t].id
  BY <1>1, <1>2, <1>3, AdvanceKept DEF SameData, Writers, Makers
<1>5. /\ entries' \in [Names -> FileIds] /\ diskEntries' \in [Names -> FileIds]
      /\ names' \in [Names -> FileIds]
  BY <1>1, <1>2, Sets DEF onDisk, TypeOK
<1> QED  BY <1>1, <1>2, <1>3, <1>4, <1>5, QuietStep DEF onDisk

\* The file that a handler links is known.
LEMMA LinkerKnows ==
  ASSUME DataOK, NEW t \in Threads, NEW s \in {"entry", "refcnt", "refcnt + 1"}, At(t, s)
  PROVE  thread[t].id \in Files /\ thread[t].op \notin Writers
<1>1. /\ TypeOK /\ ThreadOK(t) /\ thread[t].op \in Makers \cup {"link", "rename"}
      /\ thread[t].id \in FileIds
  BY StepOf DEF DataOK, ThreadsOK, TypeOK, ThreadStates
<1>2. CASE thread[t].op \in Makers
  <2>1. MakerOK(thread[t])
    BY <1>1, <1>2 DEF ThreadOK
  <2>2. \/ thread[t].todo = Entering(thread[t].name)
        \/ thread[t].todo = Entered(thread[t].name)
        \/ thread[t].todo = Counting(thread[t].name)
    <3>1. s \notin Syncs /\ s \notin {"absent", "choose", "alloc"}
      BY DEF Syncs
    <3> QED  BY Zenon, <1>1, <1>2, <2>1, <3>1, MakerSteps
  <2>3. thread[t].id # NoId
    BY <2>1, <2>2 DEF MakerOK, Linked
  <2> QED  BY <1>1, <1>2, <2>3, Sets DEF Makers, Writers
<1>3. CASE thread[t].op = "link"
  BY <1>1, <1>3 DEF ThreadOK, TypeOK, Writers
<1>4. CASE thread[t].op = "rename"
  BY <1>1, <1>4, RenameKnows, Sets DEF Writers
<1> QED  BY <1>1, <1>2, <1>3, <1>4

LEMMA OneMore ==
  \A x \in Int : x + 1 \in Int
OBVIOUS

\* What obj.refcnt += 1 leaves
LEMMA LinkRefcntMoves ==
  ASSUME DataOK, NEW t \in Threads, LinkRefcnt(t)
  PROVE  /\ SameData /\ Moved(t) /\ thread'[t].todo = Tail(thread[t].todo)
         /\ thread'[t].id = thread[t].id /\ thread'[t].target = thread[t].target
<1>1. version' = version /\ TypeOK
  BY DEF LinkRefcnt, DataOK
<1>2. CASE At(t, "refcnt + 1")
  <2>1. /\ object' = [object EXCEPT ![thread[t].id].refcnt = thread[t].saw + 1]
        /\ Advance(t)
    BY <1>2, OneStep DEF LinkRefcnt
  <2>2. thread[t].saw \in Int
    BY <1>1 DEF TypeOK, ThreadStates
  <2>3. SameData
    <3>1. PICK k : k = thread[t].saw + 1
      OBVIOUS
    <3>2. k \in Int
      BY Zenon, <2>2, <3>1, OneMore
    <3>3. object' = [object EXCEPT ![thread[t].id].refcnt = k]
      BY Zenon, <2>1, <3>1
    <3> QED  BY Zenon, <1>1, <3>2, <3>3, SetRefcnt
  <2> QED  BY <1>1, <1>2, <2>1, <2>3, Advances
<1>3. CASE At(t, "refcnt")
  <2>1. /\ thread' = [thread EXCEPT ![t] =
                        [Then(t, Tail(@.todo)) EXCEPT !.saw = object[thread[t].id].refcnt]]
        /\ object' = object
    BY <1>3, OneStep DEF LinkRefcnt
  <2>2. object[thread[t].id].refcnt \in Int
    <3>1. "refcnt" \in {"entry", "refcnt", "refcnt + 1"}
      OBVIOUS
    <3>2. thread[t].id \in Ids
      BY <1>3, <3>1, LinkerKnows, Sets
    <3> QED  BY <1>1, <3>2 DEF TypeOK, Objects
  <2>3. SameData
    BY <1>1, <2>1 DEF SameData, TypeOK
  <2> QED  BY <1>1, <1>3, <2>1, <2>2, <2>3, GoesSeeing, AtStep
<1> QED  BY <1>2, <1>3 DEF LinkRefcnt

LEMMA LinkRefcntKeeps ==
  ASSUME DataOK, NEW t \in Threads, LinkRefcnt(t)
  PROVE  DataOK'
<1>1. UNCHANGED <<up, entries, version, regular, nextid, diskLock, onDisk, history>>
  BY DEF LinkRefcnt
<1>2. PICK s \in {"refcnt", "refcnt + 1"} : At(t, s)
  BY DEF LinkRefcnt
<1>3. /\ up /\ thread[t].op # "none" /\ ~At(t, "store") /\ TypeOK
      /\ thread[t].op \notin Writers /\ thread[t].id \in Files
  BY <1>2, AtWork, OneStep, LinkerKnows DEF DataOK
<1>4. /\ entries' \in [Names -> FileIds] /\ diskEntries' \in [Names -> FileIds]
      /\ names' \in [Names -> FileIds]
  BY <1>1, <1>3 DEF onDisk, history, TypeOK
<1>5. /\ SameData /\ Moved(t) /\ thread'[t].todo = Tail(thread[t].todo)
      /\ thread'[t].id = thread[t].id /\ thread'[t].target = thread[t].target
  BY LinkRefcntMoves
<1>6. thread[t].op \in Makers => MakerOK(thread[t])'
  BY <1>1, <1>2, <1>5, MakerGoesOn DEF SameData
<1>7. thread[t].op = "rename" => thread[t].id # NoId
  BY <1>3, Sets
<1>8. ThreadOK(t)'
  BY <1>1, <1>3, <1>5, <1>6, <1>7, ThreadKept DEF SameData
<1> QED  BY <1>1, <1>3, <1>4, <1>5, <1>8, QuietStep DEF onDisk, history

\* A handler finds the file it was given.
LEMMA WriterFinds ==
  ASSUME DataOK, NEW t \in Threads, At(t, "handle"), thread[t].op \in Writers,
         object[thread[t].id].loaded, UNCHANGED <<object, regular>>,
         Moved(t), thread'[t].todo = Tail(thread[t].todo), thread'[t].id = thread[t].id
  PROVE  WriterOK(thread[t])'
<1>1. TypeOK /\ WriterOK(thread[t])
  BY DEF DataOK, ThreadsOK, ThreadOK
<1>2. Tail(thread[t].todo) \in {Writing(thread[t].name), ObjectSync("sync")}
  <2>1. "handle" \notin Syncs
    BY DEF Syncs
  <2> QED  BY <1>1, <2>1, WriterSteps
<1>3. Tail(thread[t].todo) # <<>>
  BY <1>2, SyncTails
<1>4. thread'[t].name = thread[t].name
  BY DEF Moved
<1> QED  BY <1>1, <1>2, <1>3, <1>4 DEF WriterOK, Made, Syncs

LEMMA SoughtTyped ==
  ASSUME TypeOK, NEW t \in Threads, NEW s \in {"handle", "find", "target", "choose"}, At(t, s)
  PROVE  Sought(t) \in FileIds
<1>1. thread[t].id \in FileIds /\ s \notin Syncs
  BY DEF TypeOK, ThreadStates, Syncs
<1>2. Arg(t) \in Names
  BY <1>1, AtStep
<1> QED  BY <1>1, <1>2 DEF Sought, TypeOK

LEMMA FindKeeps ==
  ASSUME DataOK, NEW t \in Threads, Find(t)
  PROVE  DataOK'
<1>1. UNCHANGED <<up, memory, diskLock, onDisk, history>>
  BY DEF Find
<1>2. PICK s \in {"handle", "find", "target"} : At(t, s)
  BY DEF Find
<1>3. /\ up /\ thread[t].op # "none" /\ ~At(t, "store") /\ TypeOK /\ ThreadOK(t)
      /\ thread[t].op \notin Makers
  BY <1>2, AtWork, OneStep, StepOf DEF DataOK, ThreadsOK, Makers, Writers
<1>4. SameData /\ UNCHANGED regular
  BY <1>1, <1>3 DEF SameData, memory, TypeOK
<1>5. /\ entries' \in [Names -> FileIds] /\ diskEntries' \in [Names -> FileIds]
      /\ names' \in [Names -> FileIds]
  BY <1>1, <1>3 DEF memory, onDisk, history, TypeOK
<1>6. /\ Moved(t) /\ ThreadOK(t)'
      /\ thread[t].op \in Writers => thread'[t].id = thread[t].id
  <2>1. CASE Sought(t) = NoId
    BY <1>4, <2>1, FailKept DEF Find, SameData
  <2> DEFINE o == Sought(t)
  <2>2. CASE o # NoId
    <3>1. /\ o \in Files /\ object[o].loaded
          /\ Tail(thread[t].todo) \in Seq(PlanOf(thread[t].op))
      BY <1>2, <1>3, <2>2, SoughtTyped, AtStep, Sets DEF Find
    <3>2. CASE s = "target"
      <4>1. thread' = [thread EXCEPT ![t] = [Then(t, Tail(thread[t].todo)) EXCEPT !.target = o]]
        BY Zenon, <1>2, <2>2, <3>2 DEF Find
      <4>2. /\ Moved(t) /\ thread'[t].todo = Tail(thread[t].todo)
            /\ thread'[t].id = thread[t].id /\ thread'[t].target = o
        BY ZenonT(40), <1>3, <3>1, <4>1, GoesAt, Sets
      <4>3. thread[t].op \in {"remove", "rename"}
        BY <1>2, <1>3, <3>2, StepOf
      <4>4. thread[t].op = "rename" => thread[t].id # NoId
        BY <1>2, <3>2, RenameKnows
      <4>5. ThreadOK(t)'
        BY <1>1, <3>1, <4>2, <4>3, <4>4, NoneBegun DEF ThreadOK, Moved, memory, Makers, Writers
      <4> QED  BY <4>2, <4>5
    <3>3. CASE s \in {"handle", "find"}
      <4>1. ~At(t, "target") /\ (At(t, "handle") => s = "handle")
        BY <1>2, <3>3, OneStep
      <4>2. thread' = [thread EXCEPT ![t] = [Then(t, Tail(thread[t].todo)) EXCEPT !.id = o]]
        BY Zenon, <2>2, <4>1 DEF Find
      <4>3. /\ Moved(t) /\ thread'[t].todo = Tail(thread[t].todo)
            /\ thread'[t].id = o /\ thread'[t].target = thread[t].target
        BY ZenonT(40), <1>3, <3>1, <4>2, GoesWith, Sets
      <4>4. thread[t].op \in Writers \cup {"link"} => s = "handle" /\ o = thread[t].id
        BY <1>2, <1>3, <3>3, StepOf DEF Sought, Writers
      <4>5. thread[t].op \in Writers => WriterOK(thread[t])'
        BY <1>1, <1>2, <3>1, <4>3, <4>4, WriterFinds DEF memory
      <4>6. ThreadOK(t)'
        BY <1>1, <1>3, <3>1, <4>3, <4>4, <4>5, NoneBegun, Sets DEF ThreadOK, Moved, memory
      <4> QED  BY <4>3, <4>4, <4>6
    <3> QED  BY <3>2, <3>3
  <2> QED  BY <2>1, <2>2
<1>7. thread[t].op \in Makers /\ thread'[t].id = NoId => thread[t].id = NoId
  BY <1>3
<1> QED  BY <1>1, <1>3, <1>4, <1>5, <1>6, <1>7, QuietStep DEF memory, onDisk, history

LEMMA ReplaceMoves ==
  ASSUME TypeOK, NEW t \in Threads, Replace(t), thread[t].op = "rename",
         thread[t].name \in Names, thread[t].to \in Names
  PROVE  Moved(t) /\ thread'[t].id = thread[t].id /\ thread'[t].target = thread[t].target
<1> DEFINE new == thread[t].to
           old == thread[t].name
<1>1. PICK q : q = IF entries[new] = thread[t].id THEN <<>>
                   ELSE (IF entries[new] = NoId THEN <<>> ELSE Unlinking(new))
                        \o Linking(new) \o Unlinking(old)
  OBVIOUS
<1>2. q \in Seq(PlanOf("rename"))
  <2>1. /\ Unlinking(new) \in Seq(PlanOf("rename")) /\ Linking(new) \in Seq(PlanOf("rename"))
        /\ Unlinking(old) \in Seq(PlanOf("rename")) /\ <<>> \in Seq(PlanOf("rename"))
    BY Todos
  <2>2. \A x, y \in Seq(PlanOf("rename")) : x \o y \in Seq(PlanOf("rename"))
    BY ConcatProperties
  <2> HIDE DEF new, old
  <2> QED  BY <1>1, <2>1, <2>2
<1>3. thread' = [thread EXCEPT ![t] = Then(t, q)]
  BY <1>1 DEF Replace
<1> QED  BY <1>2, <1>3, Goes

LEMMA ReplaceKeeps ==
  ASSUME DataOK, NEW t \in Threads, Replace(t)
  PROVE  DataOK'
<1>1. At(t, "replace") /\ UNCHANGED <<up, memory, diskLock, onDisk, history>>
  BY DEF Replace
<1>2. /\ up /\ thread[t].op # "none" /\ ~At(t, "store") /\ TypeOK /\ thread[t].op = "rename"
      /\ thread[t].name \in Names /\ thread[t].to \in Names
  BY <1>1, AtWork, OneStep, StepOf, AtStep DEF DataOK
<1>3. SameData /\ UNCHANGED regular
  BY <1>1, <1>2 DEF SameData, memory, TypeOK
<1>4. /\ entries' \in [Names -> FileIds] /\ diskEntries' \in [Names -> FileIds]
      /\ names' \in [Names -> FileIds]
  BY <1>1, <1>2 DEF memory, onDisk, history, TypeOK
<1>5. /\ Moved(t) /\ thread'[t].id = thread[t].id /\ thread'[t].target = thread[t].target
  BY <1>2, ReplaceMoves
<1>6. thread[t].id # NoId
  BY <1>1, <1>2, RenameKnows
<1>7. ThreadOK(t)'
  BY <1>2, <1>3, <1>5, <1>6, ThreadKept DEF SameData, Makers, Writers
<1> QED  BY <1>1, <1>2, <1>3, <1>4, <1>5, <1>7, QuietStep DEF memory, onDisk, history

\* Nothing is said of an object that did not change, unless the disk loses it.
LEMMA LoadedKept ==
  ASSUME NEW o, LoadedOK(o), object'[o] = object[o], version'[o] = version[o],
         disk'[o] = disk[o], Safe(o) => Safe(o)'
  PROVE  LoadedOK(o)'
BY DEF LoadedOK, Stored

LEMMA LinkEntryKeeps ==
  ASSUME DataOK, NEW t \in Threads, LinkEntry(t)
  PROVE  DataOK'
<1>1. At(t, "entry") /\ UNCHANGED <<up, version, regular, nextid, diskLock, onDisk, history>>
  BY DEF LinkEntry
<1>2. /\ up /\ thread[t].op # "none" /\ ~At(t, "store") /\ TypeOK /\ Arg(t) \in Names
      /\ thread[t].op \notin Writers /\ thread[t].id \in Files
  <2>1. "entry" \notin Syncs
    BY DEF Syncs
  <2> QED  BY <1>1, <2>1, AtWork, OneStep, AtStep, LinkerKnows DEF DataOK
<1>3. diskEntries' \in [Names -> FileIds] /\ names' \in [Names -> FileIds]
  BY <1>1, <1>2 DEF onDisk, history, TypeOK
<1>4. CASE Fail(t) /\ UNCHANGED <<entries, object>>
  <2>1. SameData /\ UNCHANGED regular
    BY <1>1, <1>2, <1>4 DEF SameData, TypeOK
  <2>2. Moved(t) /\ ThreadOK(t)' /\ thread'[t].id = thread[t].id
    BY <1>4, <2>1, FailKept DEF SameData
  <2>3. entries' \in [Names -> FileIds]
    BY <1>2, <1>4 DEF TypeOK
  <2> QED  BY <1>1, <1>2, <1>3, <2>1, <2>2, <2>3, QuietStep DEF onDisk, history
<1>5. CASE /\ entries' = [entries EXCEPT ![Arg(t)] = thread[t].id]
           /\ object' = [object EXCEPT ![Dir].change = @ + 1]
           /\ Advance(t)
  <2>1. entries' \in [Names -> FileIds]
    BY <1>2, <1>5, Sets DEF TypeOK
  <2>2. /\ object' \in [Ids -> Objects] /\ \A o \in Ids \ {Dir} : object'[o] = object[o]
        /\ object'[Dir].loaded = object[Dir].loaded
        /\ object'[Dir].change = object[Dir].change + 1
        /\ object'[Dir].lastSync = object[Dir].lastSync
        /\ object[Dir].change \in Nat /\ object[Dir].lastSync \in Nat
    <3>1. object[Dir].change \in Nat /\ object[Dir].lastSync \in Nat
      BY <1>2, Sets DEF TypeOK, Objects
    <3>2. PICK k : k = object[Dir].change + 1
      OBVIOUS
    <3>3. k \in Nat
      BY <3>1, <3>2
    <3>4. object' = [object EXCEPT ![Dir].change = k]
      BY Zenon, <1>5, <3>2
    <3> QED  BY ZenonT(40), <1>2, <3>1, <3>2, <3>3, <3>4, SetChange, Sets
  <2>3. \A o \in Ids : object'[o].loaded = object[o].loaded
    BY <2>2
  <2>4. Moved(t) /\ ThreadOK(t)' /\ thread'[t].id = thread[t].id
    <3>1. thread[t].op \in Makers => "entry" \notin {"alloc", "choose"}
      OBVIOUS
    <3> QED  BY <1>1, <1>2, <1>5, <2>3, <3>1, AdvanceKept
  <2>5. \A o \in Ids : Safe(o) => Safe(o)'
    BY <1>1, <1>2, <2>4, SafeKept DEF DataOK, IdsOK, Moved, onDisk, history
  <2>6. \A o \in Ids : object'[o].loaded => LoadedOK(o)' /\ o <= diskNextid
    <3> SUFFICES ASSUME NEW o \in Ids, object'[o].loaded
                 PROVE  LoadedOK(o)' /\ o <= diskNextid
      OBVIOUS
    <3>1. LoadedOK(o) /\ o <= diskNextid
      BY <2>3 DEF DataOK, MemoryOK, IdsOK
    <3>2. version'[o] = version[o] /\ disk'[o] = disk[o]
      BY <1>1 DEF onDisk
    <3>3. CASE o # Dir
      BY <2>2, <2>5, <3>1, <3>2, <3>3, LoadedKept
    <3>4. CASE o = Dir
      <4>1. version[Dir] \in Nat
        BY <1>2, Sets DEF TypeOK
      <4> QED  BY <2>2, <3>1, <3>2, <3>4, <4>1 DEF LoadedOK
    <3> QED  BY <3>1, <3>3, <3>4
  <2>7. version' \in [Ids -> Nat] /\ stable' \in [Ids -> Nat]
    BY <1>1, <1>2 DEF TypeOK, history
  <2>8. \A o \in Files : stable'[o] > 0 => disk[o].version >= stable'[o] /\ Safe(o)
    BY <1>1 DEF DataOK, StableOK, history
  <2> QED  BY <1>1, <1>2, <1>3, <2>1, <2>2, <2>3, <2>4, <2>6, <2>7, <2>8, CalmStep
           DEF onDisk, history
<1> QED  BY <1>4, <1>5 DEF LinkEntry

\* OPEN, REMOVE and RENAME run alone.
LEMMA Alone ==
  ASSUME DataOK, Locked, NEW t \in Threads, thread[t].op \in {"open", "remove", "rename"},
         NEW u \in Threads \ {t}
  PROVE  /\ thread[u].op = "none" /\ thread[u].todo = <<>> /\ \A o : ~Holds(u, o)
<1>1. TypeOK /\ Exclusive
  BY DEF DataOK
<1>2. thread[u].op = "none"
  BY <1>1 DEF Exclusive, Locked
<1>3. thread[u].todo = <<>>
  <2>1. ASSUME thread[u].todo # <<>>
        PROVE  FALSE
    <3>1. At(u, Head(thread[u].todo)[1])
      BY <2>1 DEF At
    <3> QED  BY <1>1, <1>2, <3>1, AtStep
  <2> QED  BY <2>1
<1> QED  BY <1>2, <1>3 DEF Holds, At, Writers

LEMMA ChooseOpenKeeps ==
  ASSUME DataOK, Locked, NEW t \in Threads, ChooseOpen(t)
  PROVE  DataOK'
<1>1. At(t, "choose") /\ UNCHANGED <<up, entries, regular, nextid, diskLock, onDisk, history>>
  BY DEF ChooseOpen
<1>2. /\ up /\ thread[t].op = "open" /\ ~At(t, "store") /\ TypeOK /\ Arg(t) \in Names
      /\ thread[t].name \in Names
  <2>1. "choose" \notin Syncs
    BY DEF Syncs
  <2> QED  BY <1>1, <2>1, AtWork, OneStep, AtStep, StepOf DEF DataOK
<1>3. /\ entries' \in [Names -> FileIds] /\ diskEntries' \in [Names -> FileIds]
      /\ names' \in [Names -> FileIds]
  BY <1>1, <1>2 DEF onDisk, history, TypeOK
<1>4. /\ MakerOK(thread[t]) /\ thread[t].todo = Opening(thread[t].name)
      /\ Arg(t) = thread[t].name
  <2>1. MakerOK(thread[t])
    BY <1>2 DEF DataOK, ThreadsOK, ThreadOK, Makers
  <2>2. "choose" \notin Syncs /\ thread[t].op \in Makers
    BY <1>2 DEF Syncs, Makers
  <2> QED  BY Zenon, <1>1, <1>2, <2>1, <2>2, MakerSteps
<1>5. thread[t].id = NoId
  BY <1>4 DEF MakerOK, Choosing
<1>6. UNCHANGED <<object, version>> => SameData
  BY <1>2 DEF SameData, TypeOK
<1> DEFINE o == entries[Arg(t)]
<1>7. CASE Fail(t) /\ UNCHANGED <<object, version>>
  <2>1. Moved(t) /\ ThreadOK(t)' /\ thread'[t].id = thread[t].id
    BY <1>1, <1>6, <1>7, FailKept DEF SameData
  <2> QED  BY <1>1, <1>2, <1>3, <1>6, <1>7, <2>1, QuietStep DEF onDisk, history, Writers
<1>8. CASE /\ thread' = [thread EXCEPT ![t] = Then(t, Making(Arg(t)))]
           /\ UNCHANGED <<object, version>>
  <2>1. Making(Arg(t)) \in Seq(PlanOf(thread[t].op))
    BY <1>2, Todos
  <2>2. /\ Moved(t) /\ thread'[t].todo = Making(thread[t].name)
        /\ thread'[t].id = NoId /\ thread'[t].target = thread[t].target
    BY <1>2, <1>4, <1>5, <1>8, <2>1, Goes
  <2>3. thread'[t].name = thread[t].name /\ thread'[t].op = thread[t].op
    BY <2>2 DEF Moved
  <2>4. MakerOK(thread[t])'
    <3>1. Choosing(thread[t])'
      BY <2>2, <2>3 DEF Choosing
    <3>2. ~Linked(thread[t])' /\ ~Written(thread[t])' /\ ~Made(thread[t])'
      BY <2>2, <2>3, PlacesDiffer DEF Linked, Written, Made, Syncs
    <3>3. Making(thread[t].name) # Entering(thread[t].name)
      BY PlacesDiffer DEF Syncs
    <3> QED  BY <1>2, <2>2, <2>3, <3>1, <3>2, <3>3 DEF MakerOK
  <2>5. ThreadOK(t)'
    BY <1>1, <1>2, <1>5, <1>6, <1>8, <2>2, <2>4, ThreadKept DEF SameData, Writers
  <2> QED  BY <1>1, <1>2, <1>3, <1>5, <1>6, <1>8, <2>2, <2>5, QuietStep
           DEF onDisk, history, Writers
<1>9. CASE /\ o # NoId /\ object[o].loaded
           /\ thread' = [thread EXCEPT ![t] =
                [Then(t, <<<<"sync", "object">>, <<"sync", "dir">>>>) EXCEPT !.id = o]]
           /\ \/ UNCHANGED <<object, version>>
              \/ /\ object' = [object EXCEPT ![o].change = @ + 2]
                 /\ version' = [version EXCEPT ![o] = @ + 1]
  <2>1. o \in Files /\ o \in Ids /\ BothSyncs("sync") \in Seq(PlanOf(thread[t].op))
    BY <1>2, <1>9, Sets, Todos DEF TypeOK
  <2>2. thread' = [thread EXCEPT ![t] = [Then(t, BothSyncs("sync")) EXCEPT !.id = o]]
    BY Zenon, <1>9 DEF BothSyncs
  <2>3. /\ Moved(t) /\ thread'[t].todo = BothSyncs("sync")
        /\ thread'[t].id = o /\ thread'[t].target = thread[t].target
    <3>1. o \in FileIds
      BY <2>1, Sets
    <3> HIDE DEF o
    <3> QED  BY Zenon, <1>2, <2>1, <2>2, <3>1, GoesWith
  <2>4. thread'[t].name = thread[t].name /\ thread'[t].op = thread[t].op
    BY <2>3 DEF Moved
  <2>5. ASSUME \A i \in Ids : object[i].loaded => object'[i].loaded
        PROVE  ThreadOK(t)'
    <3>1. Linked(thread[t])' /\ ~Choosing(thread[t])'
      BY <2>3, <2>4, PlacesDiffer DEF Linked, Choosing, Syncs
    <3>2. MakerOK(thread[t])'
      BY <1>2, <1>9, <2>1, <2>3, <2>4, <2>5, <3>1 DEF MakerOK
    <3>3. ThreadOK(t) /\ thread[t].target \in FileIds
      BY <1>2 DEF DataOK, ThreadsOK, TypeOK, ThreadStates
    <3>4. thread[t].target # NoId => object'[thread[t].target].loaded
      BY <2>5, <3>3, Sets DEF ThreadOK
    <3> QED  BY <1>2, <2>3, <2>4, <3>2, <3>4, NoneBegun DEF ThreadOK, Writers
  <2>6. CASE UNCHANGED <<object, version>>
    <3>1. ThreadOK(t)'
      BY <2>5, <2>6
    <3> QED  BY <1>1, <1>2, <1>3, <1>5, <1>6, <2>3, <2>6, <3>1, QuietStep
             DEF onDisk, history, Writers
  <2>7. CASE /\ object' = [object EXCEPT ![o].change = @ + 2]
             /\ version' = [version EXCEPT ![o] = @ + 1]
    <3>1. /\ object' \in [Ids -> Objects] /\ \A i \in Ids \ {o} : object'[i] = object[i]
          /\ object'[o].loaded = object[o].loaded
          /\ object'[o].change = object[o].change + 2
          /\ object'[o].lastSync = object[o].lastSync
          /\ object[o].change \in Nat /\ object[o].lastSync \in Nat
      <4>1. object[o].change \in Nat /\ object[o].lastSync \in Nat
        BY <1>2, <2>1 DEF TypeOK, Objects
      <4>2. PICK k : k = object[o].change + 2
        OBVIOUS
      <4>3. k \in Nat
        BY <4>1, <4>2
      <4>4. object' = [object EXCEPT ![o].change = k]
        BY Zenon, <2>7, <4>2
      <4> QED  BY <1>2, <2>1, <4>1, <4>2, <4>3, <4>4, SetChange
    <3>2. /\ version' \in [Ids -> Nat] /\ version'[o] = version[o] + 1
          /\ version[o] \in Nat /\ disk[o].version \in Nat
          /\ \A i \in Ids \ {o} : version'[i] = version[i]
      BY <1>2, <2>1, <2>7 DEF TypeOK, DiskObjects
    <3>3. \A i \in Ids : object'[i].loaded = object[i].loaded
      BY <3>1
    <3>4. ThreadOK(t)'
      BY <2>5, <3>3
    <3>5. \A i \in Ids : Safe(i) => Safe(i)'
      BY <1>1, <1>2, <2>3, SafeKept DEF DataOK, IdsOK, Moved, onDisk, history
    <3>6. ASSUME NEW i \in Ids, object'[i].loaded
          PROVE  LoadedOK(i)' /\ i <= diskNextid
      <4>1. LoadedOK(i) /\ i <= diskNextid
        BY <3>3, <3>6 DEF DataOK, MemoryOK, IdsOK
      <4>2. disk'[i] = disk[i]
        BY <1>1 DEF onDisk
      <4>3. CASE i # o
        BY <3>1, <3>2, <3>5, <4>1, <4>2, <4>3, LoadedKept
      <4>4. CASE i = o
        BY <3>1, <3>2, <4>1, <4>2, <4>4 DEF LoadedOK
      <4> QED  BY <4>1, <4>3, <4>4
    <3>7. stable' \in [Ids -> Nat]
      BY <1>1, <1>2 DEF TypeOK, history
    <3>8. \A i \in Files : stable'[i] > 0 => disk[i].version >= stable'[i] /\ Safe(i)
      BY <1>1 DEF DataOK, StableOK, history
    <3>9. \A u \in Threads \ {t}, i \in Ids : ~Holds(u, i)
      BY <1>2, Alone
    <3>10. version'[Dir] = version[Dir]
      BY <2>1, <3>2, Sets
    <3> QED  BY <1>1, <1>2, <1>3, <2>3, <3>1, <3>2, <3>3, <3>4, <3>6, <3>7, <3>8, <3>9, <3>10,
                <1>5, CalmStep DEF onDisk, history, Writers
  <2> QED  BY <1>9, <2>6, <2>7
<1> QED  BY Zenon, <1>7, <1>8, <1>9 DEF ChooseOpen

\* A thread that stays where it is
LEMMA Stays ==
  ASSUME TypeOK, NEW t \in Threads, NEW s, s \notin {"store", "mark"}, At(t, s), UNCHANGED thread
  PROVE  Moved(t)
<1>1. /\ thread[t].todo \in Seq(Steps) /\ thread[t].todo # <<>>
      /\ Head(thread[t].todo) = <<s, Arg(t)>>
      /\ <<s, Arg(t)>> \in StepsOf(thread[t].op)
      /\ Tail(thread[t].todo) \in Seq(PlanOf(thread[t].op))
  BY AtStep DEF At, TypeOK, ThreadStates
<1>2. Head(thread[t].todo) \in PlanOf(thread[t].op)
  <2>1. \A x, y : <<x, y>>[1] = x
    OBVIOUS
  <2> QED  BY <1>1, <2>1 DEF PlanOf
<1>3. ASSUME NEW S, NEW T, NEW q \in Seq(S), q # <<>>, Head(q) \in T, Tail(q) \in Seq(T)
      PROVE  q \in Seq(T)
  <2>1. \A i \in 1..Len(q) : q[i] \in T
    <3> TAKE i \in 1..Len(q)
    <3>1. CASE i = 1
      BY <1>3, <3>1
    <3>2. CASE i # 1
      <4>1. i - 1 \in 1..Len(Tail(q)) /\ Tail(q)[i - 1] = q[i]
        BY <1>3, <3>2
      <4> QED  BY <1>3, <4>1
    <3> QED  BY <3>1, <3>2
  <2> QED  BY <1>3, <2>1
<1>4. thread[t].todo \in Seq(PlanOf(thread[t].op))
  BY <1>1, <1>2, <1>3
<1> QED  BY <1>4 DEF Moved, TypeOK

LEMMA LoadKeeps ==
  ASSUME DataOK, NEW t \in Threads, Load(t)
  PROVE  DataOK'
<1>0. PICK o : o = Sought(t)
  OBVIOUS
<1>1. /\ UNCHANGED <<up, entries, regular, nextid, diskLock, onDisk, history>>
      /\ o # NoId /\ ~object[o].loaded
  BY <1>0 DEF Load
<1>2. PICK s \in {"handle", "find", "target", "choose"} : At(t, s)
  BY DEF Load
<1>3. /\ up /\ thread[t].op # "none" /\ ~At(t, "store") /\ TypeOK /\ ThreadOK(t)
  BY <1>2, AtWork, OneStep DEF DataOK, ThreadsOK
<1>4. /\ entries' \in [Names -> FileIds] /\ diskEntries' \in [Names -> FileIds]
      /\ names' \in [Names -> FileIds]
  BY <1>1, <1>3 DEF onDisk, history, TypeOK
<1>5. o \in Files /\ o \in Ids
  BY <1>0, <1>1, <1>2, <1>3, SoughtTyped, Sets
<1>6. CASE Fail(t) /\ UNCHANGED <<object, version>>
  <2>1. SameData
    BY <1>3, <1>6 DEF SameData, TypeOK
  <2>2. Moved(t) /\ ThreadOK(t)' /\ thread'[t].id = thread[t].id
    BY <1>1, <1>6, FailKept
  <2> QED  BY <1>1, <1>3, <1>4, <2>1, <2>2, QuietStep DEF onDisk, history
<1>7. CASE /\ disk[o].whole
           /\ object' = [object EXCEPT ![o] =
                [loaded |-> TRUE, change |-> disk[o].change, lastSync |-> disk[o].change,
                 refcnt |-> disk[o].refcnt]]
           /\ version' = [version EXCEPT ![o] = disk[o].version]
           /\ UNCHANGED thread
  <2>1. /\ disk[o].change \in Nat /\ disk[o].refcnt \in Int /\ disk[o].version \in Nat
        /\ disk[o].version <= disk[o].change /\ disk[o].change > 0 /\ o <= diskNextid
    BY <1>3, <1>5, <1>7 DEF DataOK, DiskOK, TypeOK, DiskObjects
  <2>2. PICK x : x = [loaded |-> TRUE, change |-> disk[o].change, lastSync |-> disk[o].change,
                      refcnt |-> disk[o].refcnt]
    OBVIOUS
  <2>3. /\ x \in Objects /\ x.loaded /\ x.change = disk[o].change
        /\ x.lastSync = disk[o].change
    BY <2>1, <2>2 DEF Objects
  <2>4. object' = [object EXCEPT ![o] = x]
    BY <1>7, <2>2
  <2>5. /\ object' \in [Ids -> Objects] /\ object'[o] = x
        /\ \A i \in Ids \ {o} : object'[i] = object[i]
    BY <1>3, <1>5, <2>3, <2>4 DEF TypeOK
  <2>6. /\ version' \in [Ids -> Nat] /\ version'[o] = disk[o].version
        /\ \A i \in Ids \ {o} : version'[i] = version[i]
    BY <1>3, <1>5, <1>7, <2>1 DEF TypeOK
  <2>7. \A i \in Ids : object[i].loaded => i # o /\ object'[i].loaded
    BY <1>1, <2>5
  <2>8. Moved(t)
    BY <1>2, <1>3, <1>7, Stays
  <2>9. ThreadOK(t)'
    <3>2. thread[t].op \in Makers => MakerOK(thread[t])'
      <4>1. thread[t].id \in FileIds
        BY <1>3 DEF TypeOK, ThreadStates
      <4> QED  BY <1>1, <1>3, <1>7, <2>7, <4>1, Sets
               DEF ThreadOK, MakerOK, Choosing, Linked, Written, Made
    <3>3. thread[t].op \in Writers => WriterOK(thread[t])'
      <4>1. thread[t].todo # <<>>
        BY <1>2 DEF At
      <4>2. thread[t].id \in regular => thread[t].id \in Ids
        BY <1>3, Sets DEF TypeOK
      <4> QED  BY <1>1, <1>3, <1>7, <2>7, <4>1, <4>2 DEF ThreadOK, WriterOK, Made
    <3>4. thread[t].target # NoId => object'[thread[t].target].loaded
      <4>1. thread[t].target \in FileIds
        BY <1>3 DEF TypeOK, ThreadStates
      <4> QED  BY <1>3, <2>7, <4>1, Sets DEF ThreadOK
    <3>5. ~At(t, "mark")' /\ At(t, "find")' = At(t, "find")
      BY <1>2, <1>7, OneStep DEF At
    <3> QED  BY <1>1, <1>3, <1>7, <3>2, <3>3, <3>4, <3>5 DEF ThreadOK
  <2>10. \A i \in Ids : Safe(i) => Safe(i)'
    BY <1>1, <1>3, <1>7, SafeKept DEF DataOK, IdsOK, onDisk, history
  <2>11. ASSUME NEW i \in Ids, object'[i].loaded
         PROVE  LoadedOK(i)' /\ i <= diskNextid
    <3>1. CASE i # o
      <4>1. LoadedOK(i) /\ i <= diskNextid
        BY <2>5, <2>11, <3>1 DEF DataOK, MemoryOK, IdsOK
      <4> QED  BY <1>1, <2>5, <2>6, <2>10, <3>1, <4>1, LoadedKept DEF onDisk
    <3>2. CASE i = o
      <4>1. Safe(o)
        BY <1>7, <2>1 DEF Safe, Readable
      <4>2. Stored(o)'
        BY <1>1, <1>5, <2>3, <2>5, <2>6, <2>10, <4>1 DEF Stored, onDisk
      <4> QED  BY <1>1, <2>1, <2>3, <2>5, <2>6, <3>2, <4>2 DEF LoadedOK, onDisk
    <3> QED  BY <3>1, <3>2
  <2>12. stable' \in [Ids -> Nat]
    BY <1>1, <1>3 DEF TypeOK, history
  <2>13. \A i \in Files : stable'[i] > 0 => disk[i].version >= stable'[i] /\ Safe(i)
    BY <1>1 DEF DataOK, StableOK, history
  <2>14. version'[Dir] = version[Dir]
    BY <1>5, <2>6, Sets
  <2> QED  BY <1>1, <1>3, <1>4, <1>7, <2>5, <2>6, <2>7, <2>8, <2>9, <2>11, <2>12, <2>13, <2>14,
              CalmStep DEF onDisk, history
<1> QED  BY <1>0, <1>6, <1>7 DEF Load

LEMMA SyncedIs ==
  ASSUME NEW t \in Threads
  PROVE  /\ Arg(t) = "dir" => Synced(t) = Dir
         /\ Arg(t) = "object" => Synced(t) = thread[t].id
         /\ Arg(t) = "target" => Synced(t) = thread[t].target
BY DEF Synced

\* No other handler counts on the file that is written.
LEMMA WriterIsAlone ==
  ASSUME DataOK, Locked, NEW t \in Threads, At(t, "write"), NEW u \in Threads \ {t}
  PROVE  ~Holds(u, thread[t].id)
<1>1. /\ TypeOK /\ Exclusive /\ thread[t].op = "write" /\ ThreadOK(t) /\ ThreadOK(u)
  BY StepOf DEF DataOK, ThreadsOK
<1>2. thread[t].id \in regular /\ thread[t].id # Dir
  BY <1>1, Sets DEF ThreadOK, WriterOK, Writers, TypeOK
<1>3. thread[u].op \in Writers => thread[u].id # thread[t].id
  BY <1>1 DEF Exclusive, Writers
<1>4. ASSUME At(u, "mark"), Synced(u) = thread[t].id
      PROVE  thread[u].op \in Writers /\ thread[u].id = thread[t].id
  <2>1. thread[u].op # "none" /\ Arg(u) \in {"dir", "object", "target"}
    BY <1>1, <1>4, AtStep DEF Syncs
  <2>2. thread[u].op \notin {"open", "remove", "rename"}
    BY <1>1, <2>1 DEF Exclusive, Locked
  <2>3. Arg(u) # "dir"
    BY <1>2, <1>4, SyncedIs
  <2>4. Arg(u) # "target"
    BY <1>1, <1>4, <2>2, StepOf DEF Syncs
  <2>5. thread[u].id = thread[t].id /\ thread[u].op \in Makers \cup Writers
    BY <1>1, <1>4, <2>1, <2>3, <2>4, StepOf, SyncedIs DEF Syncs
  <2>6. thread[u].op # "create"
    BY <1>1, <1>2, <2>5 DEF ThreadOK, MakerOK, Makers
  <2> QED  BY <2>2, <2>5, <2>6 DEF Makers
<1> QED  BY <1>3, <1>4 DEF Holds

LEMMA WriteKeeps ==
  ASSUME DataOK, Locked, NEW t \in Threads, Write(t)
  PROVE  DataOK'
<1>1. At(t, "write") /\ UNCHANGED <<up, entries, regular, nextid, diskLock, onDisk, history>>
  BY DEF Write
<1>2. /\ up /\ thread[t].op = "write" /\ ~At(t, "store") /\ TypeOK /\ WriterOK(thread[t])
  BY <1>1, AtWork, OneStep, StepOf DEF DataOK, ThreadsOK, ThreadOK, Writers
<1>3. /\ entries' \in [Names -> FileIds] /\ diskEntries' \in [Names -> FileIds]
      /\ names' \in [Names -> FileIds] /\ stable' \in [Ids -> Nat]
  BY <1>1, <1>2 DEF onDisk, history, TypeOK
<1>4. PICK o : o = thread[t].id
  OBVIOUS
<1>5. o \in Files /\ o \in Ids /\ object[o].loaded
  <2>1. "write" \notin Syncs /\ thread[t].op \in Writers
    BY <1>2 DEF Syncs, Writers
  <2>2. thread[t].todo = Writing(thread[t].name)
    BY Zenon, <1>1, <1>2, <2>1, WriterSteps
  <2> QED  BY <1>2, <1>4, <2>2, Sets DEF WriterOK, TypeOK
<1>6. /\ object' \in [Ids -> Objects] /\ \A i \in Ids \ {o} : object'[i] = object[i]
      /\ object'[o].loaded = object[o].loaded
      /\ object'[o].change = object[o].change + 1
      /\ object'[o].lastSync = object[o].lastSync
      /\ object[o].change \in Nat /\ object[o].lastSync \in Nat
  <2>1. object[o].change \in Nat /\ object[o].lastSync \in Nat
    BY <1>2, <1>5 DEF TypeOK, Objects
  <2>2. PICK k : k = object[o].change + 1
    OBVIOUS
  <2>3. k \in Nat
    BY <2>1, <2>2
  <2>4. object' = [object EXCEPT ![o].change = k]
    BY <1>4, <2>2 DEF Write
  <2> QED  BY <1>2, <1>5, <2>1, <2>2, <2>3, <2>4, SetChange
<1>7. /\ version' \in [Ids -> Nat] /\ version'[o] = version[o] + 1
      /\ version[o] \in Nat /\ disk[o].version \in Nat
      /\ \A i \in Ids \ {o} : version'[i] = version[i]
  BY <1>2, <1>4, <1>5 DEF TypeOK, DiskObjects, Write
<1>8. \A i \in Ids : object'[i].loaded = object[i].loaded
  BY <1>6
<1>9. Moved(t) /\ ThreadOK(t)' /\ thread'[t].id = thread[t].id
  <2>1. CASE Fail(t)
    BY <1>1, <1>8, <2>1, FailKept
  <2>2. CASE thread' = [thread EXCEPT ![t] = Then(t, <<<<"sync", "object">>>>)]
    <3>1. ObjectSync("sync") \in Seq(PlanOf(thread[t].op))
      <4>1. thread[t].name \in Names
        BY <1>1, <1>2, AtStep
      <4> QED  BY <1>2, <4>1, Todos
    <3>2. thread' = [thread EXCEPT ![t] = Then(t, ObjectSync("sync"))]
      BY Zenon, <2>2 DEF ObjectSync
    <3>3. /\ Moved(t) /\ thread'[t].todo = ObjectSync("sync")
          /\ thread'[t].id = thread[t].id /\ thread'[t].target = thread[t].target
      BY Zenon, <1>2, <3>1, <3>2, Goes
    <3>4. WriterOK(thread[t])'
      <4>1. ObjectSync("sync") # <<>>
        BY SyncTails
      <4> QED  BY <1>1, <1>2, <1>4, <1>5, <1>8, <3>3, <4>1 DEF WriterOK, Made, Syncs
    <3> QED  BY <1>1, <1>2, <1>8, <3>3, <3>4, ThreadKept DEF Makers
  <2> QED  BY Zenon, <2>1, <2>2 DEF Write
<1>10. \A i \in Ids : Safe(i) => Safe(i)'
  BY <1>1, <1>2, <1>9, SafeKept DEF DataOK, IdsOK, Moved, onDisk, history
<1>11. ASSUME NEW i \in Ids, object'[i].loaded
       PROVE  LoadedOK(i)' /\ i <= diskNextid
  <2>1. LoadedOK(i) /\ i <= diskNextid
    BY <1>8, <1>11 DEF DataOK, MemoryOK, IdsOK
  <2>2. disk'[i] = disk[i]
    BY <1>1 DEF onDisk
  <2>3. CASE i # o
    BY <1>6, <1>7, <1>10, <2>1, <2>2, <2>3, LoadedKept
  <2>4. CASE i = o
    BY <1>6, <1>7, <2>1, <2>2, <2>4 DEF LoadedOK
  <2> QED  BY <2>1, <2>3, <2>4
<1>12. \A i \in Files : stable'[i] > 0 => disk[i].version >= stable'[i] /\ Safe(i)
  BY <1>1 DEF DataOK, StableOK, history
<1>13. \A u \in Threads \ {t}, i \in Ids : Holds(u, i) => i # o
  BY <1>1, <1>4, WriterIsAlone
<1>14. version'[Dir] = version[Dir]
  BY <1>5, <1>7, Sets
<1> QED  BY <1>1, <1>2, <1>3, <1>6, <1>7, <1>8, <1>9, <1>11, <1>12, <1>13, <1>14,
            CalmStep DEF onDisk, history, Writers, Makers

LEMMA SyncMarkKeeps ==
  ASSUME DataOK, NEW t \in Threads, SyncMark(t)
  PROVE  DataOK'
<1>1. /\ At(t, "mark") /\ Advance(t)
      /\ UNCHANGED <<up, entries, version, regular, nextid, diskLock, onDisk, history>>
  BY DEF SyncMark
<1>2. /\ up /\ thread[t].op # "none" /\ ~At(t, "store") /\ TypeOK /\ ThreadOK(t)
  BY <1>1, AtWork, OneStep DEF DataOK, ThreadsOK
<1>3. /\ entries' \in [Names -> FileIds] /\ diskEntries' \in [Names -> FileIds]
      /\ names' \in [Names -> FileIds] /\ stable' \in [Ids -> Nat] /\ version' \in [Ids -> Nat]
  BY <1>1, <1>2 DEF onDisk, history, TypeOK
<1>4. PICK o : o = Synced(t)
  OBVIOUS
<1>5. o \in Ids => Stored(o) /\ object[o].change \in Nat
  BY <1>1, <1>2, <1>4 DEF ThreadOK, TypeOK, Objects
<1>6. /\ object' \in [Ids -> Objects]
      /\ \A i \in Ids : i # o => object'[i] = object[i]
      /\ o \in Ids => /\ object'[o].loaded = object[o].loaded
                      /\ object'[o].change = object[o].change
                      /\ object'[o].lastSync = object[o].change
  <2>1. PICK k : k = object[o].change
    OBVIOUS
  <2>2. object' = [object EXCEPT ![o].lastSync = k]
    BY <1>4, <2>1 DEF SyncMark
  <2> QED  BY <1>2, <1>5, <2>1, <2>2, SetLastSync
<1>7. \A i \in Ids : object'[i].loaded = object[i].loaded
  BY <1>6
<1>8. /\ Moved(t) /\ thread'[t].todo = Tail(thread[t].todo) /\ thread'[t].id = thread[t].id
      /\ thread'[t].target = thread[t].target
  BY <1>1, <1>2, Advances
<1>9. \A i \in Ids : Safe(i) => Safe(i)'
  BY <1>1, <1>2, <1>8, SafeKept DEF DataOK, IdsOK, Moved, onDisk, history
<1>10. ThreadOK(t)'
  <2>1. thread[t].op \in Makers => MakerOK(thread[t])'
    BY <1>1, <1>7, <1>8, MakerGoesOn
  <2>2. thread[t].op \in Writers => WriterOK(thread[t])'
    <3> SUFFICES ASSUME thread[t].op \in Writers
                 PROVE  WriterOK(thread[t])'
      OBVIOUS
    <3>1. WriterOK(thread[t]) /\ "mark" \notin {"handle", "write"}
      BY <1>2 DEF ThreadOK
    <3>2. Tail(thread[t].todo) = <<>> /\ Arg(t) = "object"
      BY Zenon, <1>1, <1>2, <3>1, WriterSteps
    <3>3. o = thread[t].id /\ thread[t].id \in Ids /\ thread[t].id \in regular
      BY <1>2, <1>4, <3>1, <3>2, SyncedIs, Sets DEF WriterOK, TypeOK
    <3>4. Stored(o)'
      BY <1>1, <1>5, <1>7, <1>9, <3>3 DEF Stored, onDisk
    <3>5. Stored(thread[t].id)'
      BY <1>8, <3>3, <3>4 DEF Stored, Safe, Readable, Storing
    <3>6. <<>> \notin {Writing(thread'[t].name)} \cup {ObjectSync(s) : s \in Syncs}
      BY SyncTails
    <3> QED  BY <1>1, <1>8, <3>2, <3>3, <3>5, <3>6 DEF WriterOK
  <2>3. thread[t].op = "rename" => thread[t].id # NoId
    BY <1>1, RenameKnows
  <2> QED  BY <1>1, <1>7, <1>8, <2>1, <2>2, <2>3, ThreadKept
<1>11. ASSUME NEW i \in Ids, object'[i].loaded
       PROVE  LoadedOK(i)' /\ i <= diskNextid
  <2>1. LoadedOK(i) /\ i <= diskNextid
    BY <1>7, <1>11 DEF DataOK, MemoryOK, IdsOK
  <2>2. disk'[i] = disk[i] /\ version'[i] = version[i]
    BY <1>1 DEF onDisk
  <2>3. CASE i # o
    BY <1>6, <1>9, <2>1, <2>2, <2>3, LoadedKept
  <2>4. CASE i = o
    <3>1. Stored(i)'
      BY <1>5, <1>7, <1>9, <2>2, <2>4 DEF Stored
    <3> QED  BY <1>5, <1>6, <2>1, <2>2, <2>4, <3>1 DEF LoadedOK
  <2> QED  BY <2>1, <2>3, <2>4
<1>12. \A i \in Files : stable'[i] > 0 => disk[i].version >= stable'[i] /\ Safe(i)
  BY <1>1 DEF DataOK, StableOK, history
<1> QED  BY <1>1, <1>2, <1>3, <1>6, <1>7, <1>8, <1>10, <1>11, <1>12, CalmStep DEF onDisk, history

LEMMA FinishKeeps ==
  ASSUME DataOK, NEW t \in Threads, Finish(t)
  PROVE  DataOK'
<1> DEFINE r == thread[t]
<1>1. /\ r # Idle /\ r.todo = <<>> /\ Ended(t)
      /\ UNCHANGED <<up, memory, diskLock, onDisk, torn>>
  BY DEF Finish, Ended
<1>2. /\ up /\ TypeOK /\ ThreadOK(t) /\ ~At(t, "store")
  BY <1>1, Working DEF DataOK, ThreadsOK, At
<1>3. /\ entries' \in [Names -> FileIds] /\ diskEntries' \in [Names -> FileIds]
      /\ version' = version /\ version' \in [Ids -> Nat] /\ object' \in [Ids -> Objects]
  BY <1>1, <1>2 DEF onDisk, memory, TypeOK
<1>4. names' \in [Names -> FileIds]
  BY <1>2 DEF Finish, TypeOK, ThreadStates
<1>5. /\ stable' \in [Ids -> Nat]
      /\ \A i \in Files : stable'[i] > 0 => disk[i].version >= stable'[i] /\ Safe(i)
  <2>1. stable \in [Ids -> Nat] /\ version \in [Ids -> Nat]
    BY <1>2 DEF TypeOK
  <2>2. \A i \in Files : stable[i] > 0 => disk[i].version >= stable[i] /\ Safe(i)
    BY DEF DataOK, StableOK
  <2>3. CASE r.promises /\ r.op \in {"write", "commit"}
    <3>1. Stored(r.id) /\ r.id \in Ids
      BY <1>1, <1>2, <2>3, Sets DEF ThreadOK, WriterOK, Made, Writers, TypeOK
    <3>2. stable' = [stable EXCEPT ![r.id] = version[r.id]]
      BY <2>3 DEF Finish
    <3>3. disk[r.id].version = version[r.id] /\ Safe(r.id) /\ version[r.id] \in Nat
      BY <2>1, <3>1 DEF Stored
    <3> HIDE DEF r
    <3> QED  BY <2>1, <2>2, <3>1, <3>2, <3>3, Sets
  <2>4. CASE ~(r.promises /\ r.op \in {"write", "commit"})
    BY <2>1, <2>2, <2>4 DEF Finish
  <2> QED  BY <2>3, <2>4
<1>6. \A o \in Ids : Safe(o) => Safe(o)'
  <2>1. \A u \in Threads \ {t} : thread'[u] = thread[u]
    BY <1>1, <1>2 DEF Ended, TypeOK
  <2> QED  BY <1>1, <1>2, <2>1, SafeKept DEF DataOK, IdsOK, onDisk
<1>7. \A i \in Ids : object'[i].loaded => LoadedOK(i)' /\ i <= diskNextid
  BY <1>1, <1>6, LoadedKept DEF DataOK, MemoryOK, IdsOK, memory, onDisk
<1> QED  BY <1>1, <1>2, <1>3, <1>4, <1>5, <1>7, CalmStep DEF onDisk, memory

-----------------------------------------------------------------------------
(* The steps that write to disk                                               *)

\* In a sync, from one of its steps to another
LEMMA Gone ==
  ASSUME TypeOK, NEW t \in Threads, NEW s \in Syncs, At(t, s), NEW z \in Syncs, Go(t, z)
  PROVE  /\ thread' \in [Threads -> ThreadStates]
         /\ \A u \in Threads \ {t} : thread'[u] = thread[u]
         /\ thread'[t].op = thread[t].op /\ thread'[t].name = thread[t].name
         /\ thread'[t].to = thread[t].to /\ thread'[t].id = thread[t].id
         /\ thread'[t].target = thread[t].target /\ thread'[t].promises = thread[t].promises
         /\ thread'[t].todo = <<<<z, Arg(t)>>>> \o Tail(thread[t].todo)
         /\ thread'[t].todo \in Seq(StepsOf(thread[t].op)) /\ thread'[t].todo # <<>>
         /\ Head(thread'[t].todo) = <<z, Arg(t)>>
         /\ Tail(thread'[t].todo) \in Seq(PlanOf(thread[t].op))
<1>1. /\ thread[t] \in ThreadStates /\ <<s, Arg(t)>> \in StepsOf(thread[t].op)
      /\ Tail(thread[t].todo) \in Seq(PlanOf(thread[t].op)) /\ thread \in [Threads -> ThreadStates]
      /\ Arg(t) \in {"dir", "object", "target"}
  BY AtStep DEF TypeOK
<1>2. PICK p : p = <<z, Arg(t)>>
  OBVIOUS
<1>3. p \in StepsOf(thread[t].op)
  <2>1. \A x, y : <<x, y>>[1] = x /\ <<x, y>>[2] = y
    OBVIOUS
  <2>2. <<z, Arg(t)>> \in Steps
    BY <1>1 DEF Steps
  <2>3. z \notin {"alloc", "choose", "replace", "find", "absent", "handle", "entry", "refcnt",
                  "refcnt + 1", "target", "count", "delete", "write"}
    BY DEF Syncs
  <2>4. p[1] = z /\ p[2] = Arg(t)
    BY Zenon, <1>2, <2>1
  <2>5. /\ Arg(t) = "dir" => thread[t].op \in Makers \cup {"remove"}
        /\ Arg(t) = "object" => thread[t].op \in Makers \cup Writers
        /\ Arg(t) = "target" => thread[t].op \in {"remove", "rename"}
    BY StepOf
  <2>6. p \in Steps
    BY Zenon, <1>2, <2>2
  <2> QED  BY <2>3, <2>4, <2>5, <2>6 DEF StepsOf
<1>4. PICK q : q = Tail(thread[t].todo)
  OBVIOUS
<1>5. q \in Seq(PlanOf(thread[t].op)) /\ q \in Seq(StepsOf(thread[t].op))
  BY <1>1, <1>4, PlansAreSteps
<1>6. PICK w : w = <<p>> \o q
  OBVIOUS
<1>7. w \in Seq(StepsOf(thread[t].op)) /\ w # <<>> /\ Head(w) = p /\ Tail(w) = q
  BY <1>3, <1>5, <1>6, BeforeAll
<1>8. w \in Seq(Steps)
  <2>1. ASSUME NEW S, NEW T, S \subseteq T, NEW x \in Seq(S)
        PROVE  x \in Seq(T)
    BY <2>1
  <2>2. StepsOf(thread[t].op) \subseteq Steps
    BY DEF StepsOf
  <2> QED  BY <1>7, <2>1, <2>2
<1>9. PICK r : r = [thread[t] EXCEPT !.todo = w]
  OBVIOUS
<1>10. /\ r \in ThreadStates /\ r.op = thread[t].op /\ r.name = thread[t].name
       /\ r.to = thread[t].to /\ r.todo = w /\ r.id = thread[t].id
       /\ r.target = thread[t].target /\ r.promises = thread[t].promises
  BY <1>1, <1>8, <1>9 DEF ThreadStates
<1>11. thread' = [thread EXCEPT ![t] = r]
  BY <1>2, <1>4, <1>6, <1>9 DEF Go
<1>12. thread'[t] = r /\ \A u \in Threads \ {t} : thread'[u] = thread[u]
  BY <1>1, <1>11
<1>13. thread' \in [Threads -> ThreadStates]
  BY <1>1, <1>10, <1>11
<1> QED  BY <1>2, <1>4, <1>5, <1>6, <1>7, <1>10, <1>12, <1>13

LEMMA GoneTo ==
  ASSUME TypeOK, NEW t \in Threads, NEW s \in Syncs, At(t, s), NEW z \in Syncs, Go(t, z)
  PROVE  /\ At(t, z)' /\ Synced(t)' = Synced(t)
<1>1. /\ thread'[t].todo # <<>> /\ Head(thread'[t].todo) = <<z, Arg(t)>>
      /\ thread'[t].id = thread[t].id /\ thread'[t].target = thread[t].target
  BY Gone
<1>2. PICK p : p = <<z, Arg(t)>>
  OBVIOUS
<1>3. p[1] = z /\ p[2] = Arg(t)
  BY <1>2
<1>4. Head(thread'[t].todo) = p
  BY <1>1, <1>2
<1>5. Head(thread'[t].todo)[1] = z /\ Head(thread'[t].todo)[2] = Arg(t)
  BY <1>3, <1>4
<1> QED  BY <1>1, <1>5 DEF At, Synced, Arg

\* What is synced is in memory.
LEMMA SyncedLoaded ==
  ASSUME DataOK, NEW t \in Threads, NEW s \in Syncs, At(t, s), Synced(t) \in Ids
  PROVE  object[Synced(t)].loaded
<1>1. /\ TypeOK /\ up /\ ThreadOK(t) /\ MemoryOK
      /\ Arg(t) \in {"dir", "object", "target"}
  BY AtWork, AtStep DEF DataOK, ThreadsOK
<1>2. CASE Arg(t) = "dir"
  BY <1>1, <1>2, SyncedIs DEF MemoryOK
<1>3. CASE Arg(t) = "target"
  BY <1>1, <1>3, SyncedIs, Sets DEF ThreadOK
<1>4. CASE Arg(t) = "object"
  <2>1. Synced(t) = thread[t].id /\ thread[t].op \in Makers \cup Writers
    BY <1>1, <1>4, SyncedIs, StepOf
  <2>2. CASE thread[t].op \in Makers
    BY <1>1, <2>1, <2>2, Sets DEF ThreadOK, MakerOK
  <2>3. CASE thread[t].op \in Writers
    <3>1. WriterOK(thread[t])
      BY <1>1, <2>3 DEF ThreadOK
    <3>2. thread[t].todo = ObjectSync(s)
      <4>1. s \notin {"handle", "write"}
        BY DEF Syncs
      <4> QED  BY Zenon, <1>1, <2>3, <3>1, <4>1, WriterSteps
    <3> QED  BY <2>1, <3>1, <3>2 DEF WriterOK
  <2> QED  BY <2>1, <2>2, <2>3
<1> QED  BY <1>1, <1>2, <1>3, <1>4

\* The handler that syncs
LEMMA SyncerKept ==
  ASSUME DataOK, NEW t \in Threads, NEW s \in Syncs, At(t, s), NEW z \in Syncs, Go(t, z),
         UNCHANGED <<object, regular>>,
         NEW o, o = Synced(t), z = "mark" /\ o \in Ids => Stored(o)'
  PROVE  ThreadOK(t)'
<1>1. TypeOK /\ ThreadOK(t)
  BY DEF DataOK, ThreadsOK
<1>2. /\ thread'[t].op = thread[t].op /\ thread'[t].name = thread[t].name
      /\ thread'[t].id = thread[t].id
      /\ thread'[t].target = thread[t].target
      /\ thread'[t].todo = <<<<z, Arg(t)>>>> \o Tail(thread[t].todo) /\ thread'[t].todo # <<>>
  BY <1>1, Gone
<1>3. At(t, z)' /\ Synced(t)' = o
  BY <1>1, GoneTo
<1>4. (At(t, "mark") /\ Synced(t) \in Ids => Stored(Synced(t)))'
  <2>1. At(t, "mark")' => z = "mark"
    BY <1>3 DEF At
  <2>2. o \in Ids /\ z = "mark" => Stored(o)'
    OBVIOUS
  <2>3. Stored(o)' = Stored(Synced(t))'
    BY <1>3 DEF Stored, Safe, Readable, Storing
  <2> QED  BY <1>3, <2>1, <2>2, <2>3
<1>5. thread[t].op \in Makers => MakerOK(thread[t])'
  <2> SUFFICES ASSUME thread[t].op \in Makers
               PROVE  MakerOK(thread[t])'
    OBVIOUS
  <2>1. MakerOK(thread[t])
    BY <1>1 DEF ThreadOK
  <2>2. \/ thread[t].todo = BothSyncs(s) /\ Arg(t) = "object"
        \/ thread[t].todo = DirSync(s) /\ Arg(t) = "dir"
    <3>1. s \notin {"absent", "choose", "alloc", "entry", "refcnt", "refcnt + 1"}
      BY DEF Syncs
    <3> QED  BY Zenon, <1>1, <2>1, <3>1, MakerSteps
  <2>3. thread'[t].todo = BothSyncs(z) \/ thread'[t].todo = DirSync(z)
    BY SMTT(40), Zenon, <1>2, <2>2, SyncTails
  <2>4. Linked(thread[t])' \/ Written(thread[t])'
    BY <2>3 DEF Linked, Written
  <2>5. ~Choosing(thread[t])'
    BY <2>3, PlacesDiffer DEF Choosing
  <2>6. thread[t].id # NoId
    BY <2>1, <2>2 DEF MakerOK, Linked, Written
  <2> QED  BY <1>2, <2>1, <2>4, <2>5, <2>6 DEF MakerOK
<1>6. thread[t].op \in Writers => WriterOK(thread[t])'
  <2> SUFFICES ASSUME thread[t].op \in Writers
               PROVE  WriterOK(thread[t])'
    OBVIOUS
  <2>1. WriterOK(thread[t])
    BY <1>1 DEF ThreadOK
  <2>2. thread[t].todo = ObjectSync(s) /\ Arg(t) = "object"
    <3>1. s \notin {"handle", "write"}
      BY DEF Syncs
    <3> QED  BY Zenon, <1>1, <2>1, <3>1, WriterSteps
  <2>3. thread'[t].todo = ObjectSync(z)
    BY Zenon, <1>2, <2>2, SyncTails
  <2>4. object[thread[t].id].loaded
    BY <2>1, <2>2 DEF WriterOK
  <2> QED  BY <1>2, <2>1, <2>3, <2>4 DEF WriterOK, Made
<1>7. thread[t].op = "rename" => thread[t].id # NoId
  <2>1. s # "find"
    BY DEF Syncs
  <2> QED  BY <2>1, RenameKnows
<1> QED  BY <1>1, <1>2, <1>4, <1>5, <1>6, <1>7 DEF ThreadOK

LEMMA DiskStep ==
  ASSUME DataOK, NEW t \in Threads, NEW s \in Syncs, At(t, s), NEW z \in Syncs, Go(t, z),
         UNCHANGED <<up, memory, diskNextid, history>>,
         disk' \in [Ids -> DiskObjects], diskEntries' \in [Names -> FileIds],
         diskLock' \in Threads \cup {NoThread}, LockOK', DiskOK',
         \A i \in Ids : Safe(i) => Safe(i)',
         \A i \in Ids : \/ disk'[i].version = disk[i].version
                        \/ object[i].loaded /\ disk'[i].version = version[i],
         NEW o, o = Synced(t), z = "mark" /\ o \in Ids => Stored(o)'
  PROVE  DataOK'
<1>1. /\ TypeOK /\ IdsOK /\ Exclusive /\ MemoryOK /\ StableOK
      /\ \A u \in Threads : ThreadOK(u)
  BY DEF DataOK, ThreadsOK
<1>2. /\ thread' \in [Threads -> ThreadStates]
      /\ \A u \in Threads \ {t} : thread'[u] = thread[u]
      /\ thread'[t].op = thread[t].op /\ thread'[t].name = thread[t].name
      /\ thread'[t].to = thread[t].to /\ thread'[t].id = thread[t].id
      /\ thread'[t].todo \in Seq(StepsOf(thread[t].op))
      /\ Tail(thread'[t].todo) \in Seq(PlanOf(thread[t].op))
  BY <1>1, Gone
<1>3. /\ up' = up /\ object' = object /\ version' = version /\ entries' = entries
      /\ regular' = regular /\ nextid' = nextid /\ names' = names /\ stable' = stable
      /\ torn' = torn /\ diskNextid' = diskNextid
  BY DEF memory, history
<1>4. TypeOK'
  <2>1. ASSUME NEW u \in Threads
        PROVE  /\ thread'[u].todo \in Seq(StepsOf(thread'[u].op))
               /\ thread'[u].todo # <<>> => Tail(thread'[u].todo) \in Seq(PlanOf(thread'[u].op))
               /\ thread'[u].op # "none" => thread'[u].name \in Names /\ thread'[u].to \in Names
    BY <1>1, <1>2 DEF TypeOK
  <2> QED  BY <1>1, <1>2, <1>3, <2>1 DEF TypeOK
<1>5. IdsOK'
  <2>1. /\ Cardinality(Allocators)' <= Cardinality(Allocators)
        /\ Cardinality(Allocators) \in Nat /\ Cardinality(Allocators)' \in Nat
    BY <1>2, FewerAllocators
  <2>2. /\ diskNextid \in Nat /\ Dir <= diskNextid /\ diskNextid <= MaxId
        /\ up /\ nextid = diskNextid /\ nextid + Cardinality(Allocators) <= MaxId
        /\ \A i \in regular : i <= diskNextid
        /\ \A i \in Ids : object[i].loaded => i <= diskNextid
    BY <1>1, AtWork DEF IdsOK
  <2>3. nextid + Cardinality(Allocators)' <= MaxId
    BY <2>1, <2>2, Sets
  <2> QED  BY <1>3, <2>2, <2>3 DEF IdsOK
<1>6. Exclusive'
  BY <1>1, <1>2, ExclusiveKept
<1>7. \A i \in Ids : Stored(i) => Stored(i)'
  BY <1>3 DEF Stored
<1>8. MemoryOK'
  <2>1. ASSUME NEW i \in Ids, object[i].loaded
        PROVE  LoadedOK(i)'
    <3>1. LoadedOK(i) /\ version[i] \in Nat
      BY <1>1, <2>1 DEF MemoryOK, TypeOK
    <3>2. disk'[i].version <= version[i]
      BY <3>1 DEF LoadedOK
    <3> QED  BY <1>3, <1>7, <3>1, <3>2 DEF LoadedOK
  <2> QED  BY <1>1, <1>3, <2>1 DEF MemoryOK
<1>9. StableOK'
  <2>1. ASSUME NEW i \in Files, stable[i] > 0
        PROVE  disk'[i].version >= stable[i] /\ Safe(i)'
    <3>1. /\ disk[i].version >= stable[i] /\ Safe(i)' /\ i \in Ids
          /\ disk[i].version \in Nat /\ stable[i] \in Nat /\ version[i] \in Nat
      BY <1>1, <2>1, Sets DEF StableOK, TypeOK, DiskObjects
    <3>2. object[i].loaded => disk[i].version <= version[i]
      BY <1>1, <3>1 DEF MemoryOK, LoadedOK
    <3> QED  BY <3>1, <3>2
  <2> QED  BY <1>3, <2>1 DEF StableOK
<1>10. ThreadsOK'
  <2>1. ASSUME NEW u \in Threads \ {t}
        PROVE  ThreadOK(u)'
    BY <1>1, <1>2, <1>3, <1>7, OthersKept
  <2>2. ThreadOK(t)'
    BY <1>3, SyncerKept
  <2> QED  BY <2>1, <2>2 DEF ThreadsOK
<1> QED  BY <1>4, <1>5, <1>6, <1>8, <1>9, <1>10 DEF DataOK

\* Who stores, in a sync that begins or is done
LEMMA StoreLock ==
  ASSUME TypeOK, LockOK, NEW t \in Threads, NEW s \in Syncs, At(t, s), NEW z \in Syncs, Go(t, z),
         \/ diskLock = NoThread /\ diskLock' = t /\ z = "store"
         \/ At(t, "store") /\ diskLock' = NoThread /\ z = "mark"
  PROVE  LockOK'
<1>1. \A u \in Threads \ {t} : At(u, "store")' = At(u, "store")
  BY Gone DEF At
<1>2. At(t, z)'
  BY GoneTo
<1>3. z # "store" => ~At(t, "store")'
  BY <1>2 DEF At
<1> QED  BY <1>1, <1>2, <1>3, Sets DEF LockOK

\* The files of an object are truncated while a thread stores it ...
LEMMA SafeBegun ==
  ASSUME DataOK, NEW t \in Threads, At(t, "sync"), NEW o, o = Synced(t),
         diskLock = NoThread, diskLock' = t, disk' = [disk EXCEPT ![o].whole = FALSE],
         Go(t, "store"), UNCHANGED <<torn, diskNextid>>
  PROVE  /\ Storing(o)'
         /\ \A i \in Ids : (Readable(i) => Readable(i)') /\ (Safe(i) => Safe(i)')
<1>1. TypeOK
  BY DEF DataOK
<1>2. \A i \in Ids : (i # o => disk'[i] = disk[i]) /\ disk'[i].change = disk[i].change
  BY <1>1 DEF TypeOK, DiskObjects
<1>3. Storing(o)'
  <2>1. Synced(t)' = o
    BY <1>1, GoneTo DEF Syncs
  <2> QED  BY <2>1, Sets DEF Storing
<1>4. ASSUME NEW i \in Ids
      PROVE  (Readable(i) => Readable(i)') /\ (Safe(i) => Safe(i)')
  <2>1. Readable(i) => Readable(i)'
    BY <1>2, <1>3, Sets DEF Readable, Storing
  <2> QED  BY <1>2, <2>1 DEF Safe
<1> QED  BY <1>3, <1>4

\* ... and then they are written.
LEMMA SafeStored ==
  ASSUME DataOK, NEW t \in Threads, SyncStore(t), NEW o, o = Synced(t)
  PROVE  /\ o \in Ids => Safe(o)'
         /\ \A i \in Ids : (Readable(i) => Readable(i)') /\ (Safe(i) => Safe(i)')
<1>1. At(t, "store") /\ diskLock' = NoThread /\ UNCHANGED <<torn, diskNextid>>
  BY DEF SyncStore, history
<1>2. TypeOK /\ LockOK /\ MemoryOK /\ IdsOK /\ diskLock = t
  BY <1>1 DEF DataOK, LockOK
<1>3. o \in Ids => LoadedOK(o) /\ o <= diskNextid
  BY <1>1, <1>2, SyncedLoaded DEF Syncs, MemoryOK, IdsOK
<1>4. PICK x : x = [whole |-> TRUE, change |-> object[o].change, refcnt |-> object[o].refcnt,
                    version |-> version[o]]
  OBVIOUS
<1>5. x.whole /\ x.change = object[o].change
  BY <1>4
<1>6. disk' = [disk EXCEPT ![o] = x]
  BY <1>4 DEF SyncStore
<1>7. /\ \A i \in Ids : i # o => disk'[i] = disk[i]
      /\ o \in Ids => disk'[o] = x
  BY <1>2, <1>6 DEF TypeOK
<1>8. o \in Ids => Safe(o)'
  BY <1>1, <1>3, <1>5, <1>7 DEF Readable, Safe, LoadedOK
<1>9. ASSUME NEW i \in Ids, i # o
      PROVE  (Readable(i) => Readable(i)') /\ (Safe(i) => Safe(i)')
  <2>1. ~Storing(i)
    BY <1>2, <1>9 DEF Storing
  <2> QED  BY <1>1, <1>7, <1>9, <2>1 DEF Readable, Safe
<1> QED  BY <1>8, <1>9 DEF Safe

LEMMA SyncBeginKeeps ==
  ASSUME DataOK, NEW t \in Threads, SyncBegin(t)
  PROVE  DataOK'
<1>1. At(t, "sync") /\ UNCHANGED <<up, memory, diskEntries, diskNextid, history>>
  BY DEF SyncBegin
<1>2. /\ up /\ thread[t].op # "none" /\ ~At(t, "store") /\ TypeOK /\ ThreadOK(t) /\ LockOK
      /\ DiskOK /\ IdsOK /\ MemoryOK
  BY <1>1, AtWork, OneStep DEF DataOK, ThreadsOK
<1>3. PICK o : o = Synced(t)
  OBVIOUS
<1>4. o \in Ids => object[o].loaded
  BY <1>1, <1>3, SyncedLoaded DEF Syncs
<1>5. /\ entries' \in [Names -> FileIds] /\ diskEntries' \in [Names -> FileIds]
      /\ names' \in [Names -> FileIds]
  BY <1>1, <1>2 DEF memory, history, TypeOK
<1>6. CASE object[o].lastSync = object[o].change /\ Advance(t) /\ UNCHANGED <<diskLock, disk>>
  <2>1. /\ Moved(t) /\ thread'[t].todo = Tail(thread[t].todo) /\ thread'[t].id = thread[t].id
        /\ thread'[t].target = thread[t].target
    BY <1>1, <1>2, <1>6, Advances
  <2>2. \A i \in Ids : Safe(i) => Safe(i)'
    BY <1>1, <1>2, <1>6, <2>1, SafeKept DEF IdsOK, Moved, history
  <2>3. SameData /\ UNCHANGED <<object, version, regular>>
    BY <1>1, <1>2 DEF SameData, memory, TypeOK
  <2>4. thread[t].op \in Makers => MakerOK(thread[t])'
    BY <1>1, <2>1, <2>3, MakerGoesOn
  <2>5. thread[t].op \in Writers => WriterOK(thread[t])'
    <3> SUFFICES ASSUME thread[t].op \in Writers
                 PROVE  WriterOK(thread[t])'
      OBVIOUS
    <3>1. WriterOK(thread[t]) /\ "sync" \notin {"handle", "write"}
      BY <1>2 DEF ThreadOK
    <3>2. Tail(thread[t].todo) = <<>> /\ Arg(t) = "object"
      BY Zenon, <1>1, <1>2, <3>1, WriterSteps
    <3>3. o = thread[t].id /\ thread[t].id \in Ids /\ thread[t].id \in regular
      BY <1>2, <1>3, <3>1, <3>2, SyncedIs, Sets DEF WriterOK, TypeOK
    <3>4. Stored(o)
      BY <1>2, <1>4, <1>6, <3>3 DEF MemoryOK, LoadedOK
    <3>5. Stored(o)'
      BY <1>6, <2>2, <2>3, <3>3, <3>4 DEF Stored
    <3>6. Stored(thread[t].id)'
      BY <2>1, <3>3, <3>5 DEF Stored, Safe, Readable, Storing
    <3>7. <<>> \notin {Writing(thread'[t].name)} \cup {ObjectSync(x) : x \in Syncs}
      BY SyncTails
    <3> QED  BY <2>1, <2>3, <3>2, <3>3, <3>6, <3>7 DEF WriterOK
  <2>6. thread[t].op = "rename" => thread[t].id # NoId
    BY <1>1, RenameKnows
  <2>7. ThreadOK(t)'
    BY <2>1, <2>3, <2>4, <2>5, <2>6, ThreadKept
  <2> QED  BY <1>1, <1>2, <1>5, <1>6, <2>1, <2>3, <2>7, QuietStep DEF memory, history
<1>7. CASE /\ diskLock = NoThread /\ diskLock' = t
           /\ disk' = [disk EXCEPT ![o].whole = FALSE] /\ Go(t, "store")
  <2>1. PICK x : x = [disk[o] EXCEPT !.whole = FALSE]
    OBVIOUS
  <2>2. disk' = [disk EXCEPT ![o] = x]
    BY <1>7, <2>1
  <2>3. o \in Ids => /\ x \in DiskObjects /\ x.whole = FALSE /\ x.change = disk[o].change
                     /\ x.version = disk[o].version
    BY <1>2, <2>1 DEF TypeOK, DiskObjects
  <2>4. /\ disk' \in [Ids -> DiskObjects]
        /\ \A i \in Ids : i # o => disk'[i] = disk[i]
        /\ o \in Ids => disk'[o] = x
    BY <1>2, <2>2, <2>3 DEF TypeOK
  <2>5. LockOK'
    BY <1>1, <1>2, <1>7, StoreLock DEF Syncs
  <2>7. \A i \in Ids : (Readable(i) => Readable(i)') /\ (Safe(i) => Safe(i)')
    BY <1>1, <1>3, <1>7, SafeBegun DEF history
  <2>8. DiskOK'
    BY <1>1, <1>2, <2>3, <2>4, <2>7, Sets DEF DiskOK, memory
  <2>9. diskLock' \in Threads \cup {NoThread}
    BY <1>7
  <2>10. \A i \in Ids : disk'[i].version = disk[i].version
    BY <2>3, <2>4
  <2> QED  BY <1>1, <1>3, <1>5, <1>7, <2>4, <2>5, <2>7, <2>8, <2>9, <2>10, DiskStep DEF Syncs
<1> QED  BY <1>3, <1>6, <1>7 DEF SyncBegin

LEMMA SyncStoreKeeps ==
  ASSUME DataOK, NEW t \in Threads, SyncStore(t)
  PROVE  DataOK'
<1>1. /\ At(t, "store") /\ diskLock' = NoThread /\ Go(t, "mark")
      /\ UNCHANGED <<up, memory, diskNextid, history>>
  BY DEF SyncStore
<1>2. /\ up /\ thread[t].op # "none" /\ TypeOK /\ ThreadOK(t) /\ LockOK
      /\ DiskOK /\ IdsOK /\ MemoryOK /\ diskLock = t
  BY <1>1, AtWork DEF DataOK, ThreadsOK, LockOK
<1>3. PICK o : o = Synced(t)
  OBVIOUS
<1>4. o \in Ids => object[o].loaded /\ LoadedOK(o) /\ o <= diskNextid
  BY <1>1, <1>2, <1>3, SyncedLoaded DEF Syncs, MemoryOK, IdsOK
<1>5. PICK x : x = [whole |-> TRUE, change |-> object[o].change, refcnt |-> object[o].refcnt,
                    version |-> version[o]]
  OBVIOUS
<1>6. o \in Ids => /\ x \in DiskObjects /\ x.whole /\ x.change = object[o].change
                   /\ x.version = version[o] /\ version[o] \in Nat /\ object[o].change \in Nat
  BY <1>2, <1>5 DEF TypeOK, DiskObjects, Objects
<1>7. disk' = [disk EXCEPT ![o] = x]
  BY <1>3, <1>5 DEF SyncStore
<1>8. /\ disk' \in [Ids -> DiskObjects]
      /\ \A i \in Ids : i # o => disk'[i] = disk[i]
      /\ o \in Ids => disk'[o] = x
  BY <1>2, <1>6, <1>7 DEF TypeOK
<1>9. diskEntries' \in [Names -> FileIds]
  BY <1>2 DEF SyncStore, TypeOK
<1>10. LockOK'
  BY <1>1, <1>2, StoreLock DEF Syncs
<1>11. \A i \in Ids : (Readable(i) => Readable(i)') /\ (Safe(i) => Safe(i)')
  BY <1>3, SafeStored
<1>12. o \in Ids => Safe(o)'
  BY <1>3, SafeStored
<1>13. o \in Ids => Stored(o)'
  BY <1>1, <1>4, <1>6, <1>8, <1>12 DEF Stored, memory
<1>14. DiskOK'
  <2>1. \A i \in Ids : disk'[i].version <= disk'[i].change
    BY <1>2, <1>4, <1>6, <1>8 DEF DiskOK, LoadedOK
  <2>2. \A i \in Files : disk'[i].whole => disk'[i].change > 0 /\ i <= diskNextid
    BY <1>2, <1>4, <1>6, <1>8, Sets DEF DiskOK, LoadedOK
  <2>3. Readable(Dir)' /\ version'[Dir] = 0 /\ disk'[Dir].version = 0
    BY <1>1, <1>2, <1>6, <1>8, <1>11, Sets DEF DiskOK, memory
  <2> QED  BY <1>1, <2>1, <2>2, <2>3 DEF DiskOK
<1>15. \A i \in Ids : \/ disk'[i].version = disk[i].version
                      \/ object[i].loaded /\ disk'[i].version = version[i]
  BY <1>4, <1>6, <1>8
<1>16. diskLock' \in Threads \cup {NoThread}
  BY <1>1
<1> QED  BY <1>1, <1>3, <1>8, <1>9, <1>10, <1>11, <1>13, <1>14, <1>15, <1>16, DiskStep DEF Syncs

-----------------------------------------------------------------------------
(* A new object, a request, a crash and a restart                             *)

\* There is an id for each handler that makes a file.
LEMMA IdLeft ==
  ASSUME TypeOK, IdsOK, up, NEW t \in Threads, t \in Allocators
  PROVE  /\ nextid + 1 \in Files /\ nextid \in Nat /\ nextid + 1 > diskNextid
         /\ IsFiniteSet(Allocators) /\ Cardinality(Allocators) \in Nat
         /\ Cardinality(Allocators \ {t}) = Cardinality(Allocators) - 1
         /\ nextid + Cardinality(Allocators) <= MaxId
<1>1. IsFiniteSet(Allocators)
  BY FileSystemAssumption, FS_Subset DEF Allocators
<1>2. /\ Cardinality(Allocators) \in Nat /\ IsFiniteSet(Allocators \ {t})
      /\ Cardinality(Allocators \ {t}) = Cardinality(Allocators) - 1
  BY <1>1, FS_CardinalityType, FS_RemoveElement
<1>3. Cardinality(Allocators \ {t}) \in Nat
  BY <1>2, FS_CardinalityType
<1>4. /\ diskNextid \in Nat /\ Dir <= diskNextid /\ nextid = diskNextid
      /\ nextid + Cardinality(Allocators) <= MaxId
  BY DEF IdsOK
<1>5. nextid + 1 <= MaxId
  BY <1>2, <1>3, <1>4, Sets
<1>6. nextid + 1 \in Files
  BY <1>4, <1>5, Sets DEF Files, Dir
<1> QED  BY <1>1, <1>2, <1>4, <1>6

LEMMA AllocKeeps ==
  ASSUME DataOK, NEW t \in Threads, Alloc(t)
  PROVE  DataOK'
<1>1. /\ At(t, "alloc") /\ diskLock = NoThread /\ nextid' = nextid + 1 /\ diskNextid' = nextid'
      /\ UNCHANGED <<up, entries, diskLock, diskEntries, names, stable, torn>>
  BY DEF Alloc
<1>2. /\ up /\ ~At(t, "store") /\ TypeOK /\ ThreadOK(t) /\ LockOK /\ thread[t].op \in Makers
      /\ DiskOK /\ IdsOK /\ MemoryOK /\ Exclusive /\ StableOK
      /\ \A u \in Threads : ThreadOK(u)
  BY <1>1, AtWork, StepOf, OneStep DEF DataOK, ThreadsOK
<1>3. MakerOK(thread[t])
  BY <1>2 DEF ThreadOK
<1>4. thread[t].todo = Making(thread[t].name) /\ Tail(thread[t].todo) = Entering(thread[t].name)
  <2>1. "alloc" \notin Syncs
    BY DEF Syncs
  <2> QED  BY Zenon, <1>1, <1>2, <1>3, <2>1, MakerSteps
<1>5. t \in Allocators
  BY <1>2, <1>3, <1>4 DEF MakerOK, Choosing, Allocators
<1>6. PICK x : x = nextid + 1
  OBVIOUS
<1>7. /\ x \in Files /\ x \in Ids /\ x > diskNextid /\ diskNextid \in Nat /\ nextid = diskNextid
      /\ x \in Nat /\ diskNextid' = x /\ x <= MaxId /\ x # Dir /\ x # NoId
  BY <1>1, <1>2, <1>5, <1>6, IdLeft, Sets DEF IdsOK
<1>8. PICK y : y = [loaded |-> TRUE, change |-> 1, lastSync |-> 0, refcnt |-> 0]
  OBVIOUS
<1>9. y \in Objects /\ y.loaded /\ y.change = 1 /\ y.lastSync = 0
  BY <1>8 DEF Objects
<1>10. Unwritten \in DiskObjects /\ ~Unwritten.whole /\ Unwritten.change = 0
       /\ Unwritten.version = 0
  BY DEF Unwritten, DiskObjects
<1>11. /\ object' = [object EXCEPT ![x] = y] /\ version' = [version EXCEPT ![x] = 0]
       /\ disk' = [disk EXCEPT ![x] = Unwritten]
       /\ regular' = IF thread[t].op = "open" THEN regular \cup {x} ELSE regular
       /\ thread' = [thread EXCEPT ![t] = [Then(t, Tail(thread[t].todo)) EXCEPT !.id = x]]
  BY <1>1, <1>6, <1>8 DEF Alloc
<1>12. /\ object' \in [Ids -> Objects] /\ object'[x] = y
       /\ version' \in [Ids -> Nat] /\ version'[x] = 0
       /\ disk' \in [Ids -> DiskObjects] /\ disk'[x] = Unwritten
       /\ \A i \in Ids : i # x => /\ object'[i] = object[i] /\ version'[i] = version[i]
                                  /\ disk'[i] = disk[i]
       /\ regular' \in SUBSET Files /\ regular \subseteq regular'
       /\ \A i \in regular' : i \in regular \/ (i = x /\ thread[t].op = "open")
  BY <1>2, <1>7, <1>9, <1>10, <1>11 DEF TypeOK
<1>13. /\ Moved(t) /\ thread'[t].todo = Entering(thread[t].name) /\ thread'[t].id = x
       /\ thread'[t].target = thread[t].target
  <2>1. Tail(thread[t].todo) \in Seq(PlanOf(thread[t].op)) /\ x \in FileIds
    BY <1>1, <1>2, <1>7, AtStep, Sets
  <2>2. /\ Moved(t) /\ thread'[t].todo = Tail(thread[t].todo)
        /\ thread'[t].id = x /\ thread'[t].target = thread[t].target
    BY Zenon, <1>2, <1>11, <2>1, GoesWith
  <2> QED  BY <1>4, <2>2
<1>14. /\ thread' \in [Threads -> ThreadStates]
       /\ \A u \in Threads \ {t} : thread'[u] = thread[u]
       /\ thread'[t].op = thread[t].op /\ thread'[t].name = thread[t].name
       /\ thread'[t].to = thread[t].to
       /\ thread'[t].todo \in Seq(PlanOf(thread[t].op))
  BY <1>13 DEF Moved
<1>15. \A i \in Ids : Safe(i) => Safe(i)' /\ i # x
  <2>1. \A i \in Ids : Safe(i) => i # x
    BY <1>7, Sets DEF Safe
  <2> QED  BY <1>1, <1>2, <1>7, <1>12, <1>14, <2>1, SafeKept
<1>16. \A i \in Ids : object[i].loaded => i # x
  BY <1>2, <1>7, Sets DEF IdsOK
<1>17. TypeOK'
  <2>1. ASSUME NEW u \in Threads
        PROVE  /\ thread'[u].todo \in Seq(StepsOf(thread'[u].op))
               /\ thread'[u].todo # <<>> => Tail(thread'[u].todo) \in Seq(PlanOf(thread'[u].op))
               /\ thread'[u].op # "none" => thread'[u].name \in Names /\ thread'[u].to \in Names
    BY <1>2, <1>14, PlansAreSteps DEF TypeOK
  <2>2. /\ up' \in BOOLEAN /\ entries' \in [Names -> FileIds] /\ diskEntries' \in [Names -> FileIds]
        /\ names' \in [Names -> FileIds] /\ stable' \in [Ids -> Nat]
        /\ diskLock' \in Threads \cup {NoThread} /\ torn' \in SUBSET Ids
    BY <1>1, <1>2 DEF TypeOK
  <2> QED  BY <1>12, <1>14, <2>1, <2>2 DEF TypeOK
<1>18. IdsOK'
  <2>1. Allocators' = Allocators \ {t}
    BY <1>7, <1>13, <1>14 DEF Allocators
  <2>2. /\ Cardinality(Allocators') = Cardinality(Allocators) - 1
        /\ Cardinality(Allocators) \in Nat
        /\ nextid + Cardinality(Allocators) <= MaxId
    BY <1>2, <1>5, <2>1, IdLeft
  <2>3. nextid' + Cardinality(Allocators') <= MaxId
    BY <1>1, <1>7, <2>2, Sets
  <2>4. \A i \in Ids : object'[i].loaded => i <= diskNextid'
    BY <1>2, <1>7, <1>12, Sets DEF IdsOK
  <2>5. \A i \in regular' : i <= diskNextid'
    BY <1>2, <1>7, <1>12, Sets DEF IdsOK, TypeOK
  <2>6. diskNextid' \in Nat /\ Dir <= diskNextid' /\ diskNextid' <= MaxId
    BY <1>2, <1>7, Sets DEF IdsOK
  <2> QED  BY <1>1, <1>2, <2>3, <2>4, <2>5, <2>6 DEF IdsOK
<1>19. Exclusive'
  <2>1. thread[t].op \notin Writers
    BY <1>2 DEF Makers, Writers
  <2> QED  BY <1>2, <1>14, <2>1, ExclusiveKept
<1>20. MemoryOK'
  <2>1. ASSUME NEW i \in Ids, object'[i].loaded
        PROVE  LoadedOK(i)'
    <3>1. CASE i = x
      BY <1>7, <1>9, <1>10, <1>12, <3>1 DEF LoadedOK
    <3>2. CASE i # x
      BY <1>2, <1>12, <1>15, <2>1, <3>2, LoadedKept DEF MemoryOK
    <3> QED  BY <3>1, <3>2
  <2> QED  BY <1>1, <1>2, <1>7, <1>12, <2>1, Sets DEF MemoryOK
<1>21. DiskOK'
  <2>1. \A i \in Ids : disk'[i].version <= disk'[i].change
    BY <1>2, <1>10, <1>12 DEF DiskOK
  <2>2. \A i \in Files : disk'[i].whole => disk'[i].change > 0 /\ i <= diskNextid'
    BY <1>2, <1>7, <1>10, <1>12, Sets DEF DiskOK
  <2>3. Readable(Dir)' /\ version'[Dir] = 0 /\ disk'[Dir].version = 0
    <3>1. Readable(Dir)'
      BY <1>1, <1>2, <1>7, <1>12, <1>14, SafeKept, Sets DEF DiskOK
    <3> QED  BY <1>2, <1>7, <1>12, <3>1, Sets DEF DiskOK
  <2> QED  BY <2>1, <2>2, <2>3 DEF DiskOK
<1>22. LockOK'
  BY <1>1, <1>2, <1>13, <1>14, NoneBegun, Sets DEF LockOK, At
<1>23. StableOK'
  BY <1>1, <1>2, <1>12, <1>15, Sets DEF StableOK
<1>24. ThreadsOK'
  <2>1. ASSUME NEW u \in Threads \ {t}
        PROVE  ThreadOK(u)'
    <3>1. \A i \in Ids : Stored(i) => Stored(i)'
      BY <1>12, <1>15 DEF Stored
    <3>2. \A i \in Ids : object[i].loaded => object'[i].loaded
      BY <1>12, <1>16
    <3>3. thread[u].op = "create" /\ thread[u].id \in regular' => thread[u].id \in regular
      <4>1. thread[u].op = "create" /\ thread[u].id # NoId => thread[u].id # x
        <5>1. thread[u].id \in FileIds
          BY <1>2 DEF TypeOK, ThreadStates
        <5> QED  BY <1>2, <1>16, <5>1, Sets DEF ThreadOK, MakerOK, Makers
      <4> QED  BY <1>7, <1>12, <4>1
    <3> QED  BY <1>2, <1>12, <1>14, <3>1, <3>2, <3>3, OthersKept
  <2>2. ThreadOK(t)'
    <3>1. MakerOK(thread[t])'
      <4>1. ~Choosing(thread[t])'
        BY <1>13, <1>14, PlacesDiffer DEF Choosing, Syncs
      <4>2. thread[t].op = "create" => x \notin regular'
        BY <1>2, <1>7, <1>12 DEF IdsOK, TypeOK
      <4> QED  BY <1>7, <1>9, <1>12, <1>13, <1>14, <4>1, <4>2 DEF MakerOK
    <3>2. thread[t].target # NoId => object'[thread[t].target].loaded
      <4>1. thread[t].target \in FileIds
        BY <1>2 DEF TypeOK, ThreadStates
      <4> QED  BY <1>2, <1>12, <1>16, <4>1, Sets DEF ThreadOK
    <3>3. ~At(t, "mark")'
      BY <1>13, NoneBegun
    <3> QED  BY <1>2, <1>13, <1>14, <3>1, <3>2, <3>3 DEF ThreadOK, Makers, Writers
  <2> QED  BY <2>1, <2>2 DEF ThreadsOK
<1> QED  BY <1>17, <1>18, <1>19, <1>20, <1>21, <1>22, <1>23, <1>24 DEF DataOK

\* What a thread that takes a request becomes
LEMMA Begun ==
  ASSUME NEW K, NEW M, NEW F, NEW S, NEW I, NEW B,
         NEW op \in K, NEW n \in M, NEW to \in M, NEW o \in F, NEW q \in S, NEW p \in B,
         NEW g \in F, NEW x \in I, NEW r0, NEW r,
         r0.target = g, r0.saw = x,
         r0 \in [op : K, name : M, to : M, id : F, target : F, saw : I, todo : S, promises : B],
         r = [r0 EXCEPT !.op = op, !.name = n, !.to = to, !.id = o, !.todo = q, !.promises = p]
  PROVE  /\ r \in [op : K, name : M, to : M, id : F, target : F, saw : I, todo : S,
                   promises : B]
         /\ r.op = op /\ r.name = n /\ r.to = to /\ r.id = o /\ r.todo = q /\ r.target = g
OBVIOUS

LEMMA BeginKeeps ==
  ASSUME DataOK, NEW t \in Threads, NEW op \in Kinds, NEW n \in Names, NEW to \in Names,
         NEW o \in Files \cup {NoId}, Begin(t, op, n, to, o)
  PROVE  DataOK'
<1>1. /\ up /\ thread[t] = Idle /\ Admitted(t, op, o)
      /\ UNCHANGED <<up, memory, diskLock, onDisk, history>>
  BY DEF Begin
<1>2. /\ TypeOK /\ IdsOK /\ Exclusive /\ MemoryOK /\ DiskOK /\ LockOK /\ StableOK
      /\ \A u \in Threads : ThreadOK(u)
  BY DEF DataOK, ThreadsOK
<1>3. PICK r : r = [Idle EXCEPT !.op = op, !.name = n, !.to = to, !.id = o,
                                !.todo = Program(op, n),
                                !.promises = op \in {"create", "open", "write", "commit"}]
  OBVIOUS
<1>4. Program(op, n) \in Seq(PlanOf(op)) /\ Program(op, n) \in Seq(Steps)
  BY Todos, PlansAreSteps
<1>5. (op \in {"create", "open", "write", "commit"}) \in BOOLEAN
  OBVIOUS
<1>6. /\ r \in ThreadStates /\ r.op = op /\ r.name = n /\ r.to = to /\ r.id = o
      /\ r.todo = Program(op, n) /\ r.target = NoId
  <2>1. o \in FileIds /\ NoId \in FileIds /\ op \in Kinds \cup {"none"}
        /\ n \in Names \cup {NoThread} /\ to \in Names \cup {NoThread} /\ 0 \in Int
    BY DEF FileIds
  <2>2. Idle \in ThreadStates /\ Idle.target = NoId /\ Idle.saw = 0
    BY IdleTyped DEF Idle
  <2> QED  BY Zenon, <1>3, <1>4, <1>5, <2>1, <2>2, Begun DEF ThreadStates
<1>7. thread' = [thread EXCEPT ![t] = r]
  BY <1>3 DEF Begin
<1>8. /\ thread' \in [Threads -> ThreadStates] /\ thread'[t] = r
      /\ \A u \in Threads \ {t} : thread'[u] = thread[u]
  BY <1>2, <1>6, <1>7 DEF TypeOK
<1>9. /\ up' = up /\ object' = object /\ version' = version /\ entries' = entries
      /\ regular' = regular /\ nextid' = nextid /\ names' = names /\ stable' = stable
      /\ torn' = torn /\ diskNextid' = diskNextid /\ disk' = disk /\ diskLock' = diskLock
      /\ diskEntries' = diskEntries
  BY <1>1 DEF memory, onDisk, history
<1>10. ~At(t, "store") /\ thread[t].op = "none"
  BY <1>1, IdleTyped DEF At
<1>11. \A s : At(t, s)' => s \notin {"store", "mark"}
  <2>1. Program(op, n) # <<>> => Head(Program(op, n)) \in PlanOf(op)
    BY <1>4, PlansAreSteps
  <2> QED  BY <1>6, <1>8, <2>1 DEF At, PlanOf
<1>12. \A i \in Ids : (Safe(i) => Safe(i)') /\ (Readable(i) => Readable(i)')
  BY <1>2, <1>8, <1>9, <1>10, SafeKept DEF IdsOK
<1>13. TypeOK'
  <2>1. ASSUME NEW u \in Threads
        PROVE  /\ thread'[u].todo \in Seq(StepsOf(thread'[u].op))
               /\ thread'[u].todo # <<>> => Tail(thread'[u].todo) \in Seq(PlanOf(thread'[u].op))
               /\ thread'[u].op # "none" => thread'[u].name \in Names /\ thread'[u].to \in Names
    BY <1>2, <1>4, <1>6, <1>8, PlansAreSteps DEF TypeOK
  <2> QED  BY <1>2, <1>8, <1>9, <2>1 DEF TypeOK
<1>14. IdsOK'
  <2>1. nextid + Cardinality(Allocators') <= MaxId
    <3>1. CASE op \in Makers
      <4> DEFINE B == Others(t, {"create", "open"})
      <4>1. nextid + Cardinality(B) < MaxId
        BY <3>1 DEF Begin, Makers
      <4>2. IsFiniteSet(B) /\ t \notin B
        BY FileSystemAssumption, FS_Subset DEF Others
      <4>3. Allocators' \subseteq B \cup {t}
        BY <1>8 DEF Allocators, Others, Makers
      <4> HIDE DEF B
      <4>4. /\ IsFiniteSet(B \cup {t}) /\ Cardinality(B \cup {t}) = Cardinality(B) + 1
            /\ Cardinality(B) \in Nat
        BY <4>2, FS_AddElement, FS_CardinalityType
      <4>5. IsFiniteSet(Allocators') /\ Cardinality(Allocators') <= Cardinality(B \cup {t})
        BY <4>3, <4>4, FS_Subset
      <4>6. Cardinality(Allocators') \in Nat
        BY <4>5, FS_CardinalityType
      <4>7. nextid \in Nat
        BY <1>1, <1>2 DEF IdsOK
      <4> QED  BY <4>1, <4>4, <4>5, <4>6, <4>7, Sets
    <3>2. CASE op \notin Makers
      <4>1. /\ Cardinality(Allocators)' <= Cardinality(Allocators)
            /\ Cardinality(Allocators) \in Nat /\ Cardinality(Allocators)' \in Nat
        BY <1>6, <1>8, <3>2, FewerAllocators
      <4>2. nextid \in Nat /\ nextid + Cardinality(Allocators) <= MaxId
        BY <1>1, <1>2 DEF IdsOK
      <4> QED  BY <4>1, <4>2, Sets
    <3> QED  BY <3>1, <3>2
  <2> QED  BY <1>1, <1>2, <1>9, <2>1 DEF IdsOK
<1>15. Exclusive'
  <2>1. ASSUME NEW u \in Threads \ {t}, thread[u].op # "none"
        PROVE  /\ thread[u].op \in Overlap /\ op \in Overlap
               /\ op \in {"create", "link"} => thread[u].op \notin {"create", "link", "lookup"}
               /\ thread[u].op \in {"create", "link"} => op \notin {"create", "link", "lookup"}
               /\ op \in Writers /\ thread[u].op \in Writers => o # thread[u].id
    <3>1. thread[u].op \in Kinds /\ thread[u] # Idle
      BY <1>2, <2>1, IdleTyped DEF TypeOK, ThreadStates
    <3>2. thread[u].op \in Overlap /\ op \in Overlap
      BY <1>1, <3>1 DEF Admitted, Others
    <3>3. /\ op \in {"create", "link"} => thread[u].op \notin {"create", "link", "lookup"}
          /\ thread[u].op \in {"create", "link"} => op \notin {"create", "link", "lookup"}
      BY <1>1 DEF Admitted, Others
    <3>4. op \in Writers /\ thread[u].op \in Writers => o # thread[u].id
      BY <1>1 DEF Admitted, Others, Writers
    <3> QED  BY <3>2, <3>3, <3>4
  <2> SUFFICES ASSUME NEW x \in Threads, NEW y \in Threads, x # y,
                      thread'[x].op # "none", thread'[y].op # "none"
               PROVE  /\ thread'[x].op \in Overlap
                      /\ thread'[x].op \in {"create", "link"} =>
                           thread'[y].op \notin {"create", "link", "lookup"}
                      /\ thread'[x].op \in Writers /\ thread'[y].op \in Writers =>
                           thread'[x].id # thread'[y].id
    BY DEF Exclusive
  <2>2. CASE x = t
    BY <1>6, <1>8, <2>1, <2>2
  <2>3. CASE y = t
    BY <1>6, <1>8, <2>1, <2>3
  <2>4. CASE x # t /\ y # t
    BY <1>2, <1>8, <2>4 DEF Exclusive
  <2> QED  BY <2>2, <2>3, <2>4
<1>16. MemoryOK'
  BY <1>2, <1>9, <1>12, LoadedKept DEF MemoryOK
<1>17. DiskOK'
  BY <1>2, <1>9, <1>12, Sets DEF DiskOK
<1>18. LockOK'
  <2>1. \A u \in Threads \ {t} : At(u, "store")' = At(u, "store")
    BY <1>8 DEF At
  <2> QED  BY <1>2, <1>9, <1>10, <1>11, <2>1, Sets DEF LockOK, TypeOK
<1>19. StableOK'
  BY <1>2, <1>9, <1>12, Sets DEF StableOK
<1>20. ThreadsOK'
  <2>1. ASSUME NEW u \in Threads \ {t}
        PROVE  ThreadOK(u)'
    <3>1. \A i \in Ids : Stored(i) => Stored(i)'
      BY <1>9, <1>12 DEF Stored
    <3> QED  BY <1>2, <1>8, <1>9, <3>1, OthersKept
  <2>2. ThreadOK(t)'
    <3>1. IF op \in {"link", "write", "commit"} THEN o \in regular ELSE o = NoId
      BY DEF Begin
    <3>2. op \in Makers => MakerOK(thread[t])'
      <4> SUFFICES ASSUME op \in Makers
                   PROVE  MakerOK(thread[t])'
        OBVIOUS
      <4>1. o = NoId /\ o \notin regular
        BY <1>2, <3>1, Sets DEF Makers, TypeOK
      <4>2. Program(op, n) \in {Checking(n), Opening(n)}
        BY Zenon DEF Makers, Program, Checking, Opening
      <4>3. Choosing(thread[t])'
        BY <1>6, <1>8, <4>2 DEF Choosing
      <4>4. /\ ~Linked(thread[t])' /\ ~Written(thread[t])' /\ ~Made(thread[t])'
            /\ Program(op, n) # Entering(n)
        BY <1>6, <1>8, <4>2, PlacesDiffer DEF Linked, Written, Made, Syncs
      <4> QED  BY <1>6, <1>8, <1>9, <4>1, <4>3, <4>4 DEF MakerOK
    <3>3. op \in Writers => WriterOK(thread[t])'
      <4> SUFFICES ASSUME op \in Writers
                   PROVE  WriterOK(thread[t])'
        OBVIOUS
      <4>1. o \in regular
        BY <3>1 DEF Writers
      <4>2. Program(op, n) \in {FindToWrite(n), FindToSync(n)}
        BY Zenon DEF Writers, Program, FindToWrite, FindToSync
      <4>3. Program(op, n) \notin {Writing(n), <<>>} \cup {ObjectSync(s) : s \in Syncs}
        <5>1. PICK q : q = Head(Program(op, n))
          OBVIOUS
        <5>2. q = <<"handle", n>> /\ Program(op, n) # <<>>
          BY Zenon, <4>2, <5>1, SyncTails
        <5>3. q[1] = "handle"
          BY <5>2
        <5>4. Head(Writing(n)) = <<"write", n>> /\ \A s : Head(ObjectSync(s)) = <<s, "object">>
          BY SyncTails
        <5>5. q # <<"write", n>> /\ \A s \in Syncs : q # <<s, "object">>
          BY <5>3 DEF Syncs
        <5> QED  BY <5>1, <5>2, <5>4, <5>5
      <4> QED  BY <1>6, <1>8, <1>9, <4>1, <4>2, <4>3 DEF WriterOK, Made
    <3>4. op = "rename" => At(t, "find")'
      <4> SUFFICES ASSUME op = "rename"
                   PROVE  At(t, "find")'
        OBVIOUS
      <4>1. PICK p : p = <<"find", n>>
        OBVIOUS
      <4>2. PICK p2 : p2 = <<"replace", n>>
        OBVIOUS
      <4>3. Program(op, n) = <<p, p2>>
        BY <4>1, <4>2 DEF Program
      <4>4. p[1] = "find"
        BY <4>1
      <4>5. Head(<<p, p2>>) = p /\ <<p, p2>> # <<>>
        OBVIOUS
      <4>6. thread'[t].todo # <<>> /\ Head(thread'[t].todo) = p
        BY <1>6, <1>8, <4>3, <4>5
      <4> QED  BY <4>4, <4>6 DEF At
    <3> QED  BY <1>6, <1>8, <1>9, <1>11, <3>1, <3>2, <3>3, <3>4 DEF ThreadOK
  <2> QED  BY <2>1, <2>2 DEF ThreadsOK
<1> QED  BY <1>13, <1>14, <1>15, <1>16, <1>17, <1>18, <1>19, <1>20 DEF DataOK

\* Threads that are idle, and those that are after a crash
LEMMA AllIdle ==
  ASSUME thread \in [Threads -> {Idle}], diskLock = NoThread
  PROVE  Exclusive /\ LockOK /\ ThreadsOK /\ Allocators = {}
<1>1. \A t \in Threads : thread[t] = Idle
  OBVIOUS
<1>2. \A t \in Threads : /\ thread[t].op = "none" /\ thread[t].todo = <<>>
                         /\ thread[t].target = NoId
  BY <1>1, IdleTyped
<1>3. \A t \in Threads : ~At(t, "store") /\ ~At(t, "mark")
  BY <1>2 DEF At
<1>4. Exclusive
  BY <1>2 DEF Exclusive
<1>5. LockOK
  BY <1>3 DEF LockOK
<1>6. ThreadsOK
  BY <1>2, <1>3 DEF ThreadsOK, ThreadOK, Makers, Writers
<1>7. Allocators = {}
  BY <1>2 DEF Allocators, Makers
<1> QED  BY <1>4, <1>5, <1>6, <1>7

LEMMA NowIdle ==
  ASSUME thread' \in [Threads -> {Idle}], diskLock' = NoThread
  PROVE  Exclusive' /\ LockOK' /\ ThreadsOK' /\ Allocators' = {}
<1>1. \A t \in Threads : thread'[t] = Idle
  OBVIOUS
<1>2. \A t \in Threads : /\ thread'[t].op = "none" /\ thread'[t].todo = <<>>
                         /\ thread'[t].target = NoId
  BY <1>1, IdleTyped
<1>3. \A t \in Threads : ~At(t, "store")' /\ ~At(t, "mark")'
  BY <1>2 DEF At
<1>4. Exclusive'
  BY <1>2 DEF Exclusive
<1>5. LockOK'
  BY <1>3 DEF LockOK
<1>6. ThreadsOK'
  BY <1>2, <1>3 DEF ThreadsOK, ThreadOK, Makers, Writers
<1>7. Allocators' = {}
  BY <1>2 DEF Allocators, Makers
<1> QED  BY <1>4, <1>5, <1>6, <1>7

LEMMA InitDataOK ==
  ASSUME Init
  PROVE  DataOK
<1>1. thread \in [Threads -> {Idle}] /\ diskLock = NoThread
  BY DEF Init
<1>2. Exclusive /\ LockOK /\ ThreadsOK /\ Allocators = {}
  BY <1>1, AllIdle
<1>3. thread \in [Threads -> ThreadStates] /\ \A t \in Threads : thread[t] = Idle
  BY <1>1, IdleTyped
<1>4. TypeOK
  <2>1. /\ entries \in [Names -> FileIds] /\ diskEntries \in [Names -> FileIds]
        /\ names \in [Names -> FileIds]
    BY Sets DEF Init, NoEntries
  <2>2. object \in [Ids -> Objects] /\ disk \in [Ids -> DiskObjects]
    BY DEF Init, Absent, Unwritten, Objects, DiskObjects
  <2>3. version \in [Ids -> Nat] /\ stable \in [Ids -> Nat]
    BY DEF Init
  <2>4. \A t \in Threads : /\ thread[t].todo = <<>> /\ thread[t].op = "none"
                           /\ thread[t].todo \in Seq(StepsOf(thread[t].op))
    BY <1>3, IdleTyped
  <2> QED  BY <1>1, <1>3, <2>1, <2>2, <2>3, <2>4 DEF TypeOK, Init
<1>5. IdsOK
  <2>1. Cardinality(Allocators) = 0
    BY <1>2, FS_EmptySet
  <2>2. \A o \in Ids : object[o].loaded => o = Dir
    BY DEF Init, Absent
  <2>3. up = TRUE /\ nextid = Dir /\ diskNextid = Dir /\ regular = {}
    BY DEF Init
  <2>4. Dir <= MaxId
    BY FileSystemAssumption
  <2> QED  BY <1>1, <1>3, <2>1, <2>2, <2>3, <2>4, Sets DEF IdsOK
<1>6. /\ \A o \in Ids : Readable(o) <=> o = Dir
      /\ Dir <= diskNextid
  BY Sets DEF Init, Readable, Storing, Unwritten
<1>7. MemoryOK
  BY <1>6, Sets DEF MemoryOK, LoadedOK, Stored, Safe, Init, Absent
<1>8. DiskOK
  BY <1>6, Sets DEF DiskOK, Init, Unwritten
<1>9. StableOK
  BY Sets DEF StableOK, Init
<1> QED  BY <1>2, <1>4, <1>5, <1>7, <1>8, <1>9 DEF DataOK

LEMMA CrashKeeps ==
  ASSUME DataOK, Crash
  PROVE  DataOK'
<1>1. /\ up' = FALSE /\ thread' = [t \in Threads |-> Idle] /\ diskLock' = NoThread
      /\ torn' = torn \cup {o \in Ids : Storing(o) /\ (o = Dir \/ disk[o].change > 0)}
      /\ entries' = NoEntries /\ object' = [o \in Ids |-> Absent]
      /\ version' = [o \in Ids |-> 0]
      /\ regular' = regular /\ disk' = disk /\ diskEntries' = diskEntries
      /\ diskNextid' = diskNextid /\ names' = names /\ stable' = stable
  BY DEF Crash, onDisk
<1>2. TypeOK /\ IdsOK /\ MemoryOK /\ DiskOK /\ StableOK
  BY DEF DataOK
<1>3. thread' \in [Threads -> {Idle}] /\ diskLock' = NoThread
  BY <1>1
<1>4. Exclusive' /\ LockOK' /\ ThreadsOK'
  BY <1>3, NowIdle
<1>5. thread' \in [Threads -> ThreadStates] /\ \A t \in Threads : thread'[t] = Idle
  BY <1>3, IdleTyped
<1>6. \A i \in Ids : Safe(i) => Safe(i)'
  BY <1>1 DEF Safe, Readable
<1>7. TypeOK'
  <2>1. entries' \in [Names -> FileIds] /\ up' \in BOOLEAN
    BY <1>1, Sets DEF NoEntries
  <2>2. object' \in [Ids -> Objects]
    BY <1>1 DEF Absent, Objects
  <2>3. \A t \in Threads : /\ thread'[t].todo = <<>> /\ thread'[t].op = "none"
                           /\ thread'[t].todo \in Seq(StepsOf(thread'[t].op))
    BY <1>5, IdleTyped
  <2>4. torn' \in SUBSET Ids
    BY <1>1, <1>2 DEF TypeOK
  <2> QED  BY <1>1, <1>2, <1>5, <2>1, <2>2, <2>3, <2>4 DEF TypeOK
<1>8. IdsOK'
  BY <1>1, <1>2, <1>5 DEF IdsOK, Absent
<1>9. MemoryOK'
  BY <1>1 DEF MemoryOK, Absent
<1>10. DiskOK'
  <2>1. Safe(Dir)
    BY <1>2 DEF DiskOK, Safe, IdsOK
  <2> QED  BY <1>1, <1>2, <1>6, <2>1, Sets DEF DiskOK, Safe
<1>11. StableOK'
  BY <1>1, <1>2, <1>6, Sets DEF StableOK
<1> QED  BY <1>4, <1>7, <1>8, <1>9, <1>10, <1>11 DEF DataOK

LEMMA RestartKeeps ==
  ASSUME DataOK, Restart
  PROVE  DataOK'
<1>1. /\ ~up /\ up' /\ disk[Dir].whole /\ entries' = diskEntries /\ nextid' = diskNextid
      /\ object' = [object EXCEPT ![Dir] =
           [loaded |-> TRUE, change |-> disk[Dir].change, lastSync |-> disk[Dir].change,
            refcnt |-> disk[Dir].refcnt]]
      /\ thread' = thread /\ version' = version /\ regular' = regular /\ diskLock' = diskLock
      /\ disk' = disk /\ diskEntries' = diskEntries /\ diskNextid' = diskNextid
      /\ names' = names /\ stable' = stable /\ torn' = torn
  BY DEF Restart, onDisk, history
<1>2. TypeOK /\ IdsOK /\ MemoryOK /\ DiskOK /\ StableOK
  BY DEF DataOK
<1>3. thread' \in [Threads -> {Idle}] /\ diskLock' = NoThread
  BY <1>1, <1>2 DEF IdsOK, TypeOK
<1>4. Exclusive' /\ LockOK' /\ ThreadsOK' /\ Allocators' = {}
  BY <1>3, NowIdle
<1>5. \A i \in Ids : (Safe(i) => Safe(i)') /\ (Readable(i) => Readable(i)')
  BY <1>1 DEF Safe, Readable, Storing, Synced, Arg
<1>6. /\ object'[Dir].loaded /\ object'[Dir].change = disk[Dir].change
      /\ object'[Dir].lastSync = disk[Dir].change
      /\ \A i \in Files : object'[i] = object[i]
      /\ object' \in [Ids -> Objects]
  <2>1. disk[Dir] \in DiskObjects
    BY <1>2, Sets DEF TypeOK
  <2>2. [loaded |-> TRUE, change |-> disk[Dir].change, lastSync |-> disk[Dir].change,
         refcnt |-> disk[Dir].refcnt] \in Objects
    BY <2>1 DEF Objects, DiskObjects
  <2> QED  BY <1>1, <1>2, <2>2, Sets DEF TypeOK
<1>7. TypeOK'
  BY <1>1, <1>2, <1>6 DEF TypeOK
<1>8. IdsOK'
  <2>1. Cardinality(Allocators)' = 0
    BY <1>4, FS_EmptySet
  <2>2. \A o \in Ids : object'[o].loaded => o <= diskNextid'
    BY <1>1, <1>2, <1>6, Sets DEF IdsOK
  <2> QED  BY <1>1, <1>2, <2>1, <2>2, Sets DEF IdsOK
<1>9. MemoryOK'
  <2>1. Safe(Dir)
    BY <1>2 DEF DiskOK, Safe, IdsOK
  <2>2. LoadedOK(Dir)'
    <3>1. disk[Dir].change \in Nat
      BY <1>2, Sets DEF TypeOK, DiskObjects
    <3> QED  BY <1>1, <1>2, <1>5, <1>6, <2>1, <3>1, Sets DEF LoadedOK, Stored, DiskOK
  <2>3. ASSUME NEW i \in Files, object'[i].loaded
        PROVE  LoadedOK(i)'
    BY <1>1, <1>2, <1>5, <1>6, <2>3, Sets, LoadedKept DEF MemoryOK
  <2> QED  BY <1>6, <2>2, <2>3, Sets DEF MemoryOK
<1>10. DiskOK'
  BY <1>1, <1>2, <1>5, Sets DEF DiskOK
<1>11. StableOK'
  BY <1>1, <1>2, <1>5, Sets DEF StableOK
<1> QED  BY <1>4, <1>7, <1>8, <1>9, <1>10, <1>11 DEF DataOK

LEMMA StepKeeps ==
  ASSUME DataOK, Locked, Next
  PROVE  DataOK'
<1>1. ASSUME NEW t \in Threads, Step(t)
      PROVE  DataOK'
  BY Zenon, <1>1, CheckAbsentKeeps, FindKeeps, LoadKeeps, ChooseOpenKeeps, ReplaceKeeps,
     AllocKeeps, LinkEntryKeeps, LinkRefcntKeeps, UnlinkCountKeeps, UnlinkDeleteKeeps,
     WriteKeeps, SyncBeginKeeps, SyncStoreKeeps, SyncMarkKeeps, FinishKeeps DEF Step
<1> QED  BY Zenon, <1>1, BeginKeeps, CrashKeeps, RestartKeeps DEF Next

LEMMA Stutter ==
  ASSUME DataOK, UNCHANGED vars
  PROVE  DataOK'
<1>1. /\ up' = up /\ entries' = entries /\ object' = object /\ version' = version
      /\ regular' = regular /\ nextid' = nextid /\ thread' = thread /\ diskLock' = diskLock
      /\ disk' = disk /\ diskEntries' = diskEntries /\ diskNextid' = diskNextid
      /\ names' = names /\ stable' = stable /\ torn' = torn
  BY DEF vars
<1>2. \A o : /\ Storing(o)' = Storing(o) /\ Readable(o)' = Readable(o) /\ Safe(o)' = Safe(o)
             /\ Stored(o)' = Stored(o) /\ LoadedOK(o)' = LoadedOK(o)
  BY <1>1 DEF Storing, Synced, Arg, Readable, Safe, Stored, LoadedOK
<1>3. \A t \in Threads : ThreadOK(t)' = ThreadOK(t)
  BY <1>1, <1>2 DEF ThreadOK, At, Synced, Arg, MakerOK, WriterOK, Choosing, Linked, Written, Made
<1>4. TypeOK' = TypeOK /\ Exclusive' = Exclusive
  BY <1>1 DEF TypeOK, Exclusive
<1>5. IdsOK' = IdsOK
  BY <1>1 DEF IdsOK, Allocators
<1>6. LockOK' = LockOK
  BY <1>1 DEF LockOK, At
<1>7. MemoryOK' = MemoryOK /\ DiskOK' = DiskOK /\ StableOK' = StableOK
  BY <1>1, <1>2 DEF MemoryOK, DiskOK, StableOK
<1> QED  BY <1>3, <1>4, <1>5, <1>6, <1>7 DEF DataOK, ThreadsOK

(* When OPEN, REMOVE and RENAME run alone, memory and disk stay as DataOK     *)
(* says: an object is never behind its files, where _last_sync says that it   *)
(* is on disk it is there, two handlers never work on what one of them has    *)
(* locked, and files that can be read are those of objects that were made.    *)
THEOREM MemoryAndDisk == Locked => (Spec => []DataOK)
<1> SUFFICES ASSUME Locked
             PROVE  Spec => []DataOK
  OBVIOUS
<1>1. Init => DataOK
  BY InitDataOK
<1>2. DataOK /\ [Next]_vars => DataOK'
  BY StepKeeps, Stutter
<1> QED  BY <1>1, <1>2, PTL DEF Spec

(* Data the server called stable is on disk, whatever the moment of a crash,  *)
(* when OPEN, REMOVE and RENAME run alone: sync is skipped only if _last_sync *)
(* and change agree, and they agree only if the disk has the data.            *)
THEOREM StableDataIsSafe == Locked => (Spec => []StableDataIsOnDisk)
<1>1. DataOK => StableDataIsOnDisk
  BY DEF DataOK, StableOK, StableDataIsOnDisk, Safe
<1> QED  BY <1>1, MemoryAndDisk, PTL

-----------------------------------------------------------------------------
(* Names: what a step leaves                                                  *)

\* A handler that makes a file is in one place.
LEMMA Places ==
  ASSUME NEW r
  PROVE  /\ r.todo \in {Checking(r.name), Opening(r.name)} =>
              /\ r.todo \notin {Making(r.name), Entering(r.name)}
              /\ ~Linked(r) /\ ~Written(r) /\ ~Made(r)
         /\ r.todo = Making(r.name) =>
              r.todo # Entering(r.name) /\ ~Linked(r) /\ ~Written(r) /\ ~Made(r)
         /\ r.todo = Entering(r.name) =>
              r.todo # Making(r.name) /\ ~Linked(r) /\ ~Written(r) /\ ~Made(r)
         /\ Linked(r) =>
              r.todo \notin {Making(r.name), Entering(r.name)} /\ ~Written(r) /\ ~Made(r)
         /\ Written(r) =>
              r.todo \notin {Making(r.name), Entering(r.name)} /\ ~Linked(r) /\ ~Made(r)
         /\ r.todo = <<>> =>
              r.todo \notin {Making(r.name), Entering(r.name)} /\ ~Linked(r) /\ ~Written(r)
<1>1. PICK n, q : n = r.name /\ q = r.todo
  OBVIOUS
<1>2. \A s \in Syncs, u \in Syncs :
        /\ BothSyncs(s) \notin {DirSync(u), <<>>} /\ DirSync(s) # <<>>
        /\ {Checking(n), Opening(n), Making(n), Entering(n)} \cap
             {Entered(n), Counting(n), BothSyncs(s), DirSync(s), <<>>} = {}
        /\ {Entered(n), Counting(n)} \cap {BothSyncs(s), DirSync(s), <<>>} = {}
        /\ {Checking(n), Opening(n)} \cap {Making(n), Entering(n)} = {}
        /\ Making(n) # Entering(n)
  <2> TAKE s \in Syncs, u \in Syncs
  <2> QED  BY PlacesDiffer
<1>3. Linked(r) <=> q \in {Entered(n), Counting(n)} \cup {BothSyncs(s) : s \in Syncs}
  BY <1>1 DEF Linked
<1>4. Written(r) <=> q \in {DirSync(s) : s \in Syncs}
  BY <1>1 DEF Written
<1>5. Made(r) => q = <<>>
  BY <1>1 DEF Made
<1>6. "sync" \in Syncs
  BY DEF Syncs
<1>7. /\ q \in {Checking(n), Opening(n)} =>
           q \notin {Making(n), Entering(n)} /\ ~Linked(r) /\ ~Written(r) /\ ~Made(r)
      /\ q = Making(n) => q # Entering(n) /\ ~Linked(r) /\ ~Written(r) /\ ~Made(r)
      /\ q = Entering(n) => q # Making(n) /\ ~Linked(r) /\ ~Written(r) /\ ~Made(r)
  BY <1>2, <1>3, <1>4, <1>5, <1>6
<1>8. /\ Linked(r) => q \notin {Making(n), Entering(n)} /\ ~Written(r) /\ ~Made(r)
      /\ Written(r) => q \notin {Making(n), Entering(n)} /\ ~Linked(r) /\ ~Made(r)
      /\ q = <<>> => q \notin {Making(n), Entering(n)} /\ ~Linked(r) /\ ~Written(r)
  BY <1>2, <1>3, <1>4, <1>5, <1>6
<1> QED  BY Zenon, <1>1, <1>7, <1>8

\* The other threads, when names stay
LEMMA NamerStays ==
  ASSUME DataOK, NamesOK, NEW u \in Threads, thread'[u] = thread[u],
         UNCHANGED <<entries, diskEntries>>, \A i \in Ids : Safe(i) => Safe(i)'
  PROVE  NamerOK(thread[u])' /\ (At(u, "mark") /\ Synced(u) = Dir => DirStored)'
<1>1. /\ NamerOK(thread[u]) /\ (At(u, "mark") /\ Synced(u) = Dir => DirStored)
      /\ thread[u].id \in FileIds /\ (thread[u].op \in Makers => MakerOK(thread[u]))
  BY DEF NamesOK, DataOK, ThreadsOK, ThreadOK, TypeOK, ThreadStates
<1>2. thread[u].id # NoId /\ Safe(thread[u].id) => Safe(thread[u].id)'
  BY <1>1, Sets DEF Safe, Readable, Storing
<1>3. thread[u].op \in Makers /\ (Written(thread[u]) \/ Made(thread[u])) => thread[u].id # NoId
  BY <1>1 DEF MakerOK
<1>4. NamerOK(thread[u])'
  BY <1>1, <1>2, <1>3 DEF NamerOK, Linked, Written, Made
<1>5. At(u, "mark")' = At(u, "mark") /\ Synced(u)' = Synced(u) /\ DirStored' = DirStored
  BY DEF At, Synced, Arg, DirStored
<1> QED  BY <1>1, <1>4, <1>5

\* A step that changes no name
LEMMA NamesStay ==
  ASSUME DataOK, NamesOK, up, up', NEW t \in Threads,
         \A u \in Threads \ {t} : thread'[u] = thread[u],
         UNCHANGED <<entries, diskEntries, names>>,
         \A i \in Ids : Safe(i) => Safe(i)',
         Unsaved(thread[t]) /\ thread[t].id \in Files =>
           thread'[t].id = thread[t].id /\ (Unsaved(thread'[t]) \/ Safe(thread[t].id)'),
         \A o \in Files : object'[o].loaded => object[o].loaded \/ Safe(o)' \/ InMaking(o)',
         object'[Dir].lastSync = object'[Dir].change => DirStored,
         NamerOK(thread[t])', At(t, "mark")' /\ Synced(t)' = Dir => DirStored
  PROVE  NamesOK'
<1>1. /\ TypeOK /\ diskEntries \in [Names -> FileIds] /\ entries \in [Names -> FileIds]
      /\ names \in [Names -> FileIds]
  BY DEF DataOK, TypeOK
<1>2. \A o \in Files : InMaking(o) => Safe(o)' \/ InMaking(o)'
  <2> SUFFICES ASSUME NEW o \in Files, NEW u \in Threads, Unsaved(thread[u]), thread[u].id = o
               PROVE  Safe(o)' \/ InMaking(o)'
    BY DEF InMaking
  <2>1. CASE u = t
    <3>1. thread'[t].id = o
      BY <2>1
    <3>2. CASE Unsaved(thread'[t])
      BY <2>1, <3>1, <3>2 DEF InMaking, Unsaved, Linked
    <3>3. CASE Safe(thread[t].id)'
      BY <3>1, <3>3 DEF Safe, Readable, Storing
    <3> QED  BY <2>1, <3>2, <3>3
  <2>2. CASE u # t
    BY <2>2 DEF InMaking, Unsaved, Linked
  <2> QED  BY <2>1, <2>2
<1>3. \A n \in Names :
        /\ names'[n] # NoId => (up' => entries'[n] = names'[n]) /\ diskEntries'[n] = names'[n]
        /\ names'[n] # NoId => Safe(names[n])'
        /\ diskEntries'[n] # NoId => Safe(diskEntries[n])'
        /\ entries'[n] # NoId => Safe(entries[n])' \/ InMaking(entries[n])'
  <2> TAKE n \in Names
  <2>1. PICK a, b, c : a = names[n] /\ b = diskEntries[n] /\ c = entries[n]
    OBVIOUS
  <2>2. /\ a # NoId => a \in Files /\ c = a /\ b = a /\ Safe(a)'
        /\ b # NoId => Safe(b)' /\ b \in Files
        /\ c # NoId => (Safe(c)' \/ InMaking(c)') /\ c \in Files
    BY <1>1, <1>2, <2>1, Sets DEF NamesOK
  <2>3. names'[n] = a /\ diskEntries'[n] = b /\ entries'[n] = c
    BY <2>1
  <2> QED  BY <2>2, <2>3 DEF Safe, Readable, Storing, InMaking
<1>6. \A o \in Files : object'[o].loaded => Safe(o)' \/ InMaking(o)'
  BY <1>2, Sets DEF NamesOK
<1>7. DirStored' = DirStored
  BY DEF DirStored
<1>8. \A u \in Threads : NamerOK(thread[u])' /\ (At(u, "mark") /\ Synced(u) = Dir => DirStored)'
  BY <1>7, NamerStays
<1> QED  BY <1>3, <1>6, <1>7, <1>8 DEF NamesOK

\* What is on disk stays there while the disk does.
LEMMA SafeStays ==
  ASSUME DataOK, NEW t \in Threads, ~At(t, "store"),
         \A u \in Threads \ {t} : thread'[u] = thread[u],
         UNCHANGED <<diskLock, disk, diskNextid, torn>>
  PROVE  \A i \in Ids : Safe(i) => Safe(i)'
<1>1. TypeOK /\ LockOK /\ diskNextid \in Nat
  BY DEF DataOK, IdsOK
<1> QED  BY <1>1, SafeKept

\* A handler that makes a file goes on, and knows what it did.
LEMMA MakerNames ==
  ASSUME DataOK, NamesOK, NEW t \in Threads, NEW s, At(t, s), s \notin {"alloc", "choose", "entry"},
         thread[t].op \in Makers, Moved(t), thread'[t].todo = Tail(thread[t].todo),
         thread'[t].id = thread[t].id, UNCHANGED <<entries, diskEntries>>,
         \A i \in Ids : Safe(i) => Safe(i)',
         s = "absent" => entries[Arg(t)] = NoId,
         s \in Syncs /\ Arg(t) = "object" => Safe(thread[t].id),
         s \in Syncs /\ Arg(t) = "dir" => DirStored
  PROVE  /\ NamerOK(thread[t])'
         /\ Unsaved(thread[t]) => Unsaved(thread'[t]) \/ Safe(thread[t].id)'
<1>1. PICK r, q : r = thread[t] /\ q = thread'[t]
  OBVIOUS
<1>2. /\ TypeOK /\ MakerOK(r) /\ NamerOK(r) /\ r.op \in Makers /\ r.id \in FileIds
      /\ r.name \in Names
  <2>1. r.name \in Names
    BY <1>1, AtStep DEF DataOK
  <2> QED  BY <1>1, <2>1 DEF DataOK, ThreadsOK, ThreadOK, NamesOK, TypeOK, ThreadStates
<1>3. /\ q.op = r.op /\ q.name = r.name /\ q.id = r.id /\ q.todo = Tail(r.todo)
  BY <1>1 DEF Moved
<1>4. PICK n, e : n = r.name /\ e = entries[n]
  OBVIOUS
<1>5. \/ r.todo = Checking(n) /\ q.todo = Making(n) /\ s = "absent" /\ Arg(t) = n
      \/ r.todo = Entered(n) /\ q.todo = Counting(n)
      \/ r.todo = Counting(n) /\ q.todo = BothSyncs("sync")
      \/ /\ s \in Syncs /\ r.todo = BothSyncs(s) /\ q.todo = DirSync("sync") /\ Arg(t) = "object"
      \/ s \in Syncs /\ r.todo = DirSync(s) /\ q.todo = <<>> /\ Arg(t) = "dir"
  BY SMTT(40), Zenon, <1>1, <1>2, <1>3, <1>4, MakerSteps
<1>6. "sync" \in Syncs
  BY DEF Syncs
<1>7. \A i \in Ids : Safe(i) => Safe(i)'
  OBVIOUS
<1>8. r.id # NoId /\ Safe(r.id) => Safe(q.id)'
  <2>1. r.id # NoId => r.id \in Ids
    BY <1>2, Sets
  <2> QED  BY <1>3, <1>7, <2>1
<1>9. /\ NamerOK(q)'
      /\ Unsaved(r) => Unsaved(q) \/ Safe(q.id)'
  <2>1. CASE r.todo = Checking(n) /\ q.todo = Making(n) /\ s = "absent" /\ Arg(t) = n
    <3>1. ~Unsaved(r)
      BY <1>4, <2>1, Places DEF Unsaved
    <3>2. ~Linked(q) /\ ~Written(q) /\ ~Made(q)
      BY <1>3, <1>4, <2>1, Places
    <3>3. entries'[n] = NoId
      BY <2>1
    <3> QED  BY <1>2, <1>3, <1>4, <3>1, <3>2, <3>3 DEF NamerOK, Makers
  <2>2. CASE \/ r.todo = Entered(n) /\ q.todo = Counting(n)
             \/ r.todo = Counting(n) /\ q.todo = BothSyncs("sync")
    <3>1. Linked(r) /\ Linked(q)
      BY <1>3, <1>4, <1>6, <2>2 DEF Linked
    <3>2. q.todo \notin {Making(n), Entering(n)} /\ ~Written(q) /\ ~Made(q)
      BY <1>3, <1>4, <3>1, Places
    <3>3. entries'[n] = q.id
      BY <1>2, <1>3, <1>4, <3>1 DEF NamerOK
    <3>4. Unsaved(q)
      BY <1>2, <1>3, <3>1 DEF Unsaved
    <3> QED  BY <1>2, <1>3, <1>4, <3>1, <3>2, <3>3, <3>4 DEF NamerOK, Makers
  <2>3. CASE /\ s \in Syncs /\ r.todo = BothSyncs(s) /\ q.todo = DirSync("sync")
             /\ Arg(t) = "object"
    <3>1. Linked(r) /\ Written(q)
      BY <1>3, <1>4, <1>6, <2>3 DEF Linked, Written
    <3>2. q.todo \notin {Making(n), Entering(n)} /\ ~Linked(q) /\ ~Made(q)
      BY <1>3, <1>4, <3>1, Places
    <3>3. entries'[n] = q.id
      BY <1>2, <1>3, <1>4, <3>1 DEF NamerOK
    <3>4. Safe(q.id)'
      BY <1>1, <1>2, <1>8, <2>3, <3>1 DEF MakerOK
    <3> QED  BY <1>2, <1>3, <1>4, <3>1, <3>2, <3>3, <3>4 DEF NamerOK, Makers
  <2>4. CASE s \in Syncs /\ r.todo = DirSync(s) /\ q.todo = <<>> /\ Arg(t) = "dir"
    <3>1. Written(r)
      BY <1>4, <2>4 DEF Written
    <3>2. ~Unsaved(r)
      BY <1>4, <3>1, Places DEF Unsaved
    <3>3. q.todo \notin {Making(n), Entering(n)} /\ ~Linked(q) /\ ~Written(q)
      BY <1>3, <1>4, <2>4, Places
    <3>4. entries'[n] = q.id /\ r.id # NoId
      BY <1>2, <1>3, <1>4, <3>1 DEF NamerOK, MakerOK
    <3>5. Safe(q.id)'
      BY <1>2, <1>8, <3>1, <3>4 DEF NamerOK
    <3>6. diskEntries'[n] = q.id
      BY <1>2, <1>3, <1>4, <2>4, <3>4 DEF DirStored
    <3> QED  BY <1>2, <1>3, <1>4, <3>2, <3>3, <3>4, <3>5, <3>6 DEF NamerOK, Makers
  <2> QED  BY <1>5, <2>1, <2>2, <2>3, <2>4
<1>10. NamerOK(q)' => NamerOK(thread[t])'
  BY <1>1 DEF NamerOK, Safe, Readable, Storing, Linked, Written, Made
<1>11. Safe(q.id)' => Safe(thread[t].id)'
  BY <1>1 DEF Safe, Readable, Storing
<1> QED  BY <1>1, <1>9, <1>10, <1>11

\* The others: what RENAME and LINK have found is on disk.
LEMMA OtherNames ==
  ASSUME DataOK, NamesOK, NEW t \in Threads, NEW s, At(t, s), s \notin {"find", "handle"},
         thread[t].op \notin Makers, Moved(t), thread'[t].id = thread[t].id,
         \A i \in Ids : Safe(i) => Safe(i)'
  PROVE  NamerOK(thread[t])' /\ ~Unsaved(thread[t])
<1>1. /\ TypeOK /\ NamerOK(thread[t]) /\ thread[t].id \in FileIds /\ thread'[t].op = thread[t].op
      /\ thread[t].todo # <<>> /\ Head(thread[t].todo)[1] = s
  BY DEF DataOK, NamesOK, TypeOK, ThreadStates, Moved, At
<1>2. thread[t].op \in {"rename", "link"} => thread[t].id # NoId /\ Safe(thread[t].id)
  BY <1>1 DEF NamerOK
<1>3. thread[t].op \in {"rename", "link"} => thread'[t].id # NoId /\ Safe(thread[t].id)'
  <2>1. PICK i : i = thread[t].id
    OBVIOUS
  <2>2. i # NoId /\ Safe(i) => Safe(i)'
    BY <1>1, <2>1, Sets
  <2>3. Safe(i)' => Safe(thread[t].id)'
    BY <2>1 DEF Safe, Readable, Storing
  <2> QED  BY <1>2, <2>1, <2>2, <2>3
<1> QED  BY <1>1, <1>3 DEF NamerOK, Unsaved

\* A handler that failed, and one that is done
LEMMA FailNames ==
  ASSUME DataOK, NEW t \in Threads, Fail(t)
  PROVE  NamerOK(thread[t])' /\ ~At(t, "mark")'
<1>1. thread'[t].todo = <<>> /\ thread'[t].promises = FALSE
  BY Fails DEF DataOK
<1>2. PICK q : q = thread'[t]
  OBVIOUS
<1>3. NamerOK(q)'
  BY <1>1, <1>2, Places DEF NamerOK, Made
<1>4. NamerOK(q)' => NamerOK(thread[t])'
  BY <1>2 DEF NamerOK, Safe, Readable, Storing, Linked, Written, Made
<1> QED  BY <1>1, <1>3, <1>4 DEF At

LEMMA NotYet ==
  ASSUME DataOK, NEW t \in Threads, NEW s, At(t, s),
         s \notin {"entry", "refcnt", "refcnt + 1"} \cup Syncs
  PROVE  ~Unsaved(thread[t])
<1> SUFFICES ASSUME thread[t].op \in Makers
             PROVE  ~Unsaved(thread[t])
  BY DEF Unsaved
<1>1. TypeOK /\ MakerOK(thread[t])
  BY DEF DataOK, ThreadsOK, ThreadOK
<1>2. thread[t].todo \in {Checking(thread[t].name), Opening(thread[t].name),
                          Making(thread[t].name)}
  BY <1>1, MakerSteps
<1> QED  BY <1>2, Places DEF Unsaved

\* A handler goes on and changes no name.
LEMMA GoingOnNames ==
  ASSUME DataOK, NamesOK, NEW t \in Threads, NEW s, At(t, s),
         s \notin {"alloc", "choose", "entry", "find", "handle", "store"},
         Moved(t), thread'[t].id = thread[t].id,
         thread[t].op \in Makers => thread'[t].todo = Tail(thread[t].todo),
         UNCHANGED <<up, entries, diskEntries, names, diskLock, disk, diskNextid, torn>>,
         \A o \in Files : object'[o].loaded => object[o].loaded,
         object'[Dir].lastSync = object'[Dir].change => DirStored,
         s = "absent" /\ thread[t].op \in Makers => entries[Arg(t)] = NoId,
         s \in Syncs /\ Arg(t) = "object" /\ thread[t].op \in Makers => Safe(thread[t].id),
         s \in Syncs /\ Arg(t) = "dir" => DirStored
  PROVE  NamesOK'
<1>1. up /\ ~At(t, "store") /\ TypeOK
  BY AtWork, OneStep DEF DataOK
<1>2. \A u \in Threads \ {t} : thread'[u] = thread[u]
  BY DEF Moved
<1>3. \A i \in Ids : Safe(i) => Safe(i)'
  BY <1>1, <1>2, SafeStays
<1>4. /\ NamerOK(thread[t])'
      /\ Unsaved(thread[t]) => Unsaved(thread'[t]) \/ Safe(thread[t].id)'
  <2>1. CASE thread[t].op \in Makers
    BY <1>3, <2>1, MakerNames
  <2>2. CASE thread[t].op \notin Makers
    BY <1>3, <2>2, OtherNames
  <2> QED  BY <2>1, <2>2
<1>5. ~At(t, "mark")'
  BY NoneBegun
<1> QED  BY <1>1, <1>2, <1>3, <1>4, <1>5, NamesStay

\* A handler fails and changes no name.
LEMMA FailingNames ==
  ASSUME DataOK, NamesOK, up, NEW t \in Threads, Fail(t), ~At(t, "store"), ~Unsaved(thread[t]),
         UNCHANGED <<up, entries, diskEntries, names, diskLock, disk, diskNextid, torn>>,
         \A o \in Files : object'[o].loaded => object[o].loaded,
         object'[Dir].lastSync = object'[Dir].change => DirStored
  PROVE  NamesOK'
<1>1. \A u \in Threads \ {t} : thread'[u] = thread[u]
  BY Fails DEF DataOK, Moved
<1>2. \A i \in Ids : Safe(i) => Safe(i)'
  BY <1>1, SafeStays
<1> QED  BY <1>1, <1>2, FailNames, NamesStay

\* While the directory is synced, it holds what its file says.
LEMMA DirAsStored ==
  ASSUME NamesOK, up, UNCHANGED object
  PROVE  object'[Dir].lastSync = object'[Dir].change => DirStored
BY DEF NamesOK

LEMMA CheckAbsentNames ==
  ASSUME DataOK, NamesOK, NEW t \in Threads, CheckAbsent(t)
  PROVE  NamesOK'
<1>1. /\ At(t, "absent") /\ UNCHANGED <<up, memory, diskLock, onDisk, history>>
      /\ IF entries[Arg(t)] = NoId THEN Advance(t) ELSE Fail(t)
  BY DEF CheckAbsent
<1>2. up /\ ~At(t, "store") /\ TypeOK /\ "absent" \notin Syncs
  BY <1>1, AtWork, OneStep DEF DataOK, Syncs
<1>3. UNCHANGED <<up, entries, object, diskEntries, names, diskLock, disk, diskNextid, torn>>
  BY <1>1 DEF memory, onDisk, history
<1>4. object'[Dir].lastSync = object'[Dir].change => DirStored
  BY <1>2, <1>3, DirAsStored
<1>5. CASE entries[Arg(t)] = NoId /\ Advance(t)
  BY <1>1, <1>2, <1>3, <1>4, <1>5, Advances, GoingOnNames
<1>6. CASE Fail(t)
  <2>1. ~Unsaved(thread[t])
    BY <1>1, <1>2, NotYet
  <2> QED  BY <1>1, <1>2, <1>3, <1>4, <1>6, <2>1, FailingNames
<1> QED  BY <1>1, <1>5, <1>6

LEMMA UnlinkCountNames ==
  ASSUME DataOK, NamesOK, NEW t \in Threads, UnlinkCount(t)
  PROVE  NamesOK'
<1>1. /\ At(t, "count") /\ Advance(t)
      /\ object' = [object EXCEPT ![thread[t].target].refcnt = @ - 1]
      /\ UNCHANGED <<up, entries, diskLock, onDisk, history>>
  BY DEF UnlinkCount
<1>2. up /\ TypeOK /\ "count" \notin Syncs /\ object \in [Ids -> Objects]
  BY <1>1, AtWork DEF DataOK, Syncs, TypeOK
<1>3. UNCHANGED <<up, entries, diskEntries, names, diskLock, disk, diskNextid, torn>>
  BY <1>1 DEF onDisk, history
<1>4. \A i \in Ids : /\ object'[i].loaded = object[i].loaded
                     /\ object'[i].lastSync = object[i].lastSync
                     /\ object'[i].change = object[i].change
  BY <1>1, <1>2 DEF Objects
<1>5. object'[Dir].lastSync = object'[Dir].change => DirStored
  BY <1>2, <1>4, Sets DEF NamesOK
<1> QED  BY <1>1, <1>2, <1>3, <1>4, <1>5, Sets, Advances, GoingOnNames

LEMMA LinkRefcntNames ==
  ASSUME DataOK, NamesOK, NEW t \in Threads, LinkRefcnt(t)
  PROVE  NamesOK'
<1>1. UNCHANGED <<up, entries, diskEntries, names, diskLock, disk, diskNextid, torn>>
  BY DEF LinkRefcnt, onDisk, history
<1>2. PICK s \in {"refcnt", "refcnt + 1"} : At(t, s)
  BY DEF LinkRefcnt
<1>3. /\ up /\ TypeOK /\ s \notin Syncs /\ object \in [Ids -> Objects]
      /\ s \notin {"alloc", "choose", "entry", "find", "handle", "store", "absent"}
  BY <1>2, AtWork DEF DataOK, Syncs, TypeOK
<1>4. /\ SameData /\ Moved(t) /\ thread'[t].todo = Tail(thread[t].todo)
      /\ thread'[t].id = thread[t].id
  BY LinkRefcntMoves
<1>5. object'[Dir].lastSync = object'[Dir].change => DirStored
  BY <1>3, <1>4, Sets DEF NamesOK, SameData
<1> QED  BY <1>1, <1>2, <1>3, <1>4, <1>5, Sets, GoingOnNames DEF SameData

LEMMA ReplaceNames ==
  ASSUME DataOK, NamesOK, NEW t \in Threads, Replace(t)
  PROVE  NamesOK'
<1>1. At(t, "replace") /\ UNCHANGED <<up, memory, diskLock, onDisk, history>>
  BY DEF Replace
<1>2. /\ up /\ TypeOK /\ "replace" \notin Syncs /\ thread[t].op = "rename"
      /\ thread[t].op \notin Makers /\ thread[t].name \in Names /\ thread[t].to \in Names
  BY <1>1, AtWork, StepOf, AtStep DEF DataOK, Syncs, Makers
<1>3. UNCHANGED <<up, entries, object, diskEntries, names, diskLock, disk, diskNextid, torn>>
  BY <1>1 DEF memory, onDisk, history
<1>4. object'[Dir].lastSync = object'[Dir].change => DirStored
  BY <1>2, <1>3, DirAsStored
<1>5. Moved(t) /\ thread'[t].id = thread[t].id
  BY <1>2, ReplaceMoves
<1> QED  BY <1>1, <1>2, <1>3, <1>4, <1>5, GoingOnNames

\* One handler at a time links and unlinks.
LEMMA OneLinker ==
  ASSUME DataOK, Locked, NEW t \in Threads,
         thread[t].op \in Makers \cup {"link", "remove", "rename"}, NEW u \in Threads \ {t}
  PROVE  thread[u].op \notin Makers \cup {"link", "remove", "rename"}
<1>1. CASE thread[t].op \in {"open", "remove", "rename"}
  BY <1>1, Alone DEF Makers
<1>2. CASE thread[t].op \in {"create", "link"}
  BY <1>2 DEF DataOK, Exclusive, Locked, Makers
<1> QED  BY <1>1, <1>2 DEF Makers

\* What a handler that links finds is on disk.
LEMMA FoundSafe ==
  ASSUME DataOK, NamesOK, Locked, NEW t \in Threads, thread[t].op \in {"link", "rename"},
         NEW o \in Files, object[o].loaded
  PROVE  Safe(o)
<1>1. ~InMaking(o)
  <2> SUFFICES ASSUME NEW u \in Threads, Unsaved(thread[u])
               PROVE  FALSE
    BY DEF InMaking
  <2>1. u # t
    BY DEF Unsaved, Makers
  <2> QED  BY <2>1, OneLinker DEF Unsaved
<1> QED  BY <1>1 DEF NamesOK

\* RENAME and LINK know a file that is on disk.
LEMMA FoundNames ==
  ASSUME NEW t \in Threads, thread'[t].op \notin Makers,
         thread'[t].op \in {"rename", "link"} /\ thread'[t].todo # <<>> =>
           thread'[t].id # NoId /\ Safe(thread[t].id)'
  PROVE  NamerOK(thread[t])'
BY DEF NamerOK

LEMMA FindNames ==
  ASSUME DataOK, NamesOK, Locked, NEW t \in Threads, Find(t)
  PROVE  NamesOK'
<1>1. UNCHANGED <<up, memory, diskLock, onDisk, history>>
  BY DEF Find
<1>2. PICK s \in {"handle", "find", "target"} : At(t, s)
  BY DEF Find
<1>3. /\ up /\ ~At(t, "store") /\ TypeOK /\ thread[t].op \notin Makers /\ s \notin Syncs
      /\ s \notin {"entry", "refcnt", "refcnt + 1"} \cup Syncs
  BY <1>2, AtWork, OneStep, StepOf DEF DataOK, Makers, Writers, Syncs
<1>4. UNCHANGED <<up, entries, object, diskEntries, names, diskLock, disk, diskNextid, torn>>
  BY <1>1 DEF memory, onDisk, history
<1>5. object'[Dir].lastSync = object'[Dir].change => DirStored
  BY <1>3, <1>4, DirAsStored
<1>6. ~Unsaved(thread[t])
  BY <1>2, <1>3, NotYet
<1>7. CASE Sought(t) = NoId
  <2>1. Fail(t)
    BY <1>7 DEF Find
  <2> QED  BY <1>3, <1>4, <1>5, <1>6, <2>1, FailingNames
<1>8. CASE Sought(t) # NoId
  <2> DEFINE o == Sought(t)
  <2>1. /\ o \in Files /\ object[o].loaded
        /\ Tail(thread[t].todo) \in Seq(PlanOf(thread[t].op))
    BY <1>2, <1>3, <1>8, SoughtTyped, AtStep, Sets DEF Find
  <2>2. CASE s = "target"
    <3>1. thread' = [thread EXCEPT ![t] = [Then(t, Tail(thread[t].todo)) EXCEPT !.target = o]]
      BY Zenon, <1>2, <1>8, <2>2 DEF Find
    <3>2. Moved(t) /\ thread'[t].id = thread[t].id
      BY <1>3, <2>1, <3>1, GoesAt, Sets
    <3> QED  BY <1>2, <1>3, <1>4, <1>5, <2>2, <3>2, GoingOnNames
  <2>3. CASE s \in {"handle", "find"}
    <3>1. ~At(t, "target")
      BY <1>2, <2>3, OneStep
    <3>2. thread' = [thread EXCEPT ![t] = [Then(t, Tail(thread[t].todo)) EXCEPT !.id = o]]
      BY Zenon, <1>8, <3>1 DEF Find
    <3>3. /\ Moved(t) /\ thread'[t].todo = Tail(thread[t].todo)
          /\ thread'[t].id = o /\ thread'[t].target = thread[t].target
      <4>1. TypeOK /\ o \in FileIds /\ Tail(thread[t].todo) \in Seq(PlanOf(thread[t].op))
        BY <1>3, <2>1, Sets
      <4> HIDE DEF o
      <4> QED  BY Zenon, <3>2, <4>1, GoesWith
    <3>4. \A u \in Threads \ {t} : thread'[u] = thread[u]
      BY <3>3 DEF Moved
    <3>5. \A i \in Ids : Safe(i) => Safe(i)'
      BY <1>3, <1>4, <3>4, SafeStays
    <3>6. thread[t].op \in {"rename", "link"} => Safe(o)
      BY <2>1, FoundSafe
    <3>7. thread[t].op \in {"rename", "link"} => Safe(thread[t].id)'
      <4>1. PICK i : i = o
        OBVIOUS
      <4>2. Safe(i) => Safe(i)'
        BY <2>1, <3>5, <4>1, Sets
      <4>3. Safe(i)' => Safe(thread[t].id)'
        BY <3>3, <4>1 DEF Safe, Readable, Storing
      <4> QED  BY <3>6, <4>1, <4>2, <4>3
    <3>8. NamerOK(thread[t])'
      BY <1>3, <1>8, <3>3, <3>7, FoundNames DEF Moved
    <3>9. ~At(t, "mark")'
      BY <3>3, NoneBegun
    <3> QED  BY <1>3, <1>4, <1>5, <1>6, <3>4, <3>5, <3>8, <3>9, NamesStay
  <2> QED  BY <2>2, <2>3
<1> QED  BY <1>7, <1>8

\* What is read back from disk is there.
LEMMA LoadNames ==
  ASSUME DataOK, NamesOK, NEW t \in Threads, Load(t)
  PROVE  NamesOK'
<1>1. UNCHANGED <<up, entries, regular, nextid, diskLock, onDisk, history>>
  BY DEF Load
<1>2. PICK s \in {"handle", "find", "target", "choose"} : At(t, s)
  BY DEF Load
<1>3. /\ up /\ ~At(t, "store") /\ TypeOK /\ s \notin {"entry", "refcnt", "refcnt + 1"} \cup Syncs
  BY <1>2, AtWork, OneStep DEF DataOK, Syncs
<1>4. UNCHANGED <<up, entries, diskEntries, names, diskLock, disk, diskNextid, torn>>
  BY <1>1 DEF onDisk, history
<1>5. ~Unsaved(thread[t])
  BY <1>2, <1>3, NotYet
<1> DEFINE o == Sought(t)
<1>6. o \in Files
  BY <1>2, <1>3, SoughtTyped, Sets DEF Load
<1>7. CASE Fail(t) /\ UNCHANGED <<object, version>>
  <2>1. object'[Dir].lastSync = object'[Dir].change => DirStored
    BY <1>3, <1>7, DirAsStored
  <2> QED  BY <1>3, <1>4, <1>5, <1>7, <2>1, FailingNames
<1>8. CASE /\ disk[o].whole /\ UNCHANGED thread
           /\ object' = [object EXCEPT ![o] =
                [loaded |-> TRUE, change |-> disk[o].change, lastSync |-> disk[o].change,
                 refcnt |-> disk[o].refcnt]]
  <2>1. \A i \in Ids \ {o} : object'[i] = object[i]
    BY <1>3, <1>8 DEF TypeOK
  <2>2. object'[Dir].lastSync = object'[Dir].change => DirStored
    BY <1>3, <1>6, <2>1, Sets DEF NamesOK
  <2>3. \A i \in Ids : Safe(i) => Safe(i)'
    BY <1>3, <1>4, <1>8, SafeStays
  <2>4. \A i \in Files : object'[i].loaded => object[i].loaded \/ Safe(i)' \/ InMaking(i)'
    <3>1. Safe(o)
      BY <1>6, <1>8 DEF Safe, Readable, DataOK, DiskOK
    <3> QED  BY <1>6, <2>1, <2>3, <3>1, Sets
  <2>5. NamerOK(thread[t])' /\ (At(t, "mark") /\ Synced(t) = Dir => DirStored)'
    BY <1>4, <1>8, <2>3, NamerStays
  <2>6. ~At(t, "mark")'
    <3>1. ~At(t, "mark")
      BY <1>2, OneStep
    <3> QED  BY <1>8, <3>1 DEF At
  <2> QED  BY <1>3, <1>4, <1>5, <1>8, <2>2, <2>3, <2>4, <2>5, <2>6, NamesStay
<1> QED  BY <1>7, <1>8 DEF Load

\* A handler that begins to make a file, and one that has linked it
LEMMA NamerBegun ==
  ASSUME NEW t \in Threads, thread'[t].op \in Makers,
         \/ /\ thread'[t].todo \in {Making(thread'[t].name), Entering(thread'[t].name)}
            /\ entries'[thread'[t].name] = NoId
         \/ thread'[t].todo \in {Checking(thread'[t].name), Opening(thread'[t].name)}
         \/ Linked(thread[t])' /\ entries'[thread'[t].name] = thread'[t].id
  PROVE  NamerOK(thread[t])'
<1>1. PICK q : q = thread'[t]
  OBVIOUS
<1>2. Linked(thread[t])' => Linked(q)
  BY <1>1 DEF Linked
<1>3. NamerOK(q)'
  BY <1>1, <1>2, Places DEF NamerOK, Makers
<1>4. NamerOK(q)' => NamerOK(thread[t])'
  BY <1>1 DEF NamerOK, Safe, Readable, Storing, Linked, Written, Made
<1> QED  BY <1>3, <1>4

LEMMA ChooseOpenNames ==
  ASSUME DataOK, NamesOK, NEW t \in Threads, ChooseOpen(t)
  PROVE  NamesOK'
<1>1. At(t, "choose") /\ UNCHANGED <<up, entries, regular, nextid, diskLock, onDisk, history>>
  BY DEF ChooseOpen
<1>2. /\ up /\ thread[t].op = "open" /\ ~At(t, "store") /\ TypeOK /\ Arg(t) \in Names
      /\ thread[t].name \in Names /\ "choose" \notin {"entry", "refcnt", "refcnt + 1"} \cup Syncs
  <2>1. "choose" \notin Syncs
    BY DEF Syncs
  <2> QED  BY <1>1, <2>1, AtWork, OneStep, AtStep, StepOf DEF DataOK
<1>3. UNCHANGED <<up, entries, diskEntries, names, diskLock, disk, diskNextid, torn>>
  BY <1>1 DEF onDisk, history
<1>4. ~Unsaved(thread[t])
  BY <1>1, <1>2, NotYet
<1>5. Arg(t) = thread[t].name
  <2>1. MakerOK(thread[t]) /\ thread[t].op \in Makers
    BY <1>2 DEF DataOK, ThreadsOK, ThreadOK, Makers
  <2> QED  BY Zenon, <1>1, <1>2, <2>1, MakerSteps
<1> DEFINE o == entries[Arg(t)]
<1>6. ASSUME Moved(t)
      PROVE  /\ \A u \in Threads \ {t} : thread'[u] = thread[u]
             /\ \A i \in Ids : Safe(i) => Safe(i)'
             /\ thread'[t].op \in Makers /\ thread'[t].name = thread[t].name
             /\ ~At(t, "mark")'
  <2>1. \A u \in Threads \ {t} : thread'[u] = thread[u]
    BY <1>6 DEF Moved
  <2>2. \A i \in Ids : Safe(i) => Safe(i)'
    BY <1>2, <1>3, <2>1, SafeStays
  <2> QED  BY <1>2, <1>6, <2>1, <2>2, NoneBegun DEF Moved, Makers
<1>7. CASE Fail(t) /\ UNCHANGED <<object, version>>
  <2>1. object'[Dir].lastSync = object'[Dir].change => DirStored
    BY <1>2, <1>7, DirAsStored
  <2> QED  BY <1>2, <1>3, <1>4, <1>7, <2>1, FailingNames
<1>8. CASE /\ o = NoId /\ thread' = [thread EXCEPT ![t] = Then(t, Making(Arg(t)))]
           /\ UNCHANGED <<object, version>>
  <2>1. Making(Arg(t)) \in Seq(PlanOf(thread[t].op))
    BY <1>2, Todos
  <2>2. Moved(t) /\ thread'[t].todo = Making(thread[t].name)
    BY <1>2, <1>5, <1>8, <2>1, Goes
  <2>3. NamerOK(thread[t])'
    BY <1>3, <1>5, <1>6, <1>8, <2>2, NamerBegun
  <2>4. object'[Dir].lastSync = object'[Dir].change => DirStored
    BY <1>2, <1>8, DirAsStored
  <2> QED  BY <1>2, <1>3, <1>4, <1>6, <1>8, <2>2, <2>3, <2>4, NamesStay
<1>9. CASE /\ o # NoId /\ object[o].loaded
           /\ thread' = [thread EXCEPT ![t] =
                [Then(t, <<<<"sync", "object">>, <<"sync", "dir">>>>) EXCEPT !.id = o]]
           /\ \/ UNCHANGED <<object, version>>
              \/ object' = [object EXCEPT ![o].change = @ + 2]
  <2>1. /\ o \in Files /\ o \in FileIds /\ o # Dir
        /\ BothSyncs("sync") \in Seq(PlanOf(thread[t].op))
    BY <1>2, <1>9, Sets, Todos DEF TypeOK
  <2>2. thread' = [thread EXCEPT ![t] = [Then(t, BothSyncs("sync")) EXCEPT !.id = o]]
    BY Zenon, <1>9 DEF BothSyncs
  <2>3. /\ Moved(t) /\ thread'[t].todo = BothSyncs("sync")
        /\ thread'[t].id = o /\ thread'[t].target = thread[t].target
    <3>1. TypeOK /\ o \in FileIds /\ BothSyncs("sync") \in Seq(PlanOf(thread[t].op))
      BY <1>2, <2>1
    <3> HIDE DEF o
    <3> QED  BY Zenon, <2>2, <3>1, GoesWith
  <2>4. Linked(thread[t])'
    BY <2>3 DEF Linked, Syncs
  <2>5. NamerOK(thread[t])'
    BY <1>3, <1>5, <1>6, <2>3, <2>4, NamerBegun
  <2>6. object'[Dir] = object[Dir] /\ \A i \in Files : object'[i].loaded = object[i].loaded
    <3>1. object \in [Ids -> Objects]
      BY <1>2 DEF TypeOK
    <3>2. PICK k : k = object[o].change + 2
      OBVIOUS
    <3>3. object' = object \/ object' = [object EXCEPT ![o].change = k]
      BY Zenon, <1>9, <3>2
    <3>4. o \in Files /\ o # Dir
      BY <2>1
    <3> HIDE DEF o
    <3>5. \A i \in Files : i \in Ids
      BY Sets
    <3>6. CASE object' = [object EXCEPT ![o].change = k]
      <4>1. /\ object'[Dir] = object[Dir] /\ \A i \in Files \ {o} : object'[i] = object[i]
            /\ object'[o] = [object[o] EXCEPT !.change = k]
        BY <3>1, <3>4, <3>5, <3>6, Sets
      <4>2. object'[o].loaded = object[o].loaded
        BY <3>1, <3>4, <3>5, <4>1 DEF Objects
      <4> QED  BY <4>1, <4>2
    <3> QED  BY <3>3, <3>6
  <2>7. object'[Dir].lastSync = object'[Dir].change => DirStored
    BY <1>2, <2>6 DEF NamesOK
  <2> QED  BY <1>2, <1>3, <1>4, <1>6, <2>3, <2>5, <2>6, <2>7, NamesStay
<1> QED  BY Zenon, <1>7, <1>8, <1>9 DEF ChooseOpen

LEMMA AllocNames ==
  ASSUME DataOK, NamesOK, NEW t \in Threads, Alloc(t)
  PROVE  NamesOK'
<1>1. /\ At(t, "alloc") /\ diskLock = NoThread /\ diskNextid' = nextid + 1
      /\ UNCHANGED <<up, entries, diskLock, diskEntries, names, torn>>
  BY DEF Alloc
<1>2. /\ up /\ ~At(t, "store") /\ TypeOK /\ LockOK /\ IdsOK /\ thread[t].op \in Makers
      /\ MakerOK(thread[t]) /\ "alloc" \notin Syncs
  <2>1. "alloc" \notin Syncs
    BY DEF Syncs
  <2> QED  BY <1>1, <2>1, AtWork, StepOf, OneStep DEF DataOK, ThreadsOK, ThreadOK
<1>3. thread[t].todo = Making(thread[t].name) /\ Tail(thread[t].todo) = Entering(thread[t].name)
  BY Zenon, <1>1, <1>2, MakerSteps
<1>4. PICK x : x = nextid + 1
  OBVIOUS
<1>5. /\ x \in Files /\ x > diskNextid /\ diskNextid \in Nat /\ x \in Ids /\ x # Dir
      /\ x \in Nat /\ diskNextid' = x
  <2>1. t \in Allocators
    BY <1>2, <1>3 DEF MakerOK, Choosing, Allocators
  <2> QED  BY <1>1, <1>2, <1>4, <2>1, IdLeft, Sets DEF IdsOK
<1>6. /\ \A i \in Ids \ {x} : object'[i] = object[i] /\ disk'[i] = disk[i]
      /\ thread' = [thread EXCEPT ![t] = [Then(t, Tail(thread[t].todo)) EXCEPT !.id = x]]
  <2>1. PICK y : y = [loaded |-> TRUE, change |-> 1, lastSync |-> 0, refcnt |-> 0]
    OBVIOUS
  <2>2. object' = [object EXCEPT ![x] = y] /\ disk' = [disk EXCEPT ![x] = Unwritten]
    BY <1>1, <1>4, <2>1 DEF Alloc
  <2>3. thread' = [thread EXCEPT ![t] = [Then(t, Tail(thread[t].todo)) EXCEPT !.id = x]]
    BY <1>1, <1>4 DEF Alloc
  <2> QED  BY <1>2, <2>2, <2>3 DEF TypeOK
<1>7. Moved(t) /\ thread'[t].todo = Entering(thread[t].name) /\ thread'[t].id = x
  <2>1. Tail(thread[t].todo) \in Seq(PlanOf(thread[t].op)) /\ x \in FileIds
    BY <1>1, <1>2, <1>5, AtStep, Sets
  <2>2. Moved(t) /\ thread'[t].todo = Tail(thread[t].todo) /\ thread'[t].id = x
    BY SMTT(40), Zenon, <1>2, <1>6, <2>1, GoesWith
  <2> QED  BY <1>3, <2>2
<1>8. /\ \A u \in Threads \ {t} : thread'[u] = thread[u]
      /\ thread'[t].op \in Makers /\ thread'[t].name = thread[t].name
  BY <1>2, <1>7 DEF Moved
<1>9. \A i \in Ids : Safe(i) => Safe(i)'
  <2>1. \A i \in Ids : Safe(i) => i # x
    BY <1>5, Sets DEF Safe
  <2> QED  BY <1>1, <1>2, <1>5, <1>6, <1>8, <2>1, SafeKept
<1>10. \A i \in Files : object'[i].loaded => object[i].loaded \/ Safe(i)' \/ InMaking(i)'
  <2>1. InMaking(x)'
    <3>1. Unsaved(thread[t])' /\ thread'[t].id = x
      BY <1>7, <1>8 DEF Unsaved
    <3> QED  BY <3>1 DEF InMaking
  <2> QED  BY <1>6, <2>1, Sets
<1>11. NamerOK(thread[t])'
  <2>1. entries[thread[t].name] = NoId
    BY <1>2, <1>3 DEF NamesOK, NamerOK
  <2> QED  BY <1>1, <1>7, <1>8, <2>1, NamerBegun
<1>12. ~Unsaved(thread[t])
  BY <1>1, <1>2, NotYet
<1>13. object'[Dir].lastSync = object'[Dir].change => DirStored
  BY <1>2, <1>5, <1>6, Sets DEF NamesOK
<1>14. ~At(t, "mark")'
  BY <1>7, NoneBegun
<1> QED  BY <1>1, <1>2, <1>8, <1>9, <1>10, <1>11, <1>12, <1>13, <1>14, NamesStay

LEMMA WriteNames ==
  ASSUME DataOK, NamesOK, NEW t \in Threads, Write(t)
  PROVE  NamesOK'
<1>1. At(t, "write") /\ UNCHANGED <<up, entries, regular, nextid, diskLock, onDisk, history>>
  BY DEF Write
<1>2. /\ up /\ thread[t].op = "write" /\ ~At(t, "store") /\ TypeOK /\ WriterOK(thread[t])
      /\ thread[t].op \notin Makers /\ "write" \notin Syncs /\ thread[t].name \in Names
  <2>1. "write" \notin Syncs
    BY DEF Syncs
  <2> QED  BY <1>1, <2>1, AtWork, OneStep, StepOf, AtStep
           DEF DataOK, ThreadsOK, ThreadOK, Writers, Makers
<1>3. UNCHANGED <<up, entries, diskEntries, names, diskLock, disk, diskNextid, torn>>
  BY <1>1 DEF onDisk, history
<1>4. thread[t].id \in Files
  BY <1>2 DEF WriterOK, TypeOK
<1>5. object'[Dir] = object[Dir] /\ \A i \in Files : object'[i].loaded = object[i].loaded
  <2>1. object \in [Ids -> Objects]
    BY <1>2 DEF TypeOK
  <2>2. PICK k : k = object[thread[t].id].change + 1
    OBVIOUS
  <2>3. object' = [object EXCEPT ![thread[t].id].change = k]
    BY <2>2 DEF Write
  <2> QED  BY <1>4, <2>1, <2>3, Sets DEF Objects
<1>6. object'[Dir].lastSync = object'[Dir].change => DirStored
  BY <1>2, <1>5 DEF NamesOK
<1>7. CASE Fail(t)
  <2>1. ~Unsaved(thread[t])
    BY <1>2 DEF Unsaved
  <2> QED  BY <1>2, <1>3, <1>5, <1>6, <1>7, <2>1, FailingNames
<1>8. CASE thread' = [thread EXCEPT ![t] = Then(t, <<<<"sync", "object">>>>)]
  <2>1. ObjectSync("sync") \in Seq(PlanOf(thread[t].op))
    BY <1>2, Todos
  <2>2. thread' = [thread EXCEPT ![t] = Then(t, ObjectSync("sync"))]
    BY Zenon, <1>8 DEF ObjectSync
  <2>3. Moved(t) /\ thread'[t].id = thread[t].id
    BY Zenon, <1>2, <2>1, <2>2, Goes
  <2> QED  BY <1>1, <1>2, <1>3, <1>5, <1>6, <2>3, GoingOnNames
<1> QED  BY Zenon, <1>7, <1>8 DEF Write

\* The object that a handler has made is loaded while it is synced.
LEMMA MakerSyncs ==
  ASSUME DataOK, NEW t \in Threads, NEW s \in Syncs, At(t, s), thread[t].op \in Makers
  PROVE  /\ \/ Arg(t) = "object" /\ thread[t].todo = BothSyncs(s)
            \/ Arg(t) = "dir" /\ thread[t].todo = DirSync(s)
         /\ Arg(t) = "object" => Synced(t) = thread[t].id /\ thread[t].id \in Ids
<1>1. TypeOK /\ MakerOK(thread[t]) /\ thread[t].id \in FileIds
  BY DEF DataOK, ThreadsOK, ThreadOK, TypeOK, ThreadStates
<1>2. \/ Arg(t) = "object" /\ thread[t].todo = BothSyncs(s)
      \/ Arg(t) = "dir" /\ thread[t].todo = DirSync(s)
  <2>1. s \notin {"absent", "choose", "alloc", "entry", "refcnt", "refcnt + 1"}
    BY DEF Syncs
  <2> QED  BY Zenon, <1>1, <2>1, MakerSteps
<1>3. ASSUME Arg(t) = "object"
      PROVE  Synced(t) = thread[t].id /\ thread[t].id \in Ids
  <2>1. thread[t].id # NoId
    BY <1>1, <1>2, <1>3 DEF MakerOK, Linked
  <2> QED  BY <1>1, <1>3, <2>1, SyncedIs, Sets
<1> QED  BY <1>2, <1>3

\* In a sync, a handler knows what it knew.
LEMMA GoneNames ==
  ASSUME DataOK, NamesOK, NEW t \in Threads, NEW s \in Syncs, At(t, s), NEW z \in Syncs,
         Go(t, z), UNCHANGED entries, \A i \in Ids : Safe(i) => Safe(i)'
  PROVE  /\ NamerOK(thread[t])' /\ thread'[t].id = thread[t].id
         /\ Unsaved(thread[t]) => Unsaved(thread'[t])
<1>1. PICK r, q : r = thread[t] /\ q = thread'[t]
  OBVIOUS
<1>2. TypeOK /\ NamerOK(r) /\ r.id \in FileIds /\ r.todo # <<>> /\ Head(r.todo)[1] = s
  BY <1>1 DEF DataOK, NamesOK, TypeOK, ThreadStates, At
<1>3. /\ q.op = r.op /\ q.name = r.name /\ q.id = r.id
      /\ q.todo = <<<<z, Arg(t)>>>> \o Tail(r.todo)
  BY <1>1, <1>2, Gone
<1>4. r.id # NoId /\ Safe(r.id) => Safe(q.id)'
  <2>1. r.id # NoId => r.id \in Ids
    BY <1>2, Sets
  <2>2. \A i \in Ids : Safe(i) => Safe(i)'
    OBVIOUS
  <2> QED  BY <1>3, <2>1, <2>2
<1>5. CASE r.op \in Makers
  <2>1. MakerOK(r)
    BY <1>1, <1>5 DEF DataOK, ThreadsOK, ThreadOK
  <2>2. \/ r.todo = BothSyncs(s) /\ q.todo = BothSyncs(z)
        \/ r.todo = DirSync(s) /\ q.todo = DirSync(z)
    <3>1. \/ Arg(t) = "object" /\ r.todo = BothSyncs(s)
          \/ Arg(t) = "dir" /\ r.todo = DirSync(s)
      BY <1>1, <1>5, MakerSyncs
    <3>2. q.todo = <<<<z, Arg(t)>>>> \o Tail(r.todo)
      BY <1>3
    <3>3. CASE Arg(t) = "object" /\ r.todo = BothSyncs(s)
      <4>1. q.todo = <<<<z, "object">>>> \o Tail(BothSyncs(s))
        BY <3>2, <3>3
      <4>2. <<<<z, "object">>>> \o Tail(BothSyncs(s)) = BothSyncs(z)
        <5>1. Tail(BothSyncs(s)) = DirSync("sync")
          BY SyncTails
        <5>2. <<<<z, "object">>>> \o DirSync("sync") = BothSyncs(z)
          BY Zenon, Before DEF BothSyncs, DirSync
        <5> QED  BY Zenon, <5>1, <5>2
      <4> QED  BY Zenon, <3>3, <4>1, <4>2
    <3>4. CASE Arg(t) = "dir" /\ r.todo = DirSync(s)
      <4>1. q.todo = <<<<z, "dir">>>> \o Tail(DirSync(s))
        BY <3>2, <3>4
      <4>2. <<<<z, "dir">>>> \o Tail(DirSync(s)) = DirSync(z)
        BY Zenon, SyncTails
      <4> QED  BY Zenon, <3>4, <4>1, <4>2
    <3> QED  BY <3>1, <3>3, <3>4
  <2>3. CASE r.todo = BothSyncs(s) /\ q.todo = BothSyncs(z)
    <3>1. Linked(r) /\ Linked(q)
      BY <2>3 DEF Linked
    <3>2. q.todo \notin {Making(q.name), Entering(q.name)} /\ ~Written(q) /\ ~Made(q)
      BY <3>1, Places
    <3>3. entries'[q.name] = q.id
      BY <1>2, <1>3, <1>5, <3>1 DEF NamerOK
    <3> QED  BY <1>3, <1>5, <3>1, <3>2, <3>3, <1>1 DEF NamerOK, Makers, Unsaved, Safe, Readable,
                Storing, Linked, Written, Made
  <2>4. CASE r.todo = DirSync(s) /\ q.todo = DirSync(z)
    <3>1. Written(r) /\ Written(q)
      BY <2>4 DEF Written
    <3>2. q.todo \notin {Making(q.name), Entering(q.name)} /\ ~Linked(q) /\ ~Made(q)
      BY <3>1, Places
    <3>3. ~Unsaved(r)
      BY <3>1, Places DEF Unsaved
    <3>4. entries'[q.name] = q.id /\ Safe(q.id)'
      BY <1>2, <1>3, <1>4, <1>5, <2>1, <3>1 DEF NamerOK, MakerOK
    <3>5. NamerOK(q)'
      BY <1>3, <1>5, <3>1, <3>2, <3>4 DEF NamerOK, Makers
    <3>6. NamerOK(q)' => NamerOK(thread[t])'
      BY <1>1 DEF NamerOK, Safe, Readable, Storing, Linked, Written, Made
    <3> QED  BY <1>1, <1>3, <3>3, <3>5, <3>6
  <2> QED  BY <2>2, <2>3, <2>4
<1>6. CASE r.op \notin Makers
  <2>1. r.op \in {"rename", "link"} => q.id # NoId /\ Safe(q.id)'
    BY <1>2, <1>3, <1>4 DEF NamerOK, Syncs
  <2>2. r.op \in {"rename", "link"} => Safe(thread[t].id)'
    BY <1>1, <2>1 DEF Safe, Readable, Storing
  <2> QED  BY <1>1, <1>3, <1>6, <2>1, <2>2, FoundNames DEF Unsaved
<1> QED  BY <1>5, <1>6

LEMMA SyncBeginNames ==
  ASSUME DataOK, NamesOK, NEW t \in Threads, SyncBegin(t)
  PROVE  NamesOK'
<1>1. At(t, "sync") /\ UNCHANGED <<up, memory, diskEntries, diskNextid, history>>
  BY DEF SyncBegin
<1>2. up /\ ~At(t, "store") /\ TypeOK /\ MemoryOK /\ "sync" \in Syncs
  BY <1>1, AtWork, OneStep DEF DataOK, Syncs
<1>3. PICK o : o = Synced(t)
  OBVIOUS
<1>4. UNCHANGED <<up, entries, object, diskEntries, names, diskNextid, torn>>
  BY <1>1 DEF memory, history
<1>5. object'[Dir].lastSync = object'[Dir].change => DirStored
  BY <1>2, <1>4, DirAsStored
<1>6. CASE object[o].lastSync = object[o].change /\ Advance(t) /\ UNCHANGED <<diskLock, disk>>
  <2>1. /\ Moved(t) /\ thread'[t].todo = Tail(thread[t].todo) /\ thread'[t].id = thread[t].id
    BY <1>1, <1>2, <1>6, Advances
  <2>2. Arg(t) = "object" /\ thread[t].op \in Makers => Safe(thread[t].id)
    <3> SUFFICES ASSUME Arg(t) = "object", thread[t].op \in Makers
                 PROVE  Safe(thread[t].id)
      OBVIOUS
    <3>1. o = thread[t].id /\ o \in Ids
      BY <1>1, <1>2, <1>3, MakerSyncs
    <3>2. object[o].loaded
      BY <1>1, <1>2, <1>3, <3>1, SyncedLoaded
    <3> QED  BY <1>2, <1>6, <3>1, <3>2 DEF MemoryOK, LoadedOK, Stored
  <2>3. Arg(t) = "dir" => DirStored
    BY <1>2, <1>3, <1>6, SyncedIs DEF NamesOK
  <2> QED  BY <1>1, <1>2, <1>4, <1>5, <1>6, <2>1, <2>2, <2>3, GoingOnNames
<1>7. CASE /\ diskLock = NoThread /\ diskLock' = t
           /\ disk' = [disk EXCEPT ![o].whole = FALSE] /\ Go(t, "store")
  <2>1. \A i \in Ids : Safe(i) => Safe(i)'
    BY <1>1, <1>3, <1>4, <1>7, SafeBegun
  <2>2. \A u \in Threads \ {t} : thread'[u] = thread[u]
    BY <1>1, <1>2, <1>7, Gone DEF Syncs
  <2>3. /\ NamerOK(thread[t])' /\ thread'[t].id = thread[t].id
        /\ Unsaved(thread[t]) => Unsaved(thread'[t])
    BY <1>1, <1>2, <1>4, <1>7, <2>1, GoneNames DEF Syncs
  <2>4. ~At(t, "mark")'
    <3>1. At(t, "store")'
      BY <1>1, <1>2, <1>7, GoneTo DEF Syncs
    <3> QED  BY <3>1 DEF At
  <2> QED  BY <1>2, <1>4, <1>5, <2>1, <2>2, <2>3, <2>4, NamesStay
<1> QED  BY <1>3, <1>6, <1>7 DEF SyncBegin

LEMMA SyncMarkNames ==
  ASSUME DataOK, NamesOK, NEW t \in Threads, SyncMark(t)
  PROVE  NamesOK'
<1>1. /\ At(t, "mark") /\ Advance(t)
      /\ UNCHANGED <<up, entries, version, regular, nextid, diskLock, onDisk, history>>
  BY DEF SyncMark
<1>2. /\ up /\ TypeOK /\ ThreadOK(t) /\ "mark" \in Syncs
      /\ "mark" \notin {"alloc", "choose", "entry", "find", "handle", "store", "absent"}
  BY <1>1, AtWork DEF DataOK, ThreadsOK, Syncs
<1>3. UNCHANGED <<up, entries, diskEntries, names, diskLock, disk, diskNextid, torn>>
  BY <1>1 DEF onDisk, history
<1>4. PICK o : o = Synced(t)
  OBVIOUS
<1>5. /\ o # Dir => object'[Dir] = object[Dir]
      /\ \A i \in Files : object'[i].loaded = object[i].loaded
  <2>1. object \in [Ids -> Objects]
    BY <1>2 DEF TypeOK
  <2>2. PICK k : k = object[o].change
    OBVIOUS
  <2>3. object' = [object EXCEPT ![o].lastSync = k]
    BY <1>4, <2>2 DEF SyncMark
  <2> QED  BY <2>1, <2>3, Sets DEF Objects
<1>6. o = Dir => DirStored
  BY <1>1, <1>4 DEF NamesOK
<1>7. object'[Dir].lastSync = object'[Dir].change => DirStored
  BY <1>2, <1>5, <1>6 DEF NamesOK
<1>8. Arg(t) = "object" /\ thread[t].op \in Makers => Safe(thread[t].id)
  BY <1>1, <1>2, MakerSyncs DEF ThreadOK, Stored
<1>9. Arg(t) = "dir" => DirStored
  BY <1>4, <1>6, SyncedIs
<1>10. /\ Moved(t) /\ thread'[t].todo = Tail(thread[t].todo) /\ thread'[t].id = thread[t].id
  BY <1>1, <1>2, Advances
<1> QED  BY <1>1, <1>2, <1>3, <1>5, <1>7, <1>8, <1>9, <1>10, GoingOnNames

\* When the directory is written, what it names is on disk.
LEMMA SyncStoreNames ==
  ASSUME DataOK, NamesOK, Locked, NEW t \in Threads, SyncStore(t)
  PROVE  NamesOK'
<1>1. /\ At(t, "store") /\ diskLock' = NoThread /\ Go(t, "mark")
      /\ UNCHANGED <<up, memory, diskNextid, history>>
  BY DEF SyncStore
<1>2. /\ up /\ TypeOK /\ "store" \in Syncs /\ "mark" \in Syncs
      /\ entries \in [Names -> FileIds] /\ names \in [Names -> FileIds]
  BY <1>1, AtWork DEF DataOK, Syncs, TypeOK
<1>3. PICK o : o = Synced(t)
  OBVIOUS
<1>4. UNCHANGED <<up, entries, object, names, diskNextid, torn>>
  BY <1>1 DEF memory, history
<1>5. \A i \in Ids : Safe(i) => Safe(i)'
  BY <1>3, SafeStored
<1>6. \A u \in Threads \ {t} : thread'[u] = thread[u]
  BY <1>1, <1>2, Gone
<1>7. /\ NamerOK(thread[t])' /\ thread'[t].id = thread[t].id
      /\ Unsaved(thread[t]) => Unsaved(thread'[t])
  BY <1>1, <1>2, <1>4, <1>5, GoneNames
<1>8. CASE o # Dir
  <2>1. diskEntries' = diskEntries
    BY <1>3, <1>8 DEF SyncStore
  <2>2. object'[Dir].lastSync = object'[Dir].change => DirStored
    BY <1>2, <1>4, DirAsStored
  <2>3. Synced(t)' # Dir
    BY <1>1, <1>2, <1>3, <1>8, GoneTo
  <2> QED  BY <1>2, <1>4, <1>5, <1>6, <1>7, <2>1, <2>2, <2>3, NamesStay
<1>9. CASE o = Dir
  <2>1. diskEntries' = entries /\ DirStored'
    BY <1>3, <1>4, <1>9 DEF SyncStore, DirStored
  <2>2. Arg(t) = "dir" /\ thread[t].op \in Makers \cup {"remove"}
    <3>1. /\ Arg(t) \in {"dir", "object", "target"}
          /\ Arg(t) = "dir" => thread[t].op \in Makers \cup {"remove"}
      BY <1>1, <1>2, AtStep, StepOf
    <3>2. thread[t].id # Dir /\ thread[t].target # Dir
      BY <1>2, Sets DEF TypeOK, ThreadStates, FileIds
    <3> QED  BY <1>3, <1>9, <3>1, <3>2, SyncedIs
  <2>3. ~Unsaved(thread[t])
    <3> SUFFICES ASSUME thread[t].op \in Makers
                 PROVE  ~Unsaved(thread[t])
      BY DEF Unsaved
    <3>1. thread[t].todo = DirSync("store")
      BY <1>1, <1>2, <2>2, MakerSyncs
    <3>2. Written(thread[t])
      BY <1>2, <3>1 DEF Written
    <3> QED  BY <3>2, Places DEF Unsaved
  <2>4. \A u \in Threads \ {t} : thread[u].op \notin Makers \cup {"link", "rename"}
    BY <2>2, OneLinker
  <2>5. \A i : ~InMaking(i)
    BY <2>3, <2>4 DEF InMaking, Unsaved
  <2>6. \A n \in Names :
          /\ names'[n] # NoId => entries'[n] = names'[n] /\ diskEntries'[n] = names'[n]
          /\ names'[n] # NoId => Safe(names[n])'
          /\ diskEntries'[n] # NoId => Safe(diskEntries[n])'
          /\ entries'[n] # NoId => Safe(entries[n])'
    <3> TAKE n \in Names
    <3>1. PICK a, c : a = names[n] /\ c = entries[n]
      OBVIOUS
    <3>2. /\ a # NoId => c = a /\ Safe(a)'
          /\ c # NoId => Safe(c)'
      BY <1>2, <1>5, <2>5, <3>1, Sets DEF NamesOK
    <3>3. names'[n] = a /\ diskEntries'[n] = c /\ entries'[n] = c
      BY <1>4, <2>1, <3>1
    <3> QED  BY <3>2, <3>3 DEF Safe, Readable, Storing
  <2>7. \A i \in Files : object'[i].loaded => Safe(i)'
    BY <1>4, <1>5, <2>5, Sets DEF NamesOK
  <2>8. ASSUME NEW u \in Threads
        PROVE  NamerOK(thread[u])'
    <3>1. CASE u = t
      BY <1>7, <3>1
    <3>2. CASE u # t
      BY <1>6, <2>4, <3>2 DEF NamerOK
    <3> QED  BY <3>1, <3>2
  <2> QED  BY <2>1, <2>6, <2>7, <2>8 DEF NamesOK
<1> QED  BY <1>8, <1>9

\* While one handler links or unlinks, no other one counts on names.
LEMMA OthersNameNothing ==
  ASSUME DataOK, Locked, NEW t \in Threads,
         thread[t].op \in Makers \cup {"link", "remove", "rename"}, NEW u \in Threads \ {t},
         thread'[u] = thread[u]
  PROVE  NamerOK(thread[u])' /\ ~(At(u, "mark") /\ Synced(u) = Dir)' /\ ~Unsaved(thread[u])
<1>1. thread[u].op \notin Makers \cup {"link", "remove", "rename"}
  BY OneLinker
<1>2. NamerOK(thread[u])' /\ ~Unsaved(thread[u])
  BY <1>1 DEF NamerOK, Unsaved
<1>3. ~(At(u, "mark") /\ Synced(u) = Dir)
  <2> SUFFICES ASSUME At(u, "mark"), Synced(u) = Dir
               PROVE  FALSE
    OBVIOUS
  <2>1. TypeOK /\ "mark" \in Syncs
    BY DEF DataOK, Syncs
  <2>2. /\ Arg(u) \in {"dir", "object", "target"}
        /\ Arg(u) = "dir" => thread[u].op \in Makers \cup {"remove"}
    BY <2>1, AtStep, StepOf
  <2>3. thread[u].id # Dir /\ thread[u].target # Dir
    BY <2>1, Sets DEF TypeOK, ThreadStates, FileIds
  <2> QED  BY <1>1, <2>2, <2>3, SyncedIs
<1>4. At(u, "mark")' = At(u, "mark") /\ Synced(u)' = Synced(u)
  BY DEF At, Synced, Arg
<1> QED  BY <1>2, <1>3, <1>4

LEMMA LinkEntryNames ==
  ASSUME DataOK, NamesOK, Locked, NEW t \in Threads, LinkEntry(t)
  PROVE  NamesOK'
<1>1. At(t, "entry") /\ UNCHANGED <<up, version, regular, nextid, diskLock, onDisk, history>>
  BY DEF LinkEntry
<1>2. /\ up /\ ~At(t, "store") /\ TypeOK /\ Arg(t) \in Names /\ "entry" \notin Syncs
      /\ thread[t].op \in Makers \cup {"link", "rename"} /\ thread[t].id \in Files
  <2>1. "entry" \notin Syncs
    BY DEF Syncs
  <2> QED  BY <1>1, <2>1, AtWork, OneStep, AtStep, StepOf, LinkerKnows DEF DataOK
<1>3. UNCHANGED <<up, diskEntries, names, diskLock, disk, diskNextid, torn>>
  BY <1>1 DEF onDisk, history
<1>4. thread[t].op \in Makers =>
        /\ Arg(t) = thread[t].name /\ thread[t].todo = Entering(thread[t].name)
        /\ Tail(thread[t].todo) = Entered(thread[t].name) /\ entries[Arg(t)] = NoId
  <2> SUFFICES ASSUME thread[t].op \in Makers
               PROVE  /\ Arg(t) = thread[t].name /\ thread[t].todo = Entering(thread[t].name)
                      /\ Tail(thread[t].todo) = Entered(thread[t].name)
                      /\ entries[Arg(t)] = NoId
    OBVIOUS
  <2>1. MakerOK(thread[t])
    BY DEF DataOK, ThreadsOK, ThreadOK
  <2>2. /\ Arg(t) = thread[t].name /\ thread[t].todo = Entering(thread[t].name)
        /\ Tail(thread[t].todo) = Entered(thread[t].name)
    BY Zenon, <1>1, <1>2, <2>1, MakerSteps
  <2> QED  BY <2>2 DEF NamesOK, NamerOK
<1>5. CASE entries[Arg(t)] # NoId /\ Fail(t) /\ UNCHANGED <<entries, object>>
  <2>1. ~Unsaved(thread[t])
    BY <1>4, <1>5 DEF Unsaved
  <2>2. object'[Dir].lastSync = object'[Dir].change => DirStored
    BY <1>2, <1>5, DirAsStored
  <2> QED  BY <1>2, <1>3, <1>5, <2>1, <2>2, FailingNames
<1>6. CASE /\ entries[Arg(t)] = NoId
           /\ entries' = [entries EXCEPT ![Arg(t)] = thread[t].id]
           /\ object' = [object EXCEPT ![Dir].change = @ + 1]
           /\ Advance(t)
  <2>1. /\ Moved(t) /\ thread'[t].todo = Tail(thread[t].todo) /\ thread'[t].id = thread[t].id
        /\ thread'[t].op = thread[t].op /\ thread'[t].name = thread[t].name
    BY <1>1, <1>2, <1>6, Advances DEF Moved
  <2>2. \A u \in Threads \ {t} : thread'[u] = thread[u]
    BY <2>1 DEF Moved
  <2>3. \A i \in Ids : Safe(i) => Safe(i)'
    BY <1>2, <1>3, <2>2, SafeStays
  <2>4. /\ \A i \in Files : object'[i] = object[i]
        /\ object'[Dir].lastSync # object'[Dir].change
    <3>1. object \in [Ids -> Objects] /\ object[Dir].change \in Nat /\ object[Dir].lastSync \in Nat
      BY <1>2, Sets DEF TypeOK, Objects
    <3>2. object[Dir].lastSync <= object[Dir].change
      BY <1>2, Sets DEF DataOK, MemoryOK, LoadedOK
    <3>3. PICK k : k = object[Dir].change + 1
      OBVIOUS
    <3>4. object' = [object EXCEPT ![Dir].change = k]
      BY Zenon, <1>6, <3>3
    <3>5. object'[Dir].lastSync = object[Dir].lastSync /\ object'[Dir].change = k
      BY <3>1, <3>4, Sets DEF Objects
    <3> QED  BY <3>1, <3>2, <3>3, <3>4, <3>5, Sets
  <2>5. thread[t].op \in Makers =>
          Linked(thread[t])' /\ Unsaved(thread'[t]) /\ Unsaved(thread[t])'
    BY <1>4, <2>1 DEF Linked, Unsaved
  <2>6. NamerOK(thread[t])' /\ (thread[t].op \notin Makers => Safe(thread[t].id))
    <3>1. CASE thread[t].op \in Makers
      <4>1. entries'[thread'[t].name] = thread'[t].id
        BY <1>2, <1>4, <1>6, <2>1, <3>1 DEF TypeOK
      <4> QED  BY <2>1, <2>5, <3>1, <4>1, NamerBegun
    <3>2. CASE thread[t].op \notin Makers
      <4>1. Safe(thread[t].id)
        BY <1>1, <1>2, <3>2 DEF NamesOK, NamerOK, At
      <4> QED  BY <1>1, <2>1, <2>3, <3>2, <4>1, OtherNames
    <3> QED  BY <3>1, <3>2
  <2>7. \A u \in Threads \ {t} :
          NamerOK(thread[u])' /\ ~(At(u, "mark") /\ Synced(u) = Dir)' /\ ~Unsaved(thread[u])
    BY <1>2, <2>2, OthersNameNothing
  <2>8. \A i : InMaking(i) => InMaking(i)'
    <3> SUFFICES ASSUME NEW i, NEW u \in Threads, Unsaved(thread[u]), thread[u].id = i
                 PROVE  InMaking(i)'
      BY DEF InMaking
    <3>1. u = t /\ thread[t].op \in Makers
      BY <2>7 DEF Unsaved
    <3> QED  BY <2>1, <2>5, <3>1 DEF InMaking
  <2>9. \A n \in Names :
          /\ names'[n] # NoId => entries'[n] = names'[n] /\ diskEntries'[n] = names'[n]
          /\ names'[n] # NoId => Safe(names[n])'
          /\ diskEntries'[n] # NoId => Safe(diskEntries[n])'
          /\ entries'[n] # NoId => Safe(entries[n])' \/ InMaking(entries[n])'
    <3> TAKE n \in Names
    <3>1. PICK a, b, c, d : a = names[n] /\ b = diskEntries[n] /\ c = entries[n] /\ d = thread[t].id
      OBVIOUS
    <3>2. a \in FileIds /\ b \in FileIds /\ c \in FileIds
      BY <1>2, <3>1 DEF TypeOK
    <3>3. /\ a # NoId => c = a /\ b = a /\ Safe(a)'
          /\ b # NoId => Safe(b)'
          /\ c # NoId => Safe(c)' \/ InMaking(c)'
      BY <1>2, <2>3, <2>8, <3>1, <3>2, Sets DEF NamesOK
    <3>4. /\ names'[n] = a /\ diskEntries'[n] = b
          /\ IF n = Arg(t) THEN entries'[n] = d /\ c = NoId ELSE entries'[n] = c
      BY <1>2, <1>3, <1>6, <3>1 DEF TypeOK
    <3>5. Safe(d)' \/ InMaking(d)'
      <4>1. CASE thread[t].op \in Makers
        BY <2>1, <2>5, <3>1, <4>1 DEF InMaking
      <4>2. CASE thread[t].op \notin Makers
        BY <1>2, <2>3, <2>6, <3>1, <4>2, Sets
      <4> QED  BY <4>1, <4>2
    <3> QED  BY <3>3, <3>4, <3>5 DEF Safe, Readable, Storing, InMaking
  <2>10. \A i \in Files : object'[i].loaded => Safe(i)' \/ InMaking(i)'
    BY <2>3, <2>4, <2>8, Sets DEF NamesOK
  <2>11. \A u \in Threads : NamerOK(thread[u])' /\ ~(At(u, "mark") /\ Synced(u) = Dir)'
    BY <2>1, <2>6, <2>7, NoneBegun
  <2> QED  BY <2>4, <2>9, <2>10, <2>11 DEF NamesOK
<1> QED  BY <1>5, <1>6 DEF LinkEntry

LEMMA UnlinkDeleteNames ==
  ASSUME DataOK, NamesOK, Locked, NEW t \in Threads, UnlinkDelete(t)
  PROVE  NamesOK'
<1>1. /\ At(t, "delete") /\ Advance(t)
      /\ entries' = [entries EXCEPT ![Arg(t)] = NoId]
      /\ names' = [names EXCEPT ![Arg(t)] = NoId]
      /\ UNCHANGED <<up, object, version, regular, nextid, diskLock, onDisk, stable, torn>>
  BY DEF UnlinkDelete
<1>2. /\ up /\ ~At(t, "store") /\ TypeOK /\ thread[t].op \in {"remove", "rename"}
      /\ thread[t].op \notin Makers
  BY <1>1, AtWork, OneStep, StepOf DEF DataOK, Makers
<1>3. UNCHANGED <<up, object, diskEntries, diskLock, disk, diskNextid, torn>>
  BY <1>1 DEF onDisk
<1>4. Moved(t) /\ thread'[t].id = thread[t].id
  BY <1>1, <1>2, Advances
<1>5. \A u \in Threads \ {t} : thread'[u] = thread[u]
  BY <1>4 DEF Moved
<1>6. \A i \in Ids : Safe(i) => Safe(i)'
  BY <1>2, <1>3, <1>5, SafeStays
<1>7. NamerOK(thread[t])' /\ ~Unsaved(thread[t])
  BY <1>1, <1>2, <1>4, <1>6, OtherNames
<1>8. \A u \in Threads \ {t} :
        NamerOK(thread[u])' /\ ~(At(u, "mark") /\ Synced(u) = Dir)' /\ ~Unsaved(thread[u])
  BY <1>2, <1>5, OthersNameNothing
<1>9. \A i : ~InMaking(i)
  BY <1>7, <1>8 DEF InMaking
<1>10. \A n \in Names :
        /\ names'[n] # NoId => entries'[n] = names'[n] /\ diskEntries'[n] = names'[n]
        /\ names'[n] # NoId => Safe(names[n])'
        /\ diskEntries'[n] # NoId => Safe(diskEntries[n])'
        /\ entries'[n] # NoId => Safe(entries[n])' /\ entries'[n] = entries[n]
  <2> TAKE n \in Names
  <2>1. PICK a, b, c : a = names[n] /\ b = diskEntries[n] /\ c = entries[n]
    OBVIOUS
  <2>2. a \in FileIds /\ b \in FileIds /\ c \in FileIds
    BY <1>2, <2>1 DEF TypeOK
  <2>3. /\ a # NoId => c = a /\ b = a /\ Safe(a)'
        /\ b # NoId => Safe(b)'
        /\ c # NoId => Safe(c)'
    BY <1>2, <1>6, <1>9, <2>1, <2>2, Sets DEF NamesOK
  <2>4. /\ diskEntries'[n] = b
        /\ IF n = Arg(t) THEN entries'[n] = NoId /\ names'[n] = NoId
                         ELSE entries'[n] = c /\ names'[n] = a
    BY <1>1, <1>2, <1>3, <2>1 DEF TypeOK
  <2> QED  BY <2>1, <2>3, <2>4 DEF Safe, Readable, Storing
<1>11. \A i \in Files : object'[i].loaded => Safe(i)'
  BY <1>3, <1>6, <1>9, Sets DEF NamesOK
<1>12. \A u \in Threads : NamerOK(thread[u])' /\ ~(At(u, "mark") /\ Synced(u) = Dir)'
  BY <1>4, <1>7, <1>8, NoneBegun
<1>13. DirStored => DirStored'
  BY <1>3, <1>10 DEF DirStored
<1>14. (up /\ object[Dir].lastSync = object[Dir].change => DirStored)'
  BY <1>2, <1>3, <1>13 DEF NamesOK
<1> QED  BY <1>10, <1>11, <1>12, <1>14 DEF NamesOK

\* A file that was made is promised by its name.
LEMMA FinishNames ==
  ASSUME DataOK, NamesOK, NEW t \in Threads, Finish(t)
  PROVE  NamesOK'
<1>1. /\ thread[t] # Idle /\ thread[t].todo = <<>> /\ Ended(t)
      /\ UNCHANGED <<up, memory, diskLock, onDisk, torn>>
  BY DEF Finish, Ended
<1>2. /\ up /\ TypeOK /\ ~At(t, "store") /\ entries \in [Names -> FileIds]
      /\ names \in [Names -> FileIds] /\ diskEntries \in [Names -> FileIds]
  BY <1>1, Working DEF DataOK, At, TypeOK
<1>3. UNCHANGED <<up, entries, object, diskEntries, diskLock, disk, diskNextid, torn>>
  BY <1>1 DEF memory, onDisk
<1>4. /\ thread'[t] = Idle /\ \A u \in Threads \ {t} : thread'[u] = thread[u]
  BY <1>1, <1>2 DEF Ended, TypeOK
<1>5. \A i \in Ids : Safe(i) => Safe(i)'
  BY <1>2, <1>3, <1>4, SafeStays
<1>6. ~Unsaved(thread[t])
  BY <1>1, Places DEF Unsaved
<1>7. NamerOK(thread[t])' /\ ~At(t, "mark")'
  BY <1>4, IdleTyped DEF NamerOK, Makers, At
<1>8. \A i : InMaking(i) => InMaking(i)'
  BY <1>4, <1>6 DEF InMaking, Unsaved, Linked
<1>9. PICK m, i : m = thread[t].name /\ i = thread[t].id
  OBVIOUS
<1>10. \/ names' = names
       \/ /\ names' = [names EXCEPT ![m] = i] /\ i \in Files
          /\ entries[m] = i /\ diskEntries[m] = i /\ Safe(i)
  <2>1. CASE thread[t].promises /\ thread[t].op \in {"create", "open"}
    <3>1. Made(thread[t]) /\ thread[t].op \in Makers
      BY <1>1, <2>1 DEF Made, Makers
    <3>2. MakerOK(thread[t]) /\ NamerOK(thread[t]) /\ i \in FileIds
      BY <1>2, <1>9, <3>1 DEF DataOK, ThreadsOK, ThreadOK, NamesOK, TypeOK, ThreadStates
    <3>3. i # NoId /\ entries[m] = i /\ diskEntries[m] = i /\ Safe(i)
      BY <1>9, <3>1, <3>2 DEF MakerOK, NamerOK
    <3>4. names' = [names EXCEPT ![m] = i]
      BY <1>9, <2>1 DEF Finish
    <3> QED  BY <3>2, <3>3, <3>4, Sets
  <2>2. CASE ~(thread[t].promises /\ thread[t].op \in {"create", "open"})
    BY <2>2 DEF Finish
  <2> QED  BY <2>1, <2>2
<1>11. \A n \in Names :
        /\ names'[n] # NoId => entries'[n] = names'[n] /\ diskEntries'[n] = names'[n]
        /\ names'[n] # NoId => Safe(names'[n]) /\ names'[n] \in Files
        /\ diskEntries'[n] # NoId => Safe(diskEntries[n]) /\ diskEntries[n] \in Files
        /\ entries'[n] # NoId =>
             (Safe(entries[n]) \/ InMaking(entries[n])) /\ entries[n] \in Files
  BY <1>2, <1>3, <1>10, Sets DEF NamesOK
<1>12. \A n \in Names :
        /\ names'[n] # NoId => Safe(names[n])'
        /\ diskEntries'[n] # NoId => Safe(diskEntries[n])'
        /\ entries'[n] # NoId => Safe(entries[n])' \/ InMaking(entries[n])'
  <2> TAKE n \in Names
  <2>1. PICK a, b, c : a = names'[n] /\ b = diskEntries[n] /\ c = entries[n]
    OBVIOUS
  <2>2. /\ a # NoId => Safe(a)'
        /\ b # NoId => Safe(b)'
        /\ c # NoId => Safe(c)' \/ InMaking(c)'
    BY <1>3, <1>5, <1>8, <1>11, <2>1, Sets
  <2> QED  BY <1>3, <2>1, <2>2 DEF Safe, Readable, Storing, InMaking
<1>13. \A j \in Files : object'[j].loaded => Safe(j)' \/ InMaking(j)'
  BY <1>3, <1>5, <1>8, Sets DEF NamesOK
<1>14. DirStored' = DirStored
  BY <1>3 DEF DirStored
<1>15. \A u \in Threads : NamerOK(thread[u])' /\ (At(u, "mark") /\ Synced(u) = Dir => DirStored)'
  <2>1. ASSUME NEW u \in Threads \ {t}
        PROVE  NamerOK(thread[u])' /\ (At(u, "mark") /\ Synced(u) = Dir => DirStored)'
    BY <1>3, <1>4, <1>5, NamerStays
  <2> QED  BY <1>7, <2>1
<1> QED  BY <1>2, <1>3, <1>11, <1>12, <1>13, <1>14, <1>15 DEF NamesOK

\* RENAME and LINK look for their file first.
LEMMA FindsFirst ==
  ASSUME NEW n
  PROVE  Head(Program("rename", n))[1] = "find" /\ Head(Program("link", n))[1] = "handle"
<1>1. ASSUME NEW a, NEW b
      PROVE  Head(<<a, b>>) = a
  OBVIOUS
<1>2. ASSUME NEW a, NEW b, NEW c, NEW d, NEW e
      PROVE  Head(<<a, b>> \o <<c, d, e>>) = a
  <2>1. <<a, b>> \in Seq({a, b, c, d, e}) /\ <<c, d, e>> \in Seq({a, b, c, d, e})
    OBVIOUS
  <2>2. (<<a, b>> \o <<c, d, e>>)[1] = <<a, b>>[1]
    BY <2>1, ConcatProperties
  <2>3. Head(<<a, b>> \o <<c, d, e>>) = (<<a, b>> \o <<c, d, e>>)[1]
    BY <2>1, ConcatProperties
  <2> QED  BY <2>2, <2>3
<1>3. Head(Program("rename", n)) = <<"find", n>>
  BY Zenon, <1>1 DEF Program
<1>4. Head(Program("link", n)) = <<"handle", n>>
  <2>1. PICK a, b : a = <<"handle", n>> /\ b = <<"absent", n>>
    OBVIOUS
  <2>2. PICK c, d, e : c = <<"entry", n>> /\ d = <<"refcnt", n>> /\ e = <<"refcnt + 1", n>>
    OBVIOUS
  <2>3. Program("link", n) = <<a, b>> \o <<c, d, e>>
    BY <2>1, <2>2 DEF Program, Linking
  <2>4. Head(<<a, b>> \o <<c, d, e>>) = a
    BY <1>2
  <2> QED  BY Zenon, <2>1, <2>3, <2>4
<1> QED  BY <1>3, <1>4

LEMMA BeginNames ==
  ASSUME DataOK, NamesOK, NEW t \in Threads, NEW op \in Kinds, NEW n \in Names,
         NEW to \in Names, NEW o \in Files \cup {NoId}, Begin(t, op, n, to, o)
  PROVE  NamesOK'
<1>1. /\ up /\ thread[t] = Idle /\ UNCHANGED <<up, memory, diskLock, onDisk, history>>
  BY DEF Begin
<1>2. TypeOK /\ ~At(t, "store") /\ ~Unsaved(thread[t])
  BY <1>1, IdleTyped DEF DataOK, At, Unsaved, Makers
<1>3. UNCHANGED <<up, entries, object, diskEntries, names, diskLock, disk, diskNextid, torn>>
  BY <1>1 DEF memory, onDisk, history
<1>4. PICK r : r = [Idle EXCEPT !.op = op, !.name = n, !.to = to, !.id = o,
                                !.todo = Program(op, n),
                                !.promises = op \in {"create", "open", "write", "commit"}]
  OBVIOUS
<1>5. r.op = op /\ r.name = n /\ r.todo = Program(op, n)
  BY Zenon, <1>4 DEF Idle
<1>6. thread'[t] = r /\ \A u \in Threads \ {t} : thread'[u] = thread[u]
  <2>1. thread' = [thread EXCEPT ![t] = r]
    BY <1>4 DEF Begin
  <2> QED  BY <1>2, <2>1 DEF TypeOK
<1>7. \A i \in Ids : Safe(i) => Safe(i)'
  BY <1>2, <1>3, <1>6, SafeStays
<1>8. object'[Dir].lastSync = object'[Dir].change => DirStored
  BY <1>1, <1>3, DirAsStored
<1>9. ~At(t, "mark")'
  <2>1. Program(op, n) # <<>> => Head(Program(op, n)) \in PlanOf(op)
    <3>1. Program(op, n) \in Seq(PlanOf(op))
      BY Todos
    <3> QED  BY <3>1
  <2> QED  BY <1>5, <1>6, <2>1 DEF At, PlanOf
<1>10. NamerOK(thread[t])'
  <2>1. CASE op \in Makers
    <3>1. Program(op, n) \in {Checking(n), Opening(n)}
      BY Zenon, <2>1 DEF Makers, Program, Checking, Opening
    <3> QED  BY <1>5, <1>6, <2>1, <3>1, NamerBegun
  <2>2. CASE op = "rename"
    BY <1>5, <1>6, <2>2, FindsFirst DEF NamerOK, Makers
  <2>3. CASE op = "link"
    BY <1>5, <1>6, <2>3, FindsFirst DEF NamerOK, Makers
  <2>4. CASE op \notin Makers \cup {"rename", "link"}
    BY <1>5, <1>6, <2>4 DEF NamerOK
  <2> QED  BY <2>1, <2>2, <2>3, <2>4
<1> QED  BY <1>1, <1>2, <1>3, <1>6, <1>7, <1>8, <1>9, <1>10, NamesStay

\* Idle handlers make nothing.
LEMMA NothingInMaking ==
  ASSUME thread \in [Threads -> {Idle}]
  PROVE  /\ \A i : ~InMaking(i)
         /\ \A u \in Threads : NamerOK(thread[u]) /\ ~At(u, "mark")
<1>1. \A u \in Threads : thread[u] = Idle
  OBVIOUS
<1> QED  BY <1>1, IdleTyped DEF InMaking, Unsaved, NamerOK, At, Makers

LEMMA NothingInMakingNow ==
  ASSUME thread' \in [Threads -> {Idle}]
  PROVE  \A u \in Threads : NamerOK(thread[u])' /\ ~At(u, "mark")'
<1>1. \A u \in Threads : thread'[u] = Idle
  OBVIOUS
<1> QED  BY <1>1, IdleTyped DEF NamerOK, At, Makers

LEMMA CrashNames ==
  ASSUME DataOK, NamesOK, Crash
  PROVE  NamesOK'
<1>1. /\ up' = FALSE /\ thread' \in [Threads -> {Idle}]
      /\ entries' = NoEntries /\ object' = [o \in Ids |-> Absent]
      /\ disk' = disk /\ diskEntries' = diskEntries /\ diskNextid' = diskNextid /\ names' = names
  BY DEF Crash, onDisk
<1>2. \A i \in Ids : Safe(i) => Safe(i)'
  BY DEF Crash, onDisk, Safe, Readable
<1>3. names \in [Names -> FileIds] /\ diskEntries \in [Names -> FileIds]
  BY DEF DataOK, TypeOK
<1>4. \A n \in Names :
        /\ names'[n] # NoId => diskEntries'[n] = names'[n] /\ Safe(names[n])'
        /\ diskEntries'[n] # NoId => Safe(diskEntries[n])'
        /\ entries'[n] = NoId
  <2> TAKE n \in Names
  <2>1. PICK a, b : a = names[n] /\ b = diskEntries[n]
    OBVIOUS
  <2>2. (a # NoId => b = a /\ Safe(a)') /\ (b # NoId => Safe(b)')
    BY <1>2, <1>3, <2>1, Sets DEF NamesOK
  <2> QED  BY <1>1, <2>1, <2>2 DEF Safe, Readable, Storing, NoEntries
<1>5. \A i \in Files : ~object'[i].loaded
  BY <1>1, Sets DEF Absent
<1>6. \A u \in Threads : NamerOK(thread[u])' /\ ~At(u, "mark")'
  BY <1>1, NothingInMakingNow
<1> QED  BY <1>1, <1>4, <1>5, <1>6 DEF NamesOK

LEMMA RestartNames ==
  ASSUME DataOK, NamesOK, Restart
  PROVE  NamesOK'
<1>1. /\ ~up /\ up' /\ entries' = diskEntries /\ thread' = thread /\ diskLock' = diskLock
      /\ disk' = disk /\ diskEntries' = diskEntries /\ diskNextid' = diskNextid
      /\ names' = names /\ torn' = torn
  BY DEF Restart, onDisk, history
<1>2. thread \in [Threads -> {Idle}]
  BY <1>1 DEF DataOK, IdsOK, TypeOK
<1>3. \A i : Safe(i) => Safe(i)'
  BY <1>1 DEF Safe, Readable, Storing, Synced, Arg
<1>4. \A i : ~InMaking(i)
  BY <1>2, NothingInMaking
<1>5. \A n \in Names :
        /\ names'[n] # NoId => diskEntries'[n] = names'[n] /\ Safe(names[n])'
        /\ diskEntries'[n] # NoId => Safe(diskEntries[n])'
  <2> TAKE n \in Names
  <2>1. PICK a, b : a = names[n] /\ b = diskEntries[n]
    OBVIOUS
  <2>2. (a # NoId => b = a /\ Safe(a)') /\ (b # NoId => Safe(b)')
    BY <1>3, <2>1 DEF NamesOK
  <2> QED  BY <1>1, <2>1, <2>2 DEF Safe, Readable, Storing
<1>6. \A n \in Names : entries'[n] # NoId => Safe(entries[n])'
  BY <1>1, <1>5 DEF Safe, Readable, Storing
<1>7. \A i \in Files : object'[i].loaded => Safe(i)'
  <2>1. \A i \in Files : object'[i] = object[i]
    <3>1. PICK y : object' = [object EXCEPT ![Dir] = y]
      BY DEF Restart
    <3> QED  BY <3>1, Sets DEF DataOK, TypeOK
  <2> QED  BY <1>3, <1>4, <2>1 DEF NamesOK
<1>8. DirStored'
  BY <1>1 DEF DirStored
<1>9. \A u \in Threads : NamerOK(thread[u])' /\ ~At(u, "mark")'
  BY <1>1, <1>2, NothingInMakingNow
<1> QED  BY <1>1, <1>5, <1>6, <1>7, <1>8, <1>9 DEF NamesOK

LEMMA InitNames ==
  ASSUME Init
  PROVE  NamesOK
<1>1. /\ \A n \in Names : names[n] = NoId /\ entries[n] = NoId /\ diskEntries[n] = NoId
      /\ thread \in [Threads -> {Idle}] /\ \A i \in Files : ~object[i].loaded
  BY Sets DEF Init, NoEntries, Absent
<1>2. \A u \in Threads : NamerOK(thread[u]) /\ ~At(u, "mark")
  BY <1>1, NothingInMaking
<1> QED  BY <1>1, <1>2 DEF NamesOK, DirStored

LEMMA StutterNames ==
  ASSUME NamesOK, UNCHANGED vars
  PROVE  NamesOK'
<1>1. /\ up' = up /\ entries' = entries /\ object' = object /\ thread' = thread
      /\ diskLock' = diskLock /\ disk' = disk /\ diskEntries' = diskEntries
      /\ diskNextid' = diskNextid /\ names' = names /\ torn' = torn
  BY DEF vars
<1>2. \A o : Safe(o)' = Safe(o) /\ InMaking(o)' = InMaking(o)
  BY <1>1 DEF Storing, Synced, Arg, Readable, Safe, InMaking, Unsaved, Linked
<1>3. \A t \in Threads : NamerOK(thread[t])' = NamerOK(thread[t])
  BY <1>1, <1>2 DEF NamerOK, Safe, Readable, Storing, Synced, Arg, Linked, Written, Made
<1>4. DirStored' = DirStored /\ \A t : At(t, "mark")' = At(t, "mark") /\ Synced(t)' = Synced(t)
  BY <1>1 DEF DirStored, At, Synced, Arg
<1>5. \A n \in Names : /\ Safe(names[n])' = Safe(names[n])
                       /\ Safe(diskEntries[n])' = Safe(diskEntries[n])
                       /\ Safe(entries[n])' = Safe(entries[n])
                       /\ InMaking(entries[n])' = InMaking(entries[n])
  BY <1>1 DEF Storing, Synced, Arg, Readable, Safe, InMaking, Unsaved, Linked
<1> QED  BY <1>1, <1>2, <1>3, <1>4, <1>5 DEF NamesOK

LEMMA StepNames ==
  ASSUME DataOK, NamesOK, Locked, Next
  PROVE  NamesOK'
<1>1. ASSUME NEW t \in Threads, Step(t)
      PROVE  NamesOK'
  BY Zenon, <1>1, CheckAbsentNames, FindNames, LoadNames, ChooseOpenNames, ReplaceNames,
     AllocNames, LinkEntryNames, LinkRefcntNames, UnlinkCountNames, UnlinkDeleteNames,
     WriteNames, SyncBeginNames, SyncStoreNames, SyncMarkNames, FinishNames DEF Step
<1> QED  BY Zenon, <1>1, BeginNames, CrashNames, RestartNames DEF Next

(* Memory and disk agree about names, too, when OPEN, REMOVE and RENAME run   *)
(* alone: an object is on disk before the directory on disk names it, and the *)
(* directory is on disk before the name is promised.                          *)
THEOREM NamesAndDisk == Locked => (Spec => [](DataOK /\ NamesOK))
<1> SUFFICES ASSUME Locked
             PROVE  Spec => [](DataOK /\ NamesOK)
  OBVIOUS
<1>1. Init => DataOK /\ NamesOK
  BY InitDataOK, InitNames
<1>2. (DataOK /\ NamesOK) /\ [Next]_vars => (DataOK /\ NamesOK)'
  BY StepKeeps, Stutter, StepNames, StutterNames
<1> QED  BY <1>1, <1>2, PTL DEF Spec

(* A name the server said it made is in the directory until it is removed or  *)
(* renamed, in memory and, whatever the moment of a crash, on disk, when OPEN,*)
(* REMOVE and RENAME run alone: op_create and op_open reply after obj.sync()  *)
(* and dir.sync(), and neither is skipped while there is something to write.  *)
THEOREM NamesSurvive == Locked => (Spec => []NamesAreKept)
<1>1. DataOK /\ NamesOK => NamesAreKept
  BY DEF DataOK, NamesOK, NamesAreKept, Safe, DiskOK
<1> QED  BY <1>1, NamesAndDisk, PTL

(* A name on disk stands for an object whose files can be read, or were when  *)
(* a crash came, when OPEN, REMOVE and RENAME run alone: the object is synced *)
(* before the directory.                                                      *)
THEOREM NamesStandForObjects == Locked => (Spec => []NoDanglingName)
<1>1. NamesOK => NoDanglingName
  BY DEF NamesOK, NoDanglingName, Safe
<1> QED  BY <1>1, NamesAndDisk, PTL

-----------------------------------------------------------------------------
(* The inductive invariant of LinksAgree: link counts                         *)

\* A step that goes on with nothing the step before it has begun, and one that
\* leaves nothing begun
Deleting(s) == s[1] = "delete" \/ (s[1] \in Syncs /\ s[2] = "target")
Fresh(s) == s[1] \notin {"refcnt", "refcnt + 1", "count"} /\ ~Deleting(s)
Closes(s) ==
  s[1] \notin {"entry", "refcnt", "target", "count"} /\ ~(s[1] \in Syncs /\ s[2] = "target")

\* An entry is counted next; a name is counted down, synced and deleted.
Leads(s, u) ==
  /\ s[1] = "entry" => u = <<"refcnt", s[2]>>
  /\ s[1] = "refcnt" => u = <<"refcnt + 1", s[2]>>
  /\ s[1] = "target" => u = <<"count", s[2]>>
  /\ s[1] = "count" => u = <<"sync", "target">>
  /\ s[1] \in Syncs /\ s[2] = "target" => u[1] = "delete"
  /\ Closes(s) => Fresh(u)
Deletes(s, u) == s[1] = "count" => u = <<"delete", s[2]>>

Chained(q) ==
  /\ \A i \in 1..Len(q) : i + 1 <= Len(q) => Leads(q[i], q[i + 1])
  /\ \A i \in 1..Len(q) : i + 2 <= Len(q) => Deletes(q[i], q[i + 2])
  /\ q # <<>> => Closes(q[Len(q)])

Links(e, o) == Cardinality({n \in Names : e[n] = o})

\* The count is one less than the names: a link is not counted yet, or a name
\* that is not counted is not yet deleted.
Lags(r, o) ==
  /\ r.todo # <<>>
  /\ \/ Head(r.todo)[1] \in {"refcnt", "refcnt + 1"} /\ r.id = o
     \/ Deleting(Head(r.todo)) /\ r.target = o
Lag(rs, o) == IF \E t \in Threads : Lags(rs[t], o) THEN 1 ELSE 0

\* What a handler that links or unlinks knows of objects and entries
Knows(r, objects, listed) ==
  LET s == Head(r.todo)
      Doomed(n) == r.target \in Files /\ listed[n] = r.target IN
  r.todo # <<>> =>
    /\ r.op = "rename" /\ s[1] # "find" => objects[r.id].loaded
    /\ s[1] = "refcnt + 1" => r.saw = objects[r.id].refcnt
    /\ s[1] \in {"count", "delete"} => Doomed(s[2])
    /\ s[1] \in Syncs /\ s[2] = "target" => Doomed(r.todo[2][2])

\* Before any crash
CountOK ==
  /\ crashes \in Nat
  /\ crashes = 0 =>
       /\ up
       /\ \A n \in Names : entries[n] # NoId => object[entries[n]].loaded
       /\ \A o \in regular : object[o].loaded
       /\ \A t \in Threads : Chained(thread[t].todo) /\ Knows(thread[t], object, entries)
       /\ \A o \in Files :
            object[o].loaded => object[o].refcnt = Links(entries, o) - Lag(thread, o)

LEMMA TailPlaces ==
  ASSUME NEW S, NEW q \in Seq(S), q # <<>>
  PROVE  /\ Tail(q) \in Seq(S) /\ Len(q) \in Nat /\ Len(q) > 0 /\ Head(q) = q[1]
         /\ Len(Tail(q)) = Len(q) - 1 /\ (Tail(q) = <<>> <=> Len(q) = 1)
         /\ \A i \in 1..Len(Tail(q)) : Tail(q)[i] = q[i + 1]
         /\ Tail(q) # <<>> => Head(Tail(q)) = q[2]
<1>1. /\ Tail(q) \in Seq(S) /\ Len(q) \in Nat /\ Len(q) > 0 /\ Head(q) = q[1]
      /\ Len(Tail(q)) = Len(q) - 1
  OBVIOUS
<1>2. \A i \in 1..Len(Tail(q)) : Tail(q)[i] = q[i + 1]
  OBVIOUS
<1>3. Tail(q) = <<>> <=> Len(q) = 1
  <2>1. Tail(q) = <<>> <=> Len(Tail(q)) = 0
    BY <1>1, EmptySeq
  <2> QED  BY <1>1, <2>1
<1>4. Tail(q) # <<>> => Head(Tail(q)) = q[2]
  <2> SUFFICES ASSUME Tail(q) # <<>>
               PROVE  Head(Tail(q)) = q[2]
    OBVIOUS
  <2>1. Head(Tail(q)) = Tail(q)[1]
    BY <1>1
  <2>2. 1 \in 1..Len(Tail(q))
    BY <1>1, <1>3
  <2> QED  BY <1>2, <2>1, <2>2
<1> QED  BY <1>1, <1>2, <1>3, <1>4

\* What Chained says of the step that is next, and of those after it
LEMMA ChainedHead ==
  ASSUME NEW S, NEW q \in Seq(S), q # <<>>, Chained(q)
  PROVE  /\ Tail(q) # <<>> =>
              Leads(Head(q), Head(Tail(q))) /\ Head(Tail(q)) = q[2]
         /\ Tail(q) = <<>> => Closes(Head(q))
         /\ Tail(q) # <<>> /\ Tail(Tail(q)) # <<>> =>
              Deletes(Head(q), Tail(q)[2])
<1>1. /\ Tail(q) \in Seq(S) /\ Len(q) \in Nat /\ Len(q) > 0 /\ Head(q) = q[1]
      /\ Len(Tail(q)) = Len(q) - 1 /\ (Tail(q) = <<>> <=> Len(q) = 1)
      /\ Tail(q) # <<>> => Head(Tail(q)) = q[2]
      /\ \A i \in 1..Len(Tail(q)) : Tail(q)[i] = q[i + 1]
  BY TailPlaces
<1>2. 1 \in 1..Len(q)
  BY <1>1
<1>3. Tail(q) # <<>> => Leads(Head(q), Head(Tail(q))) /\ Head(Tail(q)) = q[2]
  BY <1>1, <1>2 DEF Chained
<1>4. Tail(q) = <<>> => Closes(Head(q))
  BY <1>1 DEF Chained
<1>5. Tail(q) # <<>> /\ Tail(Tail(q)) # <<>> => Deletes(Head(q), Tail(q)[2])
  <2> SUFFICES ASSUME Tail(q) # <<>>, Tail(Tail(q)) # <<>>
               PROVE  Deletes(Head(q), Tail(q)[2])
    OBVIOUS
  <2>1. Len(Tail(q)) > 1
    BY <1>1, TailPlaces
  <2>2. Tail(q)[2] = q[3] /\ 1 + 2 <= Len(q)
    BY <1>1, <2>1
  <2> QED  BY <1>1, <1>2, <2>2 DEF Chained
<1> QED  BY <1>3, <1>4, <1>5

LEMMA ChainedTail ==
  ASSUME NEW S, NEW q \in Seq(S), q # <<>>, Chained(q)
  PROVE  Chained(Tail(q))
<1> DEFINE p == Tail(q)
<1>1. /\ p \in Seq(S) /\ Len(q) \in Nat /\ Len(q) > 0 /\ Len(p) = Len(q) - 1
      /\ \A i \in 1..Len(p) : p[i] = q[i + 1]
      /\ p # <<>> => Len(p) > 0
  BY TailPlaces
<1> HIDE DEF p
<1>2. \A i \in 1..Len(p) : i + 1 \in 1..Len(q)
  BY <1>1
<1>3. \A i \in 1..Len(p) : i + 1 <= Len(p) => Leads(p[i], p[i + 1])
  <2> SUFFICES ASSUME NEW i \in 1..Len(p), i + 1 <= Len(p)
               PROVE  Leads(p[i], p[i + 1])
    OBVIOUS
  <2>1. p[i] = q[i + 1] /\ p[i + 1] = q[(i + 1) + 1] /\ (i + 1) + 1 <= Len(q)
    BY <1>1
  <2> QED  BY <1>2, <2>1 DEF Chained
<1>4. \A i \in 1..Len(p) : i + 2 <= Len(p) => Deletes(p[i], p[i + 2])
  <2> SUFFICES ASSUME NEW i \in 1..Len(p), i + 2 <= Len(p)
               PROVE  Deletes(p[i], p[i + 2])
    OBVIOUS
  <2>1. p[i] = q[i + 1] /\ p[i + 2] = q[(i + 2) + 1] /\ (i + 1) + 2 <= Len(q)
        /\ (i + 2) + 1 = (i + 1) + 2
    BY <1>1
  <2> QED  BY <1>2, <2>1 DEF Chained
<1>5. p # <<>> => Closes(p[Len(p)])
  <2> SUFFICES ASSUME p # <<>>
               PROVE  Closes(p[Len(p)])
    OBVIOUS
  <2>1. p[Len(p)] = q[Len(q)]
    BY <1>1
  <2> QED  BY <2>1 DEF Chained
<1> QED  BY <1>3, <1>4, <1>5 DEF Chained, p

\* A chain can be followed by another.
LEMMA ChainedConcat ==
  ASSUME NEW S, NEW p \in Seq(S), NEW q \in Seq(S), Chained(p), Chained(q),
         q # <<>> => Fresh(Head(q))
  PROVE  Chained(p \o q)
<1> DEFINE b == p \o q
           m == Len(p)
<1>1. /\ b \in Seq(S) /\ m \in Nat /\ Len(q) \in Nat /\ Len(b) = m + Len(q)
      /\ \A i \in 1..m : b[i] = p[i]
      /\ \A i \in 1..Len(q) : b[m + i] = q[i]
  BY ConcatProperties, ElementOfSeq
<1>2. /\ q # <<>> => Len(q) > 0 /\ Head(q) = q[1]
      /\ p # <<>> <=> m > 0
      /\ q = <<>> => Len(q) = 0
      /\ b # <<>> => Len(b) > 0
  BY <1>1, EmptySeq
<1> HIDE DEF b, m
<1>3. \A i \in 1..Len(p) : i + 1 <= Len(p) => Leads(p[i], p[i + 1])
  BY DEF Chained
<1>4. \A i \in 1..Len(p) : i + 2 <= Len(p) => Deletes(p[i], p[i + 2])
  BY DEF Chained
<1>5. \A i \in 1..Len(q) : i + 1 <= Len(q) => Leads(q[i], q[i + 1])
  BY DEF Chained
<1>6. \A i \in 1..Len(q) : i + 2 <= Len(q) => Deletes(q[i], q[i + 2])
  BY DEF Chained
<1>7. m > 0 => Closes(p[m])
  BY <1>2 DEF Chained, m
<1>8. Len(q) > 0 => Closes(q[Len(q)]) /\ Fresh(q[1])
  BY <1>1, <1>2 DEF Chained
<1>9. \A i \in 1..Len(b) : i + 1 <= Len(b) => Leads(b[i], b[i + 1])
  <2> SUFFICES ASSUME NEW i \in 1..Len(b), i + 1 <= Len(b)
               PROVE  Leads(b[i], b[i + 1])
    OBVIOUS
  <2>1. CASE i + 1 <= m
    BY SMTT(40), <1>1, <1>3, <2>1 DEF m
  <2>2. CASE i = m
    <3>1. b[i] = p[m] /\ b[i + 1] = q[1] /\ Closes(p[m]) /\ Fresh(q[1])
      BY <1>1, <1>7, <1>8, <2>2
    <3> QED  BY <3>1 DEF Leads, Closes
  <2>3. CASE i > m
    <3>1. PICK k : k = i - m
      OBVIOUS
    <3>2. /\ k \in 1..Len(q) /\ k + 1 \in 1..Len(q) /\ k + 1 <= Len(q)
          /\ i = m + k /\ i + 1 = m + (k + 1)
      BY <1>1, <2>3, <3>1
    <3>3. b[i] = q[k] /\ b[i + 1] = q[k + 1]
      BY Zenon, <1>1, <3>2
    <3> QED  BY Zenon, <1>5, <3>2, <3>3
  <2> QED  BY <1>1, <2>1, <2>2, <2>3
<1>10. \A i \in 1..Len(b) : i + 2 <= Len(b) => Deletes(b[i], b[i + 2])
  <2> SUFFICES ASSUME NEW i \in 1..Len(b), i + 2 <= Len(b)
               PROVE  Deletes(b[i], b[i + 2])
    OBVIOUS
  <2>1. CASE i + 2 <= m
    BY SMTT(40), <1>1, <1>4, <2>1 DEF m
  <2>2. CASE i = m
    <3>1. b[i] = p[m] /\ Closes(p[m])
      BY <1>1, <1>7, <2>2
    <3> QED  BY <3>1 DEF Deletes, Closes
  <2>3. CASE i + 1 = m
    <3>1. b[i] = p[i] /\ b[i + 1] = p[m] /\ Leads(p[i], p[i + 1]) /\ Closes(p[m])
      BY <1>1, <1>3, <1>7, <2>3 DEF m
    <3>2. Leads(p[i], p[m])
      BY <2>3, <3>1
    <3>3. p[i][1] = "count" => p[m] = <<"sync", "target">>
      BY <3>2 DEF Leads
    <3>4. p[i][1] # "count"
      BY <3>1, <3>3 DEF Closes, Syncs
    <3> QED  BY <3>1, <3>4 DEF Deletes
  <2>4. CASE i > m
    <3>1. PICK k : k = i - m
      OBVIOUS
    <3>2. /\ k \in 1..Len(q) /\ k + 2 \in 1..Len(q) /\ k + 2 <= Len(q)
          /\ i = m + k /\ i + 2 = m + (k + 2)
      BY <1>1, <2>4, <3>1
    <3>3. b[i] = q[k] /\ b[i + 2] = q[k + 2]
      BY Zenon, <1>1, <3>2
    <3> QED  BY Zenon, <1>6, <3>2, <3>3
  <2> QED  BY <1>1, <2>1, <2>2, <2>3, <2>4
<1>11. b # <<>> => Closes(b[Len(b)])
  <2> SUFFICES ASSUME b # <<>>
               PROVE  Closes(b[Len(b)])
    OBVIOUS
  <2>1. CASE Len(q) > 0
    <3>1. b[Len(b)] = q[Len(q)]
      BY <1>1, <2>1
    <3> QED  BY <1>8, <2>1, <3>1
  <2>2. CASE Len(q) = 0
    <3>1. Len(b) = m /\ m > 0 /\ b[Len(b)] = p[m]
      BY <1>1, <1>2, <2>2
    <3> QED  BY <1>7, <3>1
  <2> QED  BY <1>1, <2>1, <2>2
<1> QED  BY <1>9, <1>10, <1>11 DEF Chained, b

\* A step in the place of the first one
LEMMA ChainedPut ==
  ASSUME NEW S, NEW q \in Seq(S), q # <<>>, Chained(q), NEW x \in S,
         \A u : Leads(Head(q), u) => Leads(x, u), \A u : Deletes(x, u),
         Closes(Head(q)) => Closes(x)
  PROVE  Chained(<<x>> \o Tail(q))
<1> DEFINE b == <<x>> \o Tail(q)
<1>1. /\ Tail(q) \in Seq(S) /\ Len(q) \in Nat /\ Len(q) > 0 /\ Head(q) = q[1]
      /\ Len(Tail(q)) = Len(q) - 1
      /\ \A i \in 1..Len(Tail(q)) : Tail(q)[i] = q[i + 1]
  BY TailPlaces
<1>2. <<x>> \in Seq(S) /\ Len(<<x>>) = 1 /\ <<x>>[1] = x
  OBVIOUS
<1>3. /\ Len(b) = 1 + Len(Tail(q)) /\ b[1] = x
      /\ \A i \in 1..Len(Tail(q)) : b[1 + i] = Tail(q)[i]
  BY <1>1, <1>2, ConcatProperties
<1> HIDE DEF b
<1>4. Len(b) = Len(q) /\ \A i \in 1..Len(q) : i # 1 => b[i] = q[i]
  <2>1. Len(b) = Len(q)
    BY <1>1, <1>3
  <2> SUFFICES ASSUME NEW i \in 1..Len(q), i # 1
               PROVE  b[i] = q[i]
    BY <2>1
  <2>2. i - 1 \in 1..Len(Tail(q)) /\ 1 + (i - 1) = i /\ (i - 1) + 1 = i
    BY <1>1
  <2> QED  BY <1>1, <1>3, <2>2
<1>5. \A i \in 1..Len(b) : i + 1 <= Len(b) => Leads(b[i], b[i + 1])
  <2> SUFFICES ASSUME NEW i \in 1..Len(b), i + 1 <= Len(b)
               PROVE  Leads(b[i], b[i + 1])
    OBVIOUS
  <2>1. Leads(q[i], q[i + 1]) /\ b[i + 1] = q[i + 1]
    BY <1>1, <1>4 DEF Chained
  <2> QED  BY <1>1, <1>3, <1>4, <2>1
<1>6. \A i \in 1..Len(b) : i + 2 <= Len(b) => Deletes(b[i], b[i + 2])
  <2> SUFFICES ASSUME NEW i \in 1..Len(b), i + 2 <= Len(b)
               PROVE  Deletes(b[i], b[i + 2])
    OBVIOUS
  <2>1. Deletes(q[i], q[i + 2]) /\ b[i + 2] = q[i + 2]
    BY <1>1, <1>4 DEF Chained
  <2> QED  BY <1>3, <1>4, <2>1
<1>7. Closes(b[Len(b)])
  <2>1. Closes(q[Len(q)])
    BY DEF Chained
  <2> QED  BY <1>1, <1>3, <1>4, <2>1
<1> QED  BY <1>5, <1>6, <1>7 DEF Chained, b

LEMMA ShortChains ==
  ASSUME NEW a, NEW b, NEW c, NEW d
  PROVE  /\ Chained(<<>>) /\ (Closes(a) => Chained(<<a>>))
         /\ Leads(a, b) /\ Closes(b) => Chained(<<a, b>>)
         /\ Leads(a, b) /\ Leads(b, c) /\ Deletes(a, c) /\ Closes(c) => Chained(<<a, b, c>>)
         /\ Leads(a, b) /\ Leads(b, c) /\ Leads(c, d) /\ Deletes(a, c) /\ Deletes(b, d)
            /\ Closes(d) => Chained(<<a, b, c, d>>)
<1>1. Chained(<<>>) /\ (Closes(a) => Chained(<<a>>))
  BY DEF Chained
<1>2. Leads(a, b) /\ Closes(b) => Chained(<<a, b>>)
  <2>1. \A i \in 1..2 : i = 1 \/ i = 2
    OBVIOUS
  <2> QED  BY <2>1 DEF Chained
<1>3. Leads(a, b) /\ Leads(b, c) /\ Deletes(a, c) /\ Closes(c) => Chained(<<a, b, c>>)
  <2>1. \A i \in 1..3 : i = 1 \/ i = 2 \/ i = 3
    OBVIOUS
  <2> QED  BY <2>1 DEF Chained
<1>4. Leads(a, b) /\ Leads(b, c) /\ Leads(c, d) /\ Deletes(a, c) /\ Deletes(b, d)
      /\ Closes(d) => Chained(<<a, b, c, d>>)
  <2>1. \A i \in 1..4 : i = 1 \/ i = 2 \/ i = 3 \/ i = 4
    OBVIOUS
  <2> QED  BY <2>1 DEF Chained
<1> QED  BY <1>1, <1>2, <1>3, <1>4

\* Which steps may come one after the other
LEMMA StepPairs ==
  ASSUME NEW n, NEW m
  PROVE  /\ \A s \in {"absent", "alloc", "handle", "find", "choose", "replace", "write",
                      "refcnt + 1", "delete"} :
              Closes(<<s, n>>) /\ \A u : Fresh(u) => Leads(<<s, n>>, u)
         /\ \A s \in Syncs, a \in {"dir", "object"} :
              Closes(<<s, a>>) /\ \A u : Fresh(u) => Leads(<<s, a>>, u)
         /\ \A s \in {"absent", "alloc", "entry", "handle", "find", "choose", "replace", "write",
                      "target"} : Fresh(<<s, n>>)
         /\ \A s \in Syncs, a \in {"dir", "object"} : Fresh(<<s, a>>)
         /\ Leads(<<"entry", n>>, <<"refcnt", n>>) /\ Leads(<<"refcnt", n>>, <<"refcnt + 1", n>>)
         /\ Leads(<<"target", n>>, <<"count", n>>) /\ Leads(<<"count", n>>, <<"sync", "target">>)
         /\ Leads(<<"sync", "target">>, <<"delete", n>>)
         /\ Deletes(<<"count", n>>, <<"delete", n>>)
         /\ \A s, u : s # "count" => Deletes(<<s, n>>, u)
<1>1. \A s \in {"absent", "alloc", "handle", "find", "choose", "replace", "write",
                "refcnt + 1", "delete"} : Closes(<<s, n>>)
  BY DEF Closes, Syncs
<1>2. \A s \in {"absent", "alloc", "handle", "find", "choose", "replace", "write",
                "refcnt + 1", "delete"} : \A u : Fresh(u) => Leads(<<s, n>>, u)
  BY DEF Leads, Syncs
<1>3. \A s \in Syncs, a \in {"dir", "object"} :
         Closes(<<s, a>>) /\ \A u : Fresh(u) => Leads(<<s, a>>, u)
  BY ZenonT(40) DEF Closes, Leads, Syncs
<1>4. \A s \in {"absent", "alloc", "entry", "handle", "find", "choose", "replace", "write",
                "target"} : Fresh(<<s, n>>)
  BY DEF Fresh, Deleting, Syncs
<1>5. \A s \in Syncs, a \in {"dir", "object"} : Fresh(<<s, a>>)
  BY DEF Fresh, Deleting, Syncs
<1>6. /\ Leads(<<"entry", n>>, <<"refcnt", n>>) /\ Leads(<<"refcnt", n>>, <<"refcnt + 1", n>>)
      /\ Leads(<<"target", n>>, <<"count", n>>) /\ Leads(<<"count", n>>, <<"sync", "target">>)
      /\ Leads(<<"sync", "target">>, <<"delete", n>>)
  BY DEF Leads, Closes, Syncs
<1>7. Deletes(<<"count", n>>, <<"delete", n>>) /\ \A s, u : s # "count" => Deletes(<<s, n>>, u)
  BY DEF Deletes
<1> QED  BY <1>1, <1>2, <1>3, <1>4, <1>5, <1>6, <1>7

LEMMA MakingChain ==
  ASSUME NEW a, NEW b, NEW c, NEW d, NEW e, NEW f,
         Leads(a, b), Leads(b, c), Leads(c, d), Leads(d, e), Leads(e, f),
         Deletes(a, c), Deletes(b, d), Deletes(c, e), Deletes(d, f), Closes(f)
  PROVE  Chained(<<a, b, c, d, e, f>>)
<1>1. \A i \in 1..6 : i = 1 \/ i = 2 \/ i = 3 \/ i = 4 \/ i = 5 \/ i = 6
  OBVIOUS
<1> QED  BY <1>1 DEF Chained

LEMMA ConcatHead ==
  ASSUME NEW S, NEW p \in Seq(S), NEW q \in Seq(S), p # <<>>
  PROVE  p \o q \in Seq(S) /\ p \o q # <<>> /\ Head(p \o q) = Head(p)
OBVIOUS

LEMMA PlanChains ==
  ASSUME NEW n \in Names
  PROVE  /\ Chained(Making(n)) /\ Chained(Linking(n)) /\ Chained(Unlinking(n))
         /\ Chained(BothSyncs("sync")) /\ Chained(ObjectSync("sync"))
         /\ Making(n) # <<>> /\ Fresh(Head(Making(n)))
         /\ Linking(n) # <<>> /\ Fresh(Head(Linking(n)))
         /\ Unlinking(n) # <<>> /\ Fresh(Head(Unlinking(n)))
         /\ \A op \in Kinds : /\ Chained(Program(op, n)) /\ Program(op, n) # <<>>
                              /\ Fresh(Head(Program(op, n)))
<1> DEFINE z == <<"absent", n>>
           a == <<"alloc", n>>
           b == <<"entry", n>>
           c == <<"refcnt", n>>
           d == <<"refcnt + 1", n>>
           e == <<"sync", "object">>
           f == <<"sync", "dir">>
           g == <<"target", n>>
           h == <<"count", n>>
           i == <<"sync", "target">>
           j == <<"delete", n>>
           k == <<"handle", n>>
           l == <<"find", n>>
           m == <<"replace", n>>
           v == <<"choose", n>>
           w == <<"write", n>>
<1>1. /\ Leads(a, b) /\ Leads(b, c) /\ Leads(c, d) /\ Leads(d, e) /\ Leads(e, f)
      /\ Leads(g, h) /\ Leads(h, i) /\ Leads(i, j) /\ Leads(k, z) /\ Leads(l, m) /\ Leads(k, w)
      /\ Leads(k, e)
  BY StepPairs DEF Syncs
<1>2. /\ \A u : Deletes(a, u) /\ Deletes(b, u) /\ Deletes(c, u) /\ Deletes(d, u) /\ Deletes(e, u)
                /\ Deletes(g, u)
      /\ Deletes(h, j)
  BY DEF Deletes
<1>3. /\ Closes(z) /\ Closes(d) /\ Closes(e) /\ Closes(f) /\ Closes(j) /\ Closes(l) /\ Closes(v)
      /\ Closes(m) /\ Closes(w)
  BY StepPairs DEF Syncs
<1>4. /\ Fresh(z) /\ Fresh(a) /\ Fresh(b) /\ Fresh(f) /\ Fresh(g) /\ Fresh(k) /\ Fresh(l)
      /\ Fresh(v)
  BY StepPairs DEF Syncs
<1>5. /\ Making(n) = <<a, b, c, d, e, f>> /\ Linking(n) = <<b, c, d>>
      /\ Unlinking(n) = <<g, h, i, j>> /\ BothSyncs("sync") = <<e, f>>
      /\ ObjectSync("sync") = <<e>>
  BY Zenon DEF Making, Linking, Unlinking, BothSyncs, ObjectSync
<1>6. /\ Program("create", n) = <<z>> \o Making(n)
      /\ Program("link", n) = <<k, z>> \o Linking(n)
      /\ Program("lookup", n) = <<l>> /\ Program("open", n) = <<v>>
      /\ Program("remove", n) = Unlinking(n) \o <<f>>
      /\ Program("rename", n) = <<l, m>> /\ Program("write", n) = <<k, w>>
      /\ Program("commit", n) = <<k, e>>
  BY DEF Program
<1>7. /\ <<z>> \in Seq({z}) /\ <<z>> # <<>> /\ Head(<<z>>) = z
      /\ <<k, z>> # <<>> /\ Head(<<k, z>>) = k
  OBVIOUS
<1> HIDE DEF z, a, b, c, d, e, f, g, h, i, j, k, l, m, v, w
<1>8. Chained(Making(n))
  BY Zenon, <1>1, <1>2, <1>3, <1>5, MakingChain
<1>9. Chained(Linking(n)) /\ Chained(Unlinking(n)) /\ Chained(BothSyncs("sync"))
      /\ Chained(ObjectSync("sync"))
  BY Zenon, <1>1, <1>2, <1>3, <1>5, ShortChains
<1>10. /\ Making(n) # <<>> /\ Head(Making(n)) = a /\ Linking(n) # <<>> /\ Head(Linking(n)) = b
       /\ Unlinking(n) # <<>> /\ Head(Unlinking(n)) = g
  BY <1>5
<1> DEFINE All == {a, b, c, d, e, f, g, h, i, j, k, z}
<1>11. /\ Making(n) \in Seq(All) /\ Linking(n) \in Seq(All) /\ Unlinking(n) \in Seq(All)
       /\ <<z>> \in Seq(All) /\ <<k, z>> \in Seq(All) /\ <<f>> \in Seq(All)
  BY <1>5
<1>12. /\ Chained(<<z>>) /\ Chained(<<k, z>>) /\ Chained(<<f>>)
       /\ Chained(<<l>>) /\ Chained(<<v>>) /\ Chained(<<l, m>>) /\ Chained(<<k, w>>)
       /\ Chained(<<k, e>>)
  BY Zenon, <1>1, <1>3, ShortChains
<1>13. /\ <<f>> # <<>> /\ Head(<<f>>) = f /\ <<l>> # <<>> /\ Head(<<l>>) = l
       /\ <<v>> # <<>> /\ Head(<<v>>) = v /\ <<l, m>> # <<>> /\ Head(<<l, m>>) = l
       /\ <<k, w>> # <<>> /\ Head(<<k, w>>) = k /\ <<k, e>> # <<>> /\ Head(<<k, e>>) = k
       /\ <<z>> # <<>> /\ Head(<<z>>) = z /\ <<k, z>> # <<>> /\ Head(<<k, z>>) = k
  OBVIOUS
<1> HIDE DEF All
<1>14. Chained(<<z>> \o Making(n)) /\ Chained(<<k, z>> \o Linking(n))
       /\ Chained(Unlinking(n) \o <<f>>)
  BY <1>4, <1>8, <1>9, <1>10, <1>11, <1>12, <1>13, ChainedConcat
<1>15. /\ <<z>> \o Making(n) # <<>> /\ Head(<<z>> \o Making(n)) = z
       /\ <<k, z>> \o Linking(n) # <<>> /\ Head(<<k, z>> \o Linking(n)) = k
       /\ Unlinking(n) \o <<f>> # <<>> /\ Head(Unlinking(n) \o <<f>>) = g
  BY <1>10, <1>11, <1>13, ConcatHead
<1>16. ASSUME NEW op \in Kinds
       PROVE  Chained(Program(op, n)) /\ Program(op, n) # <<>> /\ Fresh(Head(Program(op, n)))
  <2>1. op \in {"create", "link", "remove"} \/ op \in {"lookup", "open", "rename"}
        \/ op \in {"write", "commit"}
    BY DEF Kinds
  <2>2. CASE op \in {"create", "link", "remove"}
    BY <1>4, <1>6, <1>14, <1>15, <2>2
  <2>3. CASE op \in {"lookup", "open", "rename"}
    BY <1>4, <1>6, <1>12, <1>13, <2>3
  <2>4. CASE op \in {"write", "commit"}
    BY <1>4, <1>6, <1>12, <1>13, <2>4
  <2> QED  BY <2>1, <2>2, <2>3, <2>4
<1> QED  BY <1>4, <1>8, <1>9, <1>10, <1>16

\* What RENAME does after it has found its file
LEMMA ReplaceChain ==
  ASSUME NEW n \in Names, NEW m \in Names, NEW p \in {<<>>, Unlinking(m)}
  PROVE  /\ Chained(p \o Linking(m) \o Unlinking(n)) /\ p \o Linking(m) \o Unlinking(n) # <<>>
         /\ Fresh(Head(p \o Linking(m) \o Unlinking(n)))
<1>1. /\ Linking(m) \in Seq(Steps) /\ Unlinking(m) \in Seq(Steps) /\ Unlinking(n) \in Seq(Steps)
  BY Todos, PlansAreSteps
<1>2. /\ Chained(Linking(m)) /\ Linking(m) # <<>> /\ Fresh(Head(Linking(m)))
      /\ Chained(Unlinking(m)) /\ Unlinking(m) # <<>> /\ Fresh(Head(Unlinking(m)))
      /\ Chained(Unlinking(n)) /\ Unlinking(n) # <<>> /\ Fresh(Head(Unlinking(n)))
  BY PlanChains
<1>3. /\ Chained(p \o Linking(m)) /\ p \o Linking(m) # <<>> /\ Fresh(Head(p \o Linking(m)))
      /\ p \o Linking(m) \in Seq(Steps)
  <2>1. CASE p = <<>>
    <3>1. p \o Linking(m) = Linking(m)
      BY <1>1, <2>1, ConcatEmptySeq
    <3> QED  BY <1>1, <1>2, <3>1
  <2>2. CASE p = Unlinking(m)
    BY <1>1, <1>2, <2>2, ChainedConcat, ConcatHead
  <2> QED  BY <2>1, <2>2
<1> QED  BY <1>1, <1>2, <1>3, ChainedConcat, ConcatHead

-----------------------------------------------------------------------------
(* Handlers that link and unlink, and the others                              *)

LinkOps == Makers \cup {"link", "remove", "rename"}

LEMMA FreshKnows ==
  ASSUME NEW r, NEW m, NEW e, r.todo # <<>> => Fresh(Head(r.todo)),
         r.op = "rename" /\ r.todo # <<>> => m[r.id].loaded \/ Head(r.todo)[1] = "find"
  PROVE  Knows(r, m, e) /\ \A o : ~Lags(r, o)
BY DEF Knows, Lags, Fresh, Deleting

LEMMA NotLinking ==
  ASSUME TypeOK, NEW u \in Threads, thread[u].op \notin LinkOps
  PROVE  /\ thread[u].todo # <<>> => Fresh(Head(thread[u].todo))
         /\ \A m, e : Knows(thread[u], m, e)
         /\ \A o : ~Lags(thread[u], o)
<1>1. thread[u].todo # <<>> => Fresh(Head(thread[u].todo))
  <2> SUFFICES ASSUME thread[u].todo # <<>>
               PROVE  Fresh(Head(thread[u].todo))
    OBVIOUS
  <2>1. PICK s : At(u, s)
    BY DEF At
  <2>2. Head(thread[u].todo) = <<s, Arg(u)>>
    BY <2>1, AtStep
  <2>3. s \notin {"refcnt", "refcnt + 1", "count", "delete"} /\ ~(s \in Syncs /\ Arg(u) = "target")
    BY <2>1, StepOf DEF LinkOps
  <2>4. Fresh(<<s, Arg(u)>>)
    BY <2>3 DEF Fresh, Deleting
  <2> QED  BY Zenon, <2>2, <2>4
<1>2. thread[u].op # "rename"
  BY DEF LinkOps
<1> QED  BY <1>1, <1>2, FreshKnows

\* Others neither link nor unlink beside a handler that does.
LEMMA OthersCalm ==
  ASSUME DataOK, Locked, NEW t \in Threads, thread[t].op \in LinkOps, NEW u \in Threads \ {t}
  PROVE  (\A m, e : Knows(thread[u], m, e)) /\ \A o : ~Lags(thread[u], o)
<1>1. thread[u].op \notin LinkOps
  BY OneLinker DEF LinkOps
<1> QED  BY <1>1, NotLinking DEF DataOK

LEMMA LagOfOne ==
  ASSUME NEW t \in Threads, NEW rs, NEW o, \A u \in Threads \ {t} : ~Lags(rs[u], o)
  PROVE  Lag(rs, o) = IF Lags(rs[t], o) THEN 1 ELSE 0
BY DEF Lag

\* A handler that links or unlinks does a step.
LEMMA LinkerStep ==
  ASSUME DataOK, CountOK, Locked, crashes = 0, crashes' = crashes, up',
         NEW t \in Threads, thread[t].op \in LinkOps,
         \A u \in Threads \ {t} : thread'[u] = thread[u],
         \A n \in Names : entries'[n] # NoId => object'[entries'[n]].loaded,
         \A o \in regular' : object'[o].loaded,
         Chained(thread'[t].todo), Knows(thread'[t], object', entries'),
         \A o \in Files : object'[o].loaded =>
           object'[o].refcnt = Links(entries', o) - IF Lags(thread'[t], o) THEN 1 ELSE 0
  PROVE  CountOK'
<1>1. \A u \in Threads \ {t} : /\ Chained(thread'[u].todo) /\ Knows(thread'[u], object', entries')
                               /\ \A o : ~Lags(thread'[u], o)
  BY OthersCalm DEF CountOK
<1>2. \A o : Lag(thread', o) = IF Lags(thread'[t], o) THEN 1 ELSE 0
  BY <1>1, LagOfOne
<1> QED  BY <1>1, <1>2 DEF CountOK

LEMMA CountOf ==
  ASSUME DataOK, CountOK, Locked, crashes = 0, NEW t \in Threads, thread[t].op \in LinkOps,
         NEW o \in Files, object[o].loaded
  PROVE  object[o].refcnt = Links(entries, o) - IF Lags(thread[t], o) THEN 1 ELSE 0
<1>1. Lag(thread, o) = IF Lags(thread[t], o) THEN 1 ELSE 0
  BY OthersCalm, LagOfOne
<1> QED  BY <1>1 DEF CountOK

\* What a handler knows, others do not change.
LEMMA KnowsStill ==
  ASSUME DataOK, NEW u \in Threads, NEW m, Knows(thread[u], object, entries),
         \A o \in Ids : /\ object[o].loaded => m[o].loaded
                        /\ object[o].loaded => m[o].refcnt = object[o].refcnt,
         At(u, "refcnt + 1") => object[thread[u].id].loaded
  PROVE  Knows(thread[u], m, entries)
<1> SUFFICES ASSUME thread[u].todo # <<>>
             PROVE  Knows(thread[u], m, entries)
  BY DEF Knows
<1>1. PICK s : At(u, s)
  BY DEF At
<1>2. thread[u].op = "rename" /\ s # "find" => thread[u].id \in Ids
  <2>1. thread[u].id \in FileIds
    BY DEF DataOK, TypeOK, ThreadStates
  <2> QED  BY <1>1, <2>1, RenameKnows, Sets
<1>3. s = "refcnt + 1" => thread[u].id \in Ids
  BY <1>1, LinkerKnows, Sets
<1>4. Head(thread[u].todo)[1] = s
  BY <1>1 DEF At
<1> QED  BY <1>1, <1>2, <1>3, <1>4 DEF Knows

\* A handler that links has its object.
LEMMA LinkerHas ==
  ASSUME DataOK, CountOK, crashes = 0, NEW t \in Threads,
         NEW s \in {"entry", "refcnt", "refcnt + 1"}, At(t, s)
  PROVE  thread[t].id \in Files /\ object[thread[t].id].loaded /\ thread[t].op \in LinkOps
<1>1. TypeOK /\ ThreadOK(t) /\ thread[t].id \in Files
      /\ thread[t].op \in Makers \cup {"link", "rename"}
  BY StepOf, LinkerKnows DEF DataOK, ThreadsOK
<1>2. thread[t].id # NoId
  BY <1>1, Sets
<1>3. CASE thread[t].op \in Makers
  BY <1>1, <1>2, <1>3 DEF ThreadOK, MakerOK, LinkOps
<1>4. CASE thread[t].op = "link"
  BY <1>1, <1>4 DEF ThreadOK, CountOK, LinkOps
<1>5. CASE thread[t].op = "rename"
  <2>1. thread[t].todo # <<>> /\ Head(thread[t].todo)[1] = s /\ s # "find"
    BY DEF At
  <2> QED  BY <1>1, <1>5, <2>1 DEF CountOK, Knows, LinkOps
<1> QED  BY <1>1, <1>3, <1>4, <1>5

\* A thread goes on, and no count is changed, nor the names.
LEMMA CalmCount ==
  ASSUME DataOK, CountOK, crashes = 0, UNCHANGED <<up, entries, regular, crashes>>,
         NEW t \in Threads, \A u \in Threads \ {t} : thread'[u] = thread[u],
         \A o \in Ids : /\ object'[o].loaded = object[o].loaded
                        /\ object'[o].refcnt = object[o].refcnt,
         Chained(thread'[t].todo), Knows(thread'[t], object', entries),
         \A o : Lags(thread'[t], o) <=> Lags(thread[t], o)
  PROVE  CountOK'
<1>1. \A u \in Threads \ {t} : Chained(thread'[u].todo) /\ Knows(thread'[u], object', entries')
  <2> SUFFICES ASSUME NEW u \in Threads \ {t}
               PROVE  Chained(thread[u].todo) /\ Knows(thread[u], object', entries)
    OBVIOUS
  <2>1. At(u, "refcnt + 1") => object[thread[u].id].loaded
    BY LinkerHas
  <2> QED  BY <2>1, KnowsStill DEF CountOK
<1>2. \A o : Lag(thread', o) = Lag(thread, o)
  <2> SUFFICES ASSUME NEW o
               PROVE  Lag(thread', o) = Lag(thread, o)
    OBVIOUS
  <2>1. \A u \in Threads : Lags(thread'[u], o) <=> Lags(thread[u], o)
    OBVIOUS
  <2> QED  BY <2>1 DEF Lag
<1>3. /\ \A n \in Names : entries'[n] # NoId => object'[entries'[n]].loaded
      /\ \A o \in regular' : object'[o].loaded
  BY Sets DEF DataOK, TypeOK, CountOK
<1>4. \A o \in Files : object'[o].loaded =>
         object'[o].refcnt = Links(entries', o) - Lag(thread', o)
  BY <1>2, Sets DEF CountOK
<1> QED  BY <1>1, <1>3, <1>4 DEF CountOK

-----------------------------------------------------------------------------
(* What each step does to the counts                                          *)

SameCounts ==
  \A o \in Ids : object'[o].loaded = object[o].loaded /\ object'[o].refcnt = object[o].refcnt

\* A handler goes on to a step with which it begins something new.
LEMMA GoesOnCalm ==
  ASSUME DataOK, CountOK, crashes = 0, UNCHANGED <<up, entries, regular, crashes>>, SameCounts,
         NEW t \in Threads, thread[t].todo # <<>> => Fresh(Head(thread[t].todo)),
         \A u \in Threads \ {t} : thread'[u] = thread[u],
         Chained(thread'[t].todo), thread'[t].todo # <<>> => Fresh(Head(thread'[t].todo)),
         thread'[t].op = "rename" /\ thread'[t].todo # <<>> =>
           object'[thread'[t].id].loaded \/ Head(thread'[t].todo)[1] = "find"
  PROVE  CountOK'
<1>1. \A o : ~Lags(thread[t], o)
  BY DEF Lags, Fresh, Deleting
<1>2. Knows(thread'[t], object', entries) /\ \A o : ~Lags(thread'[t], o)
  BY FreshKnows
<1> QED  BY <1>1, <1>2, CalmCount DEF SameCounts

\* What comes after a step
LEMMA NextStep ==
  ASSUME DataOK, CountOK, crashes = 0, NEW t \in Threads, NEW s, At(t, s)
  PROVE  LET q == thread[t].todo IN
         /\ q # <<>> /\ q \in Seq(Steps) /\ Head(q) = <<s, Arg(t)>> /\ Chained(q)
         /\ Tail(q) \in Seq(Steps) /\ Chained(Tail(q))
         /\ Tail(q) # <<>> => Leads(<<s, Arg(t)>>, Head(Tail(q))) /\ Head(Tail(q)) = q[2]
         /\ Tail(q) = <<>> => Closes(<<s, Arg(t)>>)
         /\ Tail(q) # <<>> /\ Tail(Tail(q)) # <<>> => Deletes(<<s, Arg(t)>>, Tail(q)[2])
         /\ Closes(<<s, Arg(t)>>) /\ Tail(q) # <<>> => Fresh(Head(Tail(q)))
<1> DEFINE q == thread[t].todo
           h == <<s, Arg(t)>>
<1>1. q # <<>> /\ q \in Seq(Steps) /\ Head(q) = h /\ Chained(q)
  <2>1. q \in Seq(StepsOf(thread[t].op)) /\ thread[t] \in ThreadStates
    BY DEF DataOK, TypeOK
  <2> QED  BY <2>1, AtStep DEF DataOK, CountOK, At, ThreadStates
<1> HIDE DEF q, h
<1>2. Tail(q) \in Seq(Steps) /\ Chained(Tail(q))
  BY <1>1, ChainedTail
<1>3. /\ Tail(q) # <<>> => Leads(h, Head(Tail(q))) /\ Head(Tail(q)) = q[2]
      /\ Tail(q) = <<>> => Closes(h)
      /\ Tail(q) # <<>> /\ Tail(Tail(q)) # <<>> => Deletes(h, Tail(q)[2])
  BY <1>1, ChainedHead
<1>4. Closes(h) /\ Tail(q) # <<>> => Fresh(Head(Tail(q)))
  BY <1>3 DEF Leads
<1> QED  BY Zenon, <1>1, <1>2, <1>3, <1>4 DEF q, h

\* A step that neither ends nor begins something, and what is after it
LEMMA CalmTail ==
  ASSUME DataOK, CountOK, crashes = 0, NEW t \in Threads, NEW s, At(t, s),
         \/ s \in {"absent", "alloc", "handle", "find", "choose", "replace", "write"}
         \/ s \in Syncs /\ Arg(t) \in {"dir", "object"}
  PROVE  /\ Fresh(Head(thread[t].todo)) /\ Chained(Tail(thread[t].todo))
         /\ Tail(thread[t].todo) # <<>> => Fresh(Head(Tail(thread[t].todo)))
<1>1. Fresh(<<s, Arg(t)>>) /\ Closes(<<s, Arg(t)>>)
  BY StepPairs
<1> QED  BY Zenon, <1>1, NextStep

LEMMA FailCalm ==
  ASSUME DataOK, CountOK, crashes = 0, UNCHANGED <<up, entries, regular, crashes>>, SameCounts,
         NEW t \in Threads, Fresh(Head(thread[t].todo)), Fail(t)
  PROVE  CountOK'
<1>1. thread'[t].todo = <<>> /\ \A u \in Threads \ {t} : thread'[u] = thread[u]
  BY Fails DEF DataOK, Moved
<1>2. Chained(<<>>)
  BY ShortChains
<1> QED  BY <1>1, <1>2, GoesOnCalm

LEMMA CheckAbsentCounts ==
  ASSUME DataOK, CountOK, crashes = 0, NEW t \in Threads, CheckAbsent(t)
  PROVE  CountOK'
<1>1. At(t, "absent") /\ UNCHANGED <<up, memory, crashes>> /\ (Advance(t) \/ Fail(t))
  BY DEF CheckAbsent
<1>2. TypeOK /\ thread[t].op # "rename"
  BY <1>1, StepOf DEF DataOK
<1>3. UNCHANGED <<up, entries, regular, crashes>> /\ SameCounts
  BY <1>1 DEF memory, SameCounts
<1>4. /\ Fresh(Head(thread[t].todo)) /\ Chained(Tail(thread[t].todo))
      /\ Tail(thread[t].todo) # <<>> => Fresh(Head(Tail(thread[t].todo)))
  BY <1>1, CalmTail
<1>5. CASE Fail(t)
  BY <1>3, <1>4, <1>5, FailCalm
<1>6. CASE Advance(t)
  <2>1. /\ thread'[t].todo = Tail(thread[t].todo) /\ thread'[t].op = thread[t].op
        /\ \A u \in Threads \ {t} : thread'[u] = thread[u]
    BY <1>1, <1>2, <1>6, Advances DEF Moved
  <2> QED  BY <1>2, <1>3, <1>4, <2>1, GoesOnCalm
<1> QED  BY <1>1, <1>5, <1>6

LEMMA FindCounts ==
  ASSUME DataOK, CountOK, crashes = 0, NEW t \in Threads, Find(t)
  PROVE  CountOK'
<1>1. UNCHANGED <<up, memory, crashes>>
  BY DEF Find
<1>2. PICK s \in {"handle", "find", "target"} : At(t, s)
  BY DEF Find
<1>3. TypeOK /\ Fresh(Head(thread[t].todo))
  <2>1. Fresh(<<s, Arg(t)>>)
    BY StepPairs
  <2> QED  BY <1>2, <2>1, NextStep DEF DataOK
<1>4. UNCHANGED <<up, entries, regular, crashes>> /\ SameCounts /\ object' = object
  BY <1>1 DEF memory, SameCounts
<1>5. CASE Sought(t) = NoId
  BY <1>3, <1>4, <1>5, FailCalm DEF Find
<1> DEFINE o == Sought(t)
<1>6. CASE o # NoId
  <2>1. /\ o \in Files /\ object[o].loaded
        /\ Tail(thread[t].todo) \in Seq(PlanOf(thread[t].op))
    BY <1>2, <1>3, <1>6, SoughtTyped, AtStep, Sets DEF Find
  <2>2. CASE s = "target"
    <3>1. thread' = [thread EXCEPT ![t] = [Then(t, Tail(thread[t].todo)) EXCEPT !.target = o]]
      BY Zenon, <1>2, <1>6, <2>2 DEF Find
    <3>2. /\ Moved(t) /\ thread'[t].todo = Tail(thread[t].todo)
          /\ thread'[t].id = thread[t].id /\ thread'[t].target = o
      BY SMTT(40), ZenonT(40), <1>3, <2>1, <3>1, GoesAt, Sets
    <3>3. /\ Tail(thread[t].todo) # <<>> /\ Head(Tail(thread[t].todo)) = <<"count", Arg(t)>>
          /\ Chained(Tail(thread[t].todo))
      <4>1. ~Closes(<<s, Arg(t)>>) /\ \A u : Leads(<<s, Arg(t)>>, u) => u = <<"count", Arg(t)>>
        BY <2>2 DEF Closes, Leads
      <4> QED  BY <1>2, <4>1, NextStep
    <3>4. o = entries[Arg(t)]
      <4>1. ~At(t, "handle")
        BY <1>2, <2>2, OneStep
      <4> QED  BY <4>1 DEF Sought
    <3>5. thread'[t].op = "rename" => object[thread'[t].id].loaded
      BY <1>2, <2>2, <3>2 DEF CountOK, Knows, At, Moved
    <3>6. PICK r : r = thread'[t]
      OBVIOUS
    <3>7. /\ r.todo # <<>> /\ Head(r.todo) = <<"count", Arg(t)>> /\ r.target = entries[Arg(t)]
          /\ r.target \in Files
          /\ r.op = "rename" => object[r.id].loaded
      BY <2>1, <3>2, <3>3, <3>4, <3>5, <3>6
    <3>8. Knows(r, object, entries) /\ \A i : ~Lags(r, i)
      <4>1. Head(r.todo)[1] = "count" /\ Head(r.todo)[2] = Arg(t)
        BY <3>7
      <4>2. ~Deleting(Head(r.todo)) /\ Head(r.todo)[1] \notin Syncs
        BY <4>1 DEF Deleting, Syncs
      <4> QED  BY <3>7, <4>1, <4>2 DEF Knows, Lags
    <3>9. \A i : ~Lags(thread[t], i)
      BY <1>3 DEF Lags, Fresh, Deleting
    <3> QED  BY <1>4, <3>2, <3>3, <3>6, <3>8, <3>9, CalmCount DEF SameCounts, Moved
  <2>3. CASE s \in {"handle", "find"}
    <3>1. ~At(t, "target") /\ (At(t, "handle") => s = "handle")
      BY <1>2, <2>3, OneStep
    <3>2. thread' = [thread EXCEPT ![t] = [Then(t, Tail(thread[t].todo)) EXCEPT !.id = o]]
      BY Zenon, <1>6, <3>1 DEF Find
    <3>3. /\ Moved(t) /\ thread'[t].todo = Tail(thread[t].todo)
          /\ thread'[t].id = o /\ thread'[t].target = thread[t].target
      BY SMTT(40), ZenonT(40), <1>3, <2>1, <3>2, GoesWith, Sets
    <3>4. /\ Chained(Tail(thread[t].todo))
          /\ Tail(thread[t].todo) # <<>> => Fresh(Head(Tail(thread[t].todo)))
      BY <1>2, <2>3, CalmTail
    <3> QED  BY <1>3, <1>4, <2>1, <3>3, <3>4, GoesOnCalm DEF Moved
  <2> QED  BY <2>2, <2>3
<1> QED  BY <1>5, <1>6

\* Before any crash, everything that a handler looks for is in memory.
LEMMA LoadCounts ==
  ASSUME DataOK, CountOK, crashes = 0, NEW t \in Threads
  PROVE  ~Load(t)
<1> SUFFICES ASSUME Load(t)
             PROVE  FALSE
  OBVIOUS
<1>1. PICK s \in {"handle", "find", "target", "choose"} : At(t, s)
  BY DEF Load
<1>2. Sought(t) # NoId /\ ~object[Sought(t)].loaded
  BY DEF Load
<1>3. TypeOK /\ ThreadOK(t)
  BY DEF DataOK, ThreadsOK
<1>4. CASE s = "handle"
  <2>1. Sought(t) = thread[t].id
    BY <1>1, <1>4 DEF Sought
  <2>2. thread[t].op \in Writers \cup {"link"}
    BY <1>1, <1>3, <1>4, StepOf
  <2>3. thread[t].id \in regular
    BY <1>3, <2>2 DEF ThreadOK, WriterOK
  <2> QED  BY <1>2, <2>1, <2>3 DEF CountOK
<1>5. CASE s # "handle"
  <2>1. Sought(t) = entries[Arg(t)]
    BY <1>1, <1>5, OneStep DEF Sought
  <2>2. Arg(t) \in Names
    <3>1. s \notin Syncs
      BY DEF Syncs
    <3> QED  BY <1>1, <1>3, <3>1, AtStep
  <2> QED  BY <1>2, <2>1, <2>2 DEF CountOK
<1> QED  BY <1>4, <1>5

LEMMA ChooseOpenCounts ==
  ASSUME DataOK, CountOK, crashes = 0, NEW t \in Threads, ChooseOpen(t)
  PROVE  CountOK'
<1>1. At(t, "choose") /\ UNCHANGED <<up, entries, regular, crashes>>
  BY DEF ChooseOpen
<1>2. TypeOK /\ thread[t].op = "open" /\ Arg(t) \in Names /\ Fresh(Head(thread[t].todo))
  <2>1. "choose" \notin Syncs
    BY DEF Syncs
  <2> QED  BY <1>1, <2>1, AtStep, StepOf, CalmTail DEF DataOK
<1> DEFINE o == entries[Arg(t)]
<1>3. CASE Fail(t) /\ UNCHANGED <<object, version>>
  BY <1>1, <1>2, <1>3, FailCalm DEF SameCounts
<1>4. CASE /\ thread' = [thread EXCEPT ![t] = Then(t, Making(Arg(t)))]
           /\ UNCHANGED <<object, version>>
  <2>1. Making(Arg(t)) \in Seq(PlanOf(thread[t].op))
    BY <1>2, Todos
  <2>2. Moved(t) /\ thread'[t].todo = Making(Arg(t))
    BY <1>2, <1>4, <2>1, Goes
  <2>3. Chained(Making(Arg(t))) /\ Fresh(Head(Making(Arg(t))))
    BY <1>2, PlanChains
  <2> QED  BY <1>1, <1>2, <1>4, <2>2, <2>3, GoesOnCalm DEF Moved, SameCounts
<1>5. CASE /\ o # NoId
           /\ thread' = [thread EXCEPT ![t] =
                [Then(t, <<<<"sync", "object">>, <<"sync", "dir">>>>) EXCEPT !.id = o]]
           /\ object' = object \/ object' = [object EXCEPT ![o].change = @ + 2]
  <2>1. o \in Files /\ o \in FileIds /\ BothSyncs("sync") \in Seq(PlanOf(thread[t].op))
    BY <1>2, <1>5, Sets, Todos DEF TypeOK
  <2>2. thread' = [thread EXCEPT ![t] = [Then(t, BothSyncs("sync")) EXCEPT !.id = o]]
    BY Zenon, <1>5 DEF BothSyncs
  <2>3. Moved(t) /\ thread'[t].todo = BothSyncs("sync") /\ thread'[t].id = o
    <3> HIDE DEF o
    <3> QED  BY SMTT(40), Zenon, <1>2, <2>1, <2>2, GoesWith
  <2>4. Chained(BothSyncs("sync")) /\ Fresh(Head(BothSyncs("sync")))
    <3>1. Fresh(<<"sync", "object">>)
      BY StepPairs DEF Syncs
    <3>2. Head(BothSyncs("sync")) = <<"sync", "object">>
      BY SyncTails
    <3> QED  BY Zenon, <1>2, <3>1, <3>2, PlanChains
  <2>5. SameCounts
    <3>1. object \in [Ids -> Objects]
      BY <1>2 DEF TypeOK
    <3> HIDE DEF o
    <3> QED  BY <1>5, <3>1 DEF SameCounts, Objects
  <2> QED  BY <1>1, <1>2, <2>3, <2>4, <2>5, GoesOnCalm DEF Moved
<1> QED  BY Zenon, <1>3, <1>4, <1>5 DEF ChooseOpen

LEMMA ReplaceCounts ==
  ASSUME DataOK, CountOK, crashes = 0, NEW t \in Threads, Replace(t)
  PROVE  CountOK'
<1>1. At(t, "replace") /\ UNCHANGED <<up, memory, crashes>>
  BY DEF Replace
<1>2. /\ TypeOK /\ thread[t].op = "rename" /\ thread[t].name \in Names /\ thread[t].to \in Names
      /\ Fresh(Head(thread[t].todo)) /\ thread[t] \in ThreadStates
  BY <1>1, StepOf, AtStep, CalmTail DEF DataOK, TypeOK
<1>3. Moved(t) /\ thread'[t].id = thread[t].id
  BY <1>2, ReplaceMoves
<1>4. object[thread[t].id].loaded
  BY <1>1, <1>2 DEF CountOK, Knows, At
<1> DEFINE new == thread[t].to
           old == thread[t].name
<1>5. PICK p, q : /\ p = IF entries[new] = NoId THEN <<>> ELSE Unlinking(new)
                  /\ q = IF entries[new] = thread[t].id THEN <<>>
                         ELSE p \o Linking(new) \o Unlinking(old)
  OBVIOUS
<1>6. thread'[t].todo = q
  <2>1. thread' = [thread EXCEPT ![t] = Then(t, q)]
    BY <1>5 DEF Replace
  <2>2. Then(t, q).todo = q
    BY <1>2 DEF Then, ThreadStates
  <2> QED  BY <1>2, <2>1, <2>2 DEF TypeOK
<1>7. Chained(q) /\ (q # <<>> => Fresh(Head(q)))
  <2>1. p \in {<<>>, Unlinking(new)}
    BY <1>5
  <2>2. Chained(p \o Linking(new) \o Unlinking(old)) /\ Fresh(Head(p \o Linking(new) \o Unlinking(old)))
    BY <1>2, <2>1, ReplaceChain
  <2>3. Chained(<<>>)
    BY ShortChains
  <2> QED  BY Zenon, <1>5, <2>2, <2>3
<1>8. UNCHANGED <<up, entries, regular, crashes, object>> /\ SameCounts
  BY <1>1 DEF memory, SameCounts
<1> QED  BY <1>2, <1>3, <1>4, <1>6, <1>7, <1>8, GoesOnCalm DEF Moved

LEMMA WriteCounts ==
  ASSUME DataOK, CountOK, crashes = 0, NEW t \in Threads, Write(t)
  PROVE  CountOK'
<1>1. /\ At(t, "write") /\ UNCHANGED <<up, entries, regular, crashes>>
      /\ object' = [object EXCEPT ![thread[t].id].change = @ + 1]
      /\ \/ thread' = [thread EXCEPT ![t] = Then(t, <<<<"sync", "object">>>>)]
         \/ Fail(t)
  BY DEF Write
<1>2. TypeOK /\ thread[t].op = "write" /\ Fresh(Head(thread[t].todo))
  BY <1>1, StepOf, CalmTail DEF DataOK
<1>3. SameCounts
  <2>1. object \in [Ids -> Objects]
    BY <1>2 DEF TypeOK
  <2> QED  BY <1>1, <2>1 DEF SameCounts, Objects
<1>4. CASE Fail(t)
  BY <1>1, <1>2, <1>3, <1>4, FailCalm
<1>5. CASE thread' = [thread EXCEPT ![t] = Then(t, ObjectSync("sync"))]
  <2>1. /\ ObjectSync("sync") \in Seq(PlanOf(thread[t].op)) /\ Chained(ObjectSync("sync"))
        /\ Fresh(Head(ObjectSync("sync")))
    <3>1. thread[t].name \in Names
      BY <1>1, <1>2, AtStep
    <3>2. Fresh(<<"sync", "object">>)
      BY StepPairs DEF Syncs
    <3>3. Head(ObjectSync("sync")) = <<"sync", "object">>
      BY SyncTails
    <3>4. Fresh(Head(ObjectSync("sync")))
      BY Zenon, <3>2, <3>3
    <3> QED  BY <1>2, <3>1, <3>4, PlanChains, Todos
  <2>2. Moved(t) /\ thread'[t].todo = ObjectSync("sync")
    BY <1>2, <1>5, <2>1, Goes
  <2> QED  BY <1>1, <1>2, <1>3, <2>1, <2>2, GoesOnCalm DEF Moved
<1>6. ObjectSync("sync") = <<<<"sync", "object">>>>
  BY Zenon DEF ObjectSync
<1> QED  BY Zenon, <1>1, <1>4, <1>5, <1>6

\* A sync of a name's target knows which name is to be deleted.
LEMMA TargetSync ==
  ASSUME DataOK, CountOK, crashes = 0, NEW t \in Threads, NEW s \in Syncs, At(t, s),
         Arg(t) = "target"
  PROVE  LET q == thread[t].todo IN
         /\ Tail(q) # <<>> /\ Head(Tail(q))[1] = "delete" /\ Head(Tail(q)) = q[2]
         /\ Deleting(Head(q))
         /\ thread[t].target \in Files /\ entries[q[2][2]] = thread[t].target
         /\ thread[t].op = "rename" => object[thread[t].id].loaded
<1>1. /\ thread[t].todo # <<>> /\ Head(thread[t].todo)[1] = s
      /\ Head(thread[t].todo)[2] = "target" /\ s # "find"
  BY DEF At, Arg, Syncs
<1>2. ~Closes(<<s, Arg(t)>>) /\ \A u : Leads(<<s, Arg(t)>>, u) => u[1] = "delete"
  BY DEF Closes, Leads
<1> QED  BY <1>1, <1>2, NextStep DEF CountOK, Knows, Deleting

\* A sync is over, or there was nothing to write.
LEMMA SyncAdvance ==
  ASSUME DataOK, CountOK, crashes = 0, UNCHANGED <<up, entries, regular, crashes>>, SameCounts,
         NEW t \in Threads, NEW s \in Syncs, At(t, s), Advance(t)
  PROVE  CountOK'
<1>1. /\ Moved(t) /\ thread'[t].todo = Tail(thread[t].todo)
      /\ thread'[t].id = thread[t].id /\ thread'[t].target = thread[t].target
      /\ thread'[t].op = thread[t].op /\ \A u \in Threads \ {t} : thread'[u] = thread[u]
  BY Advances DEF DataOK, Moved
<1>2. TypeOK /\ Arg(t) \in {"dir", "object", "target"}
  BY AtStep DEF DataOK
<1>3. thread[t].op = "rename" => object[thread[t].id].loaded /\ thread[t].id \in Ids
  <2> SUFFICES ASSUME thread[t].op = "rename"
               PROVE  object[thread[t].id].loaded /\ thread[t].id \in Ids
    OBVIOUS
  <2>1. thread[t].todo # <<>> /\ Head(thread[t].todo)[1] = s /\ s # "find"
    BY DEF At, Syncs
  <2>2. thread[t].id \in FileIds
    BY <1>2 DEF TypeOK, ThreadStates
  <2> QED  BY <2>1, <2>2, RenameKnows, Sets DEF CountOK, Knows
<1>4. CASE Arg(t) \in {"dir", "object"}
  <2>1. /\ Fresh(Head(thread[t].todo)) /\ Chained(Tail(thread[t].todo))
        /\ Tail(thread[t].todo) # <<>> => Fresh(Head(Tail(thread[t].todo)))
    BY <1>4, CalmTail
  <2> QED  BY <1>1, <1>3, <2>1, GoesOnCalm DEF SameCounts
<1>5. CASE Arg(t) = "target"
  <2> DEFINE q == thread[t].todo
  <2>1. /\ Tail(q) # <<>> /\ Head(Tail(q))[1] = "delete" /\ Head(Tail(q)) = q[2]
        /\ Deleting(Head(q)) /\ thread[t].target \in Files
        /\ entries[q[2][2]] = thread[t].target
    BY <1>5, TargetSync
  <2>2. Chained(Tail(q)) /\ q # <<>> /\ Head(q)[1] = s
    BY NextStep DEF At
  <2>3. PICK r : r = thread'[t]
    OBVIOUS
  <2>4. /\ r.todo = Tail(q) /\ r.target = thread[t].target /\ r.id = thread[t].id
        /\ r.op = thread[t].op
    BY <1>1, <2>3
  <2> HIDE DEF q
  <2>5. Knows(r, object', entries)
    <3>1. /\ r.todo # <<>> /\ Head(r.todo)[1] = "delete" /\ entries[Head(r.todo)[2]] = r.target
          /\ r.target \in Files
      BY <2>1, <2>4
    <3>2. r.op = "rename" => object'[r.id].loaded
      BY <1>3, <2>4 DEF SameCounts
    <3> QED  BY <3>1, <3>2 DEF Knows, Syncs
  <2>6. \A o : Lags(r, o) <=> Lags(thread[t], o)
    <3>1. thread[t].todo # <<>> /\ Deleting(Head(thread[t].todo))
          /\ Head(thread[t].todo)[1] \notin {"refcnt", "refcnt + 1"}
      BY <2>1, <2>2 DEF q, Syncs
    <3>2. r.todo # <<>> /\ Deleting(Head(r.todo)) /\ Head(r.todo)[1] \notin {"refcnt", "refcnt + 1"}
      BY <2>1, <2>4 DEF Deleting
    <3> QED  BY <2>4, <3>1, <3>2 DEF Lags
  <2>7. Chained(thread'[t].todo) /\ Knows(thread'[t], object', entries)
        /\ \A o : Lags(thread'[t], o) <=> Lags(thread[t], o)
    BY <2>2, <2>3, <2>4, <2>5, <2>6
  <2> QED  BY <1>1, <2>7, CalmCount DEF SameCounts
<1> QED  BY <1>2, <1>4, <1>5

\* A sync goes on.
LEMMA SyncGoes ==
  ASSUME DataOK, CountOK, crashes = 0, UNCHANGED <<up, entries, regular, crashes>>, SameCounts,
         NEW t \in Threads, NEW s \in Syncs, At(t, s), NEW z \in Syncs, Go(t, z)
  PROVE  CountOK'
<1> DEFINE q == thread[t].todo
<1>1. /\ thread'[t].todo = <<<<z, Arg(t)>>>> \o Tail(q) /\ thread'[t].todo # <<>>
      /\ Head(thread'[t].todo) = <<z, Arg(t)>>
      /\ thread'[t].id = thread[t].id /\ thread'[t].target = thread[t].target
      /\ thread'[t].op = thread[t].op /\ \A u \in Threads \ {t} : thread'[u] = thread[u]
  BY Gone DEF DataOK
<1>2. TypeOK /\ Arg(t) \in {"dir", "object", "target"}
  BY AtStep DEF DataOK
<1>3. q # <<>> /\ q \in Seq(Steps) /\ Head(q) = <<s, Arg(t)>> /\ Chained(q)
  BY NextStep
<1>4. Chained(thread'[t].todo)
  <2>1. \A u : Leads(<<s, Arg(t)>>, u) => Leads(<<z, Arg(t)>>, u)
    BY <1>2 DEF Leads, Closes, Syncs
  <2>2. (\A u : Deletes(<<z, Arg(t)>>, u)) /\ (Closes(<<s, Arg(t)>>) => Closes(<<z, Arg(t)>>))
    BY <1>2 DEF Deletes, Closes, Syncs
  <2>3. <<z, Arg(t)>> \in Steps
    BY <1>2 DEF Steps
  <2> HIDE DEF q
  <2> QED  BY Zenon, <1>1, <1>3, <2>1, <2>2, <2>3, ChainedPut
<1>5. thread[t].op = "rename" => object'[thread[t].id].loaded
  <2> SUFFICES ASSUME thread[t].op = "rename"
               PROVE  object'[thread[t].id].loaded
    OBVIOUS
  <2>1. thread[t].todo # <<>> /\ Head(thread[t].todo)[1] = s /\ s # "find"
    BY DEF At, Syncs
  <2>2. thread[t].id \in FileIds
    BY <1>2 DEF TypeOK, ThreadStates
  <2> QED  BY <2>1, <2>2, RenameKnows, Sets DEF CountOK, Knows, SameCounts
<1>6. CASE Arg(t) \in {"dir", "object"}
  <2>1. Fresh(<<z, Arg(t)>>) /\ Fresh(<<s, Arg(t)>>)
    BY <1>6, StepPairs
  <2>2. Fresh(Head(q)) /\ Fresh(Head(thread'[t].todo))
    BY Zenon, <1>1, <1>3, <2>1
  <2> QED  BY <1>1, <1>4, <1>5, <2>2, GoesOnCalm
<1>7. CASE Arg(t) = "target"
  <2>1. /\ Tail(q) # <<>> /\ Head(Tail(q)) = q[2] /\ Deleting(Head(q))
        /\ thread[t].target \in Files /\ entries[q[2][2]] = thread[t].target
    BY <1>7, TargetSync
  <2>2. PICK r : r = thread'[t]
    OBVIOUS
  <2>3. r.todo[2] = q[2]
    <3>1. Tail(q) \in Seq(Steps)
      BY <1>3
    <3>2. r.todo = <<<<z, Arg(t)>>>> \o Tail(q)
      BY <1>1, <2>2
    <3> HIDE DEF q
    <3>3. PICK x, p : x = <<z, Arg(t)>> /\ p = Tail(q)
      OBVIOUS
    <3>4. p \in Seq(Steps) /\ p # <<>> /\ Head(p) = q[2]
      BY <2>1, <3>1, <3>3
    <3>5. x \in Steps
      BY <1>2, <3>3 DEF Steps
    <3>6. (<<x>> \o p)[2] = Head(p)
      BY <3>4, <3>5
    <3> QED  BY <3>2, <3>3, <3>4, <3>6
  <2>4. /\ r.target = thread[t].target /\ r.id = thread[t].id /\ r.op = thread[t].op
        /\ r.todo # <<>> /\ Head(r.todo)[1] = z /\ Head(r.todo)[2] = "target"
    BY <1>1, <1>7, <2>2
  <2>5. Knows(r, object', entries)
    BY <1>5, <2>1, <2>3, <2>4 DEF Knows, Syncs
  <2>6. \A o : Lags(r, o) <=> Lags(thread[t], o)
    <3>1. q # <<>> /\ Deleting(Head(q)) /\ Head(q)[1] \notin {"refcnt", "refcnt + 1"}
      <4>1. Head(q)[1] = s
        BY <1>3
      <4> QED  BY <1>3, <2>1, <4>1 DEF Syncs
    <3>2. Deleting(Head(r.todo)) /\ Head(r.todo)[1] \notin {"refcnt", "refcnt + 1"}
      BY <2>4 DEF Deleting, Syncs
    <3> QED  BY <2>4, <3>1, <3>2 DEF Lags
  <2> QED  BY <1>1, <1>4, <2>2, <2>5, <2>6, CalmCount DEF SameCounts
<1> QED  BY <1>2, <1>6, <1>7

LEMMA SyncBeginCounts ==
  ASSUME DataOK, CountOK, crashes = 0, NEW t \in Threads, SyncBegin(t)
  PROVE  CountOK'
<1>1. At(t, "sync") /\ UNCHANGED <<up, memory, crashes>> /\ (Advance(t) \/ Go(t, "store"))
  BY DEF SyncBegin
<1>2. UNCHANGED <<up, entries, regular, crashes>> /\ SameCounts
  BY <1>1 DEF memory, SameCounts
<1>3. "sync" \in Syncs /\ "store" \in Syncs
  BY DEF Syncs
<1> QED  BY <1>1, <1>2, <1>3, SyncAdvance, SyncGoes

LEMMA SyncStoreCounts ==
  ASSUME DataOK, CountOK, crashes = 0, NEW t \in Threads, SyncStore(t)
  PROVE  CountOK'
<1>1. At(t, "store") /\ UNCHANGED <<up, memory, crashes>> /\ Go(t, "mark")
  BY DEF SyncStore
<1>2. UNCHANGED <<up, entries, regular, crashes>> /\ SameCounts
  BY <1>1 DEF memory, SameCounts
<1>3. "store" \in Syncs /\ "mark" \in Syncs
  BY DEF Syncs
<1> QED  BY <1>1, <1>2, <1>3, SyncGoes

LEMMA SyncMarkCounts ==
  ASSUME DataOK, CountOK, crashes = 0, NEW t \in Threads, SyncMark(t)
  PROVE  CountOK'
<1>1. /\ At(t, "mark") /\ UNCHANGED <<up, entries, regular, crashes>> /\ Advance(t)
      /\ object' = [object EXCEPT ![Synced(t)].lastSync = object[Synced(t)].change]
  BY DEF SyncMark
<1>2. SameCounts
  <2>1. object \in [Ids -> Objects]
    BY DEF DataOK, TypeOK
  <2> QED  BY <1>1, <2>1 DEF SameCounts, Objects
<1>3. "mark" \in Syncs
  BY DEF Syncs
<1> QED  BY <1>1, <1>2, <1>3, SyncAdvance

LEMMA FinishCounts ==
  ASSUME DataOK, CountOK, crashes = 0, NEW t \in Threads, Finish(t)
  PROVE  CountOK'
<1>1. /\ thread[t].todo = <<>> /\ thread' = [thread EXCEPT ![t] = Idle]
      /\ UNCHANGED <<up, memory, crashes>>
  BY DEF Finish
<1>2. UNCHANGED <<up, entries, regular, crashes>> /\ SameCounts
  BY <1>1 DEF memory, SameCounts
<1>3. thread'[t].todo = <<>> /\ \A u \in Threads \ {t} : thread'[u] = thread[u]
  BY <1>1 DEF DataOK, TypeOK, Idle
<1>4. Chained(<<>>)
  BY ShortChains
<1> QED  BY <1>1, <1>2, <1>3, <1>4, GoesOnCalm

LEMMA BeginCounts ==
  ASSUME DataOK, CountOK, crashes = 0, NEW t \in Threads, NEW op \in Kinds, NEW n \in Names,
         NEW to \in Names, NEW o \in Files \cup {NoId}, Begin(t, op, n, to, o)
  PROVE  CountOK'
<1>1. /\ thread[t] = Idle /\ UNCHANGED <<up, memory, crashes>>
      /\ thread' = [thread EXCEPT ![t] =
           [Idle EXCEPT !.op = op, !.name = n, !.to = to, !.id = o, !.todo = Program(op, n),
                        !.promises = op \in {"create", "open", "write", "commit"}]]
  BY DEF Begin
<1>2. UNCHANGED <<up, entries, regular, crashes>> /\ SameCounts
  BY <1>1 DEF memory, SameCounts
<1>3. /\ thread'[t].todo = Program(op, n) /\ thread'[t].op = op
      /\ \A u \in Threads \ {t} : thread'[u] = thread[u]
  BY <1>1 DEF DataOK, TypeOK, Idle
<1>4. Chained(Program(op, n)) /\ Fresh(Head(Program(op, n)))
  BY PlanChains
<1>5. op = "rename" => Head(Program(op, n))[1] = "find"
  BY FindsFirst
<1>6. thread[t].todo = <<>>
  BY <1>1, IdleTyped
<1> QED  BY <1>2, <1>3, <1>4, <1>5, <1>6, GoesOnCalm

-----------------------------------------------------------------------------
(* The steps that change counts and names                                     *)

LEMMA PairParts ==
  \A a, b : <<a, b>>[1] = a /\ <<a, b>>[2] = b
OBVIOUS

LEMMA NoLess ==
  \A k \in Nat : k - 0 = k /\ (k - 1) + 1 = k
OBVIOUS

LEMMA LinksCounted ==
  ASSUME NEW e, NEW o
  PROVE  IsFiniteSet({n \in Names : e[n] = o}) /\ Links(e, o) \in Nat
<1>1. IsFiniteSet({n \in Names : e[n] = o})
  BY FileSystemAssumption, FS_Subset
<1> QED  BY <1>1, FS_CardinalityType DEF Links

LEMMA EntryAdded ==
  ASSUME NEW e, NEW n \in Names, NEW i \in Files, e[n] = NoId,
         NEW f, f[n] = i, \A m \in Names \ {n} : f[m] = e[m], NEW o \in Files
  PROVE  (o = i => Links(f, o) = Links(e, o) + 1) /\ (o # i => Links(f, o) = Links(e, o))
<1> DEFINE S == {m \in Names : e[m] = o}
           T == {m \in Names : f[m] = o}
<1>1. IsFiniteSet(S) /\ n \notin S
  BY LinksCounted, Sets
<1>2. CASE o = i
  <2>1. T = S \cup {n}
    BY <1>2
  <2> QED  BY <1>1, <1>2, <2>1, FS_AddElement DEF Links
<1>3. CASE o # i
  <2>1. T = S
    BY <1>3, Sets
  <2> QED  BY <1>3, <2>1 DEF Links
<1> QED  BY <1>2, <1>3

LEMMA EntryDeleted ==
  ASSUME NEW e, NEW n \in Names, NEW f, f[n] = NoId, \A m \in Names \ {n} : f[m] = e[m],
         NEW o \in Files
  PROVE  (o = e[n] => Links(f, o) = Links(e, o) - 1) /\ (o # e[n] => Links(f, o) = Links(e, o))
<1> DEFINE S == {m \in Names : e[m] = o}
           T == {m \in Names : f[m] = o}
<1>1. IsFiniteSet(S)
  BY LinksCounted
<1>2. CASE o = e[n]
  <2>1. T = S \ {n} /\ n \in S
    BY <1>2, Sets
  <2> QED  BY <1>1, <1>2, <2>1, FS_RemoveElement DEF Links
<1>3. CASE o # e[n]
  <2>1. T = S
    BY <1>3, Sets
  <2> QED  BY <1>3, <2>1 DEF Links
<1> QED  BY <1>2, <1>3

LEMMA AllocCounts ==
  ASSUME DataOK, CountOK, Locked, crashes = 0, NEW t \in Threads, Alloc(t)
  PROVE  CountOK'
<1>1. At(t, "alloc") /\ nextid' = nextid + 1 /\ UNCHANGED <<up, entries, crashes>>
  BY DEF Alloc
<1>2. /\ up /\ TypeOK /\ ThreadOK(t) /\ IdsOK /\ thread[t].op \in Makers
      /\ thread[t].op \in LinkOps /\ thread[t].op # "rename"
  BY <1>1, AtWork, StepOf DEF DataOK, ThreadsOK, LinkOps, Makers
<1>3. MakerOK(thread[t])
  BY <1>2 DEF ThreadOK
<1>4. thread[t].todo = Making(thread[t].name)
  <2>1. "alloc" \notin Syncs
    BY DEF Syncs
  <2> QED  BY Zenon, <1>1, <1>2, <1>3, <2>1, MakerSteps
<1>5. t \in Allocators
  BY <1>2, <1>3, <1>4 DEF MakerOK, Choosing, Allocators
<1>6. PICK x : x = nextid + 1
  OBVIOUS
<1>7. x \in Files /\ x \in Ids /\ x > diskNextid /\ x # NoId /\ diskNextid \in Nat
  BY <1>2, <1>5, <1>6, IdLeft, Sets DEF IdsOK
<1>8. PICK y : y = [loaded |-> TRUE, change |-> 1, lastSync |-> 0, refcnt |-> 0]
  OBVIOUS
<1>9. y.loaded /\ y.refcnt = 0
  BY <1>8
<1>10. /\ object' = [object EXCEPT ![x] = y]
       /\ regular' = IF thread[t].op = "open" THEN regular \cup {x} ELSE regular
       /\ thread' = [thread EXCEPT ![t] = [Then(t, Tail(thread[t].todo)) EXCEPT !.id = x]]
  BY <1>1, <1>6, <1>8 DEF Alloc
<1>11. /\ object'[x] = y /\ \A i \in Ids : i # x => object'[i] = object[i]
       /\ \A i \in regular' : i \in regular \/ i = x
  BY <1>2, <1>7, <1>10 DEF TypeOK
<1>12. /\ thread'[t].todo = Tail(thread[t].todo) /\ thread'[t].op = thread[t].op
       /\ \A u \in Threads \ {t} : thread'[u] = thread[u]
  <2>1. Tail(thread[t].todo) \in Seq(PlanOf(thread[t].op)) /\ x \in FileIds
    BY <1>1, <1>2, <1>7, AtStep, Sets
  <2>2. Moved(t) /\ thread'[t].todo = Tail(thread[t].todo)
    BY Zenon, <1>2, <1>10, <2>1, GoesWith
  <2> QED  BY <2>2 DEF Moved
<1>13. \A i \in Ids : object[i].loaded => i # x /\ object'[i] = object[i]
  BY <1>2, <1>7, <1>11, Sets DEF IdsOK
<1>14. \A n \in Names : entries'[n] # NoId => entries[n] # x /\ object'[entries'[n]].loaded
  <2>1. \A n \in Names : entries[n] # NoId => entries[n] \in Ids /\ object[entries[n]].loaded
    BY <1>2, Sets DEF TypeOK, CountOK
  <2> QED  BY <1>1, <1>13, <2>1
<1>15. \A i \in regular' : object'[i].loaded
  <2>1. \A i \in regular : i \in Ids /\ object[i].loaded
    BY <1>2, Sets DEF TypeOK, CountOK
  <2> QED  BY <1>9, <1>11, <1>13, <2>1
<1>16. /\ Fresh(Head(thread[t].todo)) /\ Chained(Tail(thread[t].todo))
       /\ Tail(thread[t].todo) # <<>> => Fresh(Head(Tail(thread[t].todo)))
  BY <1>1, CalmTail
<1>17. Knows(thread'[t], object', entries') /\ \A i : ~Lags(thread'[t], i)
  BY <1>2, <1>12, <1>16, FreshKnows
<1>18. ASSUME NEW i \in Files, object'[i].loaded
       PROVE  object'[i].refcnt = Links(entries', i) - IF Lags(thread'[t], i) THEN 1 ELSE 0
  <2>1. CASE i # x
    <3>1. object'[i] = object[i] /\ ~Lags(thread[t], i)
      BY <1>11, <1>16, <2>1, Sets DEF Lags, Fresh, Deleting
    <3>2. object[i].refcnt = Links(entries, i) - 0
      BY <1>2, <1>18, <3>1, CountOf
    <3> QED  BY <1>1, <1>17, <3>1, <3>2
  <2>2. CASE i = x
    <3>1. {n \in Names : entries'[n] = i} = {}
      BY <1>1, <1>7, <1>14, <2>2
    <3>2. Links(entries', i) = 0
      BY <3>1, FS_EmptySet DEF Links
    <3> QED  BY <1>9, <1>11, <1>17, <2>2, <3>2
  <2> QED  BY <2>1, <2>2
<1> QED  BY <1>1, <1>2, <1>12, <1>14, <1>15, <1>16, <1>17, <1>18, LinkerStep

LEMMA LinkEntryCounts ==
  ASSUME DataOK, CountOK, Locked, crashes = 0, NEW t \in Threads, LinkEntry(t)
  PROVE  CountOK'
<1>1. At(t, "entry") /\ UNCHANGED <<up, regular, crashes>>
  BY DEF LinkEntry
<1>2. TypeOK /\ Arg(t) \in Names /\ up
  <2>1. "entry" \notin Syncs
    BY DEF Syncs
  <2> QED  BY <1>1, <2>1, AtStep DEF DataOK, CountOK
<1>3. thread[t].id \in Files /\ object[thread[t].id].loaded /\ thread[t].op \in LinkOps
  BY <1>1, LinkerHas
<1>4. Fresh(Head(thread[t].todo)) /\ Head(thread[t].todo) = <<"entry", Arg(t)>>
  <2>1. Fresh(<<"entry", Arg(t)>>)
    BY StepPairs
  <2>2. Head(thread[t].todo) = <<"entry", Arg(t)>>
    BY <1>1, NextStep
  <2> QED  BY Zenon, <2>1, <2>2
<1>5. CASE Fail(t) /\ UNCHANGED <<entries, object>>
  BY <1>1, <1>4, <1>5, FailCalm DEF SameCounts
<1>6. CASE /\ entries[Arg(t)] = NoId
           /\ entries' = [entries EXCEPT ![Arg(t)] = thread[t].id]
           /\ object' = [object EXCEPT ![Dir].change = @ + 1]
           /\ Advance(t)
  <2>1. SameCounts
    <3>1. object \in [Ids -> Objects]
      BY <1>2 DEF TypeOK
    <3> QED  BY <1>6, <3>1 DEF SameCounts, Objects
  <2>2. /\ thread'[t].todo = Tail(thread[t].todo) /\ thread'[t].id = thread[t].id
        /\ thread'[t].op = thread[t].op /\ \A u \in Threads \ {t} : thread'[u] = thread[u]
    BY <1>1, <1>2, <1>6, Advances DEF Moved
  <2>3. /\ Tail(thread[t].todo) # <<>> /\ Head(Tail(thread[t].todo)) = <<"refcnt", Arg(t)>>
        /\ Chained(Tail(thread[t].todo))
    <3>1. ~Closes(<<"entry", Arg(t)>>)
          /\ \A u : Leads(<<"entry", Arg(t)>>, u) => u = <<"refcnt", Arg(t)>>
      BY DEF Closes, Leads
    <3> QED  BY <1>1, <3>1, NextStep
  <2>4. object'[thread[t].id].loaded
    BY <1>3, <2>1, Sets DEF SameCounts
  <2>5. PICK r : r = thread'[t]
    OBVIOUS
  <2>6. /\ r.todo # <<>> /\ Head(r.todo) = <<"refcnt", Arg(t)>> /\ r.id = thread[t].id
    BY <2>2, <2>3, <2>5
  <2>7. Head(r.todo)[1] = "refcnt" /\ ~Deleting(Head(r.todo)) /\ "refcnt" \notin Syncs
    BY <2>6 DEF Deleting, Syncs
  <2>8. Knows(r, object', entries') /\ \A i : Lags(r, i) <=> i = thread[t].id
    BY <2>4, <2>6, <2>7 DEF Knows, Lags
  <2>9. \A n \in Names : entries'[n] # NoId => object'[entries'[n]].loaded
    <3>1. \A n \in Names : entries[n] # NoId => entries[n] \in Ids /\ object[entries[n]].loaded
      BY <1>2, Sets DEF TypeOK, CountOK
    <3>2. \A n \in Names : entries'[n] = entries[n] \/ entries'[n] = thread[t].id
      BY <1>2, <1>6 DEF TypeOK
    <3> QED  BY <2>1, <2>4, <3>1, <3>2 DEF SameCounts
  <2>10. \A i \in regular' : object'[i].loaded
    <3>1. \A i \in regular : i \in Ids /\ object[i].loaded
      BY <1>2, Sets DEF TypeOK, CountOK
    <3> QED  BY <1>1, <2>1, <3>1 DEF SameCounts
  <2>11. ASSUME NEW i \in Files, object'[i].loaded
         PROVE  object'[i].refcnt = Links(entries', i) - IF Lags(r, i) THEN 1 ELSE 0
    <3>1. object'[i].refcnt = object[i].refcnt /\ object[i].loaded
      BY <2>1, <2>11, Sets DEF SameCounts
    <3>2. ~Lags(thread[t], i)
      BY <1>4 DEF Lags, Fresh, Deleting
    <3>3. object[i].refcnt = Links(entries, i) - 0
      BY <1>3, <3>1, <3>2, CountOf
    <3>4. /\ i = thread[t].id => Links(entries', i) = Links(entries, i) + 1
          /\ i # thread[t].id => Links(entries', i) = Links(entries, i)
      <4>1. entries \in [Names -> FileIds]
        BY <1>2 DEF TypeOK
      <4>2. PICK f : f = entries'
        OBVIOUS
      <4>3. /\ entries[Arg(t)] = NoId /\ f[Arg(t)] = thread[t].id
            /\ \A m \in Names \ {Arg(t)} : f[m] = entries[m]
        BY <1>2, <1>6, <4>1, <4>2
      <4>4. PICK e, j, n : e = entries /\ j = thread[t].id /\ n = Arg(t)
        OBVIOUS
      <4>5. /\ n \in Names /\ j \in Files /\ e[n] = NoId /\ f[n] = j
            /\ \A m \in Names \ {n} : f[m] = e[m]
        BY <1>2, <1>3, <4>3, <4>4
      <4>6. (i = j => Links(f, i) = Links(e, i) + 1) /\ (i # j => Links(f, i) = Links(e, i))
        BY <4>5, EntryAdded
      <4> QED  BY Zenon, <4>2, <4>4, <4>6
    <3>5. Links(entries, i) \in Nat
      BY LinksCounted
    <3> QED  BY <2>8, <3>1, <3>3, <3>4, <3>5
  <2> QED  BY <1>1, <1>2, <1>3, <2>2, <2>3, <2>5, <2>8, <2>9, <2>10, <2>11, LinkerStep
<1> QED  BY <1>5, <1>6 DEF LinkEntry

\* The count is read ...
LEMMA RefcntCounts ==
  ASSUME DataOK, CountOK, crashes = 0, NEW t \in Threads, LinkRefcnt(t), At(t, "refcnt")
  PROVE  CountOK'
<1>1. /\ UNCHANGED <<up, entries, regular, crashes, object>>
      /\ thread' = [thread EXCEPT ![t] =
                     [Then(t, Tail(@.todo)) EXCEPT !.saw = object[thread[t].id].refcnt]]
  BY OneStep DEF LinkRefcnt
<1>2. thread[t].id \in Files /\ object[thread[t].id].loaded
  BY LinkerHas
<1>3. /\ Moved(t) /\ thread'[t].todo = Tail(thread[t].todo) /\ thread'[t].id = thread[t].id
      /\ thread'[t].target = thread[t].target
  BY LinkRefcntMoves
<1>4. thread'[t].saw = object[thread[t].id].refcnt
  <2>1. thread \in [Threads -> ThreadStates] /\ thread[t] \in ThreadStates
    BY DEF DataOK, TypeOK
  <2>2. PICK x : x = object[thread[t].id].refcnt
    OBVIOUS
  <2>3. PICK r : r = [Then(t, Tail(thread[t].todo)) EXCEPT !.saw = x]
    OBVIOUS
  <2>4. r.saw = x
    BY <2>1, <2>3 DEF Then, ThreadStates
  <2>5. thread' = [thread EXCEPT ![t] = r]
    BY <1>1, <2>2, <2>3
  <2> QED  BY <2>1, <2>2, <2>4, <2>5
<1>5. /\ Tail(thread[t].todo) # <<>> /\ Head(Tail(thread[t].todo)) = <<"refcnt + 1", Arg(t)>>
      /\ Chained(Tail(thread[t].todo)) /\ thread[t].todo # <<>>
      /\ Head(thread[t].todo) = <<"refcnt", Arg(t)>>
  <2>1. ~Closes(<<"refcnt", Arg(t)>>)
        /\ \A u : Leads(<<"refcnt", Arg(t)>>, u) => u = <<"refcnt + 1", Arg(t)>>
    BY DEF Closes, Leads
  <2> QED  BY <2>1, NextStep
<1>6. PICK r : r = thread'[t]
  OBVIOUS
<1>7. /\ r.todo # <<>> /\ Head(r.todo) = <<"refcnt + 1", Arg(t)>> /\ r.id = thread[t].id
      /\ r.saw = object[r.id].refcnt /\ object[r.id].loaded
  BY <1>2, <1>3, <1>4, <1>5, <1>6
<1>8. /\ Head(r.todo)[1] = "refcnt + 1" /\ ~Deleting(Head(r.todo)) /\ "refcnt + 1" \notin Syncs
      /\ Head(thread[t].todo)[1] = "refcnt" /\ ~Deleting(Head(thread[t].todo))
  <2>1. Head(r.todo)[1] = "refcnt + 1" /\ Head(thread[t].todo)[1] = "refcnt"
    <3>1. Head(r.todo) = <<"refcnt + 1", Arg(t)>> /\ Head(thread[t].todo) = <<"refcnt", Arg(t)>>
      BY <1>5, <1>7
    <3> QED  BY Zenon, <3>1, PairParts
  <2> QED  BY <2>1 DEF Deleting, Syncs
<1>9. Knows(r, object', entries') /\ \A i : Lags(r, i) <=> Lags(thread[t], i)
  BY <1>1, <1>5, <1>7, <1>8 DEF Knows, Lags
<1> QED  BY <1>1, <1>3, <1>5, <1>6, <1>9, CalmCount DEF Moved

\* ... and written, with one more.
LEMMA RefcntMoreCounts ==
  ASSUME DataOK, CountOK, Locked, crashes = 0, NEW t \in Threads, LinkRefcnt(t),
         At(t, "refcnt + 1")
  PROVE  CountOK'
<1>1. /\ UNCHANGED <<up, entries, regular, crashes>>
      /\ object' = [object EXCEPT ![thread[t].id].refcnt = thread[t].saw + 1]
  BY OneStep DEF LinkRefcnt
<1>2. /\ thread[t].id \in Files /\ object[thread[t].id].loaded /\ thread[t].op \in LinkOps
      /\ TypeOK /\ up
  BY LinkerHas DEF DataOK, CountOK
<1>3. /\ SameData /\ Moved(t) /\ thread'[t].todo = Tail(thread[t].todo)
      /\ thread'[t].id = thread[t].id
  BY LinkRefcntMoves
<1>4. thread[t].saw = object[thread[t].id].refcnt
  BY DEF At, CountOK, Knows
<1>5. /\ object'[thread[t].id].refcnt = object[thread[t].id].refcnt + 1
      /\ \A i \in Ids : i # thread[t].id => object'[i].refcnt = object[i].refcnt
  <2>1. PICK k : k = thread[t].saw + 1
    OBVIOUS
  <2>2. object' = [object EXCEPT ![thread[t].id].refcnt = k]
    BY <1>1, <2>1
  <2>3. object \in [Ids -> Objects] /\ thread[t].id \in Ids
    BY <1>2, Sets DEF TypeOK
  <2>4. object'[thread[t].id].refcnt = k
    BY <2>2, <2>3 DEF Objects
  <2>5. \A i \in Ids : i # thread[t].id => object'[i].refcnt = object[i].refcnt
    BY <2>2, <2>3
  <2> QED  BY <1>4, <2>1, <2>4, <2>5
<1>6. /\ thread[t].todo # <<>> /\ Head(thread[t].todo) = <<"refcnt + 1", Arg(t)>>
      /\ Chained(Tail(thread[t].todo))
      /\ Tail(thread[t].todo) # <<>> => Fresh(Head(Tail(thread[t].todo)))
  <2>1. Closes(<<"refcnt + 1", Arg(t)>>)
    BY StepPairs
  <2> QED  BY <2>1, NextStep
<1>7. \A i : Lags(thread[t], i) <=> i = thread[t].id
  <2>1. Head(thread[t].todo)[1] = "refcnt + 1"
    BY DEF At
  <2>2. ~Deleting(Head(thread[t].todo))
    BY <2>1 DEF Deleting, Syncs
  <2> QED  BY <1>6, <2>1, <2>2 DEF Lags
<1>8. object'[thread'[t].id].loaded
  BY <1>2, <1>3, Sets DEF SameData
<1>9. Knows(thread'[t], object', entries') /\ \A i : ~Lags(thread'[t], i)
  BY <1>3, <1>6, <1>8, FreshKnows
<1>10. \A n \in Names : entries'[n] # NoId => object'[entries'[n]].loaded
  <2>1. \A n \in Names : entries[n] # NoId => entries[n] \in Ids /\ object[entries[n]].loaded
    BY <1>2, Sets DEF TypeOK, CountOK
  <2> QED  BY <1>1, <1>3, <2>1 DEF SameData
<1>11. \A i \in regular' : object'[i].loaded
  <2>1. \A i \in regular : i \in Ids /\ object[i].loaded
    BY <1>2, Sets DEF TypeOK, CountOK
  <2> QED  BY <1>1, <1>3, <2>1 DEF SameData
<1>12. ASSUME NEW i \in Files, object'[i].loaded
       PROVE  object'[i].refcnt = Links(entries', i) - IF Lags(thread'[t], i) THEN 1 ELSE 0
  <2>1. object[i].loaded /\ i \in Ids
    BY <1>3, <1>12, Sets DEF SameData
  <2>2. object[i].refcnt = Links(entries, i) - IF i = thread[t].id THEN 1 ELSE 0
    BY <1>2, <1>7, <2>1, CountOf
  <2>3. Links(entries, i) \in Nat
    BY LinksCounted
  <2>4. object'[i].refcnt = Links(entries, i)
    <3>1. CASE i = thread[t].id
      <4>1. object[i].refcnt = Links(entries, i) - 1
        BY <2>2, <3>1
      <4>2. object'[i].refcnt = object[i].refcnt + 1
        BY <1>5, <3>1
      <4> QED  BY Zenon, <2>3, <4>1, <4>2, NoLess
    <3>2. CASE i # thread[t].id
      <4>1. object[i].refcnt = Links(entries, i) - 0
        BY <2>2, <3>2
      <4>2. object'[i].refcnt = object[i].refcnt
        BY <1>5, <2>1, <3>2
      <4> QED  BY Zenon, <2>3, <4>1, <4>2, NoLess
    <3> QED  BY <3>1, <3>2
  <2>5. entries' = entries /\ ~Lags(thread'[t], i)
    BY <1>1, <1>9
  <2>6. (IF Lags(thread'[t], i) THEN 1 ELSE 0) = 0
    BY Zenon, <2>5
  <2> QED  BY Zenon, <2>3, <2>4, <2>5, <2>6, NoLess
<1> QED  BY <1>1, <1>2, <1>3, <1>6, <1>9, <1>10, <1>11, <1>12, LinkerStep DEF Moved

LEMMA LinkRefcntCounts ==
  ASSUME DataOK, CountOK, Locked, crashes = 0, NEW t \in Threads, LinkRefcnt(t)
  PROVE  CountOK'
<1>1. At(t, "refcnt") \/ At(t, "refcnt + 1")
  BY DEF LinkRefcnt
<1> QED  BY <1>1, RefcntCounts, RefcntMoreCounts

\* The count of a file that loses a name goes down ...
LEMMA UnlinkCountCounts ==
  ASSUME DataOK, CountOK, Locked, crashes = 0, NEW t \in Threads, UnlinkCount(t)
  PROVE  CountOK'
<1> DEFINE n == Arg(t)
           q == Tail(thread[t].todo)
<1>1. /\ At(t, "count") /\ UNCHANGED <<up, entries, regular, crashes>> /\ Advance(t)
      /\ object' = [object EXCEPT ![thread[t].target].refcnt = @ - 1]
  BY DEF UnlinkCount
<1>2. /\ TypeOK /\ up /\ thread[t].op \in LinkOps
      /\ thread[t].todo # <<>> /\ Head(thread[t].todo) = <<"count", n>>
  BY <1>1, StepOf, NextStep DEF DataOK, CountOK, LinkOps
<1>3. Head(thread[t].todo)[1] = "count" /\ Head(thread[t].todo)[2] = n
  BY <1>2
<1>4. ~Deleting(Head(thread[t].todo)) /\ "count" \notin Syncs
  BY <1>3 DEF Deleting, Syncs
<1>5. /\ thread[t].target \in Files /\ entries[n] = thread[t].target
      /\ thread[t].op = "rename" => object[thread[t].id].loaded
  BY <1>2, <1>3 DEF CountOK, Knows
<1>6. /\ Moved(t) /\ thread'[t].todo = q /\ thread'[t].op = thread[t].op
      /\ thread'[t].id = thread[t].id /\ thread'[t].target = thread[t].target
      /\ \A u \in Threads \ {t} : thread'[u] = thread[u]
  BY <1>1, <1>2, Advances DEF Moved
<1>7. /\ q \in Seq(Steps) /\ q # <<>> /\ Head(q) = <<"sync", "target">> /\ Chained(q)
      /\ q[2] = <<"delete", n>>
  <2>1. ~Closes(<<"count", n>>) /\ ~Closes(<<"sync", "target">>)
    BY DEF Closes, Syncs
  <2>2. \A u : Leads(<<"count", n>>, u) => u = <<"sync", "target">>
    BY DEF Leads
  <2>3. \A u : Deletes(<<"count", n>>, u) => u = <<"delete", n>>
    BY DEF Deletes
  <2>4. q \in Seq(Steps) /\ q # <<>> /\ Head(q) = <<"sync", "target">> /\ Chained(q)
    BY <1>1, <2>1, <2>2, NextStep
  <2>5. Tail(q) # <<>>
    <3> HIDE DEF q
    <3> QED  BY <2>1, <2>4, ChainedHead
  <2> QED  BY <1>1, <2>3, <2>4, <2>5, NextStep
<1>8. /\ object'[thread[t].target].refcnt = object[thread[t].target].refcnt - 1
      /\ \A i \in Ids : i # thread[t].target => object'[i] = object[i]
      /\ \A i \in Ids : object'[i].loaded = object[i].loaded
  <2>1. PICK k : k = object[thread[t].target].refcnt - 1
    OBVIOUS
  <2>2. object' = [object EXCEPT ![thread[t].target].refcnt = k]
    BY <1>1, <2>1
  <2>3. object \in [Ids -> Objects] /\ thread[t].target \in Ids
    BY <1>2, <1>5, Sets DEF TypeOK
  <2>4. PICK x : x = [object[thread[t].target] EXCEPT !.refcnt = k]
    OBVIOUS
  <2>5. x.refcnt = k /\ x.loaded = object[thread[t].target].loaded
    BY <2>3, <2>4 DEF Objects
  <2>6. object' = [object EXCEPT ![thread[t].target] = x]
    BY <2>2, <2>4
  <2> QED  BY <2>1, <2>3, <2>5, <2>6
<1>9. object[thread[t].target].loaded
  BY <1>1, <1>2, <1>5, AtStep, Sets DEF CountOK, Syncs
<1>10. PICK r : r = thread'[t]
  OBVIOUS
<1>11. /\ r.todo # <<>> /\ Head(r.todo)[1] = "sync" /\ Head(r.todo)[2] = "target"
       /\ r.todo[2][2] = n /\ r.target = thread[t].target /\ r.id = thread[t].id
       /\ r.op = thread[t].op
  <2> HIDE DEF q, n
  <2> QED  BY <1>6, <1>7, <1>10
<1>12. \A i : Lags(r, i) <=> i = r.target
  <2>1. Deleting(Head(r.todo)) /\ Head(r.todo)[1] \notin {"refcnt", "refcnt + 1"}
    BY <1>11 DEF Deleting, Syncs
  <2> QED  BY <1>11, <2>1 DEF Lags
<1>13. Knows(r, object', entries')
  <2>1. r.op = "rename" => object'[r.id].loaded
    <3>1. thread[t].op = "rename" => thread[t].id # NoId
      BY <1>1, RenameKnows
    <3>2. thread[t].id \in FileIds
      BY <1>2 DEF TypeOK, ThreadStates
    <3> QED  BY <1>5, <1>8, <1>11, <3>1, <3>2, Sets
  <2>2. r.target \in Files /\ entries'[r.todo[2][2]] = r.target
    BY <1>1, <1>5, <1>11
  <2> QED  BY <1>11, <2>1, <2>2 DEF Knows
<1>14. \A m \in Names : entries'[m] # NoId => object'[entries'[m]].loaded
  <2>1. \A m \in Names : entries[m] # NoId => entries[m] \in Ids /\ object[entries[m]].loaded
    BY <1>2, Sets DEF TypeOK, CountOK
  <2> QED  BY <1>1, <1>8, <2>1
<1>15. \A i \in regular' : object'[i].loaded
  <2>1. \A i \in regular : i \in Ids /\ object[i].loaded
    BY <1>2, Sets DEF TypeOK, CountOK
  <2> QED  BY <1>1, <1>8, <2>1
<1>16. ASSUME NEW i \in Files, object'[i].loaded
       PROVE  object'[i].refcnt = Links(entries', i) - IF Lags(r, i) THEN 1 ELSE 0
  <2>1. object[i].loaded /\ i \in Ids /\ ~Lags(thread[t], i)
    BY <1>3, <1>4, <1>8, <1>16, Sets DEF Lags
  <2>2. object[i].refcnt = Links(entries, i) - 0 /\ Links(entries, i) \in Nat
    BY <1>2, <2>1, CountOf, LinksCounted
  <2>3. entries' = entries
    BY <1>1
  <2>4. CASE i = thread[t].target
    BY <1>8, <1>11, <1>12, <2>2, <2>3, <2>4
  <2>5. CASE i # thread[t].target
    BY <1>8, <1>11, <1>12, <2>1, <2>2, <2>3, <2>5
  <2> QED  BY <2>4, <2>5
<1>17. Chained(thread'[t].todo)
  BY <1>6, <1>7
<1> QED  BY ZenonT(40), <1>1, <1>2, <1>6, <1>10, <1>13, <1>14, <1>15, <1>16, <1>17, LinkerStep

\* ... before the name goes.
LEMMA UnlinkDeleteCounts ==
  ASSUME DataOK, CountOK, Locked, crashes = 0, NEW t \in Threads, UnlinkDelete(t)
  PROVE  CountOK'
<1> DEFINE n == Arg(t)
<1>1. /\ At(t, "delete") /\ UNCHANGED <<up, object, regular, crashes>> /\ Advance(t)
      /\ entries' = [entries EXCEPT ![n] = NoId]
  BY DEF UnlinkDelete
<1>2. /\ TypeOK /\ up /\ thread[t].op \in LinkOps /\ n \in Names
      /\ thread[t].todo # <<>> /\ Head(thread[t].todo) = <<"delete", n>>
      /\ Chained(Tail(thread[t].todo))
      /\ Tail(thread[t].todo) # <<>> => Fresh(Head(Tail(thread[t].todo)))
  <2>1. "delete" \notin Syncs
    BY DEF Syncs
  <2>2. Closes(<<"delete", n>>)
    BY StepPairs
  <2>3. TypeOK /\ up /\ thread[t].op \in LinkOps /\ n \in Names
    BY <1>1, <2>1, StepOf, AtStep DEF DataOK, CountOK, LinkOps
  <2> QED  BY <1>1, <2>2, <2>3, NextStep
<1>3. Head(thread[t].todo)[1] = "delete" /\ Head(thread[t].todo)[2] = n
  BY <1>2
<1>4. /\ thread[t].target \in Files /\ entries[n] = thread[t].target
      /\ thread[t].op = "rename" => object[thread[t].id].loaded
  BY <1>2, <1>3 DEF CountOK, Knows
<1>5. \A i : Lags(thread[t], i) <=> i = thread[t].target
  <2>1. Deleting(Head(thread[t].todo)) /\ Head(thread[t].todo)[1] \notin {"refcnt", "refcnt + 1"}
    BY <1>3 DEF Deleting
  <2> QED  BY <1>2, <2>1 DEF Lags
<1>6. /\ thread'[t].todo = Tail(thread[t].todo) /\ thread'[t].op = thread[t].op
      /\ thread'[t].id = thread[t].id /\ \A u \in Threads \ {t} : thread'[u] = thread[u]
  BY <1>1, <1>2, Advances DEF Moved
<1>7. Knows(thread'[t], object', entries') /\ \A i : ~Lags(thread'[t], i)
  BY <1>1, <1>2, <1>4, <1>6, FreshKnows
<1>8. \A m \in Names : entries'[m] # NoId => object'[entries'[m]].loaded
  <2>1. \A m \in Names : entries'[m] # NoId => entries'[m] = entries[m]
    BY <1>1, <1>2 DEF TypeOK
  <2> QED  BY <1>1, <2>1 DEF CountOK
<1>9. \A i \in regular' : object'[i].loaded
  BY <1>1 DEF CountOK
<1>10. ASSUME NEW i \in Files, object'[i].loaded
       PROVE  object'[i].refcnt = Links(entries', i) - IF Lags(thread'[t], i) THEN 1 ELSE 0
  <2>1. object' = object /\ ~Lags(thread'[t], i)
    BY <1>1, <1>7
  <2>2. object[i].refcnt = Links(entries, i) - IF i = thread[t].target THEN 1 ELSE 0
    BY <1>2, <1>5, <1>10, <2>1, CountOf
  <2>3. /\ i = entries[n] => Links(entries', i) = Links(entries, i) - 1
        /\ i # entries[n] => Links(entries', i) = Links(entries, i)
    <3>1. entries \in [Names -> FileIds]
      BY <1>2 DEF TypeOK
    <3>2. PICK f : f = entries'
      OBVIOUS
    <3> HIDE DEF n
    <3>3. f[n] = NoId /\ \A m \in Names \ {n} : f[m] = entries[m]
      BY <1>1, <1>2, <3>1, <3>2
    <3>4. PICK e, k : e = entries /\ k = n
      OBVIOUS
    <3>5. k \in Names /\ f[k] = NoId /\ \A m \in Names \ {k} : f[m] = e[m]
      BY <1>2, <3>3, <3>4
    <3>6. (i = e[k] => Links(f, i) = Links(e, i) - 1) /\ (i # e[k] => Links(f, i) = Links(e, i))
      BY <3>5, EntryDeleted
    <3> QED  BY Zenon, <3>2, <3>4, <3>6
  <2>4. Links(entries, i) \in Nat
    BY LinksCounted
  <2>5. CASE i = entries[n]
    BY <1>4, <2>1, <2>2, <2>3, <2>4, <2>5
  <2>6. CASE i # entries[n]
    BY <1>4, <2>1, <2>2, <2>3, <2>4, <2>6
  <2> QED  BY <2>5, <2>6
<1>11. Chained(thread'[t].todo)
  BY <1>2, <1>6
<1> QED  BY <1>1, <1>2, <1>6, <1>7, <1>8, <1>9, <1>10, <1>11, LinkerStep

-----------------------------------------------------------------------------
(* Names are counted                                                          *)

LEMMA InitCounts ==
  ASSUME Init
  PROVE  CountOK
<1>1. /\ crashes = 0 /\ up /\ regular = {}
      /\ \A n \in Names : entries[n] = NoId
      /\ \A u \in Threads : thread[u].todo = <<>>
      /\ \A o \in Files : ~object[o].loaded
  BY Sets DEF Init, NoEntries, Absent, Idle
<1>2. \A u \in Threads : Chained(thread[u].todo) /\ Knows(thread[u], object, entries)
  BY <1>1, ShortChains DEF Knows
<1> QED  BY <1>1, <1>2 DEF CountOK

LEMMA CrashCounts ==
  ASSUME CountOK, Crash
  PROVE  CountOK'
BY DEF CountOK, Crash

\* The server comes up again only after a crash.
LEMMA RestartCounts ==
  ASSUME CountOK, Restart
  PROVE  CountOK'
BY DEF CountOK, Restart

LEMMA StutterCounts ==
  ASSUME CountOK, UNCHANGED vars
  PROVE  CountOK'
<1>1. UNCHANGED <<up, entries, object, regular, thread, crashes>>
  BY DEF vars
<1> QED  BY <1>1 DEF CountOK, Lag, Lags

LEMMA StepCounts ==
  ASSUME DataOK, CountOK, Locked, Next
  PROVE  CountOK'
<1>1. ASSUME crashes = 0, NEW t \in Threads, Step(t)
      PROVE  CountOK'
  BY Zenon, <1>1, CheckAbsentCounts, FindCounts, LoadCounts, ChooseOpenCounts, ReplaceCounts,
     AllocCounts, LinkEntryCounts, LinkRefcntCounts, UnlinkCountCounts, UnlinkDeleteCounts,
     WriteCounts, SyncBeginCounts, SyncStoreCounts, SyncMarkCounts, FinishCounts DEF Step
<1>2. ASSUME crashes # 0, NEW t \in Threads, Step(t)
      PROVE  crashes' = crashes
  BY <1>2 DEF Step, CheckAbsent, Find, Load, ChooseOpen, Replace, Alloc, LinkEntry, LinkRefcnt,
     UnlinkCount, UnlinkDelete, Write, SyncBegin, SyncStore, SyncMark, Finish
<1>3. ASSUME NEW t \in Threads, NEW op \in Kinds, NEW n \in Names, NEW to \in Names,
             NEW o \in Files \cup {NoId}, Begin(t, op, n, to, o)
      PROVE  crashes' = crashes
  BY <1>3 DEF Begin
<1>4. crashes # 0 /\ crashes' = crashes => CountOK'
  BY DEF CountOK
<1> QED  BY Zenon, <1>1, <1>2, <1>3, <1>4, BeginCounts, CrashCounts, RestartCounts DEF Next

LEMMA CountsAreLinks ==
  ASSUME DataOK, CountOK
  PROVE  RefcntCountsLinks
<1> SUFFICES ASSUME crashes = 0, Linkers = {}, NEW o \in Files, object[o].loaded
             PROVE  object[o].refcnt = Cardinality({n \in Names : entries[n] = o})
  BY DEF RefcntCountsLinks
<1>1. \A u \in Threads : thread[u].op \notin LinkOps
  BY DEF Linkers, LinkOps, Makers
<1>2. \A u \in Threads : ~Lags(thread[u], o)
  BY <1>1, NotLinking DEF DataOK
<1>3. Lag(thread, o) = 0
  BY <1>2 DEF Lag
<1>4. object[o].refcnt = Links(entries, o) - 0 /\ Links(entries, o) \in Nat
  BY <1>3, LinksCounted DEF CountOK
<1> QED  BY <1>4 DEF Links

(* Until the server crashes, every handler knows how far the counts and the   *)
(* names are apart when OPEN, REMOVE and RENAME run alone: a count is at most *)
(* one behind, and only while one handler is between the entry of a name and  *)
(* obj.refcnt += 1, or between obj.refcnt -= 1 and the deletion of the name.  *)
THEOREM CountsAndNames == Locked => (Spec => [](DataOK /\ NamesOK /\ CountOK))
<1> SUFFICES ASSUME Locked
             PROVE  Spec => [](DataOK /\ NamesOK /\ CountOK)
  OBVIOUS
<1>1. Init => DataOK /\ NamesOK /\ CountOK
  BY InitDataOK, InitNames, InitCounts
<1>2. (DataOK /\ NamesOK /\ CountOK) /\ [Next]_vars => (DataOK /\ NamesOK /\ CountOK)'
  BY StepKeeps, Stutter, StepNames, StutterNames, StepCounts, StutterCounts
<1> QED  BY <1>1, <1>2, PTL DEF Spec

(* Names and objects agree when OPEN, REMOVE and RENAME run alone: a name on  *)
(* disk stands for an object that can be read back, and fattr4_numlinks is,   *)
(* until the server crashes, the number of names, once those who link and     *)
(* unlink are done: obj.refcnt += 1 and -= 1 lose no update.                  *)
THEOREM LinksKeepAgreeing == Locked => (Spec => []LinksAgree)
<1>1. DataOK /\ NamesOK /\ CountOK => LinksAgree
  BY CountsAreLinks DEF NamesOK, NoDanglingName, Safe, LinksAgree
<1> QED  BY <1>1, CountsAndNames, PTL
=============================================================================
