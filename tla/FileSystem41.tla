---------------------------- MODULE FileSystem41 ----------------------------
(* The file system of the 4.1 server: FSObject, FileSystem and StubFS_Disk of *)
(* src/nfs4.1/fs.py under op_create, op_link, op_lookup, op_remove, op_rename,*)
(* open_claim_null, op_write, op_commit and op_close of                       *)
(* src/nfs4.1/nfs4server.py.  One directory holds files; both live in memory, *)
(* are written to disk by sync(), and are read back when the server restarts. *)
(* StubFS_Disk is read as it is meant: its files take pickles and data.       *)
(*                                                                           *)
(* A handler is a list of steps; between two of them other threads run, and   *)
(* the server may crash.  CREATE, LINK and LOOKUP lock the directory, WRITE,  *)
(* COMMIT and CLOSE the state of the file.  OPEN, REMOVE and RENAME lock      *)
(* nothing ("BUG fs locking"): Overlap says who runs at the same time.        *)
(*                                                                           *)
(* The bounds are MaxOps, MaxCrashes and the number of Ids.                   *)
EXTENDS Integers, Sequences, FiniteSets

CONSTANTS
  Threads,    \* worker threads
  Names,      \* names in the directory
  MaxId,      \* bound: identifiers alloc_id gives out
  Overlap,    \* the kinds of request that run beside others
  MaxOps,     \* bound: requests
  MaxCrashes  \* bound: crashes

Kinds == {"create", "link", "lookup", "open", "remove", "rename", "write", "commit"}

Dir == 1                \* the id of the directory, fs.root
Files == 2..MaxId
Ids == {Dir} \cup Files
NoId == 0
NoThread == "none"

ASSUME FileSystemAssumption ==
  /\ MaxId \in Nat /\ Dir <= MaxId /\ MaxOps \in Nat /\ MaxCrashes \in Nat
  /\ Overlap \subseteq Kinds
  /\ IsFiniteSet(Threads) /\ NoThread \notin Threads /\ IsFiniteSet(Names)

VARIABLES
  up,          \* the server runs
  entries,     \* Dir.entries: the id each name stands for
  object,      \* FSObject.meta and _last_sync of every object, and whether _ids has it
  version,     \* the data of each file in memory, by the number of its last change
  regular,     \* the ids of regular files, which OPEN makes
  nextid,      \* _nextid
  thread,      \* the worker threads
  diskLock,    \* the thread that holds _disk_lock
  disk,        \* the m_ and d_ files of every object
  diskEntries, \* what the d_ file of the directory says
  diskNextid,  \* _fs_data["_nextid"]
  names,       \* history: names the server said it made, by their id
  stable,      \* history: the data the server said is stable
  torn,        \* history: objects whose sync was cut short by a crash
  given,       \* history: ids given out
  ops, crashes \* counters of what is bounded

memory == <<entries, object, version, regular, nextid>>
onDisk == <<disk, diskEntries, diskNextid>>
history == <<names, stable, torn, given>>
vars == <<up, entries, object, version, regular, nextid, thread, diskLock, disk, diskEntries,
          diskNextid, names, stable, torn, given, ops, crashes>>

Idle == [op |-> "none", name |-> NoThread, to |-> NoThread, id |-> NoId,
         target |-> NoId, saw |-> 0, todo |-> <<>>, promises |-> FALSE]

(* An object that is not in memory, and what a file is on disk before its     *)
(* first sync: alloc_id makes an empty m_ file, which cannot be read.         *)
Absent == [loaded |-> FALSE, change |-> 0, lastSync |-> 0, refcnt |-> 0]
Unwritten == [whole |-> FALSE, change |-> 0, refcnt |-> 0, version |-> 0]
NoEntries == [n \in Names |-> NoId]

\* After _reset: an empty root that has been synced
Init ==
  /\ up = TRUE
  /\ entries = NoEntries /\ diskEntries = NoEntries
  /\ object = [o \in Ids |-> IF o = Dir
                             THEN [loaded |-> TRUE, change |-> 0, lastSync |-> 0, refcnt |-> 1]
                             ELSE Absent]
  /\ disk = [o \in Ids |-> IF o = Dir
                           THEN [whole |-> TRUE, change |-> 0, refcnt |-> 1, version |-> 0]
                           ELSE Unwritten]
  /\ version = [o \in Ids |-> 0] /\ regular = {}
  /\ nextid = Dir /\ diskNextid = Dir /\ given = {Dir}
  /\ thread = [t \in Threads |-> Idle] /\ diskLock = NoThread
  /\ names = NoEntries /\ stable = [o \in Ids |-> 0] /\ torn = {}
  /\ ops = 0 /\ crashes = 0

-----------------------------------------------------------------------------
(* Requests                                                                   *)

Others(t, kinds) == {u \in Threads \ {t} : thread[u].op \in kinds}

\* Mutant: the state of the file is not locked.
AdmittedStateless(t, op, o) ==
  /\ op \notin Overlap => \A u \in Threads \ {t} : thread[u] = Idle
  /\ Others(t, Kinds \ Overlap) = {}
  /\ op \in {"create", "link"} => Others(t, {"create", "link", "lookup"}) = {}
  /\ op = "lookup" => Others(t, {"create", "link"}) = {}

\* Mutant: op_create and op_link take no lock.
AdmittedUnlocked(t, op, o) ==
  /\ op \notin Overlap => \A u \in Threads \ {t} : thread[u] = Idle
  /\ Others(t, Kinds \ Overlap) = {}
  /\ op \in {"write", "commit"} =>
       \A u \in Others(t, {"write", "commit"}) : thread[u].id # o

(* The lock a handler starts with: dir.lock for writing or reading, or the    *)
(* state of the file.  It is held until the handler ends.                     *)
Admitted(t, op, o) ==
  /\ op \notin Overlap => \A u \in Threads \ {t} : thread[u] = Idle
  /\ Others(t, Kinds \ Overlap) = {}
  /\ op \in {"create", "link"} => Others(t, {"create", "link", "lookup"}) = {}
  /\ op = "lookup" => Others(t, {"create", "link"}) = {}
  /\ op \in {"write", "commit"} =>
       \A u \in Others(t, {"write", "commit"}) : thread[u].id # o

\* FSObject.unlink of a name, and the steps the link of an object takes
Unlinking(n) == <<<<"target", n>>, <<"count", n>>, <<"sync", "target">>, <<"delete", n>>>>
Linking(n) == <<<<"entry", n>>, <<"refcnt", n>>, <<"refcnt + 1", n>>>>

\* Mutant: the directory is written before the object it names.
MakingDirFirst(n) ==
  <<<<"alloc", n>>>> \o Linking(n) \o <<<<"sync", "dir">>, <<"sync", "object">>>>

\* FSObject.create, then obj.sync() and dir.sync() of op_create and open_claim_null
Making(n) ==
  <<<<"alloc", n>>, <<"entry", n>>, <<"refcnt", n>>, <<"refcnt + 1", n>>,
    <<"sync", "object">>, <<"sync", "dir">>>>

\* What a handler does first
Program(op, n) ==
  CASE op = "create" -> <<<<"absent", n>>>> \o Making(n)
    [] op = "link"   -> <<<<"handle", n>>, <<"absent", n>>>> \o Linking(n)
    [] op = "lookup" -> <<<<"find", n>>>>
    [] op = "open"   -> <<<<"choose", n>>>>
    [] op = "remove" -> Unlinking(n) \o <<<<"sync", "dir">>>>
    [] op = "rename" -> <<<<"find", n>>, <<"replace", n>>>>
    [] op = "write"  -> <<<<"handle", n>>, <<"write", n>>>>
    [] op = "commit" -> <<<<"handle", n>>, <<"sync", "object">>>>

(* A request comes: with a name for the directory's operations, with another  *)
(* for RENAME, and with the handle of a file for LINK and for those on files.*)
Begin(t, op, n, to, o) ==
  /\ up /\ thread[t] = Idle /\ ops < MaxOps
  /\ Admitted(t, op, o)
  /\ op \in {"create", "open"} => nextid + Cardinality(Others(t, {"create", "open"})) < MaxId
  /\ IF op \in {"link", "write", "commit"} THEN o \in regular ELSE o = NoId
  /\ IF op = "rename" THEN to # n ELSE to = n
  /\ thread' = [thread EXCEPT ![t] =
       [Idle EXCEPT !.op = op, !.name = n, !.to = to, !.id = o, !.todo = Program(op, n),
                    !.promises = op \in {"create", "open", "write", "commit"}]]
  /\ ops' = ops + 1
  /\ UNCHANGED <<up, memory, diskLock, onDisk, history, crashes>>

At(t, step) == thread[t].todo # <<>> /\ Head(thread[t].todo)[1] = step
Arg(t) == Head(thread[t].todo)[2]
Then(t, todo) == [thread[t] EXCEPT !.todo = todo]
Advance(t) == thread' = [thread EXCEPT ![t] = Then(t, Tail(@.todo))]
Fail(t) == thread' = [thread EXCEPT ![t] = [Then(t, <<>>) EXCEPT !.promises = FALSE]]

\* exists(): NFS4ERR_EXIST
CheckAbsent(t) ==
  /\ At(t, "absent")
  /\ IF entries[Arg(t)] = NoId THEN Advance(t) ELSE Fail(t)
  /\ UNCHANGED <<up, memory, diskLock, onDisk, history, ops, crashes>>

\* The id that find is called with: of a handle, or of a name
Sought(t) == IF At(t, "handle") THEN thread[t].id ELSE entries[Arg(t)]

\* FileSystem.find, when _ids has the object; NFS4ERR_NOENT, when the name is gone
Find(t) ==
  LET o == Sought(t) IN
  /\ At(t, "handle") \/ At(t, "find") \/ At(t, "target")
  /\ IF o = NoId THEN Fail(t)
     ELSE /\ object[o].loaded
          /\ thread' = [thread EXCEPT ![t] =
               IF At(t, "target") THEN [Then(t, Tail(@.todo)) EXCEPT !.target = o]
               ELSE [Then(t, Tail(@.todo)) EXCEPT !.id = o]]
  /\ UNCHANGED <<up, memory, diskLock, onDisk, history, ops, crashes>>

(* FileSystem.find, when it is not: find_on_disk, under _disk_lock.  A file   *)
(* that cannot be read raises an exception.                                   *)
Load(t) ==
  LET o == Sought(t) IN
  /\ At(t, "handle") \/ At(t, "find") \/ At(t, "target") \/ At(t, "choose")
  /\ o # NoId /\ ~object[o].loaded /\ diskLock = NoThread
  /\ IF disk[o].whole
     THEN /\ object' = [object EXCEPT ![o] =
               [loaded |-> TRUE, change |-> disk[o].change, lastSync |-> disk[o].change,
                refcnt |-> disk[o].refcnt]]
          /\ version' = [version EXCEPT ![o] = disk[o].version]
          /\ UNCHANGED thread
     ELSE Fail(t) /\ UNCHANGED <<object, version>>
  /\ UNCHANGED <<up, entries, regular, nextid, diskLock, onDisk, history, ops, crashes>>

(* open_claim_null: a name that is there is used, perhaps truncated, another  *)
(* one made; or the mode of the request forbids it.                           *)
ChooseOpen(t) ==
  LET o == entries[Arg(t)]
      using == [Then(t, <<<<"sync", "object">>, <<"sync", "dir">>>>) EXCEPT !.id = o] IN
  /\ At(t, "choose")
  /\ \/ Fail(t) /\ UNCHANGED <<object, version>>
     \/ /\ o = NoId
        /\ thread' = [thread EXCEPT ![t] = Then(t, Making(Arg(t)))]
        /\ UNCHANGED <<object, version>>
     \/ /\ o # NoId /\ object[o].loaded
        /\ thread' = [thread EXCEPT ![t] = using]
        /\ \/ UNCHANGED <<object, version>>
           \/ /\ object' = [object EXCEPT ![o].change = @ + 2]
              /\ version' = [version EXCEPT ![o] = @ + 1]
  /\ UNCHANGED <<up, entries, regular, nextid, diskLock, onDisk, history, ops, crashes>>

\* op_rename: two names of one file are left alone; a name that is there goes
\* first; the file is linked to its new name before it leaves the old.
Replace(t) ==
  LET old == thread[t].name
      new == thread[t].to
      target == entries[new] IN
  /\ At(t, "replace")
  /\ thread' = [thread EXCEPT ![t] =
       Then(t, IF target = thread[t].id THEN <<>>
               ELSE (IF target = NoId THEN <<>> ELSE Unlinking(new))
                    \o Linking(new) \o Unlinking(old))]
  /\ UNCHANGED <<up, memory, diskLock, onDisk, history, ops, crashes>>

\* Mutant: the next id is not written to disk.
AllocUnsaved(t) ==
  /\ At(t, "alloc") /\ diskLock = NoThread
  /\ nextid' = nextid + 1
  /\ given' = given \cup {nextid'}
  /\ object' = [object EXCEPT ![nextid'] =
                 [loaded |-> TRUE, change |-> 1, lastSync |-> 0, refcnt |-> 0]]
  /\ version' = [version EXCEPT ![nextid'] = 0]
  /\ regular' = IF thread[t].op = "open" THEN regular \cup {nextid'} ELSE regular
  /\ disk' = [disk EXCEPT ![nextid'] = Unwritten]
  /\ thread' = [thread EXCEPT ![t] = [Then(t, Tail(@.todo)) EXCEPT !.id = nextid']]
  /\ UNCHANGED <<up, entries, diskLock, diskEntries, diskNextid, names, stable, torn,
                 ops, crashes>>

\* fs.create: alloc_id, under _disk_lock, and a new object whose owner is set
Alloc(t) ==
  /\ At(t, "alloc") /\ diskLock = NoThread
  /\ nextid' = nextid + 1 /\ diskNextid' = nextid'
  /\ given' = given \cup {nextid'}
  /\ object' = [object EXCEPT ![nextid'] =
                 [loaded |-> TRUE, change |-> 1, lastSync |-> 0, refcnt |-> 0]]
  /\ version' = [version EXCEPT ![nextid'] = 0]
  /\ regular' = IF thread[t].op = "open" THEN regular \cup {nextid'} ELSE regular
  /\ disk' = [disk EXCEPT ![nextid'] = Unwritten]
  /\ thread' = [thread EXCEPT ![t] = [Then(t, Tail(@.todo)) EXCEPT !.id = nextid']]
  /\ UNCHANGED <<up, entries, diskLock, diskEntries, names, stable, torn, ops, crashes>>

\* link: the entry and the change of the directory ...
LinkEntry(t) ==
  /\ At(t, "entry")
  /\ IF entries[Arg(t)] # NoId THEN Fail(t) /\ UNCHANGED <<entries, object>>
     ELSE /\ entries' = [entries EXCEPT ![Arg(t)] = thread[t].id]
          /\ object' = [object EXCEPT ![Dir].change = @ + 1]
          /\ Advance(t)
  /\ UNCHANGED <<up, version, regular, nextid, diskLock, onDisk, history, ops, crashes>>

\* ... and obj.refcnt += 1, of an object whose change does not move
LinkRefcnt(t) ==
  /\ \/ /\ At(t, "refcnt")
        /\ thread' = [thread EXCEPT ![t] =
                       [Then(t, Tail(@.todo)) EXCEPT !.saw = object[thread[t].id].refcnt]]
        /\ UNCHANGED object
     \/ /\ At(t, "refcnt + 1")
        /\ object' = [object EXCEPT ![thread[t].id].refcnt = thread[t].saw + 1]
        /\ Advance(t)
  /\ UNCHANGED <<up, entries, version, regular, nextid, diskLock, onDisk, history, ops, crashes>>

\* unlink, as far as obj.refcnt -= 1, under obj.lock
UnlinkCount(t) ==
  /\ At(t, "count")
  /\ object' = [object EXCEPT ![thread[t].target].refcnt = @ - 1]
  /\ Advance(t)
  /\ UNCHANGED <<up, entries, version, regular, nextid, diskLock, onDisk, history, ops, crashes>>

\* del self.entries[name]: the change of the directory does not move.  The name
\* is no longer promised, and neither is that it is gone.
UnlinkDelete(t) ==
  /\ At(t, "delete")
  /\ entries' = [entries EXCEPT ![Arg(t)] = NoId]
  /\ names' = [names EXCEPT ![Arg(t)] = NoId]
  /\ Advance(t)
  /\ UNCHANGED <<up, object, version, regular, nextid, diskLock, onDisk, stable, torn, given,
                 ops, crashes>>

-----------------------------------------------------------------------------
(* Data and disk                                                              *)

\* FSObject.write of op_write.  UNSTABLE4 leaves it in memory, and promises nothing.
Write(t) ==
  LET o == thread[t].id IN
  /\ At(t, "write")
  /\ version' = [version EXCEPT ![o] = @ + 1]
  /\ object' = [object EXCEPT ![o].change = @ + 1]
  /\ \/ thread' = [thread EXCEPT ![t] = Then(t, <<<<"sync", "object">>>>)]
     \/ Fail(t)
  /\ UNCHANGED <<up, entries, regular, nextid, diskLock, onDisk, history, ops, crashes>>

Synced(t) ==
  CASE Arg(t) = "dir" -> Dir [] Arg(t) = "object" -> thread[t].id [] OTHER -> thread[t].target

Go(t, step) == thread' = [thread EXCEPT ![t].todo = <<<<step, Arg(t)>>>> \o Tail(@)]

\* FSObject.sync: nothing if the object has not changed, or fs.sync, which takes
\* _disk_lock and truncates the files ...
SyncBegin(t) ==
  LET o == Synced(t) IN
  /\ At(t, "sync")
  /\ IF object[o].lastSync = object[o].change
     THEN Advance(t) /\ UNCHANGED <<diskLock, disk>>
     ELSE /\ diskLock = NoThread /\ diskLock' = t
          /\ disk' = [disk EXCEPT ![o].whole = FALSE]
          /\ Go(t, "store")
  /\ UNCHANGED <<up, memory, diskEntries, diskNextid, history, ops, crashes>>

\* ... writes them ...
SyncStore(t) ==
  LET o == Synced(t) IN
  /\ At(t, "store")
  /\ disk' = [disk EXCEPT ![o] = [whole |-> TRUE, change |-> object[o].change,
                                  refcnt |-> object[o].refcnt, version |-> version[o]]]
  /\ diskEntries' = IF o = Dir THEN entries ELSE diskEntries
  /\ diskLock' = NoThread
  /\ Go(t, "mark")
  /\ UNCHANGED <<up, memory, diskNextid, history, ops, crashes>>

\* ... and _last_sync becomes what change is then.
SyncMark(t) ==
  /\ At(t, "mark")
  /\ object' = [object EXCEPT ![Synced(t)].lastSync = object[Synced(t)].change]
  /\ Advance(t)
  /\ UNCHANGED <<up, entries, version, regular, nextid, diskLock, onDisk, history, ops, crashes>>

(* The handler ends, gives back its lock, and the reply goes out.  A file     *)
(* that was made is promised by its name, data that was synced by its number. *)
Finish(t) ==
  LET r == thread[t] IN
  /\ r # Idle /\ r.todo = <<>>
  /\ thread' = [thread EXCEPT ![t] = Idle]
  /\ names' = IF r.promises /\ r.op \in {"create", "open"}
              THEN [names EXCEPT ![r.name] = r.id] ELSE names
  /\ stable' = IF r.promises /\ r.op \in {"write", "commit"}
               THEN [stable EXCEPT ![r.id] = version[r.id]] ELSE stable
  /\ UNCHANGED <<up, memory, diskLock, onDisk, torn, given, ops, crashes>>

-----------------------------------------------------------------------------
(* Crash and restart                                                          *)

\* What a thread is writing to disk
Storing(o) == diskLock # NoThread /\ Synced(diskLock) = o

\* The server dies, perhaps in the middle of files that were whole before.
Crash ==
  /\ up /\ crashes < MaxCrashes
  /\ up' = FALSE /\ crashes' = crashes + 1
  /\ torn' = torn \cup {o \in Ids : Storing(o) /\ (o = Dir \/ disk[o].change > 0)}
  /\ entries' = NoEntries /\ nextid' = Dir
  /\ object' = [o \in Ids |-> Absent] /\ version' = [o \in Ids |-> 0]
  /\ thread' = [t \in Threads |-> Idle] /\ diskLock' = NoThread
  /\ UNCHANGED <<regular, onDisk, names, stable, given, ops>>

\* StubFS_Disk._init: the root is read, the rest when it is asked for.  A root
\* that cannot be read keeps the server down.
Restart ==
  /\ ~up /\ disk[Dir].whole
  /\ up' = TRUE
  /\ entries' = diskEntries /\ nextid' = diskNextid
  /\ object' = [object EXCEPT ![Dir] =
       [loaded |-> TRUE, change |-> disk[Dir].change, lastSync |-> disk[Dir].change,
        refcnt |-> disk[Dir].refcnt]]
  /\ UNCHANGED <<version, regular, thread, diskLock, onDisk, history, ops, crashes>>

Step(t) ==
  \/ CheckAbsent(t) \/ Find(t) \/ Load(t) \/ ChooseOpen(t) \/ Replace(t) \/ Alloc(t)
  \/ LinkEntry(t) \/ LinkRefcnt(t) \/ UnlinkCount(t) \/ UnlinkDelete(t)
  \/ Write(t) \/ SyncBegin(t) \/ SyncStore(t) \/ SyncMark(t) \/ Finish(t)

Next ==
  \/ \E t \in Threads, op \in Kinds, n \in Names, to \in Names, o \in Files \cup {NoId} :
       Begin(t, op, n, to, o)
  \/ \E t \in Threads : Step(t)
  \/ Crash
  \/ Restart

Spec == Init /\ [][Next]_vars

-----------------------------------------------------------------------------
(* Properties                                                                 *)

\* An object's files can be read, are being written, or were when a crash came.
Readable(o) == disk[o].whole \/ Storing(o) \/ o \in torn

(* A name the server said it made is in the directory until it is removed or  *)
(* renamed, in memory and, whatever the moment of a crash, on disk: dir.sync  *)
(* is neither skipped nor overtaken by another handler's.                     *)
NamesAreKept ==
  \A n \in Names : names[n] # NoId =>
    /\ up => entries[n] = names[n]
    /\ diskEntries[n] = names[n]
    /\ Readable(Dir) /\ Readable(names[n])

(* Data the server called stable, with FILE_SYNC4 or by COMMIT or CLOSE, is   *)
(* on disk: a sync is skipped only where the disk has what memory has.        *)
StableDataIsOnDisk ==
  \A o \in Files : stable[o] > 0 => disk[o].version >= stable[o] /\ Readable(o)

\* A name on disk stands for an object that can be read back.
NoDanglingName ==
  \A n \in Names : diskEntries[n] # NoId => Readable(diskEntries[n])

Linkers == {t \in Threads : thread[t].op \in {"create", "link", "open", "remove", "rename"}}

\* Once those who link and unlink are done, before any crash
RefcntCountsLinks ==
  crashes = 0 /\ Linkers = {} =>
    \A o \in Files : object[o].loaded =>
      object[o].refcnt = Cardinality({n \in Names : entries[n] = o})

(* Names and objects agree.  A name on disk stands for an object that can be  *)
(* read back, since objects are written before the directory that names them. *)
(* Until the server crashes, fattr4_numlinks is the number of names: obj.     *)
(* refcnt += 1 and -= 1 lose no update.                                       *)
LinksAgree == NoDanglingName /\ RefcntCountsLinks

(* No id is given to two objects, though the server forgot the first.         *)
IdsNeverReused == up => \A i \in given : i <= nextid
=============================================================================
