----------------------------- MODULE FileState41 -----------------------------
(* The opens, byte-range locks and delegations of one file of the 4.1 server, *)
(* src/nfs4.1/nfs4state.py: FileState with its trees of StateTableEntries,    *)
(* find_state, and the threads that recall delegations; the operations of     *)
(* nfs4server.py that use them (OPEN, CLOSE, LOCK, LOCKU, DELEGRETURN,        *)
(* SETATTR of the size, READ and WRITE) and ClientRecord.rebooted.            *)
(*                                                                           *)
(* All entries of a file share one lock, which a handler holds to its end:    *)
(* the lookup of a stateid comes before and what SETATTR does to the file     *)
(* after.  A recall thread works without it until the answer comes.           *)
(*                                                                           *)
(* Access and deny are sets of "R" and "W".  Seqids of stateids, layouts,     *)
(* which hold nothing, and data servers, which skip all checks, are left out; *)
(* so are requests refused for the kind of their stateid.                     *)
(*                                                                           *)
(* A workload says who does what: threads, owners, lockOwners, shares (what    *)
(* OPENs ask for), requests (operations with a stateid), ranges of locks and  *)
(* entries, the bound of StateTableEntries ever created.                      *)
EXTENDS Integers, Sequences, SequencesExt, FiniteSets

CONSTANTS
  Threads,    \* worker threads
  Clients,
  Owners,     \* open owners
  LockOwners,
  None,       \* None in the template of a key
  BackSlots,  \* slots of a client's back channel
  Workloads

ASSUME FileStateAssumption ==
  /\ None \notin Clients \cup Owners \cup LockOwners
  /\ BackSlots \in Nat
  /\ \A w \in Workloads :
       /\ w.threads \subseteq Threads /\ w.owners \subseteq Owners
       /\ w.lockOwners \subseteq LockOwners
       /\ w.shares \subseteq
            [access : (SUBSET {"R", "W"}) \ {{}}, deny : SUBSET {"R", "W"}, want : BOOLEAN]
       /\ w.requests \subseteq {"IO", "CLOSE", "LOCK", "LOCKU", "DELEGRETURN"}
       /\ \A r \in w.ranges : r \in Nat \X Nat /\ r[1] <= r[2]
       /\ w.entries \in Nat

VARIABLES
  workload,
  entry,       \* the StateTableEntries, in the order of their creation
  tree,        \* those that are in the tree of their type
  known,       \* ClientRecord.state: the entries the client's stateids lead to
  cache,       \* ShareState: cache_valid, cached_access and cached_deny
  anonWriters, \* anon0.write_count
  stuck,       \* the lock of the file was left taken
  gone,        \* clients that have rebooted: their records are not used again
  slots,       \* the free slots of a client's back channel
  thread,      \* the worker threads
  recall       \* the recall thread of each delegation

vars ==
  <<workload, entry, tree, known, cache, anonWriters, stuck, gone, slots, thread, recall>>

MaxEntries == workload.entries

Idle == [pc |-> "idle"]
Modes == {"R", "W"}
Ids == 1..Len(entry)

ClientOf(id) == entry[id].key[1]
Embedded(type) == {id \in tree : entry[id].type = type}

\* Keys are <<client>>, <<client, open owner>>, <<client, open owner, lock owner>>
NewEntry(type, key) ==
  [type |-> type, key |-> key, access |-> {}, deny |-> {}, locks |-> <<>>, invalid |-> FALSE]

Init ==
  /\ workload \in Workloads
  /\ entry = <<>> /\ tree = {} /\ known = [c \in Clients |-> {}]
  /\ cache = [valid |-> TRUE, access |-> {}, deny |-> {}]
  /\ anonWriters = 0 /\ stuck = FALSE /\ gone = {}
  /\ slots = [c \in Clients |-> BackSlots]
  /\ thread = [t \in Threads |-> Idle]
  /\ recall = [id \in 1..MaxEntries |-> "none"]

-----------------------------------------------------------------------------
(* Shares                                                                     *)

ShareUnion == [valid |-> TRUE,
               access |-> UNION {entry[id].access : id \in Embedded("SHARE")},
               deny |-> UNION {entry[id].deny : id \in Embedded("SHARE")}]

\* _test_share works with the cached union, and computes it if it is not valid
Current == IF cache.valid THEN cache ELSE ShareUnion

\* Mutant: accesses under way with the anonymous stateid are overlooked.
ShareConflictNoAnon(access, deny) ==
  access \cap Current.deny # {} \/ deny \cap Current.access # {}

\* test_share raises an error
ShareConflict(access, deny) ==
  \/ access \cap Current.deny # {}
  \/ deny \cap (Current.access \cup (IF anonWriters > 0 THEN {"W"} ELSE {})) # {}

\* Mutant: a read delegation does not mind a writer.
DelegConflictReadOnly(access, deny) == Embedded("DELEG") # {} /\ "R" \in deny

\* DelegState.conflicts: all delegations are for READ
DelegConflict(access, deny) ==
  Embedded("DELEG") # {} /\ ("R" \in deny \/ "W" \in access)

\* DictTree.get
AtKey(type, key) == {id \in Embedded(type) : entry[id].key = key}

-----------------------------------------------------------------------------
(* OPEN                                                                       *)

\* open_file: self.clients[owner.clientid], before the lock
OpenFile(t, c) ==
  /\ thread[t] = Idle
  /\ c \notin gone
  /\ thread' = [thread EXCEPT ![t] = [pc |-> "open", client |-> c]]
  /\ UNCHANGED <<entry, tree, known, cache, anonWriters, stuck, gone, slots, recall>>

OpenDenied(t, access, deny) ==
  /\ thread[t].pc = "open" /\ ~stuck
  /\ ShareConflict(access, deny)
  /\ cache' = Current
  /\ thread' = [thread EXCEPT ![t] = Idle]
  /\ UNCHANGED <<entry, tree, known, anonWriters, stuck, gone, slots, recall>>

\* recall_conflicting_delegations starts a thread for each that has none, and
\* the OPEN is answered with NFS4ERR_DELAY.
OpenDelayed(t, access, deny) ==
  /\ thread[t].pc = "open" /\ ~stuck
  /\ ~ShareConflict(access, deny) /\ DelegConflict(access, deny)
  /\ cache' = Current
  /\ recall' = [id \in DOMAIN recall |->
                  IF id \in Embedded("DELEG") /\ recall[id] = "none" THEN "init" ELSE recall[id]]
  /\ thread' = [thread EXCEPT ![t] = Idle]
  /\ UNCHANGED <<entry, tree, known, anonWriters, stuck, gone, slots>>

(* add_share and grant_delegation.  Each takes the entry under its key or     *)
(* makes one (grab_entry); a delegation is granted to who reads and does not  *)
(* say it wants none.                                                         *)
AddShare(id, access, deny, es) ==
  [es EXCEPT ![id].access = @ \cup access, ![id].deny = @ \cup deny]

Grab(type, key, es) ==
  IF AtKey(type, key) # {} THEN [es |-> es, id |-> CHOOSE id \in AtKey(type, key) : TRUE]
  ELSE [es |-> Append(es, NewEntry(type, key)), id |-> Len(es) + 1]

\* Mutant: cache_valid is not reset.
OpenKeepsCache(t, owner, access, deny, want) ==
  LET c == thread[t].client
      share == Grab("SHARE", <<c, owner>>, entry)
      deleg == Grab("DELEG", <<c>>, share.es)
      grant == want /\ "W" \notin access
      ids == {share.id} \cup (IF grant THEN {deleg.id} ELSE {})
  IN /\ thread[t].pc = "open" /\ ~stuck
     /\ ~ShareConflict(access, deny) /\ ~DelegConflict(access, deny)
     /\ entry' = AddShare(share.id, access, deny, IF grant THEN deleg.es ELSE share.es)
     /\ Len(entry') <= MaxEntries
     /\ tree' = tree \cup ids
     /\ known' = [known EXCEPT ![c] = @ \cup ids]
     /\ cache' = Current
     /\ thread' = [thread EXCEPT ![t] = Idle]
     /\ UNCHANGED <<anonWriters, stuck, gone, slots, recall>>

OpenGranted(t, owner, access, deny, want) ==
  LET c == thread[t].client
      share == Grab("SHARE", <<c, owner>>, entry)
      deleg == Grab("DELEG", <<c>>, share.es)
      grant == want /\ "W" \notin access
      ids == {share.id} \cup (IF grant THEN {deleg.id} ELSE {})
  IN /\ thread[t].pc = "open" /\ ~stuck
     /\ ~ShareConflict(access, deny) /\ ~DelegConflict(access, deny)
     /\ entry' = AddShare(share.id, access, deny, IF grant THEN deleg.es ELSE share.es)
     /\ Len(entry') <= MaxEntries
     /\ tree' = tree \cup ids
     /\ known' = [known EXCEPT ![c] = @ \cup ids]
     /\ cache' = [Current EXCEPT !.valid = FALSE]
     /\ thread' = [thread EXCEPT ![t] = Idle]
     /\ UNCHANGED <<anonWriters, stuck, gone, slots, recall>>

-----------------------------------------------------------------------------
(* find_state: the stateid is looked up first, and then the lock is taken     *)

Operations(id) ==
  workload.requests \cap
    CASE entry[id].type = "SHARE" -> {"IO", "LOCK", "CLOSE"}
      [] entry[id].type = "BYTE"  -> {"IO", "LOCK", "LOCKU"}
      [] entry[id].type = "DELEG" -> {"IO", "DELEGRETURN"}

FindState(t, id, op) ==
  /\ thread[t] = Idle
  /\ id \in known[ClientOf(id)]
  /\ op \in Operations(id)
  /\ thread' = [thread EXCEPT ![t] = [pc |-> "found", id |-> id, op |-> op]]
  /\ UNCHANGED <<entry, tree, known, cache, anonWriters, stuck, gone, slots, recall>>

\* The entry was removed meanwhile: state.release() is no method of an entry,
\* and the exception leaves the lock taken.
FoundInvalid(t) ==
  /\ thread[t].pc = "found" /\ ~stuck
  /\ entry[thread[t].id].invalid
  /\ stuck' = TRUE
  /\ thread' = [thread EXCEPT ![t] = Idle]
  /\ UNCHANGED <<entry, tree, known, cache, anonWriters, gone, slots, recall>>

Holds(t, op) ==
  /\ thread[t].pc = "found" /\ thread[t].op = op /\ ~stuck
  /\ ~entry[thread[t].id].invalid

\* READ and WRITE count themselves up and down while they hold the lock.
ReadOrWrite(t) ==
  /\ Holds(t, "IO")
  /\ thread' = [thread EXCEPT ![t] = Idle]
  /\ UNCHANGED <<entry, tree, known, cache, anonWriters, stuck, gone, slots, recall>>

\* test_share for READ and WRITE with the anonymous stateid, REMOVE and RENAME,
\* which give up the lock only after they have done their work
TestShare(t) ==
  /\ thread[t] = Idle /\ ~stuck
  /\ cache' = Current
  /\ UNCHANGED <<entry, tree, known, anonWriters, stuck, gone, slots, thread, recall>>

\* FileState.close: has_locks is given the key for a client and finds nothing.
\* The entry stays in client.state; a KeyError if the tree has none by its key.
Close(t) ==
  /\ Holds(t, "CLOSE")
  /\ tree' = tree \ AtKey("SHARE", entry[thread[t].id].key)
  /\ thread' = [thread EXCEPT ![t] = Idle]
  /\ UNCHANGED <<entry, known, cache, anonWriters, stuck, gone, slots, recall>>

\* DelegEntry.delegreturn
DelegReturn(t) ==
  /\ Holds(t, "DELEGRETURN")
  /\ LET id == thread[t].id
     IN /\ entry' = [entry EXCEPT ![id].invalid = TRUE]
        /\ tree' = tree \ AtKey("DELEG", entry[id].key)
        /\ known' = [known EXCEPT ![ClientOf(id)] = @ \ {id}]
  /\ thread' = [thread EXCEPT ![t] = Idle]
  /\ UNCHANGED <<cache, anonWriters, stuck, gone, slots, recall>>

-----------------------------------------------------------------------------
(* SETATTR of the size with the anonymous stateid, which gives up the lock    *)
(* before it changes the file                                                 *)

SetattrBegins(t) ==
  /\ thread[t] = Idle /\ ~stuck
  /\ ~ShareConflict({"W"}, {})
  /\ cache' = Current
  /\ anonWriters' = anonWriters + 1
  /\ thread' = [thread EXCEPT ![t] = [pc |-> "setattr"]]
  /\ UNCHANGED <<entry, tree, known, stuck, gone, slots, recall>>

SetattrEnds(t) ==
  /\ thread[t].pc = "setattr"
  /\ anonWriters' = anonWriters - 1
  /\ thread' = [thread EXCEPT ![t] = Idle]
  /\ UNCHANGED <<entry, tree, known, cache, stuck, gone, slots, recall>>

-----------------------------------------------------------------------------
(* Byte-range locks                                                           *)

Lock(type, range) == [type |-> type, range |-> range]

\* Mutant: locks that share their edge only do not overlap.
OverlapsInside(r, q) ==
  \/ r[1] <= q[1] /\ q[1] < r[2]
  \/ q[1] <= r[1] /\ r[1] < q[2]

\* ByteLock.overlaps
Overlaps(r, q) ==
  \/ r[1] <= q[1] /\ q[1] <= r[2]
  \/ q[1] <= r[1] /\ r[1] <= q[2]

LocksConflict(l, m) == "WRITE" \in {l.type, m.type} /\ Overlaps(l.range, m.range)

\* match() in find_conflicts: one part of the key that agrees is enough
Matches(template, key) ==
  \E i \in 1..Len(template) : template[i] \in {key[i], None}

\* find_conflicts raises NFS4ERR_DENIED
Conflicting(template, lock) ==
  \E id \in Embedded("BYTE") :
    /\ ~Matches(template, entry[id].key)
    /\ \E m \in Range(entry[id].locks) : LocksConflict(m, lock)

(* add_lock without POSIXLOCK: the lists it can leave.  A lock of the same    *)
(* range changes its type, any other overlap is NFS4ERR_LOCK_RANGE.           *)
WithLock(locks, lock) ==
  LET over == {i \in DOMAIN locks : Overlaps(locks[i].range, lock.range)}
  IN IF over = {} THEN {Append(locks, lock)}
     ELSE LET i == Min(over)
          IN IF locks[i].range = lock.range THEN {[locks EXCEPT ![i] = lock]} ELSE {}

\* LOCK, of an open (with a lock owner) or of a lock stateid.  The entry of a
\* new lock owner stays when its lock is refused.
AddLock(t, owner, lock) ==
  LET from == thread[t].id
      key == IF entry[from].type = "BYTE" THEN entry[from].key
             ELSE Append(entry[from].key, owner)
      byte == IF entry[from].type = "BYTE" THEN [es |-> entry, id |-> from]
              ELSE Grab("BYTE", key, entry)
      lists == IF Conflicting(key, lock) THEN {} ELSE WithLock(byte.es[byte.id].locks, lock)
  IN /\ Holds(t, "LOCK")
     /\ Len(byte.es) <= MaxEntries
     /\ IF lists = {} THEN entry' = byte.es
        ELSE \E list \in lists : entry' = [byte.es EXCEPT ![byte.id].locks = list]
     /\ IF byte.id = from THEN UNCHANGED <<tree, known>>
        ELSE /\ tree' = tree \cup {byte.id}
             /\ known' = [known EXCEPT ![key[1]] = @ \cup {byte.id}]
     /\ thread' = [thread EXCEPT ![t] = Idle]
     /\ UNCHANGED <<cache, anonWriters, stuck, gone, slots, recall>>

\* remove_lock: locks are compared by their range, and the first is removed.
RemoveLock(t, range) ==
  LET locks == entry[thread[t].id].locks
      here == {i \in DOMAIN locks : locks[i].range = range}
  IN /\ Holds(t, "LOCKU")
     /\ entry' = IF here = {} THEN entry
                 ELSE [entry EXCEPT ![thread[t].id].locks = RemoveAt(locks, Min(here))]
     /\ thread' = [thread EXCEPT ![t] = Idle]
     /\ UNCHANGED <<tree, known, cache, anonWriters, stuck, gone, slots, recall>>

-----------------------------------------------------------------------------
(* ClientRecord.rebooted, which clients.lock lets run once at a time          *)

Reboot(t, c) ==
  /\ thread[t] = Idle /\ c \notin gone
  /\ \A u \in Threads : thread[u].pc # "reboot"
  /\ thread' = [thread EXCEPT ![t] = [pc |-> "reboot", client |-> c, todo |-> known[c]]]
  /\ UNCHANGED <<entry, tree, known, cache, anonWriters, stuck, gone, slots, recall>>

\* delete() of one entry; delegations stay.  A KeyError is caught and ignored.
RebootDeletes(t, id) ==
  /\ thread[t].pc = "reboot" /\ id \in thread[t].todo /\ ~stuck
  /\ IF entry[id].type = "DELEG" THEN UNCHANGED <<entry, tree, known>>
     ELSE LET here == AtKey(entry[id].type, entry[id].key)
          IN /\ entry' = [entry EXCEPT ![id].invalid = TRUE]
             /\ tree' = tree \ here
             /\ known' = IF here = {} THEN known
                         ELSE [known EXCEPT ![thread[t].client] = @ \ {id}]
  /\ thread' = [thread EXCEPT ![t].todo = @ \ {id}]
  /\ UNCHANGED <<cache, anonWriters, stuck, gone, slots, recall>>

RebootEnds(t) ==
  /\ thread[t].pc = "reboot" /\ thread[t].todo = {}
  /\ known' = [known EXCEPT ![thread[t].client] = {}]
  /\ gone' = gone \cup {thread[t].client}
  /\ thread' = [thread EXCEPT ![t] = Idle]
  /\ UNCHANGED <<entry, tree, cache, anonWriters, stuck, slots, recall>>

-----------------------------------------------------------------------------
(* DelegEntry.initiate_recall, in a thread of its own                         *)

\* Their sessions are not the client's any more.
Rebooting == {thread[t].client : t \in {u \in Threads : thread[u].pc = "reboot"}}

\* find_active_cb_session and choose_slot, each of which may find none
RecallStarts(id) ==
  /\ recall[id] = "init"
  /\ \/ /\ slots[ClientOf(id)] > 0 /\ ClientOf(id) \notin gone \cup Rebooting
        /\ recall' = [recall EXCEPT ![id] = "slot"]
        /\ slots' = [slots EXCEPT ![ClientOf(id)] = @ - 1]
     \/ /\ recall' = [recall EXCEPT ![id] = "failed"]
        /\ UNCHANGED slots
  /\ UNCHANGED <<entry, tree, known, cache, anonWriters, stuck, gone, thread>>

\* CB_RECALL, unless the delegation has come back, in which case the slot stays
\* in use
RecallSends(id) ==
  /\ recall[id] = "slot"
  /\ recall' = [recall EXCEPT ![id] = IF entry[id].invalid THEN "done" ELSE "sent"]
  /\ UNCHANGED <<entry, tree, known, cache, anonWriters, stuck, gone, slots, thread>>

\* An answer frees the slot; without one in ten seconds, it stays in use.
RecallAnswered(id) ==
  /\ recall[id] = "sent"
  /\ \/ /\ \E end \in {"done", "failed"} : recall' = [recall EXCEPT ![id] = end]
        /\ slots' = [slots EXCEPT ![ClientOf(id)] = @ + 1]
     \/ /\ recall' = [recall EXCEPT ![id] = "failed"]
        /\ UNCHANGED slots
  /\ UNCHANGED <<entry, tree, known, cache, anonWriters, stuck, gone, thread>>

-----------------------------------------------------------------------------
Open(t) ==
  \E s \in workload.shares :
    \/ OpenDenied(t, s.access, s.deny) \/ OpenDelayed(t, s.access, s.deny)
    \/ \E o \in workload.owners : OpenGranted(t, o, s.access, s.deny, s.want)

Setattr(t) == SetattrBegins(t) \/ SetattrEnds(t)

LockSteps(t) ==
  \E range \in workload.ranges :
    \/ \E o \in workload.lockOwners, type \in {"READ", "WRITE"} :
         AddLock(t, o, Lock(type, range))
    \/ RemoveLock(t, range)

RebootSteps(t) ==
  \/ \E c \in Clients : Reboot(t, c)
  \/ \E id \in Ids : RebootDeletes(t, id)
  \/ RebootEnds(t)

Recall(id) == RecallStarts(id) \/ RecallSends(id) \/ RecallAnswered(id)

Next ==
  /\ \/ \E t \in workload.threads :
          \/ \E c \in Clients : OpenFile(t, c)
          \/ Open(t) \/ Setattr(t) \/ LockSteps(t) \/ RebootSteps(t)
          \/ \E id \in Ids : \E op \in Operations(id) : FindState(t, id, op)
          \/ TestShare(t) \/ FoundInvalid(t) \/ ReadOrWrite(t) \/ Close(t) \/ DelegReturn(t)
     \/ \E id \in Ids : Recall(id)
  /\ UNCHANGED workload

Spec == Init /\ [][Next]_vars

-----------------------------------------------------------------------------
(* Properties                                                                 *)

(* No two opens of the file are granted that deny each other, though the      *)
(* union of all shares is cached, closed opens stay in it, and an open that   *)
(* is closed through an old stateid may be another than the one it named.     *)
SharesCompatible ==
  \A id, ie \in Embedded("SHARE") : id # ie => entry[id].access \cap entry[ie].deny = {}

(* While a SETATTR with the anonymous stateid changes the file, without the   *)
(* lock, no open denies writing.                                              *)
AnonWriteExcludesDeny ==
  anonWriters > 0 => \A id \in Embedded("SHARE") : "W" \notin entry[id].deny

(* An OPEN gets access or denies access only when it may in the face of the   *)
(* delegations there are: none may be out when it writes or denies reading.   *)
ShareIds(e) == {id \in DOMAIN e : e[id].type = "SHARE"}
OpenWaitsForDelegs ==
  [][\A id \in ShareIds(entry') :
       LET before == IF id \in Ids THEN entry[id] ELSE NewEntry("SHARE", <<>>)
       IN ("W" \in entry'[id].access \ before.access \/ "R" \in entry'[id].deny \ before.deny)
            => Embedded("DELEG") = {}]_vars

ShareByte(l, m) == \E b \in l.range[1]..l.range[2] : b \in m.range[1]..m.range[2]

\* Of owners whose keys agree nowhere
StrangersLocksCompatible ==
  \A id, ie \in Embedded("BYTE") :
    (\A i \in 1..3 : entry[id].key[i] # entry[ie].key[i])
      => \A l \in Range(entry[id].locks), m \in Range(entry[ie].locks) :
           ShareByte(l, m) => l.type = "READ" /\ m.type = "READ"

OwnLocksDisjoint ==
  \A id \in Ids : \A i, j \in DOMAIN entry[id].locks :
    i # j => ~ShareByte(entry[id].locks[i], entry[id].locks[j])

(* Two locks that conflict are never held by owners with no name in common,   *)
(* whichever opens and clients they come from (find_conflicts overlooks those *)
(* whose keys agree anywhere).  The locks of one owner never overlap, through *)
(* locking, up- and downgrades and unlocking: so that LOCKU by range finds    *)
(* the one lock it means.                                                     *)
LocksAreSound == StrangersLocksCompatible /\ OwnLocksDisjoint
=============================================================================
