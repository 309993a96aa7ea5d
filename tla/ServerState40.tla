---------------------------- MODULE ServerState40 ----------------------------
(* The state an NFSv4.0 server keeps for its clients, src/nfs4.0/nfs4state.py *)
(* (NFSServerState, ClientIDCache, OwnerInfo, StateIDInfo, NFSFileState) and  *)
(* the operations of src/nfs4.0/nfs4server.py that change it: SETCLIENTID,    *)
(* SETCLIENTID_CONFIRM, RENEW, OPEN, OPEN_CONFIRM, OPEN_DOWNGRADE, CLOSE,     *)
(* LOCK, LOCKT, LOCKU, and READ and WRITE for what they check.  The server    *)
(* handles one request at a time, so an operation is a function: Serve gives  *)
(* the state after it, the status and the stateid of the reply.               *)
(*                                                                           *)
(* The files are Python 2 that was converted in part: they are read as what   *)
(* they were before (`except (ValueError, NFS4Error)`, a sort by __cmp__,     *)
(* dictionaries of small numbers in their order).  A FAULT is an exception    *)
(* other than NFS4Error: what was changed stays, and no answer is cached.     *)
EXTENDS LockLists40, FiniteSets, Functions

CONSTANTS
  Clients,  \* client owners, each with an open owner of its own
  Files,
  Ranges,   \* what a lock operation may ask: <<first byte, last byte>>
  None,     \* no reply, no entry, no number
  SeqidMod  \* seqids are taken modulo this, 2^32 in the code

ASSUME StateAssumption ==
  /\ SeqidMod \in Nat \ {0}
  /\ \A r \in Ranges : r[1] <= r[2]

Drop(f, keys) == Restrict(f, DOMAIN f \ keys)
Result(s, err, sid) == [s |-> s, err |-> err, sid |-> sid]
Then(r, Do(_)) == IF r.err = "OK" THEN Do(r.s) ELSE r

\* advance_seqid leaves the seqid alone after these
NotCounted == {"STALE_CLIENTID", "BAD_STATEID", "BAD_SEQID"}

EmptyState ==
  [confirmed |-> [x \in Clients |-> None], unconfirmed |-> [x \in Clients |-> None],
   given |-> [x \in Clients |-> 0], expired |-> {},
   info |-> <<>>, owners |-> <<>>, state |-> <<>>, nextId |-> 2,
   locks |-> [f \in Files |-> <<>>], shares |-> [f \in Files |-> <<>>],
   held |-> [f \in Files |-> <<>>], known |-> {}]

-----------------------------------------------------------------------------
(* NFSFileState: locks and shares of a file, by the ids of stateids.  held is *)
(* history: what the owner of an id has locked, byte by byte.                 *)

Bytes == UNION {r[1]..r[2] : r \in Ranges}
Nothing == [b \in Bytes |-> "none"]
Painted(held, type, r) == [b \in Bytes |-> IF b \in r[1]..r[2] THEN type ELSE held[b]]

AddLock(s, f, id, type, r) ==
  IF id \in DOMAIN s.locks[f]
  THEN [s EXCEPT !.locks[f][id] = AddPosixLock(@, type, r),
                 !.held[f][id] = Painted(@, type, r)]
  ELSE [s EXCEPT !.locks[f] = (id :> <<LockInfo(type, r)>>) @@ @,
                 !.held[f] = (id :> Painted(Nothing, type, r)) @@ @]

Unlock(s, f, id, r) ==
  IF id \notin DOMAIN s.locks[f] THEN s
  ELSE [s EXCEPT !.locks[f][id] = RemovePosixLock(@, r),
                 !.held[f][id] = Painted(@, "none", r)]

RemoveLocks(s, f, ids) ==
  [s EXCEPT !.locks[f] = Drop(@, ids), !.held[f] = Drop(@, ids)]

(* Shares.  The three bits of an id say which accesses, and which denials, it *)
(* was opened with; what the file is opened with is their union.              *)
Access(s, f) == UNION UNION {s.shares[f][id].access : id \in DOMAIN s.shares[f]}
Deny(s, f) == UNION UNION {s.shares[f][id].deny : id \in DOMAIN s.shares[f]}
Bit(modes) == IF modes = {} THEN {} ELSE {modes}

AddShares(s, f, id, share) ==
  LET none == [access |-> {}, deny |-> {}]
      old == IF id \in DOMAIN s.shares[f] THEN s.shares[f][id] ELSE none
      new == [access |-> old.access \cup Bit(share.access),
              deny |-> old.deny \cup Bit(share.deny)]
  IN IF share.access \cap Deny(s, f) # {} \/ share.deny \cap Access(s, f) # {}
     THEN Result(s, "SHARE_DENIED", None)
     ELSE Result([s EXCEPT !.shares[f] = (id :> new) @@ @], "OK", None)

RemoveShares(s, f, ids) == [s EXCEPT !.shares[f] = Drop(@, ids)]

DownShares(s, f, id, share) ==
  IF id \notin DOMAIN s.shares[f] THEN Result(s, "FAULT", None)
  ELSE LET new == [access |-> Bit(share.access), deny |-> Bit(share.deny)]
           old == s.shares[f][id]
       IN IF new.access \subseteq old.access /\ new.deny \subseteq old.deny
          THEN Result([s EXCEPT !.shares[f][id] = new], "OK", None)
          ELSE Result(s, "INVAL", None)

-----------------------------------------------------------------------------
(* NFSServerState.  A clientid is <<client, number>>, an owner is found under *)
(* <<"open", clientid>> or <<"lock", clientid, name>>.                        *)

NewOwner(kind, c) ==
  [kind |-> kind, client |-> c, confirmed |-> FALSE, last |-> None, cached |-> None,
   files |-> <<>>, openid |-> None, lockowners |-> <<>>]

\* __owner2info with allownew
WithOwner(s, key) ==
  IF key \in DOMAIN s.owners THEN s
  ELSE [s EXCEPT !.info = Append(@, NewOwner(key[1], key[2])),
                 !.owners = (key :> Len(s.info) + 1) @@ @]

\* __owner2id with allownew: the file's id is s.info[i].files[f]
WithId(s, i, f) ==
  IF f \in DOMAIN s.info[i].files THEN s
  ELSE [s EXCEPT !.info[i].files = (f :> s.nextId) @@ @,
                 !.state = (s.nextId :> [file |-> f, owner |-> i, seqid |-> 0,
                                         closed |-> FALSE]) @@ @,
                 !.nextId = @ + 1]

IsConfirmed(s, c) == s.confirmed[c[1]] # None /\ s.confirmed[c[1]].c = c
IsUnconfirmed(s, c) == s.unconfirmed[c[1]] # None /\ s.unconfirmed[c[1]].c = c
ClientOf(s, id) == s.info[s.state[id].owner].client
IdsOf(s, i) == Range(s.info[i].files)

\* __renew: the dictionary of confirmed clients has no entry for others
Renewable(s, id) == id \in DOMAIN s.state /\ IsConfirmed(s, ClientOf(s, id))
Renewed(s, id) == [s EXCEPT !.expired = @ \ {ClientOf(s, id)}]

\* __stateid: the lease is renewed and the stateid gets its next seqid
StateId(s, id) ==
  IF ~Renewable(s, id) THEN Result(s, "FAULT", None)
  ELSE LET seq == s.state[id].seqid + 1
       IN Result([Renewed(s, id) EXCEPT !.state[id].seqid = seq], "OK",
                 [id |-> id, seq |-> seq])

\* __state2id with checkseq
StateIdError(s, sid) ==
  IF sid.id \notin DOMAIN s.state THEN "BAD_STATEID"
  ELSE IF sid.seq < s.state[sid.id].seqid THEN "OLD_STATEID"
  ELSE IF sid.seq > s.state[sid.id].seqid THEN "BAD_STATEID" ELSE "OK"

\* Mutant: the locks of the owners stay in the files.
FreedButLocks(s, lockids, openids) ==
  [s EXCEPT !.shares = [f \in Files |-> Drop(@[f], openids)],
            !.state = Drop(@, lockids \cup openids)]

(* remove_state.  It fails at the first lock owner that has two files, or a   *)
(* file whose id is gone, after it has freed those before it.                 *)
Freed(s, lockids, openids) ==
  [s EXCEPT !.locks = [f \in Files |-> Drop(@[f], lockids)],
            !.held = [f \in Files |-> Drop(@[f], lockids)],
            !.shares = [f \in Files |-> Drop(@[f], openids)],
            !.state = Drop(@, lockids \cup openids)]
Forgotten(s, owners) ==
  [s EXCEPT !.owners = Drop(@, {key \in DOMAIN @ : @[key] \in owners})]

RemoveState(s, c) ==
  LET Of(kind) == {i \in Range(s.owners) : s.info[i].kind = kind /\ s.info[i].client = c}
      Ids(owners) == UNION {IdsOf(s, i) : i \in owners}
      Broken(i) == Cardinality(IdsOf(s, i)) > 1 \/ ~(IdsOf(s, i) \subseteq DOMAIN s.state)
      Removed(lock, open, broken) ==
        IF broken = {}
        THEN Result(Forgotten(Freed(s, Ids(lock), Ids(open)), lock \cup open), "OK", None)
        ELSE Result(Freed(s, Ids({i \in lock : \A j \in broken : i < j}), {}), "FAULT", None)
  IN Removed(Of("lock"), Of("open"), {i \in Of("lock") : Broken(i)})

(* check_seqid: "new" for a request to carry out, "replay" for one whose      *)
(* answer is cached, or an error                                              *)
CheckSeqid(s, i, seq, confirming) ==
  LET o == s.info[i]
      LastSet(n) == Result([s EXCEPT !.info[i].last = n % SeqidMod], "new", None)
  IN IF o.last = None
     THEN IF o.kind = "open" THEN LastSet(seq - 1) ELSE Result(s, "new", None)
     ELSE IF o.kind = "lock" /\ ~o.confirmed THEN LastSet(-1)
     ELSE IF o.last = seq
     THEN Result(s, IF o.cached = None THEN "new" ELSE "replay", None)
     ELSE IF ~o.confirmed /\ ~confirming THEN Result(s, "BAD_STATEID", None)
     ELSE Result(s, IF seq = (o.last + 1) % SeqidMod THEN "new" ELSE "BAD_SEQID", None)

\* What is compared of a request, which is all of it but the copy it is
Body(req) == [req EXCEPT !.call = 0]

\* Mutant: the answer is not cached.
AdvanceSeqidUncached(s, i, req, err, sid) ==
  [s EXCEPT !.info[i].last = IF err \in NotCounted THEN @
                             ELSE IF @ = None THEN 0 ELSE (@ + 1) % SeqidMod]

\* Mutant: an error leaves the seqid where it was.
AdvanceSeqidIfOk(s, i, req, err, sid) ==
  [s EXCEPT !.info[i].cached = [req |-> Body(req), err |-> err, sid |-> sid],
            !.info[i].last = IF err # "OK" THEN @
                             ELSE IF @ = None THEN 0 ELSE (@ + 1) % SeqidMod]

AdvanceSeqid(s, i, req, err, sid) ==
  [s EXCEPT !.info[i].cached = [req |-> Body(req), err |-> err, sid |-> sid],
            !.info[i].last = IF err \in NotCounted THEN @
                             ELSE IF @ = None THEN 0 ELSE (@ + 1) % SeqidMod]

\* The same, if there is such an owner
AdvanceOwner(s, key, req, err, sid) ==
  IF key \in DOMAIN s.owners THEN AdvanceSeqid(s, s.owners[key], req, err, sid) ELSE s

\* check_replay
Replayed(s, i, req) ==
  LET cached == s.info[i].cached
  IN IF cached.req = Body(req) THEN Result(s, cached.err, cached.sid)
     ELSE Result(s, "BAD_SEQID", None)

(* The frame of the operations that take a seqid: check it, answer a replay,  *)
(* carry the operation out and keep its answer, an error's too.               *)
Sequenced(s, i, req, confirming, Do(_), Keep(_, _, _)) ==
  LET Kept(r) ==
        IF r.err = "FAULT" THEN r ELSE [r EXCEPT !.s = Keep(r.s, r.err, r.sid)]
      Answered(checked) ==
        CASE checked.err = "new" -> Kept(Do(checked.s))
          [] checked.err = "replay" -> Replayed(checked.s, i, req)
          [] OTHER -> Kept(checked)
  IN Answered(CheckSeqid(s, i, req.seq, confirming))

ByStateid(s, req, confirming, Do(_)) ==
  IF req.sid.id \notin DOMAIN s.state THEN Result(s, "BAD_STATEID", None)
  ELSE LET i == s.state[req.sid.id].owner
       IN Sequenced(s, i, req, confirming, Do,
                    LAMBDA t, err, sid : AdvanceSeqid(t, i, req, err, sid))

\* Do is carried out for the stateid that came with the request, if it is current
Checked(s, sid, Do(_)) ==
  Then(Result(s, StateIdError(s, sid), None), Do)

-----------------------------------------------------------------------------
(* The operations                                                             *)

Entry(v, c, n) == [v |-> v, c |-> c, s |-> n]

\* SETCLIENTID: the same incarnation keeps its clientid
SetClientId(s, req) ==
  LET x == req.x
      n == s.given[x] + 1
      known == s.confirmed[x] # None /\ s.confirmed[x].v = req.v
      entry == Entry(req.v, IF known THEN s.confirmed[x].c ELSE <<x, n>>, n)
  IN Result([s EXCEPT !.given[x] = n, !.unconfirmed[x] = entry], "OK", entry)

\* reset_seqid
ResetSeqid(s, c) ==
  [s EXCEPT !.info = [i \in DOMAIN @ |->
     IF i \in Range(s.owners) /\ @[i].client = c THEN [@[i] EXCEPT !.last = None] ELSE @[i]]]

(* SETCLIENTID_CONFIRM: a new clientid, for which what an earlier one left is *)
(* removed; a copy of a request that was answered; or an update, where the    *)
(* verifier may be that of the confirmed entry.                               *)
SetClientIdConfirm(s, req) ==
  LET x == req.c[1]
      entry == IF IsConfirmed(s, req.c) THEN s.confirmed[x] ELSE None
      entry2 == IF IsUnconfirmed(s, req.c) THEN s.unconfirmed[x] ELSE None
      removed == IF entry = None /\ s.confirmed[x] # None
                 THEN RemoveState(s, s.confirmed[x].c) ELSE Result(s, "OK", None)
      Listed(t) == [t EXCEPT !.confirmed[x] = entry2, !.unconfirmed[x] = None,
                             !.expired = @ \ {<<x, n>> : n \in 1..s.given[x]}]
  IN IF \A e \in {entry, entry2} \ {None} : e.s # req.s
     THEN Result(s, "STALE_CLIENTID", None)
     ELSE IF entry2 = None THEN Result(s, "OK", None)
     ELSE Then(removed, LAMBDA t : Result(ResetSeqid(Listed(t), req.c), "OK", None))

Renew(s, req) ==
  IF IsConfirmed(s, req.c) THEN Result([s EXCEPT !.expired = @ \ {req.c}], "OK", None)
  ELSE Result(s, "EXPIRED", None)

(* NFSServerState.open.  An open that its owner has not confirmed gives way,  *)
(* but its share is looked for in the file that is opened now.                *)
GivenWay(s, i, req, pending) ==
  IF pending = {} THEN s
  ELSE [RemoveShares(s, req.file, pending) EXCEPT
          !.info[i].files = <<>>, !.state = Drop(@, pending),
          !.known = @ \cup {<<"pending", id>> :
                              id \in {n \in pending : s.state[n].file # req.file}}]

OpenFile(s, i, req) ==
  LET pending == IF s.info[i].confirmed THEN {} ELSE IdsOf(s, i)
      Share(t) ==
        LET id == t.info[i].files[req.file]
        IN Then(AddShares(t, req.file, id, req.share), LAMBDA u : StateId(u, id))
  IN IF pending # {} /\ s.info[i].lockowners # <<>> THEN Result(s, "FAULT", None)
     ELSE Share(WithId(GivenWay(s, i, req, pending), i, req.file))

Open(s, req) ==
  LET key == <<"open", req.c>>
      Fail(err) == Result(AdvanceOwner(s, key, req, err, None), err, None)
      ByOwner(t, i) == Sequenced(t, i, req, FALSE, LAMBDA u : OpenFile(u, i, req),
                         LAMBDA u, err, sid : AdvanceSeqid(u, i, req, err, sid))
      Owned(t) == ByOwner(t, t.owners[key])
  IN IF IsConfirmed(s, req.c) THEN Owned(WithOwner(s, key))
     ELSE Fail(IF IsUnconfirmed(s, req.c) THEN "STALE_CLIENTID" ELSE "BADOWNER")

OpenConfirm(s, req) ==
  LET Confirm(t) ==
        LET i == t.state[req.sid.id].owner
        IN IF t.info[i].confirmed THEN Result(t, "BAD_STATEID", None)
           ELSE StateId([t EXCEPT !.info[i].confirmed = TRUE], req.sid.id)
  IN ByStateid(s, req, TRUE, LAMBDA t : Checked(t, req.sid, Confirm))

OpenDowngrade(s, req) ==
  ByStateid(s, req, FALSE, LAMBDA t : Checked(t, req.sid, LAMBDA u :
    Then(DownShares(u, req.file, req.sid.id, req.share), LAMBDA v : StateId(v, req.sid.id))))

(* CLOSE takes lock owners out of the list it goes through: the one that      *)
(* follows one that was taken out is skipped.  One that has an id of another  *)
(* file too, as LOCKT gives it, is taken out all the same: a later CLOSE of   *)
(* that file does not find it.                                                *)
Visited(s, f, list) ==
  LET seen[j \in 0..Len(list)] ==
        j > 0 /\ ~(seen[j - 1] /\ f \in DOMAIN s.info[list[j - 1]].files)
  IN {list[j] : j \in {k \in DOMAIN list : seen[k] /\ f \in DOMAIN s.info[list[k]].files}}

Closed(s, id, i, f, freed) ==
  LET Ids(owners) == {s.info[j].files[f] : j \in {k \in owners : f \in DOMAIN s.info[k].files}}
      skipped == Ids(Range(s.info[i].lockowners) \ freed)
      dropped == UNION {IdsOf(s, j) : j \in freed} \ Ids(freed)
      Without(j) == [s.info[j] EXCEPT !.files = Drop(@, {f}), !.confirmed = FALSE]
      info == [j \in DOMAIN s.info |-> IF j \in freed THEN Without(j) ELSE s.info[j]]
  IN [RemoveShares(RemoveLocks(s, f, Ids(freed)), f, {id}) EXCEPT
        !.info = [info EXCEPT ![i].files = Drop(@, {f}),
                              ![i].lockowners = SelectSeq(@, LAMBDA j : j \notin freed)],
        !.state = [Drop(@, Ids(freed)) EXCEPT ![id].closed = TRUE],
        !.known = @ \cup {<<"skipped", l>> : l \in skipped}
                    \cup {<<"dropped", l>> : l \in dropped}]
CloseFile(s, id) ==
  LET i == s.state[id].owner
      f == s.state[id].file
  IN Closed(s, id, i, f, Visited(s, f, s.info[i].lockowners))

Close(s, req) ==
  LET id == req.sid.id
      Do(t) == IF t.state[id].closed THEN Result(t, "BAD_STATEID", None)
               ELSE IF ~Renewable(t, id) THEN Result(CloseFile(t, id), "FAULT", None)
               ELSE Result(Renewed(CloseFile(t, id), id), "OK", None)
  IN ByStateid(s, req, FALSE, LAMBDA t : Checked(t, req.sid, Do))

\* Mutant: only write locks are in the way.
ConflictingWithWrites(s, f, ids, type, r) ==
  {id \in DOMAIN s.locks[f] \ ids : \E n \in DOMAIN s.locks[f][id] :
     Overlaps(s.locks[f][id][n], r) /\ s.locks[f][id][n].type = "write"}

(* __testlock: the first lock in the way, of an owner not in ids.  When the   *)
(* lease of its client has run out, the client's state is removed and no      *)
(* other lock is looked at.  `for` is history: who goes on.                   *)
Conflicting(s, f, ids, type, r) ==
  LET InTheWay(lock) == Overlaps(lock, r) /\ "write" \in {type, lock.type}
  IN {id \in DOMAIN s.locks[f] \ ids :
        \E n \in DOMAIN s.locks[f][id] : InTheWay(s.locks[f][id][n])}

TestLock(s, f, ids, type, r, for) ==
  LET Ignoring(t, deny) ==
        IF deny \cap DOMAIN t.locks[f] = {} THEN t
        ELSE [t EXCEPT !.known = @ \cup {<<"expiry", n>> : n \in for}]
      Expired(removed, deny) == [removed EXCEPT !.s = Ignoring(@, deny)]
      Denied(deny, id) ==
        IF ~Renewable(s, id) THEN Result(s, "FAULT", None)
        ELSE IF ClientOf(s, id) \notin s.expired THEN Result(s, "DENIED", None)
        ELSE Expired(RemoveState(s, ClientOf(s, id)), deny)
      Tested(deny) == IF deny = {} THEN Result(s, "OK", None) ELSE Denied(deny, Min(deny))
  IN Tested(Conflicting(s, f, ids, type, r))

\* NFSServerState.lock
LockFile(s, i, id, req) ==
  LET Locked(t) ==
        IF id \in DOMAIN t.state THEN StateId([t EXCEPT !.info[i].confirmed = TRUE], id)
        ELSE Result([t EXCEPT !.known = @ \cup {<<"expiry", id>>}], "FAULT", None)
  IN Then(TestLock(s, req.file, {id}, req.type, req.range, {id}),
          LAMBDA t : Locked(AddLock(t, req.file, id, req.type, req.range)))

\* new_lockowner, for a lock owner that is none of another open
NewLockOwner(s, key, openid) ==
  LET opener == s.state[openid].owner
      Leave(t, j) ==
        IF t.info[j].openid = None THEN t
        ELSE [t EXCEPT !.info[t.state[t.info[j].openid].owner].lockowners =
                SelectSeq(@, LAMBDA k : k # j)]
      Join(t, j) ==
        [t EXCEPT !.info[j] = [NewOwner("lock", key[2]) EXCEPT !.openid = openid],
                  !.info[opener].lockowners = Append(@, j)]
      Added(t, j) == IF t.info[j].confirmed THEN Result(t, "BAD_STATEID", None)
                     ELSE Result(Join(Leave(t, j), j), "OK", None)
      Owned(t) == Added(t, t.owners[key])
  IN Owned(WithOwner(s, key))

(* LOCK that brings its lock owner along.  The open owner's seqid counts; of  *)
(* the answer it keeps the status alone.                                      *)
LockNew(s, req) ==
  LET key == <<"lock", req.c, req.owner>>
      i == s.state[req.sid.id].owner
      LockBy(t, j) == LockFile(t, j, t.info[j].files[req.file], req)
      WithStateId(t) == LockBy(WithId(t, t.owners[key], req.file), t.owners[key])
      Do(t) == Then(NewLockOwner(t, key, req.sid.id), WithStateId)
      Keep(t, err, sid) ==
        AdvanceOwner(AdvanceSeqid(t, i, req, err, None), key, req, err, sid)
  IN IF req.sid.id \in DOMAIN s.state THEN Sequenced(s, i, req, FALSE, Do, Keep)
     ELSE Result(AdvanceOwner(s, key, req, "BAD_STATEID", None), "BAD_STATEID", None)

Lock(s, req) ==
  ByStateid(s, req, FALSE, LAMBDA t :
    Checked(t, req.sid, LAMBDA u : LockFile(u, u.state[req.sid.id].owner, req.sid.id, req)))

LockU(s, req) ==
  ByStateid(s, req, FALSE, LAMBDA t :
    Checked(t, req.sid, LAMBDA u :
      StateId(Unlock(u, req.file, req.sid.id, req.range), req.sid.id)))

\* LOCKT makes an owner and an id for whom it tests
LockT(s, req) ==
  LET key == <<"lock", req.c, req.owner>>
      Test(t, i) == TestLock(t, req.file, {t.info[i].files[req.file]}, req.type, req.range, {})
      Owned(t) == Test(WithId(t, t.owners[key], req.file), t.owners[key])
  IN IF \A k \in DOMAIN s.owners : k[2] # req.c THEN Result(s, "STALE_CLIENTID", None)
     ELSE Owned(WithOwner(s, key))

(* check_read and check_write.  A lock stateid counts for itself, an open     *)
(* stateid for all its locks.                                                 *)
Io(s, req) ==
  LET mode == IF req.type = "write" THEN "W" ELSE "R"
      o == s.info[s.state[req.sid.id].owner]
      openid == IF o.kind = "lock" THEN o.openid ELSE req.sid.id
      ids == IF o.kind = "lock" THEN {req.sid.id}
             ELSE {s.info[j].files[req.file] : j \in {k \in Range(o.lockowners) :
                                                        s.info[k].openid = openid}}
      t == Renewed(s, req.sid.id)
      err == StateIdError(s, req.sid)
  IN IF err # "OK" THEN Result(s, err, None)
     ELSE IF ~Renewable(s, req.sid.id) THEN Result(s, "FAULT", None)
     ELSE IF openid \notin DOMAIN s.shares[req.file] THEN Result(t, "BAD_STATEID", None)
     ELSE IF mode \notin UNION s.shares[req.file][openid].access
     THEN Result(t, "OPENMODE", None)
     ELSE IF mode \in Deny(s, req.file) THEN Result(t, "SHARE_DENIED", None)
     ELSE TestLock(t, req.file, ids, req.type, req.range, {})

Serve(s, req) ==
  CASE req.op = "SETCLIENTID" -> SetClientId(s, req)
    [] req.op = "SETCLIENTID_CONFIRM" -> SetClientIdConfirm(s, req)
    [] req.op = "RENEW" -> Renew(s, req)
    [] req.op = "OPEN" -> Open(s, req)
    [] req.op = "OPEN_CONFIRM" -> OpenConfirm(s, req)
    [] req.op = "OPEN_DOWNGRADE" -> OpenDowngrade(s, req)
    [] req.op = "CLOSE" -> Close(s, req)
    [] req.op = "LOCK_NEW" -> LockNew(s, req)
    [] req.op = "LOCK" -> Lock(s, req)
    [] req.op = "LOCKU" -> LockU(s, req)
    [] req.op = "LOCKT" -> LockT(s, req)
    [] req.op = "IO" -> Io(s, req)
=============================================================================
