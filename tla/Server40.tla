------------------------------ MODULE Server40 ------------------------------
(* The NFSv4.0 server, ServerState40, with its clients and an unreliable      *)
(* network: replies get lost, the client sends the request again, and a copy  *)
(* that was delayed arrives when nobody waits for it.  Leases run out and     *)
(* clients reboot.                                                            *)
(*                                                                           *)
(* A client keeps the protocol.  It has one open owner, opens files that      *)
(* exist, and has one request outstanding.  Scenarios bound what happens: who *)
(* has a file open at the start, which requests follow, for which files,      *)
(* shares and ranges of bytes, and the most calls (requests of all clients),  *)
(* faults (replies lost and copies delayed), reboots and expired leases.      *)
EXTENDS ServerState40

CONSTANTS
  LockOwners,  \* names of lock owners of every client
  FirstSeqid,  \* what an open owner starts with
  Scenarios    \* [open, requests, files, shares, ranges, max], see above

ASSUME FirstSeqidAssumption == FirstSeqid \in 0..SeqidMod - 1

VARIABLES
  server, \* NFSServerState and the NFSFileState of every file
  node,   \* the clients
  ledger, \* history: requests sent, carried out since the last reset, and twice
  scenario,
  spent   \* what was used of its bounds

vars == <<server, node, ledger, scenario, spent>>

-----------------------------------------------------------------------------
(* The clients and the network (external).  A client has its clientid, or the *)
(* verifier it has yet to confirm, the seqid of its open owner, the stateids  *)
(* of its files, and of its lock owners the stateid, file and seqid.          *)

NewNode(v) ==
  [v |-> v, c |-> None, s |-> None, seq |-> FirstSeqid, confirmed |-> FALSE, opens |-> <<>>,
   locks |-> <<>>, pending |-> None, stuck |-> FALSE]

Request(x, op) == [call |-> 0, x |-> x, op |-> op]
OpenRequest(x, n, f, share) ==
  Request(x, "OPEN") @@ [c |-> n.c, seq |-> n.seq, file |-> f, share |-> share]
\* A request of the open owner for a file that it has open
FileRequest(x, n, op, f) ==
  Request(x, op) @@ [file |-> f, sid |-> n.opens[f], seq |-> n.seq]
\* A request of the lock owner l with its own stateid
LockRequest(x, n, op, l) ==
  Request(x, op) @@ [owner |-> l, file |-> n.locks[l].file, sid |-> n.locks[l].sid,
                     seq |-> n.locks[l].seq]

OfOpenOwner == {"OPEN", "OPEN_CONFIRM", "OPEN_DOWNGRADE", "CLOSE", "LOCK_NEW"}
OfLockOwner == {"LOCK", "LOCKU"}

\* After these answers the client cannot go on but by a reboot
Useless(req, r) ==
  \/ r.err \in NotCounted \cup {"FAULT", "OLD_STATEID", "BADOWNER", "EXPIRED"}
  \/ r.err = "OK" /\ req.op = "LOCK_NEW" /\ r.sid = None

\* What a client makes of the answer r to req
Learned(n, req, r) ==
  LET free == [n EXCEPT !.pending = None]
      next == IF req.op \in OfOpenOwner THEN [free EXCEPT !.seq = (@ + 1) % SeqidMod]
              ELSE IF req.op \in OfLockOwner
              THEN [free EXCEPT !.locks[req.owner].seq = (@ + 1) % SeqidMod]
              ELSE free
      others == {l \in DOMAIN n.locks : n.locks[l].file # req.file}
  IN IF Useless(req, r) THEN [free EXCEPT !.stuck = TRUE]
     ELSE IF r.err # "OK" THEN next
     ELSE CASE req.op = "SETCLIENTID" -> [free EXCEPT !.s = r.sid]
            [] req.op = "SETCLIENTID_CONFIRM" -> [free EXCEPT !.c = req.c, !.s = None]
            [] req.op \in {"OPEN", "OPEN_CONFIRM", "OPEN_DOWNGRADE"} ->
                 [next EXCEPT !.opens = (req.file :> r.sid) @@ @,
                              !.confirmed = @ \/ req.op = "OPEN_CONFIRM"]
            [] req.op = "CLOSE" ->
                 [next EXCEPT !.opens = Drop(@, {req.file}), !.locks = Restrict(@, others)]
            [] req.op = "LOCK_NEW" ->
                 [next EXCEPT !.locks = (req.owner :> [sid |-> r.sid, file |-> req.file,
                                                       seq |-> 1]) @@ @]
            [] req.op \in OfLockOwner -> [next EXCEPT !.locks[req.owner].sid = r.sid]
            [] OTHER -> free

-----------------------------------------------------------------------------
(* Every client has done SETCLIENTID and SETCLIENTID_CONFIRM; those of the    *)
(* start, pairs of client and file, have the file open, and confirmed.        *)

AfterCall(st, req) ==
  LET r == Serve(st.s, req) IN [s |-> r.s, n |-> [st.n EXCEPT ![req.x] = Learned(@, req, r)]]

Started(start, share) ==
  LET Opened(st, x, f) == AfterCall(st, OpenRequest(x, st.n[x], f, share))
      Confirmed(st, x, f) ==
        IF st.n[x].confirmed THEN st
        ELSE AfterCall(st, FileRequest(x, st.n[x], "OPEN_CONFIRM", f))
  IN FoldLeft(LAMBDA st, o : Confirmed(Opened(st, o[1], o[2]), o[1], o[2]),
       [s |-> [EmptyState EXCEPT !.confirmed = [x \in Clients |-> Entry(0, <<x, 1>>, 1)],
                                 !.given = [x \in Clients |-> 1]],
        n |-> [x \in Clients |-> [NewNode(0) EXCEPT !.c = <<x, 1>>]]],
       start)

Init ==
  /\ scenario \in Scenarios
  /\ \E share \in scenario.shares :
       LET st == Started(scenario.open, share)
       IN server = st.s /\ node = st.n
  /\ ledger = [sent |-> {}, done |-> {}, twice |-> {}, reset |-> {}]
  /\ spent = [calls |-> 0, faults |-> 0, boots |-> 0, expiries |-> 0]

-----------------------------------------------------------------------------
Spend(what) == spent[what] < scenario.max[what] /\ spent' = [spent EXCEPT ![what] = @ + 1]

(* The server handles req, with the result r.  What takes a seqid counts as   *)
(* carried out when a stateid changed.                                        *)
Served(req, r) ==
  LET done == IF /\ r.err = "OK" /\ req.op \in OfOpenOwner \cup OfLockOwner
                 /\ r.s.state # server.state
              THEN {req} ELSE {}
      reset == {x \in Clients :
                  \/ r.s.confirmed[x] # server.confirmed[x]
                  \/ \E key \in DOMAIN server.owners \ DOMAIN r.s.owners : key[2][1] = x}
  IN /\ server' = r.s
     /\ ledger' = [sent |-> ledger.sent \cup {req},
                   done |-> {q \in ledger.done : q.x \notin reset} \cup done,
                   twice |-> ledger.twice \cup (ledger.done \cap done),
                   reset |-> ledger.reset \cup reset]

\* A client sends a request, and has the answer or has not
Send(x, body) ==
  /\ ~node[x].stuck /\ node[x].pending = None
  /\ body.op \in scenario.requests /\ spent.calls < scenario.max.calls
  /\ \E req \in {[body EXCEPT !.call = spent.calls + 1]} : \E r \in {Serve(server, req)} :
       /\ Served(req, r)
       /\ \/ /\ node' = [node EXCEPT ![x] = Learned(@, req, r)]
             /\ spent' = [spent EXCEPT !.calls = @ + 1]
          \/ /\ spent.faults < scenario.max.faults
             /\ node' = [node EXCEPT ![x].pending = req]
             /\ spent' = [spent EXCEPT !.calls = @ + 1, !.faults = @ + 1]
  /\ UNCHANGED scenario

\* The client sends it again
Resend(x) ==
  \E req \in {node[x].pending} \ {None} : \E r \in {Serve(server, req)} :
     /\ Served(req, r)
     /\ node' = [node EXCEPT ![x] = Learned(@, req, r)]
     /\ UNCHANGED <<scenario, spent>>

\* A copy of a request arrives late
Stray ==
  /\ Spend("faults")
  /\ \E req \in {q \in ledger.sent : node[q.x].pending # q} :
       \E r \in {Serve(server, req)} : Served(req, r)
  /\ UNCHANGED <<node, scenario>>

\* A lease runs out
Expire(x) ==
  /\ Spend("expiries")
  /\ server.confirmed[x] # None
  /\ server' = [server EXCEPT !.expired = @ \cup {server.confirmed[x].c}]
  /\ UNCHANGED <<node, ledger, scenario>>

\* A client starts anew, with another verifier
Reboot(x) ==
  /\ Spend("boots")
  /\ node' = [node EXCEPT ![x] = NewNode(@.v + 1)]
  /\ UNCHANGED <<server, ledger, scenario>>

-----------------------------------------------------------------------------
(* What a client may send                                                     *)

Known(x) == node[x].c # None
OpenFiles(x) == IF node[x].confirmed THEN DOMAIN node[x].opens ELSE {}
Asks == [type : {"read", "write"}, range : scenario.ranges]

ClientRequests(x) ==
  (IF node[x].s = None
   THEN {Request(x, "SETCLIENTID") @@ [v |-> node[x].v]}
   ELSE {Request(x, "SETCLIENTID_CONFIRM") @@ [c |-> node[x].s.c, s |-> node[x].s.s]})
  \cup (IF Known(x) THEN {Request(x, "RENEW") @@ [c |-> node[x].c]} ELSE {})
OpenRequests(x) ==
  IF Known(x)
  THEN {OpenRequest(x, node[x], f, share) : f \in scenario.files, share \in scenario.shares}
  ELSE {}
OpenConfirmRequests(x) ==
  IF node[x].confirmed THEN {}
  ELSE {FileRequest(x, node[x], "OPEN_CONFIRM", f) : f \in DOMAIN node[x].opens}
FileRequests(x) ==
  {FileRequest(x, node[x], "CLOSE", f) : f \in OpenFiles(x)}
  \cup {FileRequest(x, node[x], "OPEN_DOWNGRADE", f) @@ [share |-> share] :
          f \in OpenFiles(x), share \in scenario.shares}
  \cup {FileRequest(x, node[x], "LOCK_NEW", f) @@ [c |-> node[x].c, owner |-> l] @@ ask :
          f \in OpenFiles(x), l \in LockOwners \ DOMAIN node[x].locks, ask \in Asks}
LockRequests(x) ==
  {LockRequest(x, node[x], "LOCK", l) @@ ask : l \in DOMAIN node[x].locks, ask \in Asks}
  \cup {LockRequest(x, node[x], "LOCKU", l) @@ [range |-> r] :
          l \in DOMAIN node[x].locks, r \in scenario.ranges}
LockTRequests(x) ==
  IF Known(x)
  THEN {Request(x, "LOCKT") @@ [c |-> node[x].c, owner |-> l, file |-> f] @@ ask :
          f \in scenario.files, l \in LockOwners, ask \in Asks}
  ELSE {}
\* READ and WRITE, with the stateid of an open or of a lock owner
IoRequests(x) ==
  {FileRequest(x, node[x], "IO", f) @@ ask : f \in DOMAIN node[x].opens, ask \in Asks}
  \cup {LockRequest(x, node[x], "IO", l) @@ ask : l \in DOMAIN node[x].locks, ask \in Asks}

Next ==
  \/ \E x \in Clients :
       \/ \E body \in ClientRequests(x) \cup OpenRequests(x) \cup OpenConfirmRequests(x)
                        \cup FileRequests(x) \cup LockRequests(x) \cup LockTRequests(x)
                        \cup IoRequests(x) : Send(x, body)
       \/ Resend(x) \/ Expire(x) \/ Reboot(x)
  \/ Stray

Spec == Init /\ [][Next]_vars

-----------------------------------------------------------------------------
(* Properties                                                                 *)

LocksOf(f) == server.locks[f]
Live(id) == id \in DOMAIN server.state /\ ~server.state[id].closed
Is(reason, id) == <<reason, id>> \in server.known
HasLocks(f, id) == id \in DOMAIN LocksOf(f) /\ LocksOf(f)[id] # <<>>

(* The list of an owner's locks, which is split and joined at its ends, says  *)
(* of each byte what LOCK and LOCKU have made of it; it is sorted, its locks  *)
(* are disjoint and none could be joined to the next (nfs4state.py:844-883).  *)
LocksAreBytes ==
  \A f \in Files : \A id \in DOMAIN LocksOf(f) :
    LET list == LocksOf(f)[id]
        Type(b) == {list[i].type : i \in {j \in DOMAIN list : Overlaps(list[j], <<b, b>>)}}
    IN /\ \A b \in Bytes : Type(b) = {server.held[f][id][b]} \ {"none"}
       /\ \A i, j \in DOMAIN list : i < j =>
            \/ list[i].end + 1 < list[j].start
            \/ list[i].end + 1 = list[j].start /\ list[i].type # list[j].type

(* Locks of different owners never conflict, but for one that was granted     *)
(* while the lease of another owner's client was found to have run out: then  *)
(* __testlock looks at no other lock (nfs4state.py:552-564).                  *)
LocksCompatible ==
  \A f \in Files : \A a, b \in DOMAIN LocksOf(f) :
    a # b /\ ~Is("expiry", a) /\ ~Is("expiry", b) =>
      \A i \in DOMAIN LocksOf(f)[a], j \in DOMAIN LocksOf(f)[b] :
        LET p == LocksOf(f)[a][i] q == LocksOf(f)[b][j]
        IN Overlaps(p, <<q.start, q.end>>) => p.type = "read" /\ q.type = "read"

\* The lock owner of id has its locks through an open that is still there
UnderAnOpen(id) ==
  /\ id \in DOMAIN server.state
  /\ LET o == server.info[server.state[id].owner]
     IN Live(o.openid) \/ o.client[1] \in ledger.reset

\* Exempt are the lock owners that CLOSE skips, those that it takes out of the
\* list with locks of another file, and the locks of a client whose own state
\* was removed while it asked for them or whose owners were reset.
LocksUnderOpens ==
  \A f \in Files : \A id \in DOMAIN LocksOf(f) :
    HasLocks(f, id) =>
      UnderAnOpen(id) \/ \E reason \in {"skipped", "dropped", "expiry"} : Is(reason, id)

(* CLOSE releases the locks of all lock owners of the open                    *)
(* (servertests/st_lock.py:24, nfs4state.py:356).                             *)
CloseReleasesLocks ==
  \A f \in Files : \A id \in DOMAIN LocksOf(f) :
    HasLocks(f, id) /\ ~Is("expiry", id) => UnderAnOpen(id)

\* Exempt are the opens that gave way to one of another file.
SharesUnderOpens ==
  \A f \in Files : \A id \in DOMAIN server.shares[f] :
    \/ Live(id) /\ server.state[id].file = f
               /\ server.info[server.state[id].owner].files[f] = id
    \/ Is("pending", id)

(* Neither a lock nor a share of a file is held for nobody who has it open.   *)
(* CLOSE, the removal of a client's state and the reuse of a lock owner leave *)
(* no locks behind (nfs4state.py:356-366, :501-525, :655-678); through OPENs  *)
(* that fail, give way or are repeated, the shares of a file are those of its *)
(* live stateids (nfs4state.py:319-343).                                      *)
StateUnderOpens == LocksUnderOpens /\ SharesUnderOpens

(* However often a request arrives, and whenever, it is carried out once,     *)
(* until SETCLIENTID_CONFIRM resets the seqids (nfs4state.py:237-305).        *)
AtMostOnce == ledger.twice = {}

\* The owner that is found under key expects seq
Expects(key, seq) ==
  key \in DOMAIN server.owners =>
    LET o == server.info[server.owners[key]] IN o.last = None \/ (o.last + 1) % SeqidMod = seq

(* A client that waits for no answer and the server agree on the next seqid   *)
(* of each owner, whatever got lost, came late or was refused, until          *)
(* SETCLIENTID_CONFIRM resets the seqids (nfs4state.py:224-235), or CLOSE of  *)
(* one file makes a lock owner unconfirmed that has another (:363).           *)
SeqidsInStep ==
  \A x \in Clients \ ledger.reset :
    node[x].pending = None /\ ~node[x].stuck /\ Known(x) =>
      /\ Expects(<<"open", node[x].c>>, node[x].seq)
      /\ \A l \in DOMAIN node[x].locks : ~Is("dropped", node[x].locks[l].sid.id) =>
           Expects(<<"lock", node[x].c, l>>, node[x].locks[l].seq)
=============================================================================
