--------------------------- MODULE ClientSessions ---------------------------
(* Clients and sessions of the 4.1 server, src/nfs4.1/nfs4server.py: class    *)
(* ClientList, ClientRecord and NFS4Server.sessions, and the operations that  *)
(* change them: EXCHANGE_ID with its nine cases, client_reboot,               *)
(* CREATE_SESSION, DESTROY_SESSION, a SEQUENCE for which OpsConfigServer      *)
(* injects BADSESSION or DEADSESSION (error_set_session), and the reboot that *)
(* a write to the config file system starts.                                  *)
(*                                                                           *)
(* Each worker thread carries out one operation at a time.  Only EXCHANGE_ID  *)
(* and wipe() take clients.lock: the others read and change the tables        *)
(* without it, and the steps of a handler here are what other threads can see *)
(* in between.  An exception that is no NFS4Error ends the operation with     *)
(* NFS4ERR_SERVERFAULT (op_compound) and leaves the tables as they are.       *)
(*                                                                           *)
(* All clients use SP4_NONE.  A workload says which threads and principals    *)
(* there are, whether the server is rebooted, and bounds the ClientRecords    *)
(* and the SessionRecords ever created: maxClients and maxSessions, which     *)
(* bounds csa_sequence too.                                                   *)
EXTENDS Naturals, Sequences, SequencesExt, FiniteSets, Functions

CONSTANTS
  Threads,    \* worker threads
  Owners,     \* client owners, co_ownerid
  Verifiers,  \* one for each incarnation of a client, co_verifier
  Principals, \* the principals of requests
  None,       \* no thread, no client
  Workloads   \* [threads, principals, reboots, maxClients, maxSessions]

ASSUME ClientAssumption ==
  /\ \A w \in Workloads :
       /\ w.threads \subseteq Threads /\ IsFiniteSet(w.threads)
       /\ w.principals \subseteq Principals
       /\ w.reboots \in BOOLEAN /\ w.maxClients \in Nat /\ w.maxSessions \in Nat
  /\ None \notin Threads /\ None \notin Nat

VARIABLES
  workload,
  record,   \* the ClientRecords, by clientid: add() numbers them in order
  listed,   \* the clientids that are keys of ClientList._data
  byOwner,  \* ClientList._data for the keys that are owners
  session,  \* the SessionRecords, in the order of their creation
  sessions, \* NFS4Server.sessions: sessionid -> index in session
  lock,     \* the thread that holds clients.lock
  thread,   \* the worker threads
  answer    \* what the last step answered, if it ended an operation

tables == <<record, listed, byOwner, session, sessions>>
vars == <<workload, record, listed, byOwner, session, sessions, lock, thread, answer>>

ClientIds == 1..Len(record)
Idle == [pc |-> "idle"]
IsIdle(t) == thread[t].pc = "idle"
Quiet == \A t \in Threads : IsIdle(t)

\* The thread goes on with its operation, or ends the operation op
Continue(t, state) ==
  /\ thread' = [thread EXCEPT ![t] = state]
  /\ answer' = None
Answer(t, op, status) ==
  /\ thread' = [thread EXCEPT ![t] = Idle]
  /\ answer' = [op |-> op, status |-> status]
Finish(t, status) == Answer(t, thread[t].op, status)
At(t, pc) == [thread[t] EXCEPT !.pc = pc]

\* ClientRecord: session_replay is its seqid; its replay cache is in ReplayCache
NewRecord(owner, verf, principal) ==
  [owner |-> owner, verifier |-> verf, principal |-> principal,
   confirmed |-> FALSE, freeze |-> FALSE, seqid |-> 0, sessions |-> <<>>]

Init ==
  /\ workload \in Workloads
  /\ record = <<>> /\ listed = {} /\ byOwner = [o \in Owners |-> None]
  /\ session = <<>> /\ sessions = [sid \in {} |-> None]
  /\ lock = None
  /\ thread = [t \in Threads |-> Idle]
  /\ answer = None

-----------------------------------------------------------------------------
(* ClientList.  remove() and add() run with clients.lock held.                *)

\* add, after remove of the client old unless old is None
Replacement(old, new) ==
  LET id == Len(record) + 1
  IN /\ record' = Append(IF old = None THEN record
                         ELSE [record EXCEPT ![old].freeze = TRUE], new)
     /\ listed' = (listed \ {old}) \cup {id}
     /\ byOwner' = [byOwner EXCEPT ![new.owner] = id]

-----------------------------------------------------------------------------
(* EXCHANGE_ID                                                                *)

\* A request is read off the list while the lock is held by no other thread.
MayExchangeId(t) == IsIdle(t) /\ lock = None
RoomForClient ==
  Len(record) + Cardinality({t \in Threads : ~IsIdle(t) /\ thread[t].op = "EXCHANGE_ID"})
    < workload.maxClients

\* self.clients[ownerid] is a confirmed client
Confirmed(owner) == byOwner[owner] # None /\ record[byOwner[owner]].confirmed

AnswerExchangeId(t, status) == Answer(t, "EXCHANGE_ID", status)

\* Cases 1 and 4: no client, or one that was never confirmed, is replaced
ExchangeIdNew(t, owner, verf, principal) ==
  /\ MayExchangeId(t) /\ RoomForClient
  /\ ~Confirmed(owner)
  /\ Replacement(byOwner[owner], NewRecord(owner, verf, principal))
  /\ AnswerExchangeId(t, "OK")
  /\ UNCHANGED <<session, sessions, lock>>

\* Case 7: an update for a client that does not exist or is not confirmed
ExchangeIdNoClient(t, owner) ==
  /\ MayExchangeId(t)
  /\ ~Confirmed(owner)
  /\ AnswerExchangeId(t, "NOENT")
  /\ UNCHANGED <<tables, lock>>

(* Cases 6, 8 and 9: ClientRecord.update() does nothing to a confirmed        *)
(* record, which is the only kind it is called for.                           *)
ExchangeIdUpdate(t, owner, verf, principal) ==
  /\ MayExchangeId(t)
  /\ Confirmed(owner)
  /\ LET c == record[byOwner[owner]]
     IN AnswerExchangeId(t, IF c.verifier # verf THEN "NOT_SAME"
                            ELSE IF c.principal # principal THEN "PERM" ELSE "OK")
  /\ UNCHANGED <<tables, lock>>

\* Cases 2 and 3: the same incarnation, or another principal
ExchangeIdAgain(t, owner, verf, principal) ==
  /\ MayExchangeId(t)
  /\ Confirmed(owner)
  /\ LET c == record[byOwner[owner]]
     IN \/ c.principal # principal /\ AnswerExchangeId(t, "CLID_INUSE")
        \/ c.principal = principal /\ c.verifier = verf /\ AnswerExchangeId(t, "OK")
  /\ UNCHANGED <<tables, lock>>

SessionsOf(c) == {s \in Range(sessions) : session[s].client = c}

(* Case 5: a confirmed client comes back with a new verifier.  The thread     *)
(* keeps clients.lock and starts client_reboot.  old is history: the sessions *)
(* the client has at this moment.                                             *)
ExchangeIdReboot(t, owner, verf, principal) ==
  /\ MayExchangeId(t) /\ RoomForClient
  /\ Confirmed(owner)
  /\ LET c == byOwner[owner]
     IN /\ record[c].principal = principal /\ record[c].verifier # verf
        /\ Continue(t, [pc |-> "discard", op |-> "EXCHANGE_ID", client |-> c, i |-> 1,
                        old |-> SessionsOf(c), new |-> NewRecord(owner, verf, principal)])
  /\ lock' = t
  /\ UNCHANGED tables

\* Mutant: the loop stops before the last session.
DiscardEndsEarly(t) ==
  /\ thread[t].pc = "discard"
  /\ thread[t].i >= Len(record[thread[t].client].sessions)
  /\ Continue(t, At(t, "replace"))
  /\ UNCHANGED <<tables, lock>>

\* An exception inside "with self.clients.lock"
FailLocked(t) ==
  /\ Finish(t, "SERVERFAULT")
  /\ lock' = None

\* One turn of the loop of client_reboot, over a list that others may change
DiscardSession(t) ==
  /\ thread[t].pc = "discard"
  /\ LET list == record[thread[t].client].sessions
     IN /\ thread[t].i <= Len(list)
        /\ LET sid == session[list[thread[t].i]].sid
           IN \/ /\ sid \in DOMAIN sessions
                 /\ sessions' = Restrict(sessions, DOMAIN sessions \ {sid})
                 /\ Continue(t, [thread[t] EXCEPT !.i = @ + 1])
                 /\ UNCHANGED lock
              \/ /\ sid \notin DOMAIN sessions
                 /\ FailLocked(t)
                 /\ UNCHANGED sessions
  /\ UNCHANGED <<record, listed, byOwner, session>>

DiscardEnds(t) ==
  /\ thread[t].pc = "discard"
  /\ thread[t].i > Len(record[thread[t].client].sessions)
  /\ Continue(t, At(t, "replace"))
  /\ UNCHANGED <<tables, lock>>

(* rebooted(), remove() and add().  What rebooted() does to the client's      *)
(* opens and locks is not in this module.                                     *)
ReplaceClient(t) ==
  /\ thread[t].pc = "replace"
  /\ LET c == thread[t].client
         id == Len(record) + 1
     IN /\ record' = Append([record EXCEPT ![c].seqid = 0, ![c].sessions = <<>>,
                                           ![c].freeze = TRUE], thread[t].new)
        /\ listed' = (listed \ {c}) \cup {id}
        /\ byOwner' = [byOwner EXCEPT ![thread[t].new.owner] = id]
  /\ lock' = None
  /\ Finish(t, "OK")
  /\ UNCHANGED <<session, sessions>>

-----------------------------------------------------------------------------
(* CREATE_SESSION                                                             *)

Creating(t) == ~IsIdle(t) /\ thread[t].op = "CREATE_SESSION"

(* Step 1: client record lookup.  A client has one CREATE_SESSION outstanding *)
(* for a client id, with its retransmissions.                                 *)
CreateSession(t, c, seq, principal) ==
  /\ IsIdle(t)
  /\ Len(session) + Cardinality({u \in Threads : Creating(u)}) < workload.maxSessions
  /\ \A u \in Threads :
       Creating(u) /\ thread[u].client = c => thread[u].seq = seq
  /\ IF c \in listed
     THEN Continue(t, [pc |-> "sequence", op |-> "CREATE_SESSION", client |-> c,
                       seq |-> seq, principal |-> principal])
     ELSE Answer(t, "CREATE_SESSION", "STALE_CLIENTID")
  /\ UNCHANGED <<tables, lock>>

\* Step 2: Slot.check_seqid refuses the request or finds a replay of the last
NotNextInSequence(t) ==
  /\ thread[t].pc = "sequence"
  /\ LET seqid == record[thread[t].client].seqid
     IN /\ thread[t].seq # seqid + 1
        /\ Finish(t, IF thread[t].seq = seqid THEN "REPLAY" ELSE "SEQ_MISORDERED")
  /\ UNCHANGED <<tables, lock>>

\* Steps 2 and 3: the next seqid, and the confirmation of the client
ConfirmClient(t) ==
  /\ thread[t].pc = "sequence"
  /\ LET c == thread[t].client
         own == record[c].confirmed \/ record[c].principal = thread[t].principal
     IN /\ thread[t].seq = record[c].seqid + 1
        /\ record' = [record EXCEPT ![c].seqid = thread[t].seq,
                                    ![c].confirmed = own]
        /\ IF own THEN Continue(t, At(t, "build"))
           ELSE Finish(t, "CLID_INUSE")
  /\ UNCHANGED <<listed, byOwner, session, sessions, lock>>

(* SessionRecord(c, arg): the session id is the clientid and the seqid        *)
(* session_replay has by now.                                                 *)
SessionRecord(t) ==
  /\ thread[t].pc = "build"
  /\ LET c == thread[t].client
     IN session' = Append(session, [client |-> c, sid |-> <<c, record[c].seqid>>])
  /\ Continue(t, [pc |-> "attach", op |-> "CREATE_SESSION", client |-> thread[t].client,
                  seq |-> thread[t].seq, session |-> Len(session) + 1])
  /\ UNCHANGED <<record, listed, byOwner, sessions, lock>>

\* self.sessions[sid] = s
WithSession(sid, s) ==
  [x \in DOMAIN sessions \cup {sid} |-> IF x = sid THEN s ELSE sessions[x]]

\* Mutant: the session is in self.sessions before it is in c.sessions.
PublishFirst(t) ==
  /\ thread[t].pc = "attach"
  /\ sessions' = WithSession(session[thread[t].session].sid, thread[t].session)
  /\ Continue(t, At(t, "publish"))
  /\ UNCHANGED <<record, listed, byOwner, session, lock>>

\* c.sessions.append(session), after a cb_null to the client
AttachToClient(t) ==
  /\ thread[t].pc = "attach"
  /\ record' = [record EXCEPT ![thread[t].client].sessions = Append(@, thread[t].session)]
  /\ Continue(t, At(t, "publish"))
  /\ UNCHANGED <<listed, byOwner, session, sessions, lock>>

\* self.sessions[session.sessionid] = session, and the answer
PublishSession(t) ==
  /\ thread[t].pc = "publish"
  /\ sessions' = WithSession(session[thread[t].session].sid, thread[t].session)
  /\ Finish(t, "OK")
  /\ UNCHANGED <<record, listed, byOwner, session, lock>>

-----------------------------------------------------------------------------
(* DESTROY_SESSION, and a SEQUENCE that is told to fail                       *)

\* self.sessions.get(sessionid)
DestroySession(t, op, sid) ==
  /\ IsIdle(t)
  /\ IF sid \in DOMAIN sessions
     THEN Continue(t, [pc |-> "delete", op |-> op, sid |-> sid, session |-> sessions[sid]])
     ELSE Answer(t, op, "BADSESSION")
  /\ UNCHANGED <<tables, lock>>

\* Mutant: self.sessions.pop(sessionid, None).
PopSession(t) ==
  /\ thread[t].pc = "delete"
  /\ sessions' = Restrict(sessions, DOMAIN sessions \ {thread[t].sid})
  /\ Continue(t, At(t, "detach"))
  /\ UNCHANGED <<record, listed, byOwner, session, lock>>

\* del self.sessions[sessionid], a KeyError if it is gone by now
DeleteSession(t) ==
  /\ thread[t].pc = "delete"
  /\ \/ /\ thread[t].sid \in DOMAIN sessions
        /\ sessions' = Restrict(sessions, DOMAIN sessions \ {thread[t].sid})
        /\ Continue(t, At(t, "detach"))
     \/ /\ thread[t].sid \notin DOMAIN sessions
        /\ Finish(t, "SERVERFAULT")
        /\ UNCHANGED sessions
  /\ UNCHANGED <<record, listed, byOwner, session, lock>>

\* Mutant: the client keeps the session in its list.
DetachForgotten(t) ==
  /\ thread[t].pc = "detach"
  /\ Finish(t, "OK")
  /\ UNCHANGED <<tables, lock>>

(* session.client.sessions.remove(session), a ValueError if the list no       *)
(* longer has it.                                                             *)
DetachFromClient(t) ==
  /\ thread[t].pc = "detach"
  /\ LET s == thread[t].session
         c == session[s].client
     IN \/ /\ s \in Range(record[c].sessions)
           /\ record' = [record EXCEPT ![c].sessions = RemoveFirst(@, s)]
           /\ Finish(t, IF thread[t].op = "DESTROY_SESSION" THEN "OK" ELSE "BADSESSION")
        \/ /\ s \notin Range(record[c].sessions)
           /\ Finish(t, "SERVERFAULT")
           /\ UNCHANGED record
  /\ UNCHANGED <<listed, byOwner, session, sessions, lock>>

-----------------------------------------------------------------------------
(* NFS4Server.reboot                                                          *)

Reboot(t) ==
  /\ workload.reboots
  /\ IsIdle(t)
  /\ sessions' = Restrict(sessions, {})
  /\ Continue(t, [pc |-> "wipe", op |-> "reboot"])
  /\ UNCHANGED <<record, listed, byOwner, session, lock>>

\* self.clients.wipe(), under clients.lock
Wipe(t) ==
  /\ thread[t].pc = "wipe" /\ lock = None
  /\ listed' = {} /\ byOwner' = [o \in Owners |-> None]
  /\ Finish(t, "OK")
  /\ UNCHANGED <<record, session, sessions, lock>>

-----------------------------------------------------------------------------
ExchangeId(t) ==
  \E o \in Owners, v \in Verifiers, p \in workload.principals :
    \/ ExchangeIdNew(t, o, v, p)
    \/ ExchangeIdNoClient(t, o)
    \/ ExchangeIdUpdate(t, o, v, p)
    \/ ExchangeIdAgain(t, o, v, p)
    \/ ExchangeIdReboot(t, o, v, p)

ClientReboot(t) == DiscardSession(t) \/ DiscardEnds(t) \/ ReplaceClient(t)

CreateSessionSteps(t) ==
  \/ \E c \in ClientIds, p \in workload.principals :
       \E seq \in (1..workload.maxSessions) \cap (1..(record[c].seqid + 1)) :
         CreateSession(t, c, seq, p)
  \/ NotNextInSequence(t) \/ ConfirmClient(t)
  \/ SessionRecord(t) \/ AttachToClient(t) \/ PublishSession(t)

DestroySteps(t) ==
  \/ \E s \in DOMAIN session, op \in {"DESTROY_SESSION", "SEQUENCE"} :
       DestroySession(t, op, session[s].sid)
  \/ DeleteSession(t) \/ DetachFromClient(t)

Next ==
  /\ \E t \in workload.threads :
       \/ ExchangeId(t) \/ ClientReboot(t) \/ CreateSessionSteps(t)
       \/ DestroySteps(t) \/ Reboot(t) \/ Wipe(t)
  /\ UNCHANGED workload

Spec == Init /\ [][Next]_vars

-----------------------------------------------------------------------------
(* Properties                                                                 *)

\* ClientList._data has two entries for each client, under its owner and under
\* its clientid.
OwnersAgree ==
  /\ \A c \in listed : byOwner[record[c].owner] = c
  /\ \A o \in Owners : byOwner[o] # None => byOwner[o] \in listed

(* A client that reboots leaves none of its sessions behind: when             *)
(* client_reboot has gone through c.sessions without an exception, no session *)
(* that could be used when EXCHANGE_ID came in is left in self.sessions, even *)
(* though DESTROY_SESSION and CREATE_SESSION change that list while the loop  *)
(* iterates over it.                                                          *)
RebootSkipsNoSession ==
  \A t \in Threads :
    thread[t].pc = "replace" => thread[t].old \cap Range(sessions) = {}

\* A session that can be used is in the list of its client.
UsableIsListed ==
  \A s \in Range(sessions) :
    session[s].client \in listed => s \in Range(record[session[s].client].sessions)

(* The tables agree whatever runs at once.  The owners and the clientids of   *)
(* ClientList ("the mapping of client supplied ownerid to server supplied     *)
(* clientid") do through replacement, client reboot and the reboot of the     *)
(* server.  A session that can be used stays in the list of its client, where *)
(* a reboot of the client finds it, for as long as the client is listed:      *)
(* CREATE_SESSION appends to c.sessions before it adds to self.sessions, and  *)
(* delete_session and DESTROY_SESSION take it out in the reverse order.       *)
TablesAgree == OwnersAgree /\ UsableIsListed

\* No two sessions ever have the same id.
SessionIdsDistinct ==
  \A s, u \in DOMAIN session : session[s].sid = session[u].sid => s = u

OneAtATime == Cardinality(workload.threads) = 1

(* While requests come one at a time, no operation runs into an exception     *)
(* (NFS4ERR_SERVERFAULT, "this is a server bug" in op_compound).              *)
NoServerFault == OneAtATime /\ answer # None => answer.status # "SERVERFAULT"

(* Between operations that come one at a time, self.sessions and the lists in *)
(* the records of the clients say the same: the sessions of the listed        *)
(* clients are those that can be used, under their own ids.  No two sessions  *)
(* ever have the same id ("XXX does this work?" in SessionRecord.__init__),   *)
(* so that a session id that was destroyed is never valid again.              *)
SessionsAgree ==
  OneAtATime /\ Quiet =>
    /\ SessionIdsDistinct
    /\ \A sid \in DOMAIN sessions :
         LET s == sessions[sid]
         IN /\ session[s].sid = sid
            /\ session[s].client \in listed
            /\ s \in Range(record[session[s].client].sessions)
    /\ \A c \in listed : Range(record[c].sessions) \subseteq Range(sessions)

(* A confirmed client that comes back with a new verifier gets a new client   *)
(* id: "This is case 5 from draft 21" (st_exchange_id.py, EID5fb).  While     *)
(* nothing else runs, client_reboot would find every session in c.sessions.   *)
OwnerCanReturn ==
  Quiet => \A c \in listed : Range(record[c].sessions) \subseteq Range(sessions)
=============================================================================
