------------------------- MODULE ClientSessions_proofs -------------------------
(* Proofs about ClientSessions, for any number of worker threads, owners,     *)
(* verifiers and principals, and any bounds on the records.                   *)
EXTENDS ClientSessions, Integers, FiniteSetTheorems, SequenceTheorems, WellFoundedInduction,
        TLAPS

-----------------------------------------------------------------------------
(* The inductive invariant                                                    *)

Records ==
  [owner : Owners, verifier : Verifiers, principal : Principals, confirmed : BOOLEAN,
   freeze : BOOLEAN, seqid : Nat, sessions : Seq(Nat)]
SessionRecords == [client : Nat, sid : Nat \X Nat]

ThreadStates ==
  [pc : {"idle"}]
    \cup [pc : {"discard", "replace"}, op : {"EXCHANGE_ID"}, client : Nat, i : Nat \ {0},
          old : SUBSET Nat, new : Records]
    \cup [pc : {"sequence", "build"}, op : {"CREATE_SESSION"}, client : Nat, seq : Nat,
          principal : Principals]
    \cup [pc : {"attach", "publish"}, op : {"CREATE_SESSION"}, client : Nat, seq : Nat,
          session : Nat]
    \cup [pc : {"delete", "detach"}, op : {"DESTROY_SESSION", "SEQUENCE"}, sid : Nat \X Nat,
          session : Nat]
    \cup [pc : {"wipe"}, op : {"reboot"}]

SessionIds == 1..Len(session)
Usable == {sessions[sid] : sid \in DOMAIN sessions}
ListOf(c) == record[c].sessions
Listing(c) == {ListOf(c)[j] : j \in 1..Len(ListOf(c))}

TypeOK ==
  /\ workload \in Workloads
  /\ record \in Seq(Records) /\ listed \in SUBSET ClientIds
  /\ byOwner \in [Owners -> ClientIds \cup {None}]
  /\ session \in Seq(SessionRecords)
  /\ lock \in Threads \cup {None}
  /\ thread \in [Threads -> ThreadStates]

\* Session ids tell whose session it is, and self.sessions has each under its id.
IdsOK ==
  /\ \A s \in SessionIds : session[s].client \in ClientIds /\ session[s].sid[1] = session[s].client
  /\ \A sid \in DOMAIN sessions :
       sessions[sid] \in SessionIds /\ session[sessions[sid]].sid = sid
  /\ \A c \in ClientIds : \A s \in Listing(c) : s \in SessionIds /\ session[s].client = c

\* While a client is listed, the ids of its sessions differ.
SeqidsOK ==
  \A c \in listed, s \in SessionIds : session[s].client = c =>
    /\ session[s].sid[2] <= record[c].seqid
    /\ \A u \in SessionIds : session[u].sid = session[s].sid => u = s

\* The owner of a client finds it in the list.
OwnersOK == \A o \in Owners : byOwner[o] # None => record[byOwner[o]].owner = o

\* A thread that goes through the sessions of a client has the lock.
RebootOK(t) ==
  LET e == thread[t]
  IN e.pc \in {"discard", "replace"} =>
       /\ lock = t /\ e.client \in listed /\ e.old \subseteq SessionIds
       /\ e.new.owner = record[e.client].owner /\ e.new.sessions = <<>>

\* Those before i are out of self.sessions for good; the others are to come.
DiscardOK(t) ==
  LET e == thread[t]
      list == ListOf(e.client)
  IN /\ e.pc = "discard" =>
          /\ e.i <= Len(list) + 1
          /\ \A j \in 1..Len(list) : j < e.i => list[j] \notin Usable
          /\ \A s \in e.old \cap Usable : \E j \in 1..Len(list) : e.i <= j /\ list[j] = s
     /\ e.pc = "replace" => e.old \cap Usable = {}

Building(t) == thread[t].pc \in {"build", "attach", "publish"}

CreateOK(t) ==
  LET e == thread[t]
  IN /\ e.pc \in {"sequence", "build", "attach", "publish"} => e.client \in ClientIds
     /\ Building(t) /\ e.client \in listed => record[e.client].seqid = e.seq
     /\ e.pc = "build" /\ e.client \in listed =>
          \A s \in SessionIds : session[s].client = e.client => session[s].sid[2] < e.seq
     /\ e.pc \in {"attach", "publish"} =>
          /\ e.session \in SessionIds /\ session[e.session].client = e.client
          /\ e.session \notin Usable
     /\ e.pc = "publish" /\ e.client \in listed => e.session \in Listing(e.client)

DestroyOK(t) ==
  LET e == thread[t]
  IN /\ e.pc \in {"delete", "detach"} =>
          e.session \in SessionIds /\ session[e.session].sid = e.sid
     /\ e.pc = "detach" => e.session \notin Usable

\* Of two threads that create sessions, or one that creates and another.
PairOK(t, u) ==
  /\ Creating(t) /\ Creating(u) /\ thread[t].client = thread[u].client =>
       /\ thread[t].seq = thread[u].seq
       /\ ~(Building(t) /\ Building(u) /\ thread[t].client \in listed)
  /\ thread[t].pc \in {"attach", "publish"} =>
       /\ thread[u].pc \in {"attach", "publish", "delete", "detach"} =>
            thread[t].session # thread[u].session
       /\ thread[u].pc \in {"discard", "replace"} => thread[t].session \notin thread[u].old
  /\ thread[t].pc \in {"attach", "publish", "detach"} /\ thread[u].pc = "discard" =>
       \A j \in 1..Len(ListOf(thread[u].client)) :
         j < thread[u].i => thread[t].session # ListOf(thread[u].client)[j]

ThreadOK(t) == RebootOK(t) /\ DiscardOK(t) /\ CreateOK(t) /\ DestroyOK(t)
PairsOK(t) == \A u \in Threads : t # u => PairOK(t, u) /\ PairOK(u, t)
ThreadsOK == \A t \in Threads : ThreadOK(t) /\ PairsOK(t)

IInv ==
  /\ TypeOK /\ IdsOK /\ SeqidsOK /\ OwnersAgree /\ OwnersOK /\ UsableIsListed
  /\ ThreadsOK

-----------------------------------------------------------------------------
(* The states of threads                                                      *)

LEMMA States ==
  ASSUME TypeOK, NEW t \in Threads, NEW e, e = thread[t]
  PROVE  /\ e \in ThreadStates
         /\ e.pc \in {"idle", "discard", "replace", "sequence", "build", "attach", "publish",
                      "delete", "detach", "wipe"}
         /\ e.pc \in {"discard", "replace"} =>
              /\ e.op = "EXCHANGE_ID" /\ e.client \in Nat /\ e.i \in Nat \ {0} /\ e.old \in SUBSET Nat
              /\ e.new \in Records
         /\ e.pc \in {"sequence", "build", "attach", "publish"} =>
              e.op = "CREATE_SESSION" /\ e.client \in Nat /\ e.seq \in Nat
         /\ e.pc \in {"sequence", "build"} => e.principal \in Principals
         /\ e.pc \in {"attach", "publish"} => e.session \in Nat
         /\ e.pc \in {"delete", "detach"} =>
              /\ e.op \in {"DESTROY_SESSION", "SEQUENCE"} /\ e.sid \in Nat \X Nat
              /\ e.session \in Nat
         /\ e.pc = "wipe" => e.op = "reboot"
<1>1. e \in ThreadStates
  BY DEF TypeOK
<1> QED  BY <1>1 DEF ThreadStates

LEMMA WhoCreates ==
  ASSUME TypeOK, NEW t \in Threads
  PROVE  Creating(t) <=> thread[t].pc \in {"sequence", "build", "attach", "publish"}
BY States DEF Creating, IsIdle

LEMMA Tables ==
  ASSUME TypeOK
  PROVE  /\ Len(record) \in Nat /\ ClientIds = 1..Len(record) /\ ClientIds = DOMAIN record
         /\ Len(session) \in Nat /\ SessionIds = DOMAIN session
         /\ \A c \in ClientIds : /\ record[c] \in Records /\ ListOf(c) \in Seq(Nat)
                                 /\ record[c].seqid \in Nat /\ record[c].owner \in Owners
         /\ \A s \in SessionIds : /\ session[s] \in SessionRecords /\ session[s].client \in Nat
                                  /\ session[s].sid \in Nat \X Nat
<1>1. PICK n \in Nat : n = Len(record) /\ DOMAIN record = 1..n
  BY DEF TypeOK
<1>2. PICK m \in Nat : m = Len(session) /\ DOMAIN session = 1..m
  BY DEF TypeOK
<1>3. ASSUME NEW c \in 1..n
      PROVE  /\ record[c] \in Records /\ ListOf(c) \in Seq(Nat)
             /\ record[c].seqid \in Nat /\ record[c].owner \in Owners
  <2>1. record[c] \in Records
    BY <1>1 DEF TypeOK
  <2> QED  BY <2>1 DEF Records, ListOf
<1>4. ASSUME NEW s \in 1..m
      PROVE  /\ session[s] \in SessionRecords /\ session[s].client \in Nat
             /\ session[s].sid \in Nat \X Nat
  <2>1. session[s] \in SessionRecords
    BY <1>2 DEF TypeOK
  <2> QED  BY <2>1 DEF SessionRecords
<1> QED  BY <1>1, <1>2, <1>3, <1>4 DEF ClientIds, SessionIds

\* What happens when a thread goes on, and nothing is added to the tables
Goes(t) ==
  /\ workload' = workload /\ UNCHANGED <<record, listed, byOwner, session>>
  /\ \A sid \in DOMAIN sessions' : sid \in DOMAIN sessions /\ sessions'[sid] = sessions[sid]
  /\ lock' = lock \/ lock \in {t, None}
  /\ lock' \in Threads \cup {None}
  /\ thread' \in [Threads -> ThreadStates]
  /\ \A u \in Threads : u # t => thread'[u] = thread[u]

(* Nothing else is disturbed by it: the invariant is kept if the new state of *)
(* the thread is as it should be.                                             *)
LEMMA GoingOn ==
  ASSUME IInv, NEW t \in Threads, Goes(t), ThreadOK(t)', PairsOK(t)'
  PROVE  IInv'
<1>1. /\ ClientIds' = ClientIds /\ SessionIds' = SessionIds /\ Usable' \subseteq Usable
      /\ \A c : ListOf(c)' = ListOf(c) /\ Listing(c)' = Listing(c)
  BY DEF Goes, ClientIds, SessionIds, Usable, ListOf, Listing
<1>2. TypeOK'
  BY <1>1 DEF IInv, TypeOK, Goes
<1>3. IdsOK'
  BY <1>1 DEF IInv, IdsOK, Goes
<1>4. SeqidsOK' /\ OwnersAgree' /\ OwnersOK'
  BY <1>1 DEF IInv, SeqidsOK, OwnersAgree, OwnersOK, Goes
<1>5. UsableIsListed'
  BY DEF IInv, UsableIsListed, Goes, Range
<1>6. ASSUME NEW u \in Threads, u # t
      PROVE  ThreadOK(u)'
  <2>1. thread'[u] = thread[u] /\ ThreadOK(u)
    BY <1>6 DEF Goes, IInv, ThreadsOK
  <2>2. RebootOK(u)'
    BY <1>1, <1>6, <2>1, ClientAssumption DEF ThreadOK, RebootOK, Goes
  <2>3. DiscardOK(u)'
    BY <1>1, <2>1 DEF ThreadOK, DiscardOK
  <2>4. CreateOK(u)'
    BY <1>1, <2>1 DEF ThreadOK, CreateOK, Building, Goes
  <2>5. DestroyOK(u)'
    BY <1>1, <2>1 DEF ThreadOK, DestroyOK, Goes
  <2> QED  BY <2>2, <2>3, <2>4, <2>5 DEF ThreadOK
<1>7. ASSUME NEW u \in Threads, NEW v \in Threads, u # t, v # t, u # v
      PROVE  PairOK(u, v)'
  <2>1. thread'[u] = thread[u] /\ thread'[v] = thread[v] /\ PairOK(u, v)
    BY <1>7 DEF Goes, IInv, ThreadsOK, PairsOK
  <2> QED  BY <1>1, <2>1 DEF PairOK, Creating, IsIdle, Building, Goes
<1>8. ThreadsOK'
  BY <1>6, <1>7 DEF ThreadsOK, PairsOK
<1> QED  BY <1>2, <1>3, <1>4, <1>5, <1>8 DEF IInv

LEMMA GoesTo ==
  ASSUME TypeOK, NEW t \in Threads, NEW e \in ThreadStates, thread' = [thread EXCEPT ![t] = e]
  PROVE  /\ thread' \in [Threads -> ThreadStates] /\ thread'[t] = e
         /\ \A u \in Threads : u # t => thread'[u] = thread[u]
BY DEF TypeOK

LEMMA Unchanged ==
  ASSUME IInv, UNCHANGED <<tables, workload>>
  PROVE  /\ workload' = workload /\ UNCHANGED <<record, listed, byOwner, session>>
         /\ sessions' = sessions /\ Usable' = Usable
         /\ \A sid \in DOMAIN sessions' : sid \in DOMAIN sessions /\ sessions'[sid] = sessions[sid]
         /\ lock \in Threads \cup {None}
BY DEF IInv, TypeOK, tables, Usable

LEMMA Discarding ==
  ASSUME NEW sid
  PROVE  LET less == Restrict(sessions, DOMAIN sessions \ {sid})
         IN /\ DOMAIN less = DOMAIN sessions \ {sid}
            /\ \A x \in DOMAIN less : x \in DOMAIN sessions /\ less[x] = sessions[x]
BY DEF Restrict

\* A thread that has ended its operation
LEMMA GoesIdle ==
  ASSUME IInv, NEW t \in Threads,
         workload' = workload, UNCHANGED <<record, listed, byOwner, session>>,
         \A sid \in DOMAIN sessions' : sid \in DOMAIN sessions /\ sessions'[sid] = sessions[sid],
         lock' = lock \/ (lock' = None /\ lock = t),
         thread' = [thread EXCEPT ![t] = Idle]
  PROVE  IInv'
<1>1. Idle \in ThreadStates
  BY DEF Idle, ThreadStates
<1>2. /\ thread' \in [Threads -> ThreadStates] /\ thread'[t] = Idle
      /\ \A u \in Threads : u # t => thread'[u] = thread[u]
  BY <1>1, GoesTo DEF IInv
<1>3. Goes(t)
  BY <1>2 DEF Goes, IInv, TypeOK
<1>4. thread'[t].pc = "idle"
  BY <1>2 DEF Idle
<1>5. ThreadOK(t)'
  BY <1>4 DEF ThreadOK, RebootOK, DiscardOK, CreateOK, DestroyOK, Building
<1>6. PairsOK(t)'
  BY <1>4 DEF PairsOK, PairOK, Creating, IsIdle
<1> QED  BY <1>3, <1>5, <1>6, GoingOn

-----------------------------------------------------------------------------
(* The operations that add nothing to the tables                              *)

LEMMA Ending ==
  ASSUME IInv, NEW t \in Threads, NEW op, NEW status, Answer(t, op, status),
         UNCHANGED <<tables, lock, workload>>
  PROVE  IInv'
<1>1. UNCHANGED <<tables, workload>> /\ lock' = lock
  OBVIOUS
<1>2. /\ workload' = workload /\ UNCHANGED <<record, listed, byOwner, session>>
      /\ \A sid \in DOMAIN sessions' : sid \in DOMAIN sessions /\ sessions'[sid] = sessions[sid]
  BY <1>1, Unchanged
<1>3. thread' = [thread EXCEPT ![t] = Idle]
  BY DEF Answer
<1> QED  BY <1>1, <1>2, <1>3, GoesIdle

LEMMA NoClientStep ==
  ASSUME IInv, NEW t \in Threads, UNCHANGED workload, NEW owner, ExchangeIdNoClient(t, owner)
  PROVE  IInv'
BY Ending DEF ExchangeIdNoClient, MayExchangeId, IsIdle, AnswerExchangeId

LEMMA UpdateStep ==
  ASSUME IInv, NEW t \in Threads, UNCHANGED workload, NEW owner, NEW verf, NEW principal,
         ExchangeIdUpdate(t, owner, verf, principal)
  PROVE  IInv'
BY Ending DEF ExchangeIdUpdate, MayExchangeId, IsIdle, AnswerExchangeId

LEMMA AgainStep ==
  ASSUME IInv, NEW t \in Threads, UNCHANGED workload, NEW owner, NEW verf, NEW principal,
         ExchangeIdAgain(t, owner, verf, principal)
  PROVE  IInv'
BY Ending DEF ExchangeIdAgain, MayExchangeId, IsIdle, AnswerExchangeId

LEMMA NotNextStep ==
  ASSUME IInv, NEW t \in Threads, UNCHANGED workload, NotNextInSequence(t)
  PROVE  IInv'
BY Ending DEF NotNextInSequence, Finish

\* A thread that goes on to a state that is as it should be
LEMMA GoesOn ==
  ASSUME IInv, NEW t \in Threads, NEW e \in ThreadStates,
         workload' = workload, UNCHANGED <<record, listed, byOwner, session>>,
         \A sid \in DOMAIN sessions' : sid \in DOMAIN sessions /\ sessions'[sid] = sessions[sid],
         lock' = lock \/ (lock' = t /\ lock = None),
         thread' = [thread EXCEPT ![t] = e]
  PROVE  /\ thread'[t] = e /\ \A u \in Threads : u # t => thread'[u] = thread[u]
         /\ ThreadOK(t)' /\ PairsOK(t)' => IInv'
         /\ ClientIds' = ClientIds /\ SessionIds' = SessionIds /\ Usable' \subseteq Usable
         /\ \A c : ListOf(c)' = ListOf(c) /\ Listing(c)' = Listing(c)
         /\ record' = record /\ listed' = listed /\ session' = session
<1>1. /\ thread' \in [Threads -> ThreadStates] /\ thread'[t] = e
      /\ \A u \in Threads : u # t => thread'[u] = thread[u]
  BY GoesTo DEF IInv
<1>2. Goes(t)
  BY <1>1 DEF Goes, IInv, TypeOK
<1>3. /\ ClientIds' = ClientIds /\ SessionIds' = SessionIds /\ Usable' \subseteq Usable
      /\ \A c : ListOf(c)' = ListOf(c) /\ Listing(c)' = Listing(c)
  BY DEF ClientIds, SessionIds, Usable, ListOf, Listing
<1> QED  BY <1>1, <1>2, <1>3, GoingOn

LEMMA CreateSessionStep ==
  ASSUME IInv, NEW t \in Threads, UNCHANGED workload, NEW c \in ClientIds, NEW seq \in Nat,
         NEW principal \in Principals, CreateSession(t, c, seq, principal)
  PROVE  IInv'
<1>1. CASE c \notin listed
  BY <1>1, Ending DEF CreateSession
<1>2. CASE c \in listed
  <2>1. PICK e : e = [pc |-> "sequence", op |-> "CREATE_SESSION", client |-> c, seq |-> seq,
                      principal |-> principal]
    OBVIOUS
  <2>2. /\ thread' = [thread EXCEPT ![t] = e] /\ UNCHANGED <<tables, workload>> /\ lock' = lock
        /\ \A u \in Threads : Creating(u) /\ thread[u].client = c => thread[u].seq = seq
    BY <1>2, <2>1 DEF CreateSession, Continue
  <2>3. e \in ThreadStates
    BY <2>1, Tables DEF ThreadStates, IInv
  <2>4. e.pc = "sequence" /\ e.op = "CREATE_SESSION" /\ e.client = c /\ e.seq = seq
    BY <2>1
  <2>5. /\ thread'[t] = e /\ \A u \in Threads : u # t => thread'[u] = thread[u]
        /\ ThreadOK(t)' /\ PairsOK(t)' => IInv'
        /\ ClientIds' = ClientIds
    BY <2>2, <2>3, Unchanged, GoesOn
  <2>6. ThreadOK(t)'
    BY <2>4, <2>5 DEF ThreadOK, RebootOK, DiscardOK, CreateOK, DestroyOK, Building
  <2>7. PairsOK(t)'
    BY <2>2, <2>4, <2>5 DEF PairsOK, PairOK, Creating, IsIdle, Building
  <2> QED  BY <2>5, <2>6, <2>7
<1> QED  BY <1>1, <1>2

LEMMA DestroySessionStep ==
  ASSUME IInv, NEW t \in Threads, UNCHANGED workload, NEW op \in {"DESTROY_SESSION", "SEQUENCE"},
         NEW sid \in Nat \X Nat, DestroySession(t, op, sid)
  PROVE  IInv'
<1>1. CASE sid \notin DOMAIN sessions
  BY <1>1, Ending DEF DestroySession
<1>2. CASE sid \in DOMAIN sessions
  <2>1. PICK s \in SessionIds : s = sessions[sid] /\ session[s].sid = sid /\ s \in Usable
    BY <1>2 DEF IInv, IdsOK, Usable
  <2>2. PICK e : e = [pc |-> "delete", op |-> op, sid |-> sid, session |-> s]
    OBVIOUS
  <2>3. thread' = [thread EXCEPT ![t] = e] /\ UNCHANGED <<tables, workload>> /\ lock' = lock
    BY <1>2, <2>1, <2>2 DEF DestroySession, Continue
  <2>4. e \in ThreadStates
    BY <2>1, <2>2, Tables DEF ThreadStates, IInv, SessionIds
  <2>5. e.pc = "delete" /\ e.op = op /\ e.op # "CREATE_SESSION" /\ e.sid = sid /\ e.session = s
    BY <2>2
  <2>6. /\ thread'[t] = e /\ \A u \in Threads : u # t => thread'[u] = thread[u]
        /\ ThreadOK(t)' /\ PairsOK(t)' => IInv'
        /\ SessionIds' = SessionIds /\ session' = session
    BY <2>3, <2>4, Unchanged, GoesOn
  <2>7. ThreadOK(t)'
    BY <2>1, <2>5, <2>6 DEF ThreadOK, RebootOK, DiscardOK, CreateOK, DestroyOK, Building
  <2>8. \A u \in Threads : thread[u].pc \in {"attach", "publish"} => thread[u].session # s
    BY <2>1 DEF IInv, ThreadsOK, ThreadOK, CreateOK
  <2>9. PairsOK(t)'
    BY <2>5, <2>6, <2>8 DEF PairsOK, PairOK, Creating, IsIdle, Building
  <2> QED  BY <2>6, <2>7, <2>9
<1> QED  BY <1>1, <1>2

LEMMA RebootStep ==
  ASSUME IInv, NEW t \in Threads, UNCHANGED workload, Reboot(t)
  PROVE  IInv'
<1>1. PICK e : e = [pc |-> "wipe", op |-> "reboot"]
  OBVIOUS
<1>2. thread' = [thread EXCEPT ![t] = e] /\ UNCHANGED <<record, listed, byOwner, session, lock>>
  BY <1>1 DEF Reboot, Continue
<1>3. e \in ThreadStates /\ e.pc = "wipe" /\ e.op = "reboot"
  BY <1>1 DEF ThreadStates
<1>4. DOMAIN sessions' = {}
  BY DEF Reboot, Restrict
<1>5. /\ thread'[t] = e /\ \A u \in Threads : u # t => thread'[u] = thread[u]
      /\ ThreadOK(t)' /\ PairsOK(t)' => IInv'
  BY <1>2, <1>3, <1>4, GoesOn
<1>6. ThreadOK(t)'
  BY <1>3, <1>5 DEF ThreadOK, RebootOK, DiscardOK, CreateOK, DestroyOK, Building
<1>7. PairsOK(t)'
  BY <1>3, <1>5 DEF PairsOK, PairOK, Creating, IsIdle, Building
<1> QED  BY <1>5, <1>6, <1>7

\* Nobody else goes through sessions while t has the lock, or nobody has it.
LEMMA WhoReboots ==
  ASSUME IInv, NEW t \in Threads, lock = None \/ lock = t
  PROVE  \A u \in Threads : u # t => ~(thread[u].pc \in {"discard", "replace"})
BY ClientAssumption DEF IInv, ThreadsOK, ThreadOK, RebootOK

\* Of the sessions of listed clients, those that can be used are where their ids say.
LEMMA UsableBySid ==
  ASSUME IInv, NEW s \in SessionIds, session[s].client \in listed
  PROVE  session[s].sid \in DOMAIN sessions <=> s \in Usable
<1>1. ASSUME session[s].sid \in DOMAIN sessions
      PROVE  s \in Usable
  <2>1. PICK u \in SessionIds : u = sessions[session[s].sid] /\ session[u].sid = session[s].sid
    BY <1>1 DEF IInv, IdsOK
  <2>2. u = s
    BY <2>1 DEF IInv, SeqidsOK
  <2> QED  BY <1>1, <2>1, <2>2 DEF Usable
<1>2. ASSUME s \in Usable
      PROVE  session[s].sid \in DOMAIN sessions
  BY <1>2 DEF IInv, IdsOK, Usable
<1> QED  BY <1>1, <1>2

\* What is in a list is a session of that client.
LEMMA InList ==
  ASSUME IInv, NEW c \in ClientIds, NEW j \in 1..Len(ListOf(c))
  PROVE  /\ ListOf(c)[j] \in Listing(c) /\ ListOf(c)[j] \in SessionIds
         /\ session[ListOf(c)[j]].client = c
BY DEF IInv, IdsOK, Listing

LEMMA UsableIsInRange == Usable = Range(sessions)
BY DEF Usable, Range

LEMMA ClientRebootStep ==
  ASSUME IInv, NEW t \in Threads, UNCHANGED workload, NEW owner \in Owners,
         NEW verf \in Verifiers, NEW principal \in Principals,
         ExchangeIdReboot(t, owner, verf, principal)
  PROVE  IInv'
<1>1. PICK c \in listed : c = byOwner[owner] /\ record[c].owner = owner
  BY DEF ExchangeIdReboot, Confirmed, IInv, OwnersAgree, OwnersOK
<1>2. PICK new \in Records : new.owner = owner /\ new.sessions = <<>>
                          /\ new = NewRecord(owner, verf, principal)
  <2>1. /\ NewRecord(owner, verf, principal) \in Records
        /\ NewRecord(owner, verf, principal).owner = owner
        /\ NewRecord(owner, verf, principal).sessions = <<>>
    BY DEF NewRecord, Records
  <2> QED  BY <2>1
<1>3. PICK old \in SUBSET SessionIds :
        /\ old = SessionsOf(c)
        /\ old = {s \in Usable : session[s].client = c}
  <2>1. Usable \subseteq SessionIds
    BY DEF IInv, IdsOK, Usable
  <2> QED  BY <2>1, UsableIsInRange DEF SessionsOf
<1>4. PICK e : e = [pc |-> "discard", op |-> "EXCHANGE_ID", client |-> c, i |-> 1, old |-> old,
                    new |-> new]
  OBVIOUS
<1>5. thread' = [thread EXCEPT ![t] = e] /\ UNCHANGED <<tables, workload>>
  BY <1>1, <1>2, <1>3, <1>4 DEF ExchangeIdReboot, Continue
<1>6. lock = None /\ lock' = t
  BY DEF ExchangeIdReboot, MayExchangeId
<1>7. c \in ClientIds /\ c \in Nat
  BY Tables DEF IInv, TypeOK
<1>8. old \in SUBSET Nat
  BY Tables DEF IInv, SessionIds
<1>9. /\ e.pc = "discard" /\ e.op = "EXCHANGE_ID" /\ e.client = c /\ e.i = 1 /\ e.old = old
      /\ e.new = new
  BY <1>4
<1>10. e \in ThreadStates
  BY <1>4, <1>7, <1>8 DEF ThreadStates
<1>11. /\ thread'[t] = e /\ \A u \in Threads : u # t => thread'[u] = thread[u]
       /\ ThreadOK(t)' /\ PairsOK(t)' => IInv'
       /\ SessionIds' = SessionIds /\ Usable' = Usable
       /\ \A x : ListOf(x)' = ListOf(x) /\ Listing(x)' = Listing(x)
       /\ record' = record /\ listed' = listed
  BY <1>5, <1>6, <1>10, Unchanged, GoesOn
<1>12. RebootOK(t)'
  BY <1>1, <1>2, <1>6, <1>9, <1>11 DEF RebootOK
<1>13. DiscardOK(t)'
  <2>1. Len(ListOf(c)) \in Nat
    BY <1>7, Tables DEF IInv
  <2>2. ASSUME NEW s \in old \cap Usable
        PROVE  \E j \in 1..Len(ListOf(c)) : 1 <= j /\ ListOf(c)[j] = s
    <3>1. s \in Range(ListOf(c))
      BY <1>3, UsableIsInRange DEF IInv, UsableIsListed, ListOf
    <3>2. ListOf(c) \in Seq(Nat)
      BY <1>7, Tables DEF IInv
    <3> QED  BY <3>1, <3>2 DEF Range
  <2> QED  BY <1>9, <1>11, <2>1, <2>2 DEF DiscardOK
<1>14. CreateOK(t)' /\ DestroyOK(t)'
  BY <1>9, <1>11 DEF CreateOK, DestroyOK, Building
<1>15. PairsOK(t)'
  <2>1. \A u \in Threads : thread[u].pc \in {"attach", "publish"} => thread[u].session \notin old
    BY <1>3 DEF IInv, ThreadsOK, ThreadOK, CreateOK
  <2> QED  BY <1>9, <1>11, <2>1 DEF PairsOK, PairOK, Creating, IsIdle, Building
<1> QED  BY <1>11, <1>12, <1>13, <1>14, <1>15 DEF ThreadOK

LEMMA DiscardEndsStep ==
  ASSUME IInv, NEW t \in Threads, UNCHANGED workload, DiscardEnds(t)
  PROVE  IInv'
<1>1. PICK e : e = thread[t]
  OBVIOUS
<1>2. PICK f : f = At(t, "replace")
  OBVIOUS
<1>3. /\ e \in ThreadStates /\ e.pc = "discard" /\ e.op = "EXCHANGE_ID"
      /\ e.client \in listed /\ e.client \in ClientIds
      /\ e.i \in Nat /\ e.i > Len(ListOf(e.client))
  BY <1>1, States DEF DiscardEnds, ListOf, IInv, ThreadsOK, ThreadOK, RebootOK, TypeOK
<1>4. /\ f \in ThreadStates /\ f.pc = "replace" /\ f.op = e.op /\ f.client = e.client
      /\ f.old = e.old /\ f.new = e.new
  BY <1>1, <1>2, <1>3 DEF At, ThreadStates
<1>5. thread' = [thread EXCEPT ![t] = f] /\ UNCHANGED <<tables, workload>> /\ lock' = lock
  BY <1>2 DEF DiscardEnds, Continue
<1>6. /\ thread'[t] = f /\ \A u \in Threads : u # t => thread'[u] = thread[u]
      /\ ThreadOK(t)' /\ PairsOK(t)' => IInv'
      /\ SessionIds' = SessionIds /\ Usable' = Usable
      /\ record' = record /\ listed' = listed
  BY <1>4, <1>5, Unchanged, GoesOn
<1>7. RebootOK(t)'
  BY <1>1, <1>3, <1>4, <1>5, <1>6 DEF RebootOK, IInv, ThreadsOK, ThreadOK
<1>8. DiscardOK(t)'
  <2>1. Len(ListOf(e.client)) \in Nat
    BY <1>3, Tables DEF IInv
  <2>2. \A s \in e.old \cap Usable : \E j \in 1..Len(ListOf(e.client)) : e.i <= j
    BY <1>1, <1>3 DEF IInv, ThreadsOK, ThreadOK, DiscardOK
  <2>3. e.old \cap Usable = {}
    BY <1>3, <2>1, <2>2
  <2> QED  BY <1>4, <1>6, <2>3 DEF DiscardOK
<1>9. CreateOK(t)' /\ DestroyOK(t)'
  BY <1>4, <1>6 DEF CreateOK, DestroyOK, Building
<1>10. PairsOK(t)'
  <2>1. \A u \in Threads : u # t /\ thread[u].pc \in {"attach", "publish"} =>
          thread[u].session \notin e.old
    BY <1>1, <1>3 DEF IInv, ThreadsOK, PairsOK, PairOK
  <2> QED  BY <1>3, <1>4, <1>6, <2>1 DEF PairsOK, PairOK, Creating, IsIdle, Building
<1> QED  BY <1>6, <1>7, <1>8, <1>9, <1>10 DEF ThreadOK

\* What no session with the id sid is, once it is out of self.sessions
LEMMA OutOfSessions ==
  ASSUME IInv, NEW s \in SessionIds, NEW sid, session[s].sid = sid,
         sessions' = Restrict(sessions, DOMAIN sessions \ {sid})
  PROVE  /\ \A x \in DOMAIN sessions' : x \in DOMAIN sessions /\ sessions'[x] = sessions[x]
         /\ s \notin Usable'
<1>1. /\ DOMAIN sessions' = DOMAIN sessions \ {sid}
      /\ \A x \in DOMAIN sessions' : x \in DOMAIN sessions /\ sessions'[x] = sessions[x]
  BY Discarding
<1>2. \A x \in DOMAIN sessions : session[sessions[x]].sid = x
  BY DEF IInv, IdsOK
<1> QED  BY SMTT(40), <1>1, <1>2 DEF Usable

LEMMA DiscardSessionStep ==
  ASSUME IInv, NEW t \in Threads, UNCHANGED workload, DiscardSession(t)
  PROVE  IInv'
<1>1. PICK e : e = thread[t]
  OBVIOUS
<1>2. /\ e \in ThreadStates /\ e.pc = "discard" /\ e.op = "EXCHANGE_ID"
      /\ e.client \in listed /\ e.client \in ClientIds
      /\ e.i \in Nat \ {0} /\ e.i <= Len(ListOf(e.client)) /\ lock = t
  BY <1>1, States DEF DiscardSession, ListOf, IInv, ThreadsOK, ThreadOK, RebootOK, TypeOK
<1>3. Len(ListOf(e.client)) \in Nat
  BY <1>2, Tables DEF IInv
<1>4. PICK i \in 1..Len(ListOf(e.client)) : i = e.i
  BY <1>2, <1>3
<1>5. PICK s \in SessionIds : s = ListOf(e.client)[i] /\ session[s].client = e.client
  BY <1>2, InList
<1>6. PICK sid : sid = session[s].sid
  OBVIOUS
<1>7. CASE sid \notin DOMAIN sessions
  <2>1. /\ thread' = [thread EXCEPT ![t] = Idle] /\ lock' = None /\ sessions' = sessions
        /\ UNCHANGED <<record, listed, byOwner, session>>
    BY <1>1, <1>4, <1>5, <1>6, <1>7 DEF DiscardSession, FailLocked, Finish, Answer, ListOf
  <2>2. \A x \in DOMAIN sessions' : x \in DOMAIN sessions /\ sessions'[x] = sessions[x]
    BY <2>1
  <2> QED  BY <1>2, <2>1, <2>2, GoesIdle
<1>8. CASE sid \in DOMAIN sessions
  <2>1. PICK f : f = [e EXCEPT !.i = e.i + 1]
    OBVIOUS
  <2>2. /\ thread' = [thread EXCEPT ![t] = f] /\ lock' = lock
        /\ sessions' = Restrict(sessions, DOMAIN sessions \ {sid})
        /\ UNCHANGED <<record, listed, byOwner, session>>
    BY <1>1, <1>4, <1>5, <1>6, <1>8, <2>1 DEF DiscardSession, Continue, ListOf
  <2>3. /\ \A x \in DOMAIN sessions' : x \in DOMAIN sessions /\ sessions'[x] = sessions[x]
        /\ s \notin Usable' /\ s \in Usable
    BY <1>2, <1>5, <1>6, <1>8, <2>2, OutOfSessions, UsableBySid
  <2>4. /\ f \in ThreadStates /\ f.pc = "discard" /\ f.op = e.op /\ f.client = e.client
        /\ f.old = e.old /\ f.new = e.new /\ f.i = i + 1
    BY <1>2, <1>4, <2>1 DEF ThreadStates
  <2>5. /\ thread'[t] = f /\ \A u \in Threads : u # t => thread'[u] = thread[u]
        /\ ThreadOK(t)' /\ PairsOK(t)' => IInv'
        /\ SessionIds' = SessionIds /\ Usable' \subseteq Usable
        /\ \A x : ListOf(x)' = ListOf(x)
        /\ record' = record /\ listed' = listed
    BY <2>2, <2>3, <2>4, GoesOn
  <2>6. RebootOK(t)'
    BY <1>1, <1>2, <2>2, <2>4, <2>5 DEF RebootOK, IInv, ThreadsOK, ThreadOK
  <2>7. DiscardOK(t)'
    <3>1. /\ \A j \in 1..Len(ListOf(e.client)) : j < i => ListOf(e.client)[j] \notin Usable
          /\ \A x \in e.old \cap Usable :
               \E j \in 1..Len(ListOf(e.client)) : i <= j /\ ListOf(e.client)[j] = x
      BY <1>1, <1>2, <1>4 DEF IInv, ThreadsOK, ThreadOK, DiscardOK
    <3>2. \A j \in 1..Len(ListOf(e.client)) : j < i + 1 => ListOf(e.client)[j] \notin Usable'
      BY <1>3, <1>5, <2>3, <2>5, <3>1
    <3>3. \A x \in e.old \cap Usable' :
            \E j \in 1..Len(ListOf(e.client)) : i + 1 <= j /\ ListOf(e.client)[j] = x
      BY <1>3, <1>5, <2>3, <2>5, <3>1
    <3> QED  BY <1>3, <2>4, <2>5, <3>2, <3>3 DEF DiscardOK
  <2>8. CreateOK(t)' /\ DestroyOK(t)'
    BY <2>4, <2>5 DEF CreateOK, DestroyOK, Building
  <2>9. PairsOK(t)'
    <3>1. ASSUME NEW u \in Threads, u # t
          PROVE  /\ thread[u].pc \in {"attach", "publish"} => thread[u].session \notin e.old
                 /\ thread[u].pc \in {"attach", "publish", "detach"} =>
                      \A j \in 1..Len(ListOf(e.client)) :
                        j < i + 1 => thread[u].session # ListOf(e.client)[j]
      <4>1. /\ thread[u].pc \in {"attach", "publish"} => thread[u].session \notin e.old
            /\ thread[u].pc \in {"attach", "publish", "detach"} =>
                 \A j \in 1..Len(ListOf(e.client)) :
                   j < i => thread[u].session # ListOf(e.client)[j]
        BY <1>1, <1>2, <1>4, <3>1 DEF IInv, ThreadsOK, PairsOK, PairOK
      <4>2. thread[u].pc \in {"attach", "publish", "detach"} => thread[u].session # s
        BY <2>3 DEF IInv, ThreadsOK, ThreadOK, CreateOK, DestroyOK
      <4> QED  BY <1>3, <1>5, <4>1, <4>2
    <3> QED  BY <1>2, <2>4, <2>5, <3>1 DEF PairsOK, PairOK, Creating, IsIdle, Building
  <2> QED  BY <2>5, <2>6, <2>7, <2>8, <2>9 DEF ThreadOK
<1> QED  BY <1>7, <1>8

LEMMA DeleteSessionStep ==
  ASSUME IInv, NEW t \in Threads, UNCHANGED workload, DeleteSession(t)
  PROVE  IInv'
<1>1. PICK e : e = thread[t]
  OBVIOUS
<1>2. /\ e \in ThreadStates /\ e.pc = "delete" /\ e.op \in {"DESTROY_SESSION", "SEQUENCE"}
      /\ e.session \in SessionIds /\ session[e.session].sid = e.sid
  BY <1>1, States DEF DeleteSession, IInv, ThreadsOK, ThreadOK, DestroyOK
<1>3. CASE e.sid \notin DOMAIN sessions
  <2>1. /\ thread' = [thread EXCEPT ![t] = Idle] /\ lock' = lock /\ sessions' = sessions
        /\ UNCHANGED <<record, listed, byOwner, session>>
    BY <1>1, <1>3 DEF DeleteSession, Finish, Answer
  <2>2. \A x \in DOMAIN sessions' : x \in DOMAIN sessions /\ sessions'[x] = sessions[x]
    BY <2>1
  <2> QED  BY <2>1, <2>2, GoesIdle
<1>4. CASE e.sid \in DOMAIN sessions
  <2>1. PICK f : f = At(t, "detach")
    OBVIOUS
  <2>2. /\ thread' = [thread EXCEPT ![t] = f] /\ lock' = lock
        /\ sessions' = Restrict(sessions, DOMAIN sessions \ {e.sid})
        /\ UNCHANGED <<record, listed, byOwner, session>>
    BY <1>1, <1>4, <2>1 DEF DeleteSession, Continue
  <2>3. /\ \A x \in DOMAIN sessions' : x \in DOMAIN sessions /\ sessions'[x] = sessions[x]
        /\ e.session \notin Usable'
    BY <1>2, <2>2, OutOfSessions
  <2>4. /\ f \in ThreadStates /\ f.pc = "detach" /\ f.op = e.op /\ f.sid = e.sid
        /\ f.session = e.session
    BY <1>1, <1>2, <2>1 DEF At, ThreadStates
  <2>5. /\ thread'[t] = f /\ \A u \in Threads : u # t => thread'[u] = thread[u]
        /\ ThreadOK(t)' /\ PairsOK(t)' => IInv'
        /\ SessionIds' = SessionIds /\ session' = session
        /\ \A x : ListOf(x)' = ListOf(x)
    BY <2>2, <2>3, <2>4, GoesOn
  <2>6. RebootOK(t)' /\ DiscardOK(t)' /\ CreateOK(t)'
    BY <2>4, <2>5 DEF RebootOK, DiscardOK, CreateOK, Building
  <2>7. DestroyOK(t)'
    BY <1>2, <2>3, <2>4, <2>5 DEF DestroyOK
  <2>8. PairsOK(t)'
    <3>1. ASSUME NEW u \in Threads, u # t
          PROVE  /\ thread[u].pc \in {"attach", "publish"} => thread[u].session # e.session
                 /\ thread[u].pc = "discard" =>
                      \A j \in 1..Len(ListOf(thread[u].client)) :
                        j < thread[u].i => e.session # ListOf(thread[u].client)[j]
      <4>1. thread[u].pc \in {"attach", "publish"} => thread[u].session # e.session
        BY <1>1, <1>2, <3>1 DEF IInv, ThreadsOK, PairsOK, PairOK
      <4>2. ASSUME thread[u].pc = "discard", NEW j \in 1..Len(ListOf(thread[u].client)),
                   j < thread[u].i, e.session = ListOf(thread[u].client)[j]
            PROVE  FALSE
        <5>1. thread[u].client \in listed /\ thread[u].client \in ClientIds
          BY <4>2 DEF IInv, ThreadsOK, ThreadOK, RebootOK, TypeOK
        <5>2. session[e.session].client \in listed
          BY <4>2, <5>1, InList
        <5>3. e.session \in Usable
          BY <1>2, <1>4, <5>2, UsableBySid
        <5> QED  BY <4>2, <5>3 DEF IInv, ThreadsOK, ThreadOK, DiscardOK
      <4> QED  BY <4>1, <4>2
    <3> QED  BY <1>2, <2>4, <2>5, <3>1 DEF PairsOK, PairOK, Creating, IsIdle, Building
  <2> QED  BY <2>5, <2>6, <2>7, <2>8 DEF ThreadOK
<1> QED  BY <1>3, <1>4

-----------------------------------------------------------------------------
(* Sequences                                                                  *)

LEMMA Least ==
  ASSUME NEW S \in SUBSET Nat, S # {}
  PROVE  Min(S) \in S
<1> DEFINE R == {p \in Nat \X Nat : p[1] < p[2]}
<1>1. OpToRel(<, Nat) = R
  BY DEF OpToRel
<1>2. PICK x \in S : \A y \in S : <<y, x>> \notin R
  BY ZenonT(40), <1>1, WFMin, NatLessThanWellFounded
<1>3. ASSUME NEW y \in S
      PROVE  x <= y
  <2>1. x \in Nat /\ y \in Nat /\ <<y, x>> \in Nat \X Nat /\ <<y, x>>[1] = y /\ <<y, x>>[2] = x
    OBVIOUS
  <2>2. ~(y < x)
    BY <1>2, <2>1
  <2> QED  BY <2>1, <2>2
<1> QED  BY <1>3 DEF Min

(* What is left of a list when one of its members goes.                       *)
LEMMA Removed ==
  ASSUME NEW S, NEW q \in Seq(S), NEW i \in DOMAIN q
  PROVE  /\ RemoveAt(q, i) \in Seq(S) /\ Len(RemoveAt(q, i)) = Len(q) - 1
         /\ \A j \in 1..(Len(q) - 1) : RemoveAt(q, i)[j] = IF j < i THEN q[j] ELSE q[j + 1]
<1>1. PICK n \in Nat : n = Len(q) /\ DOMAIN q = 1..n
  OBVIOUS
<1>2. PICK h \in Nat, g \in Nat : i = h + 1 /\ n = h + 1 + g
  <2>1. i \in Nat /\ i - 1 \in Nat /\ n - i \in Nat
    BY <1>1
  <2>2. i = (i - 1) + 1 /\ n = (i - 1) + 1 + (n - i)
    BY <2>1
  <2> QED  BY <2>1, <2>2
<1> PICK a : a = SubSeq(q, 1, h)
  OBVIOUS
<1> PICK b : b = SubSeq(q, h + 2, n)
  OBVIOUS
<1>3. RemoveAt(q, i) = a \o b
  <2>1. i - 1 = h /\ i + 1 = h + 2
    BY <1>2
  <2> QED  BY <1>1, <2>1 DEF RemoveAt
<1>4. a \in Seq(S) /\ Len(a) = h /\ \A j \in 1..h : a[j] = q[j]
  <2>1. \A j \in 1..h : q[j] \in S
    BY <1>1, <1>2
  <2> QED  BY <2>1, SubSeqProperties
<1>5. b \in Seq(S) /\ Len(b) = g /\ \A j \in 1..g : b[j] = q[h + 1 + j]
  <2>1. \A j \in (h + 2)..n : q[j] \in S
    BY <1>1, <1>2
  <2>2. /\ b \in Seq(S) /\ Len(b) = IF h + 2 <= n THEN n - (h + 2) + 1 ELSE 0
        /\ \A j \in 1..(n - (h + 2) + 1) : b[j] = q[h + 2 + j - 1]
    BY <1>2, <2>1, SubSeqProperties
  <2>3. n - (h + 2) + 1 = g /\ \A j \in 1..g : h + 2 + j - 1 = h + 1 + j
    BY <1>2
  <2>4. (IF h + 2 <= n THEN n - (h + 2) + 1 ELSE 0) = g
    BY <1>2
  <2> QED  BY <2>2, <2>3, <2>4
<1>6. a \o b \in Seq(S) /\ Len(a \o b) = h + g
  BY <1>4, <1>5, ConcatProperties
<1>7. ASSUME NEW j \in 1..(h + g)
      PROVE  (a \o b)[j] = IF j <= h THEN q[j] ELSE q[j + 1]
  <2>1. (a \o b)[j] = IF j <= h THEN a[j] ELSE b[j - h]
    <3>1. \A x \in 1..Len(a) + Len(b) : (a \o b)[x] = IF x <= Len(a) THEN a[x] ELSE b[x - Len(a)]
      BY <1>4, <1>5, ConcatProperties
    <3> QED  BY <1>4, <1>5, <3>1
  <2>2. CASE j <= h
    BY <1>4, <2>1, <2>2
  <2>3. CASE ~(j <= h)
    <3>1. j - h \in 1..g /\ h + 1 + (j - h) = j + 1
      BY <2>3
    <3> QED  BY <1>5, <2>1, <2>3, <3>1
  <2> QED  BY <2>2, <2>3
<1>8. h + g = n - 1 /\ \A j \in 1..(h + g) : j <= h <=> j < i
  BY <1>2
<1>9. PICK r : r = a \o b
  OBVIOUS
<1>10. \A j \in 1..(n - 1) : r[j] = IF j < i THEN q[j] ELSE q[j + 1]
  BY <1>7, <1>8, <1>9
<1> QED  BY <1>1, <1>3, <1>6, <1>8, <1>9, <1>10

\* r is q without its member k.
Without(q, k, r) ==
  /\ Len(r) = Len(q) - 1
  /\ \A j \in 1..(Len(q) - 1) : r[j] = IF j < k THEN q[j] ELSE q[j + 1]

LEMMA RemovedFirst ==
  ASSUME NEW S, NEW q \in Seq(S), NEW x, NEW m \in 1..Len(q), q[m] = x
  PROVE  /\ RemoveFirst(q, x) \in Seq(S)
         /\ \E k \in 1..Len(q) : q[k] = x /\ Without(q, k, RemoveFirst(q, x))
<1>1. PICK here : here = {j \in 1..Len(q) : q[j] = x}
  OBVIOUS
<1>2. Min(here) \in here
  <2>1. m \in here
    BY <1>1
  <2>2. Len(q) \in Nat
    OBVIOUS
  <2>3. here \in SUBSET Nat
    BY <1>1, <2>2
  <2> QED  BY <2>1, <2>3, Least
<1>3. RemoveFirst(q, x) = RemoveAt(q, Min(here))
  BY <1>1 DEF RemoveFirst, SelectInSeq
<1>4. PICK k : k = Min(here)
  OBVIOUS
<1>5. k \in 1..Len(q) /\ q[k] = x
  BY <1>1, <1>2, <1>4
<1>6. k \in DOMAIN q
  BY <1>5
<1>7. RemoveFirst(q, x) \in Seq(S) /\ Without(q, k, RemoveFirst(q, x))
  BY <1>3, <1>4, <1>6, Removed DEF Without
<1> QED  BY <1>5, <1>7

LEMMA Appended ==
  ASSUME NEW S, NEW q \in Seq(S), NEW e \in S
  PROVE  /\ Append(q, e) \in Seq(S) /\ Len(Append(q, e)) = Len(q) + 1
         /\ Append(q, e)[Len(q) + 1] = e /\ \A j \in 1..Len(q) : Append(q, e)[j] = q[j]
OBVIOUS

LEMMA Replaced ==
  ASSUME NEW S, NEW q \in Seq(S), NEW i \in DOMAIN q, NEW e \in S
  PROVE  /\ [q EXCEPT ![i] = e] \in Seq(S) /\ Len([q EXCEPT ![i] = e]) = Len(q)
         /\ [q EXCEPT ![i] = e][i] = e
         /\ \A j \in DOMAIN q : j # i => [q EXCEPT ![i] = e][j] = q[j]
OBVIOUS

-----------------------------------------------------------------------------
(* The operations that change the tables                                      *)

\* The states of all threads are as they should be if those of the others are.
LEMMA Together ==
  ASSUME NEW t \in Threads, ThreadOK(t)',
         \A u \in Threads : u # t => ThreadOK(u)' /\ PairOK(t, u)' /\ PairOK(u, t)',
         \A u, v \in Threads : u # t /\ v # t /\ u # v => PairOK(u, v)'
  PROVE  ThreadsOK'
BY DEF ThreadsOK, PairsOK

LEMMA EndedOK ==
  ASSUME IInv, NEW t \in Threads, thread' = [thread EXCEPT ![t] = Idle],
         \A u \in Threads : u # t /\ thread'[u] = thread[u] => ThreadOK(u)',
         \A u, v \in Threads :
           u # t /\ v # t /\ u # v /\ thread'[u] = thread[u] /\ thread'[v] = thread[v] =>
             PairOK(u, v)'
  PROVE  ThreadsOK' /\ thread' \in [Threads -> ThreadStates]
<1>1. Idle \in ThreadStates /\ Idle.pc = "idle"
  BY DEF Idle, ThreadStates
<1>2. /\ thread' \in [Threads -> ThreadStates] /\ thread'[t].pc = "idle"
      /\ \A u \in Threads : u # t => thread'[u] = thread[u]
  BY <1>1, GoesTo DEF IInv
<1>3. ThreadOK(t)'
  BY <1>2 DEF ThreadOK, RebootOK, DiscardOK, CreateOK, DestroyOK, Building
<1>4. \A u \in Threads : u # t => PairOK(t, u)' /\ PairOK(u, t)'
  BY <1>2 DEF PairOK, Creating, IsIdle
<1>5. ThreadsOK'
  BY <1>2, <1>3, <1>4, Together
<1> QED  BY <1>2, <1>5

LEMMA WipeStep ==
  ASSUME IInv, NEW t \in Threads, UNCHANGED workload, Wipe(t)
  PROVE  IInv'
<1>1. /\ lock = None /\ lock' = None /\ listed' = {} /\ byOwner' = [o \in Owners |-> None]
      /\ UNCHANGED <<record, session, sessions>> /\ thread' = [thread EXCEPT ![t] = Idle]
  BY DEF Wipe, Finish, Answer
<1>2. /\ ClientIds' = ClientIds /\ SessionIds' = SessionIds /\ Usable' = Usable
      /\ \A c : ListOf(c)' = ListOf(c) /\ Listing(c)' = Listing(c)
  BY <1>1 DEF ClientIds, SessionIds, Usable, ListOf, Listing
<1>3. \A u \in Threads : u # t /\ thread'[u] = thread[u] => ThreadOK(u)'
  <2> SUFFICES ASSUME NEW u \in Threads, u # t, thread'[u] = thread[u]
               PROVE  ThreadOK(u)'
    OBVIOUS
  <2>1. ~(thread'[u].pc \in {"discard", "replace"})
    BY <1>1, WhoReboots
  <2>2. RebootOK(u)' /\ DiscardOK(u)'
    BY <2>1 DEF RebootOK, DiscardOK
  <2>3. CreateOK(u)' /\ DestroyOK(u)'
    BY <1>1, <1>2 DEF CreateOK, DestroyOK, Building, IInv, ThreadsOK, ThreadOK
  <2> QED  BY <2>2, <2>3 DEF ThreadOK
<1>4. \A u, v \in Threads :
        u # t /\ v # t /\ u # v /\ thread'[u] = thread[u] /\ thread'[v] = thread[v] =>
          PairOK(u, v)'
  BY <1>1, <1>2 DEF PairOK, Creating, IsIdle, Building, IInv, ThreadsOK, PairsOK
<1>5. ThreadsOK' /\ thread' \in [Threads -> ThreadStates]
  BY <1>1, <1>3, <1>4, EndedOK
<1>6. TypeOK'
  BY <1>1, <1>2, <1>5 DEF IInv, TypeOK
<1>7. IdsOK'
  BY <1>1, <1>2 DEF IInv, IdsOK
<1>8. SeqidsOK' /\ OwnersAgree' /\ OwnersOK' /\ UsableIsListed'
  BY <1>1 DEF SeqidsOK, OwnersAgree, OwnersOK, UsableIsListed
<1> QED  BY <1>5, <1>6, <1>7, <1>8 DEF IInv

LEMMA PublishStep ==
  ASSUME IInv, NEW t \in Threads, UNCHANGED workload, PublishSession(t)
  PROVE  IInv'
<1>1. PICK e : e = thread[t]
  OBVIOUS
<1>2. /\ e.pc = "publish" /\ e.session \in SessionIds /\ e.session \notin Usable
      /\ session[e.session].client = e.client
      /\ e.client \in listed => e.session \in Listing(e.client)
  BY <1>1 DEF PublishSession, IInv, ThreadsOK, ThreadOK, CreateOK
<1>3. PICK s \in SessionIds : s = e.session
  BY <1>2
<1>4. PICK sid : sid = session[s].sid
  OBVIOUS
<1>5. /\ thread' = [thread EXCEPT ![t] = Idle] /\ UNCHANGED <<record, listed, byOwner, session, lock>>
      /\ sessions' = WithSession(sid, s)
  BY <1>1, <1>3, <1>4 DEF PublishSession, Finish, Answer
<1>6. /\ ClientIds' = ClientIds /\ SessionIds' = SessionIds
      /\ \A c : ListOf(c)' = ListOf(c) /\ Listing(c)' = Listing(c)
  BY <1>5 DEF ClientIds, SessionIds, ListOf, Listing
<1>7. /\ DOMAIN sessions' = DOMAIN sessions \cup {sid}
      /\ sessions'[sid] = s
      /\ \A x \in DOMAIN sessions : x # sid => sessions'[x] = sessions[x]
  BY <1>5 DEF WithSession
<1>8. Usable' \subseteq Usable \cup {s}
  BY <1>7 DEF Usable
<1>9. \A u \in Threads : u # t =>
        /\ thread[u].pc \in {"attach", "publish", "delete", "detach"} => thread[u].session # s
        /\ thread[u].pc \in {"discard", "replace"} => s \notin thread[u].old
        /\ thread[u].pc = "discard" =>
             \A j \in 1..Len(ListOf(thread[u].client)) :
               j < thread[u].i => s # ListOf(thread[u].client)[j]
  BY <1>1, <1>2, <1>3 DEF IInv, ThreadsOK, PairsOK, PairOK
<1>10. \A u \in Threads : u # t /\ thread'[u] = thread[u] => ThreadOK(u)'
  <2> SUFFICES ASSUME NEW u \in Threads, u # t, thread'[u] = thread[u]
               PROVE  ThreadOK(u)'
    OBVIOUS
  <2>1. RebootOK(u)'
    BY <1>5, <1>6 DEF RebootOK, IInv, ThreadsOK, ThreadOK
  <2>2. DiscardOK(u)'
    <3>1. DiscardOK(u)
      BY DEF IInv, ThreadsOK, ThreadOK
    <3> QED  BY <1>6, <1>8, <1>9, <3>1 DEF DiscardOK
  <2>3. CreateOK(u)' /\ DestroyOK(u)'
    <3>1. CreateOK(u) /\ DestroyOK(u)
      BY DEF IInv, ThreadsOK, ThreadOK
    <3> QED  BY <1>5, <1>6, <1>8, <1>9, <3>1 DEF CreateOK, DestroyOK, Building
  <2> QED  BY <2>1, <2>2, <2>3 DEF ThreadOK
<1>11. \A u, v \in Threads :
         u # t /\ v # t /\ u # v /\ thread'[u] = thread[u] /\ thread'[v] = thread[v] =>
           PairOK(u, v)'
  BY <1>5, <1>6 DEF PairOK, Creating, IsIdle, Building, IInv, ThreadsOK, PairsOK
<1>12. ThreadsOK' /\ thread' \in [Threads -> ThreadStates]
  BY <1>5, <1>10, <1>11, EndedOK
<1>13. TypeOK'
  BY <1>5, <1>6, <1>12 DEF IInv, TypeOK
<1>14. IdsOK'
  <2>1. \A x \in DOMAIN sessions' :
          sessions'[x] \in SessionIds /\ session[sessions'[x]].sid = x
    BY <1>4, <1>7 DEF IInv, IdsOK
  <2> QED  BY <1>5, <1>6, <2>1 DEF IInv, IdsOK
<1>15. SeqidsOK' /\ OwnersAgree' /\ OwnersOK'
  BY <1>5, <1>6 DEF IInv, SeqidsOK, OwnersAgree, OwnersOK
<1>16. UsableIsListed'
  <2> SUFFICES ASSUME NEW u \in Range(sessions'), session[u].client \in listed
               PROVE  u \in Range(record[session[u].client].sessions)
    BY <1>5 DEF UsableIsListed
  <2>1. u \in Usable \cup {s}
    BY <1>7 DEF Range, Usable
  <2>2. CASE u \in Usable
    BY <2>2, UsableIsInRange DEF IInv, UsableIsListed
  <2>3. CASE u = s
    <3>1. e.client \in ClientIds /\ e.client \in listed /\ s \in Listing(e.client)
      BY <1>2, <1>3, <2>3 DEF IInv, TypeOK
    <3>2. ListOf(e.client) \in Seq(Nat)
      BY <3>1, Tables DEF IInv
    <3>3. s \in Range(ListOf(e.client))
      BY <3>1, <3>2 DEF Listing, Range
    <3> QED  BY <1>2, <1>3, <2>3, <3>3 DEF ListOf
  <2> QED  BY <2>1, <2>2, <2>3
<1> QED  BY <1>12, <1>13, <1>14, <1>15, <1>16 DEF IInv

\* A record is replaced by another.
LEMMA OtherRecord ==
  ASSUME IInv, NEW c \in ClientIds, NEW r \in Records, record' = [record EXCEPT ![c] = r]
  PROVE  /\ record' \in Seq(Records) /\ ClientIds' = ClientIds /\ record'[c] = r
         /\ \A x \in ClientIds : x # c => record'[x] = record[x]
<1>1. record \in Seq(Records) /\ ClientIds = DOMAIN record
  BY Tables DEF IInv, TypeOK
<1>2. c \in DOMAIN record
  BY <1>1
<1>3. /\ record' \in Seq(Records) /\ Len(record') = Len(record) /\ record'[c] = r
      /\ \A x \in DOMAIN record : x # c => record'[x] = record[x]
  BY <1>1, <1>2, Replaced
<1> QED  BY <1>1, <1>3 DEF ClientIds

\* A record that gets another list of sessions, and nothing else
LEMMA OtherList ==
  ASSUME IInv, NEW c \in ClientIds, NEW list \in Seq(Nat),
         record' = [record EXCEPT ![c].sessions = list]
  PROVE  /\ record' \in Seq(Records) /\ ClientIds' = ClientIds
         /\ ListOf(c)' = list
         /\ \A x \in ClientIds : /\ record'[x].seqid = record[x].seqid
                                 /\ record'[x].owner = record[x].owner
                                 /\ record'[x].confirmed = record[x].confirmed
                                 /\ x # c => ListOf(x)' = ListOf(x)
<1>1. PICK r : r = [record[c] EXCEPT !.sessions = list]
  OBVIOUS
<1>2. record[c] \in Records
  BY Tables DEF IInv
<1>3. /\ r \in Records /\ r.sessions = list /\ r.seqid = record[c].seqid
      /\ r.owner = record[c].owner /\ r.confirmed = record[c].confirmed
  BY <1>1, <1>2 DEF Records
<1>4. record' = [record EXCEPT ![c] = r]
  BY <1>1
<1>5. r \in Records
  BY <1>3
<1>6. /\ record' \in Seq(Records) /\ ClientIds' = ClientIds /\ record'[c] = r
      /\ \A x \in ClientIds : x # c => record'[x] = record[x]
  BY <1>4, <1>5, OtherRecord
<1> QED  BY <1>3, <1>6 DEF ListOf

LEMMA AttachStep ==
  ASSUME IInv, NEW t \in Threads, UNCHANGED workload, AttachToClient(t)
  PROVE  IInv'
<1>1. PICK e : e = thread[t]
  OBVIOUS
<1>2. /\ e \in ThreadStates /\ e.pc = "attach" /\ e.op = "CREATE_SESSION" /\ e.session \in SessionIds
      /\ e.session \notin Usable /\ session[e.session].client = e.client
      /\ e.client \in ClientIds
  BY <1>1, States DEF AttachToClient, IInv, ThreadsOK, ThreadOK, CreateOK
<1>3. PICK s \in SessionIds, c \in ClientIds : s = e.session /\ c = e.client
  BY <1>2
<1>4. PICK list : list = Append(ListOf(c), s)
  OBVIOUS
<1>5. PICK n \in Nat : /\ n = Len(ListOf(c)) /\ list \in Seq(Nat) /\ Len(list) = n + 1
                       /\ list[n + 1] = s /\ \A j \in 1..n : list[j] = ListOf(c)[j]
  <2>1. s \in Nat
    BY Tables DEF IInv, SessionIds
  <2>2. ListOf(c) \in Seq(Nat) /\ Len(ListOf(c)) \in Nat
    BY Tables DEF IInv
  <2> QED  BY <1>4, <2>1, <2>2, Appended
<1>6. PICK f : f = At(t, "publish")
  OBVIOUS
<1>7. /\ thread' = [thread EXCEPT ![t] = f] /\ UNCHANGED <<listed, byOwner, session, sessions, lock>>
      /\ record' = [record EXCEPT ![c].sessions = list]
  BY <1>1, <1>3, <1>4, <1>6 DEF AttachToClient, Continue, ListOf
<1>8. /\ f \in ThreadStates /\ f.pc = "publish" /\ f.op = e.op /\ f.client = c /\ f.session = s
      /\ f.seq = e.seq
  BY <1>1, <1>2, <1>3, <1>6 DEF At, ThreadStates
<1>9. /\ thread' \in [Threads -> ThreadStates] /\ thread'[t] = f
      /\ \A u \in Threads : u # t => thread'[u] = thread[u]
  BY <1>7, <1>8, GoesTo DEF IInv
<1>10. /\ record' \in Seq(Records) /\ ClientIds' = ClientIds
       /\ ListOf(c)' = list
       /\ \A x \in ClientIds : /\ record'[x].seqid = record[x].seqid
                               /\ record'[x].owner = record[x].owner
                               /\ x # c => ListOf(x)' = ListOf(x)
  BY <1>5, <1>7, OtherList
<1>11. SessionIds' = SessionIds /\ Usable' = Usable
  BY <1>7 DEF SessionIds, Usable
<1>12. /\ Listing(c)' = Listing(c) \cup {s}
       /\ \A x \in ClientIds : x # c => Listing(x)' = Listing(x)
  <2>1. 1..(n + 1) = (1..n) \cup {n + 1}
    OBVIOUS
  <2>2. Listing(c)' = {list[j] : j \in 1..(n + 1)}
    BY <1>5, <1>10 DEF Listing
  <2>3. Listing(c) = {ListOf(c)[j] : j \in 1..n}
    BY <1>5 DEF Listing
  <2> QED  BY <1>5, <1>10, <2>1, <2>2, <2>3 DEF Listing
<1>13. listed \subseteq ClientIds
  BY DEF IInv, TypeOK
<1>14. TypeOK'
  BY <1>7, <1>9, <1>10 DEF IInv, TypeOK
<1>15. IdsOK'
  <2>1. /\ \A x \in SessionIds : session[x].client \in ClientIds /\ session[x].sid[1] = session[x].client
        /\ \A x \in ClientIds : \A y \in Listing(x) : y \in SessionIds /\ session[y].client = x
        /\ \A sid \in DOMAIN sessions :
             sessions[sid] \in SessionIds /\ session[sessions[sid]].sid = sid
    BY DEF IInv, IdsOK
  <2>2. \A x \in ClientIds : \A y \in Listing(x)' : y \in SessionIds /\ session[y].client = x
    BY <1>2, <1>3, <1>12, <2>1
  <2> QED  BY <1>7, <1>10, <1>11, <2>1, <2>2 DEF IdsOK
<1>16. SeqidsOK' /\ OwnersAgree'
  BY <1>7, <1>10, <1>11, <1>13 DEF IInv, SeqidsOK, OwnersAgree
<1>17. OwnersOK'
  <2>1. \A o \in Owners : byOwner[o] \in ClientIds \cup {None}
    BY DEF IInv, TypeOK
  <2> QED  BY <1>7, <1>10, <2>1 DEF IInv, OwnersOK
<1>18. UsableIsListed'
  <2> SUFFICES ASSUME NEW u \in Range(sessions), session[u].client \in listed
               PROVE  u \in Range(record'[session[u].client].sessions)
    BY <1>7 DEF UsableIsListed
  <2>1. u \in Range(ListOf(session[u].client))
    BY DEF IInv, UsableIsListed, ListOf
  <2> PICK d \in ClientIds : d = session[u].client
    BY <1>13
  <2>2. CASE d = c
    <3>1. DOMAIN ListOf(c) = 1..n /\ DOMAIN list = 1..(n + 1)
      BY <1>5, Tables DEF IInv
    <3>2. PICK j \in 1..n : ListOf(c)[j] = u
      BY <2>1, <2>2, <3>1 DEF Range
    <3>3. u \in Range(list)
      BY SMTT(40), <1>5, <3>1, <3>2 DEF Range
    <3> QED  BY <1>10, <2>2, <3>3 DEF ListOf
  <2>3. CASE d # c
    BY <1>10, <2>1, <2>3 DEF ListOf
  <2> QED  BY <2>2, <2>3
<1>19. ASSUME NEW u \in Threads, u # t
       PROVE  ThreadOK(u)' /\ PairOK(t, u)' /\ PairOK(u, t)'
  <2>1. RebootOK(u) /\ DiscardOK(u) /\ CreateOK(u) /\ DestroyOK(u) /\ PairOK(t, u) /\ PairOK(u, t)
    BY <1>19 DEF IInv, ThreadsOK, ThreadOK, PairsOK
  <2>2. thread'[u] = thread[u]
    BY <1>9, <1>19
  <2>3. RebootOK(u)'
    BY <1>7, <1>10, <1>11, <1>13, <2>1, <2>2 DEF RebootOK
  <2>4. DiscardOK(u)'
    <3>1. thread[u].pc \in {"discard", "replace"} => thread[u].client \in ClientIds
      BY <1>13, <2>1 DEF RebootOK
    <3>2. thread[u].pc = "discard" => thread[u].i \in Nat
      BY States DEF IInv
    <3>3. ASSUME thread[u].pc = "discard", thread[u].client = c
          PROVE  /\ thread[u].i <= n + 2
                 /\ \A j \in 1..(n + 1) : j < thread[u].i => list[j] \notin Usable
                 /\ \A x \in thread[u].old \cap Usable :
                      \E j \in 1..(n + 1) : thread[u].i <= j /\ list[j] = x
      BY <1>5, <2>1, <3>2, <3>3 DEF DiscardOK
    <3>4. PICK d : d = thread[u].client
      OBVIOUS
    <3>5. CASE d = c
      <4>1. record'[d].sessions = list /\ Len(list) = n + 1
        BY <1>5, <1>10, <3>5 DEF ListOf
      <4>2. thread'[u].pc = "discard" => DiscardOK(u)'
        BY <1>11, <2>2, <3>2, <3>3, <3>4, <3>5, <4>1 DEF DiscardOK, ListOf
      <4>3. thread'[u].pc # "discard" => DiscardOK(u)'
        BY <1>11, <2>1, <2>2 DEF DiscardOK
      <4> QED  BY <4>2, <4>3
    <3>6. CASE d # c
      BY <1>10, <1>11, <2>1, <2>2, <3>1, <3>4, <3>6 DEF DiscardOK, ListOf
    <3> QED  BY <3>5, <3>6
  <2>5. CreateOK(u)' /\ DestroyOK(u)'
    BY <1>7, <1>10, <1>11, <1>12, <2>1, <2>2 DEF CreateOK, DestroyOK, Building
  <2>6. ASSUME thread[u].pc = "discard"
        PROVE  \A j \in 1..Len(record'[thread[u].client].sessions) :
                 j < thread[u].i => s # record'[thread[u].client].sessions[j]
    <3>1. thread[u].client \in ClientIds
      BY <1>13, <2>1, <2>6 DEF RebootOK
    <3>2. thread[u].i \in Nat /\ thread[u].i <= Len(ListOf(thread[u].client)) + 1
      BY <2>1, <2>6, States DEF IInv, DiscardOK
    <3>3. \A j \in 1..Len(ListOf(thread[u].client)) :
            j < thread[u].i => s # ListOf(thread[u].client)[j]
      BY <1>1, <1>2, <1>3, <2>1, <2>6 DEF PairOK
    <3>4. CASE thread[u].client = c
      <4>1. ASSUME NEW j \in 1..(n + 1), j < thread[u].i
            PROVE  s # list[j]
        BY <1>5, <3>2, <3>3, <3>4, <4>1
      <4> QED  BY <1>5, <1>10, <3>4, <4>1 DEF ListOf
    <3>5. CASE thread[u].client # c
      BY <1>10, <3>1, <3>3, <3>5 DEF ListOf
    <3> QED  BY <3>4, <3>5
  <2>7. PairOK(t, u)' /\ PairOK(u, t)'
    BY <1>1, <1>2, <1>3, <1>7, <1>8, <1>9, <2>1, <2>2, <2>6
       DEF PairOK, Creating, IsIdle, Building, ListOf
  <2> QED  BY <2>3, <2>4, <2>5, <2>7 DEF ThreadOK
<1>20. ThreadOK(t)'
  <2>1. CreateOK(t)
    BY DEF IInv, ThreadsOK, ThreadOK
  <2> QED  BY <1>1, <1>2, <1>3, <1>7, <1>8, <1>9, <1>10, <1>11, <1>12, <2>1
           DEF ThreadOK, RebootOK, DiscardOK, CreateOK, DestroyOK, Building
<1>21. ASSUME NEW u \in Threads, NEW v \in Threads, u # t, v # t, u # v
       PROVE  PairOK(u, v)'
  <2>1. thread'[u] = thread[u] /\ thread'[v] = thread[v] /\ PairOK(u, v)
    BY <1>9, <1>21 DEF IInv, ThreadsOK, PairsOK
  <2>2. ASSUME thread[v].pc = "discard", thread[u].pc \in {"attach", "publish", "detach"}
        PROVE  \A j \in 1..Len(record'[thread[v].client].sessions) :
                 j < thread[v].i => thread[u].session # record'[thread[v].client].sessions[j]
    <3>1. thread[v].client \in ClientIds /\ DiscardOK(v)
      BY <1>13, <2>2 DEF RebootOK, IInv, ThreadsOK, ThreadOK
    <3>2. thread[v].i \in Nat /\ thread[v].i <= Len(ListOf(thread[v].client)) + 1
      BY <2>2, <3>1, States DEF IInv, DiscardOK
    <3>3. \A j \in 1..Len(ListOf(thread[v].client)) :
            j < thread[v].i => thread[u].session # ListOf(thread[v].client)[j]
      BY <2>1, <2>2 DEF PairOK
    <3>4. CASE thread[v].client = c
      <4>1. ASSUME NEW j \in 1..(n + 1), j < thread[v].i
            PROVE  thread[u].session # list[j]
        BY <1>5, <3>2, <3>3, <3>4, <4>1
      <4> QED  BY <1>5, <1>10, <3>4, <4>1 DEF ListOf
    <3>5. CASE thread[v].client # c
      BY <1>10, <3>1, <3>3, <3>5 DEF ListOf
    <3> QED  BY <3>4, <3>5
  <2> QED  BY <1>7, <2>1, <2>2 DEF PairOK, Creating, IsIdle, Building, ListOf
<1>22. ThreadsOK'
  BY <1>19, <1>20, <1>21, Together
<1> QED  BY <1>14, <1>15, <1>16, <1>17, <1>18, <1>22 DEF IInv

LEMMA DetachStep ==
  ASSUME IInv, NEW t \in Threads, UNCHANGED workload, DetachFromClient(t)
  PROVE  IInv'
<1>1. PICK e : e = thread[t]
  OBVIOUS
<1>2. /\ e.pc = "detach" /\ e.session \in SessionIds /\ e.session \notin Usable
  BY <1>1 DEF DetachFromClient, IInv, ThreadsOK, ThreadOK, DestroyOK
<1>3. PICK s \in SessionIds : s = e.session
  BY <1>2
<1>4. PICK c \in ClientIds : c = session[s].client
  BY DEF IInv, IdsOK
<1>5. /\ thread' = [thread EXCEPT ![t] = Idle]
      /\ UNCHANGED <<listed, byOwner, session, sessions, lock>>
  BY DEF DetachFromClient, Finish, Answer
<1>6. PICK n \in Nat : n = Len(ListOf(c)) /\ ListOf(c) \in Seq(Nat) /\ DOMAIN ListOf(c) = 1..n
  BY Tables DEF IInv
<1>7. CASE s \notin Range(ListOf(c))
  <2>1. record' = record
    BY <1>1, <1>3, <1>4, <1>7 DEF DetachFromClient, ListOf
  <2>2. \A x \in DOMAIN sessions' : x \in DOMAIN sessions /\ sessions'[x] = sessions[x]
    BY <1>5
  <2> QED  BY <1>5, <2>1, <2>2, GoesIdle
<1>8. CASE s \in Range(ListOf(c))
  <2>1. PICK m \in 1..n : ListOf(c)[m] = s
    BY <1>6, <1>8 DEF Range
  <2>2. PICK list : list = RemoveFirst(ListOf(c), s)
    OBVIOUS
  <2>3. PICK k \in 1..n :
          /\ ListOf(c)[k] = s /\ list \in Seq(Nat) /\ Len(list) = n - 1
          /\ \A j \in 1..(n - 1) : list[j] = IF j < k THEN ListOf(c)[j] ELSE ListOf(c)[j + 1]
    <3>1. PICK q \in Seq(Nat) : q = ListOf(c) /\ Len(q) = n
      BY <1>6
    <3>2. m \in 1..Len(q) /\ q[m] = s
      BY <2>1, <3>1
    <3>3. /\ RemoveFirst(q, s) \in Seq(Nat)
          /\ \E k \in 1..Len(q) : q[k] = s /\ Without(q, k, RemoveFirst(q, s))
      BY <3>2, RemovedFirst
    <3> QED  BY <2>2, <3>1, <3>3 DEF Without
  <2>4. record' = [record EXCEPT ![c].sessions = list]
    BY <1>1, <1>3, <1>4, <1>8, <2>2 DEF DetachFromClient, ListOf
  <2>5. /\ record' \in Seq(Records) /\ ClientIds' = ClientIds
        /\ ListOf(c)' = list
        /\ \A x \in ClientIds : /\ record'[x].seqid = record[x].seqid
                                /\ record'[x].owner = record[x].owner
                                /\ x # c => ListOf(x)' = ListOf(x)
    BY <2>3, <2>4, OtherList
  <2>6. SessionIds' = SessionIds /\ Usable' = Usable
    BY <1>5 DEF SessionIds, Usable
  <2>7. \A j \in 1..(n - 1) : \E i \in 1..n : list[j] = ListOf(c)[i]
    <3> SUFFICES ASSUME NEW j \in 1..(n - 1)
                 PROVE  \E i \in 1..n : list[j] = ListOf(c)[i]
      OBVIOUS
    <3>1. j \in 1..n /\ j + 1 \in 1..n
      OBVIOUS
    <3> QED  BY <2>3, <3>1
  <2>8. \A i \in 1..n : ListOf(c)[i] # s => \E j \in 1..(n - 1) : list[j] = ListOf(c)[i]
    <3> SUFFICES ASSUME NEW i \in 1..n, ListOf(c)[i] # s
                 PROVE  \E j \in 1..(n - 1) : list[j] = ListOf(c)[i]
      OBVIOUS
    <3>1. CASE i < k
      <4>1. i \in 1..(n - 1) /\ list[i] = ListOf(c)[i]
        BY <2>3, <3>1
      <4> QED  BY <4>1
    <3>2. CASE i > k
      <4>1. i - 1 \in 1..(n - 1) /\ ~(i - 1 < k) /\ (i - 1) + 1 = i
        BY <3>2
      <4>2. list[i - 1] = ListOf(c)[i]
        BY <2>3, <4>1
      <4> QED  BY <4>1, <4>2
    <3> QED  BY <2>3, <3>1, <3>2
  <2>9. /\ Listing(c)' \subseteq Listing(c) /\ \A x \in Listing(c) : x # s => x \in Listing(c)'
        /\ \A x \in ClientIds : x # c => Listing(x)' = Listing(x)
    <3>1. Listing(c)' = {list[j] : j \in 1..(n - 1)}
      BY <2>3, <2>5 DEF Listing
    <3>2. Listing(c) = {ListOf(c)[j] : j \in 1..n}
      BY <1>6 DEF Listing
    <3>3. /\ Listing(c)' \subseteq Listing(c)
          /\ \A x \in Listing(c) : x # s => x \in Listing(c)'
      BY <2>7, <2>8, <3>1, <3>2
    <3> QED  BY SMTT(40), <2>5, <3>3 DEF Listing
  <2>10. listed \subseteq ClientIds
    BY DEF IInv, TypeOK
  \* What a thread that discards has behind it is still there.
  <2>11. ASSUME NEW u \in Threads, u # t, thread[u].pc = "discard", thread[u].client = c
         PROVE  /\ thread[u].i \in Nat \ {0} /\ thread[u].i <= k
                /\ \A j \in 1..(n - 1) : j < thread[u].i => j \in 1..n /\ list[j] = ListOf(c)[j]
    <3>1. thread[u].i \in Nat \ {0} /\ thread[u].i <= n + 1
      BY <1>6, <2>11, States DEF IInv, ThreadsOK, ThreadOK, DiscardOK
    <3>2. \A j \in 1..n : j < thread[u].i => s # ListOf(c)[j]
      BY <1>1, <1>2, <1>3, <1>6, <2>11 DEF IInv, ThreadsOK, PairsOK, PairOK
    <3>3. thread[u].i <= k
      BY <2>3, <3>1, <3>2
    <3> QED  BY <2>3, <3>1, <3>3
  <2>12. ASSUME NEW u \in Threads, u # t, thread'[u] = thread[u]
         PROVE  ThreadOK(u)'
    <3>1. RebootOK(u) /\ DiscardOK(u) /\ CreateOK(u) /\ DestroyOK(u) /\ PairOK(u, t)
      BY <2>12 DEF IInv, ThreadsOK, ThreadOK, PairsOK
    <3>2. RebootOK(u)'
      BY <1>5, <2>5, <2>6, <2>10, <2>12, <3>1 DEF RebootOK
    <3>3. DiscardOK(u)'
      <4>1. thread[u].pc \in {"discard", "replace"} => thread[u].client \in ClientIds
        BY <2>10, <3>1 DEF RebootOK
      <4>2. CASE thread[u].pc = "discard" /\ thread[u].client = c
        <5>1. PICK i \in Nat \ {0} : i = thread[u].i
          BY <2>11, <2>12, <4>2
        <5>2. \A j \in 1..(n - 1) : j < i => list[j] \notin Usable
          BY <1>6, <2>11, <2>12, <3>1, <4>2, <5>1 DEF DiscardOK
        <5>3. ASSUME NEW x \in thread[u].old \cap Usable
              PROVE  \E j \in 1..(n - 1) : i <= j /\ list[j] = x
          <6>1. PICK j \in 1..n : i <= j /\ ListOf(c)[j] = x
            BY <1>6, <3>1, <4>2, <5>1, <5>3 DEF DiscardOK
          <6>2. x # s
            BY <1>2, <1>3
          <6>3. CASE j < k
            <7>1. j \in 1..(n - 1) /\ list[j] = x
              BY <2>3, <6>1, <6>3
            <7> QED  BY <6>1, <7>1
          <6>4. CASE j > k
            <7>1. j - 1 \in 1..(n - 1) /\ ~(j - 1 < k) /\ (j - 1) + 1 = j
              BY <6>4
            <7>2. list[j - 1] = x
              BY <2>3, <6>1, <7>1
            <7>3. i <= k
              BY <2>11, <2>12, <4>2, <5>1
            <7>4. i <= j - 1
              BY <6>4, <7>3
            <7> QED  BY <7>1, <7>2, <7>4
          <6> QED  BY <2>3, <6>1, <6>2, <6>3, <6>4
        <5>4. i <= n
          BY <2>11, <2>12, <4>2, <5>1
        <5>5. record'[c].sessions = list /\ Len(list) = n - 1 /\ i <= (n - 1) + 1
          BY <2>3, <2>5, <5>4 DEF ListOf
        <5> QED  BY <2>6, <2>12, <4>2, <5>1, <5>2, <5>3, <5>5 DEF DiscardOK, ListOf
      <4>3. CASE thread[u].pc = "discard" /\ thread[u].client # c
        BY ZenonT(40), <2>5, <2>6, <2>12, <3>1, <4>1, <4>3 DEF DiscardOK, ListOf
      <4>4. CASE thread[u].pc # "discard"
        BY <2>6, <2>12, <3>1, <4>4 DEF DiscardOK
      <4> QED  BY <4>2, <4>3, <4>4
    <3>4. thread[u].pc = "publish" => thread[u].session # s
      BY <1>1, <1>2, <1>3, <3>1 DEF PairOK
    <3>5. CreateOK(u)' /\ DestroyOK(u)'
      <4>1. \A x \in Listing(thread[u].client) :
              x # s /\ thread[u].client \in ClientIds => x \in Listing(thread[u].client)'
        BY <2>9, <2>12
      <4> QED  BY <1>5, <2>5, <2>6, <2>9, <2>12, <3>1, <3>4 DEF CreateOK, DestroyOK, Building
    <3> QED  BY <3>2, <3>3, <3>5 DEF ThreadOK
  <2>13. ASSUME NEW u \in Threads, NEW v \in Threads, u # t, v # t, u # v,
                thread'[u] = thread[u], thread'[v] = thread[v]
         PROVE  PairOK(u, v)'
    <3>1. PairOK(u, v) /\ RebootOK(v)
      BY <2>13 DEF IInv, ThreadsOK, ThreadOK, PairsOK
    <3>2. ASSUME thread[v].pc = "discard", thread[u].pc \in {"attach", "publish", "detach"}
          PROVE  \A j \in 1..Len(record'[thread[v].client].sessions) :
                   j < thread[v].i => thread[u].session # record'[thread[v].client].sessions[j]
      <4>1. thread[v].client \in ClientIds
        BY <2>10, <3>1, <3>2 DEF RebootOK
      <4>2. \A j \in 1..Len(ListOf(thread[v].client)) :
              j < thread[v].i => thread[u].session # ListOf(thread[v].client)[j]
        BY <3>1, <3>2 DEF PairOK
      <4>3. CASE thread[v].client = c
        <5>1. ASSUME NEW j \in 1..(n - 1), j < thread[v].i
              PROVE  thread[u].session # list[j]
          BY <1>6, <2>11, <2>13, <3>2, <4>2, <4>3, <5>1
        <5> QED  BY <2>3, <2>5, <4>3, <5>1 DEF ListOf
      <4>4. CASE thread[v].client # c
        BY <2>5, <4>1, <4>2, <4>4 DEF ListOf
      <4> QED  BY <4>3, <4>4
    <3> QED  BY <1>5, <2>13, <3>1, <3>2 DEF PairOK, Creating, IsIdle, Building, ListOf
  <2>14. ThreadsOK' /\ thread' \in [Threads -> ThreadStates]
    BY <1>5, <2>12, <2>13, EndedOK
  <2>15. TypeOK'
    BY <1>5, <2>5, <2>14 DEF IInv, TypeOK
  <2>16. IdsOK'
    BY <1>5, <2>5, <2>6, <2>9 DEF IInv, IdsOK
  <2>17. SeqidsOK' /\ OwnersAgree'
    BY <1>5, <2>5, <2>6, <2>10 DEF IInv, SeqidsOK, OwnersAgree
  <2>18. OwnersOK'
    <3>1. \A o \in Owners : byOwner[o] \in ClientIds \cup {None}
      BY DEF IInv, TypeOK
    <3> QED  BY <1>5, <2>5, <3>1 DEF IInv, OwnersOK
  <2>19. UsableIsListed'
    <3> SUFFICES ASSUME NEW u \in Range(sessions), session[u].client \in listed
                 PROVE  u \in Range(record'[session[u].client].sessions)
      BY <1>5 DEF UsableIsListed
    <3>1. u \in Range(ListOf(session[u].client)) /\ u # s
      BY <1>2, <1>3, UsableIsInRange DEF IInv, UsableIsListed, ListOf
    <3> PICK d \in ClientIds : d = session[u].client
      BY <2>10
    <3>2. CASE d = c
      <4>1. PICK i \in 1..n : ListOf(c)[i] = u
        BY <1>6, <3>1, <3>2 DEF Range
      <4>2. PICK j \in 1..(n - 1) : list[j] = u
        BY <2>8, <3>1, <4>1
      <4>3. DOMAIN list = 1..(n - 1)
        BY <2>3
      <4>4. u \in Range(list)
        BY <4>2, <4>3 DEF Range
      <4> QED  BY <2>5, <3>2, <4>4 DEF ListOf
    <3>3. CASE d # c
      BY <2>5, <3>1, <3>3 DEF ListOf
    <3> QED  BY <3>2, <3>3
  <2> QED  BY <2>14, <2>15, <2>16, <2>17, <2>18, <2>19 DEF IInv
<1> QED  BY <1>7, <1>8

LEMMA SessionRecordStep ==
  ASSUME IInv, NEW t \in Threads, UNCHANGED workload, SessionRecord(t)
  PROVE  IInv'
<1>1. PICK e : e = thread[t]
  OBVIOUS
<1>2. /\ e \in ThreadStates /\ e.pc = "build" /\ e.op = "CREATE_SESSION" /\ e.seq \in Nat
      /\ e.client \in ClientIds
  BY <1>1, States DEF SessionRecord, IInv, ThreadsOK, ThreadOK, CreateOK
<1>3. PICK c \in ClientIds, seqid \in Nat : c = e.client /\ seqid = record[c].seqid
  BY <1>2, Tables DEF IInv
<1>4. c \in Nat
  BY Tables DEF IInv
<1>5. PICK sid : sid = <<c, seqid>>
  OBVIOUS
<1>6. sid \in Nat \X Nat /\ sid[1] = c /\ sid[2] = seqid
  BY <1>4, <1>5
<1>7. PICK s : s = [client |-> c, sid |-> sid]
  OBVIOUS
<1>8. s \in SessionRecords /\ s.client = c /\ s.sid = sid
  BY <1>4, <1>6, <1>7 DEF SessionRecords
<1>9. PICK n \in Nat : n = Len(session) + 1 /\ SessionIds = 1..(n - 1)
  BY Tables DEF IInv, SessionIds
<1>10. PICK f : f = [pc |-> "attach", op |-> "CREATE_SESSION", client |-> c, seq |-> e.seq,
                     session |-> n]
  OBVIOUS
<1>11. /\ thread' = [thread EXCEPT ![t] = f] /\ UNCHANGED <<record, listed, byOwner, sessions, lock>>
       /\ session' = Append(session, s)
  BY <1>1, <1>3, <1>5, <1>7, <1>9, <1>10 DEF SessionRecord, Continue
<1>12. /\ f \in ThreadStates /\ f.pc = "attach" /\ f.op = "CREATE_SESSION" /\ f.client = c
       /\ f.seq = e.seq /\ f.session = n
  BY <1>2, <1>4, <1>10 DEF ThreadStates
<1>13. /\ thread' \in [Threads -> ThreadStates] /\ thread'[t] = f
       /\ \A u \in Threads : u # t => thread'[u] = thread[u]
  BY <1>11, <1>12, GoesTo DEF IInv
<1>14. /\ session' \in Seq(SessionRecords) /\ SessionIds' = SessionIds \cup {n} /\ n \notin SessionIds
       /\ session'[n] = s /\ \A x \in SessionIds : session'[x] = session[x]
  <2>1. session \in Seq(SessionRecords)
    BY DEF IInv, TypeOK
  <2>2. /\ session' \in Seq(SessionRecords) /\ Len(session') = n
        /\ session'[n] = s /\ \A x \in 1..Len(session) : session'[x] = session[x]
    BY <1>8, <1>9, <1>11, <2>1, Appended
  <2>3. SessionIds' = 1..n /\ Len(session) = n - 1
    BY <1>9, <2>1, <2>2 DEF SessionIds
  <2> QED  BY <1>9, <2>2, <2>3
<1>15. /\ ClientIds' = ClientIds /\ Usable' = Usable /\ Usable \subseteq SessionIds
       /\ \A x : ListOf(x)' = ListOf(x) /\ Listing(x)' = Listing(x)
  BY <1>11 DEF ClientIds, Usable, ListOf, Listing, IInv, IdsOK
<1>16. /\ c \in listed => seqid = e.seq
       /\ c \in listed =>
            \A x \in SessionIds : session[x].client = c => session[x].sid[2] < seqid
  BY <1>1, <1>2, <1>3 DEF IInv, ThreadsOK, ThreadOK, CreateOK, Building
<1>17. TypeOK'
  BY <1>11, <1>13, <1>14, <1>15 DEF IInv, TypeOK
<1>18. IdsOK'
  <2>1. /\ \A x \in SessionIds : session[x].client \in ClientIds /\ session[x].sid[1] = session[x].client
        /\ \A x \in ClientIds : \A y \in Listing(x) : y \in SessionIds /\ session[y].client = x
        /\ \A x \in DOMAIN sessions : sessions[x] \in SessionIds /\ session[sessions[x]].sid = x
    BY DEF IInv, IdsOK
  <2>2. \A x \in SessionIds \cup {n} :
          session'[x].client \in ClientIds /\ session'[x].sid[1] = session'[x].client
    BY <1>6, <1>8, <1>14, <2>1
  <2>3. \A x \in ClientIds : \A y \in Listing(x) :
          y \in SessionIds \cup {n} /\ session'[y].client = x
    BY <1>14, <2>1
  <2>4. \A x \in DOMAIN sessions :
          sessions[x] \in SessionIds \cup {n} /\ session'[sessions[x]].sid = x
    BY <1>14, <2>1
  <2> QED  BY <1>11, <1>14, <1>15, <2>2, <2>3, <2>4 DEF IdsOK
<1>19. SeqidsOK'
  <2>1. ASSUME c \in listed, NEW x \in SessionIds
        PROVE  session[x].sid # sid
    <3>1. session[x].client = session[x].sid[1]
      BY DEF IInv, IdsOK
    <3>2. session[x].sid \in Nat \X Nat
      BY Tables DEF IInv
    <3> QED  BY <1>6, <1>16, <2>1, <3>1, <3>2
  <2>2. ASSUME NEW d \in listed, NEW x \in SessionIds, session[x].client = d
        PROVE  /\ session[x].sid[2] <= record[d].seqid
               /\ \A u \in SessionIds \cup {n} : session'[u].sid = session[x].sid => u = x
    <3>1. /\ session[x].sid[2] <= record[d].seqid
          /\ \A u \in SessionIds : session[u].sid = session[x].sid => u = x
      BY <2>2 DEF IInv, SeqidsOK
    <3>2. session[x].sid # sid
      <4>1. session[x].sid[1] = d
        BY <2>2 DEF IInv, IdsOK
      <4> QED  BY <1>6, <2>1, <2>2, <4>1
    <3> QED  BY <1>8, <1>14, <3>1, <3>2
  <2>3. ASSUME c \in listed
        PROVE  /\ sid[2] <= record[c].seqid
               /\ \A u \in SessionIds \cup {n} : session'[u].sid = sid => u = n
    BY <1>3, <1>6, <1>14, <2>1, <2>3
  <2>4. ASSUME NEW d \in listed, NEW x \in SessionIds \cup {n}, session'[x].client = d
        PROVE  /\ session'[x].sid[2] <= record[d].seqid
               /\ \A u \in SessionIds \cup {n} : session'[u].sid = session'[x].sid => u = x
    <3>1. CASE x = n
      BY <1>8, <1>14, <2>3, <2>4, <3>1
    <3>2. CASE x \in SessionIds
      <4>1. session'[x] = session[x]
        BY <1>14, <3>2
      <4> QED  BY <2>2, <2>4, <3>2, <4>1
    <3> QED  BY <2>4, <3>1, <3>2
  <2> QED  BY <1>11, <1>14, <2>4 DEF SeqidsOK
<1>20. OwnersAgree' /\ OwnersOK'
  BY <1>11 DEF IInv, OwnersAgree, OwnersOK
<1>21. UsableIsListed'
  <2>1. \A u \in Range(sessions) : session'[u] = session[u]
    BY <1>14, <1>15, UsableIsInRange
  <2> QED  BY <1>11, <2>1 DEF IInv, UsableIsListed
<1>22. ASSUME NEW u \in Threads, u # t
       PROVE  ThreadOK(u)' /\ PairOK(t, u)' /\ PairOK(u, t)'
  <2>1. /\ RebootOK(u) /\ DiscardOK(u) /\ CreateOK(u) /\ DestroyOK(u)
        /\ PairOK(t, u) /\ PairOK(u, t) /\ thread'[u] = thread[u]
    BY <1>13, <1>22 DEF IInv, ThreadsOK, ThreadOK, PairsOK
  <2>2. RebootOK(u)'
    BY <1>11, <1>14, <2>1 DEF RebootOK
  <2>3. DiscardOK(u)'
    BY <1>15, <2>1 DEF DiscardOK
  <2>4. DestroyOK(u)'
    BY <1>14, <1>15, <2>1 DEF DestroyOK
  <2>5. CreateOK(u)'
    <3>1. thread[u].pc = "build" /\ thread[u].client = c => c \notin listed
      BY <1>1, <1>2, <1>3, <2>1, WhoCreates DEF PairOK, Building, IInv
    <3>2. ASSUME thread[u].pc = "build", thread[u].client \in listed,
                 NEW x \in SessionIds \cup {n}, session'[x].client = thread[u].client
          PROVE  session'[x].sid[2] < thread[u].seq
      <4>1. x # n
        BY <1>8, <1>14, <3>1, <3>2
      <4>2. x \in SessionIds /\ session'[x] = session[x]
        BY <1>14, <3>2, <4>1
      <4> QED  BY <2>1, <3>2, <4>2 DEF CreateOK
    <3>3. /\ thread[u].pc \in {"sequence", "build", "attach", "publish"} =>
                thread[u].client \in ClientIds
          /\ Building(u) /\ thread[u].client \in listed =>
               record[thread[u].client].seqid = thread[u].seq
          /\ thread[u].pc \in {"attach", "publish"} =>
               /\ thread[u].session \in SessionIds
               /\ session'[thread[u].session].client = thread[u].client
               /\ thread[u].session \notin Usable
          /\ thread[u].pc = "publish" /\ thread[u].client \in listed =>
               thread[u].session \in Listing(thread[u].client)
      BY <1>14, <2>1 DEF CreateOK
    <3>4. thread'[u] = thread[u] /\ record' = record /\ listed' = listed
      BY <1>11, <2>1
    <3>5. /\ ClientIds' = ClientIds /\ Usable' = Usable /\ SessionIds' = SessionIds \cup {n}
          /\ \A x : Listing(x)' = Listing(x)
      BY <1>14, <1>15
    <3>6. thread[u].pc = "build" /\ thread[u].client \in listed =>
            \A x \in SessionIds' :
              session'[x].client = thread[u].client => session'[x].sid[2] < thread[u].seq
      BY <3>2, <3>5
    <3>7. thread[u].pc \in {"attach", "publish"} => thread[u].session \in SessionIds'
      BY <3>3, <3>5
    <3> QED  BY <3>3, <3>4, <3>5, <3>6, <3>7 DEF CreateOK, Building
  <2>6. thread[u].pc \in {"attach", "publish", "delete", "detach"} => thread[u].session # n
    BY <1>14, <2>1 DEF CreateOK, DestroyOK
  <2>7. thread[u].pc \in {"discard", "replace"} => n \notin thread[u].old
    BY <1>14, <2>1 DEF RebootOK
  <2>8. thread[u].pc = "discard" =>
          \A j \in 1..Len(ListOf(thread[u].client)) : n # ListOf(thread[u].client)[j]
    <3>1. thread[u].pc = "discard" => thread[u].client \in ClientIds
      BY <2>1 DEF RebootOK, IInv, TypeOK
    <3> QED  BY <1>14, <3>1, InList
  <2>9. Creating(t) /\ Building(t) /\ thread[t].client = c /\ thread[t].seq = e.seq
    BY <1>1, <1>2, <1>3, WhoCreates DEF Building, IInv
  <2>10. PairOK(t, u)' /\ PairOK(u, t)'
    <3>1. Creating(t)' /\ Building(t)' /\ (Creating(u)' <=> Creating(u))
          /\ (Building(u)' <=> Building(u))
      BY <1>12, <1>13, <2>1 DEF Creating, IsIdle, Building
    <3>2. Creating(u) /\ thread[u].client = c =>
            thread[u].seq = e.seq /\ ~(Building(u) /\ c \in listed)
      BY <2>1, <2>9 DEF PairOK
    <3> QED  BY <1>11, <1>12, <1>13, <1>15, <2>1, <2>6, <2>7, <2>8, <3>1, <3>2 DEF PairOK, ListOf
  <2> QED  BY <2>2, <2>3, <2>4, <2>5, <2>10 DEF ThreadOK
<1>23. ThreadOK(t)'
  BY <1>8, <1>11, <1>12, <1>13, <1>14, <1>15, <1>16, <1>3
     DEF ThreadOK, RebootOK, DiscardOK, CreateOK, DestroyOK, Building
<1>24. ASSUME NEW u \in Threads, NEW v \in Threads, u # t, v # t, u # v
       PROVE  PairOK(u, v)'
  <2>1. thread'[u] = thread[u] /\ thread'[v] = thread[v] /\ PairOK(u, v)
    BY <1>13, <1>24 DEF IInv, ThreadsOK, PairsOK
  <2> QED  BY <1>11, <1>15, <2>1 DEF PairOK, Creating, IsIdle, Building
<1>25. ThreadsOK'
  BY <1>22, <1>23, <1>24, Together
<1> QED  BY <1>17, <1>18, <1>19, <1>20, <1>21, <1>25 DEF IInv

LEMMA ConfirmStep ==
  ASSUME IInv, NEW t \in Threads, UNCHANGED workload, ConfirmClient(t)
  PROVE  IInv'
<1>1. PICK e : e = thread[t]
  OBVIOUS
<1>2. /\ e \in ThreadStates /\ e.pc = "sequence" /\ e.op = "CREATE_SESSION" /\ e.seq \in Nat
      /\ e.client \in ClientIds
  BY <1>1, States DEF ConfirmClient, IInv, ThreadsOK, ThreadOK, CreateOK
<1>3. PICK c \in ClientIds, seqid \in Nat : c = e.client /\ seqid = record[c].seqid
  BY <1>2, Tables DEF IInv
<1>4. PICK own \in BOOLEAN : own = (record[c].confirmed \/ record[c].principal = e.principal)
  OBVIOUS
<1>5. record[c] \in Records
  BY Tables DEF IInv
<1>6. PICK r \in Records : /\ r = [record[c] EXCEPT !.seqid = e.seq, !.confirmed = own]
                           /\ r.seqid = e.seq /\ r.owner = record[c].owner
                           /\ r.sessions = record[c].sessions
  <2>1. PICK r : r = [record[c] EXCEPT !.seqid = e.seq, !.confirmed = own]
    OBVIOUS
  <2>2. /\ r \in Records /\ r.seqid = e.seq /\ r.owner = record[c].owner
        /\ r.sessions = record[c].sessions
    BY <1>2, <1>5, <2>1 DEF Records
  <2> QED  BY <2>1, <2>2
<1>7. /\ e.seq = seqid + 1 /\ UNCHANGED <<listed, byOwner, session, sessions, lock>>
      /\ record' = [record EXCEPT ![c] = r]
  BY <1>1, <1>3, <1>4, <1>6 DEF ConfirmClient
<1>8. /\ record' \in Seq(Records) /\ ClientIds' = ClientIds /\ record'[c] = r
      /\ \A x \in ClientIds : x # c => record'[x] = record[x]
  BY <1>7, OtherRecord
<1>9. \A x \in ClientIds : /\ record'[x].owner = record[x].owner
                           /\ ListOf(x)' = ListOf(x) /\ Listing(x)' = Listing(x)
                           /\ x # c => record'[x].seqid = record[x].seqid
  <2> SUFFICES ASSUME NEW x \in ClientIds
               PROVE  /\ record'[x].owner = record[x].owner
                      /\ record'[x].sessions = record[x].sessions
                      /\ x # c => record'[x].seqid = record[x].seqid
    BY DEF ListOf, Listing
  <2>1. CASE x = c
    <3>1. r.owner = record[c].owner /\ r.sessions = record[c].sessions /\ record'[c] = r
      BY <1>6, <1>8
    <3> QED  BY <2>1, <3>1
  <2>2. CASE x # c
    BY <1>8, <2>2
  <2> QED  BY <2>1, <2>2
<1>10. SessionIds' = SessionIds /\ Usable' = Usable
  BY <1>7 DEF SessionIds, Usable
<1>11. listed \subseteq ClientIds
  BY DEF IInv, TypeOK
<1>12. \A u \in Threads : u # t /\ Creating(u) /\ thread[u].client = c =>
         thread[u].seq = e.seq /\ ~(Building(u) /\ c \in listed)
  <2> SUFFICES ASSUME NEW u \in Threads, u # t, Creating(u), thread[u].client = c
               PROVE  thread[u].seq = e.seq /\ ~(Building(u) /\ c \in listed)
    OBVIOUS
  <2>1. Creating(t)
    BY <1>1, <1>2, WhoCreates DEF IInv
  <2>2. thread[u].seq = e.seq
    BY <1>1, <1>3, <2>1 DEF IInv, ThreadsOK, PairsOK, PairOK
  <2>3. Building(u) /\ c \in listed => thread[u].seq = seqid
    BY <1>3 DEF IInv, ThreadsOK, ThreadOK, CreateOK
  <2> QED  BY <1>7, <2>2, <2>3
<1>13. ASSUME NEW u \in Threads, u # t, thread'[u] = thread[u]
       PROVE  ThreadOK(u)'
  <2>1. RebootOK(u) /\ DiscardOK(u) /\ CreateOK(u) /\ DestroyOK(u)
    BY DEF IInv, ThreadsOK, ThreadOK
  <2>2. RebootOK(u)'
    BY <1>7, <1>9, <1>10, <1>11, <1>13, <2>1 DEF RebootOK
  <2>3. DiscardOK(u)'
    <3>1. thread[u].pc \in {"discard", "replace"} => thread[u].client \in ClientIds
      BY <1>11, <2>1 DEF RebootOK
    <3> QED  BY <1>9, <1>10, <1>13, <2>1, <3>1 DEF DiscardOK
  <2>4. Building(u) /\ thread[u].client = c => c \notin listed
    BY <1>12, <1>13, WhoCreates DEF IInv, Building
  <2>5. CreateOK(u)'
    BY <1>7, <1>8, <1>9, <1>10, <1>11, <1>13, <2>1, <2>4 DEF CreateOK, Building
  <2>6. DestroyOK(u)'
    BY <1>7, <1>10, <1>13, <2>1 DEF DestroyOK
  <2> QED  BY <2>2, <2>3, <2>5, <2>6 DEF ThreadOK
<1>14. ASSUME NEW u \in Threads, NEW v \in Threads, u # t, v # t, u # v,
              thread'[u] = thread[u], thread'[v] = thread[v]
       PROVE  PairOK(u, v)'
  <2>1. PairOK(u, v) /\ RebootOK(v)
    BY <1>14 DEF IInv, ThreadsOK, ThreadOK, PairsOK
  <2>2. thread[v].pc = "discard" => thread[v].client \in ClientIds
    BY <1>11, <2>1 DEF RebootOK
  <2> QED  BY <1>7, <1>9, <1>14, <2>1, <2>2 DEF PairOK, Creating, IsIdle, Building
<1>15. IdsOK' /\ UsableIsListed'
  <2>1. IdsOK'
    BY <1>7, <1>8, <1>9, <1>10 DEF IInv, IdsOK
  <2>2. UsableIsListed'
    BY <1>7, <1>9, <1>11 DEF IInv, UsableIsListed, ListOf
  <2> QED  BY <2>1, <2>2
<1>16. SeqidsOK' /\ OwnersAgree'
  <2>1. \A x \in ClientIds : record'[x].seqid \in Nat /\ record[x].seqid <= record'[x].seqid
    <3>1. \A x \in ClientIds : record[x].seqid \in Nat
      BY Tables DEF IInv
    <3> QED  BY <1>2, <1>3, <1>6, <1>7, <1>8, <1>9, <3>1
  <2>2. \A x \in listed, y \in SessionIds : session[y].client = x =>
          session[y].sid[2] <= record'[x].seqid
    <3>1. \A y \in SessionIds : session[y].sid[2] \in Nat
      BY Tables DEF IInv
    <3>2. \A x \in ClientIds : record[x].seqid \in Nat
      BY Tables DEF IInv
    <3>3. \A x \in listed, y \in SessionIds : session[y].client = x =>
            session[y].sid[2] <= record[x].seqid
      BY DEF IInv, SeqidsOK
    <3> QED  BY <1>11, <2>1, <3>1, <3>2, <3>3
  <2>3. SeqidsOK'
    BY <1>7, <1>10, <2>2 DEF IInv, SeqidsOK
  <2>4. OwnersAgree'
    BY <1>7, <1>9, <1>11 DEF IInv, OwnersAgree
  <2> QED  BY <2>3, <2>4
<1>17. OwnersOK'
  <2>1. \A o \in Owners : byOwner[o] \in ClientIds \cup {None}
    BY DEF IInv, TypeOK
  <2> QED  BY <1>7, <1>9, <2>1 DEF IInv, OwnersOK
<1>18. ASSUME thread' \in [Threads -> ThreadStates]
       PROVE  TypeOK'
  BY <1>7, <1>8, <1>18 DEF IInv, TypeOK
<1>19. CASE ~own
  <2>1. thread' = [thread EXCEPT ![t] = Idle]
    BY <1>1, <1>3, <1>4, <1>19 DEF ConfirmClient, Finish, Answer
  <2>2. ThreadsOK' /\ thread' \in [Threads -> ThreadStates]
    BY <1>13, <1>14, <2>1, EndedOK
  <2> QED  BY <1>15, <1>16, <1>17, <1>18, <2>2 DEF IInv
<1>20. CASE own
  <2>1. PICK f : f = At(t, "build")
    OBVIOUS
  <2>2. thread' = [thread EXCEPT ![t] = f]
    BY <1>1, <1>3, <1>4, <1>20, <2>1 DEF ConfirmClient, Continue
  <2>3. /\ f \in ThreadStates /\ f.pc = "build" /\ f.op = e.op /\ f.client = c /\ f.seq = e.seq
    BY <1>1, <1>2, <1>3, <2>1 DEF At, ThreadStates
  <2>4. /\ thread' \in [Threads -> ThreadStates] /\ thread'[t] = f
        /\ \A u \in Threads : u # t => thread'[u] = thread[u]
    BY <2>2, <2>3, GoesTo DEF IInv
  <2>5. ThreadOK(t)'
    <3>1. c \in listed =>
            \A x \in SessionIds : session[x].client = c => session[x].sid[2] < e.seq
      <4>1. \A x \in SessionIds : session[x].sid[2] \in Nat
        BY Tables DEF IInv
      <4>2. c \in listed =>
              \A x \in SessionIds : session[x].client = c => session[x].sid[2] <= seqid
        BY <1>3 DEF IInv, SeqidsOK
      <4> QED  BY <1>7, <4>1, <4>2
    <3> QED  BY <1>6, <1>7, <1>8, <1>10, <2>3, <2>4, <3>1
             DEF ThreadOK, RebootOK, DiscardOK, CreateOK, DestroyOK, Building
  <2>6. ASSUME NEW u \in Threads, u # t
        PROVE  PairOK(t, u)' /\ PairOK(u, t)'
    <3>1. thread'[u] = thread[u] /\ thread'[t].pc = "build" /\ thread'[t].client = c
          /\ thread'[t].seq = e.seq
      BY <2>3, <2>4, <2>6
    <3>2. /\ Creating(u)' <=> Creating(u)
          /\ Building(u)' <=> Building(u)
      BY <3>1 DEF Creating, IsIdle, Building
    <3>3. Creating(u) /\ thread[u].client = c =>
            thread[u].seq = e.seq /\ ~(Building(u) /\ c \in listed)
      BY <1>12, <2>6
    <3> QED  BY <1>7, <3>1, <3>2, <3>3 DEF PairOK
  <2>7. ThreadsOK'
    BY <1>13, <1>14, <2>4, <2>5, <2>6, Together
  <2> QED  BY <1>15, <1>16, <1>17, <1>18, <2>4, <2>7 DEF IInv
<1> QED  BY <1>19, <1>20

\* A thread that creates a session for a client that is still as it was
LEMMA StillCreating ==
  ASSUME NEW u \in Threads, thread'[u] = thread[u], NEW d, d = thread[u].client,
         CreateOK(u), UNCHANGED session, SessionIds' = SessionIds, Usable' = Usable,
         Building(u) \/ thread[u].pc = "sequence" => d \in ClientIds',
         Building(u) /\ d \in listed' =>
           d \in listed /\ record'[d] = record[d] /\ Listing(d)' = Listing(d)
  PROVE  CreateOK(u)'
BY DEF CreateOK, Building

(* A client takes the place of another one with its owner, if there is one.   *)
(* kept is what the other records have become by then.                        *)
LEMMA NewClient ==
  ASSUME IInv, NEW t \in Threads, UNCHANGED <<workload, session, sessions>>,
         lock = None \/ lock = t, lock' = None, thread' = [thread EXCEPT ![t] = Idle],
         NEW c, NEW new \in Records, new.sessions = <<>>, byOwner[new.owner] = c,
         NEW kept \in Seq(Records), Len(kept) = Len(record),
         \A x \in ClientIds : x # c => kept[x] = record[x],
         c \in ClientIds => kept[c].sessions \in {record[c].sessions, <<>>},
         record' = Append(kept, new),
         listed' = (listed \ {c}) \cup {Len(record) + 1},
         byOwner' = [byOwner EXCEPT ![new.owner] = Len(record) + 1]
  PROVE  IInv'
<1>1. PICK n \in Nat : n = Len(record) + 1 /\ ClientIds = 1..(n - 1) /\ n \notin ClientIds
  BY Tables DEF IInv
<1>2. /\ record' \in Seq(Records) /\ ClientIds' = ClientIds \cup {n} /\ record'[n] = new
      /\ \A x \in ClientIds : record'[x] = kept[x]
  <2>1. /\ record' \in Seq(Records) /\ Len(record') = n /\ record'[n] = new
        /\ \A x \in 1..Len(kept) : record'[x] = kept[x]
    BY <1>1, Appended
  <2>2. ClientIds' = 1..n /\ Len(kept) = n - 1
    BY <1>1, <2>1, Tables DEF ClientIds, IInv
  <2> QED  BY <1>1, <2>1, <2>2
<1>3. \A x \in ClientIds : /\ x # c => record'[x] = record[x] /\ Listing(x)' = Listing(x)
                           /\ Listing(x)' \subseteq Listing(x)
  <2>1. ASSUME NEW x \in ClientIds, x # c
        PROVE  record'[x] = record[x] /\ Listing(x)' = Listing(x)
    <3>1. record'[x] = record[x]
      BY <1>2, <2>1
    <3> QED  BY <3>1 DEF Listing, ListOf
  <2>2. ASSUME c \in ClientIds
        PROVE  Listing(c)' \subseteq Listing(c)
    <3>1. record'[c].sessions = record[c].sessions \/ record'[c].sessions = <<>>
      BY <1>2, <2>2
    <3>2. CASE record'[c].sessions = record[c].sessions
      BY <3>2 DEF Listing, ListOf
    <3>3. CASE record'[c].sessions = <<>>
      <4>1. Len(record'[c].sessions) = 0
        BY <3>3
      <4> QED  BY <4>1 DEF Listing, ListOf
    <3> QED  BY <3>1, <3>2, <3>3
  <2> QED  BY <2>1, <2>2
<1>4. Listing(n)' = {}
  <2>1. record'[n].sessions = <<>> /\ Len(record'[n].sessions) = 0
    BY <1>2
  <2> QED  BY <2>1 DEF Listing, ListOf
<1>5. SessionIds' = SessionIds /\ Usable' = Usable
  BY DEF SessionIds, Usable
<1>6. listed \subseteq ClientIds /\ \A x \in listed' : x = n \/ (x \in listed /\ x # c)
  BY <1>1 DEF IInv, TypeOK
<1>7. new.owner \in Owners
  BY DEF Records
<1>8. \A o \in Owners : byOwner'[o] = IF o = new.owner THEN n ELSE byOwner[o]
  BY <1>1, <1>7 DEF IInv, TypeOK
<1>9. \A u \in Threads : u # t => ~(thread[u].pc \in {"discard", "replace"})
  BY WhoReboots
<1>10. \A u \in Threads : u # t /\ thread'[u] = thread[u] => ThreadOK(u)'
  <2> SUFFICES ASSUME NEW u \in Threads, u # t, thread'[u] = thread[u]
               PROVE  ThreadOK(u)'
    OBVIOUS
  <2>1. CreateOK(u) /\ DestroyOK(u)
    BY DEF IInv, ThreadsOK, ThreadOK
  <2>2. RebootOK(u)' /\ DiscardOK(u)'
    BY <1>9 DEF RebootOK, DiscardOK
  <2>3. DestroyOK(u)'
    BY <1>5, <2>1 DEF DestroyOK
  <2>4. CreateOK(u)'
    <3>1. PICK d : d = thread[u].client
      OBVIOUS
    <3>2. Creating(u) <=> thread[u].pc \in {"sequence", "build", "attach", "publish"}
      BY WhoCreates DEF IInv
    <3>3. Creating(u) => d \in ClientIds
      BY <2>1, <3>1, <3>2 DEF CreateOK
    <3>4. Creating(u) /\ d \in listed' =>
            d \in listed /\ record'[d] = record[d] /\ Listing(d)' = Listing(d)
      BY <1>1, <1>3, <1>6, <3>3
    <3>5. thread'[u] = thread[u] /\ thread[u].client = d /\ session' = session
          /\ SessionIds' = SessionIds /\ Usable' = Usable /\ (d \in ClientIds => d \in ClientIds')
      BY <1>2, <1>5, <3>1
    <3>6. Building(u) => thread[u].pc \in {"build", "attach", "publish"}
      BY DEF Building
    <3> QED  BY <2>1, <3>1, <3>2, <3>3, <3>4, <3>5, <3>6, StillCreating
  <2> QED  BY <2>2, <2>3, <2>4 DEF ThreadOK
<1>11. ASSUME NEW u \in Threads, NEW v \in Threads, u # t, v # t, u # v,
              thread'[u] = thread[u], thread'[v] = thread[v]
       PROVE  PairOK(u, v)'
  <2>1. PairOK(u, v)
    BY <1>11 DEF IInv, ThreadsOK, PairsOK
  <2>2. thread[v].pc \notin {"discard", "replace"}
    BY <1>9, <1>11
  <2>3. Creating(u) => (thread[u].client \in listed' => thread[u].client \in listed)
    <3>1. Creating(u) => thread[u].client \in ClientIds
      BY WhoCreates DEF CreateOK, IInv, ThreadsOK, ThreadOK
    <3> QED  BY <1>1, <1>6, <3>1
  <2>4. (Creating(u)' <=> Creating(u)) /\ (Creating(v)' <=> Creating(v))
    BY <1>11 DEF Creating, IsIdle
  <2> QED  BY <1>11, <2>1, <2>2, <2>3, <2>4 DEF PairOK, Building
<1>12. ThreadsOK' /\ thread' \in [Threads -> ThreadStates]
  BY <1>10, <1>11, EndedOK
<1>13. TypeOK'
  <2>1. listed' \in SUBSET ClientIds' /\ lock' \in Threads \cup {None}
    BY <1>1, <1>2, <1>6
  <2>2. byOwner' \in [Owners -> ClientIds' \cup {None}]
    BY <1>1, <1>2 DEF IInv, TypeOK
  <2> QED  BY <1>2, <1>12, <2>1, <2>2 DEF IInv, TypeOK
<1>14. IdsOK'
  BY <1>2, <1>3, <1>4, <1>5 DEF IInv, IdsOK
<1>15. SeqidsOK'
  <2> SUFFICES ASSUME NEW x \in listed', NEW s \in SessionIds, session[s].client = x
               PROVE  /\ session[s].sid[2] <= record'[x].seqid
                      /\ \A u \in SessionIds : session[u].sid = session[s].sid => u = s
    BY ZenonT(40), <1>5 DEF SeqidsOK
  <2>1. x \in ClientIds
    BY DEF IInv, IdsOK
  <2>2. x \in listed /\ x # c
    BY <1>1, <1>6, <2>1
  <2>3. record'[x] = record[x]
    BY <1>3, <2>1, <2>2
  <2> QED  BY <2>2, <2>3 DEF IInv, SeqidsOK
<1>16. OwnersAgree'
  <2>1. ASSUME NEW x \in listed'
        PROVE  byOwner'[record'[x].owner] = x
    <3>1. CASE x = n
      BY <1>2, <1>7, <1>8, <3>1
    <3>2. CASE x # n
      <4>1. x \in listed /\ x # c /\ x \in ClientIds
        BY <1>6, <2>1, <3>2
      <4>2. byOwner[record[x].owner] = x /\ record'[x] = record[x] /\ record[x].owner \in Owners
        BY <1>3, <4>1, Tables DEF IInv, OwnersAgree
      <4> QED  BY <1>8, <4>1, <4>2
    <3> QED  BY <3>1, <3>2
  <2>2. ASSUME NEW o \in Owners, byOwner'[o] # None
        PROVE  byOwner'[o] \in listed'
    <3>1. CASE o = new.owner
      BY <1>1, <1>8, <3>1
    <3>2. CASE o # new.owner
      <4>1. byOwner[o] \in listed /\ record[byOwner[o]].owner = o /\ byOwner'[o] = byOwner[o]
        BY <1>8, <2>2, <3>2 DEF IInv, OwnersAgree, OwnersOK
      <4>2. byOwner[o] # c
        <5>1. c # None => record[c].owner = new.owner
          BY <1>7 DEF IInv, OwnersOK
        <5> QED  BY <2>2, <3>2, <4>1, <5>1
      <4> QED  BY <4>1, <4>2
    <3> QED  BY <3>1, <3>2
  <2> QED  BY <2>1, <2>2 DEF OwnersAgree
<1>17. OwnersOK'
  <2> SUFFICES ASSUME NEW o \in Owners, byOwner'[o] # None
               PROVE  record'[byOwner'[o]].owner = o
    BY DEF OwnersOK
  <2>1. CASE o = new.owner
    BY <1>2, <1>8, <2>1
  <2>2. CASE o # new.owner
    <3>1. /\ byOwner'[o] = byOwner[o] /\ byOwner[o] \in listed /\ byOwner[o] \in ClientIds
          /\ record[byOwner[o]].owner = o
      BY <1>6, <1>8, <2>2 DEF IInv, OwnersAgree, OwnersOK
    <3>2. byOwner[o] # c
      <4>1. c # None => record[c].owner = new.owner
        BY <1>7 DEF IInv, OwnersOK
      <4> QED  BY <2>2, <3>1, <4>1
    <3> QED  BY <1>3, <3>1, <3>2
  <2> QED  BY <2>1, <2>2
<1>18. UsableIsListed'
  <2> SUFFICES ASSUME NEW s \in Range(sessions), session[s].client \in listed'
               PROVE  s \in Range(record'[session[s].client].sessions)
    BY DEF UsableIsListed
  <2>1. s \in SessionIds /\ session[s].client \in ClientIds
    BY UsableIsInRange DEF IInv, IdsOK, Usable
  <2>2. session[s].client \in listed /\ session[s].client # c
    BY <1>1, <1>6, <2>1
  <2>3. record'[session[s].client] = record[session[s].client]
    BY <1>3, <2>1, <2>2
  <2> QED  BY <2>2, <2>3 DEF IInv, UsableIsListed
<1> QED  BY <1>12, <1>13, <1>14, <1>15, <1>16, <1>17, <1>18 DEF IInv

LEMMA NewStep ==
  ASSUME IInv, NEW t \in Threads, UNCHANGED workload, NEW owner \in Owners,
         NEW verf \in Verifiers, NEW principal \in Principals,
         ExchangeIdNew(t, owner, verf, principal)
  PROVE  IInv'
<1>1. PICK new \in Records : /\ new.owner = owner /\ new.sessions = <<>>
                             /\ new = NewRecord(owner, verf, principal)
  <2>1. /\ NewRecord(owner, verf, principal) \in Records
        /\ NewRecord(owner, verf, principal).owner = owner
        /\ NewRecord(owner, verf, principal).sessions = <<>>
    BY DEF NewRecord, Records
  <2> QED  BY <2>1
<1>2. PICK c : c = byOwner[owner]
  OBVIOUS
<1>3. PICK kept : kept = IF c = None THEN record ELSE [record EXCEPT ![c].freeze = TRUE]
  OBVIOUS
<1>4. /\ UNCHANGED <<workload, session, sessions>> /\ lock = None /\ lock' = None
      /\ thread' = [thread EXCEPT ![t] = Idle]
      /\ record' = Append(kept, new) /\ listed' = (listed \ {c}) \cup {Len(record) + 1}
      /\ byOwner' = [byOwner EXCEPT ![new.owner] = Len(record) + 1]
  BY <1>1, <1>2, <1>3
     DEF ExchangeIdNew, MayExchangeId, AnswerExchangeId, Answer, Replacement
<1>5. c \in ClientIds \cup {None} /\ record \in Seq(Records) /\ None \notin ClientIds
  BY <1>2, ClientAssumption, Tables DEF IInv, TypeOK
<1>6. /\ kept \in Seq(Records) /\ Len(kept) = Len(record)
      /\ \A x \in ClientIds : x # c => kept[x] = record[x]
      /\ c \in ClientIds => kept[c].sessions \in {record[c].sessions, <<>>}
  <2>1. CASE c = None
    BY <1>3, <1>5, <2>1
  <2>2. CASE c # None
    <3>1. c \in ClientIds /\ record[c] \in Records /\ c \in DOMAIN record /\ ClientIds = DOMAIN record
      BY <1>5, <2>2, Tables DEF IInv
    <3>2. PICK r : r = [record[c] EXCEPT !.freeze = TRUE]
      OBVIOUS
    <3>3. r \in Records /\ r.sessions = record[c].sessions
      BY <3>1, <3>2 DEF Records
    <3>4. kept = [record EXCEPT ![c] = r]
      BY <1>3, <2>2, <3>2
    <3>5. /\ kept \in Seq(Records) /\ Len(kept) = Len(record) /\ kept[c] = r
          /\ \A x \in DOMAIN record : x # c => kept[x] = record[x]
      BY <1>5, <3>1, <3>3, <3>4, Replaced
    <3> QED  BY <3>1, <3>3, <3>5
  <2> QED  BY <2>1, <2>2
<1>7. kept \in Seq(Records) /\ byOwner[new.owner] = c
  BY <1>1, <1>2, <1>6
<1> QED  BY <1>1, <1>4, <1>6, <1>7, NewClient

LEMMA ReplaceStep ==
  ASSUME IInv, NEW t \in Threads, UNCHANGED workload, ReplaceClient(t)
  PROVE  IInv'
<1>1. PICK e : e = thread[t]
  OBVIOUS
<1>2. /\ e.pc = "replace" /\ e.client \in listed /\ e.client \in ClientIds /\ e.new \in Records
      /\ e.new.owner = record[e.client].owner /\ e.new.sessions = <<>> /\ lock = t
  BY <1>1, States DEF ReplaceClient, IInv, ThreadsOK, ThreadOK, RebootOK, TypeOK
<1>3. PICK c \in ClientIds, new \in Records : c = e.client /\ new = e.new
  BY <1>2
<1>4. PICK kept : kept = [record EXCEPT ![c].seqid = 0, ![c].sessions = <<>>, ![c].freeze = TRUE]
  OBVIOUS
<1>5. /\ UNCHANGED <<workload, session, sessions>> /\ lock' = None
      /\ thread' = [thread EXCEPT ![t] = Idle]
      /\ record' = Append(kept, new) /\ listed' = (listed \ {c}) \cup {Len(record) + 1}
      /\ byOwner' = [byOwner EXCEPT ![new.owner] = Len(record) + 1]
  BY <1>1, <1>3, <1>4 DEF ReplaceClient, Finish, Answer
<1>6. byOwner[new.owner] = c
  BY <1>2, <1>3 DEF IInv, OwnersAgree
<1>7. /\ kept \in Seq(Records) /\ Len(kept) = Len(record) /\ kept[c].sessions = <<>>
      /\ \A x \in ClientIds : x # c => kept[x] = record[x]
  <2>1. /\ record[c] \in Records /\ c \in DOMAIN record /\ ClientIds = DOMAIN record
        /\ record \in Seq(Records)
    BY Tables DEF IInv, TypeOK
  <2>2. PICK r : r = [record[c] EXCEPT !.seqid = 0, !.sessions = <<>>, !.freeze = TRUE]
    OBVIOUS
  <2>3. r \in Records /\ r.sessions = <<>>
    <3>1. PICK none \in Seq(Nat) : none = <<>>
      <4>1. <<>> \in Seq(Nat)
        OBVIOUS
      <4> QED  BY <4>1
    <3>2. r = [record[c] EXCEPT !.seqid = 0, !.sessions = none, !.freeze = TRUE]
      BY <2>2, <3>1
    <3>3. r \in Records /\ r.sessions = none
      BY <2>1, <3>2 DEF Records
    <3> QED  BY <3>1, <3>3
  <2>4. kept = [record EXCEPT ![c] = r]
    BY <1>4, <2>1, <2>2
  <2>5. /\ kept \in Seq(Records) /\ Len(kept) = Len(record) /\ kept[c] = r
        /\ \A x \in DOMAIN record : x # c => kept[x] = record[x]
    BY <2>1, <2>3, <2>4, Replaced
  <2> QED  BY <2>1, <2>3, <2>5
<1>8. kept \in Seq(Records) /\ new.sessions = <<>> /\ lock = t
  BY <1>2, <1>3, <1>7
<1> QED  BY <1>5, <1>6, <1>7, <1>8, NewClient

-----------------------------------------------------------------------------
(* The invariant holds                                                        *)

LEMMA Start ==
  ASSUME Init
  PROVE  IInv
<1>1. /\ workload \in Workloads /\ record = <<>> /\ listed = {} /\ session = <<>> /\ lock = None
      /\ byOwner = [o \in Owners |-> None] /\ DOMAIN sessions = {}
      /\ thread = [t \in Threads |-> Idle]
  BY DEF Init
<1>2. Len(record) = 0 /\ Len(session) = 0 /\ ClientIds = {} /\ SessionIds = {}
  BY <1>1 DEF ClientIds, SessionIds
<1>3. Idle \in ThreadStates /\ Idle.pc = "idle"
  BY DEF Idle, ThreadStates
<1>4. TypeOK
  BY <1>1, <1>2, <1>3 DEF TypeOK
<1>5. IdsOK /\ SeqidsOK
  BY <1>1, <1>2 DEF IdsOK, SeqidsOK
<1>6. OwnersAgree /\ OwnersOK /\ UsableIsListed
  BY <1>1 DEF OwnersAgree, OwnersOK, UsableIsListed
<1>7. \A t \in Threads : thread[t].pc = "idle"
  BY <1>1, <1>3
<1>8. ThreadsOK
  BY <1>7 DEF ThreadsOK, PairsOK, PairOK, ThreadOK, RebootOK, DiscardOK, CreateOK, DestroyOK,
              Building, Creating, IsIdle
<1> QED  BY <1>4, <1>5, <1>6, <1>8 DEF IInv

LEMMA Steps ==
  ASSUME IInv, [Next]_vars
  PROVE  IInv'
<1>1. CASE UNCHANGED vars
  <2>1. /\ UNCHANGED <<workload, record, listed, byOwner, session, sessions, lock, thread>>
    BY <1>1 DEF vars
  <2>2. /\ ClientIds' = ClientIds /\ SessionIds' = SessionIds /\ Usable' = Usable
        /\ \A c : ListOf(c)' = ListOf(c) /\ Listing(c)' = Listing(c)
    BY <2>1 DEF ClientIds, SessionIds, Usable, ListOf, Listing
  <2>3. TypeOK' /\ IdsOK' /\ SeqidsOK' /\ OwnersAgree' /\ OwnersOK' /\ UsableIsListed'
    BY <2>1, <2>2 DEF IInv, TypeOK, IdsOK, SeqidsOK, OwnersAgree, OwnersOK, UsableIsListed
  <2>4. \A t \in Threads : ThreadOK(t)'
    BY <2>1, <2>2 DEF IInv, ThreadsOK, ThreadOK, RebootOK, DiscardOK, CreateOK, DestroyOK, Building
  <2>5. \A t, u \in Threads : t # u => PairOK(t, u)'
    BY <2>1, <2>2 DEF IInv, ThreadsOK, PairsOK, PairOK, Creating, IsIdle, Building
  <2> QED  BY <2>3, <2>4, <2>5 DEF IInv, ThreadsOK, PairsOK
<1>2. ASSUME Next
      PROVE  IInv'
  <2>1. PICK t \in Threads :
          /\ \/ ExchangeId(t) \/ ClientReboot(t) \/ CreateSessionSteps(t)
             \/ DestroySteps(t) \/ Reboot(t) \/ Wipe(t)
          /\ UNCHANGED workload
    BY <1>2, ClientAssumption DEF Next, IInv, TypeOK
  <2>2. workload.principals \subseteq Principals /\ workload.maxSessions \in Nat
    BY ClientAssumption DEF IInv, TypeOK
  <2>3. CASE ExchangeId(t)
    <3>1. PICK o \in Owners, v \in Verifiers, p \in Principals :
            \/ ExchangeIdNew(t, o, v, p)
            \/ ExchangeIdNoClient(t, o)
            \/ ExchangeIdUpdate(t, o, v, p)
            \/ ExchangeIdAgain(t, o, v, p)
            \/ ExchangeIdReboot(t, o, v, p)
      BY <2>2, <2>3 DEF ExchangeId
    <3> QED  BY <2>1, <3>1, NewStep, NoClientStep, UpdateStep, AgainStep, ClientRebootStep
  <2>4. CASE ClientReboot(t)
    BY <2>1, <2>4, DiscardSessionStep, DiscardEndsStep, ReplaceStep DEF ClientReboot
  <2>5. CASE CreateSessionSteps(t)
    <3>1. ASSUME NEW c \in ClientIds, NEW p \in workload.principals,
                 NEW seq \in (1..workload.maxSessions) \cap (1..(record[c].seqid + 1)),
                 CreateSession(t, c, seq, p)
          PROVE  IInv'
      <4>1. seq \in Nat /\ p \in Principals
        BY <2>2
      <4> QED  BY <2>1, <3>1, <4>1, CreateSessionStep
    <3> QED  BY <2>1, <2>5, <3>1, NotNextStep, ConfirmStep, SessionRecordStep, AttachStep,
                PublishStep DEF CreateSessionSteps
  <2>6. CASE DestroySteps(t)
    <3>1. ASSUME NEW s \in DOMAIN session, NEW op \in {"DESTROY_SESSION", "SEQUENCE"},
                 DestroySession(t, op, session[s].sid)
          PROVE  IInv'
      <4>1. session[s].sid \in Nat \X Nat
        BY Tables DEF IInv
      <4> QED  BY <2>1, <3>1, <4>1, DestroySessionStep
    <3> QED  BY <2>1, <2>6, <3>1, DeleteSessionStep, DetachStep DEF DestroySteps
  <2> QED  BY <2>1, <2>3, <2>4, <2>5, <2>6, RebootStep, WipeStep
<1> QED  BY <1>1, <1>2

(* IInv holds in every state: what every thread that creates, destroys or     *)
(* discards sessions relies on is left alone by the steps of the others.      *)
THEOREM Invariance == Spec => []IInv
<1>1. Init => IInv
  BY Start
<1>2. IInv /\ [Next]_vars => IInv'
  BY Steps
<1> QED  BY <1>1, <1>2, PTL DEF Spec

(* The keys of ClientList agree with one another, and each session that can   *)
(* be used is in the list of its client while the client is listed, whichever *)
(* EXCHANGE_ID, CREATE_SESSION, DESTROY_SESSION and reboots run at once.      *)
THEOREM TablesStayInAgreement == Spec => []TablesAgree
<1>1. IInv => TablesAgree
  BY DEF IInv, TablesAgree
<1> QED  BY <1>1, Invariance, PTL

(* client_reboot that ends without an exception has left no session in        *)
(* self.sessions that could be used when it began.                            *)
THEOREM RebootMissesNoSession == Spec => []RebootSkipsNoSession
<1>1. IInv => RebootSkipsNoSession
  BY UsableIsInRange DEF IInv, ThreadsOK, ThreadOK, DiscardOK, RebootSkipsNoSession
<1> QED  BY <1>1, Invariance, PTL

-----------------------------------------------------------------------------
(* The inductive invariant of a server that works on one request at a time.   *)
(* e is the state of its only thread.                                         *)

\* Why the session in place j of the list of a client may not be used
Gone(e, c, j) ==
  \/ e.pc \in {"publish", "detach"} /\ ListOf(c)[j] = e.session
  \/ e.pc = "discard" /\ c = e.client /\ j < e.i
  \/ e.pc = "replace" /\ c = e.client
  \/ e.pc = "wipe"

\* What the thread has behind it, and what it relies on
WorkerOK(e) ==
  /\ \A c \in listed : \A j \in 1..Len(ListOf(c)) : ListOf(c)[j] \in Usable \/ Gone(e, c, j)
  /\ e.pc \in {"sequence", "build", "attach", "publish"} => e.client \in listed
  /\ e.pc = "build" => record[e.client].confirmed
  /\ e.pc = "replace" => \A s \in Usable : session[s].client # e.client
  /\ e.pc = "delete" => e.sid \in DOMAIN sessions
  /\ e.pc = "detach" =>
       session[e.session].client \in listed /\ e.session \in Listing(session[e.session].client)
  /\ e.pc = "wipe" => Usable = {}

NoneTwice(q) == \A i, j \in 1..Len(q) : q[i] = q[j] => i = j

ListsOK ==
  /\ SessionIdsDistinct
  /\ \A s \in SessionIds : record[session[s].client].confirmed
  /\ \A s \in Usable : session[s].client \in listed
  /\ \A c \in listed : NoneTwice(ListOf(c))

NoFault == answer # None => answer.status # "SERVERFAULT"

AloneOK == ListsOK /\ NoFault /\ \A t \in workload.threads : WorkerOK(thread[t])

\* No session in a list was taken out of self.sessions or is not there yet.
AllUsable == \A c \in listed : \A j \in 1..Len(ListOf(c)) : ListOf(c)[j] \in Usable

LEMMA Alone ==
  ASSUME IInv, AloneOK, NEW t \in Threads, workload.threads = {t}, NEW e, e = thread[t]
  PROVE  /\ ListsOK /\ WorkerOK(e)
         /\ e.pc \notin {"publish", "detach", "discard", "replace", "wipe"} => AllUsable
BY DEF AloneOK, WorkerOK, Gone, AllUsable

LEMMA AloneKept ==
  ASSUME IInv, NEW t \in Threads, workload.threads = {t}, UNCHANGED workload,
         NEW e, thread' = [thread EXCEPT ![t] = e],
         WorkerOK(e)', ListsOK', NoFault'
  PROVE  AloneOK'
<1>1. thread'[t] = e
  BY DEF IInv, TypeOK
<1>2. workload'.threads = {t}
  OBVIOUS
<1> QED  BY <1>1, <1>2 DEF AloneOK

LEMMA IdleKept ==
  ASSUME IInv, NEW t \in Threads, workload.threads = {t}, UNCHANGED workload,
         NEW op, NEW status, Answer(t, op, status), status # "SERVERFAULT",
         ListsOK', AllUsable'
  PROVE  AloneOK'
<1>1. PICK e : e = Idle
  OBVIOUS
<1>2. e.pc = "idle"
  BY <1>1 DEF Idle
<1>3. WorkerOK(e)'
  BY <1>2 DEF WorkerOK, AllUsable
<1>4. NoFault'
  <2>1. answer' = [op |-> op, status |-> status]
    BY DEF Answer
  <2>2. answer'.status = status
    BY <2>1
  <2> QED  BY <2>2 DEF NoFault
<1>5. thread' = [thread EXCEPT ![t] = e]
  BY <1>1 DEF Answer
<1> QED  BY <1>3, <1>4, <1>5, AloneKept

\* The tables are left alone.
LEMMA SameLists ==
  ASSUME IInv, AloneOK, UNCHANGED tables
  PROVE  /\ ListsOK' /\ Usable' = Usable /\ (AllUsable => AllUsable')
         /\ \A c : ListOf(c)' = ListOf(c) /\ Listing(c)' = Listing(c)
<1>1. UNCHANGED <<record, listed, byOwner, session, sessions>>
  BY DEF tables
<1>2. /\ SessionIds' = SessionIds /\ Usable' = Usable
      /\ \A c : ListOf(c)' = ListOf(c) /\ Listing(c)' = Listing(c)
  BY <1>1 DEF SessionIds, Usable, ListOf, Listing
<1>3. ListsOK'
  BY <1>1, <1>2 DEF AloneOK, ListsOK, SessionIdsDistinct
<1> QED  BY <1>1, <1>2, <1>3 DEF AllUsable

LEMMA EndingAlone ==
  ASSUME IInv, AloneOK, NEW t \in Threads, workload.threads = {t}, UNCHANGED workload,
         NEW op, NEW status, Answer(t, op, status), status # "SERVERFAULT", UNCHANGED tables,
         thread[t].pc \in {"idle", "sequence"}
  PROVE  AloneOK'
<1>1. AllUsable
  BY Alone
<1> QED  BY <1>1, SameLists, IdleKept

LEMMA ExchangeIdsAlone ==
  ASSUME IInv, AloneOK, NEW t \in Threads, workload.threads = {t}, UNCHANGED workload,
         NEW o, NEW v, NEW p,
         ExchangeIdNoClient(t, o) \/ ExchangeIdUpdate(t, o, v, p) \/ ExchangeIdAgain(t, o, v, p)
  PROVE  AloneOK'
<1>1. PICK status : /\ Answer(t, "EXCHANGE_ID", status) /\ UNCHANGED tables
                    /\ status \in {"NOENT", "NOT_SAME", "PERM", "OK", "CLID_INUSE"}
                    /\ thread[t].pc = "idle"
  BY DEF ExchangeIdNoClient, ExchangeIdUpdate, ExchangeIdAgain, AnswerExchangeId, MayExchangeId,
         IsIdle
<1> QED  BY <1>1, EndingAlone

LEMMA NotNextAlone ==
  ASSUME IInv, AloneOK, NEW t \in Threads, workload.threads = {t}, UNCHANGED workload,
         NotNextInSequence(t)
  PROVE  AloneOK'
<1>1. PICK status, op : /\ Answer(t, op, status) /\ UNCHANGED tables
                        /\ status \in {"REPLAY", "SEQ_MISORDERED"} /\ thread[t].pc = "sequence"
  BY DEF NotNextInSequence, Finish
<1> QED  BY <1>1, EndingAlone

LEMMA CreateSessionAlone ==
  ASSUME IInv, AloneOK, NEW t \in Threads, workload.threads = {t}, UNCHANGED workload,
         NEW c, NEW seq, NEW principal, CreateSession(t, c, seq, principal)
  PROVE  AloneOK'
<1>1. thread[t].pc = "idle" /\ UNCHANGED tables
  BY DEF CreateSession, IsIdle
<1>2. CASE c \notin listed
  <2>1. Answer(t, "CREATE_SESSION", "STALE_CLIENTID")
    BY <1>2 DEF CreateSession
  <2> QED  BY <1>1, <2>1, EndingAlone
<1>3. CASE c \in listed
  <2>1. PICK e : e = [pc |-> "sequence", op |-> "CREATE_SESSION", client |-> c, seq |-> seq,
                      principal |-> principal]
    OBVIOUS
  <2>2. e.pc = "sequence" /\ e.client = c
    BY <2>1
  <2>3. thread' = [thread EXCEPT ![t] = e] /\ answer' = None
    BY <1>3, <2>1 DEF CreateSession, Continue
  <2>4. AllUsable
    BY <1>1, Alone
  <2>5. ListsOK' /\ AllUsable' /\ listed' = listed
    BY <1>1, <2>4, SameLists DEF tables
  <2>6. WorkerOK(e)'
    BY <1>3, <2>2, <2>5 DEF WorkerOK, AllUsable
  <2>7. NoFault'
    BY <2>3 DEF NoFault
  <2> QED  BY <2>3, <2>5, <2>6, <2>7, AloneKept
<1> QED  BY <1>2, <1>3

LEMMA ClientRebootAlone ==
  ASSUME IInv, AloneOK, NEW t \in Threads, workload.threads = {t}, UNCHANGED workload,
         NEW owner, NEW verf, NEW principal, ExchangeIdReboot(t, owner, verf, principal)
  PROVE  AloneOK'
<1>1. thread[t].pc = "idle" /\ UNCHANGED tables
  BY DEF ExchangeIdReboot, MayExchangeId, IsIdle
<1>2. PICK c, old, new :
        Continue(t, [pc |-> "discard", op |-> "EXCHANGE_ID", client |-> c, i |-> 1,
                     old |-> old, new |-> new])
  BY DEF ExchangeIdReboot
<1>3. PICK e : e = [pc |-> "discard", op |-> "EXCHANGE_ID", client |-> c, i |-> 1,
                    old |-> old, new |-> new]
  OBVIOUS
<1>4. e.pc = "discard"
  BY <1>3
<1>5. thread' = [thread EXCEPT ![t] = e] /\ answer' = None
  BY <1>2, <1>3 DEF Continue
<1>6. AllUsable
  BY <1>1, Alone
<1>7. ListsOK' /\ AllUsable'
  BY <1>1, <1>6, SameLists
<1>8. WorkerOK(e)'
  BY <1>4, <1>7 DEF WorkerOK, AllUsable
<1>9. NoFault'
  BY <1>5 DEF NoFault
<1> QED  BY <1>5, <1>7, <1>8, <1>9, AloneKept

LEMMA DestroySessionAlone ==
  ASSUME IInv, AloneOK, NEW t \in Threads, workload.threads = {t}, UNCHANGED workload,
         NEW op, NEW sid, DestroySession(t, op, sid)
  PROVE  AloneOK'
<1>1. thread[t].pc = "idle" /\ UNCHANGED tables
  BY DEF DestroySession, IsIdle
<1>2. CASE sid \notin DOMAIN sessions
  <2>1. Answer(t, op, "BADSESSION")
    BY <1>2 DEF DestroySession
  <2> QED  BY <1>1, <2>1, EndingAlone
<1>3. CASE sid \in DOMAIN sessions
  <2>1. PICK e : e = [pc |-> "delete", op |-> op, sid |-> sid, session |-> sessions[sid]]
    OBVIOUS
  <2>2. e.pc = "delete" /\ e.sid = sid
    BY <2>1
  <2>3. thread' = [thread EXCEPT ![t] = e] /\ answer' = None
    BY <1>3, <2>1 DEF DestroySession, Continue
  <2>4. AllUsable
    BY <1>1, Alone
  <2>5. ListsOK' /\ AllUsable' /\ sessions' = sessions
    BY <1>1, <2>4, SameLists DEF tables
  <2>6. WorkerOK(e)'
    BY <1>3, <2>2, <2>5 DEF WorkerOK, AllUsable
  <2>7. NoFault'
    BY <2>3 DEF NoFault
  <2> QED  BY <2>3, <2>5, <2>6, <2>7, AloneKept
<1> QED  BY <1>2, <1>3

LEMMA RebootAlone ==
  ASSUME IInv, AloneOK, NEW t \in Threads, workload.threads = {t}, UNCHANGED workload, Reboot(t)
  PROVE  AloneOK'
<1>1. PICK e : e = [pc |-> "wipe", op |-> "reboot"]
  OBVIOUS
<1>2. e.pc = "wipe"
  BY <1>1
<1>3. /\ thread' = [thread EXCEPT ![t] = e] /\ answer' = None
      /\ UNCHANGED <<record, listed, byOwner, session>>
  BY <1>1 DEF Reboot, Continue
<1>4. Usable' = {} /\ SessionIds' = SessionIds /\ \A c : ListOf(c)' = ListOf(c)
  BY <1>3 DEF Usable, SessionIds, ListOf, Reboot, Restrict
<1>5. ListsOK'
  BY <1>3, <1>4 DEF AloneOK, ListsOK, SessionIdsDistinct
<1>6. WorkerOK(e)'
  BY <1>2, <1>4 DEF WorkerOK, Gone
<1>7. NoFault'
  BY <1>3 DEF NoFault
<1> QED  BY <1>3, <1>5, <1>6, <1>7, AloneKept

LEMMA WipeAlone ==
  ASSUME IInv, AloneOK, NEW t \in Threads, workload.threads = {t}, UNCHANGED workload, Wipe(t)
  PROVE  AloneOK'
<1>1. thread[t].pc = "wipe" /\ Answer(t, thread[t].op, "OK")
  BY DEF Wipe, Finish
<1>2. listed' = {} /\ UNCHANGED <<record, session, sessions>>
  BY DEF Wipe
<1>3. Usable = {}
  BY <1>1, Alone DEF WorkerOK
<1>4. Usable' = {} /\ SessionIds' = SessionIds
  BY <1>2, <1>3 DEF Usable, SessionIds
<1>5. ListsOK'
  BY <1>2, <1>4 DEF AloneOK, ListsOK, SessionIdsDistinct
<1>6. AllUsable'
  BY <1>2 DEF AllUsable
<1> QED  BY <1>1, <1>5, <1>6, IdleKept

\* What else can be used when the session s is out of self.sessions
LEMMA OthersUsable ==
  ASSUME IInv, AloneOK, NEW s \in SessionIds, session[s].sid \in DOMAIN sessions,
         UNCHANGED <<record, listed, session>>,
         sessions' = Restrict(sessions, DOMAIN sessions \ {session[s].sid})
  PROVE  /\ s \in Usable /\ Usable' = Usable \ {s} /\ ListsOK'
         /\ \A c : ListOf(c)' = ListOf(c) /\ Listing(c)' = Listing(c)
<1>1. PICK sid : sid = session[s].sid
  OBVIOUS
<1>2. /\ DOMAIN sessions' = DOMAIN sessions \ {sid}
      /\ \A x \in DOMAIN sessions' : x \in DOMAIN sessions /\ sessions'[x] = sessions[x]
  BY <1>1, Discarding
<1>3. \A x \in DOMAIN sessions : sessions[x] \in SessionIds /\ session[sessions[x]].sid = x
  BY DEF IInv, IdsOK
<1>4. \A u \in SessionIds : session[u].sid = sid => u = s
  BY <1>1, Tables DEF AloneOK, ListsOK, SessionIdsDistinct, IInv
<1>5. sid \in DOMAIN sessions /\ sessions[sid] = s
  BY <1>1, <1>3, <1>4
<1>6. s \in Usable /\ Usable' = Usable \ {s}
  BY <1>1, <1>2, <1>3, <1>5 DEF Usable
<1>7. SessionIds' = SessionIds /\ \A c : ListOf(c)' = ListOf(c) /\ Listing(c)' = Listing(c)
  BY DEF SessionIds, ListOf, Listing
<1>8. ListsOK'
  BY <1>6, <1>7 DEF AloneOK, ListsOK, SessionIdsDistinct
<1> QED  BY <1>6, <1>7, <1>8

LEMMA DiscardSessionAlone ==
  ASSUME IInv, AloneOK, NEW t \in Threads, workload.threads = {t}, UNCHANGED workload,
         DiscardSession(t)
  PROVE  AloneOK'
<1>1. PICK e : e = thread[t]
  OBVIOUS
<1>2. /\ e \in ThreadStates /\ e.pc = "discard" /\ e.client \in listed /\ e.client \in ClientIds
      /\ e.i \in Nat \ {0} /\ e.i <= Len(ListOf(e.client))
  BY <1>1, States DEF DiscardSession, ListOf, IInv, ThreadsOK, ThreadOK, RebootOK, TypeOK
<1>3. PICK c \in ClientIds : c = e.client /\ c \in listed
  BY <1>2
<1>4. PICK n \in Nat : n = Len(ListOf(c))
  BY Tables DEF IInv
<1>5. PICK i \in 1..n : i = e.i
  BY <1>2, <1>3, <1>4
<1>6. PICK s \in SessionIds : s = ListOf(c)[i] /\ session[s].client = c
  BY <1>4, <1>5, InList
<1>7. s \in Usable
  BY <1>1, <1>2, <1>3, <1>4, <1>5, <1>6, Alone DEF WorkerOK, Gone
<1>8. session[s].sid \in DOMAIN sessions
  BY <1>3, <1>6, <1>7, UsableBySid
<1>9. PICK f : f = [e EXCEPT !.i = @ + 1]
  OBVIOUS
<1>10. /\ f.pc = "discard" /\ f.client = c /\ f.i = i + 1
  BY <1>2, <1>3, <1>5, <1>9 DEF ThreadStates
<1>11. /\ thread' = [thread EXCEPT ![t] = f] /\ answer' = None
       /\ sessions' = Restrict(sessions, DOMAIN sessions \ {session[s].sid})
       /\ UNCHANGED <<record, listed, session>>
  BY <1>1, <1>3, <1>5, <1>6, <1>8, <1>9 DEF DiscardSession, Continue, ListOf
<1>12. /\ Usable' = Usable \ {s} /\ ListsOK' /\ \A x : ListOf(x)' = ListOf(x)
  BY <1>8, <1>11, OthersUsable
<1>13. ASSUME NEW d \in listed, NEW j \in 1..Len(ListOf(d))
       PROVE  ListOf(d)[j] \in Usable' \/ (d = c /\ j < i + 1)
  <2>1. CASE d = c
    <3>1. \A k \in 1..n : ListOf(c)[k] = ListOf(c)[i] => k = i
      BY <1>3, <1>4, <1>5 DEF AloneOK, ListsOK, NoneTwice
    <3>2. j \in 1..n /\ (ListOf(c)[j] \in Usable \/ j < i)
      BY <1>1, <1>2, <1>3, <1>4, <1>5, <1>13, <2>1, Alone DEF WorkerOK, Gone
    <3> QED  BY <1>6, <1>12, <2>1, <3>1, <3>2
  <2>2. CASE d # c
    <3>1. ListOf(d)[j] \in Usable
      BY <1>1, <1>2, <1>3, <1>13, <2>2, Alone DEF WorkerOK, Gone
    <3>2. d \in ClientIds
      BY DEF IInv, TypeOK
    <3>3. session[ListOf(d)[j]].client = d
      BY <3>2, InList
    <3> QED  BY <1>6, <1>12, <2>2, <3>1, <3>3
  <2> QED  BY <2>1, <2>2
<1>14. WorkerOK(f)'
  BY <1>10, <1>11, <1>12, <1>13 DEF WorkerOK, Gone
<1>15. NoFault'
  BY <1>11 DEF NoFault
<1> QED  BY <1>11, <1>12, <1>14, <1>15, AloneKept

LEMMA DiscardEndsAlone ==
  ASSUME IInv, AloneOK, NEW t \in Threads, workload.threads = {t}, UNCHANGED workload,
         DiscardEnds(t)
  PROVE  AloneOK'
<1>1. PICK e : e = thread[t]
  OBVIOUS
<1>2. /\ e \in ThreadStates /\ e.pc = "discard" /\ e.client \in listed /\ e.client \in ClientIds
      /\ e.i \in Nat \ {0} /\ e.i > Len(ListOf(e.client))
  BY <1>1, States DEF DiscardEnds, ListOf, IInv, ThreadsOK, ThreadOK, RebootOK, TypeOK
<1>3. PICK f : f = At(t, "replace")
  OBVIOUS
<1>4. f.pc = "replace" /\ f.client = e.client
  BY <1>1, <1>2, <1>3 DEF At, ThreadStates
<1>5. thread' = [thread EXCEPT ![t] = f] /\ answer' = None /\ UNCHANGED tables
  BY <1>3 DEF DiscardEnds, Continue
<1>6. /\ ListsOK' /\ Usable' = Usable /\ \A c : ListOf(c)' = ListOf(c)
      /\ listed' = listed /\ session' = session
  BY <1>5, SameLists DEF tables
<1>7. ASSUME NEW s \in Usable, session[s].client = e.client
      PROVE  FALSE
  <2>1. s \in Range(ListOf(e.client))
    BY <1>2, <1>7, UsableIsInRange DEF IInv, UsableIsListed, ListOf
  <2>2. PICK n \in Nat : n = Len(ListOf(e.client)) /\ DOMAIN ListOf(e.client) = 1..n
    BY <1>2, Tables DEF IInv
  <2>3. PICK j \in 1..n : ListOf(e.client)[j] = s
    BY <2>1, <2>2 DEF Range
  <2>4. j < e.i
    BY <1>2, <2>2
  <2> QED  BY <1>1, <1>2, <1>7, <2>2, <2>3, <2>4 DEF IInv, ThreadsOK, ThreadOK, DiscardOK
<1>8. WorkerOK(f)'
  BY <1>1, <1>2, <1>4, <1>6, <1>7, Alone DEF WorkerOK, Gone
<1>9. NoFault'
  BY <1>5 DEF NoFault
<1> QED  BY <1>5, <1>6, <1>8, <1>9, AloneKept

LEMMA DeleteSessionAlone ==
  ASSUME IInv, AloneOK, NEW t \in Threads, workload.threads = {t}, UNCHANGED workload,
         DeleteSession(t)
  PROVE  AloneOK'
<1>1. PICK e : e = thread[t]
  OBVIOUS
<1>2. /\ e \in ThreadStates /\ e.pc = "delete"
      /\ e.session \in SessionIds /\ session[e.session].sid = e.sid
  BY <1>1, States DEF DeleteSession, IInv, ThreadsOK, ThreadOK, DestroyOK
<1>3. PICK s \in SessionIds : s = e.session /\ session[s].sid = e.sid
  BY <1>2
<1>4. AllUsable /\ session[s].sid \in DOMAIN sessions
  BY <1>1, <1>2, <1>3, Alone DEF WorkerOK
<1>5. PICK f : f = At(t, "detach")
  OBVIOUS
<1>6. f.pc = "detach" /\ f.session = s
  BY <1>1, <1>2, <1>3, <1>5 DEF At, ThreadStates
<1>7. /\ thread' = [thread EXCEPT ![t] = f] /\ answer' = None
      /\ sessions' = Restrict(sessions, DOMAIN sessions \ {session[s].sid})
      /\ UNCHANGED <<record, listed, session>>
  BY <1>1, <1>3, <1>4, <1>5 DEF DeleteSession, Continue
<1>8. /\ s \in Usable /\ Usable' = Usable \ {s} /\ ListsOK'
      /\ \A c : ListOf(c)' = ListOf(c) /\ Listing(c)' = Listing(c)
  BY <1>4, <1>7, OthersUsable
<1>9. PICK c \in listed : c = session[s].client
  BY <1>8 DEF AloneOK, ListsOK
<1>10. s \in Listing(c)
  <2>1. s \in Range(ListOf(c))
    BY <1>8, <1>9, UsableIsInRange DEF IInv, UsableIsListed, ListOf
  <2>2. DOMAIN ListOf(c) = 1..Len(ListOf(c))
    BY Tables DEF IInv, TypeOK
  <2> QED  BY <2>1, <2>2 DEF Range, Listing
<1>11. WorkerOK(f)'
  BY <1>4, <1>6, <1>7, <1>8, <1>9, <1>10 DEF WorkerOK, Gone, AllUsable
<1>12. NoFault'
  BY <1>7 DEF NoFault
<1> QED  BY <1>7, <1>8, <1>11, <1>12, AloneKept

LEMMA WithoutTwice ==
  ASSUME NEW q \in Seq(Nat), NEW k \in 1..Len(q), NEW r, Without(q, k, r), NoneTwice(q)
  PROVE  /\ NoneTwice(r)
         /\ \A j \in 1..Len(r) : r[j] # q[k] /\ \E i \in 1..Len(q) : r[j] = q[i]
<1>1. PICK n \in Nat : n = Len(q)
  OBVIOUS
<1>2. Len(r) = n - 1
  BY <1>1 DEF Without
<1> DEFINE at(j) == IF j < k THEN j ELSE j + 1
<1>3. \A j \in 1..(n - 1) : at(j) \in 1..n /\ at(j) # k /\ r[j] = q[at(j)]
  BY <1>1 DEF Without
<1>4. \A i, j \in 1..(n - 1) : at(i) = at(j) => i = j
  BY <1>1
<1> HIDE DEF at
<1>5. \A i, j \in 1..n : q[i] = q[j] => i = j
  BY <1>1 DEF NoneTwice
<1>6. k \in 1..n
  BY <1>1
<1>7. NoneTwice(r)
  <2>1. ASSUME NEW i \in 1..(n - 1), NEW j \in 1..(n - 1), r[i] = r[j]
        PROVE  i = j
    <3>1. at(i) \in 1..n /\ at(j) \in 1..n /\ q[at(i)] = q[at(j)]
      BY <1>3, <2>1
    <3>2. at(i) = at(j)
      BY <1>5, <3>1
    <3> QED  BY <1>4, <3>2
  <2> QED  BY <1>2, <2>1 DEF NoneTwice
<1>8. \A j \in 1..(n - 1) : r[j] # q[k] /\ \E i \in 1..n : r[j] = q[i]
  BY <1>3, <1>5, <1>6
<1> QED  BY <1>1, <1>2, <1>7, <1>8

LEMMA DetachAlone ==
  ASSUME IInv, AloneOK, NEW t \in Threads, workload.threads = {t}, UNCHANGED workload,
         DetachFromClient(t)
  PROVE  AloneOK'
<1>1. PICK e : e = thread[t]
  OBVIOUS
<1>2. /\ e.pc = "detach" /\ e.session \in SessionIds
  BY <1>1 DEF DetachFromClient, IInv, ThreadsOK, ThreadOK, DestroyOK
<1>3. PICK s \in SessionIds : s = e.session
  BY <1>2
<1>4. /\ session[s].client \in listed /\ s \in Listing(session[s].client)
  BY <1>1, <1>2, <1>3, Alone DEF WorkerOK
<1>5. listed \subseteq ClientIds
  BY DEF IInv, TypeOK
<1>6. PICK c \in ClientIds : c = session[s].client /\ c \in listed /\ s \in Listing(c)
  BY <1>4, <1>5
<1>7. PICK q \in Seq(Nat) : q = ListOf(c)
  BY Tables DEF IInv
<1>8. PICK m \in 1..Len(q) : q[m] = s
  BY <1>6, <1>7 DEF Listing
<1>9. s \in Range(ListOf(c))
  BY <1>7, <1>8 DEF Range
<1>10. PICK list : list = RemoveFirst(q, s)
  OBVIOUS
<1>11. list \in Seq(Nat) /\ \E k \in 1..Len(q) : q[k] = s /\ Without(q, k, list)
  BY <1>8, <1>10, RemovedFirst
<1>12. NoneTwice(q)
  BY <1>6, <1>7 DEF AloneOK, ListsOK
<1>13. /\ NoneTwice(list)
       /\ \A j \in 1..Len(list) : list[j] # s /\ \E i \in 1..Len(q) : list[j] = q[i]
  BY <1>11, <1>12, WithoutTwice
<1>14. PICK status : /\ Answer(t, e.op, status) /\ status # "SERVERFAULT"
                     /\ record' = [record EXCEPT ![c].sessions = list]
                     /\ UNCHANGED <<listed, byOwner, session, sessions, lock>>
  BY <1>1, <1>3, <1>6, <1>7, <1>9, <1>10 DEF DetachFromClient, Finish, ListOf
<1>15. /\ ListOf(c)' = list
       /\ \A x \in ClientIds : /\ record'[x].confirmed = record[x].confirmed
                               /\ x # c => ListOf(x)' = ListOf(x)
  BY <1>11, <1>14, OtherList
<1>16. SessionIds' = SessionIds /\ Usable' = Usable
  BY <1>14 DEF SessionIds, Usable
<1>17. ListsOK'
  <2>1. \A x \in SessionIds : session[x].client \in ClientIds
    BY DEF IInv, IdsOK
  <2>2. SessionIdsDistinct'
    BY <1>14 DEF AloneOK, ListsOK, SessionIdsDistinct
  <2>3. \A x \in listed : NoneTwice(ListOf(x)')
    BY <1>5, <1>13, <1>15 DEF AloneOK, ListsOK
  <2> QED  BY <1>14, <1>15, <1>16, <2>1, <2>2, <2>3 DEF AloneOK, ListsOK
<1>18. \A x \in listed : \A j \in 1..Len(ListOf(x)) : ListOf(x)[j] \in Usable \/ ListOf(x)[j] = s
  BY <1>1, <1>2, <1>3, Alone DEF WorkerOK, Gone
<1>19. ASSUME NEW x \in listed
       PROVE  \A j \in 1..Len(ListOf(x)') : ListOf(x)'[j] \in Usable
  <2>1. CASE x = c
    BY <1>6, <1>7, <1>13, <1>15, <1>18, <2>1
  <2>2. CASE x # c
    <3>1. x \in ClientIds /\ ListOf(x)' = ListOf(x)
      BY <1>5, <1>15, <2>2
    <3>2. \A j \in 1..Len(ListOf(x)) : ListOf(x)[j] # s
      BY <1>6, <2>2, <3>1, InList
    <3> QED  BY <1>18, <3>1, <3>2
  <2> QED  BY <2>1, <2>2
<1>20. AllUsable'
  BY <1>14, <1>16, <1>19 DEF AllUsable
<1> QED  BY <1>14, <1>17, <1>20, IdleKept

LEMMA PublishAlone ==
  ASSUME IInv, AloneOK, NEW t \in Threads, workload.threads = {t}, UNCHANGED workload,
         PublishSession(t)
  PROVE  AloneOK'
<1>1. PICK e : e = thread[t]
  OBVIOUS
<1>2. /\ e.pc = "publish" /\ e.session \in SessionIds /\ e.session \notin Usable
      /\ session[e.session].client = e.client
  BY <1>1 DEF PublishSession, IInv, ThreadsOK, ThreadOK, CreateOK
<1>3. PICK s \in SessionIds : s = e.session /\ s \notin Usable /\ session[s].client \in listed
  BY <1>1, <1>2, Alone DEF WorkerOK
<1>4. PICK sid : sid = session[s].sid
  OBVIOUS
<1>5. /\ Answer(t, e.op, "OK") /\ UNCHANGED <<record, listed, byOwner, session, lock>>
      /\ sessions' = WithSession(sid, s)
  BY <1>1, <1>3, <1>4 DEF PublishSession, Finish
<1>6. sid \notin DOMAIN sessions
  BY <1>3, <1>4, UsableBySid
<1>7. /\ DOMAIN sessions' = DOMAIN sessions \cup {sid} /\ sessions'[sid] = s
      /\ \A x \in DOMAIN sessions : x # sid => sessions'[x] = sessions[x]
  BY <1>5 DEF WithSession
<1>8. Usable' = Usable \cup {s}
  BY <1>6, <1>7 DEF Usable
<1>9. SessionIds' = SessionIds /\ \A c : ListOf(c)' = ListOf(c)
  BY <1>5 DEF SessionIds, ListOf
<1>10. ListsOK'
  BY <1>3, <1>5, <1>8, <1>9 DEF AloneOK, ListsOK, SessionIdsDistinct
<1>11. \A c \in listed : \A j \in 1..Len(ListOf(c)) : ListOf(c)[j] \in Usable \/ ListOf(c)[j] = s
  BY <1>1, <1>2, <1>3, Alone DEF WorkerOK, Gone
<1>12. AllUsable'
  BY <1>5, <1>8, <1>9, <1>11 DEF AllUsable
<1> QED  BY <1>5, <1>10, <1>12, IdleKept

LEMMA AttachAlone ==
  ASSUME IInv, AloneOK, NEW t \in Threads, workload.threads = {t}, UNCHANGED workload,
         AttachToClient(t)
  PROVE  AloneOK'
<1>1. PICK e : e = thread[t]
  OBVIOUS
<1>2. /\ e \in ThreadStates /\ e.pc = "attach" /\ e.session \in SessionIds
      /\ e.session \notin Usable /\ session[e.session].client = e.client
      /\ e.client \in ClientIds
  BY <1>1, States DEF AttachToClient, IInv, ThreadsOK, ThreadOK, CreateOK
<1>3. AllUsable /\ e.client \in listed
  BY <1>1, <1>2, Alone DEF WorkerOK
<1>4. PICK s \in SessionIds, c \in ClientIds : s = e.session /\ c = e.client /\ c \in listed
  BY <1>2, <1>3
<1>5. PICK q \in Seq(Nat), n \in Nat : q = ListOf(c) /\ n = Len(q)
  BY Tables DEF IInv
<1>6. PICK list : list = Append(q, s)
  OBVIOUS
<1>7. /\ list \in Seq(Nat) /\ Len(list) = n + 1 /\ list[n + 1] = s
      /\ \A j \in 1..n : list[j] = q[j]
  <2>1. s \in Nat
    BY Tables DEF IInv, SessionIds
  <2> QED  BY <1>5, <1>6, <2>1, Appended
<1>8. PICK f : f = At(t, "publish")
  OBVIOUS
<1>9. f.pc = "publish" /\ f.client = c /\ f.session = s
  BY <1>1, <1>2, <1>4, <1>8 DEF At, ThreadStates
<1>10. /\ thread' = [thread EXCEPT ![t] = f] /\ answer' = None
       /\ UNCHANGED <<listed, byOwner, session, sessions, lock>>
       /\ record' = [record EXCEPT ![c].sessions = list]
  BY <1>1, <1>4, <1>5, <1>6, <1>8 DEF AttachToClient, Continue, ListOf
<1>11. /\ ListOf(c)' = list
       /\ \A x \in ClientIds : /\ record'[x].confirmed = record[x].confirmed
                               /\ x # c => ListOf(x)' = ListOf(x)
  BY <1>7, <1>10, OtherList
<1>12. SessionIds' = SessionIds /\ Usable' = Usable
  BY <1>10 DEF SessionIds, Usable
<1>13. \A j \in 1..n : q[j] \in Usable /\ q[j] # s
  BY <1>2, <1>3, <1>4, <1>5 DEF AllUsable
<1>14. NoneTwice(list)
  <2>1. \A i, j \in 1..n : q[i] = q[j] => i = j
    BY <1>4, <1>5 DEF AloneOK, ListsOK, NoneTwice
  <2>2. \A j \in 1..(n + 1) : j = n + 1 \/ j \in 1..n
    OBVIOUS
  <2>3. ASSUME NEW i \in 1..(n + 1), NEW j \in 1..(n + 1), list[i] = list[j]
        PROVE  i = j
    BY <1>7, <1>13, <2>1, <2>2, <2>3
  <2> QED  BY <1>7, <2>3 DEF NoneTwice
<1>15. listed \subseteq ClientIds /\ \A x \in SessionIds : session[x].client \in ClientIds
  BY DEF IInv, TypeOK, IdsOK
<1>16. ListsOK'
  <2>1. SessionIdsDistinct'
    BY <1>10 DEF AloneOK, ListsOK, SessionIdsDistinct
  <2>2. \A x \in listed : NoneTwice(ListOf(x)')
    BY <1>11, <1>14, <1>15 DEF AloneOK, ListsOK
  <2> QED  BY <1>10, <1>11, <1>12, <1>15, <2>1, <2>2 DEF AloneOK, ListsOK
<1>17. ASSUME NEW x \in listed
       PROVE  \A j \in 1..Len(ListOf(x)') : ListOf(x)'[j] \in Usable \/ ListOf(x)'[j] = s
  <2>1. CASE x = c
    <3>1. \A j \in 1..(n + 1) : j = n + 1 \/ j \in 1..n
      OBVIOUS
    <3> QED  BY <1>7, <1>11, <1>13, <2>1, <3>1
  <2>2. CASE x # c
    BY <1>3, <1>11, <1>15, <2>2 DEF AllUsable
  <2> QED  BY <2>1, <2>2
<1>18. WorkerOK(f)'
  BY <1>4, <1>9, <1>10, <1>12, <1>17 DEF WorkerOK, Gone
<1>19. NoFault'
  BY <1>10 DEF NoFault
<1> QED  BY <1>10, <1>16, <1>18, <1>19, AloneKept

LEMMA SessionRecordAlone ==
  ASSUME IInv, IInv', AloneOK, NEW t \in Threads, workload.threads = {t}, UNCHANGED workload,
         SessionRecord(t)
  PROVE  AloneOK'
<1>1. PICK e : e = thread[t]
  OBVIOUS
<1>2. e.pc = "build" /\ e.client \in ClientIds
  BY <1>1 DEF SessionRecord, IInv, ThreadsOK, ThreadOK, CreateOK
<1>3. AllUsable /\ e.client \in listed /\ record[e.client].confirmed
  BY <1>1, <1>2, Alone DEF WorkerOK
<1>4. PICK c \in listed : c = e.client /\ record[c].confirmed
  BY <1>3
<1>5. PICK n \in Nat : n = Len(session) + 1 /\ SessionIds = 1..(n - 1)
  BY Tables DEF IInv, SessionIds
<1>6. PICK s : s = [client |-> c, sid |-> <<c, record[c].seqid>>]
  OBVIOUS
<1>7. PICK f : f = [pc |-> "attach", op |-> "CREATE_SESSION", client |-> c, seq |-> e.seq,
                    session |-> n]
  OBVIOUS
<1>8. s.client = c /\ f.pc = "attach" /\ f.client = c
  BY <1>6, <1>7
<1>9. /\ thread' = [thread EXCEPT ![t] = f] /\ answer' = None
      /\ UNCHANGED <<record, listed, byOwner, sessions, lock>> /\ session' = Append(session, s)
  BY <1>1, <1>4, <1>5, <1>6, <1>7 DEF SessionRecord, Continue
<1>10. /\ SessionIds' = SessionIds \cup {n} /\ n \notin SessionIds
       /\ session'[n] = s /\ \A x \in SessionIds : session'[x] = session[x]
  <2>1. session \in Seq(SessionRecords) /\ session' \in Seq(SessionRecords)
    BY DEF IInv, TypeOK
  <2>2. Len(session') = n /\ session'[n] = s /\ \A x \in 1..(n - 1) : session'[x] = session[x]
    BY <1>5, <1>9, <2>1
  <2>3. SessionIds' = 1..n
    BY <2>2 DEF SessionIds
  <2> QED  BY <1>5, <2>2, <2>3
<1>11. Usable' = Usable /\ Usable \subseteq SessionIds /\ \A x : ListOf(x)' = ListOf(x)
  BY <1>9 DEF Usable, ListOf, IInv, IdsOK
<1>12. \A u \in SessionIds' : session'[u].sid = session'[n].sid => u = n
  <2>1. \A x \in listed', y \in SessionIds' : session'[y].client = x =>
          \A u \in SessionIds' : session'[u].sid = session'[y].sid => u = y
    BY DEF IInv, SeqidsOK
  <2>2. c \in listed' /\ n \in SessionIds' /\ session'[n].client = c
    BY <1>4, <1>8, <1>9, <1>10
  <2> QED  BY <2>1, <2>2
<1>13. SessionIdsDistinct'
  <2>1. DOMAIN session' = SessionIds' /\ DOMAIN session = SessionIds
    BY DEF IInv, TypeOK, SessionIds
  <2>2. \A u, x \in SessionIds : session'[u].sid = session'[x].sid => u = x
    BY <1>10, <2>1 DEF AloneOK, ListsOK, SessionIdsDistinct
  <2> QED  BY <1>10, <1>12, <2>1, <2>2 DEF SessionIdsDistinct
<1>14. ListsOK'
  <2>1. \A x \in SessionIds' : record[session'[x].client].confirmed
    BY <1>4, <1>8, <1>10 DEF AloneOK, ListsOK
  <2>2. \A x \in Usable : session'[x].client \in listed
    BY <1>10, <1>11 DEF AloneOK, ListsOK
  <2> QED  BY <1>9, <1>11, <1>13, <2>1, <2>2 DEF AloneOK, ListsOK
<1>15. WorkerOK(f)'
  BY <1>3, <1>4, <1>8, <1>9, <1>11 DEF WorkerOK, AllUsable
<1>16. NoFault'
  BY <1>9 DEF NoFault
<1> QED  BY <1>9, <1>14, <1>15, <1>16, AloneKept

LEMMA ConfirmAlone ==
  ASSUME IInv, AloneOK, NEW t \in Threads, workload.threads = {t}, UNCHANGED workload,
         ConfirmClient(t)
  PROVE  AloneOK'
<1>1. PICK e : e = thread[t]
  OBVIOUS
<1>2. /\ e \in ThreadStates /\ e.pc = "sequence" /\ e.seq \in Nat /\ e.client \in ClientIds
  BY <1>1, States DEF ConfirmClient, IInv, ThreadsOK, ThreadOK, CreateOK
<1>3. AllUsable /\ e.client \in listed
  BY <1>1, <1>2, Alone DEF WorkerOK
<1>4. PICK c \in ClientIds : c = e.client /\ c \in listed
  BY <1>2, <1>3
<1>5. PICK own \in BOOLEAN : own = (record[c].confirmed \/ record[c].principal = e.principal)
  OBVIOUS
<1>6. record[c] \in Records
  BY Tables DEF IInv
<1>7. PICK r \in Records : /\ r = [record[c] EXCEPT !.seqid = e.seq, !.confirmed = own]
                           /\ r.confirmed = own /\ r.sessions = record[c].sessions
  <2>1. PICK r : r = [record[c] EXCEPT !.seqid = e.seq, !.confirmed = own]
    OBVIOUS
  <2>2. r \in Records /\ r.confirmed = own /\ r.sessions = record[c].sessions
    BY <1>2, <1>6, <2>1 DEF Records
  <2> QED  BY <2>1, <2>2
<1>8. /\ UNCHANGED <<listed, byOwner, session, sessions, lock>>
      /\ record' = [record EXCEPT ![c] = r]
  BY <1>1, <1>4, <1>5, <1>7 DEF ConfirmClient
<1>9. record'[c] = r /\ \A x \in ClientIds : x # c => record'[x] = record[x]
  BY <1>8, OtherRecord
<1>10. \A x \in ClientIds : ListOf(x)' = ListOf(x) /\ (record[x].confirmed => record'[x].confirmed)
  BY <1>5, <1>7, <1>9 DEF ListOf
<1>11. SessionIds' = SessionIds /\ Usable' = Usable
  BY <1>8 DEF SessionIds, Usable
<1>12. listed \subseteq ClientIds /\ \A x \in SessionIds : session[x].client \in ClientIds
  BY DEF IInv, TypeOK, IdsOK
<1>13. ListsOK'
  <2>1. SessionIdsDistinct'
    BY <1>8 DEF AloneOK, ListsOK, SessionIdsDistinct
  <2>2. \A x \in listed : NoneTwice(ListOf(x)')
    BY <1>10, <1>12 DEF AloneOK, ListsOK
  <2>3. \A x \in SessionIds : record'[session[x].client].confirmed
    BY <1>10, <1>12 DEF AloneOK, ListsOK
  <2> QED  BY <1>8, <1>11, <2>1, <2>2, <2>3 DEF AloneOK, ListsOK
<1>14. AllUsable'
  <2>1. \A x \in listed : \A j \in 1..Len(ListOf(x)') : ListOf(x)'[j] \in Usable
    BY <1>3, <1>10, <1>12 DEF AllUsable
  <2> QED  BY <1>8, <1>11, <2>1 DEF AllUsable
<1>15. CASE ~own
  <2>1. Answer(t, e.op, "CLID_INUSE")
    BY <1>1, <1>4, <1>5, <1>15 DEF ConfirmClient, Finish
  <2> QED  BY <1>13, <1>14, <2>1, IdleKept
<1>16. CASE own
  <2>1. PICK f : f = At(t, "build")
    OBVIOUS
  <2>2. f.pc = "build" /\ f.client = c
    BY <1>1, <1>2, <1>4, <2>1 DEF At, ThreadStates
  <2>3. thread' = [thread EXCEPT ![t] = f] /\ answer' = None
    BY <1>1, <1>4, <1>5, <1>16, <2>1 DEF ConfirmClient, Continue
  <2>4. record'[c].confirmed
    BY <1>7, <1>9, <1>16
  <2>5. WorkerOK(f)'
    BY <1>4, <1>8, <1>14, <2>2, <2>4 DEF WorkerOK, AllUsable
  <2>6. NoFault'
    BY <2>3 DEF NoFault
  <2> QED  BY <1>13, <2>3, <2>5, <2>6, AloneKept
<1> QED  BY <1>15, <1>16

(* A new client takes the place of another one, none of whose sessions can be *)
(* used, or is the first with its owner.                                      *)
LEMMA NewClientAlone ==
  ASSUME IInv, AloneOK, NEW t \in Threads, workload.threads = {t},
         UNCHANGED <<workload, session, sessions>>,
         NEW op, Answer(t, op, "OK"),
         NEW c, NEW new \in Records, new.sessions = <<>>,
         NEW kept \in Seq(Records), Len(kept) = Len(record),
         \A x \in ClientIds : x # c => kept[x] = record[x],
         c \in ClientIds => kept[c].confirmed = record[c].confirmed,
         record' = Append(kept, new),
         listed' = (listed \ {c}) \cup {Len(record) + 1},
         \A s \in Usable : session[s].client # c,
         \A x \in listed : x # c =>
           \A j \in 1..Len(ListOf(x)) : ListOf(x)[j] \in Usable
  PROVE  AloneOK'
<1>1. PICK n \in Nat : n = Len(record) + 1 /\ ClientIds = 1..(n - 1) /\ n \notin ClientIds
  BY Tables DEF IInv
<1>2. record'[n] = new /\ \A x \in ClientIds : record'[x] = kept[x]
  BY <1>1, Appended
<1>3. \A x \in ClientIds : x # c => ListOf(x)' = ListOf(x)
  BY <1>2 DEF ListOf
<1>4. Len(ListOf(n)') = 0
  <2>1. record'[n].sessions = <<>>
    BY <1>2
  <2> QED  BY <2>1 DEF ListOf
<1>5. SessionIds' = SessionIds /\ Usable' = Usable
  BY DEF SessionIds, Usable
<1>6. \A x \in listed' : x = n \/ (x \in listed /\ x # c /\ x \in ClientIds)
  BY <1>1 DEF IInv, TypeOK
<1>7. \A s \in SessionIds : session[s].client \in ClientIds
  BY DEF IInv, IdsOK
<1>8. ListsOK'
  <2>1. SessionIdsDistinct'
    BY DEF AloneOK, ListsOK, SessionIdsDistinct
  <2>2. \A s \in SessionIds : record'[session[s].client].confirmed
    <3>1. \A x \in ClientIds : record'[x].confirmed = record[x].confirmed
      BY <1>2
    <3> QED  BY <1>7, <3>1 DEF AloneOK, ListsOK
  <2>3. \A s \in Usable : session[s].client \in listed'
    BY DEF AloneOK, ListsOK
  <2>4. \A x \in listed' : NoneTwice(ListOf(x)')
    <3>1. \A x \in listed : NoneTwice(ListOf(x))
      BY DEF AloneOK, ListsOK
    <3>2. NoneTwice(ListOf(n)')
      BY <1>4 DEF NoneTwice
    <3> QED  BY <1>3, <1>6, <3>1, <3>2
  <2> QED  BY <1>5, <2>1, <2>2, <2>3, <2>4 DEF ListsOK
<1>9. AllUsable'
  <2>1. \A j \in 1..Len(ListOf(n)') : FALSE
    BY <1>4
  <2>2. \A x \in listed' : \A j \in 1..Len(ListOf(x)') : ListOf(x)'[j] \in Usable
    BY <1>3, <1>6, <2>1
  <2> QED  BY <1>5, <2>2 DEF AllUsable
<1> QED  BY <1>8, <1>9, IdleKept

LEMMA NewAlone ==
  ASSUME IInv, AloneOK, NEW t \in Threads, workload.threads = {t}, UNCHANGED workload,
         NEW owner \in Owners, NEW verf \in Verifiers, NEW principal \in Principals,
         ExchangeIdNew(t, owner, verf, principal)
  PROVE  AloneOK'
<1>1. PICK new \in Records : new.sessions = <<>> /\ new = NewRecord(owner, verf, principal)
  <2>1. /\ NewRecord(owner, verf, principal) \in Records
        /\ NewRecord(owner, verf, principal).sessions = <<>>
    BY DEF NewRecord, Records
  <2> QED  BY <2>1
<1>2. PICK c : c = byOwner[owner] /\ (c = None \/ ~record[c].confirmed)
  BY DEF ExchangeIdNew, Confirmed
<1>3. PICK kept : kept = IF c = None THEN record ELSE [record EXCEPT ![c].freeze = TRUE]
  OBVIOUS
<1>4. /\ UNCHANGED <<workload, session, sessions>> /\ Answer(t, "EXCHANGE_ID", "OK")
      /\ record' = Append(kept, new) /\ listed' = (listed \ {c}) \cup {Len(record) + 1}
      /\ thread[t].pc = "idle"
  BY <1>1, <1>2, <1>3
     DEF ExchangeIdNew, MayExchangeId, AnswerExchangeId, Replacement, IsIdle
<1>5. c \in ClientIds \cup {None} /\ record \in Seq(Records) /\ None \notin ClientIds
  BY <1>2, ClientAssumption, Tables DEF IInv, TypeOK
<1>6. /\ kept \in Seq(Records) /\ Len(kept) = Len(record)
      /\ \A x \in ClientIds : x # c => kept[x] = record[x]
      /\ c \in ClientIds => kept[c].confirmed = record[c].confirmed
  <2>1. CASE c = None
    BY <1>3, <1>5, <2>1
  <2>2. CASE c # None
    <3>1. c \in ClientIds /\ record[c] \in Records /\ c \in DOMAIN record /\ ClientIds = DOMAIN record
      BY <1>5, <2>2, Tables DEF IInv
    <3>2. PICK r : r = [record[c] EXCEPT !.freeze = TRUE]
      OBVIOUS
    <3>3. r \in Records /\ r.confirmed = record[c].confirmed
      BY <3>1, <3>2 DEF Records
    <3>4. kept = [record EXCEPT ![c] = r]
      BY <1>3, <2>2, <3>2
    <3>5. /\ kept \in Seq(Records) /\ Len(kept) = Len(record) /\ kept[c] = r
          /\ \A x \in DOMAIN record : x # c => kept[x] = record[x]
      BY <1>5, <3>1, <3>3, <3>4, Replaced
    <3> QED  BY <3>1, <3>3, <3>5
  <2> QED  BY <2>1, <2>2
<1>7. \A s \in Usable : session[s].client # c
  <2>1. \A s \in SessionIds : session[s].client \in ClientIds /\ record[session[s].client].confirmed
    BY DEF IInv, IdsOK, AloneOK, ListsOK
  <2>2. Usable \subseteq SessionIds
    BY DEF IInv, IdsOK, Usable
  <2> QED  BY <1>2, <1>5, <2>1, <2>2
<1>8. AllUsable
  BY <1>4, Alone
<1>9. kept \in Seq(Records)
  BY <1>6
<1> QED  BY <1>1, <1>4, <1>6, <1>7, <1>8, <1>9, NewClientAlone DEF AllUsable

LEMMA ReplaceAlone ==
  ASSUME IInv, AloneOK, NEW t \in Threads, workload.threads = {t}, UNCHANGED workload,
         ReplaceClient(t)
  PROVE  AloneOK'
<1>1. PICK e : e = thread[t]
  OBVIOUS
<1>2. /\ e.pc = "replace" /\ e.client \in ClientIds /\ e.new \in Records /\ e.new.sessions = <<>>
  BY <1>1, States DEF ReplaceClient, IInv, ThreadsOK, ThreadOK, RebootOK, TypeOK
<1>3. PICK c \in ClientIds, new \in Records : c = e.client /\ new = e.new /\ new.sessions = <<>>
  BY <1>2
<1>4. PICK kept : kept = [record EXCEPT ![c].seqid = 0, ![c].sessions = <<>>, ![c].freeze = TRUE]
  OBVIOUS
<1>5. /\ UNCHANGED <<workload, session, sessions>> /\ Answer(t, e.op, "OK")
      /\ record' = Append(kept, new) /\ listed' = (listed \ {c}) \cup {Len(record) + 1}
  BY <1>1, <1>3, <1>4 DEF ReplaceClient, Finish
<1>6. /\ kept \in Seq(Records) /\ Len(kept) = Len(record) /\ kept[c].confirmed = record[c].confirmed
      /\ \A x \in ClientIds : x # c => kept[x] = record[x]
  <2>1. /\ record[c] \in Records /\ c \in DOMAIN record /\ ClientIds = DOMAIN record
        /\ record \in Seq(Records)
    BY Tables DEF IInv, TypeOK
  <2>2. PICK none \in Seq(Nat) : none = <<>>
    <3>1. <<>> \in Seq(Nat)
      OBVIOUS
    <3> QED  BY <3>1
  <2>3. PICK r : r = [record[c] EXCEPT !.seqid = 0, !.sessions = none, !.freeze = TRUE]
    OBVIOUS
  <2>4. r \in Records /\ r.confirmed = record[c].confirmed
    BY <2>1, <2>3 DEF Records
  <2>5. kept = [record EXCEPT ![c] = r]
    BY <1>4, <2>1, <2>2, <2>3
  <2>6. /\ kept \in Seq(Records) /\ Len(kept) = Len(record) /\ kept[c] = r
        /\ \A x \in DOMAIN record : x # c => kept[x] = record[x]
    BY <2>1, <2>4, <2>5, Replaced
  <2> QED  BY <2>1, <2>4, <2>6
<1>7. \A s \in Usable : session[s].client # c
  BY <1>1, <1>2, <1>3, Alone DEF WorkerOK
<1>8. \A x \in listed : x # c => \A j \in 1..Len(ListOf(x)) : ListOf(x)[j] \in Usable
  BY <1>1, <1>2, <1>3, Alone DEF WorkerOK, Gone
<1>9. kept \in Seq(Records) /\ (c \in ClientIds => kept[c].confirmed = record[c].confirmed)
  BY <1>6
<1>10. Len(kept) = Len(record) /\ \A x \in ClientIds : x # c => kept[x] = record[x]
  BY <1>6
<1>11. new.sessions = <<>>
  BY <1>3
<1> QED  BY ZenonT(40), <1>5, <1>7, <1>8, <1>9, <1>10, <1>11, NewClientAlone

LEMMA StartsAlone ==
  ASSUME Init
  PROVE  AloneOK
<1>1. /\ workload \in Workloads /\ record = <<>> /\ listed = {} /\ session = <<>>
      /\ DOMAIN sessions = {} /\ answer = None /\ thread = [t \in Threads |-> Idle]
  BY DEF Init
<1>2. Len(session) = 0 /\ SessionIds = {} /\ DOMAIN session = {} /\ Usable = {}
  BY <1>1 DEF SessionIds, Usable
<1>3. \A t \in workload.threads : thread[t].pc = "idle"
  BY <1>1, ClientAssumption DEF Idle
<1>4. ListsOK
  BY <1>1, <1>2 DEF ListsOK, SessionIdsDistinct
<1>5. NoFault
  BY <1>1 DEF NoFault
<1>6. \A t \in workload.threads : WorkerOK(thread[t])
  BY <1>1, <1>3 DEF WorkerOK
<1> QED  BY <1>4, <1>5, <1>6 DEF AloneOK

LEMMA StepsAlone ==
  ASSUME IInv, IInv', AloneOK, NEW t \in Threads, workload.threads = {t}, [Next]_vars
  PROVE  AloneOK'
<1>1. CASE UNCHANGED vars
  <2>1. UNCHANGED tables /\ thread' = thread /\ workload' = workload /\ answer' = answer
    BY <1>1 DEF vars, tables
  <2>2. /\ ListsOK' /\ Usable' = Usable
        /\ \A c : ListOf(c)' = ListOf(c) /\ Listing(c)' = Listing(c)
    BY <2>1, SameLists
  <2>3. PICK e : e = thread[t] /\ e = thread'[t]
    BY <2>1
  <2>4. WorkerOK(e)'
    BY <2>1, <2>2, <2>3, Alone DEF WorkerOK, Gone, tables
  <2>5. NoFault'
    BY <2>1 DEF AloneOK, NoFault
  <2> QED  BY <2>1, <2>2, <2>3, <2>4, <2>5 DEF AloneOK
<1>2. ASSUME Next
      PROVE  AloneOK'
  <2>1. /\ \/ ExchangeId(t) \/ ClientReboot(t) \/ CreateSessionSteps(t)
           \/ DestroySteps(t) \/ Reboot(t) \/ Wipe(t)
        /\ UNCHANGED workload
    BY <1>2 DEF Next
  <2>2. workload.principals \subseteq Principals
    BY ClientAssumption DEF IInv, TypeOK
  <2>3. CASE ExchangeId(t)
    <3>1. PICK o \in Owners, v \in Verifiers, p \in Principals :
            \/ ExchangeIdNew(t, o, v, p)
            \/ ExchangeIdNoClient(t, o)
            \/ ExchangeIdUpdate(t, o, v, p)
            \/ ExchangeIdAgain(t, o, v, p)
            \/ ExchangeIdReboot(t, o, v, p)
      BY <2>2, <2>3 DEF ExchangeId
    <3> QED  BY <2>1, <3>1, NewAlone, ExchangeIdsAlone, ClientRebootAlone
  <2>4. CASE ClientReboot(t)
    BY <2>1, <2>4, DiscardSessionAlone, DiscardEndsAlone, ReplaceAlone DEF ClientReboot
  <2>5. CASE CreateSessionSteps(t)
    BY <2>1, <2>5, CreateSessionAlone, NotNextAlone, ConfirmAlone, SessionRecordAlone,
       AttachAlone, PublishAlone DEF CreateSessionSteps
  <2>6. CASE DestroySteps(t)
    BY <2>1, <2>6, DestroySessionAlone, DeleteSessionAlone, DetachAlone DEF DestroySteps
  <2> QED  BY <2>1, <2>3, <2>4, <2>5, <2>6, RebootAlone, WipeAlone
<1> QED  BY <1>1, <1>2

LEMMA OnlyThread ==
  ASSUME TypeOK, OneAtATime
  PROVE  \E t \in Threads : workload.threads = {t}
BY ClientAssumption, FS_Singleton DEF TypeOK, OneAtATime

(* While requests come one at a time, what the only thread finds in the       *)
(* tables is what it left there: each session in the list of a listed client  *)
(* can be used, except for the one at hand.                                   *)
THEOREM OneByOneInvariance == Spec => [](OneAtATime => AloneOK)
<1>1. Init => (OneAtATime => AloneOK)
  BY StartsAlone
<1>2. IInv /\ IInv' /\ (OneAtATime => AloneOK) /\ [Next]_vars => (OneAtATime => AloneOK)'
  <2> SUFFICES ASSUME IInv, IInv', OneAtATime => AloneOK, [Next]_vars, OneAtATime'
               PROVE  AloneOK'
    OBVIOUS
  <2>1. workload' = workload
    BY DEF Next, vars
  <2>2. OneAtATime
    BY <2>1 DEF OneAtATime
  <2>3. PICK t \in Threads : workload.threads = {t}
    BY <2>2, OnlyThread DEF IInv
  <2> QED  BY <2>2, <2>3, StepsAlone
<1> QED  BY <1>1, <1>2, Invariance, PTL DEF Spec

(* While requests come one at a time, no operation on clients or sessions     *)
(* ends with the exception that op_compound turns into NFS4ERR_SERVERFAULT:   *)
(* what client_reboot, delete_session and DESTROY_SESSION take out of a table *)
(* is there.                                                                  *)
THEOREM OneByOneHasNoFault == Spec => []NoServerFault
<1>1. (OneAtATime => AloneOK) => NoServerFault
  BY DEF AloneOK, NoFault, NoServerFault
<1> QED  BY <1>1, OneByOneInvariance, PTL

(* Between operations that come one at a time, self.sessions and the lists of *)
(* the listed clients hold the same sessions, under ids that no session had   *)
(* before.                                                                    *)
THEOREM SessionsStayInAgreement == Spec => []SessionsAgree
<1>1. IInv /\ (OneAtATime => AloneOK) => SessionsAgree
  <2> SUFFICES ASSUME IInv, OneAtATime, AloneOK, Quiet
               PROVE  /\ SessionIdsDistinct
                      /\ \A sid \in DOMAIN sessions :
                           LET s == sessions[sid]
                           IN /\ session[s].sid = sid
                              /\ session[s].client \in listed
                              /\ s \in Range(record[session[s].client].sessions)
                      /\ \A c \in listed : Range(record[c].sessions) \subseteq Range(sessions)
    BY DEF SessionsAgree
  <2>1. PICK t \in Threads : workload.threads = {t}
    BY OnlyThread DEF IInv
  <2>2. AllUsable
    <3>1. thread[t].pc = "idle"
      BY DEF Quiet, IsIdle
    <3> QED  BY <2>1, <3>1, Alone
  <2>3. ASSUME NEW sid \in DOMAIN sessions, NEW s, s = sessions[sid]
        PROVE  /\ session[s].sid = sid /\ session[s].client \in listed
               /\ s \in Range(record[session[s].client].sessions)
    <3>1. s \in Usable /\ session[s].sid = sid
      BY <2>3 DEF Usable, IInv, IdsOK
    <3>2. session[s].client \in listed
      BY <3>1 DEF AloneOK, ListsOK
    <3> QED  BY <3>1, <3>2, UsableIsInRange DEF IInv, UsableIsListed
  <2>4. ASSUME NEW c \in listed
        PROVE  Range(record[c].sessions) \subseteq Range(sessions)
    <3>1. c \in ClientIds
      BY DEF IInv, TypeOK
    <3>2. DOMAIN ListOf(c) = 1..Len(ListOf(c))
      BY <3>1, Tables DEF IInv
    <3> QED  BY <2>2, <3>2, UsableIsInRange DEF AllUsable, Range, ListOf
  <2> QED  BY <2>3, <2>4 DEF AloneOK, ListsOK
<1> QED  BY <1>1, Invariance, OneByOneInvariance, PTL
==============================================================================
