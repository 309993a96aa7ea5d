---------------------------- MODULE ReplayCache ----------------------------
(* The replay cache of the 4.1 server, src/nfs4.1/nfs4server.py: class Slot   *)
(* and class Cache, and the path a COMPOUND takes through them: handle_1,     *)
(* op_compound, op_sequence and the sequence processing of                    *)
(* op_create_session.  rpc.py starts a thread for every record it receives,   *)
(* so a request and its retransmissions run at the same time.                 *)
(*                                                                           *)
(* Slots holds the slots of one session and ClientSlot the Slot in            *)
(* ClientRecord.session_replay, which serves CREATE_SESSION alone.  A client  *)
(* that keeps the protocol uses them: it sends the next call on a slot after  *)
(* the reply to the last, and may retransmit a call it waits for, at any time *)
(* and over any connection.                                                   *)
(*                                                                           *)
(* A workload bounds what happens: which COMPOUNDs the client sends, how many *)
(* calls it makes on a slot, how many connections are reset under a request.  *)
(* The other bounds are MaxCopies and the number of Threads.                  *)
EXTENDS Naturals, Sequences, FiniteSets

CONSTANTS
  Slots,      \* the slots of the fore channel
  ClientSlot, \* ClientRecord.session_replay
  Threads,    \* worker threads
  SeqMod,     \* the modulus of inc_u32: 2^32 in the code
  MaxCopies,  \* bound: transmissions per call
  Workloads   \* [shapes, calls, resets]

AllSlots == Slots \cup {ClientSlot}

(* "work": SEQUENCE and an operation that changes something, with and without *)
(* sa_cachethis; "session": CREATE_SESSION alone; "inSession": SEQUENCE and   *)
(* CREATE_SESSION, as the tests CSESS2 and CSESS5b send it.                   *)
AllShapes == {"work", "workUncached", "session", "inSession"}

ASSUME ReplayAssumption ==
  /\ ClientSlot \notin Slots
  /\ SeqMod \in Nat /\ SeqMod > 1
  /\ MaxCopies \in Nat
  /\ \A w \in Workloads : w.shapes \subseteq AllShapes /\ w.calls \in Nat /\ w.resets \in Nat

VARIABLES
  workload, \* one of Workloads
  seqid,    \* Slot.seqid
  caches,   \* every Cache a slot has had, in order; the last is replay_cache
  thread,   \* the worker threads, each with the env of its COMPOUND
  requests, \* COMPOUNDs on their way to the server
  replies,  \* replies on their way to the client
  call,     \* the client's last call on each slot
  executed, \* history: the outcomes of the times each call was carried out
  resets    \* connections reset so far

serverVars == <<seqid, caches, thread, executed>>
vars == <<workload, seqid, caches, thread, requests, replies, call, executed, resets>>

Shapes == workload.shapes
MaxCalls == workload.calls
MaxResets == workload.resets

inc_u32(i) == (i + 1) % SeqMod

-----------------------------------------------------------------------------
\* A result of one operation: which call it is the result of, and its status.
Result(op, s, k, status) == [op |-> op, slot |-> s, k |-> k, status |-> status]

\* A Cache that is not valid yet.  create_default_replays gives every slot a
\* first Cache, which is valid.
Unfilled == <<>>
DefaultReplay(s) ==
  <<Result(IF s = ClientSlot THEN "CREATE_SESSION" ELSE "SEQUENCE", s, 0, "MISORDERED")>>

(* A COMPOUND: call k of slot (ClientSlot if it has no SEQUENCE), and call    *)
(* csK of ClientSlot if it carries a CREATE_SESSION.  copy tells              *)
(* transmissions apart.                                                       *)
Request(shape, s, k, csK, copy) ==
  [shape |-> shape, slot |-> s, k |-> k, csK |-> csK, copy |-> copy]

\* The operations of a COMPOUND, in order
Ops(r) ==
  CASE r.shape = "session"   -> <<"CREATE_SESSION">>
    [] r.shape = "inSession" -> <<"SEQUENCE", "CREATE_SESSION">>
    [] OTHER                 -> <<"SEQUENCE", "WORK">>

CallOf(r, op) == IF op = "CREATE_SESSION" THEN <<ClientSlot, r.csK>> ELSE <<r.slot, r.k>>

\* PairedResults: what goes into the cache beside what goes to the client
Cached(results, caching) ==
  IF caching \/ Len(results) < 2
  THEN results
  ELSE <<results[1], [results[2] EXCEPT !.status = "RETRY_UNCACHED_REP"]>>

Idle == [pc |-> "idle"]

\* CompoundState: env.cache names a Cache by its slot and its place there.
NoCache == <<>>
Env(r) == [pc |-> "ops", req |-> r, cache |-> NoCache, results |-> <<>>, lost |-> FALSE]

CacheAt(c) == caches[c[1]][c[2]]
Newest(s) == <<s, Len(caches[s])>>
Caching(r) == r.shape # "workUncached"

Init ==
  /\ workload \in Workloads
  /\ seqid = [s \in AllSlots |-> 0]
  /\ caches = [s \in AllSlots |-> <<DefaultReplay(s)>>]
  /\ thread = [t \in Threads |-> Idle]
  /\ requests = {} /\ replies = {}
  /\ call = [s \in AllSlots |->
               [k |-> 0, csK |-> 0, shape |-> "none", copies |-> 0, waiting |-> FALSE,
                answer |-> "none"]]
  /\ executed = [c \in AllSlots \X (1..MaxCalls) |-> <<>>]
  /\ resets = 0

-----------------------------------------------------------------------------
(* The client                                                                 *)

InFlight == requests \cup {thread[t].req : t \in {u \in Threads : thread[u] # Idle}}

\* The COMPOUND that carries the call of a slot; the client sends it unchanged.
Transmission(s, c, copy) == Request(c.shape, s, c.k, c.csK, copy)

\* Calls that wait may be sent again.
Waiting == {Transmission(s, call[s], 1) : s \in {u \in Slots : call[u].waiting}}

(* A slot is free for its next call.  Sequence numbers come round after       *)
(* SeqMod calls: no request is that late (with 2^32 of them, none is).        *)
Free(s) ==
  /\ ~call[s].waiting /\ call[s].k < MaxCalls
  /\ \A r \in InFlight \cup Waiting :
       /\ (r.slot = s) => (r.k + SeqMod > call[s].k + 2)
       /\ (s = ClientSlot /\ r.csK > 0) => (r.csK + SeqMod > call[s].k + 2)

Begin(s, csK, shape) ==
  [k |-> call[s].k + 1, csK |-> csK, shape |-> shape, copies |-> 1, waiting |-> TRUE,
   answer |-> "none"]

\* A call of one operation beside SEQUENCE, or CREATE_SESSION alone
Call(s, shape) ==
  /\ Free(s)
  /\ shape \in Shapes \cap (IF s = ClientSlot THEN {"session"} ELSE {"work", "workUncached"})
  /\ call' = [call EXCEPT ![s] =
               Begin(s, IF s = ClientSlot THEN call[s].k + 1 ELSE 0, shape)]
  /\ requests' = requests \cup {Transmission(s, call'[s], 1)}
  /\ UNCHANGED <<serverVars, replies, resets>>

\* CREATE_SESSION sent inside another session
CallInSession(s) ==
  /\ "inSession" \in Shapes
  /\ s # ClientSlot /\ Free(s) /\ Free(ClientSlot)
  /\ LET csK == call[ClientSlot].k + 1 IN
     call' = [call EXCEPT ![s] = Begin(s, csK, "inSession"),
                          ![ClientSlot] = Begin(ClientSlot, csK, "inSession")]
  /\ requests' = requests \cup {Transmission(s, call'[s], 1)}
  /\ UNCHANGED <<serverVars, replies, resets>>

\* A transmission of a call again, unchanged
Retransmit(s) ==
  /\ call[s].waiting /\ call[s].copies < MaxCopies
  /\ s = ClientSlot => call[s].shape = "session"
  /\ call' = [call EXCEPT ![s].copies = @ + 1]
  /\ requests' = requests \cup {Transmission(s, call[s], call'[s].copies)}
  /\ UNCHANGED <<serverVars, replies, resets>>

\* A CREATE_SESSION that was sent inside a session, sent again alone (CSESS5b)
RetransmitAlone ==
  /\ {"session", "inSession"} \subseteq Shapes
  /\ call[ClientSlot].waiting /\ call[ClientSlot].shape = "inSession"
  /\ call[ClientSlot].copies < MaxCopies
  /\ call' = [call EXCEPT ![ClientSlot].copies = @ + 1]
  /\ requests' = requests \cup
       {Request("session", ClientSlot, call[ClientSlot].k, call[ClientSlot].k, call'[ClientSlot].copies)}
  /\ UNCHANGED <<serverVars, replies, resets>>

\* The first reply to a call ends it, unless it says the call is misordered;
\* its last result is the answer.  A reply to a call that is over is dropped.
Concerns(r, s) ==
  \/ r.req.slot = s /\ r.req.k = call[s].k
  \/ s = ClientSlot /\ r.req.csK > 0 /\ r.req.csK = call[s].k

LastStatus(r) == r.results[Len(r.results)].status

ReceiveReply(r) ==
  /\ replies' = replies \ {r}
  /\ call' = [s \in AllSlots |->
       IF Concerns(r, s) /\ call[s].waiting /\ LastStatus(r) # "MISORDERED"
       THEN [call[s] EXCEPT !.waiting = FALSE, !.answer = LastStatus(r)]
       ELSE call[s]]
  /\ UNCHANGED <<serverVars, requests, resets>>

\* The network loses a request.  A lost reply is one that is never received.
Lose ==
  /\ \E r \in requests : requests' = requests \ {r}
  /\ UNCHANGED <<serverVars, replies, call, resets>>

-----------------------------------------------------------------------------
(* The server                                                                 *)

\* ConnectionHandler._event_read: a record gets a thread of its own.
Dispatch(t) ==
  /\ thread[t] = Idle
  /\ \E r \in requests :
       /\ requests' = requests \ {r}
       /\ thread' = [thread EXCEPT ![t] = Env(r)]
  /\ UNCHANGED <<seqid, caches, replies, call, executed, resets>>

NextOp(t) == Ops(thread[t].req)[Len(thread[t].results) + 1]

\* The client's sequence number for a call
SeqidOf(c) == c[2] % SeqMod

\* Mutant: a retransmission is taken for a new call.
InOrderOrSame(s, q) == q \in {seqid[s], inc_u32(seqid[s])}

\* Slot.check_seqid, which runs under slot.lock, as far as its answer goes
InOrder(s, q) == q = inc_u32(seqid[s])
Replayed(s, q) == q = seqid[s] /\ ~InOrder(s, q)

\* Mutant: the slot clears its Cache instead of making another.
AcceptInPlace(t, s, q, result) ==
  /\ InOrder(s, q)
  /\ seqid' = [seqid EXCEPT ![s] = q]
  /\ caches' = [caches EXCEPT ![s][Len(caches[s])] = Unfilled]
  /\ thread' = [thread EXCEPT ![t].cache = Newest(s),
                              ![t].results = Append(@, result)]

\* Mutant: the slot keeps the Cache of the call before.
AcceptKeepsCache(t, s, q, result) ==
  /\ InOrder(s, q)
  /\ seqid' = [seqid EXCEPT ![s] = q]
  /\ thread' = [thread EXCEPT ![t].cache = Newest(s),
                              ![t].results = Append(@, result)]
  /\ UNCHANGED caches

\* all is good: a new Cache for the result, which env.cache names from now on
Accept(t, s, q, result) ==
  /\ InOrder(s, q)
  /\ seqid' = [seqid EXCEPT ![s] = q]
  /\ caches' = [caches EXCEPT ![s] = Append(@, Unfilled)]
  /\ thread' = [thread EXCEPT ![t].cache = <<s, Len(caches[s]) + 1>>,
                              ![t].results = Append(@, result)]

\* NFS4Replay: handle_1 will wait for the Cache the slot has now
Replay(t, s, q) ==
  /\ Replayed(s, q)
  /\ thread' = [thread EXCEPT ![t].cache = Newest(s), ![t].pc = "wait"]
  /\ UNCHANGED <<seqid, caches>>

\* NFS4ERR_SEQ_MISORDERED: the COMPOUND ends here
Misordered(t, s, q, result) ==
  /\ ~InOrder(s, q) /\ ~Replayed(s, q)
  /\ thread' = [thread EXCEPT ![t].pc = "finish",
                              ![t].results = Append(@, [result EXCEPT !.status = "MISORDERED"])]
  /\ UNCHANGED <<seqid, caches>>

\* op_sequence and the seqid step of op_create_session.  CREATE_SESSION does
\* its work after check_seqid; SEQUENCE has none of its own.
CheckSeqid(t) ==
  /\ thread[t].pc = "ops" /\ Len(thread[t].results) < Len(Ops(thread[t].req))
  /\ NextOp(t) \in {"SEQUENCE", "CREATE_SESSION"}
  /\ LET op == NextOp(t)
         c  == CallOf(thread[t].req, op)
         s  == c[1]
         q  == SeqidOf(c)
         ok == Result(op, s, c[2], "OK")
     IN /\ Accept(t, s, q, ok) \/ Replay(t, s, q) \/ Misordered(t, s, q, ok)
        /\ executed' = IF op = "CREATE_SESSION" /\ InOrder(s, q)
                       THEN [executed EXCEPT ![c] = Append(@, "OK")] ELSE executed
  /\ UNCHANGED <<requests, replies, call, resets>>

\* Any other operation of the COMPOUND, which may succeed or fail
Work(t) ==
  /\ thread[t].pc = "ops" /\ Len(thread[t].results) < Len(Ops(thread[t].req))
  /\ NextOp(t) = "WORK"
  /\ LET c == CallOf(thread[t].req, "WORK") IN
     \E status \in {"OK", "FAILED"} :
       /\ executed' = [executed EXCEPT ![c] = Append(@, status)]
       /\ thread' = [thread EXCEPT ![t].results = Append(@, Result("WORK", c[1], c[2], status))]
  /\ UNCHANGED <<seqid, caches, requests, replies, call, resets>>

\* The peer resets the connection a request came in on.
Reset(t) ==
  /\ resets < MaxResets
  /\ thread[t] # Idle /\ ~thread[t].lost
  /\ thread' = [thread EXCEPT ![t].lost = TRUE]
  /\ resets' = resets + 1
  /\ UNCHANGED <<seqid, caches, requests, replies, call, executed>>

\* Mutant: the replay cache is not stuffed.
FinishWithoutFill(t) ==
  /\ thread[t].pc \in {"ops", "finish"}
  /\ thread[t].pc = "ops" => Len(thread[t].results) = Len(Ops(thread[t].req))
  /\ thread' = [thread EXCEPT ![t] = IF @.lost THEN Idle ELSE [@ EXCEPT !.pc = "send"]]
  /\ UNCHANGED <<seqid, caches, requests, replies, call, executed, resets>>

\* The end of op_compound asks the connection for its peer's name, whether or
\* not the summary is printed: on a connection that was reset this raises, and
\* handle_1 is left without filling the cache; the SYSTEM_ERR has no receiver.
Finish(t) ==
  /\ thread[t].pc \in {"ops", "finish"}
  /\ thread[t].pc = "ops" => Len(thread[t].results) = Len(Ops(thread[t].req))
  /\ thread' = [thread EXCEPT ![t] = IF @.lost THEN Idle ELSE [@ EXCEPT !.pc = "fill"]]
  /\ UNCHANGED <<seqid, caches, requests, replies, call, executed, resets>>

\* handle_1 stuffs the replay cache, and only then returns the reply.
Fill(t) ==
  /\ thread[t].pc = "fill"
  /\ caches' = IF thread[t].cache = NoCache THEN caches
               ELSE [caches EXCEPT ![thread[t].cache[1]][thread[t].cache[2]] =
                       Cached(thread[t].results, Caching(thread[t].req))]
  /\ thread' = [thread EXCEPT ![t].pc = "send"]
  /\ UNCHANGED <<seqid, requests, replies, call, executed, resets>>

\* e.cache.valid.wait() returns, and the reply is what the cache holds.
WaitForCache(t) ==
  /\ thread[t].pc = "wait"
  /\ CacheAt(thread[t].cache) # Unfilled
  /\ thread' = [thread EXCEPT ![t].results = CacheAt(thread[t].cache), ![t].pc = "send"]
  /\ UNCHANGED <<seqid, caches, requests, replies, call, executed, resets>>

\* pipe.send_reply; the thread ends.  Which transmission it answers matters
\* to nobody.
Send(t) ==
  /\ thread[t].pc = "send"
  /\ replies' = IF thread[t].lost THEN replies
                ELSE replies \cup {[req |-> [thread[t].req EXCEPT !.copy = 1],
                                    results |-> thread[t].results]}
  /\ thread' = [thread EXCEPT ![t] = Idle]
  /\ UNCHANGED <<seqid, caches, requests, call, executed, resets>>

ServerStep(t) == CheckSeqid(t) \/ Work(t) \/ Finish(t) \/ Fill(t) \/ WaitForCache(t) \/ Send(t)

Next ==
  /\ \/ \E s \in AllSlots : \E shape \in Shapes : Call(s, shape)
     \/ \E s \in Slots : CallInSession(s)
     \/ \E s \in AllSlots : Retransmit(s)
     \/ RetransmitAlone
     \/ \E r \in replies : ReceiveReply(r)
     \/ Lose
     \/ \E t \in Threads : Dispatch(t) \/ ServerStep(t) \/ Reset(t)
  /\ UNCHANGED workload

Spec == Init /\ [][Next]_vars

(* Threads the system scheduler runs; nothing is assumed of the network, of   *)
(* the client or of the arrival of requests.                                  *)
Fairness == \A t \in Threads : WF_vars(ServerStep(t) /\ UNCHANGED workload)
FairSpec == Spec /\ Fairness

-----------------------------------------------------------------------------
(* Properties                                                                 *)

(* No operation is carried out twice, however often its request is sent and   *)
(* however the threads that received it interleave.                           *)
AtMostOnce == \A c \in DOMAIN executed : Len(executed[c]) <= 1

(* A reply carries the results of the operations of its own request, in their *)
(* order, and says of each what came of its one execution: never those of     *)
(* another call, nor of another COMPOUND.  A CREATE_SESSION that was sent     *)
(* inside a session and again alone is the exception: its slot keeps the      *)
(* reply to the COMPOUND that came first, whole, so that there may be one     *)
(* result more or less than the request has operations, but the session is    *)
(* the one that was asked for.                                                *)
AnswersItsRequest ==
  \A r \in replies : \A i \in 1..Len(r.results) :
    LET x == r.results[i] IN
    /\ r.req.csK = 0 =>
         /\ i <= Len(Ops(r.req)) /\ x.op = Ops(r.req)[i]
         /\ <<x.slot, x.k>> = CallOf(r.req, x.op)
    /\ x.op = "CREATE_SESSION" => <<x.slot, x.k>> = <<ClientSlot, r.req.csK>>
    /\ x.op = "WORK" =>
         \/ x.status = "RETRY_UNCACHED_REP" /\ ~Caching(r.req)
         \/ executed[<<x.slot, x.k>>] = <<x.status>>

\* op_create_session inside a session replaces the env.cache of its SEQUENCE.
CacheForgotten(t) ==
  thread[t].pc = "wait" /\ thread[t].req.shape = "inSession" /\ thread[t].cache[1] \in Slots

(* A retransmission that came in before the reply to the first request was    *)
(* coded is answered in the end, but for the two cases in which the cache is  *)
(* never filled: the connection of a request was reset under it, or the       *)
(* SEQUENCE was followed by a CREATE_SESSION.                                 *)
ReplayEnds ==
  \A t \in Threads :
    (thread[t].pc = "wait" /\ ~CacheForgotten(t) /\ resets = 0)
      ~> (thread[t].pc # "wait" \/ resets > 0)

-----------------------------------------------------------------------------
(* What all this is for: seen from the client, a slot carries out one call at *)
(* a time, once.                                                              *)
\* A call is carried out by its operation: of a CREATE_SESSION inside a session
\* there is one execution for both slots.
Executions(s) ==
  IF call[s].shape = "inSession" THEN executed[<<ClientSlot, call[s].csK>>]
  ELSE executed[<<s, call[s].k>>]

phase == [s \in AllSlots |->
  IF ~call[s].waiting THEN "idle" ELSE IF Executions(s) = <<>> THEN "asked" ELSE "done"]
calls == [s \in AllSlots |-> call[s].k]
outcome == [s \in AllSlots |->
  IF call[s].k = 0 \/ Executions(s) = <<>> THEN "none" ELSE Executions(s)[1]]
answer == [s \in AllSlots |-> call[s].answer]

Abstract == INSTANCE ExactlyOnce WITH Callers <- AllSlots
ImplementsExactlyOnce == Abstract!Spec
=============================================================================
