------------------------- MODULE ReplayCache_proofs -------------------------
(* Proofs about ReplayCache for every set of slots and of threads, every      *)
(* modulus above one and every bound.  The inductive invariant follows a call *)
(* from the client to the cache and back.  Accepted(s), the calls of a slot   *)
(* the server took, is never more than one behind those the client made; so a *)
(* sequence id says which call it is of, although sequence ids come round.    *)
EXTENDS ReplayCache, SequenceTheorems, TLAPS

\* How many calls of a slot were accepted: each made a Cache.
Accepted(s) == Len(caches[s]) - 1

-----------------------------------------------------------------------------
(* What may be said to a request                                              *)

InSequence(r) == Result("SEQUENCE", r.slot, r.k, "OK")
Created(k) == Result("CREATE_SESSION", ClientSlot, k, "OK")
Worked(r, status) == Result("WORK", r.slot, r.k, status)
Refusal(x) == [x EXCEPT !.status = "MISORDERED"]

Outcomes == {"OK", "FAILED"}
WorkShapes == {"work", "workUncached"}

\* The COMPOUND ended where a sequence id was refused.
Refused(results, r) ==
  \/ r.shape # "session" /\ results = <<Refusal(InSequence(r))>>
  \/ r.shape = "session" /\ results = <<Refusal(Created(r.csK))>>
  \/ r.shape = "inSession" /\ results = <<InSequence(r), Refusal(Created(r.csK))>>

\* The reply to the COMPOUND that created a session, whole
CreatedBy(results, k) ==
  \/ results = <<Created(k)>>
  \/ \E s \in Slots, i \in Nat : results = <<Result("SEQUENCE", s, i, "OK"), Created(k)>>

\* The work of a call was done, and the results say how or that it is not known.
WorkedBy(results, r) ==
  \E status \in Outcomes :
    /\ executed[<<r.slot, r.k>>] = <<status>>
    /\ \/ results = <<InSequence(r), Worked(r, status)>>
       \/ /\ r.shape = "workUncached"
          /\ results = <<InSequence(r), Worked(r, "RETRY_UNCACHED_REP")>>

\* All of the COMPOUND was carried out, in this transmission or another.
Answered(results, r) ==
  /\ r.k <= Accepted(r.slot)
  /\ r.shape \in WorkShapes => WorkedBy(results, r)
  /\ r.shape \notin WorkShapes => r.csK <= Accepted(ClientSlot) /\ CreatedBy(results, r.csK)

Told(results, r) == Refused(results, r) \/ Answered(results, r)

-----------------------------------------------------------------------------
(* Types                                                                      *)

Requests == [shape : AllShapes, slot : AllSlots, k : Nat, csK : Nat, copy : Nat]
Statuses == Outcomes \cup {"MISORDERED", "RETRY_UNCACHED_REP"}
Results == [op : {"SEQUENCE", "CREATE_SESSION", "WORK"}, slot : AllSlots, k : Nat,
            status : Statuses]
Envs == [pc : {"ops", "finish", "fill", "wait", "send"}, req : Requests,
         cache : {NoCache} \cup (AllSlots \X Nat), results : Seq(Results), lost : BOOLEAN]
Calls == [k : Nat, csK : Nat, shape : AllShapes \cup {"none"}, copies : Nat,
          waiting : BOOLEAN, answer : Statuses \cup {"none"}]

TypeOK ==
  /\ workload \in Workloads
  /\ seqid \in [AllSlots -> Nat]
  /\ caches \in [AllSlots -> Seq(Seq(Results))]
  /\ thread \in [Threads -> {Idle} \cup Envs]
  /\ requests \in SUBSET Requests
  /\ replies \in SUBSET [req : Requests, results : Seq(Results)]
  /\ call \in [AllSlots -> Calls]
  /\ executed \in [AllSlots \X (1..MaxCalls) -> Seq(Outcomes)]

-----------------------------------------------------------------------------
(* The client and the server keep step.                                       *)

\* What the client has asked
CallOK(s) ==
  /\ call[s].k <= MaxCalls
  /\ call[s].k = 0 => ~call[s].waiting /\ call[s].shape = "none"
  /\ s \in Slots /\ call[s].k > 0 =>
       \/ call[s].shape \in WorkShapes /\ call[s].csK = 0
       \/ call[s].shape = "inSession" /\ call[s].csK \in 1..call[ClientSlot].k
  /\ s = ClientSlot /\ call[s].k > 0 =>
       call[s].shape \in {"session", "inSession"} /\ call[s].csK = call[s].k

\* A call that is over was accepted, and carried out.
InStep(s) ==
  /\ Accepted(s) \in {call[s].k, call[s].k - 1}
  /\ ~call[s].waiting =>
       /\ Accepted(s) = call[s].k
       /\ call[s].shape \in WorkShapes => executed[<<s, call[s].k>>] # <<>>
       /\ call[s].shape = "inSession" => call[s].csK <= Accepted(ClientSlot)

SlotOK(s) ==
  /\ caches[s] # <<>>
  /\ seqid[s] = Accepted(s) % SeqMod

\* Work is done after its call was accepted; a session is made as it is.
ExecutedOK ==
  /\ \A s \in Slots, k \in 1..MaxCalls :
       /\ executed[<<s, k>>] # <<>> => k <= Accepted(s)
       /\ Len(executed[<<s, k>>]) <= 1
  /\ \A k \in 1..MaxCalls :
       executed[<<ClientSlot, k>>] = IF k <= Accepted(ClientSlot) THEN <<"OK">> ELSE <<>>

-----------------------------------------------------------------------------
(* Requests                                                                   *)

\* Requests the server may yet see, and those it has answered
Live == InFlight \cup Waiting
Known == Live \cup {x.req : x \in replies}

\* A COMPOUND the client has sent
WellFormed(r) ==
  /\ r.k \in 1..call[r.slot].k
  /\ r.shape \in WorkShapes => r.slot \in Slots /\ r.csK = 0
  /\ r.shape = "inSession" => r.slot \in Slots /\ r.csK \in 1..call[ClientSlot].k
  /\ r.shape = "session" => r.slot = ClientSlot /\ r.csK = r.k

\* A call that is not older than SeqMod allows
Recent(r) ==
  /\ call[r.slot].k + 2 <= r.k + SeqMod
  /\ r.csK > 0 => call[ClientSlot].k + 2 <= r.csK + SeqMod

RequestsOK ==
  /\ \A r \in Known : WellFormed(r)
  /\ \A r \in Live : Recent(r)

\* Transmissions of one call are the same COMPOUND.
SameCompound ==
  \A r, q \in Known :
    r.slot \in Slots /\ q.slot = r.slot /\ q.k = r.k => q.shape = r.shape /\ q.csK = r.csK

-----------------------------------------------------------------------------
(* Caches, threads and replies                                                *)

\* A Cache that was filled holds an answer to every transmission of its call.
Hold(c) ==
  /\ \A r \in Live : r.slot \in Slots /\ r.k <= Accepted(r.slot) =>
       c[r.slot][r.k + 1] = Unfilled \/ Told(c[r.slot][r.k + 1], r)
  /\ \A k \in 1..Accepted(ClientSlot) :
       c[ClientSlot][k + 1] = Unfilled \/ CreatedBy(c[ClientSlot][k + 1], k)

CachesOK == Hold(caches)

\* The Cache of SEQUENCE, and that of CREATE_SESSION
SlotCache(e) ==
  /\ e.req.slot \in Slots /\ e.req.k <= Accepted(e.req.slot)
  /\ e.cache = <<e.req.slot, e.req.k + 1>>
ClientCache(e) ==
  /\ e.req.csK > 0 /\ e.req.csK <= Accepted(ClientSlot) /\ e.req.k <= Accepted(e.req.slot)
  /\ e.cache = <<ClientSlot, e.req.csK + 1>>

\* SEQUENCE was accepted, and the work is to be done: the client waits.
Pending(e) ==
  /\ e.pc = "ops" /\ e.req.shape \in WorkShapes
  /\ e.results = <<InSequence(e.req)>>

PendingOK(e) ==
  /\ SlotCache(e)
  /\ executed[<<e.req.slot, e.req.k>>] = <<>>
  /\ call[e.req.slot].k = e.req.k /\ call[e.req.slot].waiting

\* The whole COMPOUND was carried out by this thread.
Complete(e) ==
  \/ /\ e.req.shape \in WorkShapes /\ SlotCache(e)
     /\ \E status \in Outcomes :
          /\ executed[<<e.req.slot, e.req.k>>] = <<status>>
          /\ e.results = <<InSequence(e.req), Worked(e.req, status)>>
  \/ /\ e.req.shape = "session" /\ ClientCache(e)
     /\ e.results = <<Created(e.req.csK)>>
  \/ /\ e.req.shape = "inSession" /\ ClientCache(e)
     /\ e.results = <<InSequence(e.req), Created(e.req.csK)>>

OpsOK(e) ==
  \/ e.results = <<>> /\ e.cache = NoCache
  \/ Pending(e) /\ PendingOK(e)
  \/ e.req.shape = "inSession" /\ e.results = <<InSequence(e.req)>> /\ SlotCache(e)
  \/ Complete(e)

EnvOK(e) ==
  /\ e.pc = "ops" => OpsOK(e)
  /\ e.pc = "finish" => Refused(e.results, e.req) /\ (e.cache = NoCache \/ SlotCache(e))
  /\ e.pc = "fill" =>
       \/ Refused(e.results, e.req) /\ (e.cache = NoCache \/ SlotCache(e))
       \/ Complete(e)
  /\ e.pc = "wait" => SlotCache(e) \/ ClientCache(e)
  /\ e.pc = "send" => Told(e.results, e.req)

ThreadsOK ==
  /\ \A t \in Threads : thread[t] # Idle => EnvOK(thread[t])
  /\ \A t, u \in Threads :
       (/\ Pending(thread[t]) /\ Pending(thread[u])
        /\ thread[t].req.slot = thread[u].req.slot /\ thread[t].req.k = thread[u].req.k)
       => t = u

RepliesOK == \A x \in replies : Told(x.results, x.req)

IInv ==
  /\ TypeOK
  /\ \A s \in AllSlots : CallOK(s) /\ InStep(s) /\ SlotOK(s)
  /\ ExecutedOK
  /\ RequestsOK
  /\ SameCompound
  /\ CachesOK
  /\ ThreadsOK
  /\ RepliesOK

-----------------------------------------------------------------------------
(* Sequence ids                                                               *)

(* Two numbers less than a modulus apart are told apart by it.                *)
LEMMA ModEqual ==
  ASSUME NEW M \in Nat, M > 0, NEW a \in Nat, NEW b \in Nat, a % M = b % M, a <= b, b < a + M
  PROVE  a = b
<1> DEFINE qa == a \div M
           qb == b \div M
<1>1. /\ qa \in Nat /\ qb \in Nat /\ a % M \in Nat
      /\ a = (M * qa) + (a % M) /\ b = (M * qb) + (a % M)
  OBVIOUS
<1> HIDE DEF qa, qb
<1>2. ASSUME NEW q \in Int, q >= 1 PROVE M * q >= M
  BY <1>2
<1>3. ~(qb - qa >= 1)
  <2>1. b - a = M * (qb - qa)
    BY <1>1
  <2> QED  BY <1>1, <1>2, <2>1
<1>4. ~(qa - qb >= 1)
  <2>1. a - b = M * (qa - qb)
    BY <1>1
  <2> QED  BY <1>1, <1>2, <2>1
<1>5. qa = qb
  BY <1>1, <1>3, <1>4
<1> QED  BY <1>1, <1>5

LEMMA IncMod ==
  ASSUME NEW M \in Nat, M > 1, NEW a \in Nat
  PROVE  ((a % M) + 1) % M = (a + 1) % M /\ (a + 1) % M \in Nat
<1> DEFINE q == a \div M
           r == a % M
<1>1. a = (M * q) + r /\ q \in Nat /\ r \in 0..(M - 1)
  OBVIOUS
<1> HIDE DEF q, r
<1>2. ((M * q) + (r + 1)) % M = (r + 1) % M
  BY <1>1
<1>3. a + 1 = (M * q) + (r + 1)
  BY <1>1
<1> QED  BY <1>1, <1>2, <1>3 DEF r

(* Where the server has accepted all calls but perhaps the last, and a call   *)
(* is not too old, its sequence id is the next exactly when it is the next    *)
(* call, and that of a replay only when it is the call that came last.        *)
LEMMA SeqidTells ==
  ASSUME NEW a \in Nat, NEW last \in Nat, NEW k \in 1..last,
         a \in {last, last - 1}, last + 2 <= k + SeqMod
  PROVE  /\ k % SeqMod = (a + 1) % SeqMod => k = a + 1 /\ a + 1 = last
         /\ k % SeqMod = a % SeqMod => k = a
<1>1. SeqMod \in Nat /\ SeqMod > 1
  BY ReplayAssumption
<1>2. k \in Nat /\ k <= last /\ last - k <= SeqMod - 2 /\ a + 1 >= last
  BY <1>1
<1>3. ASSUME k % SeqMod = (a + 1) % SeqMod
      PROVE  k = a + 1
  <2>1. k <= a + 1 /\ a + 1 < k + SeqMod
    BY <1>1, <1>2
  <2> QED  BY <1>1, <1>2, <1>3, <2>1, ModEqual
<1>4. ASSUME k % SeqMod = a % SeqMod
      PROVE  k = a
  <2>1. CASE k <= a
    <3>1. a < k + SeqMod
      BY <1>1, <1>2
    <3> QED  BY <1>1, <1>2, <1>4, <2>1, <3>1, ModEqual
  <2>2. CASE k > a
    <3>1. k < a + SeqMod /\ a <= k /\ a % SeqMod = k % SeqMod
      BY <1>1, <1>2, <1>4, <2>2
    <3> QED  BY <1>1, <1>2, <3>1, ModEqual
  <2> QED  BY <1>2, <2>1, <2>2
<1> QED  BY <1>2, <1>3, <1>4

-----------------------------------------------------------------------------
(* What is said to a call does not depend on the transmission.                *)
SameCall(q, r) == q.slot = r.slot /\ q.k = r.k /\ q.csK = r.csK /\ q.shape = r.shape

LEMMA ToldAlike ==
  ASSUME NEW q, NEW r, SameCall(q, r), NEW results
  PROVE  /\ Answered(results, q) <=> Answered(results, r)
         /\ Refused(results, q) <=> Refused(results, r)
         /\ WellFormed(q) <=> WellFormed(r)
         /\ Recent(q) <=> Recent(r)
<1> USE DEF SameCall
<1>1. InSequence(q) = InSequence(r) /\ \A status : Worked(q, status) = Worked(r, status)
  BY DEF InSequence, Worked, Result
<1>2. WorkedBy(results, q) <=> WorkedBy(results, r)
  BY <1>1 DEF WorkedBy
<1>3. Answered(results, q) <=> Answered(results, r)
  BY <1>2 DEF Answered
<1>4. Refused(results, q) <=> Refused(results, r)
  BY <1>1 DEF Refused
<1> QED  BY <1>3, <1>4 DEF WellFormed, Recent

(* What the server may see or has answered is a COMPOUND the client sent.     *)
LEMMA KnownOK ==
  ASSUME IInv, NEW r \in Known
  PROVE  /\ r \in Requests /\ WellFormed(r)
         /\ r.slot \in AllSlots /\ r.k \in 1..MaxCalls
         /\ r.csK > 0 => r.csK \in 1..MaxCalls
<1>1. InFlight \subseteq Requests
  BY DEF IInv, TypeOK, InFlight, Envs, Idle
<1>2. ASSUME NEW u \in Slots, call[u].waiting
      PROVE  Transmission(u, call[u], 1) \in Requests
  <2>1. u \in AllSlots /\ CallOK(u) /\ call[u] \in Calls
    BY DEF AllSlots, IInv, TypeOK
  <2>2. call[u].shape \in AllShapes
    BY <1>2, <2>1 DEF CallOK, Calls, AllShapes, WorkShapes
  <2> QED  BY <2>1, <2>2 DEF Transmission, Request, Requests, Calls
<1>3. r \in Requests
  BY <1>1, <1>2 DEF Known, Live, Waiting, IInv, TypeOK
<1>4. WellFormed(r)
  BY DEF IInv, RequestsOK
<1>5. \A s \in AllSlots : call[s].k \in Nat /\ call[s].k <= MaxCalls
  BY DEF IInv, TypeOK, Calls, CallOK
<1>6. MaxCalls \in Nat
  BY ReplayAssumption DEF IInv, TypeOK, MaxCalls
<1>7. ClientSlot \in AllSlots /\ r.slot \in AllSlots
  BY <1>3 DEF AllSlots, Requests
<1>8. r.k \in 1..MaxCalls
  BY <1>4, <1>5, <1>6, <1>7 DEF WellFormed
<1>9. ASSUME r.csK > 0 PROVE r.csK \in 1..MaxCalls
  <2>1. r.shape = "inSession" \/ r.shape = "session"
    BY <1>3, <1>4, <1>9 DEF WellFormed, WorkShapes, Requests, AllShapes
  <2> QED  BY <1>4, <1>5, <1>6, <1>7, <1>8, <2>1 DEF WellFormed
<1> QED  BY <1>3, <1>4, <1>7, <1>8, <1>9

(* A step of one thread by which the session does not change, but perhaps the *)
(* contents of a Cache: nothing new is known, and the thread keeps to what it *)
(* may do.                                                                    *)
LEMMA LocalStep ==
  ASSUME IInv, NEW t \in Threads, NEW e \in {Idle} \cup Envs,
         thread' = [thread EXCEPT ![t] = e],
         UNCHANGED <<workload, seqid, call, executed>>,
         caches' \in [AllSlots -> Seq(Seq(Results))],
         \A s \in AllSlots : Len(caches'[s]) = Len(caches[s]),
         Hold(caches'),
         requests' \subseteq requests,
         e # Idle => EnvOK(e) /\ e.req \in Live,
         Pending(e) => Pending(thread[t]) /\ e.req = thread[t].req,
         \A x \in replies' \ replies :
           /\ x \in [req : Requests, results : Seq(Results)]
           /\ Told(x.results, x.req) /\ \E q \in Live : SameCall(q, x.req)
  PROVE  IInv'
<1>1. /\ thread \in [Threads -> {Idle} \cup Envs]
      /\ \A u \in Threads : thread'[u] = IF u = t THEN e ELSE thread[u]
  BY DEF IInv, TypeOK
<1>2. TypeOK'
  BY <1>1 DEF IInv, TypeOK, MaxCalls
<1>3. Live' \subseteq Live /\ Live \subseteq Requests
  <2>1. Waiting' = Waiting
    BY DEF Waiting
  <2>2. InFlight' \subseteq Live
    BY <1>1 DEF InFlight, Live
  <2> QED  BY <2>1, <2>2, KnownOK DEF Live, Known
<1>4. \A r \in Known' : \E q \in Known : SameCall(q, r)
  BY <1>3 DEF Known, SameCall
<1> DEFINE A == [s \in AllSlots |-> Accepted(s)]
<1>5. \A s \in AllSlots : A[s] = Accepted(s) /\ A[s] = Accepted(s)'
  BY DEF Accepted
<1>6. \A r \in Known' : r \in Requests
  BY <1>2, <1>3 DEF Known, TypeOK
<1>7. ASSUME NEW results, NEW r \in Requests
      PROVE  /\ Told(results, r)' <=> Told(results, r)
             /\ WellFormed(r)' <=> WellFormed(r)
             /\ Recent(r)' <=> Recent(r)
  <2>1. r.slot \in AllSlots /\ ClientSlot \in AllSlots
    BY DEF Requests, AllSlots
  <2> QED  BY <1>5, <2>1 DEF Told, Refused, Answered, WorkedBy, WellFormed, Recent
<1>8. ASSUME NEW d \in Envs
      PROVE  EnvOK(d)' <=> EnvOK(d)
  <2>1. d.req \in Requests /\ d.req.slot \in AllSlots /\ ClientSlot \in AllSlots
    BY DEF Envs, Requests, AllSlots
  <2>2. /\ SlotCache(d)' <=> SlotCache(d)
        /\ ClientCache(d)' <=> ClientCache(d)
    BY <1>5, <2>1 DEF SlotCache, ClientCache
  <2> QED  BY <1>7, <2>1, <2>2 DEF EnvOK, OpsOK, PendingOK, Pending, Complete, Refused
<1>9. \A s \in AllSlots : CallOK(s)' /\ InStep(s)' /\ SlotOK(s)'
  <2> SUFFICES ASSUME NEW s \in AllSlots PROVE CallOK(s)' /\ InStep(s)' /\ SlotOK(s)'
    OBVIOUS
  <2>1. ClientSlot \in AllSlots
    BY DEF AllSlots
  <2>2. CallOK(s)' /\ InStep(s)'
    BY <1>5, <2>1 DEF IInv, CallOK, InStep, MaxCalls
  <2>3. SlotOK(s)'
    <3>1. caches[s] \in Seq(Seq(Results)) /\ caches'[s] \in Seq(Seq(Results)) /\ caches[s] # <<>>
      BY DEF IInv, TypeOK, SlotOK
    <3>2. caches'[s] # <<>>
      BY <3>1
    <3> QED  BY <1>5, <3>2 DEF IInv, SlotOK
  <2> QED  BY <2>2, <2>3
<1>10. ExecutedOK'
  <2>1. ClientSlot \in AllSlots /\ Slots \subseteq AllSlots
    BY DEF AllSlots
  <2> QED  BY <1>5, <2>1 DEF IInv, ExecutedOK, MaxCalls
<1>11. RequestsOK'
  <2>1. ASSUME NEW r \in Known'
        PROVE  WellFormed(r)'
    BY <1>4, <1>6, <1>7, <2>1, ToldAlike DEF IInv, RequestsOK
  <2>2. ASSUME NEW r \in Live'
        PROVE  Recent(r)'
    BY <1>3, <1>7, <2>2 DEF IInv, RequestsOK
  <2> QED  BY <2>1, <2>2 DEF RequestsOK
<1>12. SameCompound'
  BY <1>4 DEF IInv, SameCompound, SameCall
<1>13. CachesOK'
  <2>1. ASSUME NEW r \in Live', r.slot \in Slots, r.k <= Accepted(r.slot)'
        PROVE  (caches[r.slot][r.k + 1] = Unfilled \/ Told(caches[r.slot][r.k + 1], r))'
    <3>1. r \in Requests /\ r.slot \in AllSlots /\ r \in Live
      BY <1>3 DEF Requests
    <3>2. \/ caches'[r.slot][r.k + 1] = Unfilled
          \/ Told(caches'[r.slot][r.k + 1], r)
      BY <1>5, <2>1, <3>1 DEF Hold
    <3>3. ASSUME NEW c \in {caches'[r.slot][r.k + 1]}, Told(c, r)
          PROVE  Told(c, r)'
      BY <1>7, <3>1, <3>3
    <3> QED  BY <3>2, <3>3 DEF Unfilled
  <2>2. ASSUME NEW k \in 1..Accepted(ClientSlot)'
        PROVE  (caches[ClientSlot][k + 1] = Unfilled \/ CreatedBy(caches[ClientSlot][k + 1], k))'
    <3>1. k \in 1..Accepted(ClientSlot)
      BY <1>5 DEF AllSlots
    <3> QED  BY <3>1 DEF Hold, Unfilled, CreatedBy
  <2> QED  BY <2>1, <2>2 DEF CachesOK, Hold
<1>14. ThreadsOK'
  <2>1. ASSUME NEW u \in Threads, thread'[u] # Idle
        PROVE  EnvOK(thread[u])'
    <3>1. CASE u = t
      BY <1>1, <1>8, <2>1, <3>1
    <3>2. CASE u # t
      <4>1. thread'[u] = thread[u] /\ thread[u] \in Envs /\ EnvOK(thread[u])
        BY <1>1, <2>1, <3>2 DEF IInv, ThreadsOK
      <4> QED  BY <1>8, <4>1
    <3> QED  BY <3>1, <3>2
  <2>2. ASSUME NEW u \in Threads
        PROVE  /\ Pending(thread[u])' <=> Pending(thread'[u])
               /\ Pending(thread'[u]) => Pending(thread[u]) /\ thread'[u].req = thread[u].req
    BY <1>1 DEF Pending
  <2> QED  BY <2>1, <2>2 DEF IInv, ThreadsOK
<1>15. RepliesOK'
  <2> SUFFICES ASSUME NEW x \in replies' PROVE Told(x.results, x.req)'
    BY DEF RepliesOK
  <2>1. x.req \in Requests
    BY <1>6 DEF Known
  <2> QED  BY <1>7, <2>1 DEF IInv, RepliesOK
<1> QED  BY <1>2, <1>9, <1>10, <1>11, <1>12, <1>13, <1>14, <1>15 DEF IInv

(* A step of the client that makes no new call: what it sends again it has    *)
(* sent before, and a call that ends was accepted and carried out.            *)
LEMMA OldCalls ==
  ASSUME IInv, UNCHANGED <<workload, serverVars>>, call' \in [AllSlots -> Calls],
         \A s \in AllSlots :
           /\ call'[s].k = call[s].k /\ call'[s].csK = call[s].csK
           /\ call'[s].shape = call[s].shape
           /\ call'[s].waiting => call[s].waiting
           /\ InStep(s)',
         \A t \in Threads : Pending(thread[t]) => call'[thread[t].req.slot].waiting,
         requests' \subseteq Requests,
         \A r \in requests' \ requests :
           /\ WellFormed(r) /\ Recent(r)
           /\ r.slot \in Slots => \E q \in Live : SameCall(q, r),
         replies' \subseteq replies
  PROVE  IInv'
<1>1. TypeOK'
  BY DEF IInv, TypeOK, serverVars, MaxCalls
<1>2. ASSUME NEW r \in Live'
      PROVE  /\ r \in requests' \ requests \/ \E q \in Live : SameCall(q, r)
             /\ r.slot \in Slots => \E q \in Live : SameCall(q, r)
  <2>1. CASE r \in requests'
    <3>1. CASE r \in requests
      BY <3>1 DEF Live, InFlight, SameCall
    <3> QED  BY <2>1, <3>1
  <2>2. CASE r \in InFlight' /\ r \notin requests'
    <3>1. r \in InFlight
      BY <2>2 DEF InFlight, serverVars
    <3> QED  BY <3>1 DEF Live, SameCall
  <2>3. CASE r \in Waiting'
    <3>1. PICK s \in Slots : call'[s].waiting /\ r = Transmission(s, call'[s], 1)
      BY <2>3 DEF Waiting
    <3>2. s \in AllSlots
      BY DEF AllSlots
    <3>3. call[s].waiting /\ SameCall(Transmission(s, call[s], 1), r)
      BY <3>1, <3>2 DEF SameCall, Transmission, Request
    <3>4. Transmission(s, call[s], 1) \in Live
      BY <3>3 DEF Live, Waiting
    <3> QED  BY <3>3, <3>4
  <2> QED  BY <2>1, <2>2, <2>3 DEF Live
<1>3. ASSUME NEW r \in Known', r.slot \in Slots
      PROVE  \E q \in Known : SameCall(q, r)
  BY <1>2, <1>3 DEF Known, SameCall
<1>4. ASSUME NEW results, NEW r
      PROVE  Told(results, r)' <=> Told(results, r)
  BY DEF Told, Refused, Answered, WorkedBy, Accepted, serverVars
<1>5. ASSUME NEW r, r.slot \in AllSlots
      PROVE  /\ WellFormed(r)' <=> WellFormed(r)
             /\ Recent(r)' <=> Recent(r)
  BY <1>5 DEF WellFormed, Recent, AllSlots
<1>6. Live' \subseteq Requests /\ Known' \subseteq Requests
  <2>1. InFlight' \subseteq Requests
    BY DEF IInv, TypeOK, InFlight, serverVars, Envs, Idle
  <2>2. Waiting' \subseteq Requests
    <3> SUFFICES ASSUME NEW s \in Slots, call'[s].waiting
                 PROVE  Transmission(s, call'[s], 1) \in Requests
      BY DEF Waiting
    <3>1. s \in AllSlots /\ CallOK(s) /\ call'[s] \in Calls
      BY DEF AllSlots, IInv
    <3>2. call[s].k > 0
      BY <3>1 DEF CallOK, IInv, TypeOK, Calls
    <3>3. call'[s].shape \in AllShapes
      BY <3>1, <3>2 DEF CallOK, AllShapes, WorkShapes
    <3> QED  BY <3>1, <3>3 DEF Transmission, Request, Requests, Calls
  <2>3. \A x \in replies' : x.req \in Requests
    BY DEF IInv, TypeOK
  <2> QED  BY <2>1, <2>2, <2>3 DEF Live, Known
<1>7. \A s \in AllSlots : CallOK(s)' /\ InStep(s)' /\ SlotOK(s)'
  <2> SUFFICES ASSUME NEW s \in AllSlots PROVE CallOK(s)' /\ SlotOK(s)'
    OBVIOUS
  <2>1. ClientSlot \in AllSlots
    BY DEF AllSlots
  <2> QED  BY <2>1 DEF IInv, CallOK, SlotOK, Accepted, MaxCalls, serverVars
<1>8. ExecutedOK'
  BY DEF IInv, ExecutedOK, Accepted, MaxCalls, serverVars
<1>9. RequestsOK'
  <2>1. ASSUME NEW r \in Live'
        PROVE  WellFormed(r)' /\ Recent(r)'
    BY <1>2, <1>5, <1>6, ToldAlike DEF IInv, RequestsOK, Known, Requests
  <2>2. ASSUME NEW x \in replies'
        PROVE  WellFormed(x.req)'
    BY <1>5, <1>6 DEF IInv, RequestsOK, Known, Requests
  <2> QED  BY <2>1, <2>2 DEF RequestsOK, Known
<1>10. SameCompound'
  BY <1>3 DEF IInv, SameCompound, SameCall
<1>11. CachesOK'
  <2>1. ASSUME NEW r \in Live', r.slot \in Slots, r.k <= Accepted(r.slot)'
        PROVE  (caches[r.slot][r.k + 1] = Unfilled \/ Told(caches[r.slot][r.k + 1], r))'
    <3>1. PICK q \in Live : SameCall(q, r)
      BY <1>2, <2>1
    <3>2. q.slot \in Slots /\ q.k <= Accepted(q.slot) /\ q.slot = r.slot /\ q.k = r.k
      BY <2>1, <3>1 DEF SameCall, Accepted, serverVars
    <3> DEFINE c == caches[r.slot][r.k + 1]
    <3>3. c = Unfilled \/ Told(c, q)
      BY <3>2 DEF IInv, CachesOK, Hold
    <3>4. c = Unfilled \/ Told(c, r)
      BY <3>1, <3>3, ToldAlike DEF Told
    <3>5. c' = c
      BY DEF serverVars
    <3> HIDE DEF c
    <3>6. c = Unfilled \/ Told(c, r)'
      BY <1>4, <3>4, <3>5
    <3> QED  BY <3>5, <3>6 DEF c, Told, Unfilled
  <2> QED  BY <2>1 DEF IInv, CachesOK, Hold, Accepted, serverVars, CreatedBy, Unfilled
<1>12. ThreadsOK'
  <2>1. ASSUME NEW t \in Threads, thread[t] # Idle
        PROVE  EnvOK(thread[t])'
    <3>1. EnvOK(thread[t]) /\ thread[t].req \in Requests
      BY <2>1 DEF IInv, ThreadsOK, TypeOK, Envs
    <3>2. Pending(thread[t]) /\ PendingOK(thread[t]) => PendingOK(thread[t])'
      BY <3>1 DEF PendingOK, SlotCache, Accepted, serverVars, Requests
    <3> QED  BY <1>4, <3>1, <3>2 DEF EnvOK, OpsOK, Pending, Complete, SlotCache, ClientCache,
               Accepted, serverVars
  <2> QED  BY <2>1 DEF IInv, ThreadsOK, Pending, serverVars
<1>13. RepliesOK'
  BY <1>4 DEF IInv, RepliesOK
<1> QED  BY <1>1, <1>7, <1>8, <1>9, <1>10, <1>11, <1>12, <1>13 DEF IInv

(* What the client begins: a call on a free slot is new to everybody, and no  *)
(* call that may still arrive is so old that its sequence id means another.   *)
LEMMA NewCalls ==
  ASSUME IInv, UNCHANGED <<workload, serverVars, replies>>,
         NEW S \in SUBSET AllSlots, NEW s \in S, S \subseteq {s, ClientSlot},
         \A u \in S : Free(u),
         call' \in [AllSlots -> Calls],
         \A u \in AllSlots \ S : call'[u] = call[u],
         \A u \in S : call'[u].k = call[u].k + 1 /\ call'[u].waiting /\ CallOK(u)',
         NEW r \in Requests, r = Transmission(s, call'[s], 1),
         WellFormed(r)',
         r.csK > 0 => ClientSlot \in S /\ r.csK = call'[ClientSlot].k,
         requests' = requests \cup {r}
  PROVE  IInv'
<1>1. TypeOK'
  BY DEF IInv, TypeOK, serverVars, MaxCalls
<1>2. ClientSlot \in AllSlots /\ SeqMod \in Nat /\ SeqMod > 1 /\ ClientSlot \notin Slots
  BY ReplayAssumption DEF AllSlots
<1>3. Live' \subseteq Live \cup {r}
  <2>1. InFlight' \subseteq InFlight \cup {r}
    BY DEF InFlight, serverVars
  <2>2. ASSUME NEW u \in Slots, call'[u].waiting
        PROVE  Transmission(u, call'[u], 1) \in Live \cup {r}
    <3>1. u \in AllSlots /\ u # ClientSlot
      BY <1>2 DEF AllSlots
    <3>2. CASE u \in S
      BY <3>1, <3>2
    <3>3. CASE u \notin S
      BY <2>2, <3>1, <3>3 DEF Live, Waiting
    <3> QED  BY <3>2, <3>3
  <2> QED  BY <2>1, <2>2 DEF Live, Waiting
<1>4. Known' \subseteq Known \cup {r}
  BY <1>3 DEF Known
<1>5. ASSUME NEW u \in AllSlots
      PROVE  /\ call[u].k \in Nat /\ call'[u].k \in Nat /\ call[u].k <= call'[u].k
             /\ u \in S => ~call[u].waiting /\ Accepted(u) = call[u].k
  <2>1. call[u] \in Calls /\ call'[u] \in Calls
    BY DEF IInv, TypeOK
  <2>2. call[u].k <= call'[u].k
    BY <2>1 DEF Calls
  <2>3. u \in S => ~call[u].waiting
    BY DEF Free
  <2> QED  BY <2>1, <2>2, <2>3 DEF IInv, Calls, InStep
<1>6. Known \subseteq Requests
  BY KnownOK
<1>7. ASSUME NEW results, NEW q
      PROVE  Told(results, q)' <=> Told(results, q)
  BY DEF Told, Refused, Answered, WorkedBy, Accepted, serverVars
<1>8. \A u \in AllSlots : CallOK(u)' /\ InStep(u)' /\ SlotOK(u)'
  <2> SUFFICES ASSUME NEW u \in AllSlots PROVE CallOK(u)' /\ InStep(u)' /\ SlotOK(u)'
    OBVIOUS
  <2>1. SlotOK(u)'
    BY DEF IInv, SlotOK, Accepted, serverVars
  <2>2. CASE u \in S
    BY <1>5, <2>1, <2>2 DEF InStep, Accepted, serverVars
  <2>3. CASE u \notin S
    <3>1. call'[u] = call[u] /\ call[ClientSlot].k <= call'[ClientSlot].k
      BY <1>2, <1>5, <2>3
    <3>2. CallOK(u)'
      <4>1. CallOK(u) /\ call[u] \in Calls
        BY DEF IInv, TypeOK
      <4>2. call[u].csK \in 1..call[ClientSlot].k => call[u].csK \in 1..call'[ClientSlot].k
        BY <1>2, <1>5, <3>1
      <4> QED  BY <3>1, <4>1, <4>2 DEF CallOK, MaxCalls
    <3>3. InStep(u)'
      BY <3>1 DEF IInv, InStep, Accepted, serverVars
    <3> QED  BY <2>1, <3>2, <3>3
  <2> QED  BY <2>2, <2>3
<1>9. ExecutedOK'
  BY DEF IInv, ExecutedOK, Accepted, MaxCalls, serverVars
<1>10. RequestsOK'
  <2>1. ASSUME NEW q \in Known
        PROVE  WellFormed(q)'
    BY <1>2, <1>5, <1>6, <2>1 DEF IInv, RequestsOK, WellFormed, Requests
  <2>2. ASSUME NEW q \in Live
        PROVE  Recent(q)'
    <3>1. q \in Requests /\ Recent(q)
      BY <1>6 DEF Known, IInv, RequestsOK
    <3>2. call'[q.slot].k + 2 <= q.k + SeqMod
      <4>1. CASE q.slot \in S
        <5>1. Free(q.slot)
          BY <4>1
        <5>2. q.k + SeqMod > call[q.slot].k + 2
          BY <5>1 DEF Free, Live
        <5> QED  BY <1>2, <1>5, <3>1, <4>1, <5>2 DEF Requests
      <4>2. CASE q.slot \notin S
        BY <3>1, <4>2 DEF Recent, Requests
      <4> QED  BY <4>1, <4>2
    <3>3. q.csK > 0 => call'[ClientSlot].k + 2 <= q.csK + SeqMod
      <4>1. CASE ClientSlot \in S /\ q.csK > 0
        <5>1. Free(ClientSlot)
          BY <4>1
        <5>2. q.csK + SeqMod > call[ClientSlot].k + 2
          BY <4>1, <5>1 DEF Free, Live
        <5> QED  BY <1>2, <1>5, <3>1, <4>1, <5>2 DEF Requests
      <4>2. CASE ClientSlot \notin S
        BY <1>2, <3>1, <4>2 DEF Recent, Requests
      <4> QED  BY <4>1, <4>2
    <3> QED  BY <3>2, <3>3 DEF Recent
  <2>3. Recent(r)'
    <3>1. r.slot = s /\ r.k = call'[s].k
      BY DEF Transmission, Request
    <3> QED  BY <1>2, <1>5, <3>1 DEF Recent
  <2> QED  BY <1>3, <1>4, <2>1, <2>2, <2>3 DEF RequestsOK
<1>11. SameCompound'
  <2>1. ASSUME NEW q \in Known, q.slot = r.slot
        PROVE  q.k # r.k
    <3>1. r.slot = s /\ r.k = call[s].k + 1
      BY DEF Transmission, Request
    <3>2. WellFormed(q) /\ q.k \in 1..call[s].k
      BY <2>1, <3>1 DEF IInv, RequestsOK, WellFormed
    <3> QED  BY <1>5, <3>1, <3>2
  <2> QED  BY <1>4, <2>1 DEF IInv, SameCompound
<1>12. CachesOK'
  <2>1. ASSUME NEW q \in Live', q.slot \in Slots, q.k <= Accepted(q.slot)'
        PROVE  (caches[q.slot][q.k + 1] = Unfilled \/ Told(caches[q.slot][q.k + 1], q))'
    <3>1. q # r
      <4>1. r.slot = s /\ r.k = call[s].k + 1 /\ Accepted(s) = call[s].k /\ call[s].k \in Nat
        BY <1>5 DEF Transmission, Request
      <4> QED  BY <2>1, <4>1 DEF Accepted, serverVars
    <3>2. q \in Live
      BY <1>3, <3>1
    <3> DEFINE c == caches[q.slot][q.k + 1]
    <3>3. c = Unfilled \/ Told(c, q)
      BY <2>1, <3>2 DEF IInv, CachesOK, Hold, Accepted, serverVars
    <3>4. c' = c
      BY DEF serverVars
    <3> HIDE DEF c
    <3>5. c = Unfilled \/ Told(c, q)'
      BY <1>7, <3>3, <3>4
    <3> QED  BY <3>4, <3>5 DEF c, Told, Unfilled
  <2> QED  BY <2>1 DEF IInv, CachesOK, Hold, Accepted, serverVars, CreatedBy, Unfilled
<1>13. ThreadsOK'
  <2>1. ASSUME NEW t \in Threads, thread[t] # Idle
        PROVE  EnvOK(thread[t])'
    <3>1. EnvOK(thread[t]) /\ thread[t].req \in Requests
      BY <2>1 DEF IInv, ThreadsOK, TypeOK, Envs
    <3>2. Pending(thread[t]) /\ PendingOK(thread[t]) => PendingOK(thread[t])'
      BY <1>5, <3>1 DEF PendingOK, SlotCache, Accepted, serverVars, Requests
    <3> QED  BY <1>7, <3>1, <3>2 DEF EnvOK, OpsOK, Pending, Complete, SlotCache, ClientCache,
               Accepted, serverVars
  <2> QED  BY <2>1 DEF IInv, ThreadsOK, Pending, serverVars
<1>14. RepliesOK'
  BY <1>7 DEF IInv, RepliesOK
<1> QED  BY <1>1, <1>8, <1>9, <1>10, <1>11, <1>12, <1>13, <1>14 DEF IInv

LEMMA AppendTwo ==
  ASSUME NEW x, NEW y
  PROVE  Append(<<x>>, y) = <<x, y>>
<1> DEFINE s == Append(<<x>>, y)
           u == <<x, y>>
           S == {x, y}
<1>1. <<x>> \in Seq(S) /\ Len(<<x>>) = 1 /\ <<x>>[1] = x
  OBVIOUS
<1>2. s \in Seq(S) /\ Len(s) = 2 /\ s[1] = x /\ s[2] = y
  BY <1>1, AppendProperties
<1>3. u \in Seq(S) /\ Len(u) = 2 /\ u[1] = x /\ u[2] = y
  OBVIOUS
<1> HIDE DEF s, u, S
<1>4. \A i \in 1..2 : s[i] = u[i]
  BY <1>2, <1>3
<1>5. s = u
  BY <1>2, <1>3, <1>4, SeqEqual
<1> QED  BY <1>5 DEF s, u

LEMMA LastOf ==
  ASSUME NEW r, NEW x, NEW y
  PROVE  /\ r.results = <<y>> => LastStatus(r) = y.status
         /\ r.results = <<x, y>> => LastStatus(r) = y.status
<1>1. Len(<<y>>) = 1 /\ <<y>>[1] = y /\ Len(<<x, y>>) = 2 /\ <<x, y>>[2] = y
  OBVIOUS
<1>2. ASSUME NEW s, s = r.results, s = <<y>> PROVE s[Len(s)] = y
  BY <1>1, <1>2
<1>3. ASSUME NEW s, s = r.results, s = <<x, y>> PROVE s[Len(s)] = y
  BY <1>1, <1>3
<1> QED  BY <1>2, <1>3 DEF LastStatus

(* What was said stays true as the server goes on: it accepts more calls, and *)
(* an execution that is over is never taken back.                             *)
LEMMA Onward ==
  ASSUME \A s \in AllSlots : Accepted(s) \in Nat /\ Accepted(s)' \in Nat /\ Accepted(s) <= Accepted(s)',
         \A c \in AllSlots \X (1..MaxCalls) : executed[c] # <<>> => executed'[c] = executed[c],
         NEW r \in Requests, r.k \in 1..MaxCalls
  PROVE  /\ \A results : Told(results, r) => Told(results, r)'
         /\ \A e : e.req = r => /\ SlotCache(e) => SlotCache(e)'
                                /\ ClientCache(e) => ClientCache(e)'
                                /\ Complete(e) => Complete(e)'
<1>1. r.slot \in AllSlots /\ ClientSlot \in AllSlots /\ r.k \in Nat /\ r.csK \in Nat
  BY DEF Requests, AllSlots
<1>2. /\ r.k <= Accepted(r.slot) => r.k <= Accepted(r.slot)'
      /\ r.csK <= Accepted(ClientSlot) => r.csK <= Accepted(ClientSlot)'
  BY <1>1
<1>3. ASSUME NEW status, executed[<<r.slot, r.k>>] = <<status>>
      PROVE  executed'[<<r.slot, r.k>>] = <<status>>
  <2>1. <<r.slot, r.k>> \in AllSlots \X (1..MaxCalls)
    BY <1>1
  <2>2. <<status>> # <<>>
    OBVIOUS
  <2> QED  BY <1>3, <2>1, <2>2
<1>4. ASSUME NEW results, Told(results, r)
      PROVE  Told(results, r)'
  <2>1. WorkedBy(results, r) => WorkedBy(results, r)'
    BY <1>3 DEF WorkedBy
  <2>2. Answered(results, r) => Answered(results, r)'
    BY <1>2, <2>1 DEF Answered, CreatedBy
  <2> QED  BY <1>4, <2>2 DEF Told, Refused
<1>5. ASSUME NEW e, e.req = r
      PROVE  /\ SlotCache(e) => SlotCache(e)'
             /\ ClientCache(e) => ClientCache(e)'
             /\ Complete(e) => Complete(e)'
  <2>1. /\ SlotCache(e) => SlotCache(e)'
        /\ ClientCache(e) => ClientCache(e)'
    BY <1>2, <1>5 DEF SlotCache, ClientCache
  <2> QED  BY <1>3, <1>5, <2>1 DEF Complete
<1> QED  BY <1>4, <1>5

(* The thread that does the work of a COMPOUND has its SEQUENCE behind it     *)
(* and its work to do.                                                        *)
LEMMA WorkPends ==
  ASSUME IInv, NEW t \in Threads, Work(t)
  PROVE  /\ thread[t].req.shape \in WorkShapes /\ Len(thread[t].results) = 1
         /\ thread[t].results # <<>>
         /\ Pending(thread[t]) /\ PendingOK(thread[t])
<1> DEFINE e == thread[t]
<1>1. e.pc = "ops" /\ e # Idle
  BY DEF Work, Idle
<1>2. e \in Envs
  BY <1>1 DEF IInv, TypeOK
<1>3. e.req \in Requests
  BY <1>1, <1>2, KnownOK DEF Known, Live, InFlight
<1>4. e.req.shape \in WorkShapes /\ Len(e.results) = 1 /\ e.results # <<>>
  <2>1. Len(e.results) \in Nat /\ e.results \in Seq(Results)
    BY <1>2 DEF Envs
  <2>2. Ops(e.req)[Len(e.results) + 1] = "WORK" /\ Len(e.results) + 1 \in 1..Len(Ops(e.req))
    BY <2>1 DEF Work, NextOp
  <2>3. e.req.shape \notin {"session", "inSession"}
    BY <2>1, <2>2 DEF Ops
  <2>4. e.req.shape \in WorkShapes
    BY <1>3, <2>3 DEF Requests, AllShapes, WorkShapes
  <2>5. Ops(e.req) = <<"SEQUENCE", "WORK">>
    BY <2>3 DEF Ops
  <2>6. Len(e.results) = 1
    <3>1. Len(Ops(e.req)) = 2 /\ Ops(e.req)[1] # "WORK"
      BY <2>5
    <3>2. PICK n \in Nat : n = Len(e.results)
      BY <2>1
    <3>3. n + 1 \in 1..2 /\ Ops(e.req)[n + 1] = "WORK"
      BY <2>2, <3>1, <3>2
    <3>4. n = 0 \/ n = 1
      BY <3>3
    <3> QED  BY <3>1, <3>2, <3>3, <3>4
  <2>7. e.results # <<>>
    <3>1. Len(<<>>) # 1
      OBVIOUS
    <3> QED  BY <2>6, <3>1
  <2> QED  BY <2>4, <2>6, <2>7
<1>5. Pending(e) /\ PendingOK(e)
  <2>1. OpsOK(e)
    BY <1>1, <1>2 DEF IInv, ThreadsOK, EnvOK
  <2>2. ~Complete(e)
    BY <1>4 DEF Complete, WorkShapes
  <2> QED  BY <1>4, <2>1, <2>2 DEF OpsOK, WorkShapes
<1> QED  BY <1>4, <1>5

(* The work of a call is done: by one thread, and once.                       *)
LEMMA Working ==
  ASSUME IInv, NEW t \in Threads, Work(t), UNCHANGED workload
  PROVE  IInv'
<1> DEFINE e == thread[t]
           c == <<e.req.slot, e.req.k>>
<1>1. PICK status \in Outcomes :
        /\ executed' = [executed EXCEPT ![c] = Append(@, status)]
        /\ thread' = [thread EXCEPT ![t].results = Append(@, Worked(e.req, status))]
  BY DEF Work, Outcomes, Worked, CallOf
<1>2. UNCHANGED <<workload, seqid, caches, requests, replies, call, resets>> /\ e.pc = "ops"
  BY DEF Work
<1>3. e \in Envs /\ e # Idle /\ thread \in [Threads -> {Idle} \cup Envs]
  BY <1>2 DEF IInv, TypeOK, Idle
<1>4. e.req \in Known /\ e.req \in Live
  BY <1>3 DEF Known, Live, InFlight
<1>5. e.req \in Requests /\ e.req.slot \in AllSlots /\ e.req.k \in 1..MaxCalls
  BY <1>4, KnownOK
<1>6. e.req.shape \in WorkShapes /\ Len(e.results) = 1 /\ e.results # <<>>
  BY WorkPends
<1>7. Pending(e) /\ PendingOK(e)
  BY WorkPends
<1>8. e.req.slot \in Slots /\ e.req.slot # ClientSlot /\ c \in AllSlots \X (1..MaxCalls)
  BY <1>5, <1>7, ReplayAssumption DEF PendingOK, SlotCache
<1>9. executed[c] = <<>> /\ executed \in [AllSlots \X (1..MaxCalls) -> Seq(Outcomes)]
  BY <1>7 DEF PendingOK, IInv, TypeOK
<1>10. /\ executed'[c] = <<status>>
       /\ \A d \in AllSlots \X (1..MaxCalls) : d # c => executed'[d] = executed[d]
  BY <1>1, <1>8, <1>9
<1>11. \A s \in AllSlots : Accepted(s) \in Nat /\ Accepted(s)' = Accepted(s)
  <2> SUFFICES ASSUME NEW s \in AllSlots PROVE Accepted(s) \in Nat /\ Accepted(s)' = Accepted(s)
    OBVIOUS
  <2>1. caches[s] \in Seq(Seq(Results)) /\ caches[s] # <<>>
    BY DEF IInv, TypeOK, SlotOK
  <2> QED  BY <1>2, <2>1 DEF Accepted
<1>12. PICK f : f = thread'[t]
  OBVIOUS
<1>13. /\ f = [e EXCEPT !.results = Append(@, Worked(e.req, status))]
       /\ \A u \in Threads : u # t => thread'[u] = thread[u]
  BY <1>1, <1>3, <1>12
<1>14. /\ f.pc = "ops" /\ f.req = e.req /\ f.cache = e.cache /\ f \in Envs
       /\ f.results = <<InSequence(e.req), Worked(e.req, status)>>
  <2>1. e.results = <<InSequence(e.req)>>
    BY <1>7 DEF Pending
  <2>2. Worked(e.req, status) \in Results
    <3>1. e.req.k \in Nat /\ status \in Statuses
      BY <1>5 DEF Requests, Statuses
    <3> QED  BY <1>5, <3>1 DEF Worked, Result, Results
  <2>3. e.results \in Seq(Results)
    BY <1>3 DEF Envs
  <2>4. Append(e.results, Worked(e.req, status)) = <<InSequence(e.req), Worked(e.req, status)>>
    BY <2>1, AppendTwo
  <2>5. Append(e.results, Worked(e.req, status)) \in Seq(Results)
    BY <2>2, <2>3
  <2>6. f = [e EXCEPT !.results = <<InSequence(e.req), Worked(e.req, status)>>]
    BY <1>12, <1>13, <2>4
  <2> QED  BY <1>2, <1>3, <2>4, <2>5, <2>6 DEF Envs
<1>15. ASSUME NEW r \in Known
       PROVE  /\ \A results : Told(results, r) => Told(results, r)'
              /\ \A d : d.req = r => /\ SlotCache(d) => SlotCache(d)'
                                     /\ ClientCache(d) => ClientCache(d)'
                                     /\ Complete(d) => Complete(d)'
  <2>1. r \in Requests /\ r.k \in 1..MaxCalls
    BY KnownOK
  <2>2. \A d \in AllSlots \X (1..MaxCalls) : executed[d] # <<>> => executed'[d] = executed[d]
    BY <1>9, <1>10
  <2>3. \A s \in AllSlots : Accepted(s) \in Nat /\ Accepted(s)' \in Nat /\ Accepted(s) <= Accepted(s)'
    BY <1>11
  <2> QED  BY <2>1, <2>2, <2>3, Onward
<1>16. Live' = Live /\ Known' = Known
  <2>1. InFlight' = InFlight
    <3>1. \A u \in Threads : /\ thread'[u] = Idle <=> thread[u] = Idle
                             /\ thread[u] # Idle => thread'[u].req = thread[u].req
      <4>1. e # Idle /\ f # Idle
        BY <1>2, <1>14 DEF Idle
      <4> QED  BY <1>12, <1>13, <1>14, <4>1
    <3> QED  BY <1>2, <3>1 DEF InFlight
  <2>2. Waiting' = Waiting
    BY <1>2 DEF Waiting
  <2> QED  BY <1>2, <2>1, <2>2 DEF Live, Known
<1>17. TypeOK'
  <2>1. thread' \in [Threads -> {Idle} \cup Envs]
    BY <1>1, <1>3, <1>12, <1>13, <1>14
  <2>2. executed' \in [AllSlots \X (1..MaxCalls) -> Seq(Outcomes)]
    <3>1. executed' = [executed EXCEPT ![c] = <<status>>]
      BY <1>1, <1>8, <1>9
    <3>2. <<status>> \in Seq(Outcomes)
      OBVIOUS
    <3> QED  BY <1>8, <1>9, <3>1, <3>2
  <2> QED  BY <1>2, <2>1, <2>2 DEF IInv, TypeOK, MaxCalls
<1>18. \A s \in AllSlots : CallOK(s)' /\ InStep(s)' /\ SlotOK(s)'
  <2> SUFFICES ASSUME NEW s \in AllSlots PROVE CallOK(s)' /\ InStep(s)' /\ SlotOK(s)'
    OBVIOUS
  <2>1. ClientSlot \in AllSlots
    BY DEF AllSlots
  <2>2. CallOK(s)' /\ SlotOK(s)'
    BY <1>2, <1>11 DEF IInv, CallOK, SlotOK, MaxCalls
  <2>3. ~call[s].waiting /\ call[s].shape \in WorkShapes => <<s, call[s].k>> # c
    BY <1>7 DEF PendingOK
  <2>4. ~call[s].waiting /\ call[s].shape \in WorkShapes => executed'[<<s, call[s].k>>] # <<>>
    <3> SUFFICES ASSUME ~call[s].waiting, call[s].shape \in WorkShapes
                 PROVE  executed'[<<s, call[s].k>>] # <<>>
      OBVIOUS
    <3>1. executed[<<s, call[s].k>>] # <<>>
      BY DEF IInv, InStep
    <3>2. CASE call[s].k \in 1..MaxCalls
      BY <1>10, <2>3, <3>1, <3>2
    <3>3. CASE call[s].k \notin 1..MaxCalls
      <4>1. call[s].k \in Nat /\ call[s].k <= MaxCalls /\ MaxCalls \in Nat
        BY ReplayAssumption DEF IInv, TypeOK, Calls, CallOK, MaxCalls
      <4>2. call[s].k = 0
        BY <3>3, <4>1
      <4> QED  BY <4>2 DEF IInv, CallOK, WorkShapes
    <3> QED  BY <3>2, <3>3
  <2>5. InStep(s)'
    BY <1>2, <1>11, <2>1, <2>4 DEF IInv, InStep
  <2> QED  BY <2>2, <2>5
<1>19. ExecutedOK'
  <2>1. MaxCalls' = MaxCalls /\ \A s \in Slots : s \in AllSlots /\ s # ClientSlot
    BY <1>2, ReplayAssumption DEF MaxCalls, AllSlots
  <2>2. ASSUME NEW s \in Slots, NEW k \in 1..MaxCalls
        PROVE  /\ executed'[<<s, k>>] # <<>> => k <= Accepted(s)'
               /\ Len(executed'[<<s, k>>]) <= 1
    <3>1. CASE <<s, k>> = c
      BY <1>7, <1>10, <1>11, <2>1, <3>1 DEF PendingOK, SlotCache
    <3>2. CASE <<s, k>> # c
      BY <1>10, <1>11, <2>1, <3>2 DEF IInv, ExecutedOK
    <3> QED  BY <3>1, <3>2
  <2>3. ASSUME NEW k \in 1..MaxCalls
        PROVE  executed'[<<ClientSlot, k>>] = IF k <= Accepted(ClientSlot)' THEN <<"OK">> ELSE <<>>
    BY <1>8, <1>10, <1>11 DEF IInv, ExecutedOK, AllSlots
  <2> QED  BY <2>1, <2>2, <2>3 DEF ExecutedOK
<1>20. RequestsOK' /\ SameCompound'
  BY <1>2, <1>16 DEF IInv, RequestsOK, SameCompound, WellFormed, Recent
<1>21. CachesOK'
  <2>1. ASSUME NEW r \in Live, r.slot \in Slots, r.k <= Accepted(r.slot)
        PROVE  \A x : x = caches[r.slot][r.k + 1] => x = Unfilled \/ Told(x, r)'
    <3>1. caches[r.slot][r.k + 1] = Unfilled \/ Told(caches[r.slot][r.k + 1], r)
      BY <2>1 DEF IInv, CachesOK, Hold
    <3> QED  BY <1>15, <3>1 DEF Known
  <2>2. \A s \in Slots : s \in AllSlots
    BY DEF AllSlots
  <2>3. ASSUME NEW r \in Live', r.slot \in Slots, r.k <= Accepted(r.slot)'
        PROVE  (caches[r.slot][r.k + 1] = Unfilled \/ Told(caches[r.slot][r.k + 1], r))'
    BY <1>2, <1>11, <1>16, <2>1, <2>2, <2>3 DEF Unfilled
  <2>4. \A k \in 1..Accepted(ClientSlot)' :
          (caches[ClientSlot][k + 1] = Unfilled \/ CreatedBy(caches[ClientSlot][k + 1], k))'
    BY <1>2, <1>11 DEF IInv, CachesOK, Hold, AllSlots, Unfilled, CreatedBy
  <2> QED  BY <2>3, <2>4 DEF CachesOK, Hold
<1>22. ThreadsOK'
  <2>1. ASSUME NEW u \in Threads, u # t, thread[u] # Idle, NEW d, d = thread[u]
        PROVE  EnvOK(d)'
    <3>1. EnvOK(d) /\ d.req \in Known
      BY <2>1 DEF IInv, ThreadsOK, Known, Live, InFlight
    <3>2. ASSUME Pending(d), PendingOK(d)
          PROVE  PendingOK(d)'
      <4>1. <<d.req.slot, d.req.k>> # c
        BY <1>7, <2>1, <3>2 DEF IInv, ThreadsOK
      <4>2. <<d.req.slot, d.req.k>> \in AllSlots \X (1..MaxCalls)
        BY <3>1, KnownOK
      <4>3. SlotCache(d)'
        BY <1>15, <3>1, <3>2 DEF PendingOK
      <4> QED  BY <1>2, <1>10, <3>1, <3>2, <4>1, <4>2, <4>3 DEF PendingOK
    <3> QED  BY <1>15, <3>1, <3>2 DEF EnvOK, OpsOK, Pending, Refused
  <2>2. EnvOK(f)'
    <3>1. \A d : d.req = e.req /\ d.cache = e.cache => SlotCache(d)'
      BY <1>5, <1>7, <1>11 DEF PendingOK, SlotCache
    <3>2. Complete(f)'
      BY <1>6, <1>10, <1>14, <3>1 DEF Complete
    <3> QED  BY <1>14, <3>2 DEF EnvOK, OpsOK
  <2>3. ~Pending(f)
    BY <1>14 DEF Pending
  <2>4. ASSUME NEW u \in Threads, thread'[u] # Idle
        PROVE  EnvOK(thread[u])'
    BY <1>12, <1>13, <2>1, <2>2, <2>4
  <2>5. ASSUME NEW u \in Threads, Pending(thread'[u])
        PROVE  Pending(thread[u]) /\ thread'[u] = thread[u]
    BY <1>12, <1>13, <2>3, <2>5
  <2>6. \A u \in Threads : Pending(thread[u])' <=> Pending(thread'[u])
    BY DEF Pending
  <2> QED  BY <2>4, <2>5, <2>6 DEF IInv, ThreadsOK
<1>23. RepliesOK'
  BY <1>2, <1>15 DEF IInv, RepliesOK, Known
<1> QED  BY <1>17, <1>18, <1>19, <1>20, <1>21, <1>22, <1>23 DEF IInv

(* A call is accepted: the last of its slot, and no other is taken for it.    *)
(* With CREATE_SESSION the session is made in the same step.                  *)
LEMMA Accepting ==
  ASSUME IInv, NEW t \in Threads, NEW f \in Envs, NEW s \in AllSlots,
         UNCHANGED <<workload, requests, replies, call>>,
         thread[t] # Idle, thread' = [thread EXCEPT ![t] = f], f.req = thread[t].req,
         call[s].k = Accepted(s) + 1,
         seqid' = [seqid EXCEPT ![s] = call[s].k % SeqMod],
         caches' = [caches EXCEPT ![s] = Append(@, Unfilled)],
         executed' = IF s = ClientSlot
                     THEN [executed EXCEPT ![<<s, call[s].k>>] = <<"OK">>] ELSE executed,
         EnvOK(f)',
         Pending(f) => s \in Slots /\ f.req.slot = s /\ f.req.k = call[s].k
  PROVE  IInv'
<1>1. /\ f # Idle /\ thread \in [Threads -> {Idle} \cup Envs]
      /\ thread'[t] = f /\ \A u \in Threads : u # t => thread'[u] = thread[u]
  <2>1. f.pc # "idle"
    BY DEF Envs
  <2> QED  BY <2>1 DEF IInv, TypeOK, Idle
<1>2. /\ ClientSlot \in AllSlots /\ Slots \subseteq AllSlots /\ ClientSlot \notin Slots
      /\ SeqMod \in Nat /\ SeqMod > 1 /\ MaxCalls \in Nat /\ MaxCalls' = MaxCalls
  BY ReplayAssumption DEF AllSlots, IInv, TypeOK, MaxCalls
<1>3. ASSUME NEW u \in AllSlots
      PROVE  /\ caches[u] \in Seq(Seq(Results)) /\ caches[u] # <<>> /\ Accepted(u) \in Nat
             /\ call[u] \in Calls /\ call[u].k \in Nat /\ call[u].k <= MaxCalls
  <2>1. caches[u] \in Seq(Seq(Results)) /\ caches[u] # <<>> /\ call[u] \in Calls /\ CallOK(u)
    BY DEF IInv, TypeOK, SlotOK
  <2> QED  BY <2>1 DEF Accepted, Calls, CallOK
<1>4. call[s].k \in 1..MaxCalls
  BY <1>2, <1>3
<1>5. /\ caches'[s] = Append(caches[s], Unfilled)
      /\ \A u \in AllSlots : u # s => caches'[u] = caches[u]
      /\ caches' \in [AllSlots -> Seq(Seq(Results))]
  <2>1. Unfilled \in Seq(Results)
    BY DEF Unfilled
  <2>2. Append(caches[s], Unfilled) \in Seq(Seq(Results))
    BY <1>3, <2>1, AppendProperties
  <2> QED  BY <2>2 DEF IInv, TypeOK
<1>6. /\ Len(caches'[s]) = Len(caches[s]) + 1 /\ caches'[s] # <<>>
      /\ caches'[s][call[s].k + 1] = Unfilled
      /\ \A i \in 1..Len(caches[s]) : caches'[s][i] = caches[s][i]
  <2>1. Unfilled \in Seq(Results)
    BY DEF Unfilled
  <2> DEFINE c == caches[s]
             d == Append(c, Unfilled)
  <2>2. c \in Seq(Seq(Results)) /\ Len(c) \in Nat
    BY <1>3
  <2>3. call[s].k + 1 = Len(c) + 1
    BY <1>3, <2>2 DEF Accepted
  <2> HIDE DEF c
  <2>4. /\ Len(d) = Len(c) + 1 /\ d # <<>> /\ d[Len(c) + 1] = Unfilled
        /\ \A i \in 1..Len(c) : d[i] = c[i]
    BY SMTT(40), <2>1, <2>2, AppendProperties
  <2> HIDE DEF d
  <2>5. caches'[s] = d
    BY <1>5 DEF c, d
  <2> QED  BY <2>3, <2>4, <2>5 DEF c
<1>7. /\ Accepted(s)' = call[s].k
      /\ \A u \in AllSlots : /\ Accepted(u)' \in Nat /\ Accepted(u) <= Accepted(u)'
                             /\ u # s => Accepted(u)' = Accepted(u)
  <2>1. Accepted(s)' = call[s].k
    BY <1>3, <1>6 DEF Accepted
  <2>2. \A u \in AllSlots : u # s => Accepted(u)' = Accepted(u)
    BY <1>5 DEF Accepted
  <2> QED  BY <1>3, <2>1, <2>2
<1>8. ASSUME NEW c \in AllSlots \X (1..MaxCalls), executed'[c] # executed[c]
      PROVE  c = <<s, call[s].k>> /\ s = ClientSlot /\ executed[c] = <<>>
  <2>1. c = <<s, call[s].k>> /\ s = ClientSlot
    BY <1>8 DEF IInv, TypeOK
  <2> QED  BY <1>3, <1>4, <2>1 DEF IInv, ExecutedOK
<1>9. ASSUME NEW r \in Known
      PROVE  /\ \A results : Told(results, r) => Told(results, r)'
             /\ \A d : d.req = r => /\ SlotCache(d) => SlotCache(d)'
                                    /\ ClientCache(d) => ClientCache(d)'
                                    /\ Complete(d) => Complete(d)'
  <2>1. r \in Requests /\ r.k \in 1..MaxCalls
    BY KnownOK
  <2>2. \A c \in AllSlots \X (1..MaxCalls) : executed[c] # <<>> => executed'[c] = executed[c]
    BY <1>8
  <2>3. \A u \in AllSlots : Accepted(u) \in Nat /\ Accepted(u)' \in Nat /\ Accepted(u) <= Accepted(u)'
    BY <1>3, <1>7
  <2> QED  BY <2>1, <2>2, <2>3, Onward
<1>10. Live' = Live /\ Known' = Known
  <2>1. InFlight' = InFlight
    <3>1. \A u \in Threads : /\ thread'[u] = Idle <=> thread[u] = Idle
                             /\ thread[u] # Idle => thread'[u].req = thread[u].req
      BY <1>1
    <3> QED  BY <3>1 DEF InFlight
  <2>2. Waiting' = Waiting
    BY DEF Waiting
  <2> QED  BY <2>1, <2>2 DEF Live, Known
<1>11. TypeOK'
  <2>1. thread' \in [Threads -> {Idle} \cup Envs]
    BY <1>1
  <2>2. executed' \in [AllSlots \X (1..MaxCalls) -> Seq(Outcomes)]
    <3>1. <<"OK">> \in Seq(Outcomes)
      BY DEF Outcomes
    <3> QED  BY <3>1 DEF IInv, TypeOK
  <2>3. seqid' \in [AllSlots -> Nat]
    BY SMTT(40), <1>2, <1>3 DEF IInv, TypeOK
  <2> QED  BY <1>2, <1>5, <2>1, <2>2, <2>3 DEF IInv, TypeOK
<1>12. \A u \in AllSlots : CallOK(u)' /\ InStep(u)' /\ SlotOK(u)'
  <2> SUFFICES ASSUME NEW u \in AllSlots PROVE CallOK(u)' /\ InStep(u)' /\ SlotOK(u)'
    OBVIOUS
  <2>1. CallOK(u)'
    BY <1>2 DEF IInv, CallOK
  <2>2. SlotOK(u)'
    <3>1. CASE u = s
      BY <1>6, <1>7, <3>1 DEF IInv, TypeOK, SlotOK
    <3>2. CASE u # s
      BY <1>5, <1>7, <3>2 DEF IInv, TypeOK, SlotOK
    <3> QED  BY <3>1, <3>2
  <2>3. InStep(u)'
    <3>1. CASE u = s
      <4>1. call[s].waiting
        BY <1>3 DEF IInv, InStep
      <4> QED  BY <1>3, <1>7, <3>1, <4>1 DEF InStep
    <3>2. CASE u # s
      <4>1. ~call[u].waiting /\ call[u].shape = "inSession" => call[u].csK <= Accepted(ClientSlot)'
        <5>1. ~call[u].waiting /\ call[u].shape = "inSession" => call[u].csK <= Accepted(ClientSlot)
          BY DEF IInv, InStep
        <5>2. call[u].csK \in Nat
          BY <1>3 DEF Calls
        <5> QED  BY <1>2, <1>3, <1>7, <5>1, <5>2
      <4>2. call[u].shape \in WorkShapes => <<u, call[u].k>> # <<s, call[s].k>>
        BY <3>2
      <4>3. ~call[u].waiting /\ call[u].shape \in WorkShapes => executed'[<<u, call[u].k>>] # <<>>
        <5> SUFFICES ASSUME ~call[u].waiting, call[u].shape \in WorkShapes
                     PROVE  executed'[<<u, call[u].k>>] # <<>>
          OBVIOUS
        <5>1. call[u].k # 0
          BY DEF IInv, CallOK, WorkShapes
        <5>2. call[u].k \in 1..MaxCalls
          BY <1>2, <1>3, <5>1
        <5>3. executed[<<u, call[u].k>>] # <<>>
          BY DEF IInv, InStep
        <5> QED  BY <1>8, <4>2, <5>2, <5>3
      <4> QED  BY <1>7, <3>2, <4>1, <4>3 DEF IInv, InStep
    <3> QED  BY <3>1, <3>2
  <2> QED  BY <2>1, <2>2, <2>3
<1>13. ExecutedOK'
  <2>1. ASSUME NEW u \in Slots, NEW k \in 1..MaxCalls
        PROVE  /\ executed'[<<u, k>>] # <<>> => k <= Accepted(u)'
               /\ Len(executed'[<<u, k>>]) <= 1
    <3>1. executed'[<<u, k>>] = executed[<<u, k>>]
      BY <1>2, <1>8
    <3> QED  BY <1>2, <1>3, <1>7, <3>1 DEF IInv, ExecutedOK
  <2>2. ASSUME NEW k \in 1..MaxCalls
        PROVE  executed'[<<ClientSlot, k>>] = IF k <= Accepted(ClientSlot)' THEN <<"OK">> ELSE <<>>
    <3>1. executed[<<ClientSlot, k>>] = IF k <= Accepted(ClientSlot) THEN <<"OK">> ELSE <<>>
      BY DEF IInv, ExecutedOK
    <3>2. CASE s # ClientSlot
      BY <1>2, <1>7, <3>1, <3>2
    <3>3. CASE s = ClientSlot /\ k = call[s].k
      <4>1. executed'[<<ClientSlot, k>>] = <<"OK">>
        BY <1>2, <1>4, <3>3 DEF IInv, TypeOK
      <4>2. Accepted(ClientSlot)' = k /\ k <= k
        BY <1>7, <3>3
      <4> QED  BY <4>1, <4>2
    <3>4. CASE s = ClientSlot /\ k # call[s].k
      <4>1. executed'[<<ClientSlot, k>>] = executed[<<ClientSlot, k>>]
        BY <1>2, <1>8, <3>4
      <4>2. k <= Accepted(ClientSlot)' <=> k <= Accepted(ClientSlot)
        BY <1>3, <1>7, <3>4
      <4> QED  BY <3>1, <4>1, <4>2
    <3> QED  BY <3>2, <3>3, <3>4
  <2> QED  BY <1>2, <2>1, <2>2 DEF ExecutedOK
<1>14. RequestsOK' /\ SameCompound'
  BY <1>10 DEF IInv, RequestsOK, SameCompound, WellFormed, Recent
<1>15. CachesOK'
  <2>1. ASSUME NEW r \in Live', r.slot \in Slots, r.k <= Accepted(r.slot)'
        PROVE  (caches[r.slot][r.k + 1] = Unfilled \/ Told(caches[r.slot][r.k + 1], r))'
    <3>1. r \in Live /\ r \in Known /\ r.slot \in AllSlots /\ r.k \in 1..MaxCalls /\ r.k \in Nat
      BY <1>2, <1>10, KnownOK DEF Known
    <3>2. CASE r.slot = s /\ r.k = call[s].k
      BY <1>6, <3>2 DEF Unfilled
    <3>3. CASE ~(r.slot = s /\ r.k = call[s].k)
      <4>1. r.k <= Accepted(r.slot)
        BY <1>3, <1>7, <2>1, <3>1, <3>3
      <4>2. r.k + 1 \in 1..Len(caches[r.slot])
        BY SMTT(40), <1>3, <3>1, <4>1 DEF Accepted
      <4>3. caches'[r.slot][r.k + 1] = caches[r.slot][r.k + 1]
        BY <1>5, <1>6, <3>1, <4>2
      <4>4. \A x : x = caches[r.slot][r.k + 1] => x = Unfilled \/ Told(x, r)'
        BY <1>9, <2>1, <3>1, <4>1 DEF IInv, CachesOK, Hold
      <4> QED  BY <4>3, <4>4 DEF Unfilled
    <3> QED  BY <3>2, <3>3
  <2>2. ASSUME NEW k \in 1..Accepted(ClientSlot)'
        PROVE  (caches[ClientSlot][k + 1] = Unfilled \/ CreatedBy(caches[ClientSlot][k + 1], k))'
    <3>1. CASE ClientSlot = s /\ k = call[s].k
      BY <1>6, <3>1 DEF Unfilled
    <3>2. CASE ~(ClientSlot = s /\ k = call[s].k)
      <4>1. k \in 1..Accepted(ClientSlot)
        BY <1>2, <1>3, <1>7, <2>2, <3>2
      <4>2. k + 1 \in 1..Len(caches[ClientSlot])
        BY SMTT(40), <1>2, <1>3, <4>1 DEF Accepted
      <4>3. caches'[ClientSlot][k + 1] = caches[ClientSlot][k + 1]
        BY <1>2, <1>5, <1>6, <4>2
      <4> QED  BY <4>1, <4>3 DEF IInv, CachesOK, Hold, CreatedBy, Unfilled
    <3> QED  BY <3>1, <3>2
  <2> QED  BY <2>1, <2>2 DEF CachesOK, Hold
<1>16. ASSUME NEW u \in Threads, u # t, thread[u] # Idle, NEW d, d = thread[u]
       PROVE  /\ EnvOK(d)'
              /\ Pending(d) /\ s \in Slots => d.req.slot # s \/ d.req.k # call[s].k
  <2>1. EnvOK(d) /\ d.req \in Known /\ d.req \in Requests
    BY <1>16, KnownOK DEF IInv, ThreadsOK, Known, Live, InFlight
  <2>2. ASSUME Pending(d), PendingOK(d)
        PROVE  PendingOK(d)'
    <3>1. SlotCache(d)' /\ d.req.slot \in Slots
      BY <1>9, <2>1, <2>2 DEF PendingOK, SlotCache
    <3>2. <<d.req.slot, d.req.k>> \in AllSlots \X (1..MaxCalls)
      BY <2>1, KnownOK
    <3>3. executed'[<<d.req.slot, d.req.k>>] = executed[<<d.req.slot, d.req.k>>]
      BY <1>2, <1>8, <3>1, <3>2
    <3> QED  BY <2>2, <3>1, <3>3 DEF PendingOK
  <2>3. EnvOK(d)'
    BY <1>9, <2>1, <2>2 DEF EnvOK, OpsOK, Pending, Refused
  <2>4. ASSUME Pending(d), d.req.slot = s, d.req.k = call[s].k
        PROVE  FALSE
    <3>1. d.results # <<>> /\ d.pc = "ops"
      BY <2>4 DEF Pending
    <3>2. SlotCache(d) \/ ClientCache(d)
      BY <2>1, <3>1 DEF EnvOK, OpsOK, PendingOK, Complete
    <3>3. d.req.k <= Accepted(s)
      BY <2>4, <3>2 DEF SlotCache, ClientCache
    <3> QED  BY <1>3, <2>4, <3>3
  <2> QED  BY <2>3, <2>4
<1>17. ThreadsOK'
  <2>1. ASSUME NEW u \in Threads, thread'[u] # Idle
        PROVE  EnvOK(thread[u])'
    BY <1>1, <1>16, <2>1
  <2>2. \A u \in Threads : Pending(thread[u])' <=> Pending(thread'[u])
    BY DEF Pending
  <2>3. ASSUME NEW u \in Threads, u # t, Pending(thread'[u]), Pending(f)
        PROVE  ~(thread'[u].req.slot = f.req.slot /\ thread'[u].req.k = f.req.k)
    <3>1. thread[u] = thread'[u] /\ thread[u] # Idle
      BY <1>1, <2>3 DEF Pending, Idle
    <3> QED  BY <1>16, <2>3, <3>1
  <2>4. ASSUME NEW u \in Threads, NEW v \in Threads, Pending(thread'[u]), Pending(thread'[v]),
               thread'[u].req.slot = thread'[v].req.slot, thread'[u].req.k = thread'[v].req.k
        PROVE  u = v
    <3>1. CASE u # t /\ v # t
      BY <1>1, <2>4, <3>1 DEF IInv, ThreadsOK
    <3>2. CASE u = t \/ v = t
      BY <1>1, <2>3, <2>4, <3>2
    <3> QED  BY <3>1, <3>2
  <2> QED  BY <2>1, <2>2, <2>4 DEF ThreadsOK
<1>18. RepliesOK'
  BY <1>9 DEF IInv, RepliesOK, Known
<1> QED  BY <1>11, <1>12, <1>13, <1>14, <1>15, <1>17, <1>18 DEF IInv

-----------------------------------------------------------------------------
(* The steps of the server                                                    *)

LEMMA ThreadOK ==
  ASSUME IInv, NEW t \in Threads, thread[t] # Idle
  PROVE  /\ thread[t] \in Envs /\ EnvOK(thread[t])
         /\ thread[t].req \in Live /\ thread[t].req \in Known
         /\ thread[t].req \in Requests /\ WellFormed(thread[t].req) /\ Recent(thread[t].req)
<1>1. thread[t] \in Envs /\ EnvOK(thread[t])
  BY DEF IInv, TypeOK, ThreadsOK
<1>2. thread[t].req \in Live /\ thread[t].req \in Known
  BY DEF Known, Live, InFlight
<1> QED  BY <1>1, <1>2, KnownOK DEF IInv, RequestsOK

LEMMA PendingThread ==
  ASSUME IInv, NEW t \in Threads, Pending(thread[t])
  PROVE  /\ PendingOK(thread[t]) /\ thread[t].req \in Known /\ thread[t].req.slot \in AllSlots
<1>1. thread[t] # Idle
  BY DEF Pending, Idle
<1>2. OpsOK(thread[t]) /\ thread[t].req.slot \in AllSlots /\ thread[t].req \in Known
  BY <1>1, ThreadOK DEF EnvOK, Pending, Requests
<1>3. /\ thread[t].results # <<>> /\ ~Complete(thread[t]) /\ thread[t].req.shape # "inSession"
  <2>1. \A x, y : <<x>> # <<x, y>> /\ <<x>> # <<>>
    OBVIOUS
  <2> QED  BY <2>1 DEF Pending, Complete, WorkShapes
<1> QED  BY <1>2, <1>3 DEF OpsOK

(* Where a COMPOUND can be when a sequence id is looked at, and what the      *)
(* answer of check_seqid tells: the next in order is the last call of the     *)
(* slot, which no thread has taken; a replay is of a call that was taken.     *)
SeqidStep(e, op, s, k, result) ==
  \/ /\ e.req.shape # "session" /\ e.req.slot \in Slots /\ e.results = <<>> /\ e.cache = NoCache
     /\ op = "SEQUENCE" /\ s = e.req.slot /\ k = e.req.k /\ result = InSequence(e.req)
  \/ /\ e.req.shape = "session" /\ e.req.slot = ClientSlot /\ e.req.k = e.req.csK
     /\ e.results = <<>> /\ e.cache = NoCache
     /\ op = "CREATE_SESSION" /\ s = ClientSlot /\ k = e.req.csK /\ result = Created(k)
  \/ /\ e.req.shape = "inSession" /\ e.results = <<InSequence(e.req)>> /\ SlotCache(e)
     /\ op = "CREATE_SESSION" /\ s = ClientSlot /\ k = e.req.csK /\ result = Created(k)

LEMMA SeqidCases ==
  ASSUME IInv, NEW t \in Threads, thread[t] # Idle, thread[t].pc = "ops",
         Len(thread[t].results) < Len(Ops(thread[t].req)),
         NEW op \in {"SEQUENCE", "CREATE_SESSION"}, op = NextOp(t),
         NEW s, NEW k, <<s, k>> = CallOf(thread[t].req, op)
  PROVE  /\ SeqidStep(thread[t], op, s, k, Result(op, s, k, "OK"))
         /\ s \in AllSlots /\ k \in 1..call[s].k
         /\ InOrder(s, SeqidOf(<<s, k>>)) => k = Accepted(s) + 1 /\ k = call[s].k
         /\ Replayed(s, SeqidOf(<<s, k>>)) => k = Accepted(s)
<1> DEFINE e == thread[t]
           r == thread[t].req
<1>1. /\ e \in Envs /\ OpsOK(e) /\ r \in Requests /\ WellFormed(r) /\ Recent(r)
  BY ThreadOK DEF EnvOK
<1>2. /\ r.shape \in AllShapes /\ r.slot \in AllSlots /\ r.k \in Nat /\ r.csK \in Nat
      /\ ClientSlot \in AllSlots /\ ClientSlot \notin Slots
  BY <1>1, ReplayAssumption DEF Requests, AllSlots
<1>3. s = IF op = "CREATE_SESSION" THEN ClientSlot ELSE r.slot
  BY DEF CallOf
<1>4. k = IF op = "CREATE_SESSION" THEN r.csK ELSE r.k
  BY DEF CallOf
<1>5. SeqidStep(e, op, s, k, Result(op, s, k, "OK"))
  <2>1. CASE e.results = <<>> /\ e.cache = NoCache
    <3>1. op = Ops(r)[1]
      <4>1. Len(e.results) + 1 = 1
        BY <2>1
      <4> QED  BY <4>1 DEF NextOp
    <3>2. CASE r.shape = "session"
      <4>1. op = "CREATE_SESSION"
        BY <3>1, <3>2 DEF Ops
      <4> QED  BY <1>1, <1>3, <1>4, <2>1, <3>2, <4>1 DEF SeqidStep, WellFormed, Created
    <3>3. CASE r.shape # "session"
      <4>1. op = "SEQUENCE"
        BY <3>1, <3>3 DEF Ops
      <4>2. r.slot \in Slots
        BY <1>1, <1>2, <3>3 DEF WellFormed, WorkShapes, AllShapes
      <4> QED  BY <1>3, <1>4, <2>1, <3>3, <4>1, <4>2 DEF SeqidStep, InSequence
    <3> QED  BY <3>2, <3>3
  <2>2. CASE e.results = <<InSequence(r)>>
    <3>1. op = Ops(r)[2]
      <4>1. Len(e.results) = 1
        BY <2>2
      <4> QED  BY <4>1 DEF NextOp
    <3>2. r.shape = "inSession"
      <4>1. r.shape # "session"
        <5>1. SUFFICES ASSUME r.shape = "session" PROVE FALSE
          OBVIOUS
        <5>2. Len(Ops(r)) = 1 /\ Len(e.results) = 1
          BY <2>2, <5>1 DEF Ops
        <5>3. Len(e.results) < Len(Ops(r)) /\ ~(1 < 1)
          OBVIOUS
        <5> QED  BY <5>2, <5>3
      <4>2. r.shape \notin WorkShapes
        BY <3>1 DEF Ops, WorkShapes
      <4> QED  BY <1>2, <4>1, <4>2 DEF AllShapes, WorkShapes
    <3>3. op = "CREATE_SESSION"
      BY <3>1, <3>2 DEF Ops
    <3>4. SlotCache(e)
      BY <1>1, <2>2, <3>2 DEF OpsOK, PendingOK, Complete, WorkShapes
    <3> QED  BY <1>3, <1>4, <2>2, <3>2, <3>3, <3>4 DEF SeqidStep, Created
  <2>3. CASE Complete(e)
    <3>1. Len(e.results) = Len(Ops(r))
      BY <2>3 DEF Complete, Ops, WorkShapes
    <3>2. Len(e.results) \in Nat /\ Len(Ops(r)) \in Nat
      BY <1>1 DEF Envs, Ops
    <3> QED  BY <3>1, <3>2
  <2> QED  BY <1>1, <2>1, <2>2, <2>3 DEF OpsOK, Pending
<1>6. s \in AllSlots /\ k \in 1..call[s].k
  <2>1. CASE op = "SEQUENCE"
    BY <1>1, <1>2, <1>3, <1>4, <2>1 DEF WellFormed
  <2>2. CASE op = "CREATE_SESSION"
    <3>1. r.shape \in {"session", "inSession"}
      BY <1>5, <2>2 DEF SeqidStep
    <3> QED  BY <1>1, <1>2, <1>3, <1>4, <2>2, <3>1 DEF WellFormed
  <2> QED  BY <2>1, <2>2
<1>7. call[s].k + 2 <= k + SeqMod
  BY <1>1, <1>2, <1>3, <1>4, <1>6 DEF Recent
<1>8. /\ call[s].k \in Nat /\ Accepted(s) \in Nat /\ Accepted(s) \in {call[s].k, call[s].k - 1}
      /\ seqid[s] = Accepted(s) % SeqMod
  <2>1. caches[s] \in Seq(Seq(Results)) /\ caches[s] # <<>> /\ call[s] \in Calls
    BY <1>6 DEF IInv, TypeOK, SlotOK
  <2>2. call[s].k \in Nat /\ Accepted(s) \in Nat
    BY <2>1 DEF Calls, Accepted
  <2> QED  BY <1>6, <2>2 DEF IInv, InStep, SlotOK
<1>9. /\ InOrder(s, SeqidOf(<<s, k>>)) => k % SeqMod = (Accepted(s) + 1) % SeqMod
      /\ Replayed(s, SeqidOf(<<s, k>>)) => k % SeqMod = Accepted(s) % SeqMod
  <2>1. SeqMod \in Nat /\ SeqMod > 1
    BY ReplayAssumption
  <2>2. inc_u32(seqid[s]) = (Accepted(s) + 1) % SeqMod
    BY <1>8, <2>1, IncMod DEF inc_u32
  <2> QED  BY <1>8, <2>2 DEF InOrder, Replayed, SeqidOf
<1> QED  BY <1>5, <1>6, <1>7, <1>8, <1>9, SeqidTells

LEMMA CheckSeqidStep ==
  ASSUME IInv, NEW t \in Threads, CheckSeqid(t), UNCHANGED workload
  PROVE  IInv'
<1>1. PICK e : e = thread[t]
  OBVIOUS
<1> USE <1>1
<1> DEFINE r == e.req
<1>2. /\ e.pc = "ops" /\ Len(e.results) < Len(Ops(r)) /\ e # Idle
      /\ UNCHANGED <<requests, replies, call, resets>>
  BY DEF CheckSeqid, Idle
<1>3. PICK op, s, k :
        op \in {"SEQUENCE", "CREATE_SESSION"} /\ op = NextOp(t) /\ <<s, k>> = CallOf(r, op)
  BY DEF CheckSeqid, CallOf
<1> DEFINE ok == Result(op, s, k, "OK")
           q == SeqidOf(<<s, k>>)
           c == <<s, k>>
<1>4. /\ Accept(t, s, q, ok) \/ Replay(t, s, q) \/ Misordered(t, s, q, ok)
      /\ executed' = IF op = "CREATE_SESSION" /\ InOrder(s, q)
                     THEN [executed EXCEPT ![<<s, k>>] = Append(@, "OK")] ELSE executed
  <2>1. CallOf(thread[t].req, NextOp(t)) = c /\ c[1] = s /\ c[2] = k
    BY <1>3
  <2> QED  BY <1>3, <2>1 DEF CheckSeqid
<1>5. /\ SeqidStep(e, op, s, k, ok)
      /\ s \in AllSlots /\ k \in 1..call[s].k
      /\ InOrder(s, q) => k = Accepted(s) + 1 /\ k = call[s].k
      /\ Replayed(s, q) => k = Accepted(s)
  BY <1>2, <1>3, SeqidCases
<1>6. /\ e \in Envs /\ EnvOK(e) /\ r \in Live /\ r \in Requests /\ r \in Known
      /\ ClientSlot \in AllSlots /\ ClientSlot \notin Slots /\ Slots \subseteq AllSlots
  BY <1>2, ThreadOK, ReplayAssumption DEF AllSlots
<1>7. ok \in Results /\ Refusal(ok) \in Results /\ k \in Nat
  <2>1. op \in {"SEQUENCE", "CREATE_SESSION", "WORK"} /\ k \in Nat
    BY <1>3, <1>5
  <2> QED  BY <1>5, <2>1 DEF Result, Results, Refusal, Statuses, Outcomes
<1>8. caches[s] \in Seq(Seq(Results)) /\ caches[s] # <<>> /\ Accepted(s) \in Nat
  <2>1. caches[s] \in Seq(Seq(Results)) /\ caches[s] # <<>>
    BY <1>5 DEF IInv, TypeOK, SlotOK
  <2> QED  BY <2>1 DEF Accepted
<1>9. e.results \in Seq(Results) /\ e.cache \in {NoCache} \cup (AllSlots \X Nat)
  BY <1>6 DEF Envs
<1>10. CASE Accept(t, s, q, ok)
  <2>0. PICK f : f = [e EXCEPT !.cache = <<s, Len(caches[s]) + 1>>, !.results = Append(@, ok)]
    OBVIOUS
  <2>1. /\ InOrder(s, q) /\ thread' = [thread EXCEPT ![t] = f]
        /\ seqid' = [seqid EXCEPT ![s] = q] /\ caches' = [caches EXCEPT ![s] = Append(@, Unfilled)]
    BY <1>10, <2>0 DEF Accept
  <2>2. k = Accepted(s) + 1 /\ k = call[s].k /\ q = call[s].k % SeqMod /\ Len(caches[s]) = k
    BY <1>5, <1>8, <2>1 DEF SeqidOf, Accepted
  <2>3. /\ f \in Envs /\ f.pc = "ops" /\ f.req = r /\ f.cache = <<s, k + 1>>
        /\ f.results = Append(e.results, ok)
    <3>1. Append(e.results, ok) \in Seq(Results)
      BY <1>7, <1>9
    <3>2. <<s, Len(caches[s]) + 1>> \in AllSlots \X Nat
      BY <1>5, <1>7, <2>2
    <3> QED  BY <1>2, <1>6, <2>0, <2>2, <3>1, <3>2 DEF Envs
  <2>4. op = "CREATE_SESSION" <=> s = ClientSlot
    BY <1>5, <1>6 DEF SeqidStep
  <2>5. executed' = IF s = ClientSlot
                    THEN [executed EXCEPT ![<<s, call[s].k>>] = <<"OK">>] ELSE executed
    <3>1. CASE s = ClientSlot
      <4>1. <<s, k>> \in AllSlots \X (1..MaxCalls) /\ k \in 1..MaxCalls
        <5>1. call[s] \in Calls /\ call[s].k <= MaxCalls
          BY <1>5 DEF IInv, TypeOK, CallOK
        <5>2. MaxCalls \in Nat
          BY ReplayAssumption DEF IInv, TypeOK, MaxCalls
        <5> QED  BY <1>5, <5>1, <5>2 DEF Calls
      <4>2. executed[<<s, k>>] = <<>>
        BY <1>8, <2>2, <3>1, <4>1 DEF IInv, ExecutedOK
      <4>3. Append(<<>>, "OK") = <<"OK">>
        OBVIOUS
      <4>4. executed' = [executed EXCEPT ![<<s, k>>] = Append(@, "OK")]
        BY <1>4, <2>1, <2>4, <3>1
      <4>5. executed' = [executed EXCEPT ![<<s, k>>] = <<"OK">>]
        BY <4>1, <4>2, <4>3, <4>4 DEF IInv, TypeOK
      <4> QED  BY <2>2, <3>1, <4>5
    <3> QED  BY <1>4, <2>4, <3>1
  <2>6. Accepted(s)' = k /\ \A u \in AllSlots : u # s => Accepted(u)' = Accepted(u)
    <3>1. caches'[s] = Append(caches[s], Unfilled) /\ Unfilled \in Seq(Results)
      BY <1>5, <2>1 DEF IInv, TypeOK, Unfilled
    <3>2. Len(caches'[s]) = Len(caches[s]) + 1
      BY <1>8, <3>1, AppendProperties
    <3>3. \A u \in AllSlots : u # s => caches'[u] = caches[u]
      BY <2>1 DEF IInv, TypeOK
    <3> QED  BY <1>7, <2>2, <3>2, <3>3 DEF Accepted
  <2>7. EnvOK(f)' /\ (Pending(f) => s \in Slots /\ f.req.slot = s /\ f.req.k = call[s].k)
    <3> SUFFICES OpsOK(f)' /\ (Pending(f) => s \in Slots /\ f.req.slot = s /\ f.req.k = k)
      BY <2>2, <2>3 DEF EnvOK
    <3>1. f.pc = "ops" /\ f.req = r /\ f.cache = <<s, k + 1>> /\ f.results = Append(e.results, ok)
      BY <2>3
    <3>2. CASE r.shape # "session" /\ e.results = <<>> /\ s = r.slot /\ s \in Slots /\ k = r.k
               /\ ok = InSequence(r)
      <4>1. f.results = <<InSequence(r)>>
        BY <3>1, <3>2
      <4>2. SlotCache(f)'
        BY <1>7, <2>6, <3>1, <3>2 DEF SlotCache
      <4>3. CASE r.shape \in WorkShapes
        <5>1. executed'[<<s, k>>] = <<>>
          <6>1. executed[<<s, k>>] # <<>> => k <= Accepted(s)
            BY <1>6, <3>2, KnownOK DEF IInv, ExecutedOK
          <6> QED  BY <1>6, <1>8, <2>2, <2>5, <3>2, <6>1
        <5>2. call[s].waiting
          BY <1>5, <1>8, <2>2 DEF IInv, InStep
        <5>3. PendingOK(f)'
          BY <1>2, <2>2, <3>1, <3>2, <4>2, <5>1, <5>2 DEF PendingOK
        <5> QED  BY <3>1, <3>2, <4>1, <4>3, <5>3 DEF OpsOK, Pending
      <4>4. CASE r.shape \notin WorkShapes
        <5>1. r.shape = "inSession"
          BY <1>6, <3>2, <4>4 DEF Requests, AllShapes, WorkShapes
        <5> QED  BY <3>1, <4>1, <4>2, <4>4, <5>1 DEF OpsOK, Pending
      <4> QED  BY <4>3, <4>4
    <3>3. CASE r.shape = "session" /\ e.results = <<>> /\ r.slot = ClientSlot /\ r.k = r.csK
               /\ s = ClientSlot /\ k = r.csK /\ ok = Created(k)
      <4>1. f.results = <<Created(r.csK)>>
        BY <3>1, <3>3
      <4>2. ClientCache(f)'
        BY <1>5, <1>7, <2>6, <3>1, <3>3 DEF ClientCache
      <4> QED  BY <3>1, <3>3, <4>1, <4>2 DEF OpsOK, Complete, Pending, WorkShapes
    <3>4. CASE r.shape = "inSession" /\ e.results = <<InSequence(r)>> /\ SlotCache(e)
               /\ s = ClientSlot /\ k = r.csK /\ ok = Created(k)
      <4>1. f.results = <<InSequence(r), Created(r.csK)>>
        BY <3>1, <3>4, AppendTwo
      <4>2. r.k <= Accepted(r.slot)'
        BY <1>6, <2>6, <3>4 DEF SlotCache
      <4>3. ClientCache(f)'
        BY <1>5, <1>7, <2>6, <3>1, <3>4, <4>2 DEF ClientCache
      <4> QED  BY <3>1, <3>4, <4>1, <4>3 DEF OpsOK, Complete, Pending, WorkShapes
    <3> QED  BY <1>5, <3>2, <3>3, <3>4 DEF SeqidStep
  <2> HIDE DEF ok, q
  <2>8. /\ thread[t] # Idle /\ call[s].k = Accepted(s) + 1 /\ f.req = thread[t].req
        /\ seqid' = [seqid EXCEPT ![s] = call[s].k % SeqMod]
        /\ UNCHANGED <<workload, requests, replies, call>>
    BY <1>2, <2>1, <2>2, <2>3
  <2> HIDE DEF r
  <2> QED  BY <1>5, <2>1, <2>3, <2>5, <2>7, <2>8, Accepting
<1>11. ASSUME ~InOrder(s, q), NEW f \in Envs, thread' = [thread EXCEPT ![t] = f],
              f.req = r, f.pc # "ops", UNCHANGED <<seqid, caches>>, EnvOK(f)
       PROVE  IInv'
  <2>1. UNCHANGED executed /\ ~Pending(f) /\ caches' \in [AllSlots -> Seq(Seq(Results))]
        /\ Hold(caches') /\ \A u \in AllSlots : Len(caches'[u]) = Len(caches[u])
    BY <1>4, <1>11 DEF Pending, IInv, TypeOK, CachesOK
  <2> QED  BY <1>2, <1>6, <1>11, <2>1, LocalStep
<1>12. CASE Replay(t, s, q)
  <2> DEFINE f == [e EXCEPT !.cache = Newest(s), !.pc = "wait"]
  <2>1. Replayed(s, q) /\ thread' = [thread EXCEPT ![t] = f] /\ UNCHANGED <<seqid, caches>>
    BY <1>12 DEF Replay
  <2>2. k = Accepted(s) /\ Newest(s) = <<s, k + 1>>
    BY <1>5, <1>8, <2>1 DEF Newest, Accepted
  <2>3. f \in Envs /\ f.pc = "wait" /\ f.req = r /\ f.cache = <<s, k + 1>>
    <3>1. <<s, k + 1>> \in AllSlots \X Nat
      BY <1>5, <1>7
    <3> QED  BY <1>6, <2>2, <3>1 DEF Envs
  <2> HIDE DEF f
  <2>4. SlotCache(f) \/ ClientCache(f)
    BY <1>5, <1>7, <1>8, <2>2, <2>3 DEF SeqidStep, SlotCache, ClientCache
  <2> QED  BY <1>11, <2>1, <2>3, <2>4 DEF EnvOK, Replayed
<1>13. CASE Misordered(t, s, q, ok)
  <2> DEFINE f == [e EXCEPT !.pc = "finish", !.results = Append(@, [ok EXCEPT !.status = "MISORDERED"])]
  <2>1. ~InOrder(s, q) /\ thread' = [thread EXCEPT ![t] = f] /\ UNCHANGED <<seqid, caches>>
    BY <1>13 DEF Misordered
  <2>2. f \in Envs /\ f.pc = "finish" /\ f.req = r /\ f.cache = e.cache
        /\ f.results = Append(e.results, Refusal(ok))
    <3>1. Append(e.results, Refusal(ok)) \in Seq(Results)
      BY <1>7, <1>9
    <3> QED  BY <1>6, <3>1 DEF Envs, Refusal
  <2> HIDE DEF f
  <2>3. e.cache = NoCache \/ SlotCache(f)
    BY <1>5, <2>2 DEF SeqidStep, SlotCache
  <2>4. Refused(f.results, f.req)
    <3>1. CASE e.results = <<>>
      <4>1. f.results = <<Refusal(ok)>>
        BY <2>2, <3>1
      <4>2. \/ r.shape # "session" /\ ok = InSequence(r)
            \/ r.shape = "session" /\ ok = Created(r.csK)
        <5>1. <<InSequence(r)>> # <<>>
          OBVIOUS
        <5> QED  BY <1>5, <3>1, <5>1 DEF SeqidStep
      <4> QED  BY <2>2, <4>1, <4>2 DEF Refused
    <3>2. CASE e.results # <<>>
      <4>1. /\ r.shape = "inSession" /\ e.results = <<InSequence(r)>> /\ ok = Created(r.csK)
        BY <1>5, <3>2 DEF SeqidStep
      <4>2. f.results = <<InSequence(r), Refusal(Created(r.csK))>>
        BY <2>2, <4>1, AppendTwo
      <4> QED  BY <2>2, <4>1, <4>2 DEF Refused
    <3> QED  BY <3>1, <3>2
  <2> QED  BY <1>11, <2>1, <2>2, <2>3, <2>4 DEF EnvOK
<1> QED  BY <1>4, <1>10, <1>12, <1>13

(* Filling a Cache: what the thread says of its call holds of every           *)
(* transmission of it, as they are the same COMPOUND.                         *)
LEMMA FillStep ==
  ASSUME IInv, NEW t \in Threads, Fill(t), UNCHANGED workload
  PROVE  IInv'
<1>1. PICK e : e = thread[t]
  OBVIOUS
<1> DEFINE r == e.req
           filled == Cached(e.results, Caching(r))
<1>2. /\ e.pc = "fill" /\ e # Idle /\ UNCHANGED <<seqid, requests, replies, call, executed, resets>>
      /\ thread' = [thread EXCEPT ![t] = [e EXCEPT !.pc = "send"]]
      /\ caches' = IF e.cache = NoCache THEN caches
                   ELSE [caches EXCEPT ![e.cache[1]][e.cache[2]] = filled]
  BY <1>1 DEF Fill, Idle
<1>3. e \in Envs /\ EnvOK(e) /\ r \in Live /\ r \in Known /\ r \in Requests /\ WellFormed(r)
  BY <1>1, <1>2, ThreadOK
<1>4. /\ ClientSlot \in AllSlots /\ ClientSlot \notin Slots /\ Slots \subseteq AllSlots
      /\ caches \in [AllSlots -> Seq(Seq(Results))]
      /\ \A s \in AllSlots : Accepted(s) \in Nat /\ Len(caches[s]) = Accepted(s) + 1
  <2>1. ASSUME NEW s \in AllSlots
        PROVE  Accepted(s) \in Nat /\ Len(caches[s]) = Accepted(s) + 1
    <3>1. caches[s] \in Seq(Seq(Results)) /\ caches[s] # <<>>
      BY DEF IInv, TypeOK, SlotOK
    <3> QED  BY <3>1 DEF Accepted
  <2> QED  BY <2>1, ReplayAssumption DEF AllSlots, IInv, TypeOK
<1>5. /\ filled \in Seq(Results)
      /\ \/ Refused(e.results, r) /\ (e.cache = NoCache \/ SlotCache(e)) /\ Refused(filled, r)
         \/ Complete(e) /\ r.shape \in WorkShapes /\ SlotCache(e) /\ Answered(filled, r)
         \/ Complete(e) /\ r.shape \notin WorkShapes /\ ClientCache(e) /\ CreatedBy(filled, r.csK)
  <2>1. CASE Refused(e.results, r) /\ (e.cache = NoCache \/ SlotCache(e))
    <3>1. Len(e.results) < 2 \/ r.shape = "inSession"
      <4>1. \A x : Len(<<x>>) = 1 /\ 1 < 2
        OBVIOUS
      <4>2. r.shape = "inSession" \/ \E x : e.results = <<x>>
        BY <2>1 DEF Refused
      <4> QED  BY <4>1, <4>2
    <3>2. filled = e.results
      BY <3>1 DEF Cached, Caching
    <3> QED  BY <1>3, <2>1, <3>2 DEF Envs
  <2>2. CASE Complete(e) /\ r.shape \in WorkShapes
    <3>1. PICK status \in Outcomes :
            /\ executed[<<r.slot, r.k>>] = <<status>>
            /\ e.results = <<InSequence(r), Worked(r, status)>>
      BY <2>2 DEF Complete, WorkShapes
    <3>2. SlotCache(e)
      BY <2>2 DEF Complete, WorkShapes
    <3>3. \/ filled = <<InSequence(r), Worked(r, status)>>
          \/ /\ r.shape = "workUncached"
             /\ filled = <<InSequence(r), Worked(r, "RETRY_UNCACHED_REP")>>
      <4>1. CASE Caching(r)
        BY <3>1, <4>1 DEF Cached
      <4>2. CASE ~Caching(r)
        <5>1. ~(Len(e.results) < 2) /\ e.results[1] = InSequence(r) /\ e.results[2] = Worked(r, status)
          BY <3>1
        <5>2. [e.results[2] EXCEPT !.status = "RETRY_UNCACHED_REP"] = Worked(r, "RETRY_UNCACHED_REP")
          BY <5>1 DEF Worked, Result
        <5> QED  BY <4>2, <5>1, <5>2 DEF Cached, Caching
      <4> QED  BY <4>1, <4>2
    <3>4. Answered(filled, r)
      BY <2>2, <3>1, <3>2, <3>3 DEF Answered, WorkedBy, SlotCache
    <3>5. filled \in Seq(Results)
      <4>1. \A x \in Statuses : Worked(r, x) \in Results /\ InSequence(r) \in Results
        BY <1>3 DEF Worked, InSequence, Result, Results, Requests, Statuses, Outcomes
      <4>2. status \in Statuses /\ "RETRY_UNCACHED_REP" \in Statuses
        BY DEF Statuses
      <4>3. \A x \in Results, y \in Results : <<x, y>> \in Seq(Results)
        OBVIOUS
      <4> HIDE DEF filled
      <4> QED  BY <3>3, <4>1, <4>2, <4>3
    <3> QED  BY <2>2, <3>2, <3>4, <3>5
  <2>3. CASE Complete(e) /\ r.shape \notin WorkShapes
    <3>1. Caching(r) /\ ClientCache(e)
      BY <2>3 DEF Caching, Complete, WorkShapes
    <3>2. filled = e.results
      BY <3>1 DEF Cached
    <3>3. CreatedBy(e.results, r.csK)
      BY <1>3, <2>3 DEF Complete, WorkShapes, CreatedBy, InSequence, WellFormed, Requests
    <3> QED  BY <1>3, <2>3, <3>1, <3>2, <3>3 DEF Envs
  <2> QED  BY <1>2, <1>3, <2>1, <2>2, <2>3 DEF EnvOK
<1>6. Told(e.results, r)
  <2>1. Complete(e) => Answered(e.results, r)
    BY <1>3 DEF Complete, Answered, SlotCache, ClientCache, WorkedBy, CreatedBy, InSequence,
         WorkShapes, WellFormed, Requests
  <2> QED  BY <1>5, <2>1 DEF Told
<1> HIDE DEF filled
<1>7. /\ caches' \in [AllSlots -> Seq(Seq(Results))]
      /\ \A s \in AllSlots : Len(caches'[s]) = Len(caches[s])
      /\ Hold(caches')
  <2>1. CASE e.cache = NoCache
    BY <1>2, <1>4, <2>1 DEF IInv, CachesOK
  <2>2. ASSUME NEW s \in AllSlots, NEW k \in Nat, 1 <= k, k <= Accepted(s), e.cache = <<s, k + 1>>,
               s \in Slots => \A q \in Live : q.slot = s /\ q.k = k => Told(filled, q),
               s = ClientSlot => CreatedBy(filled, k)
        PROVE  /\ caches' \in [AllSlots -> Seq(Seq(Results))]
               /\ \A u \in AllSlots : Len(caches'[u]) = Len(caches[u])
               /\ Hold(caches')
    <3>1. k + 1 \in 1..Len(caches[s]) /\ caches[s] \in Seq(Seq(Results)) /\ e.cache # NoCache
      BY <1>4, <2>2 DEF NoCache
    <3>2. caches' = [caches EXCEPT ![s] = [caches[s] EXCEPT ![k + 1] = filled]]
      BY <1>2, <2>2, <3>1
    <3>3. /\ [caches[s] EXCEPT ![k + 1] = filled] \in Seq(Seq(Results))
          /\ Len([caches[s] EXCEPT ![k + 1] = filled]) = Len(caches[s])
      BY <1>5, <3>1, ExceptSeq
    <3>4. /\ caches'[s][k + 1] = filled
          /\ \A u \in AllSlots, i \in Nat : i \in 1..Len(caches[u]) =>
               (u # s \/ i # k + 1 => caches'[u][i] = caches[u][i])
      <4>1. caches[s] \in [1..Len(caches[s]) -> Seq(Results)]
        BY <3>1
      <4> QED  BY <1>4, <3>1, <3>2, <4>1
    <3>5. ASSUME NEW q \in Live, q.slot \in Slots, q.k <= Accepted(q.slot)
          PROVE  caches'[q.slot][q.k + 1] = Unfilled \/ Told(caches'[q.slot][q.k + 1], q)
      <4>1. q.slot \in AllSlots /\ q.k \in Nat /\ 1 <= q.k
        BY KnownOK DEF Known, Requests
      <4>2. CASE q.slot = s /\ q.k = k
        BY <2>2, <3>4, <3>5, <4>2
      <4>3. CASE q.slot # s \/ q.k # k
        <5>1. q.k + 1 \in 1..Len(caches[q.slot]) /\ q.k + 1 \in Nat
          <6>1. Accepted(q.slot) \in Nat /\ Len(caches[q.slot]) = Accepted(q.slot) + 1
            BY <1>4, <4>1
          <6>2. \A a \in Nat, n \in Nat : 1 <= n /\ n <= a => n + 1 \in 1..(a + 1) /\ n + 1 \in Nat
            OBVIOUS
          <6> QED  BY <3>5, <4>1, <6>1, <6>2
        <5>2. q.slot # s \/ q.k + 1 # k + 1
          BY <2>2, <4>1, <4>3
        <5>3. caches'[q.slot][q.k + 1] = caches[q.slot][q.k + 1]
          BY <3>4, <4>1, <5>1, <5>2
        <5> QED  BY <3>5, <5>3 DEF IInv, CachesOK, Hold
      <4> QED  BY <4>2, <4>3
    <3>6. ASSUME NEW i \in 1..Accepted(ClientSlot)
          PROVE  caches'[ClientSlot][i + 1] = Unfilled \/ CreatedBy(caches'[ClientSlot][i + 1], i)
      <4>1. CASE s = ClientSlot /\ i = k
        BY <2>2, <3>4, <4>1
      <4>2. CASE s # ClientSlot \/ i # k
        <5>1. i + 1 \in 1..Len(caches[ClientSlot]) /\ i + 1 \in Nat
          BY <1>4
        <5>2. s # ClientSlot \/ i + 1 # k + 1
          BY <2>2, <4>2
        <5>3. caches'[ClientSlot][i + 1] = caches[ClientSlot][i + 1]
          BY <1>4, <3>4, <5>1, <5>2
        <5> QED  BY <5>3 DEF IInv, CachesOK, Hold
      <4> QED  BY <4>1, <4>2
    <3> QED  BY <1>4, <3>2, <3>3, <3>5, <3>6 DEF Hold
  <2>3. CASE SlotCache(e) /\ Told(filled, r)
    <3>1. ASSUME NEW q \in Live, q.slot = r.slot, q.k = r.k
          PROVE  Told(filled, q)
      <4>1. SameCall(r, q)
        BY <1>3, <2>3, <3>1 DEF IInv, SameCompound, SameCall, SlotCache, Known
      <4> QED  BY <2>3, <4>1, ToldAlike DEF Told
    <3>2. r.k \in Nat /\ 1 <= r.k /\ r.k <= Accepted(r.slot) /\ r.slot \in Slots
          /\ e.cache = <<r.slot, r.k + 1>>
      BY <1>3, <2>3, KnownOK DEF SlotCache, Requests
    <3> QED  BY <1>4, <2>2, <3>1, <3>2
  <2>4. CASE ClientCache(e) /\ CreatedBy(filled, r.csK)
    <3>1. r.csK \in Nat /\ 1 <= r.csK /\ r.csK <= Accepted(ClientSlot)
          /\ e.cache = <<ClientSlot, r.csK + 1>>
      BY <1>3, <2>4 DEF ClientCache, Requests
    <3> QED  BY <1>4, <2>2, <2>4, <3>1
  <2> QED  BY <1>5, <2>1, <2>3, <2>4 DEF Told
<1> DEFINE f == [e EXCEPT !.pc = "send"]
<1>8. f \in Envs /\ EnvOK(f) /\ f.req = r /\ ~Pending(f) /\ f # Idle
  BY <1>3, <1>6 DEF Envs, EnvOK, Pending, Idle
<1> HIDE DEF f
<1>9. thread' = [thread EXCEPT ![t] = f]
  BY <1>2 DEF f
<1> QED  BY <1>2, <1>3, <1>7, <1>8, <1>9, LocalStep

(* The other steps of a thread, by which the session does not change          *)
LEMMA QuietSteps ==
  ASSUME IInv, UNCHANGED workload, NEW t \in Threads,
         Dispatch(t) \/ Finish(t) \/ WaitForCache(t) \/ Send(t) \/ Reset(t)
  PROVE  IInv'
<1>1. PICK e : e = thread[t]
  OBVIOUS
<1>2. /\ UNCHANGED <<seqid, caches, call, executed>>
      /\ caches' \in [AllSlots -> Seq(Seq(Results))] /\ Hold(caches')
      /\ \A s \in AllSlots : Len(caches'[s]) = Len(caches[s])
  BY DEF Dispatch, Finish, WaitForCache, Send, Reset, IInv, TypeOK, CachesOK
<1>3. e # Idle => /\ e \in Envs /\ EnvOK(e) /\ e.req \in Live /\ e.req \in Known
                  /\ e.req \in Requests /\ WellFormed(e.req) /\ e.pc # "idle"
  BY <1>1, ThreadOK DEF Envs
<1>4. CASE Dispatch(t)
  <2>1. PICK r \in requests : requests' = requests \ {r} /\ thread' = [thread EXCEPT ![t] = Env(r)]
    BY <1>4 DEF Dispatch
  <2>2. Env(r) \in Envs /\ EnvOK(Env(r)) /\ Env(r).req = r /\ r \in Live /\ ~Pending(Env(r))
    <3>1. r \in Requests /\ r \in Live
      BY DEF IInv, TypeOK, Live, InFlight
    <3>2. \A x : <<>> # <<x>>
      OBVIOUS
    <3> QED  BY <3>1, <3>2 DEF Env, Envs, NoCache, EnvOK, OpsOK, Pending
  <2>3. UNCHANGED replies
    BY <1>4 DEF Dispatch
  <2> HIDE DEF Env
  <2> QED  BY <1>2, <2>1, <2>2, <2>3, LocalStep
<1>5. CASE Finish(t)
  <2> DEFINE f == IF e.lost THEN Idle ELSE [e EXCEPT !.pc = "fill"]
  <2>1. e # Idle /\ thread' = [thread EXCEPT ![t] = f] /\ UNCHANGED <<requests, replies>>
    BY <1>1, <1>5 DEF Finish, Idle
  <2>2. e.pc \in {"finish", "ops"} /\ (e.pc = "ops" => Len(e.results) = Len(Ops(e.req)))
    BY <1>1, <1>5 DEF Finish
  <2>3. e.pc = "ops" => Complete(e)
    <3>1. SUFFICES ASSUME e.pc = "ops" PROVE Complete(e)
      OBVIOUS
    <3>2. Len(e.results) = Len(Ops(e.req)) /\ OpsOK(e)
      BY <1>3, <2>1, <2>2, <3>1 DEF EnvOK
    <3>3. e.results # <<>>
      <4>1. Len(Ops(e.req)) # 0
        BY DEF Ops
      <4> QED  BY <3>2, <4>1
    <3>4. e.req.shape # "session" => e.results # <<InSequence(e.req)>>
      <4>1. e.req.shape # "session" => Len(Ops(e.req)) = 2
        BY DEF Ops
      <4>2. Len(<<InSequence(e.req)>>) = 1
        OBVIOUS
      <4> QED  BY <3>2, <4>1, <4>2
    <3> QED  BY <3>2, <3>3, <3>4 DEF OpsOK, Pending, WorkShapes
  <2>4. f \in {Idle} \cup Envs /\ (f # Idle => EnvOK(f) /\ f.req \in Live) /\ ~Pending(f)
    <3>1. CASE e.lost
      BY <3>1 DEF Pending, Idle
    <3>2. CASE ~e.lost
      BY <1>3, <2>1, <2>2, <2>3, <3>2 DEF Envs, EnvOK, Complete, SlotCache, ClientCache, Pending
    <3> QED  BY <3>1, <3>2
  <2> HIDE DEF f
  <2> QED  BY <1>2, <2>1, <2>4, LocalStep
<1>6. CASE WaitForCache(t)
  <2> DEFINE c == CacheAt(e.cache)
             f == [e EXCEPT !.results = c, !.pc = "send"]
  <2>1. /\ e # Idle /\ e.pc = "wait" /\ c # Unfilled
        /\ thread' = [thread EXCEPT ![t] = f] /\ UNCHANGED <<requests, replies>>
    <3>1. e # Idle
      BY <1>1, <1>6 DEF WaitForCache, Idle
    <3>2. /\ e.pc = "wait" /\ c # Unfilled /\ UNCHANGED <<requests, replies>>
          /\ thread' = [thread EXCEPT ![t].results = c, ![t].pc = "send"]
      BY <1>1, <1>6 DEF WaitForCache
    <3> HIDE DEF c
    <3>3. thread' = [thread EXCEPT ![t] = f]
      BY <1>1, <3>2 DEF IInv, TypeOK
    <3> QED  BY <3>1, <3>2, <3>3
  <2>2. c \in Seq(Results) /\ Told(c, e.req)
    <3>1. CASE SlotCache(e)
      <4>1. e.req.k \in 1..(Len(caches[e.req.slot]) - 1) /\ e.req.slot \in AllSlots
        BY <1>3, <2>1, <3>1, KnownOK DEF SlotCache, Accepted
      <4>2. caches[e.req.slot] \in Seq(Seq(Results))
        BY <4>1 DEF IInv, TypeOK
      <4>3. c = caches[e.req.slot][e.req.k + 1]
        BY <3>1 DEF SlotCache, CacheAt
      <4>4. e.req.k + 1 \in 1..Len(caches[e.req.slot])
        BY <4>1, <4>2
      <4>5. Told(c, e.req)
        BY <1>3, <2>1, <3>1, <4>3 DEF SlotCache, IInv, CachesOK, Hold
      <4> QED  BY <4>2, <4>3, <4>4, <4>5
    <3>2. CASE ClientCache(e)
      <4>1. e.req.csK \in 1..(Len(caches[ClientSlot]) - 1) /\ ClientSlot \in AllSlots
        BY <1>3, <2>1, <3>2 DEF ClientCache, Accepted, Requests, AllSlots
      <4>2. caches[ClientSlot] \in Seq(Seq(Results))
        BY <4>1 DEF IInv, TypeOK
      <4>3. c = caches[ClientSlot][e.req.csK + 1]
        BY <3>2 DEF ClientCache, CacheAt
      <4>4. e.req.csK + 1 \in 1..Len(caches[ClientSlot])
        BY <4>1, <4>2
      <4>5. CreatedBy(c, e.req.csK)
        BY <2>1, <4>1, <4>3 DEF IInv, CachesOK, Hold, Accepted
      <4>6. e.req.shape \notin WorkShapes
        BY <1>3, <2>1, <3>2 DEF ClientCache, WellFormed, Requests
      <4> QED  BY <3>2, <4>2, <4>3, <4>4, <4>5, <4>6 DEF Told, Answered, ClientCache
    <3> QED  BY <1>3, <2>1, <3>1, <3>2 DEF EnvOK
  <2> HIDE DEF c
  <2>3. f \in Envs /\ EnvOK(f) /\ f.req \in Live /\ ~Pending(f)
    BY <1>3, <2>1, <2>2 DEF Envs, EnvOK, Pending
  <2> HIDE DEF f
  <2> QED  BY <1>2, <2>1, <2>3, LocalStep
<1>7. CASE Send(t)
  <2> DEFINE x == [req |-> [e.req EXCEPT !.copy = 1], results |-> e.results]
  <2>1. /\ e # Idle /\ e.pc = "send" /\ thread' = [thread EXCEPT ![t] = Idle] /\ UNCHANGED requests
        /\ replies' = IF e.lost THEN replies ELSE replies \cup {x}
    BY <1>1, <1>7 DEF Send, Idle
  <2>2. SameCall(e.req, x.req) /\ x.results = e.results /\ x \in [req : Requests, results : Seq(Results)]
    BY <1>3, <2>1 DEF SameCall, Requests, Envs
  <2>3. Told(x.results, x.req)
    BY <1>3, <2>1, <2>2, ToldAlike DEF EnvOK, Told
  <2>4. ~Pending(Idle)
    BY DEF Pending, Idle
  <2> HIDE DEF x
  <2> QED  BY <1>2, <1>3, <2>1, <2>2, <2>3, <2>4, LocalStep
<1>8. CASE Reset(t)
  <2> DEFINE f == [e EXCEPT !.lost = TRUE]
  <2>1. e # Idle /\ thread' = [thread EXCEPT ![t] = f] /\ UNCHANGED <<requests, replies>>
    BY <1>1, <1>8 DEF Reset
  <2>2. /\ f \in Envs /\ f.pc = e.pc /\ f.req = e.req /\ f.cache = e.cache /\ f.results = e.results
    BY <1>3, <2>1 DEF Envs
  <2> HIDE DEF f
  <2>3. EnvOK(f) /\ f.req \in Live /\ (Pending(f) => Pending(e))
    BY <1>3, <2>1, <2>2 DEF EnvOK, OpsOK, Pending, PendingOK, Complete, SlotCache, ClientCache
  <2> QED  BY <1>1, <1>2, <2>1, <2>2, <2>3, LocalStep
<1> QED  BY <1>4, <1>5, <1>6, <1>7, <1>8

-----------------------------------------------------------------------------
(* The steps of the client                                                    *)
(* A reply that does not say misordered is of a call that was carried out,    *)
(* and its last status says what came of it, or that this is not known.       *)
LEMMA AnswerTells ==
  ASSUME IInv, NEW x \in replies, LastStatus(x) # "MISORDERED"
  PROVE  /\ Answered(x.results, x.req)
         /\ LastStatus(x) \in Outcomes \cup {"RETRY_UNCACHED_REP"}
         /\ x.req.shape \in WorkShapes =>
              \E status \in Outcomes : /\ executed[<<x.req.slot, x.req.k>>] = <<status>>
                                       /\ LastStatus(x) \in {status, "RETRY_UNCACHED_REP"}
         /\ x.req.shape \notin WorkShapes => LastStatus(x) = "OK"
<1>1. Told(x.results, x.req)
  BY DEF IInv, RepliesOK
<1>2. \A y, z : /\ x.results = <<z>> => LastStatus(x) = z.status
                /\ x.results = <<y, z>> => LastStatus(x) = z.status
  BY LastOf
<1>3. ~Refused(x.results, x.req)
  <2>1. /\ Refusal(InSequence(x.req)).status = "MISORDERED"
        /\ Refusal(Created(x.req.csK)).status = "MISORDERED"
    BY DEF Refusal, InSequence, Created, Result
  <2> QED  BY <1>2, <2>1 DEF Refused
<1>4. Answered(x.results, x.req)
  BY <1>1, <1>3 DEF Told
<1>5. CASE x.req.shape \in WorkShapes
  <2>1. \A status : Worked(x.req, status).status = status
    BY DEF Worked, Result
  <2> QED  BY <1>2, <1>4, <1>5, <2>1 DEF Answered, WorkedBy
<1>6. CASE x.req.shape \notin WorkShapes
  <2>1. \A k : Created(k).status = "OK"
    BY DEF Created, Result
  <2> QED  BY <1>2, <1>4, <1>6, <2>1 DEF Answered, CreatedBy, Outcomes
<1> QED  BY <1>4, <1>5, <1>6

(* The call that such a reply ends                                            *)
LEMMA CallEnds ==
  ASSUME IInv, NEW x \in replies, LastStatus(x) # "MISORDERED",
         NEW u \in AllSlots, Concerns(x, u), call[u].waiting
  PROVE  /\ Accepted(u) = call[u].k
         /\ call[u].shape \in WorkShapes => executed[<<u, call[u].k>>] # <<>>
         /\ call[u].shape = "inSession" => call[u].csK <= Accepted(ClientSlot)
         /\ call[u].k # 0
         /\ x.req.shape \in WorkShapes <=> call[u].shape \in WorkShapes
         /\ x.req.shape \in WorkShapes => x.req.slot = u /\ x.req.k = call[u].k
<1>1. /\ ClientSlot \in AllSlots /\ ClientSlot \notin Slots /\ CallOK(u) /\ InStep(u)
      /\ call[u] \in Calls /\ call[u].k \in Nat
  BY ReplayAssumption DEF AllSlots, IInv, TypeOK, Calls
<1>2. /\ x.req \in Known /\ x.req \in Requests /\ WellFormed(x.req)
      /\ (x.req.csK > 0 => x.req.csK \in Nat) /\ Answered(x.results, x.req)
  <2>1. x.req \in Known
    BY DEF Known
  <2>2. x.req \in Requests /\ WellFormed(x.req)
    BY <2>1, KnownOK
  <2> QED  BY <2>1, <2>2, AnswerTells DEF Requests
<1>3. Accepted(u) \in {call[u].k, call[u].k - 1}
  BY <1>1 DEF InStep
<1>4. CASE u \in Slots
  <2>1. x.req.slot = u /\ x.req.k = call[u].k
    BY <1>1, <1>4 DEF Concerns
  <2>2. x.req.shape = call[u].shape /\ x.req.csK = call[u].csK
    <3> DEFINE q == Transmission(u, call[u], 1)
    <3>1. q \in Known
      BY <1>4 DEF Known, Live, Waiting
    <3>2. q.slot = u /\ q.k = call[u].k /\ q.shape = call[u].shape /\ q.csK = call[u].csK
      BY DEF Transmission, Request
    <3> HIDE DEF q
    <3> QED  BY <1>2, <1>4, <2>1, <3>1, <3>2 DEF IInv, SameCompound
  <2>3. Accepted(u) = call[u].k
    BY <1>1, <1>2, <1>3, <2>1 DEF Answered
  <2>4. call[u].shape \in WorkShapes => executed[<<u, call[u].k>>] # <<>>
    <3>1. \A y : <<y>> # <<>>
      OBVIOUS
    <3> QED  BY <1>2, <2>1, <2>2, <3>1 DEF Answered, WorkedBy
  <2>5. call[u].shape = "inSession" => call[u].csK <= Accepted(ClientSlot)
    BY <1>2, <2>2 DEF Answered, WorkShapes
  <2> QED  BY <1>1, <2>1, <2>2, <2>3, <2>4, <2>5 DEF CallOK
<1>5. CASE u = ClientSlot
  <2>1. call[u].k # 0 /\ call[u].shape \notin WorkShapes /\ call[u].csK = call[u].k
    BY <1>1, <1>5 DEF CallOK, WorkShapes
  <2>2. x.req.shape \notin WorkShapes /\ x.req.csK = call[u].k
    <3>1. CASE x.req.slot = u /\ x.req.k = call[u].k
      BY <1>1, <1>2, <1>5, <3>1 DEF WellFormed, Requests, AllShapes, WorkShapes
    <3>2. CASE x.req.csK > 0 /\ x.req.csK = call[u].k
      BY <1>2, <3>2 DEF WellFormed
    <3> QED  BY <3>1, <3>2 DEF Concerns
  <2>3. call[u].k <= Accepted(u)
    BY <1>2, <1>5, <2>2 DEF Answered
  <2> QED  BY <1>1, <1>3, <1>5, <2>1, <2>2, <2>3
<1> QED  BY <1>4, <1>5 DEF AllSlots

LEMMA ClientSteps ==
  ASSUME IInv, UNCHANGED workload,
         \/ \E s \in AllSlots : \E shape \in Shapes : Call(s, shape)
         \/ \E s \in Slots : CallInSession(s)
         \/ \E s \in AllSlots : Retransmit(s)
         \/ RetransmitAlone
         \/ \E r \in replies : ReceiveReply(r)
         \/ Lose
  PROVE  IInv'
<1>1. /\ ClientSlot \in AllSlots /\ ClientSlot \notin Slots /\ Slots \subseteq AllSlots
      /\ SeqMod \in Nat /\ SeqMod > 1 /\ MaxCalls \in Nat /\ MaxCalls' = MaxCalls
      /\ call \in [AllSlots -> Calls]
  BY ReplayAssumption DEF AllSlots, IInv, TypeOK, MaxCalls
<1>2. ASSUME NEW u \in AllSlots
      PROVE  CallOK(u) /\ InStep(u) /\ call[u] \in Calls /\ call[u].k \in Nat
  BY DEF IInv, TypeOK, Calls
<1>3. ASSUME NEW s \in AllSlots, NEW shape \in Shapes, Call(s, shape)
      PROVE  IInv'
  <2> DEFINE csK == IF s = ClientSlot THEN call[s].k + 1 ELSE 0
  <2>1. /\ Free(s) /\ call' = [call EXCEPT ![s] = Begin(s, csK, shape)]
        /\ requests' = requests \cup {Transmission(s, call'[s], 1)}
        /\ UNCHANGED <<serverVars, replies, resets>>
        /\ shape \in IF s = ClientSlot THEN {"session"} ELSE WorkShapes
    BY <1>3 DEF Call, WorkShapes
  <2>2. csK \in Nat /\ shape \in AllShapes /\ Begin(s, csK, shape) \in Calls
    BY <1>2, <2>1 DEF Begin, Calls, AllShapes, WorkShapes
  <2>3. /\ call' \in [AllSlots -> Calls] /\ call'[s] = Begin(s, csK, shape)
        /\ \A u \in AllSlots \ {s} : call'[u] = call[u]
    BY <1>1, <2>1, <2>2
  <2>4. PICK r : r = Transmission(s, call'[s], 1)
    OBVIOUS
  <2>5. /\ r.slot = s /\ r.k = call[s].k + 1 /\ r.csK = csK /\ r.shape = shape /\ r \in Requests
        /\ call'[s].k = call[s].k + 1 /\ call'[s].csK = csK /\ call'[s].shape = shape
        /\ call'[s].waiting
    BY <1>2, <2>2, <2>3, <2>4 DEF Transmission, Request, Requests, Begin
  <2>6. CallOK(s)'
    <3>1. call'[s].k <= MaxCalls /\ call'[s].k # 0
      BY <1>1, <1>2, <2>1, <2>5 DEF Free
    <3> QED  BY <1>1, <2>1, <2>5, <3>1 DEF CallOK, WorkShapes
  <2>7. WellFormed(r)'
    BY <1>1, <1>2, <2>1, <2>5 DEF WellFormed, WorkShapes, AllSlots
  <2>8. r.csK > 0 => ClientSlot \in {s} /\ r.csK = call'[ClientSlot].k
    BY <2>5
  <2> HIDE DEF csK
  <2> DEFINE S == {s}
  <2>9. /\ S \in SUBSET AllSlots /\ s \in S /\ S \subseteq {s, ClientSlot} /\ \A u \in S : Free(u)
        /\ \A u \in AllSlots \ S : call'[u] = call[u]
        /\ \A u \in S : call'[u].k = call[u].k + 1 /\ call'[u].waiting /\ CallOK(u)'
        /\ (r.csK > 0 => ClientSlot \in S /\ r.csK = call'[ClientSlot].k)
        /\ UNCHANGED <<workload, serverVars, replies>> /\ requests' = requests \cup {r}
    BY <2>1, <2>3, <2>4, <2>5, <2>6, <2>8
  <2> HIDE DEF S
  <2> QED  BY <2>3, <2>4, <2>5, <2>7, <2>9, NewCalls
<1>4. ASSUME NEW s \in Slots, CallInSession(s)
      PROVE  IInv'
  <2> DEFINE csK == call[ClientSlot].k + 1
  <2>1. /\ s # ClientSlot /\ Free(s) /\ Free(ClientSlot)
        /\ call' = [call EXCEPT ![s] = Begin(s, csK, "inSession"),
                                ![ClientSlot] = Begin(ClientSlot, csK, "inSession")]
        /\ requests' = requests \cup {Transmission(s, call'[s], 1)}
        /\ UNCHANGED <<serverVars, replies, resets>>
    BY <1>4 DEF CallInSession
  <2>2. csK \in Nat /\ csK > 0 /\ \A u \in AllSlots : Begin(u, csK, "inSession") \in Calls
    BY <1>1, <1>2 DEF Begin, Calls, AllShapes
  <2>3. /\ call' \in [AllSlots -> Calls] /\ call'[s] = Begin(s, csK, "inSession")
        /\ call'[ClientSlot] = Begin(ClientSlot, csK, "inSession")
        /\ \A u \in AllSlots \ {s, ClientSlot} : call'[u] = call[u]
    BY <1>1, <2>1, <2>2
  <2>4. PICK r : r = Transmission(s, call'[s], 1)
    OBVIOUS
  <2>5. /\ r.slot = s /\ r.k = call[s].k + 1 /\ r.csK = csK /\ r.shape = "inSession" /\ r \in Requests
        /\ call'[s].k = call[s].k + 1 /\ call'[s].csK = csK /\ call'[s].shape = "inSession"
        /\ call'[s].waiting
        /\ call'[ClientSlot].k = csK /\ call'[ClientSlot].csK = csK
        /\ call'[ClientSlot].shape = "inSession" /\ call'[ClientSlot].waiting
    BY <1>1, <1>2, <2>2, <2>3, <2>4 DEF Transmission, Request, Requests, Begin, AllShapes
  <2>6. CallOK(s)' /\ CallOK(ClientSlot)'
    <3>1. call'[s].k <= MaxCalls /\ call'[s].k # 0 /\ csK <= MaxCalls /\ csK # 0 /\ csK \in 1..csK
      BY <1>1, <1>2, <2>1, <2>2, <2>5 DEF Free
    <3> QED  BY <1>1, <2>1, <2>5, <3>1 DEF CallOK
  <2>7. WellFormed(r)'
    <3>1. csK \in 1..csK /\ r.k \in 1..r.k
      BY <1>1, <1>2, <2>2, <2>5
    <3> QED  BY <2>5, <3>1 DEF WellFormed, WorkShapes
  <2> DEFINE S == {s, ClientSlot}
  <2>8. /\ S \in SUBSET AllSlots /\ s \in S /\ S \subseteq {s, ClientSlot} /\ \A u \in S : Free(u)
        /\ \A u \in AllSlots \ S : call'[u] = call[u]
        /\ \A u \in S : call'[u].k = call[u].k + 1 /\ call'[u].waiting /\ CallOK(u)'
        /\ (r.csK > 0 => ClientSlot \in S /\ r.csK = call'[ClientSlot].k)
        /\ UNCHANGED <<workload, serverVars, replies>> /\ requests' = requests \cup {r}
    BY <1>1, <2>1, <2>3, <2>4, <2>5, <2>6
  <2> HIDE DEF csK, S
  <2> QED  BY <2>3, <2>4, <2>5, <2>7, <2>8, NewCalls
<1>5. ASSUME NEW s \in AllSlots, NEW r, call[s].waiting,
             call' = [call EXCEPT ![s].copies = @ + 1],
             requests' = requests \cup {r}, r \in Requests, WellFormed(r), Recent(r),
             r.slot \in Slots => \E q \in Live : SameCall(q, r),
             UNCHANGED <<serverVars, replies>>
      PROVE  IInv'
  <2>1. /\ call' \in [AllSlots -> Calls]
        /\ \A u \in AllSlots : /\ call'[u].k = call[u].k /\ call'[u].csK = call[u].csK
                               /\ call'[u].shape = call[u].shape
                               /\ call'[u].waiting = call[u].waiting
    <3>1. [call[s] EXCEPT !.copies = @ + 1] \in Calls
      BY <1>2 DEF Calls
    <3>2. call' = [call EXCEPT ![s] = [call[s] EXCEPT !.copies = @ + 1]]
      BY <1>5
    <3>3. ASSUME NEW u \in AllSlots
          PROVE  /\ call'[u].k = call[u].k /\ call'[u].csK = call[u].csK
                 /\ call'[u].shape = call[u].shape /\ call'[u].waiting = call[u].waiting
      <4>1. CASE u = s
        BY <1>1, <1>2, <3>2, <4>1 DEF Calls
      <4>2. CASE u # s
        BY <1>1, <3>2, <4>2
      <4> QED  BY <4>1, <4>2
    <3> QED  BY <1>1, <3>1, <3>2, <3>3
  <2>2. \A u \in AllSlots : InStep(u)'
    BY <1>2, <1>5, <2>1 DEF InStep, Accepted, serverVars
  <2>3. \A t \in Threads : Pending(thread[t]) => call'[thread[t].req.slot].waiting
    <3> SUFFICES ASSUME NEW t \in Threads, Pending(thread[t]) PROVE call'[thread[t].req.slot].waiting
      OBVIOUS
    <3>2. PendingOK(thread[t]) /\ thread[t].req.slot \in AllSlots
      BY PendingThread
    <3> QED  BY <2>1, <3>2 DEF PendingOK
  <2>4. requests' \subseteq Requests /\ requests' \ requests \subseteq {r}
    BY <1>5 DEF IInv, TypeOK
  <2> QED  BY <1>5, <2>1, <2>2, <2>3, <2>4, OldCalls
<1>6. ASSUME NEW u \in AllSlots, call[u].waiting
      PROVE  call[u].k \in 1..call[u].k /\ call[u].k + 2 <= call[u].k + SeqMod /\ call[u].k # 0
  BY <1>1, <1>2, <1>6 DEF CallOK
<1>7. ASSUME NEW s \in AllSlots, Retransmit(s)
      PROVE  IInv'
  <2>1. /\ call[s].waiting /\ (s = ClientSlot => call[s].shape = "session")
        /\ call' = [call EXCEPT ![s].copies = @ + 1]
        /\ requests' = requests \cup {Transmission(s, call[s], call'[s].copies)}
        /\ UNCHANGED <<serverVars, replies>>
    BY <1>7 DEF Retransmit
  <2>2. PICK r : r = Transmission(s, call[s], call'[s].copies)
    OBVIOUS
  <2>3. /\ r.slot = s /\ r.k = call[s].k /\ r.csK = call[s].csK /\ r.shape = call[s].shape
        /\ r \in Requests
    <3>1. call'[s].copies \in Nat
      BY <1>1, <1>2, <2>1 DEF Calls
    <3>2. call[s].shape \in AllShapes
      BY <1>2, <1>6, <2>1 DEF CallOK, AllShapes, WorkShapes, AllSlots
    <3> QED  BY <1>2, <2>2, <3>1, <3>2 DEF Transmission, Request, Requests, Calls
  <2>4. WellFormed(r)
    <3>1. CASE s = ClientSlot
      BY <1>1, <1>2, <1>6, <2>1, <2>3, <3>1 DEF WellFormed, CallOK, WorkShapes
    <3>2. CASE s # ClientSlot
      <4>1. s \in Slots
        BY <3>2 DEF AllSlots
      <4> QED  BY <1>2, <1>6, <2>1, <2>3, <4>1 DEF WellFormed, CallOK, WorkShapes
    <3> QED  BY <3>1, <3>2
  <2>5. s \in Slots => SameCall(Transmission(s, call[s], 1), r) /\ Transmission(s, call[s], 1) \in Live
    BY <2>1, <2>2 DEF Transmission, Request, SameCall, Live, Waiting
  <2>6. Recent(r)
    <3>1. CASE s = ClientSlot
      BY <1>2, <1>6, <2>1, <2>3, <3>1 DEF Recent, CallOK
    <3>2. CASE s # ClientSlot
      <4>1. s \in Slots
        BY <3>2 DEF AllSlots
      <4> QED  BY <2>5, <4>1, ToldAlike DEF IInv, RequestsOK
    <3> QED  BY <3>1, <3>2
  <2> QED  BY <1>5, <2>1, <2>2, <2>3, <2>4, <2>5, <2>6
<1>8. ASSUME RetransmitAlone
      PROVE  IInv'
  <2>1. /\ call[ClientSlot].waiting /\ call' = [call EXCEPT ![ClientSlot].copies = @ + 1]
        /\ requests' = requests \cup {Request("session", ClientSlot, call[ClientSlot].k,
                                              call[ClientSlot].k, call'[ClientSlot].copies)}
        /\ UNCHANGED <<serverVars, replies>>
    BY <1>8 DEF RetransmitAlone
  <2>2. PICK r : r = Request("session", ClientSlot, call[ClientSlot].k, call[ClientSlot].k,
                             call'[ClientSlot].copies)
    OBVIOUS
  <2>3. call'[ClientSlot].copies \in Nat
    BY <1>1, <1>2, <2>1 DEF Calls
  <2>4. /\ r.slot = ClientSlot /\ r.k = call[ClientSlot].k /\ r.csK = r.k /\ r.shape = "session"
        /\ r \in Requests
    BY <1>1, <1>2, <2>2, <2>3 DEF Request, Requests, AllShapes
  <2>5. WellFormed(r) /\ Recent(r)
    BY <1>1, <1>6, <2>1, <2>4 DEF WellFormed, Recent, WorkShapes
  <2> QED  BY <1>1, <1>5, <2>1, <2>2, <2>4, <2>5
<1>9. ASSUME NEW x \in replies, ReceiveReply(x)
      PROVE  IInv'
  <2> DEFINE Ends(u) == Concerns(x, u) /\ call[u].waiting /\ LastStatus(x) # "MISORDERED"
  <2>1. /\ replies' \subseteq replies /\ requests' = requests /\ UNCHANGED serverVars
        /\ call' = [u \in AllSlots |-> IF Ends(u)
                                       THEN [call[u] EXCEPT !.waiting = FALSE, !.answer = LastStatus(x)]
                                       ELSE call[u]]
    BY <1>9 DEF ReceiveReply
  <2>3. LastStatus(x) # "MISORDERED" => LastStatus(x) \in Outcomes \cup {"RETRY_UNCACHED_REP"}
    BY AnswerTells
  <2>4. /\ call' \in [AllSlots -> Calls]
        /\ \A u \in AllSlots : /\ call'[u].k = call[u].k /\ call'[u].csK = call[u].csK
                               /\ call'[u].shape = call[u].shape
                               /\ call'[u].waiting = (call[u].waiting /\ ~Ends(u))
    <3>1. ASSUME NEW u \in AllSlots
          PROVE  /\ call'[u] \in Calls /\ call'[u].k = call[u].k /\ call'[u].csK = call[u].csK
                 /\ call'[u].shape = call[u].shape
                 /\ call'[u].waiting = (call[u].waiting /\ ~Ends(u))
      <4>1. CASE Ends(u)
        <5>1. LastStatus(x) \in Statuses \cup {"none"}
          BY <2>3, <4>1 DEF Statuses
        <5>2. call'[u] = [call[u] EXCEPT !.waiting = FALSE, !.answer = LastStatus(x)]
          BY <2>1, <4>1
        <5> HIDE DEF Ends
        <5> QED  BY <1>2, <4>1, <5>1, <5>2 DEF Calls
      <4>2. CASE ~Ends(u)
        <5>1. call'[u] = call[u]
          BY <2>1, <4>2
        <5> HIDE DEF Ends
        <5> QED  BY <1>2, <4>2, <5>1 DEF Calls
      <4> QED  BY <4>1, <4>2
    <3> HIDE DEF Ends
    <3> QED  BY <2>1, <3>1
  <2>5. ASSUME NEW u \in AllSlots, Ends(u)
        PROVE  /\ Accepted(u) = call[u].k
               /\ call[u].shape \in WorkShapes => executed[<<u, call[u].k>>] # <<>>
               /\ call[u].shape = "inSession" => call[u].csK <= Accepted(ClientSlot)
    BY <2>5, CallEnds
  <2>6. \A u \in AllSlots : InStep(u)'
    <3> SUFFICES ASSUME NEW u \in AllSlots PROVE InStep(u)'
      OBVIOUS
    <3> HIDE DEF Ends
    <3>1. Accepted(u)' = Accepted(u) /\ Accepted(ClientSlot)' = Accepted(ClientSlot)
      BY <2>1 DEF Accepted, serverVars
    <3> QED  BY <1>2, <2>1, <2>4, <2>5, <3>1 DEF InStep, serverVars
  <2>7. \A t \in Threads : Pending(thread[t]) => call'[thread[t].req.slot].waiting
    <3> SUFFICES ASSUME NEW t \in Threads, Pending(thread[t]) PROVE call'[thread[t].req.slot].waiting
      OBVIOUS
    <3> DEFINE q == thread[t].req
    <3>1. q \in Known /\ q.slot \in AllSlots /\ PendingOK(thread[t])
      BY PendingThread
    <3>2. q.slot \in Slots /\ call[q.slot].waiting /\ call[q.slot].k = q.k /\ executed[<<q.slot, q.k>>] = <<>>
      BY <3>1 DEF PendingOK, SlotCache
    <3>3. call[q.slot].shape \in WorkShapes
      <4> DEFINE p == Transmission(q.slot, call[q.slot], 1)
      <4>1. p \in Known
        BY <3>2 DEF Known, Live, Waiting
      <4>2. p.slot = q.slot /\ p.k = q.k /\ p.shape = call[q.slot].shape
        BY <3>2 DEF Transmission, Request
      <4> HIDE DEF p
      <4>3. q.shape = p.shape
        BY <3>1, <3>2, <4>1, <4>2 DEF IInv, SameCompound
      <4> QED  BY <4>2, <4>3 DEF Pending
    <3> HIDE DEF Ends
    <3> QED  BY <2>4, <2>5, <3>1, <3>2, <3>3
  <2> HIDE DEF Ends
  <2> QED  BY <2>1, <2>4, <2>6, <2>7, OldCalls DEF IInv, TypeOK
<1>10. ASSUME Lose
       PROVE  IInv'
  <2>1. requests' \subseteq requests /\ UNCHANGED <<serverVars, replies, call>>
    BY <1>10 DEF Lose
  <2>2. \A u \in AllSlots : InStep(u)'
    BY <1>2, <2>1 DEF InStep, Accepted, serverVars
  <2>3. \A t \in Threads : Pending(thread[t]) => call'[thread[t].req.slot].waiting
    BY <2>1, PendingThread DEF PendingOK
  <2> QED  BY <1>1, <2>1, <2>2, <2>3, OldCalls DEF IInv, TypeOK
<1> QED  BY <1>3, <1>4, <1>7, <1>8, <1>9, <1>10

-----------------------------------------------------------------------------
(* The invariant                                                              *)
LEMMA Initially ==
  ASSUME Init
  PROVE  IInv
<1>1. /\ ClientSlot \in AllSlots /\ ClientSlot \notin Slots /\ MaxCalls \in Nat
      /\ SeqMod \in Nat /\ SeqMod > 1
  BY ReplayAssumption DEF AllSlots, Init, MaxCalls
<1>2. \A s \in AllSlots : /\ caches[s] = <<DefaultReplay(s)>> /\ Len(caches[s]) = 1
                          /\ Accepted(s) = 0 /\ call[s].k = 0 /\ ~call[s].waiting
                          /\ call[s].shape = "none"
  BY DEF Init, Accepted
<1>3. TypeOK
  <2>1. \A s \in AllSlots : DefaultReplay(s) \in Seq(Results)
    BY DEF DefaultReplay, Result, Results, Statuses
  <2>2. \A s \in AllSlots : <<DefaultReplay(s)>> \in Seq(Seq(Results))
    BY <2>1
  <2>3. <<>> \in Seq(Outcomes)
    OBVIOUS
  <2> HIDE DEF DefaultReplay
  <2> QED  BY <2>2, <2>3 DEF Init, TypeOK, Calls
<1>4. \A s \in AllSlots : CallOK(s) /\ InStep(s) /\ SlotOK(s)
  <2>1. 0 % SeqMod = 0
    BY <1>1
  <2>2. ASSUME NEW s \in AllSlots
        PROVE  CallOK(s) /\ InStep(s)
    BY <1>1, <1>2 DEF CallOK, InStep, WorkShapes
  <2>3. ASSUME NEW s \in AllSlots
        PROVE  SlotOK(s)
    BY <1>2, <2>1 DEF SlotOK, Init
  <2> QED  BY <2>2, <2>3
<1>5. ExecutedOK
  <2>1. Len(<<>>) <= 1
    OBVIOUS
  <2>2. \A s \in AllSlots, k \in 1..MaxCalls : executed[<<s, k>>] = <<>> /\ ~(k <= Accepted(s))
    BY <1>1, <1>2 DEF Init
  <2> QED  BY <1>1, <2>1, <2>2 DEF ExecutedOK, AllSlots
<1>6. Known = {}
  BY <1>2 DEF Known, Live, InFlight, Waiting, Init, AllSlots
<1>7. RequestsOK /\ SameCompound /\ CachesOK /\ RepliesOK
  BY <1>1, <1>2, <1>6 DEF RequestsOK, SameCompound, CachesOK, Hold, RepliesOK, Known
<1>8. ThreadsOK
  BY DEF Init, ThreadsOK, Pending, Idle
<1> QED  BY <1>3, <1>4, <1>5, <1>7, <1>8 DEF IInv

LEMMA Inductive ==
  ASSUME IInv, [Next]_vars
  PROVE  IInv'
<1>1. CASE UNCHANGED vars
  <2> USE <1>1 DEF vars
  <2>1. Live' = Live /\ Known' = Known /\ MaxCalls' = MaxCalls
    BY DEF Known, Live, InFlight, Waiting, MaxCalls
  <2>2. \A s : Accepted(s)' = Accepted(s)
    BY DEF Accepted
  <2>3. \A results, r : Told(results, r)' <=> Told(results, r)
    BY <2>2 DEF Told, Refused, Answered, WorkedBy, CreatedBy
  <2>4. TypeOK' /\ \A s \in AllSlots : CallOK(s)' /\ InStep(s)' /\ SlotOK(s)'
    BY <2>1, <2>2 DEF IInv, TypeOK, CallOK, InStep, SlotOK
  <2>5. ExecutedOK'
    BY <2>1, <2>2 DEF IInv, ExecutedOK
  <2>6. RequestsOK' /\ SameCompound'
    BY <2>1 DEF IInv, RequestsOK, SameCompound, WellFormed, Recent
  <2>7. CachesOK'
    <3>1. Hold(caches)' <=> Hold(caches)
      BY ZenonT(40), <2>1, <2>2 DEF Hold, Told, Refused, Answered, WorkedBy, CreatedBy
    <3> QED  BY <3>1 DEF IInv, CachesOK
  <2>8. \A e : EnvOK(e)' <=> EnvOK(e)
    BY <2>2, <2>3 DEF EnvOK, OpsOK, Pending, PendingOK, Complete, SlotCache, ClientCache, Refused
  <2>9. ThreadsOK'
    BY <2>8 DEF IInv, ThreadsOK, Pending
  <2>10. RepliesOK'
    BY <2>3 DEF IInv, RepliesOK
  <2> QED  BY <2>4, <2>5, <2>6, <2>7, <2>9, <2>10 DEF IInv
<1>2. CASE Next
  <2>1. ASSUME NEW t \in Threads, Dispatch(t) \/ ServerStep(t) \/ Reset(t)
        PROVE  IInv'
    BY <1>2, <2>1, CheckSeqidStep, Working, FillStep, QuietSteps DEF Next, ServerStep
  <2> QED  BY <1>2, <2>1, ClientSteps DEF Next
<1> QED  BY <1>1, <1>2

(* What holds of the replay cache whatever the number of slots, threads,      *)
(* transmissions and resets: the invariant above.                             *)
THEOREM Invariance == Spec => []IInv
<1>1. Init => IInv
  BY Initially
<1>2. IInv /\ [Next]_vars => IInv'
  BY Inductive
<1> QED  BY <1>1, <1>2, PTL DEF Spec

(* No operation is carried out twice, however its request is sent again and   *)
(* however the threads that received it interleave.                           *)
THEOREM ExactlyOneExecution == Spec => []AtMostOnce
<1>1. IInv => AtMostOnce
  <2> SUFFICES ASSUME IInv, NEW c \in DOMAIN executed PROVE Len(executed[c]) <= 1
    BY DEF AtMostOnce
  <2>1. PICK s \in AllSlots, k \in 1..MaxCalls : c = <<s, k>>
    BY DEF IInv, TypeOK
  <2>2. CASE s \in Slots
    BY <2>1, <2>2 DEF IInv, ExecutedOK
  <2>3. CASE s = ClientSlot
    <3>1. Len(<<"OK">>) <= 1 /\ Len(<<>>) <= 1
      OBVIOUS
    <3>2. executed[c] = <<"OK">> \/ executed[c] = <<>>
      BY <2>1, <2>3 DEF IInv, ExecutedOK
    <3> QED  BY <3>1, <3>2
  <2> QED  BY <2>2, <2>3 DEF AllSlots
<1> QED  BY <1>1, Invariance, PTL

(* A reply carries the results of its own request, and says of its operation  *)
(* what came of the one execution: never those of another call.               *)
THEOREM OwnAnswers == Spec => []AnswersItsRequest
<1>1. IInv => AnswersItsRequest
  <2> SUFFICES ASSUME IInv, NEW r \in replies, NEW i \in 1..Len(r.results), NEW x, x = r.results[i]
               PROVE  /\ r.req.csK = 0 =>
                           /\ i <= Len(Ops(r.req)) /\ x.op = Ops(r.req)[i]
                           /\ <<x.slot, x.k>> = CallOf(r.req, x.op)
                      /\ x.op = "CREATE_SESSION" => <<x.slot, x.k>> = <<ClientSlot, r.req.csK>>
                      /\ x.op = "WORK" =>
                           \/ x.status = "RETRY_UNCACHED_REP" /\ ~Caching(r.req)
                           \/ executed[<<x.slot, x.k>>] = <<x.status>>
    BY DEF AnswersItsRequest
  <2> DEFINE q == r.req
  <2>1. q \in Requests /\ WellFormed(q) /\ Told(r.results, q)
    BY KnownOK DEF Known, IInv, RepliesOK
  <2>2. \A y, z : /\ r.results = <<y>> => i = 1 /\ x = y
                  /\ r.results = <<y, z>> => (i = 1 /\ x = y) \/ (i = 2 /\ x = z)
    <3>1. \A y, z : Len(<<y>>) = 1 /\ Len(<<y, z>>) = 2
      OBVIOUS
    <3>2. \A j \in 1..2 : j = 1 \/ j = 2
      OBVIOUS
    <3>3. \A j \in 1..1 : j = 1
      OBVIOUS
    <3>4. ASSUME NEW y, NEW res, res = <<y>>, NEW j \in 1..Len(res)
          PROVE  j = 1 /\ res[j] = y
      BY <3>1, <3>3, <3>4
    <3>5. ASSUME NEW y, NEW z, NEW res, res = <<y, z>>, NEW j \in 1..Len(res)
          PROVE  (j = 1 /\ res[j] = y) \/ (j = 2 /\ res[j] = z)
      BY <3>1, <3>2, <3>5
    <3> QED  BY <3>4, <3>5
  <2>3. /\ InSequence(q).op = "SEQUENCE" /\ InSequence(q).slot = q.slot /\ InSequence(q).k = q.k
        /\ Created(q.csK).op = "CREATE_SESSION" /\ Created(q.csK).slot = ClientSlot
        /\ Created(q.csK).k = q.csK
        /\ \A y \in {InSequence(q), Created(q.csK)} :
             Refusal(y).op = y.op /\ Refusal(y).slot = y.slot /\ Refusal(y).k = y.k
        /\ \A status : /\ Worked(q, status).op = "WORK" /\ Worked(q, status).status = status
                       /\ Worked(q, status).slot = q.slot /\ Worked(q, status).k = q.k
    BY DEF InSequence, Created, Worked, Refusal, Result
  <2>4. q.shape \in AllShapes
    BY <2>1 DEF Requests
  <2>5. CASE q.shape \in WorkShapes
    <3>1. q.csK = 0 /\ Ops(q) = <<"SEQUENCE", "WORK">> /\ CallOf(q, "SEQUENCE") = <<q.slot, q.k>>
          /\ CallOf(q, "WORK") = <<q.slot, q.k>>
      BY <2>1, <2>5 DEF WellFormed, WorkShapes, Ops, CallOf
    <3>2. Len(Ops(q)) = 2 /\ Ops(q)[1] = "SEQUENCE" /\ Ops(q)[2] = "WORK" /\ 1 <= 2 /\ 2 <= 2
      BY <3>1
    <3>3. CASE Refused(r.results, q)
      <4>1. r.results = <<Refusal(InSequence(q))>>
        BY <2>5, <3>3 DEF Refused, WorkShapes
      <4> QED  BY <2>2, <2>3, <3>1, <3>2, <4>1
    <3>4. CASE Answered(r.results, q)
      <4>1. PICK status \in Outcomes :
              /\ executed[<<q.slot, q.k>>] = <<status>>
              /\ \/ r.results = <<InSequence(q), Worked(q, status)>>
                 \/ /\ q.shape = "workUncached"
                    /\ r.results = <<InSequence(q), Worked(q, "RETRY_UNCACHED_REP")>>
        BY <2>5, <3>4 DEF Answered, WorkedBy
      <4>2. CASE x = InSequence(q) /\ i = 1
        BY <2>3, <3>1, <3>2, <4>2
      <4>3. CASE x = Worked(q, status) /\ i = 2
        <5>1. x.op = "WORK" /\ x.slot = q.slot /\ x.k = q.k /\ x.status = status
          BY <2>3, <4>3
        <5> QED  BY <3>1, <3>2, <4>1, <4>3, <5>1
      <4>4. CASE x = Worked(q, "RETRY_UNCACHED_REP") /\ i = 2 /\ q.shape = "workUncached"
        BY <2>3, <3>1, <3>2, <4>4 DEF Caching
      <4> QED  BY ZenonT(40), <2>2, <4>1, <4>2, <4>3, <4>4
    <3> QED  BY <2>1, <3>3, <3>4 DEF Told
  <2>6. CASE q.shape \notin WorkShapes
    <3>1. q.csK # 0
      BY <2>1, <2>4, <2>6 DEF WellFormed, Requests, WorkShapes, AllShapes
    <3>2. CASE Refused(r.results, q)
      <4>1. x \in {Refusal(InSequence(q)), Refusal(Created(q.csK)), InSequence(q)}
        BY <2>2, <3>2 DEF Refused
      <4> QED  BY <2>3, <3>1, <4>1
    <3>3. CASE Answered(r.results, q)
      <4>1. x = Created(q.csK) \/ x.op = "SEQUENCE"
        <5>1. \/ r.results = <<Created(q.csK)>>
              \/ \E s \in Slots, k \in Nat :
                   r.results = <<Result("SEQUENCE", s, k, "OK"), Created(q.csK)>>
          BY <2>6, <3>3 DEF Answered, CreatedBy
        <5>2. \A s, k : Result("SEQUENCE", s, k, "OK").op = "SEQUENCE"
          BY DEF Result
        <5> QED  BY <2>2, <5>1, <5>2
      <4> QED  BY <2>3, <3>1, <4>1
    <3> QED  BY <2>1, <3>2, <3>3 DEF Told
  <2> QED  BY <2>5, <2>6
<1> QED  BY <1>1, Invariance, PTL

-----------------------------------------------------------------------------
(* The refinement                                                             *)

\* Where the execution of the call of a slot is recorded
Record(s) == IF call[s].shape = "inSession" THEN <<ClientSlot, call[s].csK>> ELSE <<s, call[s].k>>

LEMMA Recorded ==
  ASSUME IInv, NEW s \in AllSlots
  PROVE  /\ Executions(s) = executed[Record(s)] /\ call[s] \in Calls
         /\ call[s].k # 0 => Record(s) \in AllSlots \X (1..MaxCalls)
         /\ call[s].waiting => call[s].k # 0
         /\ \A u \in Slots : u \in AllSlots /\ u # ClientSlot /\ Record(s)[1] = u => s = u
<1>1. /\ ClientSlot \in AllSlots /\ ClientSlot \notin Slots /\ MaxCalls \in Nat
      /\ Slots \subseteq AllSlots
  BY ReplayAssumption DEF AllSlots, IInv, TypeOK, MaxCalls
<1>2. \A u \in AllSlots : CallOK(u) /\ call[u] \in Calls /\ call[u].k \in Nat /\ call[u].k <= MaxCalls
  BY DEF IInv, TypeOK, Calls, CallOK
<1>3. Executions(s) = executed[Record(s)]
  BY DEF Executions, Record
<1>4. ASSUME call[s].k # 0
      PROVE  Record(s) \in AllSlots \X (1..MaxCalls)
  <2>1. call[s].k \in 1..MaxCalls
    BY <1>1, <1>2, <1>4
  <2>2. call[s].shape = "inSession" => call[s].csK \in 1..MaxCalls
    <3>1. CASE s = ClientSlot
      BY <1>2, <1>4, <2>1, <3>1 DEF CallOK
    <3>2. CASE s # ClientSlot
      <4>1. call[s].shape = "inSession" => call[s].csK \in 1..call[ClientSlot].k
        BY <1>2, <1>4, <3>2 DEF CallOK, AllSlots, WorkShapes
      <4> QED  BY <1>1, <1>2, <4>1
    <3> QED  BY <3>1, <3>2
  <2> QED  BY <1>1, <2>1, <2>2 DEF Record
<1> QED  BY <1>1, <1>2, <1>3, <1>4 DEF CallOK, Record

(* The client's view, slot by slot, before and after a step                   *)
Seen(s) ==
  /\ phase[s] = IF ~call[s].waiting THEN "idle"
                ELSE IF Executions(s) = <<>> THEN "asked" ELSE "done"
  /\ calls[s] = call[s].k
  /\ outcome[s] = IF call[s].k = 0 \/ Executions(s) = <<>> THEN "none" ELSE Executions(s)[1]
  /\ answer[s] = call[s].answer

LEMMA View ==
  ASSUME NEW s \in AllSlots
  PROVE  Seen(s) /\ Seen(s)'
BY DEF Seen, phase, calls, outcome, answer

LEMMA ViewTypes ==
  /\ phase = [s \in AllSlots |-> phase[s]] /\ phase' = [s \in AllSlots |-> phase'[s]]
  /\ calls = [s \in AllSlots |-> calls[s]] /\ calls' = [s \in AllSlots |-> calls'[s]]
  /\ outcome = [s \in AllSlots |-> outcome[s]] /\ outcome' = [s \in AllSlots |-> outcome'[s]]
  /\ answer = [s \in AllSlots |-> answer[s]] /\ answer' = [s \in AllSlots |-> answer'[s]]
BY DEF phase, calls, outcome, answer

Alike(u) ==
  /\ call'[u].k = call[u].k /\ call'[u].waiting = call[u].waiting
  /\ call'[u].answer = call[u].answer /\ Executions(u)' = Executions(u)

LEMMA SeenAlike ==
  ASSUME NEW u \in AllSlots, Alike(u)
  PROVE  phase'[u] = phase[u] /\ calls'[u] = calls[u] /\ outcome'[u] = outcome[u] /\ answer'[u] = answer[u]
<1>1. Seen(u) /\ Seen(u)'
  BY View
<1> QED  BY <1>1 DEF Seen, Alike

LEMMA Asked ==
  ASSUME NEW S \in SUBSET AllSlots, \A u \in AllSlots \ S : Alike(u),
         \A u \in S : /\ ~call[u].waiting /\ call'[u].waiting /\ Executions(u)' = <<>>
                      /\ call'[u].k = call[u].k + 1 /\ call'[u].answer = "none"
  PROVE  Abstract!Ask(S)
<1>1. \A u \in AllSlots : Seen(u) /\ Seen(u)'
  BY View
<1>2. \A u \in S : /\ phase[u] = "idle" /\ phase'[u] = "asked" /\ calls'[u] = calls[u] + 1
                   /\ outcome'[u] = "none" /\ answer'[u] = "none"
  BY <1>1 DEF Seen
<1>3. \A u \in AllSlots \ S : /\ phase'[u] = phase[u] /\ calls'[u] = calls[u]
                              /\ outcome'[u] = outcome[u] /\ answer'[u] = answer[u]
  BY SeenAlike
<1>4. phase' = [s \in AllSlots |-> IF s \in S THEN "asked" ELSE phase[s]]
  BY <1>2, <1>3, ViewTypes
<1>5. calls' = [s \in AllSlots |-> IF s \in S THEN calls[s] + 1 ELSE calls[s]]
  BY <1>2, <1>3, ViewTypes
<1>6. outcome' = [s \in AllSlots |-> IF s \in S THEN "none" ELSE outcome[s]]
  BY <1>2, <1>3, ViewTypes
<1>7. answer' = [s \in AllSlots |-> IF s \in S THEN "none" ELSE answer[s]]
  BY <1>2, <1>3, ViewTypes
<1> QED  BY <1>2, <1>4, <1>5, <1>6, <1>7 DEF Abstract!Ask

LEMMA Executed ==
  ASSUME NEW S \in SUBSET AllSlots, \A u \in AllSlots \ S : Alike(u),
         \A u \in S : /\ call[u].waiting /\ call'[u].waiting /\ call[u].k # 0
                      /\ call'[u].k = call[u].k /\ call'[u].answer = call[u].answer
                      /\ Executions(u) = <<>> /\ \E o \in Outcomes : Executions(u)' = <<o>>
  PROVE  Abstract!Execute(S)
<1>1. \A u \in AllSlots : Seen(u) /\ Seen(u)'
  BY View
<1>2. \A u \in S : /\ phase[u] = "asked" /\ phase'[u] = "done" /\ calls'[u] = calls[u]
                   /\ outcome'[u] \in Outcomes /\ answer'[u] = answer[u]
  <2> SUFFICES ASSUME NEW u \in S
               PROVE  /\ phase[u] = "asked" /\ phase'[u] = "done" /\ calls'[u] = calls[u]
                      /\ outcome'[u] \in Outcomes /\ answer'[u] = answer[u]
    OBVIOUS
  <2>1. PICK o \in Outcomes : Executions(u)' = <<o>>
    OBVIOUS
  <2>2. Executions(u)' # <<>> /\ Executions(u)'[1] = o
    BY <2>1
  <2> QED  BY <1>1, <2>2 DEF Seen
<1>3. \A u \in AllSlots \ S : /\ phase'[u] = phase[u] /\ calls'[u] = calls[u]
                              /\ outcome'[u] = outcome[u] /\ answer'[u] = answer[u]
  BY SeenAlike
<1>4. [u \in S |-> outcome'[u]] \in [S -> Abstract!Outcomes]
  BY <1>2 DEF Outcomes, Abstract!Outcomes
<1>5. outcome' = [u \in AllSlots |-> IF u \in S THEN [v \in S |-> outcome'[v]][u] ELSE outcome[u]]
  BY <1>3, ViewTypes
<1>6. phase' = [s \in AllSlots |-> IF s \in S THEN "done" ELSE phase[s]]
  BY <1>2, <1>3, ViewTypes
<1>7. calls' = calls /\ answer' = answer
  BY ZenonT(40), <1>2, <1>3, ViewTypes
<1> QED  BY <1>2, <1>4, <1>5, <1>6, <1>7 DEF Abstract!Execute

LEMMA AnsweredTo ==
  ASSUME NEW S \in SUBSET AllSlots, \A u \in AllSlots \ S : Alike(u),
         \A u \in S : /\ call[u].waiting /\ ~call'[u].waiting /\ call[u].k # 0
                      /\ call'[u].k = call[u].k
                      /\ Executions(u)' = Executions(u)
                      /\ \E o \in Outcomes : /\ Executions(u) = <<o>>
                                             /\ call'[u].answer \in {o, "RETRY_UNCACHED_REP"}
  PROVE  Abstract!Answer(S)
<1>1. \A u \in AllSlots : Seen(u) /\ Seen(u)'
  BY View
<1>2. \A u \in S : /\ phase[u] = "done" /\ phase'[u] = "idle" /\ calls'[u] = calls[u]
                   /\ outcome'[u] = outcome[u] /\ outcome[u] \in Outcomes
                   /\ answer'[u] \in {outcome[u], "RETRY_UNCACHED_REP"}
  <2> SUFFICES ASSUME NEW u \in S
               PROVE  /\ phase[u] = "done" /\ phase'[u] = "idle" /\ calls'[u] = calls[u]
                      /\ outcome'[u] = outcome[u] /\ outcome[u] \in Outcomes
                      /\ answer'[u] \in {outcome[u], "RETRY_UNCACHED_REP"}
    OBVIOUS
  <2>1. PICK o \in Outcomes : /\ Executions(u) = <<o>>
                              /\ call'[u].answer \in {o, "RETRY_UNCACHED_REP"}
    OBVIOUS
  <2>2. Executions(u) # <<>> /\ Executions(u)[1] = o
    BY <2>1
  <2> QED  BY <1>1, <2>1, <2>2 DEF Seen
<1>3. \A u \in AllSlots \ S : /\ phase'[u] = phase[u] /\ calls'[u] = calls[u]
                              /\ outcome'[u] = outcome[u] /\ answer'[u] = answer[u]
  BY SeenAlike
<1> DEFINE a == [u \in S |-> answer'[u]]
<1>4. /\ a \in [S -> Abstract!Outcomes \cup {"RETRY_UNCACHED_REP"}]
      /\ \A u \in S : a[u] \in {outcome[u], "RETRY_UNCACHED_REP"}
  BY <1>2 DEF Outcomes, Abstract!Outcomes
<1>5. answer' = [u \in AllSlots |-> IF u \in S THEN a[u] ELSE answer[u]]
  BY <1>3, ViewTypes
<1> HIDE DEF a
<1>6. phase' = [s \in AllSlots |-> IF s \in S THEN "idle" ELSE phase[s]]
  BY <1>2, <1>3, ViewTypes
<1>7. calls' = calls /\ outcome' = outcome
  <2>1. \A u \in AllSlots : calls'[u] = calls[u] /\ outcome'[u] = outcome[u]
    BY <1>2, <1>3
  <2> QED  BY <2>1, ViewTypes
<1> QED  BY <1>2, <1>4, <1>5, <1>6, <1>7 DEF Abstract!Answer

LEMMA Stutters ==
  ASSUME \A u \in AllSlots : Alike(u)
  PROVE  UNCHANGED Abstract!vars
BY SeenAlike, ViewTypes DEF Abstract!vars

(* A step of the client is a call, the end of one, or nothing to the slots.   *)
LEMMA ClientImplements ==
  ASSUME IInv, UNCHANGED workload,
         \/ \E s \in AllSlots : \E shape \in Shapes : Call(s, shape)
         \/ \E s \in Slots : CallInSession(s)
         \/ \E s \in AllSlots : Retransmit(s)
         \/ RetransmitAlone
         \/ \E r \in replies : ReceiveReply(r)
         \/ Lose
  PROVE  [Abstract!Next]_(Abstract!vars)
<1>1. /\ ClientSlot \in AllSlots /\ ClientSlot \notin Slots /\ Slots \subseteq AllSlots
      /\ MaxCalls \in Nat /\ call \in [AllSlots -> Calls] /\ UNCHANGED executed
  <2>1. UNCHANGED executed
    BY DEF Call, CallInSession, Retransmit, RetransmitAlone, ReceiveReply, Lose, serverVars
  <2> QED  BY <2>1, ReplayAssumption DEF AllSlots, IInv, TypeOK, MaxCalls
<1>2. ASSUME NEW u \in AllSlots
      PROVE  /\ CallOK(u) /\ InStep(u) /\ call[u] \in Calls /\ call[u].k \in Nat
             /\ Accepted(u) \in {call[u].k, call[u].k - 1}
             /\ ~call[u].waiting => Accepted(u) = call[u].k
             /\ call[u].waiting => call[u].k \in 1..MaxCalls
  <2>1. CallOK(u) /\ InStep(u) /\ call[u] \in Calls /\ call[u].k \in Nat
    BY DEF IInv, TypeOK, Calls
  <2> QED  BY <1>1, <2>1 DEF CallOK, InStep
<1>3. ASSUME NEW u \in AllSlots, Free(u)
      PROVE  ~call[u].waiting /\ call[u].k + 1 \in 1..MaxCalls /\ executed[<<u, call[u].k + 1>>] = <<>>
  <2>1. ~call[u].waiting /\ call[u].k < MaxCalls
    BY <1>3 DEF Free
  <2>2. call[u].k + 1 \in 1..MaxCalls /\ ~(call[u].k + 1 <= Accepted(u))
    BY <1>1, <1>2, <2>1
  <2> QED  BY <2>1, <2>2 DEF IInv, ExecutedOK, AllSlots
<1>4. ASSUME NEW u \in AllSlots, call'[u] = call[u]
      PROVE  Alike(u)
  BY <1>1, <1>4 DEF Alike, Executions
<1>5. ASSUME NEW s \in AllSlots, NEW shape \in Shapes, Call(s, shape)
      PROVE  \E S \in SUBSET AllSlots : Abstract!Ask(S)
  <2>1. PICK csK : call' = [call EXCEPT ![s] = Begin(s, csK, shape)]
    BY <1>5 DEF Call
  <2>2. Free(s) /\ shape # "inSession"
    BY <1>5 DEF Call
  <2>3. call'[s] = Begin(s, csK, shape) /\ \A u \in AllSlots \ {s} : call'[u] = call[u]
    BY <1>1, <2>1
  <2>4. /\ call'[s].k = call[s].k + 1 /\ call'[s].waiting /\ call'[s].answer = "none"
        /\ call'[s].shape # "inSession"
    BY <2>2, <2>3 DEF Begin
  <2>5. Executions(s)' = <<>>
    BY <1>1, <1>3, <2>2, <2>4 DEF Executions
  <2> DEFINE S == {s}
  <2>6. /\ S \in SUBSET AllSlots /\ \A u \in AllSlots \ S : Alike(u)
        /\ \A u \in S : /\ ~call[u].waiting /\ call'[u].waiting /\ Executions(u)' = <<>>
                        /\ call'[u].k = call[u].k + 1 /\ call'[u].answer = "none"
    BY <1>3, <1>4, <2>2, <2>3, <2>4, <2>5
  <2> HIDE DEF S
  <2> QED  BY <2>6, Asked
<1>6. ASSUME NEW s \in Slots, CallInSession(s)
      PROVE  \E S \in SUBSET AllSlots : Abstract!Ask(S)
  <2> DEFINE csK == call[ClientSlot].k + 1
  <2>1. /\ s # ClientSlot /\ s \in AllSlots /\ Free(s) /\ Free(ClientSlot)
        /\ call' = [call EXCEPT ![s] = Begin(s, csK, "inSession"),
                                ![ClientSlot] = Begin(ClientSlot, csK, "inSession")]
    BY <1>1, <1>6 DEF CallInSession
  <2>2. /\ call'[s] = Begin(s, csK, "inSession") /\ call'[ClientSlot] = Begin(ClientSlot, csK, "inSession")
        /\ \A u \in AllSlots \ {s, ClientSlot} : call'[u] = call[u]
    BY <1>1, <2>1
  <2> DEFINE S == {s, ClientSlot}
  <2>3. ASSUME NEW u \in S
        PROVE  /\ call'[u].k = call[u].k + 1 /\ call'[u].waiting /\ call'[u].answer = "none"
               /\ call'[u].shape = "inSession" /\ call'[u].csK = csK
    BY <2>2 DEF Begin
  <2>4. ASSUME NEW u \in S
        PROVE  Executions(u)' = <<>>
    <3>1. executed[<<ClientSlot, csK>>] = <<>>
      BY <1>1, <1>3, <2>1
    <3> QED  BY <1>1, <2>3, <3>1 DEF Executions
  <2>5. /\ S \in SUBSET AllSlots /\ \A u \in AllSlots \ S : Alike(u)
        /\ \A u \in S : /\ ~call[u].waiting /\ call'[u].waiting /\ Executions(u)' = <<>>
                        /\ call'[u].k = call[u].k + 1 /\ call'[u].answer = "none"
    BY <1>1, <1>3, <1>4, <2>1, <2>2, <2>3, <2>4
  <2> HIDE DEF S
  <2> QED  BY <2>5, Asked
<1>7. ASSUME NEW s \in AllSlots, call' = [call EXCEPT ![s].copies = @ + 1]
      PROVE  UNCHANGED Abstract!vars
  <2>1. call' = [call EXCEPT ![s] = [call[s] EXCEPT !.copies = @ + 1]]
    BY <1>7
  <2>2. ASSUME NEW u \in AllSlots
        PROVE  Alike(u)
    <3>1. CASE u = s
      <4>1. call'[s] = [call[s] EXCEPT !.copies = @ + 1]
        BY <1>1, <2>1
      <4>2. /\ call'[s].k = call[s].k /\ call'[s].csK = call[s].csK /\ call'[s].shape = call[s].shape
            /\ call'[s].waiting = call[s].waiting /\ call'[s].answer = call[s].answer
        BY <1>2, <4>1 DEF Calls
      <4> QED  BY <1>1, <3>1, <4>2 DEF Alike, Executions
    <3>2. CASE u # s
      BY <1>1, <1>4, <2>1, <3>2
    <3> QED  BY <3>1, <3>2
  <2> QED  BY <2>2, Stutters
<1>8. ASSUME NEW x \in replies, ReceiveReply(x)
      PROVE  \E S \in SUBSET AllSlots : Abstract!Answer(S)
  <2> DEFINE Ends(u) == Concerns(x, u) /\ call[u].waiting /\ LastStatus(x) # "MISORDERED"
             S == {u \in AllSlots : Ends(u)}
  <2>1. call' = [u \in AllSlots |-> IF Ends(u)
                                    THEN [call[u] EXCEPT !.waiting = FALSE, !.answer = LastStatus(x)]
                                    ELSE call[u]]
    BY <1>8 DEF ReceiveReply
  <2>2. \A u \in AllSlots \ S : Alike(u)
    BY <1>4, <2>1
  <2>3. ASSUME NEW u \in AllSlots, Ends(u)
        PROVE  /\ call[u].waiting /\ ~call'[u].waiting /\ call[u].k # 0
               /\ call'[u].k = call[u].k /\ call'[u].answer = LastStatus(x)
               /\ Executions(u)' = Executions(u)
    <3>1. call'[u] = [call[u] EXCEPT !.waiting = FALSE, !.answer = LastStatus(x)]
      BY <2>1, <2>3
    <3>2. /\ call'[u].k = call[u].k /\ call'[u].csK = call[u].csK /\ call'[u].shape = call[u].shape
          /\ ~call'[u].waiting /\ call'[u].answer = LastStatus(x)
      BY <1>2, <3>1 DEF Calls
    <3> QED  BY <1>1, <1>2, <2>3, <3>2 DEF Executions
  <2>4. ASSUME NEW u \in AllSlots, Ends(u)
        PROVE  \E o \in Outcomes : Executions(u) = <<o>> /\ LastStatus(x) \in {o, "RETRY_UNCACHED_REP"}
    <3>1. /\ Accepted(u) = call[u].k /\ call[u].k \in 1..MaxCalls
          /\ call[u].shape = "inSession" => call[u].csK <= Accepted(ClientSlot)
          /\ x.req.shape \in WorkShapes <=> call[u].shape \in WorkShapes
          /\ x.req.shape \in WorkShapes => x.req.slot = u /\ x.req.k = call[u].k
      BY <1>2, <2>4, CallEnds
    <3>2. CASE call[u].shape \in WorkShapes
      <4>1. PICK o \in Outcomes : /\ executed[<<u, call[u].k>>] = <<o>>
                                  /\ LastStatus(x) \in {o, "RETRY_UNCACHED_REP"}
        BY <2>4, <3>1, <3>2, AnswerTells
      <4> QED  BY <3>2, <4>1 DEF Executions, WorkShapes
    <3>3. CASE call[u].shape \notin WorkShapes
      <4>1. LastStatus(x) = "OK"
        BY <2>4, <3>1, <3>3, AnswerTells
      <4>2. Executions(u) = <<"OK">>
        <5>1. CASE call[u].shape = "inSession"
          <6>1. call[u].csK \in 1..MaxCalls
            <7>1. call[u].k # 0
              BY <2>4, <3>1
            <7>2. Record(u) \in AllSlots \X (1..MaxCalls) /\ Record(u) = <<ClientSlot, call[u].csK>>
              BY <5>1, <7>1, Recorded DEF Record
            <7> QED  BY <7>2
          <6> QED  BY <3>1, <5>1, <6>1 DEF IInv, ExecutedOK, Executions
        <5>2. CASE call[u].shape # "inSession"
          <6>1. u = ClientSlot
            BY <1>2, <3>1, <3>3, <5>2 DEF CallOK, AllSlots
          <6> QED  BY <1>2, <3>1, <5>2, <6>1 DEF IInv, ExecutedOK, Executions
        <5> QED  BY <5>1, <5>2
      <4> QED  BY <4>1, <4>2 DEF Outcomes
    <3> QED  BY <3>2, <3>3
  <2>5. S \in SUBSET AllSlots /\ \A u \in S : u \in AllSlots /\ Ends(u)
    OBVIOUS
  <2> HIDE DEF S, Ends
  <2>6. \A u \in S : /\ call[u].waiting /\ ~call'[u].waiting /\ call[u].k # 0
                     /\ call'[u].k = call[u].k
                     /\ Executions(u)' = Executions(u)
                     /\ \E o \in Outcomes : /\ Executions(u) = <<o>>
                                            /\ call'[u].answer \in {o, "RETRY_UNCACHED_REP"}
    BY <2>3, <2>4, <2>5
  <2> QED  BY <2>2, <2>5, <2>6, AnsweredTo
<1>9. ASSUME NEW s \in AllSlots, Retransmit(s)
      PROVE  UNCHANGED Abstract!vars
  BY <1>7, <1>9 DEF Retransmit
<1>10. ASSUME RetransmitAlone
       PROVE  UNCHANGED Abstract!vars
  BY <1>1, <1>7, <1>10 DEF RetransmitAlone
<1>11. ASSUME Lose
       PROVE  UNCHANGED Abstract!vars
  BY <1>4, <1>11, Stutters DEF Lose
<1> QED  BY <1>5, <1>6, <1>8, <1>9, <1>10, <1>11 DEF Abstract!Next

(* A step of a thread carries out the call of a slot, or of several where a   *)
(* CREATE_SESSION came inside a session; or it is nothing to the slots.       *)
LEMMA ServerImplements ==
  ASSUME IInv, UNCHANGED workload, NEW t \in Threads, Dispatch(t) \/ ServerStep(t) \/ Reset(t)
  PROVE  [Abstract!Next]_(Abstract!vars)
<1>1. /\ ClientSlot \in AllSlots /\ ClientSlot \notin Slots /\ Slots \subseteq AllSlots
      /\ MaxCalls \in Nat /\ UNCHANGED call
      /\ executed \in [AllSlots \X (1..MaxCalls) -> Seq(Outcomes)]
  <2>1. UNCHANGED call
    BY DEF Dispatch, ServerStep, CheckSeqid, Work, Finish, Fill, WaitForCache, Send, Reset
  <2> QED  BY <2>1, ReplayAssumption DEF AllSlots, IInv, TypeOK, MaxCalls
<1>2. ASSUME NEW u \in AllSlots
      PROVE  /\ CallOK(u) /\ InStep(u) /\ call[u] \in Calls /\ call[u].k \in Nat
             /\ Executions(u) = executed[Record(u)] /\ Executions(u)' = executed'[Record(u)]
  <2>1. CallOK(u) /\ InStep(u) /\ call[u] \in Calls /\ call[u].k \in Nat
    BY DEF IInv, TypeOK, Calls
  <2> QED  BY <1>1, <2>1 DEF Executions, Record
<1>3. ASSUME UNCHANGED executed
      PROVE  UNCHANGED Abstract!vars
  BY <1>1, <1>2, <1>3, Stutters DEF Alike
<1>4. ASSUME NEW c \in AllSlots \X (1..MaxCalls), NEW status \in Outcomes, executed[c] = <<>>,
             executed' = [executed EXCEPT ![c] = <<status>>],
             \A u \in AllSlots : Record(u) = c => call[u].waiting
      PROVE  \E S \in SUBSET AllSlots : Abstract!Execute(S)
  <2> DEFINE S == {u \in AllSlots : Record(u) = c}
  <2>1. ASSUME NEW u \in AllSlots \ S
        PROVE  Alike(u)
    <3>1. Record(u) # c
      BY <2>1
    <3>2. executed'[Record(u)] = executed[Record(u)]
      BY <1>1, <1>4, <3>1
    <3> QED  BY <1>1, <1>2, <3>2 DEF Alike
  <2>2. ASSUME NEW u \in S
        PROVE  /\ call[u].waiting /\ call'[u].waiting /\ call[u].k # 0
               /\ call'[u].k = call[u].k /\ call'[u].answer = call[u].answer
               /\ Executions(u) = <<>> /\ \E o \in Outcomes : Executions(u)' = <<o>>
    <3>1. u \in AllSlots /\ Record(u) = c /\ call[u].waiting
      BY <1>4, <2>2
    <3>2. call[u].k # 0
      BY <1>2, <3>1 DEF CallOK
    <3>3. executed'[c] = <<status>>
      BY <1>1, <1>4
    <3> QED  BY <1>1, <1>2, <1>4, <3>1, <3>2, <3>3
  <2> HIDE DEF S
  <2>3. S \in SUBSET AllSlots
    BY DEF S
  <2> QED  BY <2>1, <2>2, <2>3, Executed
<1>5. PICK e : e = thread[t]
  OBVIOUS
<1> DEFINE r == e.req
<1>6. ASSUME Work(t)
      PROVE  \E S \in SUBSET AllSlots : Abstract!Execute(S)
  <2> DEFINE c == <<r.slot, r.k>>
  <2>1. PICK status \in Outcomes : executed' = [executed EXCEPT ![c] = Append(@, status)]
    BY <1>5, <1>6 DEF Work, Outcomes, CallOf
  <2>2. Pending(e) /\ PendingOK(e) /\ r.slot \in Slots
    BY <1>5, <1>6, WorkPends DEF PendingOK, SlotCache
  <2>3. r \in Known /\ r.k \in 1..MaxCalls /\ r.slot \in AllSlots
    BY <1>1, <1>5, <2>2, PendingThread, KnownOK
  <2>4. c \in AllSlots \X (1..MaxCalls) /\ executed[c] = <<>> /\ executed' = [executed EXCEPT ![c] = <<status>>]
    <3>1. Append(<<>>, status) = <<status>>
      OBVIOUS
    <3> QED  BY <1>1, <2>1, <2>2, <2>3, <3>1 DEF PendingOK
  <2>5. ASSUME NEW u \in AllSlots, Record(u) = c
        PROVE  call[u].waiting
    <3>1. u = r.slot
      BY <1>1, <2>2, <2>5 DEF Record
    <3> QED  BY <2>2, <3>1 DEF PendingOK
  <2> HIDE DEF c
  <2> QED  BY <1>4, <2>4, <2>5
<1>7. ASSUME CheckSeqid(t)
      PROVE  [Abstract!Next]_(Abstract!vars)
  <2>1. /\ e.pc = "ops" /\ Len(e.results) < Len(Ops(r)) /\ e # Idle
    BY <1>5, <1>7 DEF CheckSeqid, Idle
  <2>2. PICK op, s, k :
          op \in {"SEQUENCE", "CREATE_SESSION"} /\ op = NextOp(t) /\ <<s, k>> = CallOf(r, op)
    BY <1>5, <1>7 DEF CheckSeqid, CallOf
  <2> DEFINE c == <<s, k>>
  <2>3. executed' = IF op = "CREATE_SESSION" /\ InOrder(s, SeqidOf(c))
                    THEN [executed EXCEPT ![c] = Append(@, "OK")] ELSE executed
    <3>1. CallOf(thread[t].req, NextOp(t)) = c /\ c[1] = s /\ c[2] = k
      BY <1>5, <2>2
    <3> QED  BY <1>7, <2>2, <3>1 DEF CheckSeqid
  <2>4. CASE op = "CREATE_SESSION" /\ InOrder(s, SeqidOf(c))
    <3>1. /\ s = ClientSlot /\ k \in 1..call[s].k /\ k = Accepted(s) + 1 /\ k = call[s].k
      BY <1>5, <2>1, <2>2, <2>4, SeqidCases DEF CallOf
    <3>2. k \in 1..MaxCalls /\ k \in Nat /\ ~(k <= Accepted(ClientSlot))
      <4>1. call[s].k \in Nat /\ call[s].k <= MaxCalls
        BY <1>1, <1>2, <3>1 DEF CallOK
      <4>2. Accepted(s) \in Nat
        <5>1. caches[s] \in Seq(Seq(Results)) /\ caches[s] # <<>>
          BY <1>1, <3>1 DEF IInv, TypeOK, SlotOK, AllSlots
        <5> QED  BY <5>1 DEF Accepted
      <4> QED  BY <1>1, <3>1, <4>1, <4>2
    <3>3. c \in AllSlots \X (1..MaxCalls) /\ executed[c] = <<>>
      BY <1>1, <3>1, <3>2 DEF IInv, ExecutedOK
    <3>4. executed' = [executed EXCEPT ![c] = <<"OK">>]
      <4>1. Append(<<>>, "OK") = <<"OK">>
        OBVIOUS
      <4> QED  BY <1>1, <2>3, <2>4, <3>3, <4>1
    <3>5. ASSUME NEW u \in AllSlots, Record(u) = c
          PROVE  call[u].waiting
      <4>1. CASE u = ClientSlot
        <5>1. InStep(u) /\ call[u].k = k
          BY <1>2, <3>1, <4>1
        <5>2. ~call[u].waiting => Accepted(u) = k
          BY <5>1 DEF InStep
        <5>3. k <= k
          BY <3>2
        <5> QED  BY <3>2, <4>1, <5>2, <5>3
      <4>2. CASE u # ClientSlot
        <5>1. call[u].shape = "inSession" /\ call[u].csK = k
          BY <3>1, <3>5, <4>2 DEF Record
        <5>2. InStep(u)
          BY <1>2
        <5>3. ~call[u].waiting => k <= Accepted(ClientSlot)
          BY <5>1, <5>2 DEF InStep
        <5> QED  BY <3>2, <5>3
      <4> QED  BY <4>1, <4>2
    <3> HIDE DEF c
    <3>6. \E S \in SUBSET AllSlots : Abstract!Execute(S)
      BY <1>4, <3>3, <3>4, <3>5 DEF Outcomes
    <3> QED  BY <3>6 DEF Abstract!Next
  <2>5. CASE ~(op = "CREATE_SESSION" /\ InOrder(s, SeqidOf(c)))
    BY <1>3, <2>3, <2>5
  <2> QED  BY <2>4, <2>5
<1>8. ASSUME \/ Dispatch(t) \/ Finish(t) \/ Fill(t) \/ WaitForCache(t) \/ Send(t) \/ Reset(t)
      PROVE  UNCHANGED Abstract!vars
  BY <1>3, <1>8 DEF Dispatch, Finish, Fill, WaitForCache, Send, Reset
<1> QED  BY <1>6, <1>7, <1>8 DEF ServerStep, Abstract!Next

(* Seen from the client, a slot carries out one call at a time, once, after   *)
(* it was asked and before it was answered; and the answer is what came of    *)
(* it: the detailed specification implements ExactlyOnce.                     *)
THEOREM Refinement == Spec => ImplementsExactlyOnce
<1>1. Init => Abstract!Init
  <2> SUFFICES ASSUME Init PROVE Abstract!Init
    OBVIOUS
  <2>1. ASSUME NEW s \in AllSlots
        PROVE  phase[s] = "idle" /\ calls[s] = 0 /\ outcome[s] = "none" /\ answer[s] = "none"
    <3>1. call[s].k = 0 /\ ~call[s].waiting /\ call[s].answer = "none"
      BY DEF Init
    <3> QED  BY <3>1 DEF phase, calls, outcome, answer
  <2> QED  BY <2>1, ViewTypes DEF Abstract!Init
<1>2. IInv /\ [Next]_vars => [Abstract!Next]_(Abstract!vars)
  <2> SUFFICES ASSUME IInv, [Next]_vars PROVE [Abstract!Next]_(Abstract!vars)
    OBVIOUS
  <2>1. CASE UNCHANGED vars
    <3>1. \A u \in AllSlots : Alike(u)
      BY <2>1 DEF vars, Alike, Executions
    <3> QED  BY <3>1, Stutters
  <2>2. CASE Next
    BY <2>2, ClientImplements, ServerImplements DEF Next
  <2> QED  BY <2>1, <2>2
<1> QED  BY <1>1, <1>2, Invariance, PTL DEF Spec, ImplementsExactlyOnce, Abstract!Spec

=============================================================================
