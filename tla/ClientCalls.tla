----------------------------- MODULE ClientCalls -----------------------------
(* The calls of a 4.1 client: SessionRecord.compound and SendChannel of       *)
(* src/nfs4.1/nfs4client.py, the client's half of class Slot in               *)
(* src/nfs4.1/nfs4server.py, and class RpcPipe of src/rpc/rpc.py below them.  *)
(* Several threads share a session and its connection: the threads of a data  *)
(* server or of the proxy do, and the test's own thread beside callbacks.     *)
(*                                                                           *)
(* A caller takes a free slot, sends, and waits for the reply, which the      *)
(* polling loop hands to a thread of its own.  NFS4ERR_DELAY is tried again.  *)
(* The server is one that keeps the protocol, as ReplayCache shows of ours;   *)
(* it may delay, deny, or answer twice.  The connection may be lost.          *)
(*                                                                           *)
(* The bounds are MaxCompounds, MaxFaults and MaxRetries (10 in the code);    *)
(* xids stay far from 2^32.                                                   *)
EXTENDS Integers, Sequences, FiniteSets, FiniteSetsExt, Functions

CONSTANTS
  Callers,       \* threads that call session.compound
  None,          \* no reply
  NSlots,        \* ca_maxrequests of the fore channel
  SeqMod,        \* the modulus of sequence ids: 2^32 in the code
  MaxRetries,    \* max_retries
  MaxCompounds,  \* bound: compounds of all callers
  MaxFaults      \* bound: delays, denials, replies that come twice, a lost connection

Slots == 0..(NSlots - 1)

\* A compound: its caller and its number
Compounds == Callers \X (1..MaxCompounds)

(* What a reply says.  "ok": all went well.  "delay": SEQUENCE went well and  *)
(* an operation is delayed.  "seqDelay": SEQUENCE itself is.  "misordered":   *)
(* SEQUENCE is refused.  "denied": the RPC layer says no.                     *)
Kinds == {"ok", "delay", "seqDelay", "misordered", "denied"}

(* A reply: send is the number of the send it answers, of the compound whose  *)
(* results it carries; copy tells a reply that comes twice.                   *)
Replies == [xid : Nat, send : Nat, seqid : Nat, kind : Kinds,
            of : Compounds \cup {None}, copy : {1, 2}]

ASSUME CallsAssumption ==
  /\ NSlots \in Nat /\ NSlots > 0
  /\ SeqMod \in Nat /\ SeqMod > 1
  /\ MaxRetries \in Nat /\ MaxRetries > 0
  /\ MaxCompounds \in Nat /\ MaxFaults \in Nat
  /\ None \notin Replies

VARIABLES
  xid,        \* RpcPipe._xid
  pending,    \* RpcPipe._pending: the DeferredData of each xid, by its number
  deferred,   \* the DeferredData of every send, in order
  slots,      \* SendChannel.slots, each with Slot.seqid and Slot.inuse
  caller,     \* the calling threads, each where it is in compound
  handlers,   \* the threads that are inside rcv_reply
  requests,   \* calls on their way to the server
  replies,    \* replies on their way, or in threads that have not looked up
  connected,  \* the connection is open
  server,     \* the server's slots
  begun,      \* history: how many compounds all callers have begun
  executed,   \* history: how often each compound was carried out
  adrift,     \* history: slots that were lost sight of after a delayed SEQUENCE
  faults      \* how many of them there were

pipeVars == <<xid, pending, deferred>>
netVars == <<handlers, requests, replies, connected>>
serverVars == <<server, executed>>
vars == <<xid, pending, deferred, slots, caller, handlers, requests, replies,
          connected, server, begun, executed, adrift, faults>>

SeqOK(kind) == kind \in {"ok", "delay"}

Reply(r, kind, of) ==
  [xid |-> r.xid, send |-> r.send, seqid |-> r.seqid, kind |-> kind, of |-> of, copy |-> 1]

IdleCaller ==
  [pc |-> "idle", n |-> 0, retry |-> FALSE, tries |-> 0, slot |-> 0, held |-> TRUE, seqid |-> 0,
   xid |-> 0, send |-> 0, got |-> None, outcome |-> "none"]

Init ==
  /\ xid = 0 /\ pending = <<>> /\ deferred = <<>>
  /\ slots = [s \in Slots |-> [seqid |-> 0, inuse |-> FALSE]]
  /\ caller = [c \in Callers |-> IdleCaller]
  /\ handlers = {} /\ requests = {} /\ replies = {} /\ connected = TRUE
  /\ server = [s \in Slots |-> [seqid |-> 0, kind |-> "misordered", of |-> None]]
  /\ begun = 0
  /\ executed = [m \in Compounds |-> 0]
  /\ adrift = {}
  /\ faults = 0

-----------------------------------------------------------------------------
(* SessionRecord.compound                                                     *)

Busy(c) == caller[c].pc # "idle"
Compound(c) == <<c, caller[c].n>>

\* The callers that are to send again on slot s, which finish_call has released.
\* held is history: it tells them from those that have the slot to themselves.
Unheld(s) == {c \in Callers : Busy(c) /\ caller[c].slot = s /\ ~caller[c].held}

\* The compound is over for its caller; what it was told stays to be looked at.
End(c, outcome) ==
  [IdleCaller EXCEPT !.n = caller[c].n, !.outcome = outcome, !.slot = caller[c].slot,
                     !.got = IF outcome = "ok" THEN caller[c].got ELSE None]

\* compound is called.  retry is handle_state_errors: compound_async and listen
\* take a compound without it through the same steps.
Start(c) ==
  /\ ~Busy(c) /\ begun < MaxCompounds
  /\ begun' = begun + 1
  /\ \E retry \in BOOLEAN :
       caller' = [caller EXCEPT ![c] =
                   [IdleCaller EXCEPT !.pc = "prepare", !.n = caller[c].n + 1, !.retry = retry]]
  /\ UNCHANGED <<pipeVars, slots, netVars, serverVars, adrift, faults>>

get_seqid(s) == (slots[s].seqid + 1) % SeqMod

(* _prepare_compound: choose_slot takes the first slot that is free, under    *)
(* the lock of the channel, and get_seqid numbers the call.  After the last   *)
(* retry the slot is taken in vain, and stays taken.                          *)
Prepare(c) ==
  /\ caller[c].pc = "prepare"
  /\ LET free == {s \in Slots : ~slots[s].inuse} IN
     IF free = {}
     THEN /\ caller' = [caller EXCEPT ![c] = End(c, "outOfSlots")]
          /\ UNCHANGED <<slots, adrift>>
     ELSE LET s == Min(free) IN
          /\ slots' = [slots EXCEPT ![s].inuse = TRUE]
          /\ adrift' = IF Unheld(s) = {} THEN adrift ELSE adrift \cup {s}
          /\ caller' = [caller EXCEPT ![c] =
               IF caller[c].tries = MaxRetries THEN End(c, caller[c].got.kind)
               ELSE [@ EXCEPT !.slot = s, !.held = TRUE, !.seqid = get_seqid(s), !.pc = "send"]]
  /\ UNCHANGED <<pipeVars, netVars, serverVars, begun, faults>>

\* Mutant: inuse is cleared before the sequence id is stored.
FinishCallReleasingFirst(c) ==
  /\ \/ /\ caller[c].pc = "finish"
        /\ slots' = [slots EXCEPT ![caller[c].slot].inuse = FALSE]
        /\ caller' = [caller EXCEPT ![c].pc = "store"]
     \/ /\ caller[c].pc = "store"
        /\ slots' = [slots EXCEPT ![caller[c].slot].seqid =
                       IF SeqOK(caller[c].got.kind) THEN caller[c].got.seqid ELSE @]
        /\ caller' = [caller EXCEPT ![c].pc = "release"]
  /\ UNCHANGED <<pipeVars, netVars, serverVars, begun, adrift, faults>>

\* Mutant: the sequence id moves on although SEQUENCE failed.
FinishCallAnyway(c) ==
  /\ caller[c].pc = "finish"
  /\ slots' = [slots EXCEPT ![caller[c].slot].seqid = caller[c].seqid]
  /\ caller' = [caller EXCEPT ![c].pc = "release"]
  /\ UNCHANGED <<pipeVars, netVars, serverVars, begun, adrift, faults>>

\* finish_call, without a lock: first the sequence id ...
FinishCall(c) ==
  /\ caller[c].pc = "finish"
  /\ slots' = [slots EXCEPT ![caller[c].slot].seqid =
                 IF SeqOK(caller[c].got.kind) THEN caller[c].got.seqid ELSE @]
  /\ caller' = [caller EXCEPT ![c].pc = "release"]
  /\ UNCHANGED <<pipeVars, netVars, serverVars, begun, adrift, faults>>

(* ... then inuse, and the rest of the loop's body.  An operation that is     *)
(* delayed is sent again on a slot chosen anew; a SEQUENCE that is delayed is *)
(* sent again as it is, on the slot that has just been released.              *)
Release(c) ==
  LET kind == caller[c].got.kind
      again == kind \in {"delay", "seqDelay"} /\ caller[c].retry
      tries == caller[c].tries + 1 IN
  /\ caller[c].pc = "release"
  /\ slots' = [slots EXCEPT ![caller[c].slot].inuse = FALSE]
  /\ caller' = [caller EXCEPT ![c] =
       IF ~again \/ (kind = "seqDelay" /\ tries = MaxRetries) THEN End(c, kind)
       ELSE [@ EXCEPT !.tries = tries, !.held = kind = "delay",
                     !.pc = IF kind = "delay" THEN "prepare" ELSE "send"]]
  /\ UNCHANGED <<pipeVars, netVars, serverVars, begun, adrift, faults>>

-----------------------------------------------------------------------------
(* RpcPipe: the caller's side                                                 *)

\* Mutant: _get_xid reads and writes _xid without the lock.
GetXidUnlocked(c) ==
  /\ \/ /\ caller[c].pc = "send"
        /\ caller' = [caller EXCEPT ![c].xid = xid, ![c].pc = "inc"]
        /\ UNCHANGED xid
     \/ /\ caller[c].pc = "inc"
        /\ xid' = caller[c].xid + 1
        /\ caller' = [caller EXCEPT ![c].pc = "call"]
  /\ UNCHANGED <<pending, deferred, slots, netVars, serverVars, begun, adrift, faults>>

\* send_call, as far as _get_xid, which holds the lock of the pipe
GetXid(c) ==
  /\ caller[c].pc = "send"
  /\ xid' = xid + 1
  /\ caller' = [caller EXCEPT ![c].xid = xid, ![c].pc = "call"]
  /\ UNCHANGED <<pending, deferred, slots, netVars, serverVars, begun, adrift, faults>>

Request(c, send) ==
  [xid |-> caller[c].xid, send |-> send, slot |-> caller[c].slot,
   seqid |-> caller[c].seqid, of |-> Compound(c)]

Empty == [filled |-> FALSE, data |-> None]

Registered(x, send) ==
  [y \in DOMAIN pending \cup {x} |-> IF y = x THEN send ELSE pending[y]]

(* The rest of send_call: an empty DeferredData goes into _pending, then the  *)
(* record goes out.  What is pushed to a closed pipe goes nowhere.            *)
SendCall(c) ==
  LET send == Len(deferred) + 1 IN
  /\ caller[c].pc = "call"
  /\ deferred' = Append(deferred, Empty)
  /\ pending' = Registered(caller[c].xid, send)
  /\ requests' = IF connected THEN requests \cup {Request(c, send)} ELSE requests
  /\ caller' = [caller EXCEPT ![c].send = send, ![c].pc = "listen"]
  /\ UNCHANGED <<xid, slots, handlers, replies, connected, serverVars, begun, adrift,
                 faults>>

Filled(c) == deferred[pending[caller[c].xid]].filled

\* listen, once wait returns: the data is read and the entry deleted.  A
\* stored exception is raised, and leaves both the entry and the slot.
Listen(c) ==
  /\ caller[c].pc = "listen" /\ Filled(c)
  /\ LET data == deferred[pending[caller[c].xid]].data IN
     IF data # None /\ data.kind = "denied"
     THEN /\ caller' = [caller EXCEPT ![c] = End(c, "denied")]
          /\ UNCHANGED pending
     ELSE /\ caller' = [caller EXCEPT ![c].got = data, ![c].pc = "finish"]
          /\ pending' = Restrict(pending, DOMAIN pending \ {caller[c].xid})
  /\ UNCHANGED <<xid, deferred, slots, netVars, serverVars, begun, adrift, faults>>

\* Mutant: listen() is called without a timeout, as its default is.
NeverTimeOut(c) == FALSE /\ UNCHANGED vars

\* wait raises RPCTimeout: the entry and the slot stay taken.  A slot that
\* finish_call released after a delayed SEQUENCE is free, with a call under way.
TimeOut(c) ==
  /\ caller[c].pc = "listen" /\ ~Filled(c)
  /\ caller' = [caller EXCEPT ![c] = End(c, "timeout")]
  /\ adrift' = IF caller[c].held THEN adrift ELSE adrift \cup {caller[c].slot}
  /\ UNCHANGED <<pipeVars, slots, netVars, serverVars, begun, faults>>

-----------------------------------------------------------------------------
(* RpcPipe: the threads that receive                                          *)

\* rcv_reply looks the call up; a reply that finds none is dropped.
LookUp(r) ==
  /\ r \in replies
  /\ replies' = replies \ {r}
  /\ handlers' = IF r.xid \in DOMAIN pending
                 THEN handlers \cup {[reply |-> r, deferred |-> pending[r.xid]]}
                 ELSE handlers
  /\ UNCHANGED <<pipeVars, slots, caller, requests, connected, serverVars, begun, adrift,
                 faults>>

\* DeferredData.fill: the data or the exception, and last the event wait() is for
Fill(h) ==
  /\ h \in handlers
  /\ handlers' = handlers \ {h}
  /\ deferred' = [deferred EXCEPT ![h.deferred] = [filled |-> TRUE, data |-> h.reply]]
  /\ UNCHANGED <<xid, pending, slots, caller, requests, replies, connected, serverVars, begun,
                 adrift, faults>>

Fault == faults < MaxFaults /\ faults' = faults + 1

\* _event_close: no call that waits is told.
Close ==
  /\ connected /\ connected' = FALSE
  /\ Fault
  /\ requests' = {} /\ replies' = {}
  /\ UNCHANGED <<pipeVars, slots, caller, handlers, serverVars, begun, adrift>>

-----------------------------------------------------------------------------
(* The server                                                                 *)

Answer(r, reply) ==
  /\ r \in requests /\ connected
  /\ requests' = requests \ {r}
  /\ replies' = replies \cup {reply}
  /\ UNCHANGED <<pipeVars, slots, caller, handlers, connected, begun, adrift>>

InOrder(r) == r.seqid = (server[r.slot].seqid + 1) % SeqMod

\* The call is carried out, or SEQUENCE is and an operation is delayed.
Accept(r, kind) ==
  /\ InOrder(r)
  /\ IF kind = "delay" THEN Fault ELSE UNCHANGED faults
  /\ Answer(r, Reply(r, kind, r.of))
  /\ server' = [server EXCEPT ![r.slot] = [seqid |-> r.seqid, kind |-> kind, of |-> r.of]]
  /\ executed' = IF kind = "ok" THEN [executed EXCEPT ![r.of] = @ + 1] ELSE executed

\* SEQUENCE is delayed: the slot does not move.
DelaySequence(r) ==
  /\ InOrder(r) /\ Fault
  /\ Answer(r, Reply(r, "seqDelay", r.of))
  /\ UNCHANGED serverVars

\* A call that is not the slot's next: the reply to the last, or an error
Refuse(r) ==
  /\ ~InOrder(r)
  /\ LET last == server[r.slot] IN
     Answer(r, IF r.seqid = last.seqid THEN Reply(r, last.kind, last.of)
               ELSE Reply(r, "misordered", r.of))
  /\ UNCHANGED <<serverVars, faults>>

\* The RPC layer denies the call.
Deny(r) ==
  /\ Fault
  /\ Answer(r, Reply(r, "denied", r.of))
  /\ UNCHANGED serverVars

\* A server under test answers twice.
Duplicate(r) ==
  /\ r \in replies /\ r.copy = 1 /\ Fault
  /\ replies' = replies \cup {[r EXCEPT !.copy = 2]}
  /\ UNCHANGED <<pipeVars, slots, caller, handlers, requests, connected, serverVars, begun,
                 adrift>>

-----------------------------------------------------------------------------
\* What a thread inside compound does next
Step(c) ==
  \/ Prepare(c) \/ GetXid(c) \/ SendCall(c) \/ Listen(c) \/ TimeOut(c)
  \/ FinishCall(c) \/ Release(c)

Next ==
  \/ \E c \in Callers : Start(c) \/ Step(c)
  \/ \E r \in replies : LookUp(r) \/ Duplicate(r)
  \/ \E h \in handlers : Fill(h)
  \/ \E r \in requests :
       Accept(r, "ok") \/ Accept(r, "delay") \/ DelaySequence(r) \/ Refuse(r) \/ Deny(r)
  \/ Close

Spec == Init /\ [][Next]_vars

\* Threads run, and a wait ends with its timeout; the server need not answer.
FairSpec == Spec /\ \A c \in Callers : WF_vars(Step(c))

-----------------------------------------------------------------------------
(* Properties                                                                 *)

(* What listen returns is the reply to the call that was sent, complete,      *)
(* however late, early or often replies come and whatever other callers do;   *)
(* and a reply finds its call as long as somebody waits for it: rcv_reply     *)
(* drops only what comes after the call was answered.                         *)
RepliesMeetTheirCalls ==
  /\ \A c \in Callers : caller[c].pc = "finish" =>
       caller[c].got # None /\ caller[c].got.send = caller[c].send
  /\ \A r \in replies :
       (\E c \in Callers : caller[c].send = r.send /\ caller[c].pc = "listen")
         => r.xid \in DOMAIN pending /\ pending[r.xid] = r.send

(* What compound returns is true: success is of this compound, carried out    *)
(* once; an error is of one that was not carried out; a caller that knows     *)
(* nothing left something that was carried out once at most.  It fails on a   *)
(* slot that is adrift: another caller took it between a delayed SEQUENCE and *)
(* its retry, or the retry timed out.                                         *)
TellsWhatHappened ==
  \A c \in Callers : (caller[c].n > 0 /\ caller[c].slot \notin adrift) =>
    LET times == executed[Compound(c)]
        outcome == caller[c].outcome IN
    /\ times \in {0, 1}
    /\ outcome = "ok" => times = 1 /\ caller[c].got.of = Compound(c)
    /\ outcome \in {"delay", "seqDelay", "denied", "outOfSlots"} => times = 0
    /\ outcome # "misordered"

(* A slot that is free is where the server thinks it is: the next call on it  *)
(* is neither refused nor taken for a replay.  Calls that time out or are     *)
(* denied lose their slot for good, which is what keeps this true.            *)
SlotsInStep ==
  \A s \in Slots \ adrift :
    ~slots[s].inuse /\ Unheld(s) = {} => slots[s].seqid = server[s].seqid

(* Every compound ends, with the connection lost and replies lost with it.    *)
EveryCallEnds == \A c \in Callers : Busy(c) ~> ~Busy(c)
=============================================================================
