-------------------------- MODULE ClientCalls_proofs --------------------------
(* Proofs about ClientCalls, for any number of callers and slots, any modulus *)
(* of the sequence ids, any number of retries and of things that go wrong.    *)
EXTENDS ClientCalls, SequenceTheorems, WellFoundedInduction, TLAPS

-----------------------------------------------------------------------------
(* The inductive invariant                                                    *)

PCs == {"idle", "prepare", "send", "call", "listen", "finish", "release"}
CallerStates ==
  [pc : PCs, n : 0..MaxCompounds, retry : BOOLEAN, tries : Nat, slot : Slots, held : BOOLEAN,
   seqid : Nat, xid : Nat, send : Nat, got : Replies \cup {None},
   outcome : Kinds \cup {"none", "outOfSlots", "timeout"}]
SlotStates == [seqid : Nat, inuse : BOOLEAN]
ServerSlots == [seqid : Nat, kind : Kinds, of : Compounds \cup {None}]
Requests == [xid : Nat, send : Nat, slot : Slots, seqid : Nat, of : Compounds]
Deferreds == [filled : BOOLEAN, data : Replies \cup {None}]
Handlers == [reply : Replies, deferred : Nat]

TypeOK ==
  /\ xid \in Nat
  /\ DOMAIN pending \in SUBSET Nat /\ \A x \in DOMAIN pending : pending[x] \in 1..Len(deferred)
  /\ deferred \in Seq(Deferreds)
  /\ \A i \in 1..Len(deferred) : deferred[i].filled => deferred[i].data \in Replies
  /\ slots \in [Slots -> SlotStates]
  /\ caller \in [Callers -> CallerStates] 
  /\ \A c \in Callers :
       /\ caller[c].n <= begun
       /\ caller[c].pc \in {"finish", "release"} => caller[c].got \in Replies
       /\ caller[c].pc = "prepare" /\ caller[c].tries > 0 =>
            caller[c].got \in Replies /\ caller[c].got.kind = "delay"
  /\ handlers \in SUBSET Handlers
  /\ \A h \in handlers : h.deferred \in 1..Len(deferred)
  /\ requests \in SUBSET Requests /\ replies \in SUBSET Replies
  /\ connected \in BOOLEAN
  /\ server \in [Slots -> ServerSlots]
  /\ begun \in 0..MaxCompounds
  /\ executed \in [Compounds -> Nat]
  /\ adrift \in SUBSET Slots
  /\ faults \in Nat

Using(c) == caller[c].pc \in {"send", "call", "listen", "finish", "release"}
Users(s) == {c \in Callers : Using(c) /\ caller[c].slot = s}

\* Every reply there is, wherever it has got to
Told == replies \cup {h.reply : h \in handlers}
          \cup {deferred[i].data : i \in {j \in DOMAIN deferred : deferred[j].filled}}

\* An xid is of one call, and leads to its DeferredData while somebody listens.
XidsOK ==
  /\ \A c \in Callers : caller[c].pc \in {"call", "listen"} => caller[c].xid < xid
  /\ \A c, d \in Callers :
       (/\ caller[c].pc \in {"call", "listen"} /\ caller[d].pc \in {"call", "listen"}
        /\ caller[c].xid = caller[d].xid) => c = d
  /\ \A x \in DOMAIN pending : x < xid
  /\ \A r \in requests \cup replies :
       r.xid < xid /\ (r.xid \in DOMAIN pending => pending[r.xid] = r.send)
  /\ \A c \in Callers : caller[c].pc = "call" =>
       /\ caller[c].xid \notin DOMAIN pending
       /\ \A r \in requests \cup replies : r.xid # caller[c].xid
  /\ \A c \in Callers : caller[c].pc = "listen" =>
       /\ caller[c].xid \in DOMAIN pending /\ pending[caller[c].xid] = caller[c].send
       /\ \A r \in requests \cup replies : r.send = caller[c].send => r.xid = caller[c].xid

\* A send has one request, which is gone when its reply comes.
SendsOK ==
  /\ \A c \in Callers :
       caller[c].pc \in {"listen", "finish", "release"} => caller[c].send \in 1..Len(deferred)
  /\ \A r \in requests : r.send \in 1..Len(deferred)
  /\ \A x \in Told : x.send \in 1..Len(deferred)
  /\ \A r, q \in requests : r.send = q.send => r = q
  /\ \A r \in requests, x \in Told : r.send # x.send
  /\ \A h \in handlers : h.deferred = h.reply.send
  /\ \A i \in 1..Len(deferred) :
       deferred[i].filled => deferred[i].data.send = i

\* A request is that of the compound it belongs to, and its compound is not done.
RequestsOK ==
  /\ \A r \in requests : r.of[2] <= caller[r.of[1]].n
  /\ \A r \in requests, c \in Callers : r.of = Compound(c) =>
       /\ executed[r.of] = 0
       /\ \/ caller[c].pc = "listen" /\ r.send = caller[c].send
          \/ caller[c].pc = "idle" /\ caller[c].outcome = "timeout"
  /\ \A r \in requests, c \in Callers :
       caller[c].pc = "listen" /\ r.send = caller[c].send => r = Request(c, r.send)
  /\ \A r, q \in requests : r.of = q.of => r = q

\* A caller knows of a compound that was carried out, unless it timed out.
CallerKnows(c) ==
  /\ \A n \in 1..MaxCompounds : n > caller[c].n => executed[<<c, n>>] = 0
  /\ Busy(c) => caller[c].n > 0 /\ caller[c].outcome = "none"
  /\ ~caller[c].held => Using(c)
  /\ caller[c].n > 0 => executed[Compound(c)] \in {0, 1}
  /\ caller[c].pc \in {"prepare", "send", "call"} => executed[Compound(c)] = 0
  /\ caller[c].pc = "listen" => \A x \in Told : x.send = caller[c].send =>
       (executed[Compound(c)] = 1 => x.kind = "ok")
  /\ caller[c].pc \in {"finish", "release"} =>
       /\ caller[c].got.send = caller[c].send
       /\ executed[Compound(c)] = 1 => caller[c].got.kind = "ok"
  /\ caller[c].n > 0 /\ caller[c].outcome \in {"delay", "seqDelay", "denied", "outOfSlots"} =>
       executed[Compound(c)] = 0

CallersOK == \A c \in Callers : CallerKnows(c)

\* What a reply says of the slot, and of the compound, of the call it answers
Says(c, x) ==
  LET s == caller[c].slot IN
  /\ x.kind # "misordered"
  /\ SeqOK(x.kind) =>
       x.of = Compound(c) /\ x.seqid = caller[c].seqid /\ server[s].seqid = caller[c].seqid
  /\ ~SeqOK(x.kind) => server[s].seqid = slots[s].seqid
  /\ x.kind = "ok" => executed[Compound(c)] = 1

SlotOK(s) ==
  /\ \A c, d \in Users(s) : c = d
  /\ \A c \in Users(s) : slots[s].inuse = caller[c].held
  /\ \A r \in requests : r.slot = s =>
       \/ \E c \in Users(s) : caller[c].pc = "listen" /\ caller[c].send = r.send
       \/ slots[s].inuse /\ Users(s) = {}
  /\ ~slots[s].inuse /\ Users(s) = {} => slots[s].seqid = server[s].seqid

UserOK(c) ==
  LET s == caller[c].slot
      x == caller[c].got IN
  /\ caller[c].pc \in {"send", "call", "listen", "finish"} => caller[c].seqid = get_seqid(s)
  /\ caller[c].pc \in {"send", "call", "release"} => slots[s].seqid = server[s].seqid
  /\ caller[c].pc = "listen" =>
       /\ \A r \in requests : r.send = caller[c].send => slots[s].seqid = server[s].seqid
       /\ \A y \in Told : y.send = caller[c].send => Says(c, y)
  /\ caller[c].pc = "finish" => Says(c, x)
  /\ caller[c].pc = "release" =>
       /\ x.kind # "misordered"
       /\ x.kind = "ok" => x.of = Compound(c) /\ executed[Compound(c)] = 1
       /\ ~SeqOK(x.kind) => caller[c].seqid = get_seqid(s)
  /\ caller[c].outcome # "misordered"
  /\ caller[c].outcome = "ok" => x.of = Compound(c) /\ executed[Compound(c)] = 1

SlotsOK ==
  /\ \A s \in Slots \ adrift : SlotOK(s)
  /\ \A c \in Callers : caller[c].n > 0 /\ caller[c].slot \notin adrift => UserOK(c)

IInv == TypeOK /\ XidsOK /\ SendsOK /\ RequestsOK /\ CallersOK /\ SlotsOK

-----------------------------------------------------------------------------
(* Types                                                                      *)

LEMMA Least ==
  ASSUME NEW S \in SUBSET Nat, S # {}
  PROVE  Min(S) \in S
<1> DEFINE R == {p \in Nat \X Nat : p[1] < p[2]}
<1>1. OpToRel(<, Nat) = R
  BY DEF OpToRel
<1>2. PICK x \in S : \A y \in S : <<y, x>> \notin R
  BY ZenonT(40), <1>1, WFMin, NatLessThanWellFounded
<1>3. ASSUME NEW y \in S
      PROVE  x <= y
  <2>1. x \in Nat /\ y \in Nat /\ <<y, x>> \in Nat \X Nat /\ <<y, x>>[1] = y /\ <<y, x>>[2] = x
    OBVIOUS
  <2>2. ~(y < x)
    BY <1>2, <2>1
  <2> QED  BY <2>1, <2>2
<1> QED  BY <1>3 DEF Min

LEMMA BasicTypes ==
  /\ MaxCompounds \in Nat /\ 0 \in Slots /\ Slots \in SUBSET Nat
  /\ IdleCaller \in CallerStates /\ Empty \in Deferreds
  /\ \A n \in Nat : n % SeqMod \in Nat
<1>1. MaxCompounds \in Nat /\ 0 \in Slots /\ Slots \in SUBSET Nat
  BY CallsAssumption DEF Slots
<1>2. IdleCaller \in CallerStates
  BY <1>1 DEF IdleCaller, CallerStates, PCs
<1>3. Empty \in Deferreds
  BY DEF Empty, Deferreds
<1>4. \A n \in Nat : n % SeqMod \in Nat
  BY CallsAssumption
<1> QED  BY <1>1, <1>2, <1>3, <1>4

LEMMA EndTypes ==
  ASSUME TypeOK, NEW c \in Callers,
         NEW outcome \in Kinds \cup {"none", "outOfSlots", "timeout"}
  PROVE  /\ End(c, outcome) \in CallerStates
         /\ End(c, outcome) = [IdleCaller EXCEPT !.n = caller[c].n, !.outcome = outcome,
              !.slot = caller[c].slot, !.got = IF outcome = "ok" THEN caller[c].got ELSE None]
<1>1. caller[c] \in CallerStates
  BY DEF TypeOK
<1> QED  BY <1>1, BasicTypes DEF End, CallerStates

(* The state of a caller after each of its steps.                             *)
LEMMA OneMoves ==
  ASSUME TypeOK, NEW c \in Callers, NEW f, caller' = [caller EXCEPT ![c] = f]
  PROVE  /\ caller'[c] = f /\ \A d \in Callers : d # c => caller'[d] = caller[d]
         /\ f \in CallerStates => caller' \in [Callers -> CallerStates]
BY DEF TypeOK

LEMMA StartMoves ==
  ASSUME TypeOK, NEW c \in Callers, Start(c), NEW e, e = caller[c]
  PROVE  \E f \in CallerStates :
           /\ caller' = [caller EXCEPT ![c] = f]
           /\ e.pc = "idle" /\ f.pc = "prepare" /\ f.n = e.n + 1 /\ f.tries = 0 /\ f.held
           /\ f.outcome = "none"
<1>1. e \in CallerStates /\ e.n + 1 \in 0..MaxCompounds
  <2>0. MaxCompounds \in Nat
    BY BasicTypes
  <2>1. e \in CallerStates /\ e.n \in Nat /\ e.n <= begun /\ begun \in Nat
    <3>1. e \in CallerStates /\ e.n <= begun /\ begun \in 0..MaxCompounds
      BY DEF TypeOK
    <3>2. e.n \in 0..MaxCompounds
      BY <3>1 DEF CallerStates
    <3> QED  BY <2>0, <3>1, <3>2
  <2>2. begun + 1 <= MaxCompounds
    BY <2>1, BasicTypes DEF Start
  <2> QED  BY <2>1, <2>2, BasicTypes
<1>2. PICK retry \in BOOLEAN : caller' = [caller EXCEPT ![c] =
        [IdleCaller EXCEPT !.pc = "prepare", !.n = e.n + 1, !.retry = retry]]
  BY DEF Start
<1>3. PICK f : f = [IdleCaller EXCEPT !.pc = "prepare", !.n = e.n + 1, !.retry = retry]
  OBVIOUS
<1>4. f \in CallerStates
  BY ZenonT(40), <1>1, <1>3, BasicTypes DEF CallerStates, PCs
<1> QED  BY <1>2, <1>3, <1>4 DEF IdleCaller, Start, Busy

(* A caller that takes a slot takes one that is free.                         *)
LEMMA PrepareMoves ==
  ASSUME TypeOK, NEW c \in Callers, Prepare(c), NEW e, e = caller[c]
  PROVE  \E f \in CallerStates :
           /\ caller' = [caller EXCEPT ![c] = f]
           /\ e.pc = "prepare" /\ f.n = e.n /\ f.held
           /\ \/ /\ f.pc = "idle" /\ f.outcome = "outOfSlots" /\ f.slot = e.slot
                 /\ UNCHANGED <<slots, adrift>>
              \/ \E s \in Slots :
                   /\ ~slots[s].inuse
                   /\ slots' = [slots EXCEPT ![s].inuse = TRUE]
                   /\ adrift' = IF Unheld(s) = {} THEN adrift ELSE adrift \cup {s}
                   /\ \/ f.pc = "idle" /\ f.outcome = "delay" /\ f.slot = e.slot
                      \/ /\ f.pc = "send" /\ f.outcome = e.outcome
                         /\ f.slot = s /\ f.seqid = get_seqid(s)
<1>1. e \in CallerStates /\ e.pc = "prepare" /\ e.tries \in Nat
  BY DEF TypeOK, Prepare, CallerStates
<1> DEFINE free == {s \in Slots : ~slots[s].inuse}
<1>2. CASE free = {}
  <2>1. PICK f : f = End(c, "outOfSlots")
    OBVIOUS
  <2>2. f \in CallerStates /\ f.n = e.n /\ f.held /\ f.pc = "idle" /\ f.outcome = "outOfSlots" /\ f.slot = e.slot
    BY <2>1, EndTypes DEF End, IdleCaller
  <2> QED  BY <1>1, <1>2, <2>1, <2>2 DEF Prepare
<1>3. CASE free # {}
  <2>1. PICK s : s = Min(free)
    OBVIOUS
  <2>2. s \in Slots /\ ~slots[s].inuse
    <3>1. free \in SUBSET Nat
      BY BasicTypes
    <3> HIDE DEF free
    <3>2. Min(free) \in free
      BY <1>3, <3>1, Least
    <3> QED  BY <2>1, <3>2 DEF free
  <2>3. /\ slots' = [slots EXCEPT ![s].inuse = TRUE]
        /\ adrift' = IF Unheld(s) = {} THEN adrift ELSE adrift \cup {s}
        /\ caller' = [caller EXCEPT ![c] =
             IF e.tries = MaxRetries THEN End(c, e.got.kind)
             ELSE [e EXCEPT !.slot = s, !.held = TRUE, !.seqid = get_seqid(s), !.pc = "send"]]
    BY <1>3, <2>1 DEF Prepare
  <2>4. CASE e.tries = MaxRetries
    <3>1. e.got.kind = "delay"
      BY <1>1, <2>4, CallsAssumption DEF TypeOK
    <3>2. PICK f : f = End(c, "delay")
      OBVIOUS
    <3>3. f \in CallerStates /\ f.n = e.n /\ f.held /\ f.pc = "idle" /\ f.outcome = "delay" /\ f.slot = e.slot
      BY <3>2, EndTypes DEF End, IdleCaller, Kinds
    <3> QED  BY <1>1, <2>2, <2>3, <2>4, <3>1, <3>2, <3>3
  <2>5. CASE e.tries # MaxRetries
    <3>1. PICK f : f = [e EXCEPT !.slot = s, !.held = TRUE, !.seqid = get_seqid(s), !.pc = "send"]
      OBVIOUS
    <3>2. get_seqid(s) \in Nat
      <4>1. slots[s].seqid \in Nat
        BY <2>2 DEF TypeOK, SlotStates
      <4>2. slots[s].seqid + 1 \in Nat
        BY <4>1
      <4> QED  BY <4>2, BasicTypes DEF get_seqid
    <3>3. f \in CallerStates
      BY <1>1, <2>2, <3>1, <3>2 DEF CallerStates, PCs
    <3>4. /\ f.n = e.n /\ f.held /\ f.pc = "send" /\ f.outcome = e.outcome
          /\ f.slot = s /\ f.seqid = get_seqid(s)
      BY <1>1, <3>1 DEF CallerStates
    <3> QED  BY <1>1, <2>2, <2>3, <2>5, <3>1, <3>3, <3>4
  <2> QED  BY <2>4, <2>5
<1> QED  BY <1>2, <1>3

Same(e, f) ==
  /\ f.n = e.n /\ f.slot = e.slot /\ f.seqid = e.seqid
  /\ f.send = e.send /\ f.outcome = e.outcome

LEMMA FinishMoves ==
  ASSUME TypeOK, NEW c \in Callers, FinishCall(c), NEW e, e = caller[c]
  PROVE  \E f \in CallerStates :
           /\ caller' = [caller EXCEPT ![c] = f]
           /\ e.pc = "finish" /\ f.pc = "release" /\ Same(e, f) /\ f.got = e.got /\ f.held = e.held
<1>1. e \in CallerStates /\ e.pc = "finish"
  BY DEF TypeOK, FinishCall
<1>2. PICK f : f = [e EXCEPT !.pc = "release"]
  OBVIOUS
<1>3. f \in CallerStates /\ f.pc = "release" /\ Same(e, f) /\ f.got = e.got /\ f.held = e.held
  BY <1>1, <1>2 DEF CallerStates, PCs, Same
<1> QED  BY <1>1, <1>2, <1>3 DEF FinishCall

(* What comes of a reply: the end, or the compound again.                     *)
LEMMA ReleaseMoves ==
  ASSUME TypeOK, NEW c \in Callers, Release(c), NEW e, e = caller[c]
  PROVE  \E f \in CallerStates :
           /\ caller' = [caller EXCEPT ![c] = f]
           /\ e.pc = "release" /\ f.n = e.n /\ f.slot = e.slot
           /\ \/ /\ f.pc = "idle" /\ f.outcome = e.got.kind /\ f.held
                 /\ f.outcome = "ok" => f.got = e.got
              \/ /\ f.pc = "prepare" /\ e.got.kind = "delay" /\ f.held /\ f.outcome = e.outcome
                 /\ f.got = e.got
              \/ f.pc = "send" /\ e.got.kind = "seqDelay" /\ ~f.held /\ Same(e, f)
<1>1. e \in CallerStates /\ e.pc = "release" /\ e.got \in Replies /\ e.got.kind \in Kinds /\ e.tries \in Nat
  <2>1. e \in CallerStates /\ e.pc = "release" /\ e.got \in Replies
    BY DEF TypeOK, Release
  <2> QED  BY <2>1 DEF CallerStates, Replies
<1>2. CASE caller' = [caller EXCEPT ![c] = End(c, e.got.kind)]
  <2>1. PICK f : f = End(c, e.got.kind)
    OBVIOUS
  <2>2. f \in CallerStates /\ f.n = e.n /\ f.slot = e.slot /\ f.pc = "idle" /\ f.held
    BY <1>1, <2>1, EndTypes DEF End, IdleCaller
  <2>3. f.outcome = e.got.kind /\ (f.outcome = "ok" => f.got = e.got)
    BY <1>1, <2>1, EndTypes DEF End, IdleCaller
  <2>4. caller' = [caller EXCEPT ![c] = f]
    BY <1>2, <2>1
  <2> QED  BY <1>1, <2>2, <2>3, <2>4
<1>3. ASSUME e.got.kind = "delay",
             caller' = [caller EXCEPT ![c] =
               [e EXCEPT !.tries = e.tries + 1, !.held = TRUE, !.pc = "prepare"]]
      PROVE  \E f \in CallerStates :
               /\ caller' = [caller EXCEPT ![c] = f]
               /\ f.n = e.n /\ f.slot = e.slot
               /\ f.pc = "prepare" /\ f.held /\ f.outcome = e.outcome /\ f.got = e.got
  <2>1. PICK f : f = [e EXCEPT !.tries = e.tries + 1, !.held = TRUE, !.pc = "prepare"]
    OBVIOUS
  <2>2. f \in CallerStates
    <3>1. e.tries + 1 \in Nat
      BY <1>1
    <3> QED  BY <1>1, <2>1, <3>1 DEF CallerStates, PCs
  <2>3. /\ f.n = e.n /\ f.slot = e.slot
        /\ f.pc = "prepare" /\ f.held /\ f.outcome = e.outcome /\ f.got = e.got
    BY <1>1, <2>1 DEF CallerStates
  <2> QED  BY <1>3, <2>1, <2>2, <2>3
<1>4. ASSUME e.got.kind = "seqDelay",
             caller' = [caller EXCEPT ![c] =
               [e EXCEPT !.tries = e.tries + 1, !.held = FALSE, !.pc = "send"]]
      PROVE  \E f \in CallerStates :
               /\ caller' = [caller EXCEPT ![c] = f]
               /\ f.pc = "send" /\ ~f.held /\ Same(e, f)
  <2>1. PICK f : f = [e EXCEPT !.tries = e.tries + 1, !.held = FALSE, !.pc = "send"]
    OBVIOUS
  <2>2. f \in CallerStates
    <3>1. e.tries + 1 \in Nat
      BY <1>1
    <3> QED  BY <1>1, <2>1, <3>1 DEF CallerStates, PCs
  <2>3. f.pc = "send" /\ ~f.held /\ Same(e, f)
    BY <1>1, <2>1 DEF CallerStates, Same
  <2> QED  BY <1>4, <2>1, <2>2, <2>3
<1>5. \/ caller' = [caller EXCEPT ![c] = End(c, e.got.kind)]
      \/ /\ e.got.kind = "delay"
         /\ caller' = [caller EXCEPT ![c] =
              [e EXCEPT !.tries = e.tries + 1, !.held = TRUE, !.pc = "prepare"]]
      \/ /\ e.got.kind = "seqDelay"
         /\ caller' = [caller EXCEPT ![c] =
              [e EXCEPT !.tries = e.tries + 1, !.held = FALSE, !.pc = "send"]]
  BY DEF Release
<1>6. CASE /\ e.got.kind = "delay"
           /\ caller' = [caller EXCEPT ![c] =
                [e EXCEPT !.tries = e.tries + 1, !.held = TRUE, !.pc = "prepare"]]
  BY <1>1, <1>3, <1>6
<1>7. CASE /\ e.got.kind = "seqDelay"
           /\ caller' = [caller EXCEPT ![c] =
                [e EXCEPT !.tries = e.tries + 1, !.held = FALSE, !.pc = "send"]]
  BY <1>1, <1>4, <1>7 DEF Same
<1> QED  BY <1>2, <1>5, <1>6, <1>7

LEMMA GetXidMoves ==
  ASSUME TypeOK, NEW c \in Callers, GetXid(c), NEW e, e = caller[c]
  PROVE  \E f \in CallerStates :
           /\ caller' = [caller EXCEPT ![c] = f]
           /\ e.pc = "send" /\ f.pc = "call" /\ f.xid = xid /\ Same(e, f) /\ f.held = e.held
<1>1. e \in CallerStates /\ e.pc = "send" /\ xid \in Nat
  BY DEF TypeOK, GetXid
<1>2. PICK f : f = [e EXCEPT !.xid = xid, !.pc = "call"]
  OBVIOUS
<1>3. f \in CallerStates /\ f.pc = "call" /\ f.xid = xid /\ Same(e, f) /\ f.held = e.held
  BY <1>1, <1>2 DEF CallerStates, PCs, Same
<1> QED  BY <1>1, <1>2, <1>3 DEF GetXid

LEMMA SendMoves ==
  ASSUME TypeOK, NEW c \in Callers, SendCall(c), NEW e, e = caller[c]
  PROVE  \E f \in CallerStates :
           /\ caller' = [caller EXCEPT ![c] = f]
           /\ e.pc = "call" /\ f.pc = "listen" /\ f.send = Len(deferred) + 1 /\ f.xid = e.xid
           /\ f.n = e.n /\ f.slot = e.slot /\ f.seqid = e.seqid /\ f.outcome = e.outcome /\ f.held = e.held
<1>1. e \in CallerStates /\ e.pc = "call" /\ Len(deferred) + 1 \in Nat
  BY DEF TypeOK, SendCall
<1>2. PICK f : f = [e EXCEPT !.send = Len(deferred) + 1, !.pc = "listen"]
  OBVIOUS
<1>3. /\ f \in CallerStates /\ f.pc = "listen" /\ f.send = Len(deferred) + 1 /\ f.xid = e.xid
      /\ f.n = e.n /\ f.slot = e.slot /\ f.seqid = e.seqid /\ f.outcome = e.outcome /\ f.held = e.held
  BY <1>1, <1>2 DEF CallerStates, PCs
<1> QED  BY <1>1, <1>2, <1>3 DEF SendCall

(* What listen returns, or raises.                                            *)
LEMMA ListenMoves ==
  ASSUME TypeOK, XidsOK, SendsOK, NEW c \in Callers, Listen(c), NEW e, e = caller[c]
  PROVE  \E f \in CallerStates, data \in Told :
           /\ caller' = [caller EXCEPT ![c] = f]
           /\ data \in Replies /\ data.send = e.send
           /\ e.pc = "listen" /\ f.n = e.n /\ f.slot = e.slot
           /\ \/ /\ f.pc = "idle" /\ f.held /\ f.outcome = "denied" /\ data.kind = "denied"
                 /\ UNCHANGED pending
              \/ /\ f.pc = "finish" /\ f.got = data /\ Same(e, f) /\ f.held = e.held
                 /\ pending' = Restrict(pending, DOMAIN pending \ {e.xid})
<1>1. e \in CallerStates /\ e.pc = "listen"
  BY DEF TypeOK, Listen
<1>2. PICK i : i = e.send /\ i = pending[e.xid] /\ e.xid \in DOMAIN pending /\ i \in 1..Len(deferred)
  BY <1>1 DEF XidsOK, TypeOK
<1>3. PICK data : data = deferred[i].data
  OBVIOUS
<1>4. data \in Told /\ data \in Replies /\ data.send = e.send /\ data # None
  <2>1. deferred[i].filled
    BY <1>2 DEF Listen, Filled
  <2>2. i \in DOMAIN deferred
    BY <1>2 DEF TypeOK
  <2> QED  BY <1>2, <1>3, <2>1, <2>2, CallsAssumption DEF Told, TypeOK, SendsOK
<1>5. CASE data.kind = "denied"
  <2>1. PICK f : f = End(c, "denied")
    OBVIOUS
  <2>2. f \in CallerStates /\ f.n = e.n /\ f.slot = e.slot /\ f.pc = "idle" /\ f.held /\ f.outcome = "denied"
    BY <2>1, EndTypes DEF End, IdleCaller, Kinds
  <2>3. caller' = [caller EXCEPT ![c] = f] /\ UNCHANGED pending
    BY <1>2, <1>3, <1>4, <1>5, <2>1 DEF Listen
  <2> QED  BY <1>1, <1>4, <1>5, <2>2, <2>3
<1>6. CASE data.kind # "denied"
  <2>1. PICK f : f = [e EXCEPT !.got = data, !.pc = "finish"]
    OBVIOUS
  <2>2. f \in CallerStates /\ f.pc = "finish" /\ f.got = data /\ Same(e, f) /\ f.held = e.held
    BY <1>1, <1>4, <2>1 DEF CallerStates, PCs, Same
  <2>3. /\ caller' = [caller EXCEPT ![c] = f]
        /\ pending' = Restrict(pending, DOMAIN pending \ {e.xid})
    BY <1>2, <1>3, <1>6, <2>1 DEF Listen
  <2> QED  BY <1>1, <1>4, <2>2, <2>3 DEF Same
<1> QED  BY <1>5, <1>6

LEMMA TimeOutMoves ==
  ASSUME TypeOK, NEW c \in Callers, TimeOut(c), NEW e, e = caller[c]
  PROVE  \E f \in CallerStates :
           /\ caller' = [caller EXCEPT ![c] = f]
           /\ e.pc = "listen" /\ f.pc = "idle" /\ f.outcome = "timeout" /\ f.n = e.n
           /\ f.slot = e.slot /\ f.held
<1>1. PICK f : f = End(c, "timeout")
  OBVIOUS
<1>2. f \in CallerStates /\ f.n = e.n /\ f.slot = e.slot /\ f.pc = "idle" /\ f.held /\ f.outcome = "timeout"
  BY <1>1, EndTypes DEF End, IdleCaller
<1> QED  BY <1>1, <1>2 DEF TimeOut

LEMMA InitHolds == Init => IInv
<1> SUFFICES ASSUME Init PROVE IInv
  OBVIOUS
<1>1. /\ \A c \in Callers : caller[c] = IdleCaller /\ caller[c].pc = "idle" /\ caller[c].n = 0
         /\ caller[c].held /\ caller[c].outcome = "none"
      /\ \A s \in Slots : ~slots[s].inuse /\ slots[s].seqid = 0 /\ server[s].seqid = 0
      /\ Len(deferred) = 0 /\ DOMAIN deferred = {} /\ DOMAIN pending = {}
  BY DEF Init, IdleCaller
<1>2. TypeOK
  <2>1. caller \in [Callers -> CallerStates]
    BY BasicTypes DEF Init
  <2>2. slots \in [Slots -> SlotStates] /\ server \in [Slots -> ServerSlots]
    BY DEF Init, SlotStates, ServerSlots, Kinds
  <2>3. deferred \in Seq(Deferreds) /\ executed \in [Compounds -> Nat]
    BY DEF Init
  <2>4. begun \in 0..MaxCompounds /\ begun = 0
    BY BasicTypes DEF Init
  <2> QED  BY <1>1, <2>1, <2>2, <2>3, <2>4 DEF TypeOK, Init
<1>3. Told = {}
  BY <1>1 DEF Told, Init
<1>4. XidsOK /\ SendsOK /\ RequestsOK
  BY <1>1, <1>3 DEF XidsOK, SendsOK, RequestsOK, Init
<1>5. CallersOK
  <2>1. \A c \in Callers, n \in 1..MaxCompounds : executed[<<c, n>>] = 0
    BY DEF Init, Compounds
  <2> QED  BY <1>1, <1>3, <2>1 DEF CallersOK, CallerKnows, Busy
<1>6. SlotsOK
  <2>1. \A s \in Slots : Users(s) = {}
    BY <1>1 DEF Users, Using
  <2> QED  BY <1>1, <2>1 DEF SlotsOK, SlotOK, Init
<1> QED  BY <1>2, <1>4, <1>5, <1>6 DEF IInv

(* What is kept of the type of the callers when one of them moves.            *)
CallerOK(e) ==
  /\ e.n <= begun
  /\ e.pc \in {"finish", "release"} => e.got \in Replies
  /\ e.pc = "prepare" /\ e.tries > 0 => e.got \in Replies /\ e.got.kind = "delay"

LEMMA CallersKept ==
  ASSUME TypeOK, NEW c \in Callers, NEW f \in CallerStates, caller' = [caller EXCEPT ![c] = f],
         begun' = begun \/ begun' = begun + 1, CallerOK(f)'
  PROVE  /\ caller' \in [Callers -> CallerStates]
         /\ \A d \in Callers : CallerOK(caller[d])'
<1>1. caller' \in [Callers -> CallerStates]
  BY DEF TypeOK
<1>2. ASSUME NEW d \in Callers
      PROVE  CallerOK(caller[d])'
  <2>1. CASE d = c
    BY <2>1 DEF TypeOK
  <2>2. CASE d # c
    <3>1. caller'[d] = caller[d] /\ CallerOK(caller[d])
      BY <2>2 DEF TypeOK, CallerOK
    <3>2. caller[d].n <= begun'
      <4>1. PICK n : n = caller[d].n
        OBVIOUS
      <4>2. caller[d] \in CallerStates /\ begun \in 0..MaxCompounds /\ n <= begun
        BY <4>1 DEF TypeOK
      <4>3. n \in 0..MaxCompounds
        BY <4>1, <4>2 DEF CallerStates
      <4>4. n <= begun'
        BY <4>2, <4>3, BasicTypes
      <4> QED  BY <4>1, <4>4
    <3> QED  BY <3>1, <3>2 DEF CallerOK
  <2> QED  BY <2>1, <2>2
<1> QED  BY <1>1, <1>2

\* The parts of TypeOK that are about the pipe, and about the channel
PipeTypes ==
  /\ xid \in Nat
  /\ DOMAIN pending \in SUBSET Nat /\ \A x \in DOMAIN pending : pending[x] \in 1..Len(deferred)
  /\ deferred \in Seq(Deferreds)
  /\ \A i \in 1..Len(deferred) : deferred[i].filled => deferred[i].data \in Replies
  /\ \A h \in handlers : h.deferred \in 1..Len(deferred)

NetTypes ==
  /\ handlers \in SUBSET Handlers
  /\ requests \in SUBSET Requests /\ replies \in SUBSET Replies
  /\ connected \in BOOLEAN

ServerTypes ==
  /\ server \in [Slots -> ServerSlots]
  /\ executed \in [Compounds -> Nat]
  /\ faults \in Nat

CallerTypes == caller \in [Callers -> CallerStates] /\ \A c \in Callers : CallerOK(caller[c])

SlotTypes ==
  slots \in [Slots -> SlotStates] /\ begun \in 0..MaxCompounds /\ adrift \in SUBSET Slots

LEMMA TypeParts ==
  ASSUME PipeTypes', NetTypes', ServerTypes', CallerTypes', SlotTypes'
  PROVE  TypeOK'
BY DEF TypeOK, PipeTypes, NetTypes, ServerTypes, CallerTypes, SlotTypes, CallerOK

LEMMA PipeStays ==
  ASSUME TypeOK, UNCHANGED <<pipeVars, handlers>>
  PROVE  PipeTypes'
BY DEF TypeOK, PipeTypes, pipeVars

LEMMA NetStays ==
  ASSUME TypeOK, UNCHANGED netVars
  PROVE  NetTypes'
BY DEF TypeOK, NetTypes, netVars

LEMMA ServerStays ==
  ASSUME TypeOK, UNCHANGED <<serverVars, faults>>
  PROVE  ServerTypes'
BY DEF TypeOK, ServerTypes, serverVars

LEMMA CallersStay ==
  ASSUME TypeOK, UNCHANGED <<caller, begun>>
  PROVE  CallerTypes'
BY DEF TypeOK, CallerTypes, CallerOK

LEMMA SlotsStay ==
  ASSUME TypeOK, UNCHANGED <<slots, begun>>, adrift' \in SUBSET Slots
  PROVE  SlotTypes'
BY DEF TypeOK, SlotTypes

LEMMA CallerMoves ==
  ASSUME TypeOK, NEW c \in Callers, NEW f \in CallerStates, caller' = [caller EXCEPT ![c] = f],
         UNCHANGED begun, f.n = caller[c].n,
         f.pc \in {"finish", "release"} => f.got \in Replies,
         f.pc = "prepare" /\ f.tries > 0 => f.got \in Replies /\ f.got.kind = "delay"
  PROVE  CallerTypes'
<1>1. CallerOK(f)'
  BY DEF TypeOK, CallerOK
<1> QED  BY <1>1, CallersKept DEF CallerTypes

LEMMA SlotChanges ==
  ASSUME TypeOK, NEW s \in Slots, NEW q \in Nat, NEW b \in BOOLEAN,
         slots' = [slots EXCEPT ![s].inuse = b] \/ slots' = [slots EXCEPT ![s].seqid = q],
         UNCHANGED begun, adrift' \in SUBSET Slots
  PROVE  SlotTypes'
<1>1. ASSUME NEW e \in SlotStates
      PROVE  [e EXCEPT !.inuse = b] \in SlotStates /\ [e EXCEPT !.seqid = q] \in SlotStates
  BY DEF SlotStates
<1>2. slots \in [Slots -> SlotStates] /\ slots[s] \in SlotStates
  BY DEF TypeOK
<1>3. slots' \in [Slots -> SlotStates]
  BY <1>1, <1>2
<1> QED  BY <1>3 DEF TypeOK, SlotTypes

(* What SendCall makes of the sequence of DeferredData.                       *)
LEMMA Longer ==
  ASSUME TypeOK, deferred' = Append(deferred, Empty)
  PROVE  /\ deferred' \in Seq(Deferreds) /\ Len(deferred) \in Nat
         /\ Len(deferred') = Len(deferred) + 1
         /\ \A i \in 1..Len(deferred) : deferred'[i] = deferred[i]
         /\ ~deferred'[Len(deferred) + 1].filled
         /\ DOMAIN deferred = 1..Len(deferred) /\ DOMAIN deferred' = 1..Len(deferred')
<1>1. deferred \in Seq(Deferreds) /\ Empty \in Deferreds /\ ~Empty.filled
  BY BasicTypes DEF TypeOK, Empty
<1>2. ASSUME NEW S, NEW q \in Seq(S), NEW x \in S
      PROVE  /\ Append(q, x) \in Seq(S) /\ Len(q) \in Nat
             /\ Len(Append(q, x)) = Len(q) + 1
             /\ \A i \in 1..Len(q) : Append(q, x)[i] = q[i]
             /\ Append(q, x)[Len(q) + 1] = x
             /\ DOMAIN q = 1..Len(q) /\ DOMAIN Append(q, x) = 1..Len(Append(q, x))
  OBVIOUS
<1>3. /\ deferred' \in Seq(Deferreds) /\ Len(deferred) \in Nat
      /\ Len(deferred') = Len(deferred) + 1
      /\ \A i \in 1..Len(deferred) : deferred'[i] = deferred[i]
      /\ deferred'[Len(deferred) + 1] = Empty
      /\ DOMAIN deferred = 1..Len(deferred) /\ DOMAIN deferred' = 1..Len(deferred')
  BY <1>1, <1>2
<1> QED  BY <1>1, <1>3

LEMMA RequestTypes ==
  ASSUME TypeOK, NEW c \in Callers, NEW send \in Nat, caller[c].n > 0
  PROVE  Request(c, send) \in Requests /\ Compound(c) \in Compounds
<1>1. caller[c] \in CallerStates
  BY DEF TypeOK
<1>2. caller[c].n \in 1..MaxCompounds
  <2>1. caller[c].n \in 0..MaxCompounds
    BY <1>1 DEF CallerStates
  <2> QED  BY <2>1, BasicTypes
<1>3. Compound(c) \in Compounds
  BY <1>2 DEF Compound, Compounds
<1> QED  BY <1>1, <1>3 DEF Request, Requests, CallerStates

LEMMA RunsTypes ==
  ASSUME TypeOK, XidsOK, SendsOK, CallersOK, NEW c \in Callers, Start(c) \/ Step(c)
  PROVE  TypeOK'
<1> PICK e : e = caller[c]
  OBVIOUS
<1>0. e \in CallerStates /\ CallerOK(e) /\ e.slot \in Slots /\ adrift \in SUBSET Slots
  <2>1. e \in CallerStates
    BY DEF TypeOK
  <2> QED  BY <2>1 DEF TypeOK, CallerOK, CallerStates
<1>1. CASE Start(c)
  <2>1. UNCHANGED <<pipeVars, slots, netVars, serverVars, adrift, faults>> /\ begun' = begun + 1
        /\ begun < MaxCompounds
    BY <1>1 DEF Start
  <2>2. PICK f \in CallerStates :
           /\ caller' = [caller EXCEPT ![c] = f]
           /\ e.pc = "idle" /\ f.pc = "prepare" /\ f.n = e.n + 1 /\ f.tries = 0 /\ f.held
           /\ f.outcome = "none"
    BY <1>1, StartMoves
  <2>3. begun' \in 0..MaxCompounds /\ e.n + 1 <= begun'
    <3>1. begun \in 0..MaxCompounds
      BY DEF TypeOK
    <3>2. e.n \in 0..MaxCompounds /\ e.n <= begun
      BY <1>0 DEF CallerStates, CallerOK
    <3> QED  BY <2>1, <3>1, <3>2, BasicTypes
  <2>4. CallerOK(f)'
    BY <2>2, <2>3 DEF CallerOK
  <2>5. CallerTypes'
    BY <2>1, <2>2, <2>4, CallersKept DEF CallerTypes
  <2>6. SlotTypes'
    BY <2>1, <2>3 DEF SlotTypes, TypeOK
  <2>7. PipeTypes' /\ NetTypes' /\ ServerTypes'
    BY <2>1, PipeStays, NetStays, ServerStays DEF netVars
  <2> QED  BY <2>5, <2>6, <2>7, TypeParts
<1>2. CASE Prepare(c)
  <2>1. UNCHANGED <<pipeVars, netVars, serverVars, begun, faults>>
    BY <1>2 DEF Prepare
  <2>2. PICK f \in CallerStates :
           /\ caller' = [caller EXCEPT ![c] = f]
           /\ e.pc = "prepare" /\ f.n = e.n /\ f.held
           /\ \/ /\ f.pc = "idle" /\ f.outcome = "outOfSlots" /\ f.slot = e.slot
                 /\ UNCHANGED <<slots, adrift>>
              \/ \E s \in Slots :
                   /\ ~slots[s].inuse
                   /\ slots' = [slots EXCEPT ![s].inuse = TRUE]
                   /\ adrift' = IF Unheld(s) = {} THEN adrift ELSE adrift \cup {s}
                   /\ \/ f.pc = "idle" /\ f.outcome = "delay" /\ f.slot = e.slot
                      \/ /\ f.pc = "send" /\ f.outcome = e.outcome
                         /\ f.slot = s /\ f.seqid = get_seqid(s)
    BY <1>2, PrepareMoves
  <2>3. CallerTypes'
    BY <2>1, <2>2, CallerMoves
  <2>4. SlotTypes'
    <3>1. CASE UNCHANGED <<slots, adrift>>
      BY <1>0, <2>1, <3>1, SlotsStay
    <3>2. CASE \E s \in Slots :
                 /\ slots' = [slots EXCEPT ![s].inuse = TRUE]
                 /\ adrift' = IF Unheld(s) = {} THEN adrift ELSE adrift \cup {s}
      <4>1. PICK s \in Slots :
                 /\ slots' = [slots EXCEPT ![s].inuse = TRUE]
                 /\ adrift' = IF Unheld(s) = {} THEN adrift ELSE adrift \cup {s}
        BY <3>2
      <4>2. adrift' \in SUBSET Slots /\ 0 \in Nat /\ TRUE \in BOOLEAN
        BY <1>0, <4>1
      <4> QED  BY <2>1, <4>1, <4>2, SlotChanges
    <3> QED  BY <2>2, <3>1, <3>2
  <2>5. PipeTypes' /\ NetTypes' /\ ServerTypes'
    BY <2>1, PipeStays, NetStays, ServerStays DEF netVars
  <2> QED  BY <2>3, <2>4, <2>5, TypeParts
<1>3. CASE GetXid(c)
  <2>1. UNCHANGED <<pending, deferred, slots, netVars, serverVars, begun, adrift, faults>>
        /\ xid' = xid + 1
    BY <1>3 DEF GetXid
  <2>2. PICK f \in CallerStates :
           /\ caller' = [caller EXCEPT ![c] = f]
           /\ e.pc = "send" /\ f.pc = "call" /\ f.xid = xid /\ Same(e, f) /\ f.held = e.held
    BY <1>3, GetXidMoves
  <2>3. CallerTypes'
    BY <2>1, <2>2, CallerMoves DEF Same
  <2>4. PipeTypes'
    BY <2>1 DEF TypeOK, PipeTypes, netVars
  <2>5. NetTypes' /\ ServerTypes' /\ SlotTypes'
    BY <1>0, <2>1, NetStays, ServerStays, SlotsStay
  <2> QED  BY <2>3, <2>4, <2>5, TypeParts
<1>5. CASE Listen(c)
  <2>1. UNCHANGED <<xid, deferred, slots, netVars, serverVars, begun, adrift, faults>>
    BY <1>5 DEF Listen
  <2>2. PICK f \in CallerStates, data \in Told :
           /\ caller' = [caller EXCEPT ![c] = f]
           /\ data \in Replies /\ data.send = e.send
           /\ e.pc = "listen" /\ f.n = e.n /\ f.slot = e.slot
           /\ \/ /\ f.pc = "idle" /\ f.held /\ f.outcome = "denied" /\ data.kind = "denied"
                 /\ UNCHANGED pending
              \/ /\ f.pc = "finish" /\ f.got = data /\ Same(e, f) /\ f.held = e.held
                 /\ pending' = Restrict(pending, DOMAIN pending \ {e.xid})
    BY <1>5, ListenMoves
  <2>3. CallerTypes'
    BY <2>1, <2>2, CallerMoves
  <2>4. PipeTypes'
    <3>1. pending' = pending \/ pending' = [x \in DOMAIN pending \ {e.xid} |-> pending[x]]
      BY <2>2 DEF Restrict
    <3>2. DOMAIN pending' \subseteq DOMAIN pending /\ \A x \in DOMAIN pending' : pending'[x] = pending[x]
      BY <3>1
    <3> QED  BY <2>1, <3>2 DEF TypeOK, PipeTypes, netVars
  <2>5. NetTypes' /\ ServerTypes' /\ SlotTypes'
    BY <1>0, <2>1, NetStays, ServerStays, SlotsStay
  <2> QED  BY <2>3, <2>4, <2>5, TypeParts
<1>6. CASE TimeOut(c)
  <2>1. UNCHANGED <<pipeVars, slots, netVars, serverVars, begun, faults>>
        /\ adrift' = IF e.held THEN adrift ELSE adrift \cup {e.slot}
    BY <1>6 DEF TimeOut
  <2>2. PICK f \in CallerStates :
           /\ caller' = [caller EXCEPT ![c] = f]
           /\ e.pc = "listen" /\ f.pc = "idle" /\ f.outcome = "timeout" /\ f.n = e.n
           /\ f.slot = e.slot /\ f.held
    BY <1>6, TimeOutMoves
  <2>3. CallerTypes'
    BY <2>1, <2>2, CallerMoves
  <2>4. adrift' \in SUBSET Slots
    BY <1>0, <2>1
  <2>5. PipeTypes' /\ NetTypes' /\ ServerTypes' /\ SlotTypes'
    BY <2>1, <2>4, PipeStays, NetStays, ServerStays, SlotsStay DEF netVars
  <2> QED  BY <2>3, <2>5, TypeParts
<1>7. CASE FinishCall(c)
  <2>1. UNCHANGED <<pipeVars, netVars, serverVars, begun, adrift, faults>>
    BY <1>7 DEF FinishCall
  <2>2. PICK f \in CallerStates :
           /\ caller' = [caller EXCEPT ![c] = f]
           /\ e.pc = "finish" /\ f.pc = "release" /\ Same(e, f) /\ f.got = e.got /\ f.held = e.held
    BY <1>7, FinishMoves
  <2>3. e.got \in Replies
    BY <1>0, <2>2 DEF CallerOK
  <2>4. CallerTypes'
    BY <2>1, <2>2, <2>3, CallerMoves DEF Same
  <2>5. SlotTypes'
    <3>1. PICK q : q = IF SeqOK(e.got.kind) THEN e.got.seqid ELSE slots[e.slot].seqid
      OBVIOUS
    <3>2. q \in Nat
      <4>1. e.got.seqid \in Nat
        BY <2>3 DEF Replies
      <4>2. slots[e.slot].seqid \in Nat
        BY <1>0 DEF TypeOK, SlotStates
      <4> QED  BY <3>1, <4>1, <4>2
    <3>3. slots' = [slots EXCEPT ![e.slot].seqid = q]
      BY <1>7, <3>1 DEF FinishCall
    <3> QED  BY <1>0, <2>1, <3>2, <3>3, SlotChanges
  <2>6. PipeTypes' /\ NetTypes' /\ ServerTypes'
    BY <2>1, PipeStays, NetStays, ServerStays DEF netVars
  <2> QED  BY <2>4, <2>5, <2>6, TypeParts
<1>8. CASE Release(c)
  <2>1. UNCHANGED <<pipeVars, netVars, serverVars, begun, adrift, faults>>
        /\ slots' = [slots EXCEPT ![e.slot].inuse = FALSE]
    BY <1>8 DEF Release
  <2>2. PICK f \in CallerStates :
           /\ caller' = [caller EXCEPT ![c] = f]
           /\ e.pc = "release" /\ f.n = e.n /\ f.slot = e.slot
           /\ \/ /\ f.pc = "idle" /\ f.outcome = e.got.kind /\ f.held
                 /\ f.outcome = "ok" => f.got = e.got
              \/ /\ f.pc = "prepare" /\ e.got.kind = "delay" /\ f.held /\ f.outcome = e.outcome
                 /\ f.got = e.got
              \/ f.pc = "send" /\ e.got.kind = "seqDelay" /\ ~f.held /\ Same(e, f)
    BY <1>8, ReleaseMoves
  <2>3. e.got \in Replies
    BY <1>0, <2>2 DEF CallerOK
  <2>4. CallerTypes'
    BY <2>1, <2>2, <2>3, CallerMoves
  <2>5. SlotTypes'
    <3>1. 0 \in Nat /\ FALSE \in BOOLEAN
      OBVIOUS
    <3> QED  BY <1>0, <2>1, <3>1, SlotChanges
  <2>6. PipeTypes' /\ NetTypes' /\ ServerTypes'
    BY <2>1, PipeStays, NetStays, ServerStays DEF netVars
  <2> QED  BY <2>4, <2>5, <2>6, TypeParts
<1>4. CASE SendCall(c)
  <2>1. UNCHANGED <<xid, slots, handlers, replies, connected, serverVars, begun, adrift, faults>>
        /\ deferred' = Append(deferred, Empty)
        /\ pending' = Registered(e.xid, Len(deferred) + 1)
        /\ requests' \subseteq requests \cup {Request(c, Len(deferred) + 1)}
    BY <1>4 DEF SendCall
  <2>2. PICK f \in CallerStates :
           /\ caller' = [caller EXCEPT ![c] = f]
           /\ e.pc = "call" /\ f.pc = "listen" /\ f.send = Len(deferred) + 1 /\ f.xid = e.xid
           /\ f.n = e.n /\ f.slot = e.slot /\ f.seqid = e.seqid /\ f.outcome = e.outcome /\ f.held = e.held
    BY <1>4, SendMoves
  <2>3. CallerTypes'
    BY <2>1, <2>2, CallerMoves
  <2>4. /\ deferred' \in Seq(Deferreds) /\ Len(deferred) \in Nat
        /\ Len(deferred') = Len(deferred) + 1
        /\ \A i \in 1..Len(deferred) : deferred'[i] = deferred[i]
        /\ ~deferred'[Len(deferred) + 1].filled
    BY <2>1, Longer
  <2>5. PICK send \in Nat : send = Len(deferred) + 1
    BY <2>4
  <2>6. Request(c, send) \in Requests
    <3>1. caller[c].n > 0
      BY <2>2 DEF CallersOK, CallerKnows, Busy
    <3> QED  BY <3>1, RequestTypes
  <2>7. NetTypes'
    BY <2>1, <2>5, <2>6 DEF TypeOK, NetTypes
  <2>8. PipeTypes'
    <3>1. e.xid \in Nat
      BY <1>0 DEF CallerStates
    <3>2. \A i \in 1..Len(deferred') : i \in 1..Len(deferred) \/ i = Len(deferred) + 1
      BY <2>4
    <3>3. \A i \in 1..Len(deferred') : deferred'[i].filled => deferred'[i].data \in Replies
      BY <2>4, <3>2 DEF TypeOK
    <3>4. /\ DOMAIN pending' = DOMAIN pending \cup {e.xid}
          /\ \A x \in DOMAIN pending' : pending'[x] = send \/ (x \in DOMAIN pending /\ pending'[x] = pending[x])
      BY <2>1, <2>5 DEF Registered
    <3>5. send \in 1..Len(deferred') /\ \A i \in 1..Len(deferred) : i \in 1..Len(deferred')
      BY <2>4, <2>5
    <3> QED  BY <2>1, <2>4, <3>1, <3>3, <3>4, <3>5 DEF TypeOK, PipeTypes
  <2>9. ServerTypes' /\ SlotTypes'
    BY <1>0, <2>1, ServerStays, SlotsStay
  <2> QED  BY <2>3, <2>7, <2>8, <2>9, TypeParts
<1> QED  BY <1>1, <1>2, <1>3, <1>4, <1>5, <1>6, <1>7, <1>8 DEF Step

-----------------------------------------------------------------------------
(* The steps of the network and of the threads that receive                   *)

Alike(x, y) ==
  x.xid = y.xid /\ x.send = y.send /\ x.seqid = y.seqid /\ x.kind = y.kind /\ x.of = y.of

\* Replies get about, or get lost; nothing is said that was not said before.
Carries ==
  /\ UNCHANGED <<xid, pending, slots, caller, begun, adrift, serverVars>>
  /\ requests' \subseteq requests
  /\ Len(deferred') = Len(deferred)
  /\ \A x \in replies' : \E y \in replies : Alike(x, y)
  /\ \A x \in Told' : \E y \in Told : Alike(x, y)

LEMMA ToldTypes ==
  ASSUME TypeOK
  PROVE  /\ Told \in SUBSET Replies
         /\ \A x : x \in Told <=>
              \/ x \in replies
              \/ \E h \in handlers : x = h.reply
              \/ \E i \in 1..Len(deferred) : deferred[i].filled /\ x = deferred[i].data
<1>1. DOMAIN deferred = 1..Len(deferred)
  BY DEF TypeOK
<1>2. \A h \in handlers : h.reply \in Replies
  BY DEF TypeOK, Handlers
<1> QED  BY <1>1, <1>2 DEF Told, TypeOK

LEMMA ToldNext ==
  ASSUME TypeOK'
  PROVE  \A x : x \in Told' =>
              \/ x \in replies'
              \/ \E h \in handlers' : x = h.reply
              \/ \E i \in 1..Len(deferred') : deferred'[i].filled /\ x = deferred'[i].data
<1>1. DOMAIN deferred' = 1..Len(deferred')
  BY DEF TypeOK
<1> QED  BY <1>1 DEF Told

LEMMA FillsOne ==
  ASSUME TypeOK, NEW h \in handlers, Fill(h)
  PROVE  /\ h.deferred \in 1..Len(deferred) /\ h.reply \in Replies
         /\ deferred' \in Seq(Deferreds) /\ Len(deferred') = Len(deferred)
         /\ deferred'[h.deferred] = [filled |-> TRUE, data |-> h.reply]
         /\ \A i \in 1..Len(deferred) : i # h.deferred => deferred'[i] = deferred[i]
<1>1. h.deferred \in 1..Len(deferred) /\ h.reply \in Replies
  BY DEF TypeOK, Handlers
<1>2. PICK d \in Deferreds : d = [filled |-> TRUE, data |-> h.reply]
  BY <1>1 DEF Deferreds
<1>3. ASSUME NEW S, NEW q \in Seq(S), NEW i \in 1..Len(q), NEW x \in S
      PROVE  /\ [q EXCEPT ![i] = x] \in Seq(S) /\ Len([q EXCEPT ![i] = x]) = Len(q)
             /\ [q EXCEPT ![i] = x][i] = x
             /\ \A j \in 1..Len(q) : j # i => [q EXCEPT ![i] = x][j] = q[j]
  OBVIOUS
<1>4. deferred \in Seq(Deferreds) /\ deferred' = [deferred EXCEPT ![h.deferred] = d]
  BY <1>2 DEF TypeOK, Fill
<1>5. /\ deferred' \in Seq(Deferreds) /\ Len(deferred') = Len(deferred)
      /\ deferred'[h.deferred] = d
      /\ \A i \in 1..Len(deferred) : i # h.deferred => deferred'[i] = deferred[i]
  BY <1>1, <1>3, <1>4
<1> QED  BY <1>1, <1>2, <1>5

LEMMA CarriesTypes ==
  ASSUME TypeOK, XidsOK, SendsOK,
         \/ \E r \in replies : LookUp(r) \/ Duplicate(r)
         \/ \E h \in handlers : Fill(h)
         \/ Close
  PROVE  /\ TypeOK' /\ Carries
         /\ \A h \in handlers' : h.deferred = h.reply.send
         /\ \A i \in 1..Len(deferred') : deferred'[i].filled => deferred'[i].data.send = i
<1>1. CASE \E r \in replies : LookUp(r)
  <2>1. PICK r \in replies : LookUp(r)
    BY <1>1
  <2>2. /\ UNCHANGED <<pipeVars, slots, caller, requests, connected, serverVars, begun, adrift, faults>>
        /\ replies' \subseteq replies
        /\ \A h \in handlers' : h \in handlers \/
             (r.xid \in DOMAIN pending /\ h = [reply |-> r, deferred |-> pending[r.xid]])
    BY <2>1 DEF LookUp
  <2>3. \A h \in handlers' : h \in handlers \/
          (h.reply = r /\ h.deferred = r.send /\ h \in Handlers /\ h.deferred \in 1..Len(deferred))
    <3>1. ASSUME r.xid \in DOMAIN pending
          PROVE  pending[r.xid] = r.send /\ r.send \in 1..Len(deferred) /\ r.send \in Nat
      BY <3>1 DEF XidsOK, TypeOK
    <3>2. r \in Replies
      BY DEF TypeOK
    <3> QED  BY <2>2, <3>1, <3>2 DEF Handlers
  <2>4. TypeOK'
    <3>1. PipeTypes'
      BY <2>2, <2>3 DEF TypeOK, PipeTypes, pipeVars
    <3>2. NetTypes'
      BY <2>2, <2>3 DEF TypeOK, NetTypes
    <3> QED  BY <2>2, <3>1, <3>2, ServerStays, CallersStay, SlotsStay, TypeParts DEF TypeOK
  <2>5. Told' \subseteq Told
    BY <2>2, <2>3, <2>4, ToldTypes, ToldNext DEF pipeVars
  <2>6. Carries
    BY <2>2, <2>5 DEF Carries, Alike, pipeVars
  <2> QED  BY <2>2, <2>3, <2>4, <2>6 DEF SendsOK, pipeVars
<1>2. CASE \E r \in replies : Duplicate(r)
  <2>1. PICK r \in replies : Duplicate(r)
    BY <1>2
  <2>2. PICK q : q = [r EXCEPT !.copy = 2]
    OBVIOUS
  <2>3. q \in Replies /\ Alike(q, r)
    <3>1. r \in Replies
      BY DEF TypeOK
    <3> QED  BY <2>2, <3>1 DEF Replies, Alike
  <2>4. /\ UNCHANGED <<pipeVars, slots, caller, handlers, requests, connected, serverVars, begun, adrift>>
        /\ replies' = replies \cup {q} /\ faults' = faults + 1
    BY <2>1, <2>2 DEF Duplicate, Fault
  <2>5. TypeOK'
    <3>1. NetTypes' /\ ServerTypes'
      BY <2>3, <2>4 DEF TypeOK, NetTypes, ServerTypes, serverVars
    <3> QED  BY <2>4, <3>1, PipeStays, CallersStay, SlotsStay, TypeParts DEF TypeOK
  <2>6. Told' = Told \cup {q}
    BY <2>4 DEF Told, pipeVars
  <2>7. r \in Told
    BY DEF Told
  <2>8. Carries
    BY <2>3, <2>4, <2>6, <2>7 DEF Carries, Alike, pipeVars
  <2> QED  BY <2>4, <2>5, <2>8 DEF SendsOK, pipeVars
<1>3. CASE \E h \in handlers : Fill(h)
  <2>1. PICK h \in handlers : Fill(h)
    BY <1>3
  <2>2. /\ UNCHANGED <<xid, pending, slots, caller, requests, replies, connected, serverVars, begun,
                       adrift, faults>>
        /\ handlers' \subseteq handlers
    BY <2>1 DEF Fill
  <2>3. /\ h.deferred \in 1..Len(deferred) /\ h.reply \in Replies
        /\ deferred' \in Seq(Deferreds) /\ Len(deferred') = Len(deferred)
        /\ deferred'[h.deferred] = [filled |-> TRUE, data |-> h.reply]
        /\ \A i \in 1..Len(deferred) : i # h.deferred => deferred'[i] = deferred[i]
    BY <2>1, FillsOne
  <2>4. TypeOK'
    <3>1. PipeTypes'
      <4>1. ASSUME NEW i \in 1..Len(deferred), deferred'[i].filled
            PROVE  deferred'[i].data \in Replies
        <5>1. CASE i = h.deferred
          BY <2>3, <5>1
        <5>2. CASE i # h.deferred
          BY <2>3, <4>1, <5>2 DEF TypeOK
        <5> QED  BY <5>1, <5>2
      <4> QED  BY <2>2, <2>3, <4>1 DEF TypeOK, PipeTypes
    <3>2. NetTypes'
      BY <2>2 DEF TypeOK, NetTypes
    <3> QED  BY <2>2, <3>1, <3>2, ServerStays, CallersStay, SlotsStay, TypeParts DEF TypeOK
  <2>5. Told' \subseteq Told
    <3>1. ASSUME NEW i \in 1..Len(deferred), deferred'[i].filled
          PROVE  deferred'[i].data \in Told
      <4>1. CASE i = h.deferred
        BY <2>3, <4>1, ToldTypes
      <4>2. CASE i # h.deferred
        BY <2>3, <3>1, <4>2, ToldTypes
      <4> QED  BY <4>1, <4>2
    <3> QED  BY <2>2, <2>3, <2>4, <3>1, ToldTypes, ToldNext
  <2>6. Carries
    BY <2>2, <2>3, <2>5 DEF Carries, Alike
  <2>7. \A i \in 1..Len(deferred) : deferred'[i].filled => deferred'[i].data.send = i
    BY <2>3 DEF SendsOK
  <2> QED  BY <2>2, <2>3, <2>4, <2>6, <2>7 DEF SendsOK
<1>4. CASE Close
  <2>1. /\ UNCHANGED <<pipeVars, slots, caller, handlers, serverVars, begun, adrift>>
        /\ requests' = {} /\ replies' = {} /\ connected' = FALSE /\ faults' = faults + 1
    BY <1>4 DEF Close, Fault
  <2>2. TypeOK'
    <3>1. NetTypes'
      BY <2>1 DEF TypeOK, NetTypes
    <3>2. faults' \in Nat
      BY <2>1 DEF TypeOK
    <3>3. ServerTypes'
      BY <2>1, <3>2 DEF TypeOK, ServerTypes, serverVars
    <3> QED  BY <2>1, <3>1, <3>3, PipeStays, CallersStay, SlotsStay, TypeParts DEF TypeOK
  <2>3. Told' \subseteq Told
    BY <2>1 DEF Told, pipeVars
  <2>4. Carries
    BY <2>1, <2>3 DEF Carries, Alike, pipeVars
  <2> QED  BY <2>1, <2>2, <2>4 DEF SendsOK, pipeVars
<1> QED  BY <1>1, <1>2, <1>3, <1>4

LEMMA AnswersTypes ==
  ASSUME TypeOK, NEW r \in requests,
         Accept(r, "ok") \/ Accept(r, "delay") \/ DelaySequence(r) \/ Refuse(r) \/ Deny(r)
  PROVE  /\ TypeOK'
         /\ UNCHANGED <<pipeVars, slots, caller, handlers, begun, adrift>>
         /\ requests' = requests \ {r}
         /\ \E x \in Replies :
              /\ replies' = replies \cup {x} /\ Told' = Told \cup {x}
              /\ x.xid = r.xid /\ x.send = r.send
              /\ \/ /\ InOrder(r) /\ x.kind \in {"ok", "delay"}
                    /\ x.of = r.of /\ x.seqid = r.seqid
                    /\ \E y \in ServerSlots : y.seqid = r.seqid /\ server' = [server EXCEPT ![r.slot] = y]
                    /\ executed' = IF x.kind = "ok" THEN [executed EXCEPT ![r.of] = @ + 1] ELSE executed
                 \/ ~InOrder(r) /\ UNCHANGED serverVars
                 \/ x.kind \in {"seqDelay", "denied"} /\ UNCHANGED serverVars
<1> DEFINE Goal ==
         /\ TypeOK'
         /\ UNCHANGED <<pipeVars, slots, caller, handlers, begun, adrift>>
         /\ requests' = requests \ {r}
         /\ \E x \in Replies :
              /\ replies' = replies \cup {x} /\ Told' = Told \cup {x}
              /\ x.xid = r.xid /\ x.send = r.send
              /\ \/ /\ InOrder(r) /\ x.kind \in {"ok", "delay"}
                    /\ x.of = r.of /\ x.seqid = r.seqid
                    /\ \E y \in ServerSlots : y.seqid = r.seqid /\ server' = [server EXCEPT ![r.slot] = y]
                    /\ executed' = IF x.kind = "ok" THEN [executed EXCEPT ![r.of] = @ + 1] ELSE executed
                 \/ ~InOrder(r) /\ UNCHANGED serverVars
                 \/ x.kind \in {"seqDelay", "denied"} /\ UNCHANGED serverVars
<1>1. r \in Requests
  BY DEF TypeOK
<1>2. r.xid \in Nat /\ r.send \in Nat /\ r.seqid \in Nat /\ r.slot \in Slots /\ r.of \in Compounds
  BY <1>1 DEF Requests
<1>3. server[r.slot] \in ServerSlots /\ faults \in Nat /\ executed \in [Compounds -> Nat]
  BY <1>2 DEF TypeOK
<1>4. ASSUME NEW x \in Replies, Answer(r, x)
      PROVE  /\ UNCHANGED <<pipeVars, slots, caller, handlers, begun, adrift>>
             /\ requests' = requests \ {r}
             /\ replies' = replies \cup {x} /\ Told' = Told \cup {x}
             /\ PipeTypes' /\ NetTypes' /\ CallerTypes' /\ SlotTypes'
  <2>1. /\ UNCHANGED <<pipeVars, slots, caller, handlers, connected, begun, adrift>>
        /\ requests' = requests \ {r} /\ replies' = replies \cup {x}
    BY <1>4 DEF Answer
  <2>2. Told' = Told \cup {x}
    BY <2>1 DEF Told, pipeVars
  <2>3. NetTypes'
    BY <2>1 DEF TypeOK, NetTypes
  <2> QED  BY <2>1, <2>2, <2>3, PipeStays, CallersStay, SlotsStay DEF TypeOK
<1>5. ASSUME NEW kind \in Kinds, NEW of \in Compounds \cup {None}
      PROVE  /\ Reply(r, kind, of) \in Replies
             /\ Reply(r, kind, of).xid = r.xid /\ Reply(r, kind, of).send = r.send
             /\ Reply(r, kind, of).kind = kind /\ Reply(r, kind, of).of = of
             /\ Reply(r, kind, of).seqid = r.seqid
  BY <1>2 DEF Reply, Replies
<1>6. ASSUME NEW kind \in {"ok", "delay"}, Accept(r, kind)
      PROVE  Goal
  <2>1. PICK x \in Replies : /\ x = Reply(r, kind, r.of) /\ x.xid = r.xid /\ x.send = r.send
                             /\ x.kind = kind /\ x.of = r.of /\ x.seqid = r.seqid
    BY <1>2, <1>5 DEF Kinds
  <2>2. PICK y \in ServerSlots : y = [seqid |-> r.seqid, kind |-> kind, of |-> r.of]
    BY <1>2 DEF ServerSlots, Kinds
  <2>3. /\ InOrder(r) /\ Answer(r, x) /\ server' = [server EXCEPT ![r.slot] = y]
        /\ executed' = IF kind = "ok" THEN [executed EXCEPT ![r.of] = @ + 1] ELSE executed
        /\ faults' = faults \/ faults' = faults + 1
    BY <1>6, <2>1, <2>2 DEF Accept, Fault
  <2>4. ServerTypes'
    <3>1. executed' \in [Compounds -> Nat]
      BY <1>2, <1>3, <2>3
    <3>2. server' \in [Slots -> ServerSlots]
      <4>1. server \in [Slots -> ServerSlots]
        BY DEF TypeOK
      <4> QED  BY <1>2, <2>3, <4>1
    <3>3. faults' \in Nat
      BY <1>3, <2>3
    <3> QED  BY <3>1, <3>2, <3>3 DEF ServerTypes
  <2>5. TypeOK'
    BY <1>4, <2>3, <2>4, TypeParts
  <2> QED  BY <1>4, <2>1, <2>2, <2>3, <2>5
<1>7. ASSUME NEW x \in Replies, x.xid = r.xid, x.send = r.send, Answer(r, x), UNCHANGED serverVars,
             faults' = faults \/ faults' = faults + 1,
             ~InOrder(r) \/ x.kind \in {"seqDelay", "denied"}
      PROVE  Goal
  <2>1. ServerTypes'
    BY <1>3, <1>7 DEF TypeOK, ServerTypes, serverVars
  <2>2. TypeOK'
    BY <1>4, <1>7, <2>1, TypeParts
  <2> QED  BY <1>4, <1>7, <2>2
<1>8. CASE DelaySequence(r)
  BY <1>2, <1>5, <1>7, <1>8 DEF DelaySequence, Fault, Kinds
<1>9. CASE Refuse(r)
  <2>1. server[r.slot].kind \in Kinds /\ server[r.slot].of \in Compounds \cup {None}
    BY <1>3 DEF ServerSlots
  <2>2. PICK x \in Replies : x.xid = r.xid /\ x.send = r.send /\ Answer(r, x)
    BY <1>2, <1>5, <1>9, <2>1 DEF Refuse, Kinds
  <2> QED  BY <1>7, <1>9, <2>2 DEF Refuse
<1>10. CASE Deny(r)
  BY <1>2, <1>5, <1>7, <1>10 DEF Deny, Fault, Kinds
<1> QED  BY <1>6, <1>8, <1>9, <1>10

LEMMA CarriesKeep ==
  ASSUME IInv, TypeOK', Carries,
         \A h \in handlers' : h.deferred = h.reply.send,
         \A i \in 1..Len(deferred') : deferred'[i].filled => deferred'[i].data.send = i
  PROVE  IInv'
<1>0. /\ UNCHANGED <<xid, pending, slots, caller, begun, adrift, server, executed>>
      /\ requests' \subseteq requests
      /\ Len(deferred') = Len(deferred)
      /\ \A x \in replies' : \E y \in replies : x.xid = y.xid /\ x.send = y.send
      /\ \A x \in Told' : \E y \in Told :
           x.send = y.send /\ x.seqid = y.seqid /\ x.kind = y.kind /\ x.of = y.of
  BY DEF Carries, Alike, serverVars
<1>1. XidsOK'
  <2>1. \A r \in (requests \cup replies)' : \E q \in requests \cup replies :
          r.xid = q.xid /\ r.send = q.send
    BY <1>0
  <2>2. \A r \in (requests \cup replies)' :
          r.xid < xid /\ (r.xid \in DOMAIN pending => pending[r.xid] = r.send)
    BY <2>1 DEF IInv, XidsOK
  <2>3. ASSUME NEW c \in Callers, caller[c].pc = "call"
        PROVE  \A r \in (requests \cup replies)' : r.xid # caller[c].xid
    BY <2>1, <2>3 DEF IInv, XidsOK
  <2>4. ASSUME NEW c \in Callers, caller[c].pc = "listen"
        PROVE  \A r \in (requests \cup replies)' : r.send = caller[c].send => r.xid = caller[c].xid
    BY <2>1, <2>4 DEF IInv, XidsOK
  <2> QED  BY <1>0, <2>2, <2>3, <2>4 DEF IInv, XidsOK
<1>2. SendsOK'
  <2>1. \A x \in Told' : x.send \in 1..Len(deferred')
    BY <1>0 DEF IInv, SendsOK
  <2>2. \A r \in requests', x \in Told' : r.send # x.send
    BY <1>0 DEF IInv, SendsOK
  <2> QED  BY <1>0, <2>1, <2>2 DEF IInv, SendsOK
<1>3. RequestsOK'
  BY <1>0 DEF IInv, RequestsOK, Compound, Request
<1>4. CallersOK'
  <2>1. ASSUME NEW c \in Callers, caller[c].pc = "listen", NEW x \in Told', x.send = caller[c].send,
               executed[Compound(c)] = 1
        PROVE  x.kind = "ok"
    BY <1>0, <2>1 DEF IInv, CallersOK, CallerKnows
  <2> QED  BY <1>0, <2>1 DEF IInv, CallersOK, CallerKnows, Busy, Using, Compound
<1>5. SlotsOK'
  <2>1. \A s \in Slots : Users(s)' = Users(s)
    BY <1>0 DEF Users, Using
  <2>2. ASSUME NEW s \in Slots, SlotOK(s)
        PROVE  SlotOK(s)'
    BY <1>0, <2>1, <2>2 DEF SlotOK
  <2>3. ASSUME NEW c \in Callers, UserOK(c)
        PROVE  UserOK(c)'
    <3>1. ASSUME NEW x
          PROVE  Says(c, x)' <=> Says(c, x)
      BY <1>0 DEF Says, SeqOK, Compound
    <3>2. ASSUME NEW x, NEW y, x.send = y.send, x.seqid = y.seqid, x.kind = y.kind, x.of = y.of, Says(c, y)
          PROVE  Says(c, x)
      BY <3>2 DEF Says, SeqOK
    <3>3. caller[c].pc = "listen" => \A y \in Told' : y.send = caller[c].send => Says(c, y)
      BY <1>0, <2>3, <3>2 DEF UserOK
    <3>4. caller[c].pc = "listen" => \A y \in Told' : y.send = caller[c].send => Says(c, y)'
      BY <3>1, <3>3
    <3>5. caller[c].pc = "finish" => Says(c, caller[c].got)'
      <4>1. PICK g : g = caller[c].got
        OBVIOUS
      <4>2. caller[c].pc = "finish" => Says(c, g)
        BY <2>3, <4>1 DEF UserOK
      <4>3. caller[c].pc = "finish" => Says(c, g)'
        BY <3>1, <4>2
      <4>4. g = caller'[c].got
        BY <1>0, <4>1
      <4> QED  BY <4>3, <4>4 DEF Says
    <3> HIDE DEF Says
    <3> QED  BY <1>0, <2>3, <3>4, <3>5 DEF UserOK, Compound, get_seqid
  <2> QED  BY <1>0, <2>2, <2>3 DEF IInv, SlotsOK
<1> QED  BY <1>1, <1>2, <1>3, <1>4, <1>5 DEF IInv

LEMMA AnswersKeep ==
  ASSUME IInv, TypeOK', NEW r \in requests, NEW x \in Replies,
         UNCHANGED <<pipeVars, slots, caller, handlers, begun, adrift>>,
         requests' = requests \ {r},
         replies' = replies \cup {x}, Told' = Told \cup {x},
         x.xid = r.xid, x.send = r.send,
         \/ /\ InOrder(r) /\ x.kind \in {"ok", "delay"}
            /\ x.of = r.of /\ x.seqid = r.seqid
            /\ \E y \in ServerSlots : y.seqid = r.seqid /\ server' = [server EXCEPT ![r.slot] = y]
            /\ executed' = IF x.kind = "ok" THEN [executed EXCEPT ![r.of] = @ + 1] ELSE executed
         \/ ~InOrder(r) /\ UNCHANGED serverVars
         \/ x.kind \in {"seqDelay", "denied"} /\ UNCHANGED serverVars
  PROVE  IInv'
<1>0. UNCHANGED <<xid, pending, deferred, slots, caller, handlers, begun, adrift>>
  BY DEF pipeVars
<1>1. /\ r.slot \in Slots /\ r.of \in Compounds /\ r.of[1] \in Callers
      /\ server \in [Slots -> ServerSlots] /\ executed \in [Compounds -> Nat]
  BY DEF IInv, TypeOK, Requests, Compounds
<1>2. \A s \in Slots : s # r.slot => server'[s] = server[s]
  BY <1>1 DEF serverVars
<1>3. \A m \in Compounds : m # r.of => executed'[m] = executed[m]
  BY <1>1 DEF serverVars
<1>4. \A c \in Callers : caller[c].n > 0 => Compound(c) \in Compounds
  BY RequestTypes DEF IInv
<1>5. executed'[r.of] \in Nat /\ executed'[r.of] >= executed[r.of] /\ executed'[r.of] <= executed[r.of] + 1
      /\ (executed'[r.of] = executed[r.of] \/ x.kind = "ok")
  BY <1>1 DEF serverVars
<1>6. ASSUME NEW c \in Callers, Compound(c) = r.of
      PROVE  executed[r.of] = 0 /\ caller[c].pc \in {"listen", "idle"}
             /\ (caller[c].pc = "idle" => caller[c].outcome = "timeout")
             /\ (caller[c].pc = "listen" => r.send = caller[c].send)
  BY <1>6 DEF IInv, RequestsOK
<1>7. XidsOK'
  BY <1>0 DEF IInv, XidsOK
<1>8. SendsOK'
  <2>1. \A q \in requests', y \in Told' : q.send # y.send
    BY DEF IInv, SendsOK
  <2> QED  BY <1>0, <2>1 DEF IInv, SendsOK
<1>9. RequestsOK'
  <2>1. \A q \in requests' : q.of # r.of /\ q \in requests /\ q.of \in Compounds
    BY DEF IInv, RequestsOK, TypeOK, Requests
  <2>2. \A q \in requests' : executed'[q.of] = executed[q.of]
    BY <1>3, <2>1
  <2> QED  BY <1>0, <2>1, <2>2 DEF IInv, RequestsOK, Compound, Request
<1>10. CallersOK'
  <2> SUFFICES ASSUME NEW c \in Callers
               PROVE  CallerKnows(c)'
    BY DEF CallersOK
  <2>0. CallerKnows(c) /\ caller[c] \in CallerStates /\ caller'[c] = caller[c]
    BY <1>0 DEF IInv, TypeOK, CallersOK
  <2>1. ASSUME NEW n \in 1..MaxCompounds, n > caller[c].n
        PROVE  executed'[<<c, n>>] = 0
    <3>1. <<c, n>> # r.of
      <4>1. PICK d \in Callers, m \in 1..MaxCompounds : r.of = <<d, m>>
        BY <1>1 DEF Compounds
      <4>2. r.of[2] <= caller[r.of[1]].n /\ r.of[1] = d /\ r.of[2] = m
        BY <4>1 DEF IInv, RequestsOK
      <4>3. caller[c].n \in Nat
        BY <2>0, BasicTypes DEF CallerStates
      <4>4. d = c => m # n
        BY <2>1, <4>2, <4>3, BasicTypes
      <4> QED  BY <4>1, <4>4
    <3>2. <<c, n>> \in Compounds
      BY DEF Compounds
    <3> QED  BY <1>3, <2>0, <2>1, <3>1, <3>2 DEF CallerKnows
  <2>2. CASE caller[c].n > 0 /\ Compound(c) # r.of
    <3>1. executed'[Compound(c)] = executed[Compound(c)]
      BY <1>3, <1>4, <2>2
    <3>2. ASSUME caller[c].pc = "listen", NEW y \in Told', y.send = caller[c].send,
                 executed[Compound(c)] = 1
          PROVE  y.kind = "ok"
      <4>1. CASE y \in Told
        BY <2>0, <3>2, <4>1 DEF CallerKnows
      <4>2. CASE y = x
        <5>1. r = Request(c, r.send)
          BY <3>2, <4>2 DEF IInv, RequestsOK
        <5> QED  BY <2>2, <5>1 DEF Request
      <4> QED  BY <4>1, <4>2
    <3> QED  BY <1>0, <2>0, <2>1, <3>1, <3>2 DEF CallerKnows, Busy, Using, Compound
  <2>3. CASE caller[c].n > 0 /\ Compound(c) = r.of
    <3>1. executed'[Compound(c)] \in {0, 1} /\ (executed'[Compound(c)] = 1 => x.kind = "ok")
      BY <1>5, <1>6, <2>3
    <3>2. ASSUME caller[c].pc = "listen", NEW y \in Told', y.send = caller[c].send,
                 executed'[Compound(c)] = 1
          PROVE  y.kind = "ok"
      <4>1. y \notin Told
        BY <1>6, <2>3, <3>2 DEF IInv, SendsOK
      <4> QED  BY <3>1, <3>2, <4>1
    <3> QED  BY <1>0, <1>6, <2>0, <2>1, <2>3, <3>1, <3>2 DEF CallerKnows, Busy, Using, Compound
  <2>4. CASE caller[c].n = 0
    <3>1. caller[c].pc = "idle"
      BY <2>0, <2>4 DEF CallerKnows, Busy
    <3> QED  BY <1>0, <2>0, <2>1, <2>4, <3>1 DEF CallerKnows, Busy, Using, Compound
  <2>5. caller[c].n = 0 \/ caller[c].n > 0
    BY <2>0, BasicTypes DEF CallerStates
  <2> QED  BY <2>2, <2>3, <2>4, <2>5
<1>11. SlotsOK'
  <2>1. \A s \in Slots : Users(s)' = Users(s)
    BY <1>0 DEF Users, Using
  <2>2. ASSUME NEW s \in Slots \ adrift
        PROVE  SlotOK(s)'
    <3>0. SlotOK(s)
      BY DEF IInv, SlotsOK
    <3>1. ASSUME ~slots[s].inuse, Users(s) = {}
          PROVE  slots[s].seqid = server'[s].seqid
      BY <1>2, <3>0, <3>1 DEF SlotOK
    <3> QED  BY <1>0, <2>1, <3>0, <3>1 DEF SlotOK
  <2>3. ASSUME NEW c \in Callers, caller[c].n > 0, caller[c].slot \notin adrift
        PROVE  UserOK(c)'
    <3> PICK s : s = caller[c].slot
      OBVIOUS
    <3>0. UserOK(c) /\ caller'[c] = caller[c] /\ s \in Slots /\ caller[c] \in CallerStates
      <4>1. caller[c] \in CallerStates
        BY DEF IInv, TypeOK
      <4> QED  BY <1>0, <2>3, <4>1 DEF IInv, SlotsOK, CallerStates
    <3>1. SlotOK(s)
      BY <2>3, <3>0 DEF IInv, SlotsOK
    <3>2. ASSUME Using(c), s = r.slot
          PROVE  caller[c].pc = "listen" /\ caller[c].send = r.send
      <4>1. c \in Users(s)
        BY <3>2 DEF Users
      <4> QED  BY <3>1, <3>2, <4>1 DEF SlotOK
    <3>3. executed[Compound(c)] = 1 => executed'[Compound(c)] = 1
      BY <1>3, <1>4, <1>6, <2>3
    <3>4. ASSUME caller[c].pc = "listen", r.send = caller[c].send
          PROVE  Says(c, x)'
      <4>1. r = Request(c, r.send)
        BY <3>4 DEF IInv, RequestsOK
      <4>2. r.slot = s /\ r.seqid = caller[c].seqid /\ r.of = Compound(c)
        BY <4>1 DEF Request
      <4>3. caller[c].seqid = get_seqid(s) /\ slots[s].seqid = server[s].seqid
        BY <3>0, <3>4 DEF UserOK
      <4>4. InOrder(r)
        BY <4>2, <4>3 DEF InOrder, get_seqid
      <4>5. CASE /\ InOrder(r) /\ x.kind \in {"ok", "delay"}
                 /\ x.of = r.of /\ x.seqid = r.seqid
                 /\ \E y \in ServerSlots : y.seqid = r.seqid /\ server' = [server EXCEPT ![r.slot] = y]
                 /\ executed' = IF x.kind = "ok" THEN [executed EXCEPT ![r.of] = @ + 1] ELSE executed
        <5>1. server'[s].seqid = caller[c].seqid
          BY <1>1, <4>2, <4>5
        <5>2. x.kind = "ok" => executed'[Compound(c)] = 1
          BY <1>1, <1>6, <4>2, <4>5
        <5> QED  BY <1>0, <3>0, <4>2, <4>5, <5>1, <5>2 DEF Says, SeqOK, Compound
      <4>6. CASE x.kind \in {"seqDelay", "denied"} /\ UNCHANGED serverVars
        BY <1>0, <3>0, <4>3, <4>6 DEF Says, SeqOK, serverVars
      <4> QED  BY <4>4, <4>5, <4>6
    <3>5. ASSUME NEW y, Says(c, y), s # r.slot
          PROVE  Says(c, y)'
      BY <1>0, <1>2, <3>0, <3>3, <3>5 DEF Says, SeqOK, Compound
    <3>6. ASSUME caller[c].pc = "listen"
          PROVE  /\ \A q \in requests' : q.send = caller[c].send => slots[s].seqid = server'[s].seqid
                 /\ \A y \in Told' : y.send = caller[c].send => Says(c, y)'
      <4>1. CASE s = r.slot
        <5>1. caller[c].send = r.send
          BY <3>2, <3>6, <4>1 DEF Using
        <5> QED  BY <3>4, <3>6, <5>1 DEF IInv, SendsOK
      <4>2. CASE s # r.slot
        <5>1. server'[s] = server[s]
          BY <1>2, <3>0, <4>2
        <5>2. ASSUME NEW y \in Told', y.send = caller[c].send
              PROVE  Says(c, y)'
          <6>1. CASE y = x
            BY <3>4, <3>6, <5>2, <6>1
          <6>2. CASE y \in Told
            <7>1. Says(c, y)
              BY <3>0, <3>6, <5>2, <6>2 DEF UserOK
            <7> QED  BY <3>5, <4>2, <7>1
          <6> QED  BY <6>1, <6>2
        <5> QED  BY <3>0, <3>6, <5>1, <5>2 DEF UserOK
      <4> QED  BY <4>1, <4>2
    <3>7. ASSUME Using(c), caller[c].pc # "listen"
          PROVE  s # r.slot /\ server'[s] = server[s]
      BY <1>2, <3>0, <3>2, <3>7
    <3>8. caller[c].pc = "finish" => Says(c, caller[c].got)'
      <4>1. ASSUME caller[c].pc = "finish"
            PROVE  s # r.slot /\ Says(c, caller[c].got)
        BY <3>0, <3>7, <4>1 DEF UserOK, Using
      <4> QED  BY <3>5, <4>1
    <3> HIDE DEF Says
    <3> QED  BY <1>0, <3>0, <3>3, <3>6, <3>7, <3>8 DEF UserOK, Using, Compound, get_seqid
  <2> QED  BY <1>0, <2>2, <2>3 DEF SlotsOK
<1> QED  BY <1>7, <1>8, <1>9, <1>10, <1>11 DEF IInv

-----------------------------------------------------------------------------
(* The steps of the callers: what one of them leaves as it was                *)

LEMMA XidsMove ==
  ASSUME IInv, NEW c \in Callers, NEW f \in CallerStates, caller' = [caller EXCEPT ![c] = f],
         UNCHANGED <<xid, requests, replies>>, f.pc \notin {"call", "listen"},
         \A x \in DOMAIN pending' : x \in DOMAIN pending /\ pending'[x] = pending[x],
         \A x \in DOMAIN pending :
           x \in DOMAIN pending' \/ (caller[c].pc = "listen" /\ x = caller[c].xid)
  PROVE  XidsOK'
<1>1. \A d \in Callers : caller'[d].pc \in {"call", "listen"} => d # c /\ caller'[d] = caller[d]
  BY OneMoves DEF IInv
<1>2. XidsOK
  BY DEF IInv
<1>3. \A d \in Callers : caller'[d].pc = "listen" => caller[d].xid \in DOMAIN pending'
  BY <1>1, <1>2 DEF XidsOK
<1> QED  BY <1>1, <1>2, <1>3 DEF XidsOK

LEMMA SendsMove ==
  ASSUME IInv, NEW c \in Callers, NEW f \in CallerStates, caller' = [caller EXCEPT ![c] = f],
         UNCHANGED <<deferred, handlers, requests, replies>>,
         f.pc \in {"listen", "finish", "release"} =>
           f.send = caller[c].send /\ caller[c].pc \in {"listen", "finish", "release"}
  PROVE  SendsOK' /\ Told' = Told
<1>1. \A d \in Callers : caller'[d].pc \in {"listen", "finish", "release"} =>
        caller'[d].send = caller[d].send /\ caller[d].pc \in {"listen", "finish", "release"}
  BY OneMoves DEF IInv
<1>2. Told' = Told
  BY DEF Told
<1> QED  BY <1>1, <1>2 DEF IInv, SendsOK

LEMMA RequestsMove ==
  ASSUME IInv, NEW c \in Callers, NEW f \in CallerStates, caller' = [caller EXCEPT ![c] = f],
         UNCHANGED <<requests, executed>>, f.pc # "listen",
         \/ f.n = caller[c].n + 1
         \/ /\ f.n = caller[c].n
            /\ \A r \in requests : r.of = Compound(c) => f.pc = "idle" /\ f.outcome = "timeout"
  PROVE  RequestsOK'
<1>0. RequestsOK /\ TypeOK /\ caller'[c] = f /\ caller[c] \in CallerStates
      /\ \A d \in Callers : d # c => caller'[d] = caller[d]
  BY OneMoves DEF IInv, TypeOK
<1>1. \A d \in Callers : caller[d].n \in Nat /\ caller[d].n <= caller'[d].n
  <2>1. \A d \in Callers : caller[d].n \in 0..MaxCompounds
    BY <1>0 DEF TypeOK, CallerStates
  <2>2. \A d \in Callers : caller[d].n \in Nat
    BY <2>1, BasicTypes
  <2> QED  BY <1>0, <2>2
<1>2. ASSUME NEW r \in requests
      PROVE  r.of[2] <= caller'[r.of[1]].n
  <2>1. PICK d \in Callers, m \in 1..MaxCompounds : r.of = <<d, m>>
    BY <1>0 DEF TypeOK, Requests, Compounds
  <2>2. m <= caller[d].n
    BY <1>0, <2>1 DEF RequestsOK
  <2>3. m <= caller'[d].n
    <3>1. PICK a, b : a = caller[d].n /\ b = caller'[d].n
      OBVIOUS
    <3>2. caller'[d] \in CallerStates
      BY OneMoves DEF IInv
    <3>3. b \in Nat
      BY <3>1, <3>2, BasicTypes DEF CallerStates
    <3> QED  BY <1>1, <2>2, <3>1, <3>3
  <2> QED  BY <2>1, <2>3
<1>3. ASSUME NEW r \in requests, NEW d \in Callers, r.of = Compound(d)'
      PROVE  /\ executed[r.of] = 0
             /\ \/ caller'[d].pc = "listen" /\ r.send = caller'[d].send
                \/ caller'[d].pc = "idle" /\ caller'[d].outcome = "timeout"
  <2>1. CASE d # c
    <3>1. caller'[d] = caller[d] /\ r.of = Compound(d)
      BY <1>0, <1>3, <2>1 DEF Compound
    <3> QED  BY <1>0, <3>1 DEF RequestsOK
  <2>2. CASE d = c /\ f.n = caller[c].n
    <3>1. r.of = Compound(c)
      BY <1>0, <1>3, <2>2 DEF Compound
    <3>2. f.pc = "idle" /\ f.outcome = "timeout"
      BY <1>1, <2>2, <3>1
    <3> QED  BY <1>0, <2>2, <3>1, <3>2 DEF RequestsOK
  <2>3. CASE d = c /\ f.n = caller[c].n + 1
    <3>1. r.of = <<c, f.n>>
      BY <1>0, <1>3, <2>3 DEF Compound
    <3>2. f.n <= caller[c].n
      BY <1>0, <3>1 DEF RequestsOK
    <3> QED  BY <1>1, <2>3, <3>2
  <2> QED  BY <2>1, <2>2, <2>3
<1>4. ASSUME NEW r \in requests, NEW d \in Callers, caller'[d].pc = "listen", r.send = caller'[d].send
      PROVE  r = Request(d, r.send)'
  <2>1. caller'[d] = caller[d]
    BY <1>0, <1>4
  <2> QED  BY <1>0, <1>4, <2>1 DEF RequestsOK, Request, Compound
<1> QED  BY <1>0, <1>2, <1>3, <1>4 DEF RequestsOK

LEMMA CallersMove ==
  ASSUME IInv, NEW c \in Callers, NEW f \in CallerStates, caller' = [caller EXCEPT ![c] = f],
         executed' = executed, Told' = Told, CallerKnows(c)'
  PROVE  CallersOK'
<1>1. ASSUME NEW d \in Callers, d # c
      PROVE  CallerKnows(d)'
  <2>1. CallerKnows(d) /\ caller'[d] = caller[d]
    BY <1>1, OneMoves DEF IInv, CallersOK
  <2> QED  BY <2>1 DEF CallerKnows, Busy, Using, Compound
<1> QED  BY <1>1 DEF CallersOK

(* A step on slot s leaves the other slots, and their callers, in step.       *)
LEMMA SlotsMove ==
  ASSUME IInv, NEW c \in Callers, NEW f \in CallerStates, caller' = [caller EXCEPT ![c] = f],
         UNCHANGED <<server, executed>>, Told' = Told, adrift \subseteq adrift', requests \subseteq requests',
         NEW s \in Slots, \A t \in Slots : t # s => slots'[t] = slots[t],
         Using(c) => caller[c].slot = s,
         Using(c)' => f.slot = s,
         slots'[s].seqid = slots[s].seqid \/ s \in adrift \/ Using(c),
         \A r \in requests' : r \in requests \/
           (r.slot = s /\ \A d \in Callers : caller[d].pc = "listen" => r.send # caller[d].send),
         s \notin adrift' => SlotOK(s)',
         f.slot \notin adrift' => UserOK(c)'
  PROVE  SlotsOK'
<1>0. TypeOK /\ SlotsOK /\ caller'[c] = f /\ \A d \in Callers : d # c => caller'[d] = caller[d]
  BY OneMoves DEF IInv
<1>1. ASSUME NEW t \in Slots, t # s, t \notin adrift'
      PROVE  SlotOK(t)'
  <2>1. SlotOK(t)
    BY <1>0, <1>1 DEF SlotsOK
  <2>2. Users(t)' = Users(t)
    BY <1>0, <1>1 DEF Users, Using
  <2>3. c \notin Users(t)
    BY <1>1 DEF Users
  <2>4. \A d \in Users(t) : caller'[d] = caller[d]
    BY <1>0, <2>3 DEF Users
  <2> QED  BY <1>1, <2>1, <2>2, <2>4 DEF SlotOK
<1>2. ASSUME NEW d \in Callers, d # c, caller'[d].n > 0, caller'[d].slot \notin adrift'
      PROVE  UserOK(d)'
  <2>0. caller'[d] = caller[d] /\ caller[d] \in CallerStates
    BY <1>0, <1>2 DEF TypeOK
  <2>1. UserOK(d) /\ caller[d].slot \in Slots
    BY <1>0, <1>2, <2>0 DEF SlotsOK, CallerStates
  <2>2. Using(d) => slots'[caller[d].slot].seqid = slots[caller[d].slot].seqid
    <3>1. CASE caller[d].slot # s
      BY <2>1, <3>1
    <3>2. CASE caller[d].slot = s /\ Using(d)
      <4>1. s \notin adrift
        BY <1>2, <2>0, <3>2
      <4>2. ~Using(c)
        BY <1>0, <1>2, <3>2, <4>1 DEF SlotsOK, SlotOK, Users
      <4> QED  BY <3>2, <4>1, <4>2
    <3> QED  BY <3>1, <3>2
  <2>3. Using(d) => \A x : Says(d, x)' <=> Says(d, x)
    BY <2>0, <2>2 DEF Says, SeqOK, Compound
  <2>4. ASSUME caller[d].pc = "listen"
        PROVE  /\ \A r \in requests' : r.send = caller[d].send => slots'[caller[d].slot].seqid = server[caller[d].slot].seqid
               /\ \A y \in Told' : y.send = caller[d].send => Says(d, y)'
    <3>1. Using(d)
      BY <2>4 DEF Using
    <3> QED  BY <2>1, <2>2, <2>3, <2>4, <3>1 DEF UserOK
  <2>5. caller[d].pc = "finish" => Says(d, caller[d].got)'
    <3>1. PICK g : g = caller[d].got
      OBVIOUS
    <3>2. caller[d].pc = "finish" => Says(d, g)'
      BY <2>1, <2>3, <3>1 DEF UserOK, Using
    <3>3. g = caller'[d].got
      BY <2>0, <3>1
    <3> QED  BY <3>2, <3>3 DEF Says
  <2>6. /\ caller[d].pc \in {"send", "call", "listen", "finish"} => caller[d].seqid = get_seqid(caller[d].slot)'
        /\ caller[d].pc \in {"send", "call", "release"} => slots'[caller[d].slot].seqid = server[caller[d].slot].seqid
        /\ caller[d].pc = "release" => /\ caller[d].got.kind # "misordered"
                                       /\ caller[d].got.kind = "ok" => caller[d].got.of = Compound(d) /\ executed[Compound(d)] = 1
                                       /\ ~SeqOK(caller[d].got.kind) => caller[d].seqid = get_seqid(caller[d].slot)'
    BY <2>0, <2>1, <2>2 DEF UserOK, Using, get_seqid
  <2> HIDE DEF Says
  <2> QED  BY SMTT(40), <2>0, <2>1, <2>4, <2>5, <2>6 DEF UserOK, Compound, get_seqid
<1> QED  BY <1>0, <1>1, <1>2 DEF SlotsOK

-----------------------------------------------------------------------------
(* Each step of a caller                                                      *)

LEMMA StartKeeps ==
  ASSUME IInv, TypeOK', NEW c \in Callers, Start(c)
  PROVE  IInv'
<1> PICK e : e = caller[c]
  OBVIOUS
<1>1. UNCHANGED <<xid, pending, deferred, slots, handlers, requests, replies, server, executed, adrift>>
  BY DEF Start, pipeVars, netVars, serverVars
<1>2. PICK f \in CallerStates :
        /\ caller' = [caller EXCEPT ![c] = f]
        /\ e.pc = "idle" /\ f.pc = "prepare" /\ f.n = e.n + 1 /\ f.tries = 0 /\ f.held
        /\ f.outcome = "none"
  BY StartMoves DEF IInv
<1>3. XidsOK' /\ SendsOK' /\ RequestsOK' /\ Told' = Told
  BY <1>1, <1>2, XidsMove, SendsMove, RequestsMove
<1>4. caller'[c] = f /\ e.n \in Nat /\ CallerKnows(c) /\ f.n \in 1..MaxCompounds
  <2>1. e \in CallerStates /\ caller'[c] = f /\ CallerKnows(c)
    BY <1>2, OneMoves DEF IInv, TypeOK, CallersOK
  <2>2. e.n \in 0..MaxCompounds /\ f.n \in 0..MaxCompounds
    BY <2>1 DEF CallerStates
  <2>3. e.n \in Nat /\ f.n \in 1..MaxCompounds
    BY <1>2, <2>2, BasicTypes
  <2> QED  BY <2>1, <2>3
<1>5. CallerKnows(c)'
  <2>1. \A n \in 1..MaxCompounds : n > e.n => executed[<<c, n>>] = 0
    BY <1>4 DEF CallerKnows
  <2>2. \A n \in 1..MaxCompounds : n > f.n => executed[<<c, n>>] = 0
    <3>1. \A n \in 1..MaxCompounds : n > f.n => n > e.n
      BY <1>2, <1>4, BasicTypes
    <3> QED  BY <2>1, <3>1
  <2>3. executed[<<c, f.n>>] = 0
    BY <1>2, <1>4, <2>1
  <2> QED  BY <1>1, <1>2, <1>4, <2>2, <2>3 DEF CallerKnows, Busy, Using, Compound
<1>6. CallersOK'
  BY <1>1, <1>2, <1>3, <1>5, CallersMove
<1>7. SlotsOK'
  <2>1. ~Using(c) /\ ~Using(c)'
    BY <1>2, <1>4 DEF Using
  <2>2. \A s \in Slots : SlotOK(s) => SlotOK(s)'
    <3>1. \A d \in Callers : d # c => caller'[d] = caller[d]
      BY <1>2, OneMoves DEF IInv
    <3>2. ASSUME NEW s \in Slots
          PROVE  Users(s)' = Users(s) /\ \A d \in Users(s) : caller'[d] = caller[d]
      BY <2>1, <3>1 DEF Users, Using
    <3> QED  BY <1>1, <3>2 DEF SlotOK
  <2>3. UserOK(c)'
    BY <1>2, <1>4 DEF UserOK
  <2>4. 0 \in Slots
    BY BasicTypes
  <2>5. 0 \notin adrift' => SlotOK(0)'
    BY <1>1, <2>2, <2>4 DEF IInv, SlotsOK
  <2> QED  BY <1>1, <1>2, <1>3, <2>1, <2>3, <2>4, <2>5, SlotsMove
<1> QED  BY <1>3, <1>6, <1>7 DEF IInv

LEMMA PrepareKeeps ==
  ASSUME IInv, TypeOK', NEW c \in Callers, Prepare(c)
  PROVE  IInv'
<1> PICK e : e = caller[c]
  OBVIOUS
<1>1. UNCHANGED <<xid, pending, deferred, handlers, requests, replies, server, executed>>
  BY DEF Prepare, pipeVars, netVars, serverVars
<1>2. PICK f \in CallerStates :
        /\ caller' = [caller EXCEPT ![c] = f]
        /\ e.pc = "prepare" /\ f.n = e.n /\ f.held
        /\ \/ /\ f.pc = "idle" /\ f.outcome = "outOfSlots" /\ f.slot = e.slot
              /\ UNCHANGED <<slots, adrift>>
           \/ \E s \in Slots :
                /\ ~slots[s].inuse
                /\ slots' = [slots EXCEPT ![s].inuse = TRUE]
                /\ adrift' = IF Unheld(s) = {} THEN adrift ELSE adrift \cup {s}
                /\ \/ f.pc = "idle" /\ f.outcome = "delay" /\ f.slot = e.slot
                   \/ /\ f.pc = "send" /\ f.outcome = e.outcome
                      /\ f.slot = s /\ f.seqid = get_seqid(s)
  <2>1. TypeOK
    BY DEF IInv
  <2> QED  BY <2>1, PrepareMoves
<1>3. f.pc \in {"idle", "send"} /\ f.outcome \in {"outOfSlots", "delay", e.outcome}
  BY <1>2
<1>4. /\ caller'[c] = f /\ CallerKnows(c) /\ e.outcome = "none"
      /\ \A d \in Callers : d # c => caller'[d] = caller[d]
  BY <1>2, OneMoves DEF IInv, CallersOK, CallerKnows, Busy
<1>5. XidsOK' /\ SendsOK' /\ RequestsOK' /\ Told' = Told
  <2>1. \A r \in requests : r.of # Compound(c)
    BY <1>2 DEF IInv, RequestsOK
  <2> QED  BY <1>1, <1>2, <1>3, <2>1, XidsMove, SendsMove, RequestsMove
<1>6. CallersOK'
  <2>1. CallerKnows(c)'
    BY <1>1, <1>2, <1>3, <1>4 DEF CallerKnows, Busy, Using, Compound
  <2> QED  BY <1>1, <1>2, <1>5, <2>1, CallersMove
<1>7. ~Using(c)
  BY <1>2 DEF Using
<1>8. CASE f.pc = "idle" /\ UNCHANGED <<slots, adrift>> /\ f.outcome = "outOfSlots"
  <2>1. ~Using(c)'
    BY <1>4, <1>8 DEF Using
  <2>2. \A s \in Slots : SlotOK(s) => SlotOK(s)'
    <3>2. ASSUME NEW s \in Slots
          PROVE  Users(s)' = Users(s) /\ \A d \in Users(s) : caller'[d] = caller[d]
      BY <1>4, <1>7, <2>1 DEF Users, Using
    <3> QED  BY <1>1, <1>8, <3>2 DEF SlotOK
  <2>3. UserOK(c)'
    BY <1>4, <1>8 DEF UserOK
  <2>4. 0 \in Slots
    BY BasicTypes
  <2>5. 0 \notin adrift' => SlotOK(0)'
    BY <1>8, <2>2, <2>4 DEF IInv, SlotsOK
  <2>6. SlotsOK'
    BY <1>1, <1>2, <1>5, <1>7, <1>8, <2>1, <2>3, <2>4, <2>5, SlotsMove
  <2> QED  BY <1>5, <1>6, <2>6 DEF IInv
<1>9. ASSUME NEW s \in Slots,
             ~slots[s].inuse,
             slots' = [slots EXCEPT ![s].inuse = TRUE],
             adrift' = IF Unheld(s) = {} THEN adrift ELSE adrift \cup {s},
             \/ f.pc = "idle" /\ f.outcome = "delay" /\ f.slot = e.slot
             \/ f.pc = "send" /\ f.outcome = e.outcome /\ f.slot = s /\ f.seqid = get_seqid(s)
      PROVE  IInv'
  <2>1. /\ \A t \in Slots : t # s => slots'[t] = slots[t]
        /\ slots'[s].inuse = TRUE /\ slots'[s].seqid = slots[s].seqid
    <3>1. slots \in [Slots -> SlotStates] /\ slots[s] \in SlotStates
      BY DEF IInv, TypeOK
    <3> QED  BY <1>9, <3>1 DEF SlotStates
  <2>2. ASSUME s \notin adrift'
        PROVE  /\ Users(s) = {} /\ slots[s].seqid = server[s].seqid
               /\ \A r \in requests : r.slot # s
    <3>1. SlotOK(s) /\ Unheld(s) = {}
      BY <1>9, <2>2 DEF IInv, SlotsOK
    <3>2. ASSUME NEW d \in Users(s)
          PROVE  FALSE
      <4>1. d \in Callers /\ Using(d) /\ caller[d].slot = s
        BY <3>2 DEF Users
      <4>2. ~caller[d].held /\ Busy(d)
        BY <1>9, <3>1, <3>2, <4>1 DEF SlotOK, Using, Busy
      <4> QED  BY <3>1, <4>1, <4>2 DEF Unheld
    <3> QED  BY <1>9, <3>1, <3>2 DEF SlotOK
  <2>3. ASSUME s \notin adrift'
        PROVE  SlotOK(s)'
    <3>1. Users(s)' = IF f.pc = "send" THEN {c} ELSE {}
      BY <1>4, <1>9, <2>2, <2>3 DEF Users, Using
    <3>2. \A r \in requests' : r.slot # s
      BY <1>1, <2>2, <2>3
    <3>3. \A d \in Users(s)' : d = c /\ caller'[d].held = TRUE
      <4>1. f.held = TRUE
        BY <1>2 DEF CallerStates
      <4> QED  BY <1>4, <3>1, <4>1
    <3> QED  BY <2>1, <3>2, <3>3 DEF SlotOK
  <2>4. ASSUME f.slot \notin adrift'
        PROVE  UserOK(c)'
    <3>1. CASE f.pc = "idle"
      BY <1>4, <1>9, <3>1 DEF UserOK
    <3>2. CASE f.pc = "send"
      <4>1. f.slot = s /\ f.seqid = get_seqid(s) /\ s \notin adrift' /\ f.outcome = "none"
        BY <1>4, <1>9, <2>4, <3>2
      <4>2. get_seqid(s)' = get_seqid(s)
        BY <2>1 DEF get_seqid
      <4> QED  BY <1>1, <1>4, <2>1, <2>2, <3>2, <4>1, <4>2 DEF UserOK
    <3> QED  BY <1>3, <3>1, <3>2
  <2>5. Using(c)' => f.slot = s
    BY <1>4, <1>9 DEF Using
  <2>6. SlotsOK'
    <3>1. adrift \subseteq adrift'
      BY <1>9
    <3> QED  BY <1>1, <1>2, <1>5, <1>7, <2>1, <2>3, <2>4, <2>5, <3>1, SlotsMove
  <2> QED  BY <1>5, <1>6, <2>6 DEF IInv
<1> QED  BY <1>2, <1>8, <1>9

(* A caller is alone on its slot.                                             *)
LEMMA Alone ==
  ASSUME IInv, NEW c \in Callers, Using(c), NEW s, s = caller[c].slot
  PROVE  /\ s \in Slots /\ caller[c].n > 0 /\ c \in Users(s) /\ CallerKnows(c)
         /\ caller[c].outcome = "none"
         /\ s \notin adrift =>
              /\ SlotOK(s) /\ UserOK(c) /\ Users(s) = {c} /\ slots[s].inuse = caller[c].held
              /\ \A r \in requests : r.slot = s => caller[c].pc = "listen" /\ caller[c].send = r.send
<1>1. caller[c] \in CallerStates /\ CallerKnows(c)
  BY DEF IInv, TypeOK, CallersOK
<1>2. s \in Slots /\ caller[c].n > 0 /\ c \in Users(s) /\ caller[c].outcome = "none"
  BY <1>1 DEF CallerStates, CallerKnows, Using, Users, Busy
<1>3. ASSUME s \notin adrift
      PROVE  /\ SlotOK(s) /\ UserOK(c) /\ Users(s) = {c} /\ slots[s].inuse = caller[c].held
             /\ \A r \in requests : r.slot = s => caller[c].pc = "listen" /\ caller[c].send = r.send
  <2>1. SlotOK(s) /\ UserOK(c)
    BY <1>2, <1>3 DEF IInv, SlotsOK
  <2> QED  BY <1>2, <2>1 DEF SlotOK
<1> QED  BY <1>1, <1>2, <1>3

LEMMA GetXidKeeps ==
  ASSUME IInv, TypeOK', NEW c \in Callers, GetXid(c)
  PROVE  IInv'
<1> PICK e : e = caller[c]
  OBVIOUS
<1>0. TypeOK /\ XidsOK /\ e \in CallerStates
  BY DEF IInv, TypeOK
<1>1. /\ UNCHANGED <<pending, deferred, slots, handlers, requests, replies, server, executed, adrift>>
      /\ xid' = xid + 1
  BY DEF GetXid, netVars, serverVars
<1>2. PICK f \in CallerStates :
        /\ caller' = [caller EXCEPT ![c] = f]
        /\ e.pc = "send" /\ f.pc = "call" /\ f.xid = xid /\ Same(e, f) /\ f.held = e.held
  BY <1>0, GetXidMoves
<1> PICK s : s = e.slot
  OBVIOUS
<1>3. /\ f.n = e.n /\ f.slot = s /\ f.seqid = e.seqid /\ f.outcome = e.outcome
      /\ caller'[c] = f /\ \A d \in Callers : d # c => caller'[d] = caller[d]
  BY <1>0, <1>2, OneMoves DEF Same
<1>4. SendsOK' /\ RequestsOK' /\ Told' = Told
  <2>1. \A r \in requests : r.of # Compound(c)
    BY <1>2 DEF IInv, RequestsOK
  <2> QED  BY <1>1, <1>2, <1>3, <2>1, SendsMove, RequestsMove
<1>5. Using(c) /\ Using(c)'
  BY <1>2, <1>3 DEF Using
<1>6. XidsOK'
  <2>1. xid \in Nat /\ xid < xid' /\ \A x : x \in Nat /\ x < xid => x < xid' /\ x # xid
    BY <1>0, <1>1 DEF TypeOK
  <2>2. \A x \in DOMAIN pending : x \in Nat /\ x < xid
    BY <1>0 DEF TypeOK, XidsOK
  <2>3. \A r \in requests \cup replies : r.xid \in Nat /\ r.xid < xid
    BY <1>0 DEF TypeOK, XidsOK, Requests, Replies
  <2>4. \A d \in Callers : caller[d].pc \in {"call", "listen"} => caller[d].xid \in Nat /\ caller[d].xid < xid
    BY <1>0 DEF TypeOK, XidsOK, CallerStates
  <2>5. \A d \in Callers : d # c /\ caller'[d].pc \in {"call", "listen"} => caller'[d].xid # f.xid
    BY <1>2, <1>3, <2>1, <2>4
  <2>6. \A d, b \in Callers :
         (/\ caller'[d].pc \in {"call", "listen"} /\ caller'[b].pc \in {"call", "listen"}
          /\ caller'[d].xid = caller'[b].xid) => d = b
    BY <1>0, <1>3, <2>5 DEF XidsOK
  <2>7. \A d \in Callers : caller'[d].pc \in {"call", "listen"} => caller'[d].xid < xid'
    BY <1>2, <1>3, <2>1, <2>4
  <2>8. (\A x \in DOMAIN pending' : x < xid') /\ xid \notin DOMAIN pending'
    BY <1>1, <2>1, <2>2
  <2>9. \A r \in (requests \cup replies)' : r.xid < xid' /\ r.xid # xid
    BY <1>1, <2>1, <2>3
  <2> QED  BY <1>0, <1>1, <1>2, <1>3, <2>6, <2>7, <2>8, <2>9 DEF XidsOK
<1>7. CallersOK'
  <2>1. CallerKnows(c)
    BY <1>5, Alone
  <2>2. CallerKnows(c)'
    BY <1>1, <1>2, <1>3, <2>1 DEF CallerKnows, Busy, Using, Compound
  <2> QED  BY <1>1, <1>2, <1>4, <2>2, CallersMove
<1>8. SlotsOK'
  <2>1. /\ s \in Slots /\ e.outcome = "none"
        /\ s \notin adrift => /\ SlotOK(s) /\ UserOK(c) /\ Users(s) = {c} /\ slots[s].inuse = e.held
              /\ \A r \in requests : r.slot = s => e.pc = "listen" /\ e.send = r.send
    BY <1>5, Alone
  <2>2. ASSUME s \notin adrift
        PROVE  SlotOK(s)' /\ UserOK(c)'
    <3>1. Users(s)' = {c}
      BY <1>3, <1>5, <2>1, <2>2 DEF Users, Using
    <3>2. \A r \in requests : r.slot # s
      BY <1>2, <2>1, <2>2
    <3>3. SlotOK(s)'
      BY <1>1, <1>2, <1>3, <2>1, <2>2, <3>1, <3>2 DEF SlotOK
    <3>4. e.seqid = get_seqid(s) /\ slots[s].seqid = server[s].seqid
      BY <1>2, <2>1, <2>2 DEF UserOK
    <3>5. get_seqid(s)' = get_seqid(s)
      BY <1>1 DEF get_seqid
    <3>6. UserOK(c)'
      BY <1>1, <1>2, <1>3, <2>1, <3>4, <3>5 DEF UserOK
    <3> QED  BY <3>3, <3>6
  <2> QED  BY <1>1, <1>2, <1>3, <1>4, <2>1, <2>2, SlotsMove
<1> QED  BY <1>4, <1>6, <1>7, <1>8 DEF IInv

LEMMA TimeOutKeeps ==
  ASSUME IInv, TypeOK', NEW c \in Callers, TimeOut(c)
  PROVE  IInv'
<1> PICK e : e = caller[c]
  OBVIOUS
<1>0. TypeOK /\ e \in CallerStates
  BY DEF IInv, TypeOK
<1>1. /\ UNCHANGED <<xid, pending, deferred, slots, handlers, requests, replies, server, executed>>
      /\ adrift' = IF e.held THEN adrift ELSE adrift \cup {e.slot}
  BY DEF TimeOut, pipeVars, netVars, serverVars
<1>2. PICK f \in CallerStates :
        /\ caller' = [caller EXCEPT ![c] = f]
        /\ e.pc = "listen" /\ f.pc = "idle" /\ f.outcome = "timeout" /\ f.n = e.n
        /\ f.slot = e.slot /\ f.held
  BY <1>0, TimeOutMoves
<1> PICK s : s = e.slot
  OBVIOUS
<1>3. caller'[c] = f /\ \A d \in Callers : d # c => caller'[d] = caller[d]
  BY <1>0, <1>2, OneMoves
<1>4. XidsOK' /\ SendsOK' /\ RequestsOK' /\ Told' = Told
  BY <1>1, <1>2, XidsMove, SendsMove, RequestsMove
<1>5. Using(c) /\ ~Using(c)'
  BY <1>2, <1>3 DEF Using
<1>7. CallersOK'
  <2>1. CallerKnows(c)
    BY <1>5, Alone
  <2>2. CallerKnows(c)'
    BY <1>1, <1>2, <1>3, <2>1 DEF CallerKnows, Busy, Using, Compound
  <2> QED  BY <1>1, <1>2, <1>4, <2>2, CallersMove
<1>8. SlotsOK'
  <2>1. /\ s \in Slots
        /\ s \notin adrift => /\ SlotOK(s) /\ UserOK(c) /\ Users(s) = {c} /\ slots[s].inuse = e.held
              /\ \A r \in requests : r.slot = s => e.pc = "listen" /\ e.send = r.send
    BY <1>5, Alone
  <2>2. ASSUME s \notin adrift'
        PROVE  SlotOK(s)'
    <3>0. s \notin adrift /\ e.held = TRUE
      BY <1>0, <1>1, <2>2 DEF CallerStates
    <3>1. Users(s)' = {}
      BY <1>3, <1>5, <2>1, <3>0 DEF Users, Using
    <3> QED  BY <1>1, <2>1, <3>0, <3>1 DEF SlotOK
  <2>3. UserOK(c)'
    BY <1>2, <1>3 DEF UserOK
  <2>4. adrift \subseteq adrift'
    BY <1>1
  <2> QED  BY <1>1, <1>2, <1>4, <1>5, <2>1, <2>2, <2>3, <2>4, SlotsMove
<1> QED  BY <1>4, <1>7, <1>8 DEF IInv

LEMMA FinishKeeps ==
  ASSUME IInv, TypeOK', NEW c \in Callers, FinishCall(c)
  PROVE  IInv'
<1> PICK e : e = caller[c]
  OBVIOUS
<1>0. TypeOK /\ e \in CallerStates
  BY DEF IInv, TypeOK
<1>1. /\ UNCHANGED <<xid, pending, deferred, handlers, requests, replies, server, executed, adrift>>
      /\ slots' = [slots EXCEPT ![e.slot].seqid = IF SeqOK(e.got.kind) THEN e.got.seqid ELSE @]
  BY DEF FinishCall, pipeVars, netVars, serverVars
<1>2. PICK f \in CallerStates :
        /\ caller' = [caller EXCEPT ![c] = f]
        /\ e.pc = "finish" /\ f.pc = "release" /\ Same(e, f) /\ f.got = e.got /\ f.held = e.held
  BY <1>0, FinishMoves
<1> PICK s : s = e.slot
  OBVIOUS
<1>3. /\ f.n = e.n /\ f.slot = s /\ f.seqid = e.seqid /\ f.outcome = e.outcome /\ f.send = e.send
      /\ caller'[c] = f /\ \A d \in Callers : d # c => caller'[d] = caller[d]
  BY <1>0, <1>2, OneMoves DEF Same
<1>4. XidsOK' /\ SendsOK' /\ RequestsOK' /\ Told' = Told
  <2>1. \A r \in requests : r.of # Compound(c)
    BY <1>2 DEF IInv, RequestsOK
  <2> QED  BY <1>1, <1>2, <1>3, <2>1, XidsMove, SendsMove, RequestsMove
<1>5. Using(c) /\ Using(c)'
  BY <1>2, <1>3 DEF Using
<1>7. CallersOK'
  <2>1. CallerKnows(c)
    BY <1>5, Alone
  <2>2. CallerKnows(c)'
    BY <1>1, <1>2, <1>3, <2>1 DEF CallerKnows, Busy, Using, Compound
  <2> QED  BY <1>1, <1>2, <1>4, <2>2, CallersMove
<1>8. SlotsOK'
  <2>1. /\ s \in Slots /\ e.outcome = "none"
        /\ s \notin adrift => /\ SlotOK(s) /\ UserOK(c) /\ Users(s) = {c} /\ slots[s].inuse = e.held
              /\ \A r \in requests : r.slot = s => e.pc = "listen" /\ e.send = r.send
    BY <1>5, Alone
  <2>2. /\ \A t \in Slots : t # s => slots'[t] = slots[t]
        /\ slots'[s].inuse = slots[s].inuse
        /\ slots'[s].seqid = IF SeqOK(e.got.kind) THEN e.got.seqid ELSE slots[s].seqid
    <3>1. slots \in [Slots -> SlotStates] /\ slots[s] \in SlotStates
      BY <1>0, <2>1 DEF TypeOK
    <3> QED  BY <1>1, <2>1, <3>1 DEF SlotStates
  <2>3. ASSUME s \notin adrift
        PROVE  SlotOK(s)' /\ UserOK(c)'
    <3>1. Users(s)' = {c}
      BY <1>3, <1>5, <2>1, <2>3 DEF Users, Using
    <3>2. \A r \in requests : r.slot # s
      BY <1>2, <2>1, <2>3
    <3>3. SlotOK(s)'
      BY <1>1, <1>2, <1>3, <2>1, <2>2, <2>3, <3>1, <3>2 DEF SlotOK
    <3>4. UserOK(c) /\ Says(c, e.got) /\ e.seqid = get_seqid(s)
      BY <1>2, <2>1, <2>3 DEF UserOK
    <3>5. slots'[s].seqid = server[s].seqid
      BY <2>2, <3>4 DEF Says
    <3>6. ~SeqOK(e.got.kind) => get_seqid(s)' = get_seqid(s)
      BY <2>2 DEF get_seqid
    <3>7. /\ e.got.kind # "misordered"
          /\ e.got.kind = "ok" => e.got.of = Compound(c) /\ executed[Compound(c)] = 1
      BY <3>4 DEF Says, SeqOK
    <3>8. Compound(c)' = Compound(c)
      BY <1>3 DEF Compound
    <3>9. UserOK(c)'
      BY <1>1, <1>2, <1>3, <2>1, <3>4, <3>5, <3>6, <3>7, <3>8 DEF UserOK
    <3> QED  BY <3>3, <3>9
  <2> QED  BY <1>1, <1>2, <1>3, <1>4, <1>5, <2>1, <2>2, <2>3, SlotsMove
<1> QED  BY <1>4, <1>7, <1>8 DEF IInv

LEMMA ListenKeeps ==
  ASSUME IInv, TypeOK', NEW c \in Callers, Listen(c)
  PROVE  IInv'
<1> PICK e : e = caller[c]
  OBVIOUS
<1>0. TypeOK /\ XidsOK /\ SendsOK /\ e \in CallerStates
  BY DEF IInv, TypeOK
<1>1. UNCHANGED <<xid, deferred, slots, handlers, requests, replies, server, executed, adrift>>
  BY DEF Listen, netVars, serverVars
<1>2. PICK f \in CallerStates, data \in Told :
        /\ caller' = [caller EXCEPT ![c] = f]
        /\ data \in Replies /\ data.send = e.send
        /\ e.pc = "listen" /\ f.n = e.n /\ f.slot = e.slot
        /\ \/ /\ f.pc = "idle" /\ f.held /\ f.outcome = "denied" /\ data.kind = "denied"
              /\ UNCHANGED pending
           \/ /\ f.pc = "finish" /\ f.got = data /\ Same(e, f) /\ f.held = e.held
              /\ pending' = Restrict(pending, DOMAIN pending \ {e.xid})
  BY <1>0, ListenMoves
<1> PICK s : s = e.slot
  OBVIOUS
<1>3. /\ caller'[c] = f /\ \A d \in Callers : d # c => caller'[d] = caller[d]
      /\ f.pc = "finish" => f.send = e.send /\ f.seqid = e.seqid /\ f.outcome = e.outcome
      /\ f.pc \in {"idle", "finish"}
  BY <1>0, <1>2, OneMoves DEF Same
<1>4. \A r \in requests : r.send # e.send /\ r.of # Compound(c)
  <2>1. \A r \in requests : r.send # e.send
    BY <1>0, <1>2 DEF SendsOK
  <2> QED  BY <1>2, <2>1 DEF IInv, RequestsOK
<1>5. XidsOK' /\ SendsOK' /\ RequestsOK' /\ Told' = Told
  <2>1. /\ \A x \in DOMAIN pending' : x \in DOMAIN pending /\ pending'[x] = pending[x]
        /\ \A x \in DOMAIN pending : x \in DOMAIN pending' \/ x = e.xid
    BY <1>2 DEF Restrict
  <2>2. XidsOK'
    BY <1>1, <1>2, <1>3, <2>1, XidsMove
  <2>3. SendsOK' /\ Told' = Told
    BY <1>1, <1>2, <1>3, SendsMove
  <2>4. RequestsOK'
    BY <1>1, <1>2, <1>3, <1>4, RequestsMove
  <2> QED  BY <2>2, <2>3, <2>4
<1>6. Using(c)
  BY <1>2 DEF Using
<1>7. CallersOK'
  <2>1. CallerKnows(c)
    BY <1>6, Alone
  <2>2. executed[Compound(c)] \in {0, 1} /\ (executed[Compound(c)] = 1 => data.kind = "ok") /\ e.n > 0 /\ e.outcome = "none"
    BY <1>2, <2>1 DEF CallerKnows, Busy
  <2>3. CallerKnows(c)'
    BY <1>1, <1>2, <1>3, <2>1, <2>2 DEF CallerKnows, Busy, Using, Compound
  <2> QED  BY <1>1, <1>2, <1>5, <2>3, CallersMove
<1>8. SlotsOK'
  <2>1. /\ s \in Slots /\ e.outcome = "none"
        /\ s \notin adrift => /\ SlotOK(s) /\ UserOK(c) /\ Users(s) = {c} /\ slots[s].inuse = e.held
              /\ \A r \in requests : r.slot = s => e.pc = "listen" /\ e.send = r.send
    BY <1>6, Alone
  <2>2. ASSUME s \notin adrift
        PROVE  SlotOK(s)' /\ UserOK(c)'
    <3>1. Users(s)' = IF f.pc = "finish" THEN {c} ELSE {}
      BY <1>2, <1>3, <2>1, <2>2 DEF Users, Using
    <3>2. \A r \in requests : r.slot # s
      BY <1>4, <2>1, <2>2
    <3>3. Says(c, data) /\ e.seqid = get_seqid(s)
      BY <1>2, <2>1, <2>2 DEF UserOK
    <3>4. CASE f.pc = "finish"
      <4>1. f.held = e.held
        BY <1>2, <3>4
      <4>2. SlotOK(s)'
        BY <1>1, <1>3, <2>1, <2>2, <3>1, <3>2, <3>4, <4>1 DEF SlotOK
      <4>3. Says(c, data)'
        BY <1>1, <1>2, <1>3, <3>3, <3>4 DEF Says, SeqOK, Compound
      <4>4. f.got = data /\ get_seqid(s)' = get_seqid(s) /\ f.slot = s /\ f.seqid = e.seqid /\ f.outcome = "none"
        BY <1>1, <1>2, <1>3, <2>1, <3>4 DEF get_seqid
      <4>5. Says(c, caller[c].got)'
        BY <1>3, <4>3, <4>4 DEF Says
      <4> HIDE DEF Says
      <4>6. UserOK(c)'
        BY <1>3, <3>3, <3>4, <4>4, <4>5 DEF UserOK
      <4> QED  BY <4>2, <4>6
    <3>5. CASE f.pc = "idle"
      <4>1. data.kind = "denied" /\ f.outcome = "denied"
        BY <1>2, <3>5
      <4>2. slots[s].seqid = server[s].seqid
        BY <3>3, <4>1 DEF Says, SeqOK
      <4>3. SlotOK(s)'
        BY <1>1, <3>1, <3>2, <3>5, <4>2 DEF SlotOK
      <4>4. UserOK(c)'
        BY <1>3, <3>5, <4>1 DEF UserOK
      <4> QED  BY <4>3, <4>4
    <3> QED  BY <1>3, <3>4, <3>5
  <2>3. Using(c)' => f.slot = s
    BY <1>2
  <2>4. f.slot \notin adrift' => s \notin adrift
    BY <1>1, <1>2
  <2> QED  BY <1>1, <1>2, <1>5, <1>6, <2>1, <2>2, <2>3, <2>4, SlotsMove
<1> QED  BY <1>5, <1>7, <1>8 DEF IInv

LEMMA ReleaseKeeps ==
  ASSUME IInv, TypeOK', NEW c \in Callers, Release(c)
  PROVE  IInv'
<1> PICK e : e = caller[c]
  OBVIOUS
<1>0. TypeOK /\ e \in CallerStates
  BY DEF IInv, TypeOK
<1>1. /\ UNCHANGED <<xid, pending, deferred, handlers, requests, replies, server, executed, adrift>>
      /\ slots' = [slots EXCEPT ![e.slot].inuse = FALSE]
  BY DEF Release, pipeVars, netVars, serverVars
<1>2. PICK f \in CallerStates :
        /\ caller' = [caller EXCEPT ![c] = f]
        /\ e.pc = "release" /\ f.n = e.n /\ f.slot = e.slot
        /\ \/ /\ f.pc = "idle" /\ f.outcome = e.got.kind /\ f.held
              /\ f.outcome = "ok" => f.got = e.got
           \/ /\ f.pc = "prepare" /\ e.got.kind = "delay" /\ f.held /\ f.outcome = e.outcome
              /\ f.got = e.got
           \/ f.pc = "send" /\ e.got.kind = "seqDelay" /\ ~f.held /\ Same(e, f)
  BY <1>0, ReleaseMoves
<1> PICK s : s = e.slot
  OBVIOUS
<1>3. /\ caller'[c] = f /\ \A d \in Callers : d # c => caller'[d] = caller[d]
      /\ f.pc \in {"idle", "prepare", "send"}
      /\ f.pc = "send" => f.seqid = e.seqid /\ f.outcome = e.outcome
  BY <1>0, <1>2, OneMoves DEF Same
<1>4. XidsOK' /\ SendsOK' /\ RequestsOK' /\ Told' = Told
  <2>1. \A r \in requests : r.of # Compound(c)
    BY <1>2 DEF IInv, RequestsOK
  <2> QED  BY <1>1, <1>2, <1>3, <2>1, XidsMove, SendsMove, RequestsMove
<1>5. Using(c)
  BY <1>2 DEF Using
<1>6. Using(c)' => f.pc = "send"
  BY <1>3 DEF Using
<1>7. CallersOK'
  <2>1. CallerKnows(c)
    BY <1>5, Alone
  <2>2. executed[Compound(c)] \in {0, 1} /\ (executed[Compound(c)] = 1 => e.got.kind = "ok")
        /\ e.n > 0 /\ e.outcome = "none"
    BY <1>2, <2>1 DEF CallerKnows, Busy
  <2>3. CallerKnows(c)'
    <3>1. CASE f.pc = "idle"
      BY <1>1, <1>2, <1>3, <2>1, <2>2, <3>1 DEF CallerKnows, Busy, Using, Compound
    <3>2. CASE f.pc = "prepare"
      BY <1>1, <1>2, <1>3, <2>1, <2>2, <3>2 DEF CallerKnows, Busy, Using, Compound
    <3>3. CASE f.pc = "send"
      BY <1>1, <1>2, <1>3, <2>1, <2>2, <3>3 DEF CallerKnows, Busy, Using, Compound
    <3> QED  BY <1>3, <3>1, <3>2, <3>3
  <2> QED  BY <1>1, <1>2, <1>4, <2>3, CallersMove
<1>8. SlotsOK'
  <2>1. /\ s \in Slots /\ e.outcome = "none"
        /\ s \notin adrift => /\ SlotOK(s) /\ UserOK(c) /\ Users(s) = {c} /\ slots[s].inuse = e.held
              /\ \A r \in requests : r.slot = s => e.pc = "listen" /\ e.send = r.send
    BY <1>5, Alone
  <2>2. /\ \A t \in Slots : t # s => slots'[t] = slots[t]
        /\ slots'[s].inuse = FALSE /\ slots'[s].seqid = slots[s].seqid
    <3>1. slots \in [Slots -> SlotStates] /\ slots[s] \in SlotStates
      BY <1>0, <2>1 DEF TypeOK
    <3> QED  BY <1>1, <2>1, <3>1 DEF SlotStates
  <2>3. ASSUME s \notin adrift
        PROVE  SlotOK(s)' /\ UserOK(c)'
    <3>1. Users(s)' = IF f.pc = "send" THEN {c} ELSE {}
      BY <1>2, <1>3, <1>6, <2>1, <2>3 DEF Users, Using
    <3>2. \A r \in requests : r.slot # s
      BY <1>2, <2>1, <2>3
    <3>3. /\ slots[s].seqid = server[s].seqid
          /\ e.got.kind # "misordered"
          /\ e.got.kind = "ok" => e.got.of = Compound(c) /\ executed[Compound(c)] = 1
          /\ ~SeqOK(e.got.kind) => e.seqid = get_seqid(s)
      BY <1>2, <2>1, <2>3 DEF UserOK
    <3>4. slots'[s].seqid = server'[s].seqid
      BY <1>1, <2>2, <3>3
    <3>5. SlotOK(s)'
      <4>1. \A d \in Users(s)' : d = c /\ caller'[d].held = FALSE
        <5>1. f.pc = "send" => f.held = FALSE
          BY <1>2 DEF CallerStates
        <5> QED  BY <1>3, <3>1, <5>1
      <4> QED  BY <1>1, <2>2, <3>2, <3>4, <4>1 DEF SlotOK
    <3>6. Compound(c)' = Compound(c) /\ get_seqid(s)' = get_seqid(s)
      BY <1>2, <1>3, <2>2 DEF Compound, get_seqid
    <3>7. UserOK(c)'
      <4>1. CASE f.pc = "idle"
        BY <1>1, <1>2, <1>3, <3>3, <3>6, <4>1 DEF UserOK
      <4>2. CASE f.pc = "prepare"
        <5>1. f.outcome = "none"
          BY <1>2, <2>1, <4>2
        <5> QED  BY <1>3, <4>2, <5>1 DEF UserOK
      <4>3. CASE f.pc = "send"
        <5>1. f.outcome = "none" /\ f.seqid = get_seqid(s)
          BY <1>2, <1>3, <2>1, <3>3, <4>3 DEF SeqOK
        <5> QED  BY <1>2, <1>3, <3>4, <3>6, <4>3, <5>1 DEF UserOK
      <4> QED  BY <1>3, <4>1, <4>2, <4>3
    <3> QED  BY <3>5, <3>7
  <2>4. Using(c)' => f.slot = s
    BY <1>2
  <2>5. f.slot \notin adrift' => s \notin adrift
    BY <1>1, <1>2
  <2> QED  BY <1>1, <1>2, <1>4, <1>5, <2>1, <2>2, <2>3, <2>4, <2>5, SlotsMove
<1> QED  BY <1>4, <1>7, <1>8 DEF IInv

LEMMA SendKeeps ==
  ASSUME IInv, TypeOK', NEW c \in Callers, SendCall(c)
  PROVE  IInv'
<1> PICK e : e = caller[c]
  OBVIOUS
<1>0. TypeOK /\ XidsOK /\ SendsOK /\ RequestsOK /\ e \in CallerStates
  BY DEF IInv, TypeOK
<1> PICK send : send = Len(deferred) + 1
  OBVIOUS
<1> PICK q : q = Request(c, send)
  OBVIOUS
<1> PICK s : s = e.slot
  OBVIOUS
<1>1. /\ UNCHANGED <<xid, slots, handlers, replies, server, executed, adrift>>
      /\ deferred' = Append(deferred, Empty)
      /\ pending' = Registered(e.xid, send)
      /\ requests' \in {requests, requests \cup {q}}
  BY DEF SendCall, serverVars
<1>2. PICK f \in CallerStates :
        /\ caller' = [caller EXCEPT ![c] = f]
        /\ e.pc = "call" /\ f.pc = "listen" /\ f.send = send /\ f.xid = e.xid
        /\ f.n = e.n /\ f.slot = e.slot /\ f.seqid = e.seqid /\ f.outcome = e.outcome /\ f.held = e.held
  BY <1>0, SendMoves
<1>3. caller'[c] = f /\ \A d \in Callers : d # c => caller'[d] = caller[d]
  BY <1>0, <1>2, OneMoves
<1>4. /\ Len(deferred) \in Nat /\ Len(deferred') = send
      /\ \A i \in 1..Len(deferred) : deferred'[i] = deferred[i]
      /\ ~deferred'[send].filled
      /\ DOMAIN deferred = 1..Len(deferred) /\ DOMAIN deferred' = 1..Len(deferred')
  BY <1>0, <1>1, Longer
<1>5. send \in 1..Len(deferred') /\ send \notin 1..Len(deferred)
      /\ \A i : i \in 1..Len(deferred') <=> (i \in 1..Len(deferred) \/ i = send)
  BY <1>4
<1>6. Told' = Told
  <2>1. {j \in DOMAIN deferred' : deferred'[j].filled} = {j \in DOMAIN deferred : deferred[j].filled}
    BY <1>4, <1>5
  <2>2. \A j \in DOMAIN deferred : deferred'[j] = deferred[j]
    BY <1>4
  <2>3. {deferred'[i].data : i \in {j \in DOMAIN deferred' : deferred'[j].filled}}
          = {deferred[i].data : i \in {j \in DOMAIN deferred : deferred[j].filled}}
    BY <2>1, <2>2
  <2> QED  BY <1>1, <2>3 DEF Told
<1>7. /\ \A x \in Told : x.send # send
      /\ \A r \in requests : r.send # send /\ r.of # Compound(c)
      /\ \A d \in Callers : caller[d].pc \in {"listen", "finish", "release"} => caller[d].send # send
  <2>1. \A r \in requests : r.of # Compound(c)
    BY <1>0, <1>2 DEF RequestsOK
  <2> QED  BY <1>0, <1>5, <2>1 DEF SendsOK
<1>8. q.xid = e.xid /\ q.send = send /\ q.slot = s /\ q.seqid = e.seqid /\ q.of = Compound(c)
  BY DEF Request
<1>9. Request(c, send)' = q /\ Compound(c)' = Compound(c)
  BY <1>2, <1>3 DEF Request, Compound
<1>10. \A r \in requests' : r \in requests \/ r = q
  BY <1>1
<1>11. Using(c) /\ Using(c)'
  BY <1>2, <1>3 DEF Using
<1>12. s \in Slots /\ e.n > 0 /\ CallerKnows(c) /\ e.outcome = "none" /\ executed[Compound(c)] = 0
  BY <1>2, <1>11, Alone DEF CallerKnows
<1>13. XidsOK'
  <2>1. /\ DOMAIN pending' = DOMAIN pending \cup {e.xid} /\ pending'[e.xid] = send
        /\ \A x \in DOMAIN pending : x # e.xid => pending'[x] = pending[x]
    BY <1>1 DEF Registered
  <2>2. /\ e.xid < xid /\ e.xid \notin DOMAIN pending
        /\ \A r \in requests \cup replies : r.xid # e.xid
        /\ \A d \in Callers : d # c /\ caller[d].pc \in {"call", "listen"} => caller[d].xid # e.xid
    BY <1>0, <1>2 DEF XidsOK
  <2>3. \A r \in (requests \cup replies)' : r \in requests \cup replies \/ r = q
    BY <1>1, <1>10
  <2>4. \A r \in (requests \cup replies)' :
          r.xid < xid' /\ (r.xid \in DOMAIN pending' => pending'[r.xid] = r.send)
    BY <1>0, <1>1, <1>8, <2>1, <2>2, <2>3 DEF XidsOK
  <2>5. ASSUME NEW d \in Callers, caller'[d].pc = "call"
        PROVE  /\ caller'[d].xid \notin DOMAIN pending'
               /\ \A r \in (requests \cup replies)' : r.xid # caller'[d].xid
    <3>1. d # c /\ caller'[d] = caller[d]
      BY <1>2, <1>3, <2>5
    <3> QED  BY <1>0, <1>8, <2>1, <2>2, <2>3, <2>5, <3>1 DEF XidsOK
  <2>6. ASSUME NEW d \in Callers, caller'[d].pc = "listen"
        PROVE  /\ caller'[d].xid \in DOMAIN pending' /\ pending'[caller'[d].xid] = caller'[d].send
               /\ \A r \in (requests \cup replies)' : r.send = caller'[d].send => r.xid = caller'[d].xid
    <3>1. CASE d = c
      <4>1. \A r \in replies : r \in Told
        BY DEF Told
      <4>2. \A r \in requests \cup replies : r.send # send
        BY <1>7, <4>1
      <4> QED  BY <1>2, <1>3, <1>8, <2>1, <2>3, <3>1, <4>2
    <3>2. CASE d # c
      <4>1. caller'[d] = caller[d] /\ caller[d].send # send /\ caller[d].xid # e.xid
        BY <1>3, <1>7, <2>2, <2>6, <3>2
      <4> QED  BY <1>0, <1>8, <2>1, <2>3, <2>6, <4>1 DEF XidsOK
    <3> QED  BY <3>1, <3>2
  <2>7. \A d \in Callers : caller'[d].pc \in {"call", "listen"} =>
          caller[d].pc \in {"call", "listen"} /\ caller'[d].xid = caller[d].xid
    BY <1>2, <1>3
  <2> QED  BY <1>0, <1>1, <2>1, <2>2, <2>4, <2>5, <2>6, <2>7 DEF XidsOK
<1>14. SendsOK'
  <2>1. \A d \in Callers : caller'[d].pc \in {"listen", "finish", "release"} => caller'[d].send \in 1..Len(deferred')
    BY <1>0, <1>2, <1>3, <1>5 DEF SendsOK
  <2>2. \A r \in requests' : r.send \in 1..Len(deferred')
    BY <1>0, <1>5, <1>8, <1>10 DEF SendsOK
  <2>3. \A x \in Told' : x.send \in 1..Len(deferred')
    BY <1>0, <1>5, <1>6 DEF SendsOK
  <2>4. \A r, p \in requests' : r.send = p.send => r = p
    BY <1>0, <1>7, <1>8, <1>10 DEF SendsOK
  <2>5. \A r \in requests', x \in Told' : r.send # x.send
    BY <1>0, <1>6, <1>7, <1>8, <1>10 DEF SendsOK
  <2>6. \A i \in 1..Len(deferred') : deferred'[i].filled => deferred'[i].data.send = i
    BY <1>0, <1>4, <1>5 DEF SendsOK
  <2>7. \A h \in handlers' : h.deferred = h.reply.send
    BY <1>0, <1>1 DEF SendsOK
  <2> QED  BY <2>1, <2>2, <2>3, <2>4, <2>5, <2>6, <2>7 DEF SendsOK
<1>15. RequestsOK'
  <2>1. \A d \in Callers : caller'[d].n = caller[d].n /\ Compound(d)' = Compound(d)
    BY <1>2, <1>3 DEF Compound
  <2>2. ASSUME NEW r \in requests'
        PROVE  r.of[2] <= caller'[r.of[1]].n
    <3>1. CASE r \in requests
      <4>1. r.of[1] \in Callers
        BY <1>0, <3>1 DEF TypeOK, Requests, Compounds
      <4> QED  BY <1>0, <2>1, <3>1, <4>1 DEF RequestsOK
    <3>2. CASE r = q
      <4>1. r.of = <<c, e.n>> /\ e.n \in 0..MaxCompounds
        BY <1>0, <1>8, <3>2 DEF Compound, CallerStates
      <4>2. PICK n \in 0..MaxCompounds : n = e.n
        BY <4>1
      <4>3. n <= n
        BY BasicTypes
      <4>4. r.of[1] = c /\ r.of[2] = n /\ caller'[c].n = n
        BY <1>2, <1>3, <4>1, <4>2
      <4> QED  BY <4>3, <4>4
    <3> QED  BY <1>10, <3>1, <3>2
  <2>3. ASSUME NEW r \in requests', NEW d \in Callers, r.of = Compound(d)'
        PROVE  /\ executed'[r.of] = 0
               /\ \/ caller'[d].pc = "listen" /\ r.send = caller'[d].send
                  \/ caller'[d].pc = "idle" /\ caller'[d].outcome = "timeout"
    <3>1. CASE r \in requests
      <4>1. d # c /\ r.of = Compound(d)
        BY <1>7, <2>1, <2>3, <3>1
      <4> QED  BY <1>0, <1>1, <1>3, <3>1, <4>1 DEF RequestsOK
    <3>2. CASE r = q
      <4>1. d = c
        BY <1>8, <2>1, <2>3, <3>2 DEF Compound
      <4> QED  BY <1>1, <1>2, <1>3, <1>8, <1>12, <3>2, <4>1
    <3> QED  BY <1>10, <3>1, <3>2
  <2>4. ASSUME NEW r \in requests', NEW d \in Callers, caller'[d].pc = "listen", r.send = caller'[d].send
        PROVE  r = Request(d, r.send)'
    <3>1. CASE d = c
      BY <1>2, <1>3, <1>7, <1>9, <1>10, <2>4, <3>1
    <3>2. CASE d # c
      <4>1. caller'[d] = caller[d] /\ caller[d].send # send
        BY <1>3, <1>7, <2>4, <3>2
      <4>2. r \in requests
        BY <1>8, <1>10, <2>4, <4>1
      <4>3. r = Request(d, r.send)
        BY <1>0, <2>4, <4>1, <4>2 DEF RequestsOK
      <4>4. Request(d, r.send)' = Request(d, r.send)
        BY <4>1 DEF Request, Compound
      <4> QED  BY <4>3, <4>4
    <3> QED  BY <3>1, <3>2
  <2>5. \A r, p \in requests' : r.of = p.of => r = p
    BY <1>0, <1>7, <1>8, <1>10 DEF RequestsOK
  <2> QED  BY <2>2, <2>3, <2>4, <2>5 DEF RequestsOK
<1>16. CallersOK'
  <2>1. CallerKnows(c)'
    BY <1>1, <1>2, <1>3, <1>6, <1>7, <1>9, <1>12 DEF CallerKnows, Busy, Using, Compound
  <2> QED  BY <1>1, <1>2, <1>6, <2>1, CallersMove
<1>17. SlotsOK'
  <2>1. s \notin adrift => /\ SlotOK(s) /\ UserOK(c) /\ Users(s) = {c} /\ slots[s].inuse = e.held
              /\ \A r \in requests : r.slot = s => e.pc = "listen" /\ e.send = r.send
    BY <1>11, Alone
  <2>2. ASSUME s \notin adrift
        PROVE  SlotOK(s)' /\ UserOK(c)'
    <3>1. Users(s)' = {c}
      BY <1>2, <1>3, <1>11, <2>1, <2>2 DEF Users, Using
    <3>2. \A r \in requests' : r.slot = s => r = q
      BY <1>2, <1>10, <2>1, <2>2
    <3>3. SlotOK(s)'
      <4>1. \A d \in Users(s)' : slots'[s].inuse = caller'[d].held
        BY <1>1, <1>2, <1>3, <2>1, <2>2, <3>1
      <4>2. \A r \in requests' : r.slot = s =>
              \E d \in Users(s)' : caller'[d].pc = "listen" /\ caller'[d].send = r.send
        BY <1>2, <1>3, <1>8, <3>1, <3>2
      <4> QED  BY <3>1, <4>1, <4>2 DEF SlotOK
    <3>4. e.seqid = get_seqid(s) /\ slots[s].seqid = server[s].seqid
      BY <1>2, <2>1, <2>2 DEF UserOK
    <3>5. get_seqid(s)' = get_seqid(s)
      BY <1>1 DEF get_seqid
    <3>6. \A y \in Told' : y.send # f.send
      BY <1>2, <1>6, <1>7
    <3>7. UserOK(c)'
      BY <1>1, <1>2, <1>3, <1>12, <3>4, <3>5, <3>6 DEF UserOK
    <3> QED  BY <3>3, <3>7
  <2>3. f.slot = s /\ (f.slot \notin adrift' => s \notin adrift)
    BY <1>1, <1>2
  <2>4. requests \subseteq requests' /\ adrift \subseteq adrift'
    BY <1>1
  <2>5. \A r \in requests' : r \in requests \/
           (r.slot = s /\ \A d \in Callers : caller[d].pc = "listen" => r.send # caller[d].send)
    BY <1>7, <1>8, <1>10
  <2> QED  BY <1>1, <1>2, <1>6, <1>11, <1>12, <2>2, <2>3, <2>4, <2>5, SlotsMove
<1> QED  BY <1>13, <1>14, <1>15, <1>16, <1>17 DEF IInv

-----------------------------------------------------------------------------
LEMMA NextKeeps == IInv /\ [Next]_vars => IInv'
<1> SUFFICES ASSUME IInv, [Next]_vars PROVE IInv'
  OBVIOUS
<1>0. TypeOK /\ XidsOK /\ SendsOK /\ CallersOK
  BY DEF IInv
<1>1. ASSUME NEW c \in Callers, Start(c) \/ Step(c)
      PROVE  IInv'
  <2>1. TypeOK'
    BY <1>0, <1>1, RunsTypes
  <2> QED  BY <1>1, <2>1, StartKeeps, PrepareKeeps, GetXidKeeps, SendKeeps, ListenKeeps, TimeOutKeeps,
              FinishKeeps, ReleaseKeeps DEF Step
<1>2. CASE \/ \E r \in replies : LookUp(r) \/ Duplicate(r)
           \/ \E h \in handlers : Fill(h)
           \/ Close
  BY <1>0, <1>2, CarriesTypes, CarriesKeep
<1>3. ASSUME NEW r \in requests,
             Accept(r, "ok") \/ Accept(r, "delay") \/ DelaySequence(r) \/ Refuse(r) \/ Deny(r)
      PROVE  IInv'
  <2>1. /\ TypeOK'
        /\ UNCHANGED <<pipeVars, slots, caller, handlers, begun, adrift>>
        /\ requests' = requests \ {r}
    BY <1>0, <1>3, AnswersTypes
  <2>2. PICK x \in Replies :
              /\ replies' = replies \cup {x} /\ Told' = Told \cup {x}
              /\ x.xid = r.xid /\ x.send = r.send
              /\ \/ /\ InOrder(r) /\ x.kind \in {"ok", "delay"}
                    /\ x.of = r.of /\ x.seqid = r.seqid
                    /\ \E y \in ServerSlots : y.seqid = r.seqid /\ server' = [server EXCEPT ![r.slot] = y]
                    /\ executed' = IF x.kind = "ok" THEN [executed EXCEPT ![r.of] = @ + 1] ELSE executed
                 \/ ~InOrder(r) /\ UNCHANGED serverVars
                 \/ x.kind \in {"seqDelay", "denied"} /\ UNCHANGED serverVars
    BY <1>0, <1>3, AnswersTypes
  <2> QED  BY <2>1, <2>2, AnswersKeep
<1>4. CASE UNCHANGED vars
  <2>1. UNCHANGED <<xid, pending, deferred, slots, caller, handlers, requests, replies, connected,
                    server, begun, executed, adrift, faults>>
    BY <1>4 DEF vars
  <2>2. TypeOK'
    BY <1>0, <2>1 DEF TypeOK
  <2>3. Told' = Told
    BY <2>1 DEF Told
  <2>4. Carries
    BY <2>1, <2>3 DEF Carries, Alike, serverVars
  <2> QED  BY <1>0, <2>1, <2>2, <2>4, CarriesKeep DEF SendsOK
<1> QED  BY <1>1, <1>2, <1>3, <1>4 DEF Next

(* The invariant holds in every state of ClientCalls: it says what of a call  *)
(* is where, and what each side of a slot has seen of the other.              *)
THEOREM Invariance == Spec => []IInv
<1>1. Init => IInv
  BY InitHolds
<1>2. IInv /\ [Next]_vars => IInv'
  BY NextKeeps
<1> QED  BY <1>1, <1>2, PTL DEF Spec

(* What listen returns is the reply to the call it was sent for, and a reply  *)
(* that somebody waits for finds its DeferredData in RpcPipe._pending.        *)
THEOREM EveryReplyMeetsItsCall == Spec => []RepliesMeetTheirCalls
<1>1. IInv => RepliesMeetTheirCalls
  <2> SUFFICES ASSUME IInv PROVE RepliesMeetTheirCalls
    OBVIOUS
  <2>1. ASSUME NEW c \in Callers, caller[c].pc = "finish"
        PROVE  caller[c].got # None /\ caller[c].got.send = caller[c].send
    <3>1. caller[c].got \in Replies
      BY <2>1 DEF IInv, TypeOK
    <3>2. caller[c].got.send = caller[c].send
      BY <2>1 DEF IInv, CallersOK, CallerKnows
    <3> QED  BY <3>1, <3>2, CallsAssumption
  <2>2. ASSUME NEW r \in replies, NEW c \in Callers, caller[c].send = r.send, caller[c].pc = "listen"
        PROVE  r.xid \in DOMAIN pending /\ pending[r.xid] = r.send
    BY <2>2 DEF IInv, XidsOK
  <2> QED  BY <2>1, <2>2 DEF RepliesMeetTheirCalls
<1> QED  BY <1>1, Invariance, PTL

(* compound tells its caller the truth about what the server did, as long as  *)
(* the slot was not lost sight of.                                            *)
THEOREM CompoundTellsTheTruth == Spec => []TellsWhatHappened
<1>1. IInv => TellsWhatHappened
  <2> SUFFICES ASSUME IInv, NEW c \in Callers, caller[c].n > 0, caller[c].slot \notin adrift
               PROVE  /\ executed[Compound(c)] \in {0, 1}
                      /\ caller[c].outcome = "ok" =>
                           executed[Compound(c)] = 1 /\ caller[c].got.of = Compound(c)
                      /\ caller[c].outcome \in {"delay", "seqDelay", "denied", "outOfSlots"} =>
                           executed[Compound(c)] = 0
                      /\ caller[c].outcome # "misordered"
    BY DEF TellsWhatHappened
  <2>1. CallerKnows(c) /\ UserOK(c)
    BY DEF IInv, CallersOK, SlotsOK
  <2> QED  BY <2>1 DEF CallerKnows, UserOK
<1> QED  BY <1>1, Invariance, PTL

(* A slot that choose_slot may take has the sequence id the server expects:   *)
(* finish_call stores it before it lets the slot go.                          *)
THEOREM FreeSlotsAreInStep == Spec => []SlotsInStep
<1>1. IInv => SlotsInStep
  <2> SUFFICES ASSUME IInv, NEW s \in Slots \ adrift, ~slots[s].inuse, Unheld(s) = {}
               PROVE  slots[s].seqid = server[s].seqid
    BY DEF SlotsInStep
  <2>1. SlotOK(s)
    BY DEF IInv, SlotsOK
  <2>2. ASSUME NEW d \in Users(s)
        PROVE  FALSE
    <3>1. d \in Callers /\ Using(d) /\ caller[d].slot = s
      BY <2>2 DEF Users
    <3>2. ~caller[d].held /\ Busy(d)
      BY <2>1, <2>2, <3>1 DEF SlotOK, Using, Busy
    <3> QED  BY <3>1, <3>2 DEF Unheld
  <2> QED  BY <2>1, <2>2 DEF SlotOK
<1> QED  BY <1>1, Invariance, PTL
=============================================================================
