--------------------------- MODULE PollLoop_proofs ---------------------------
(* Proofs about PollLoop, for any number of threads, connections and records  *)
(* and any capacity of the socket of the Alarm: no record is lost, sent twice *)
(* or overtaken, and pushing records alone never ends the polling thread.     *)
(* And, at the end, about RecordMarking, the bytes of one of its connections: *)
(* records of any length come out as they went in.                            *)
EXTENDS PollLoop, FiniteSetTheorems, SequenceTheorems, TLAPS

-----------------------------------------------------------------------------
(* The inductive invariant                                                    *)

Kinds == {"write", "new", "stop"}
Turns == [pc : {"select", "turn", "commands", "ended", "dead"},
          w : SUBSET AllPipes, r : SUBSET (AllPipes \cup {Alarmed}), commands : Seq(Kinds)]
Buzzing == [pc : {"append", "send", "wait"}, info : Infos]

\* Finitely many records were pushed, which is what numbers the next one.
TypeOK ==
  /\ conn \in [AllPipes -> {"none", "made", "open", "closed"}]
  /\ ended \in SUBSET AllPipes
  /\ writeQueue \in [AllPipes -> Seq(Nat)] /\ writeBuf \in [AllPipes -> Seq(Nat)]
  /\ pushed \in [AllPipes -> Seq(Nat)] /\ sent \in [AllPipes -> Seq(Nat)]
  /\ writelist \in SUBSET (AllPipes \cup {NoFd})
  /\ alarmQueue \in Seq(Infos) /\ wire \in Seq(Kinds)
  /\ poll \in Turns
  /\ stopped \in BOOLEAN
  /\ thread \in [Threads -> {Idle} \cup Buzzing]
  /\ IsFiniteSet(Records)

\* The infos that are about a pipe there was from the start
Writes == {Write(p) : p \in Pipes}

Sending == {t \in Threads : thread[t].pc = "send"}

(* What holds while threads do nothing but push: every command on its way has *)
(* its info in the deque, whichever thread appended it; and a pipe that is on *)
(* the writelist has something to write.                                      *)
CommandsHaveInfos ==
  /\ IsFiniteSet(Sending)
  /\ Len(alarmQueue) >= Len(wire) + Len(poll.commands) + Cardinality(Sending)

Pushing ==
  /\ PollerSurvives
  /\ \A p \in Pipes : conn[p] = "open"
  /\ writelist \in SUBSET Pipes /\ poll.w \in SUBSET writelist
  /\ \A p \in writelist : writeBuf[p] # <<>>
  /\ poll.r \in SUBSET {Alarmed}
  /\ alarmQueue \in Seq(Writes)
  /\ wire \in Seq({"write"}) /\ poll.commands \in Seq({"write"})
  /\ \A t \in Threads :
       /\ thread[t].pc = "append" => thread[t].info \in Writes \cup {Stop}
       /\ thread[t].pc = "send" => thread[t].info \in Writes
       /\ thread[t].pc # "wait"
  /\ CommandsHaveInfos

IInv == TypeOK /\ RecordsInOrder /\ (OnlyWrites => Pushing)

-----------------------------------------------------------------------------
(* Types                                                                      *)

LEMMA Types ==
  /\ Idle \in {Idle} \cup Buzzing /\ Selecting \in Turns /\ Dead \in Turns
  /\ \A p \in AllPipes : Write(p) \in Infos
  /\ \A p \in NewPipes : Connect(p) \in Infos /\ p \in AllPipes
  /\ \A info \in Infos :
       /\ info.kind \in Kinds
       /\ info.kind = "write" => info.pipe \in AllPipes
       /\ info.kind = "new" => info.pipe \in NewPipes
       /\ AfterBuzz(info) \in {Idle} \cup Buzzing
<1>1. <<>> \in Seq(Kinds)
  OBVIOUS
<1>2. Idle \in {Idle} \cup Buzzing /\ Selecting \in Turns /\ Dead \in Turns
  BY <1>1 DEF Selecting, Dead, Polling, Turns
<1>3. \A info \in Infos :
        /\ info.kind \in Kinds
        /\ info.kind = "write" => info.pipe \in AllPipes
        /\ info.kind = "new" => info.pipe \in NewPipes
  BY DEF Infos, Write, Connect, Stop, Kinds
<1> QED  BY <1>2, <1>3 DEF Infos, AfterBuzz, Buzzing, AllPipes

LEMMA TurnSteps ==
  ASSUME NEW e \in Turns
  PROVE  /\ \A p : [e EXCEPT !.w = @ \ {p}] \in Turns /\ [e EXCEPT !.r = @ \ {p}] \in Turns
         /\ \A pc \in {"turn", "ended"} : [e EXCEPT !.pc = pc] \in Turns
         /\ e.commands # <<>> => [e EXCEPT !.commands = Tail(@)] \in Turns
<1>1. \A p : [e EXCEPT !.w = @ \ {p}] \in Turns /\ [e EXCEPT !.r = @ \ {p}] \in Turns
  BY DEF Turns
<1>2. \A pc \in {"turn", "ended"} : [e EXCEPT !.pc = pc] \in Turns
  BY DEF Turns
<1>3. ASSUME e.commands # <<>>
      PROVE  [e EXCEPT !.commands = Tail(@)] \in Turns
  <2>1. Tail(e.commands) \in Seq(Kinds)
    BY <1>3, HeadTailProperties DEF Turns
  <2> QED  BY <2>1 DEF Turns
<1> QED  BY <1>1, <1>2, <1>3

\* The number of the next record
LEMMA NextRecord ==
  ASSUME TypeOK, NEW p \in AllPipes, NEW n, n = Cardinality(Records) + 1,
         pushed' = [pushed EXCEPT ![p] = Append(@, n)]
  PROVE  n \in Nat /\ IsFiniteSet(Records')
<1>1. Cardinality(Records) \in Nat
  BY FS_CardinalityType DEF TypeOK
<1>2. IsFiniteSet(Records \cup {n})
  BY FS_AddElement DEF TypeOK
<1>3. Records' \in SUBSET (Records \cup {n})
  <2>1. ASSUME NEW q \in AllPipes
        PROVE  Range(pushed'[q]) \in SUBSET (Range(pushed[q]) \cup {n})
    <3>1. pushed[q] \in Seq(Nat) /\ n \in Nat
      BY <1>1 DEF TypeOK
    <3>2. Range(Append(pushed[q], n)) \in SUBSET (Range(pushed[q]) \cup {n})
      BY <3>1, AppendProperties DEF Range
    <3> QED  BY <3>2 DEF TypeOK
  <2> QED  BY ZenonT(40), <2>1 DEF Records
<1> QED  BY <1>1, <1>2, <1>3, FS_Subset

(* The other threads keep the types of the state.                             *)
LEMMA ThreadTypes ==
  ASSUME TypeOK, NEW t \in Threads,
         \/ Buzz(t) \/ ConnectTimesOut(t) \/ StopLoop(t)
         \/ \E p \in AllPipes : PushRecord(t, p)
         \/ \E p \in NewPipes : MakePipe(t, p)
  PROVE  TypeOK'
<1>1. ASSUME thread[t] # Idle
      PROVE  thread[t].info \in Infos
  BY <1>1 DEF TypeOK, Buzzing
<1>2. ASSUME NEW p \in AllPipes, PushRecord(t, p)
      PROVE  TypeOK'
  <2> DEFINE n == Cardinality(Records) + 1
  <2>1. n \in Nat /\ IsFiniteSet(Records')
    BY <1>2, NextRecord DEF PushRecord
  <2>2. [pc |-> "append", info |-> Write(p)] \in Buzzing
    BY Types DEF Buzzing
  <2>3. writeQueue' \in [AllPipes -> Seq(Nat)] /\ pushed' \in [AllPipes -> Seq(Nat)]
    BY <1>2, <2>1 DEF PushRecord, TypeOK
  <2> QED  BY <1>2, <2>1, <2>2, <2>3 DEF PushRecord, TypeOK
<1>3. ASSUME NEW p \in NewPipes, MakePipe(t, p)
      PROVE  TypeOK'
  <2>1. [pc |-> "append", info |-> Connect(p)] \in Buzzing /\ p \in AllPipes
    BY Types DEF Buzzing
  <2>2. conn' \in [AllPipes -> {"none", "made", "open", "closed"}]
    BY <1>3 DEF MakePipe, TypeOK
  <2> QED  BY <1>3, <2>1, <2>2 DEF MakePipe, TypeOK, pipeVars, Records
<1>4. ASSUME StopLoop(t)
      PROVE  TypeOK'
  <2>1. [pc |-> "append", info |-> Stop] \in Buzzing
    BY DEF Buzzing, Infos
  <2> QED  BY <1>4, <2>1 DEF StopLoop, TypeOK, pipeVars, Records
<1>5. ASSUME BuzzAppend(t)
      PROVE  TypeOK'
  <2>1. thread[t] \in Buzzing
    BY <1>5 DEF BuzzAppend, TypeOK, Idle
  <2>2. alarmQueue' \in Seq(Infos)
    BY <1>5, <2>1 DEF BuzzAppend, TypeOK, Buzzing
  <2>3. thread' \in [Threads -> {Idle} \cup Buzzing]
    BY <1>5, <2>1 DEF BuzzAppend, TypeOK, Buzzing
  <2> QED  BY <1>5, <2>2, <2>3 DEF BuzzAppend, TypeOK, pipeVars, Records
<1>6. ASSUME BuzzSend(t)
      PROVE  TypeOK'
  <2>1. thread[t] \in Buzzing /\ thread[t].info \in Infos
    BY <1>6 DEF BuzzSend, TypeOK, Idle, Buzzing
  <2>2. thread[t].info.kind \in Kinds /\ AfterBuzz(thread[t].info) \in {Idle} \cup Buzzing
    BY <2>1, Types
  <2>3. wire' \in Seq(Kinds)
    <3>1. wire' = Append(wire, thread[t].info.kind) \/ wire' = wire
      BY <1>6 DEF BuzzSend
    <3>2. wire \in Seq(Kinds)
      BY DEF TypeOK
    <3> QED  BY <2>2, <3>1, <3>2, AppendProperties
  <2>4. thread' \in [Threads -> {Idle} \cup Buzzing]
    BY <1>6, <2>2 DEF BuzzSend, TypeOK
  <2> QED  BY <1>6, <2>3, <2>4 DEF BuzzSend, TypeOK, pipeVars, Records
<1>7. ASSUME Connected(t) \/ ConnectTimesOut(t)
      PROVE  TypeOK'
  <2>1. thread' \in [Threads -> {Idle} \cup Buzzing]
    BY <1>7 DEF Connected, ConnectTimesOut, TypeOK
  <2>2. UNCHANGED <<conn, ended, writeQueue, writeBuf, pushed, sent, writelist, alarmQueue,
                    wire, poll, stopped>>
    BY <1>7 DEF Connected, ConnectTimesOut, pipeVars
  <2> QED  BY <2>1, <2>2 DEF TypeOK, Records
<1> QED  BY <1>2, <1>3, <1>4, <1>5, <1>6, <1>7 DEF Buzz

(* So does the polling thread.                                                *)
LEMMA PollTypes ==
  ASSUME TypeOK, PollStep
  PROVE  TypeOK'
<1> USE DEF pipeVars, Records
<1>1. ASSUME Select
      PROVE  TypeOK'
  <2>1. Readable \in SUBSET (AllPipes \cup {Alarmed})
    BY DEF TypeOK, Readable
  <2>2. NoFd \notin writelist => Polling("turn", writelist, Readable, <<>>) \in Turns
    BY <2>1 DEF TypeOK, Polling, Turns
  <2> QED  BY <1>1, <2>2, Types DEF Select, TypeOK
<1>2. ASSUME NEW p \in AllPipes, EventWrite(p)
      PROVE  TypeOK'
  <2>1. poll' \in Turns
    <3>1. poll' = [poll EXCEPT !.w = @ \ {p}] \/ poll' = Dead
      BY <1>2 DEF EventWrite
    <3>2. [poll EXCEPT !.w = @ \ {p}] \in Turns
      BY TurnSteps DEF TypeOK
    <3> QED  BY <3>1, <3>2, Types
  <2>2. ASSUME NEW n \in 1..Len(writeBuf[p]), Flush(p, n)
        PROVE  /\ sent' \in [AllPipes -> Seq(Nat)] /\ writeBuf' \in [AllPipes -> Seq(Nat)]
               /\ writelist' \in SUBSET (AllPipes \cup {NoFd})
    <3>1. writeBuf[p] \in Seq(Nat)
      BY DEF TypeOK
    <3>2. SubSeq(writeBuf[p], 1, n) \in Seq(Nat)
      BY <3>1
    <3>3. SubSeq(writeBuf[p], n + 1, Len(writeBuf[p])) \in Seq(Nat)
      BY <3>1
    <3>4. sent' \in [AllPipes -> Seq(Nat)]
      BY SMTT(40), <2>2, <3>2 DEF Flush, TypeOK
    <3>5. writeBuf' \in [AllPipes -> Seq(Nat)]
      BY <2>2, <3>3 DEF Flush, TypeOK
    <3> QED  BY <2>2, <3>4, <3>5 DEF Flush, TypeOK
  <2>3. /\ sent' \in [AllPipes -> Seq(Nat)] /\ writeBuf' \in [AllPipes -> Seq(Nat)]
        /\ writelist' \in SUBSET (AllPipes \cup {NoFd})
    BY <1>2, <2>2 DEF EventWrite, FlushFails, TypeOK
  <2> QED  BY <1>2, <2>1, <2>3 DEF EventWrite, TypeOK
<1>3. ASSUME NEW p \in AllPipes, EventClose(p)
      PROVE  TypeOK'
  <2>1. poll' \in Turns
    BY <1>3, TurnSteps DEF EventClose, TypeOK
  <2>2. conn' \in [AllPipes -> {"none", "made", "open", "closed"}]
    BY <1>3 DEF EventClose, TypeOK
  <2> QED  BY <1>3, <2>1, <2>2 DEF EventClose, TypeOK
<1>4. ASSUME ReadAlarm
      PROVE  TypeOK'
  BY <1>4 DEF ReadAlarm, TypeOK, Turns, Polling
<1>5. ASSUME Command
      PROVE  TypeOK'
  <2>1. PICK info : info = Head(alarmQueue) /\ info \in Infos
    BY <1>5 DEF Command, TypeOK
  <2>2. alarmQueue' \in Seq(Infos) /\ poll' \in Turns
    BY <1>5, TurnSteps, HeadTailProperties DEF Command, TypeOK
  <2>3. CASE BuzzWriteReady(info)
    <3>1. info.pipe \in AllPipes
      BY <2>1, <2>3, Types DEF BuzzWriteReady
    <3>2. writeQueue' \in [AllPipes -> Seq(Nat)]
      BY <2>3, <3>1 DEF BuzzWriteReady, TypeOK
    <3>3. writeBuf' \in [AllPipes -> Seq(Nat)]
      BY <2>3, <3>1 DEF BuzzWriteReady, TypeOK
    <3>4. writelist' \in SUBSET (AllPipes \cup {NoFd})
      BY <2>3, <3>1 DEF BuzzWriteReady, TypeOK, Fd
    <3> QED  BY <1>5, <2>2, <2>3, <3>2, <3>3, <3>4 DEF Command, BuzzWriteReady, TypeOK
  <2>4. CASE BuzzNewSocket(info)
    <3>1. info.pipe \in AllPipes
      BY <2>1, <2>4, Types DEF BuzzNewSocket
    <3>2. conn' \in [AllPipes -> {"none", "made", "open", "closed"}]
      BY <2>4, <3>1 DEF BuzzNewSocket, TypeOK
    <3> QED  BY <1>5, <2>2, <2>4, <3>2 DEF Command, BuzzNewSocket, TypeOK
  <2> QED  BY <1>5, <2>1, <2>3, <2>4 DEF Command, Executes
<1>6. ASSUME BuzzStop
      PROVE  TypeOK'
  <2>1. alarmQueue' \in Seq(Infos) /\ poll' \in Turns
    BY <1>6, TurnSteps, HeadTailProperties DEF BuzzStop, TypeOK
  <2> QED  BY <1>6, <2>1 DEF BuzzStop, TypeOK
<1>7. ASSUME CommandFails \/ CommandsEnd \/ TurnEnds
      PROVE  TypeOK'
  <2>1. poll' \in Turns
    BY <1>7, Types, TurnSteps DEF CommandFails, CommandsEnd, TurnEnds, TypeOK
  <2> QED  BY <1>7, <2>1 DEF CommandFails, CommandsEnd, TurnEnds, TypeOK
<1>8. ASSUME LoopEnds
      PROVE  TypeOK'
  <2>1. poll' \in Turns
    BY <1>8, TurnSteps DEF LoopEnds, TypeOK
  <2>2. conn' \in [AllPipes -> {"none", "made", "open", "closed"}]
    BY <1>8 DEF LoopEnds, TypeOK
  <2> QED  BY <1>8, <2>1, <2>2 DEF LoopEnds, TypeOK
<1> QED  BY <1>1, <1>2, <1>3, <1>4, <1>5, <1>6, <1>7, <1>8 DEF PollStep

-----------------------------------------------------------------------------
(* Records                                                                    *)

LEMMA Pushed ==
  \A a, b \in Seq(Nat) : \A n \in Nat : a \o Append(b, n) = Append(a \o b, n)
OBVIOUS

LEMMA Moved ==
  ASSUME NEW S, NEW a \in Seq(S), NEW b \in Seq(S), NEW c \in Seq(S), c # <<>>
  PROVE  (a \o Append(b, Head(c))) \o Tail(c) = (a \o b) \o c
<1>1. Head(c) \in S /\ Tail(c) \in Seq(S) /\ <<Head(c)>> \in Seq(S)
  BY HeadTailProperties
<1>2. c = <<Head(c)>> \o Tail(c)
  BY <1>1
<1>3. Append(b, Head(c)) = b \o <<Head(c)>>
  BY <1>1, AppendIsConcat
<1>4. (a \o (b \o <<Head(c)>>)) \o Tail(c) = ((a \o b) \o <<Head(c)>>) \o Tail(c)
  BY SMTT(40), <1>1, ConcatAssociative
<1>5. ((a \o b) \o <<Head(c)>>) \o Tail(c) = (a \o b) \o (<<Head(c)>> \o Tail(c))
  BY SMTT(40), <1>1, ConcatAssociative, ConcatProperties
<1> QED  BY <1>2, <1>3, <1>4, <1>5

LEMMA Split ==
  ASSUME NEW S, NEW a \in Seq(S), NEW b \in Seq(S), NEW n \in 1..Len(b)
  PROVE  (a \o SubSeq(b, 1, n)) \o SubSeq(b, n + 1, Len(b)) = a \o b
<1>1. SubSeq(b, 1, n) \in Seq(S) /\ SubSeq(b, n + 1, Len(b)) \in Seq(S) /\ Len(b) \in Nat
  OBVIOUS
<1>2. SubSeq(b, 1, n) \o SubSeq(b, n + 1, Len(b)) = SubSeq(b, 1, Len(b))
  BY <1>1, ConcatAdjacentSubSeq
<1>3. SubSeq(b, 1, Len(b)) = b
  BY SubSeqFull
<1>4. (a \o SubSeq(b, 1, n)) \o SubSeq(b, n + 1, Len(b))
        = a \o (SubSeq(b, 1, n) \o SubSeq(b, n + 1, Len(b)))
  <2>1. PICK x, y : x = SubSeq(b, 1, n) /\ y = SubSeq(b, n + 1, Len(b))
    OBVIOUS
  <2>2. x \in Seq(S) /\ y \in Seq(S)
    BY <1>1, <2>1
  <2>3. (a \o x) \o y = a \o (x \o y)
    BY <2>2
  <2> QED  BY <2>1, <2>3
<1> QED  BY <1>2, <1>3, <1>4

(* Every step moves records along: from the thread to the queue, from the     *)
(* queue to the buffer, from the buffer to the connection.                    *)
LEMMA OrderIsKept ==
  ASSUME TypeOK, RecordsInOrder, Next
  PROVE  RecordsInOrder'
<1>1. ASSUME UNCHANGED <<sent, writeBuf, writeQueue, pushed>>
      PROVE  RecordsInOrder'
  BY <1>1 DEF RecordsInOrder
<1>2. ASSUME NEW t \in Threads, NEW p \in AllPipes, PushRecord(t, p)
      PROVE  RecordsInOrder'
  <2>1. PICK n : n = Cardinality(Records) + 1
    OBVIOUS
  <2>2. n \in Nat
    BY <1>2, <2>1, NextRecord DEF PushRecord
  <2>3. ASSUME NEW q \in AllPipes
        PROVE  sent'[q] \o writeBuf'[q] \o writeQueue'[q] = pushed'[q]
    <3>1. /\ sent[q] \in Seq(Nat) /\ writeBuf[q] \in Seq(Nat) /\ writeQueue[q] \in Seq(Nat)
          /\ sent[q] \o writeBuf[q] \o writeQueue[q] = pushed[q]
      BY DEF TypeOK, RecordsInOrder
    <3>2. CASE q = p
      <4>1. writeQueue'[p] = Append(writeQueue[p], n) /\ pushed'[p] = Append(pushed[p], n)
        BY <1>2, <2>1 DEF PushRecord, TypeOK
      <4>2. PICK a, b : a = sent[p] \o writeBuf[p] /\ b = writeQueue[p]
        OBVIOUS
      <4>3. a \in Seq(Nat) /\ b \in Seq(Nat) /\ a \o b = pushed[p]
        BY <3>1, <3>2, <4>2, ConcatProperties
      <4>4. a \o Append(b, n) = Append(a \o b, n)
        BY <2>2, <4>3, Pushed
      <4> QED  BY <1>2, <3>2, <4>1, <4>2, <4>3, <4>4 DEF PushRecord
    <3>3. CASE q # p
      BY <1>2, <3>1, <3>3 DEF PushRecord, TypeOK
    <3> QED  BY <3>2, <3>3
  <2> QED  BY <2>3 DEF RecordsInOrder
<1>3. ASSUME NEW p \in AllPipes, EventWrite(p)
      PROVE  RecordsInOrder'
  <2>1. CASE UNCHANGED <<sent, writeBuf>>
    BY <1>1, <1>3, <2>1 DEF EventWrite
  <2>2. ASSUME NEW n \in 1..Len(writeBuf[p]), Flush(p, n)
        PROVE  RecordsInOrder'
    <3>1. ASSUME NEW q \in AllPipes
          PROVE  sent'[q] \o writeBuf'[q] = sent[q] \o writeBuf[q]
      <4>1. CASE q = p
        <5>1. sent[p] \in Seq(Nat) /\ writeBuf[p] \in Seq(Nat)
          BY DEF TypeOK
        <5>2. /\ sent'[p] = sent[p] \o SubSeq(writeBuf[p], 1, n)
              /\ writeBuf'[p] = SubSeq(writeBuf[p], n + 1, Len(writeBuf[p]))
          BY <2>2 DEF Flush, TypeOK
        <5>3. (sent[p] \o SubSeq(writeBuf[p], 1, n)) \o SubSeq(writeBuf[p], n + 1, Len(writeBuf[p]))
                = sent[p] \o writeBuf[p]
          BY <5>1, Split
        <5> QED  BY <4>1, <5>2, <5>3
      <4>2. CASE q # p
        BY <2>2, <4>2 DEF Flush, TypeOK
      <4> QED  BY <4>1, <4>2
    <3> QED  BY <1>3, <3>1 DEF RecordsInOrder, EventWrite
  <2> QED  BY <1>3, <2>1, <2>2 DEF EventWrite, FlushFails
<1>4. ASSUME Command
      PROVE  RecordsInOrder'
  <2>1. PICK info : info = Head(alarmQueue) /\ info \in Infos
    BY <1>4 DEF Command, TypeOK
  <2>2. CASE BuzzWriteReady(info)
    <3>1. info.pipe \in AllPipes /\ writeQueue[info.pipe] # <<>>
      BY <2>1, <2>2, Types DEF BuzzWriteReady
    <3>2. ASSUME NEW q \in AllPipes
          PROVE  sent[q] \o writeBuf'[q] \o writeQueue'[q] = sent[q] \o writeBuf[q] \o writeQueue[q]
      <4>1. CASE q = info.pipe
        <5>1. sent[q] \in Seq(Nat) /\ writeBuf[q] \in Seq(Nat) /\ writeQueue[q] \in Seq(Nat)
          BY DEF TypeOK
        <5>2. /\ writeQueue'[q] = Tail(writeQueue[q])
              /\ writeBuf'[q] = Append(writeBuf[q], Head(writeQueue[q]))
          BY <2>2, <3>1, <4>1 DEF BuzzWriteReady, TypeOK
        <5>3. (sent[q] \o Append(writeBuf[q], Head(writeQueue[q]))) \o Tail(writeQueue[q])
                = (sent[q] \o writeBuf[q]) \o writeQueue[q]
          <6>1. PICK a, b, c : a = sent[q] /\ b = writeBuf[q] /\ c = writeQueue[q]
            OBVIOUS
          <6>2. a \in Seq(Nat) /\ b \in Seq(Nat) /\ c \in Seq(Nat) /\ c # <<>>
            BY <3>1, <4>1, <5>1, <6>1
          <6>3. (a \o Append(b, Head(c))) \o Tail(c) = (a \o b) \o c
            BY <6>2, Moved, SMTT(60)
          <6> QED  BY <6>1, <6>3
        <5> QED  BY <5>2, <5>3
      <4>2. CASE q # info.pipe
        BY <2>2, <4>2 DEF BuzzWriteReady, TypeOK
      <4> QED  BY <4>1, <4>2
    <3> QED  BY <1>4, <3>2 DEF RecordsInOrder, Command
  <2>3. CASE BuzzNewSocket(info)
    BY <1>1, <1>4, <2>3 DEF Command, BuzzNewSocket
  <2> QED  BY <1>4, <2>1, <2>2, <2>3 DEF Command, Executes
<1>5. ASSUME PollStep
      PROVE  RecordsInOrder'
  <2>1. ASSUME \/ Select \/ (\E p \in AllPipes : EventClose(p)) \/ ReadAlarm \/ BuzzStop
               \/ CommandFails \/ CommandsEnd \/ TurnEnds \/ LoopEnds
        PROVE  UNCHANGED <<sent, writeBuf, writeQueue, pushed>>
    BY <2>1 DEF Select, EventClose, ReadAlarm, BuzzStop, CommandFails, CommandsEnd, TurnEnds,
                LoopEnds, pipeVars
  <2> QED  BY <1>1, <1>3, <1>4, <1>5, <2>1 DEF PollStep
<1>6. ASSUME NEW t \in Threads,
             \/ Buzz(t) \/ ConnectTimesOut(t) \/ StopLoop(t)
             \/ \E p \in NewPipes : MakePipe(t, p)
      PROVE  RecordsInOrder'
  BY <1>1, <1>6 DEF Buzz, BuzzAppend, BuzzSend, Connected, ConnectTimesOut, StopLoop, MakePipe, pipeVars
<1>7. ASSUME NEW p \in AllPipes, PeerCloses(p)
      PROVE  RecordsInOrder'
  BY <1>1, <1>7 DEF PeerCloses, pipeVars
<1> QED  BY <1>2, <1>5, <1>6, <1>7 DEF Next

-----------------------------------------------------------------------------
(* The polling thread                                                         *)

LEMMA RangeSteps ==
  /\ \A q \in Seq(Infos) : \A info \in Infos :
       info \in Range(Append(q, info)) /\ Range(q) \in SUBSET Range(Append(q, info))
  /\ \A q \in Seq(Infos) : q # <<>> => Range(q) \in SUBSET (Range(Tail(q)) \cup {Head(q)})
<1>1. ASSUME NEW q \in Seq(Infos), NEW info \in Infos
      PROVE  info \in Range(Append(q, info)) /\ Range(q) \in SUBSET Range(Append(q, info))
  <2>1. PICK n \in Nat : n = Len(q)
    OBVIOUS
  <2>2. DOMAIN q = 1..n /\ DOMAIN Append(q, info) = 1..(n + 1)
    BY <2>1
  <2>3. Append(q, info)[n + 1] = info /\ \A i \in 1..n : Append(q, info)[i] = q[i]
    BY <2>1
  <2>4. n + 1 \in 1..(n + 1) /\ \A i \in 1..n : i \in 1..(n + 1)
    BY <2>1
  <2> QED  BY <2>2, <2>3, <2>4 DEF Range
<1>2. ASSUME NEW q \in Seq(Infos), q # <<>>
      PROVE  Range(q) \in SUBSET (Range(Tail(q)) \cup {Head(q)})
  <2>1. PICK n \in Nat : n = Len(q)
    OBVIOUS
  <2>2. DOMAIN q = 1..n /\ DOMAIN Tail(q) = 1..(n - 1) /\ Head(q) = q[1]
    BY <1>2, <2>1
  <2>3. \A i \in 1..(n - 1) : Tail(q)[i] = q[i + 1]
    BY <1>2, <2>1
  <2>4. \A i \in 1..n : i = 1 \/ (i - 1 \in 1..(n - 1) /\ Tail(q)[i - 1] = q[i])
    BY <2>1, <2>3
  <2> QED  BY ZenonT(40), <2>2, <2>4 DEF Range
<1> QED  BY <1>1, <1>2

(* Once anything but pushing has happened it has happened.                    *)
LEMMA OnlyWritesBefore ==
  ASSUME TypeOK, Next, OnlyWrites'
  PROVE  OnlyWrites
<1>1. ended \in SUBSET ended' /\ (stopped => stopped')
  BY DEF Next, PollStep, Buzz, BuzzAppend, BuzzSend, Connected, ConnectTimesOut, StopLoop,
         PushRecord, MakePipe, PeerCloses, Select, EventWrite, EventClose, ReadAlarm, Command,
         BuzzStop, CommandFails, CommandsEnd, TurnEnds, LoopEnds
<1>2. ASSUME NEW p \in NewPipes, conn[p] # "none"
      PROVE  conn'[p] # "none"
  <2>1. p \in AllPipes
    BY DEF AllPipes
  <2>2. conn' # conn => \/ \E q \in AllPipes : conn' = [conn EXCEPT ![q] = "closed"]
                        \/ \E q \in AllPipes : conn' = [conn EXCEPT ![q] = "made"]
                        \/ \E q : conn' = [conn EXCEPT ![q] = "open"]
                        \/ conn' = [q \in AllPipes |-> IF conn[q] = "open" THEN "closed" ELSE conn[q]]
    BY DEF Next, PollStep, Buzz, BuzzAppend, BuzzSend, Connected, ConnectTimesOut, StopLoop,
           PushRecord, MakePipe, PeerCloses, Select, EventWrite, EventClose, ReadAlarm, Command,
           BuzzStop, CommandFails, CommandsEnd, TurnEnds, LoopEnds, Executes, BuzzWriteReady,
           BuzzNewSocket, AllPipes
  <2> QED  BY <1>2, <2>1, <2>2 DEF TypeOK
<1>3. ASSUME Stop \in Range(alarmQueue)
      PROVE  stopped' \/ Stop \in Range(alarmQueue')
  <2>1. CASE UNCHANGED alarmQueue
    BY <1>3, <2>1
  <2>2. CASE \E t \in Threads : BuzzAppend(t)
    <3>1. PICK t \in Threads : BuzzAppend(t)
      BY <2>2
    <3>2. thread[t].info \in Infos /\ alarmQueue' = Append(alarmQueue, thread[t].info)
      BY <3>1 DEF BuzzAppend, TypeOK, Buzzing, Idle
    <3> QED  BY <1>3, <3>2, RangeSteps DEF TypeOK
  <2>3. CASE Command
    <3>1. Head(alarmQueue).kind # "stop" /\ alarmQueue # <<>> /\ alarmQueue' = Tail(alarmQueue)
      BY <2>3 DEF Command, Executes, BuzzWriteReady, BuzzNewSocket
    <3>2. Head(alarmQueue) # Stop
      BY <3>1 DEF Stop
    <3> QED  BY <1>3, <3>1, <3>2, RangeSteps DEF TypeOK
  <2>4. CASE BuzzStop
    BY <2>4 DEF BuzzStop
  <2> QED  BY <2>1, <2>2, <2>3, <2>4
           DEF Next, PollStep, Buzz, BuzzSend, Connected, ConnectTimesOut, StopLoop, PushRecord,
               MakePipe, PeerCloses, Select, EventWrite, EventClose, ReadAlarm, CommandFails,
               CommandsEnd, TurnEnds, LoopEnds, pipeVars
<1> QED  BY <1>1, <1>2, <1>3 DEF OnlyWrites, TypeOK

LEMMA WriteTypes ==
  /\ \A p \in Pipes : Write(p) \in Writes /\ p \in AllPipes
  /\ \A info \in Writes : info.kind = "write" /\ info.pipe \in Pipes /\ info # Stop /\ info \in Infos
BY DEF Writes, Write, Stop, Infos, AllPipes

\* What buzz() does to the count
LEMMA Counts ==
  ASSUME TypeOK, CommandsHaveInfos
  PROVE  /\ Len(alarmQueue) \in Nat /\ Len(wire) \in Nat /\ Len(poll.commands) \in Nat
         /\ Cardinality(Sending) \in Nat
         /\ \A t : IsFiniteSet(Sending \cup {t}) /\ IsFiniteSet(Sending \ {t})
         /\ \A t : t \notin Sending => Cardinality(Sending \cup {t}) = Cardinality(Sending) + 1
         /\ \A t : t \in Sending => Cardinality(Sending \ {t}) = Cardinality(Sending) - 1
<1>1. Len(alarmQueue) \in Nat /\ Len(wire) \in Nat /\ Len(poll.commands) \in Nat
  BY DEF TypeOK, Turns
<1>2. Cardinality(Sending) \in Nat
  BY FS_CardinalityType DEF CommandsHaveInfos
<1>3. ASSUME NEW t
      PROVE  /\ IsFiniteSet(Sending \cup {t}) /\ IsFiniteSet(Sending \ {t})
             /\ t \notin Sending => Cardinality(Sending \cup {t}) = Cardinality(Sending) + 1
             /\ t \in Sending => Cardinality(Sending \ {t}) = Cardinality(Sending) - 1
  BY FS_AddElement, FS_RemoveElement DEF CommandsHaveInfos
<1> QED  BY <1>1, <1>2, <1>3

LEMMA ThreadsPush ==
  ASSUME TypeOK, OnlyWrites, Pushing, OnlyWrites', NEW t \in Threads,
         \/ Buzz(t) \/ ConnectTimesOut(t) \/ StopLoop(t)
         \/ \E p \in AllPipes : PushRecord(t, p)
         \/ \E p \in NewPipes : MakePipe(t, p)
  PROVE  Pushing'
<1>1. UNCHANGED <<poll, writelist, writeBuf>>
  BY DEF Buzz, BuzzAppend, BuzzSend, Connected, ConnectTimesOut, StopLoop, PushRecord, MakePipe,
         pipeVars
<1>2. ASSUME NEW e, thread' = [thread EXCEPT ![t] = e], UNCHANGED conn,
             e.pc = "append" => e.info \in Writes \cup {Stop},
             e.pc = "send" => e.info \in Writes,
             e.pc # "wait",
             alarmQueue' \in Seq(Writes), wire' \in Seq({"write"}), CommandsHaveInfos'
      PROVE  Pushing'
  <2>1. \A u \in Threads : thread'[u] = IF u = t THEN e ELSE thread[u]
    BY <1>2 DEF TypeOK
  <2> QED  BY <1>1, <1>2, <2>1 DEF Pushing, PollerSurvives
<1>3. ASSUME NEW p \in AllPipes, PushRecord(t, p)
      PROVE  Pushing'
  <2>1. p \in Pipes
    BY <1>3 DEF PushRecord, OnlyWrites, AllPipes
  <2>2. PICK e : e = [pc |-> "append", info |-> Write(p)]
    OBVIOUS
  <2>3. thread' = [thread EXCEPT ![t] = e] /\ thread[t] = Idle
    BY <1>3, <2>2 DEF PushRecord
  <2>4. Sending' = Sending
    BY <2>2, <2>3 DEF Sending, TypeOK, Idle
  <2>5. CommandsHaveInfos'
    BY <1>1, <1>3, <2>4 DEF Pushing, CommandsHaveInfos, PushRecord
  <2>6. e.pc = "append" /\ e.info \in Writes
    BY <2>1, <2>2, WriteTypes
  <2>7. UNCHANGED conn /\ alarmQueue' \in Seq(Writes) /\ wire' \in Seq({"write"})
    BY <1>3 DEF PushRecord, Pushing
  <2> QED  BY <1>2, <2>3, <2>5, <2>6, <2>7
<1>4. ASSUME StopLoop(t)
      PROVE  Pushing'
  <2>1. PICK e : e = [pc |-> "append", info |-> Stop]
    OBVIOUS
  <2>2. thread' = [thread EXCEPT ![t] = e] /\ thread[t] = Idle
    BY <1>4, <2>1 DEF StopLoop
  <2>3. Sending' = Sending
    BY <2>1, <2>2 DEF Sending, TypeOK, Idle
  <2>4. CommandsHaveInfos'
    BY <1>1, <1>4, <2>3 DEF Pushing, CommandsHaveInfos, StopLoop
  <2>5. e.pc = "append" /\ e.info = Stop
    BY <2>1
  <2>6. UNCHANGED conn /\ alarmQueue' \in Seq(Writes) /\ wire' \in Seq({"write"})
    BY <1>4 DEF StopLoop, Pushing
  <2> QED  BY <1>2, <2>2, <2>4, <2>5, <2>6
<1>5. ASSUME NEW p \in NewPipes, MakePipe(t, p)
      PROVE  FALSE
  BY <1>5 DEF MakePipe, OnlyWrites, TypeOK, AllPipes
<1>6. ASSUME Connected(t) \/ ConnectTimesOut(t)
      PROVE  FALSE
  BY <1>6 DEF Connected, ConnectTimesOut, Pushing
<1>7. ASSUME BuzzAppend(t)
      PROVE  Pushing'
  <2>1. PICK info : info = thread[t].info
    OBVIOUS
  <2>2. alarmQueue' = Append(alarmQueue, info) /\ thread[t].pc = "append" /\ UNCHANGED wire
    BY <1>7, <2>1 DEF BuzzAppend
  <2>3. info \in Writes
    <3>1. info \in Writes \cup {Stop}
      BY <2>1, <2>2 DEF Pushing
    <3>2. Stop \in Infos
      BY DEF Infos
    <3>3. Stop \notin Range(alarmQueue')
      BY DEF OnlyWrites
    <3> QED  BY <2>2, <3>1, <3>2, <3>3, RangeSteps DEF TypeOK
  <2>4. PICK e : e = [thread[t] EXCEPT !.pc = "send"]
    OBVIOUS
  <2>5. thread' = [thread EXCEPT ![t] = e] /\ e.pc = "send" /\ e.info = info
    <3>1. thread[t] \in Buzzing
      BY <2>2 DEF TypeOK, Idle
    <3> QED  BY <1>7, <2>1, <2>4, <3>1 DEF BuzzAppend, Buzzing
  <2>6. Sending' = Sending \cup {t} /\ t \notin Sending
    BY <2>2, <2>5 DEF Sending, TypeOK
  <2>7. alarmQueue' \in Seq(Writes) /\ Len(alarmQueue') = Len(alarmQueue) + 1
    BY <2>2, <2>3, AppendProperties DEF Pushing
  <2>8. CommandsHaveInfos'
    <3>1. CommandsHaveInfos
      BY DEF Pushing
    <3>2. Len(alarmQueue) >= Len(wire) + Len(poll.commands) + Cardinality(Sending)
      BY <3>1 DEF CommandsHaveInfos
    <3>3. IsFiniteSet(Sending') /\ Cardinality(Sending') = Cardinality(Sending) + 1
      BY <2>6, <3>1, Counts
    <3> QED  BY <1>1, <2>2, <2>7, <3>1, <3>2, <3>3, Counts DEF CommandsHaveInfos
  <2> QED  BY <1>2, <1>7, <2>2, <2>3, <2>5, <2>7, <2>8 DEF BuzzAppend, Pushing
<1>8. ASSUME BuzzSend(t)
      PROVE  Pushing'
  <2>1. thread[t].pc = "send" /\ thread[t].info \in Writes /\ thread[t].info.kind = "write"
    BY <1>8, WriteTypes DEF BuzzSend, Pushing
  <2>2. thread' = [thread EXCEPT ![t] = Idle] /\ UNCHANGED alarmQueue
    BY <1>8, <2>1 DEF BuzzSend, AfterBuzz
  <2>3. Sending' = Sending \ {t} /\ t \in Sending
    BY <2>1, <2>2 DEF Sending, TypeOK, Idle
  <2>4. wire' = Append(wire, "write") \/ wire' = wire
    BY <1>8, <2>1 DEF BuzzSend
  <2>5. wire' \in Seq({"write"}) /\ Len(wire') <= Len(wire) + 1 /\ Len(wire') \in Nat
    <3>1. wire \in Seq({"write"}) /\ "write" \in {"write"}
      BY DEF Pushing
    <3>2. Append(wire, "write") \in Seq({"write"}) /\ Len(Append(wire, "write")) = Len(wire) + 1
      BY <3>1, AppendProperties
    <3>3. Len(wire) \in Nat
      BY <3>1
    <3> QED  BY <2>4, <3>1, <3>2, <3>3
  <2>6. CommandsHaveInfos'
    <3>1. CommandsHaveInfos
      BY DEF Pushing
    <3>2. Len(alarmQueue) >= Len(wire) + Len(poll.commands) + Cardinality(Sending)
      BY <3>1 DEF CommandsHaveInfos
    <3>3. IsFiniteSet(Sending') /\ Cardinality(Sending') = Cardinality(Sending) - 1
      BY <2>3, <3>1, Counts
    <3> QED  BY <1>1, <2>2, <2>5, <3>1, <3>2, <3>3, Counts DEF CommandsHaveInfos
  <2>7. UNCHANGED conn /\ alarmQueue' \in Seq(Writes) /\ Idle.pc = "idle"
    BY <1>8, <2>2 DEF BuzzSend, Pushing, Idle
  <2> QED  BY <1>2, <2>2, <2>5, <2>6, <2>7
<1> QED  BY <1>3, <1>4, <1>5, <1>6, <1>7, <1>8 DEF Buzz

LEMMA PollPushes ==
  ASSUME TypeOK, OnlyWrites, Pushing, OnlyWrites', PollStep
  PROVE  Pushing'
<1>1. thread' = thread /\ Sending' = Sending
  BY DEF PollStep, Select, EventWrite, EventClose, ReadAlarm, Command, BuzzStop, CommandFails,
         CommandsEnd, TurnEnds, LoopEnds, Sending
<1>2. /\ CommandsHaveInfos
      /\ Len(alarmQueue) >= Len(wire) + Len(poll.commands) + Cardinality(Sending)
      /\ IsFiniteSet(Sending)
      /\ Len(alarmQueue) \in Nat /\ Len(wire) \in Nat /\ Len(poll.commands) \in Nat
      /\ Cardinality(Sending) \in Nat
  BY Counts DEF Pushing, CommandsHaveInfos
<1>3. <<>> \in Seq({"write"}) /\ Len(<<>>) = 0 /\ NoFd \notin Pipes
  BY PollAssumption
<1>4. ASSUME UNCHANGED <<conn, writelist, writeBuf, alarmQueue, wire>>,
             poll'.pc # "dead", poll'.w \in SUBSET writelist, poll'.r \in SUBSET {Alarmed},
             poll'.commands = poll.commands \/ poll'.commands = <<>>
      PROVE  Pushing'
  <2>1. CommandsHaveInfos'
    BY <1>1, <1>2, <1>3, <1>4 DEF CommandsHaveInfos
  <2> QED  BY <1>1, <1>3, <1>4, <2>1 DEF Pushing, PollerSurvives
<1>5. ASSUME Select
      PROVE  Pushing'
  <2>1. Readable \in SUBSET {Alarmed} /\ NoFd \notin writelist
    BY <1>3 DEF Readable, OnlyWrites, Pushing
  <2>2. poll' = Polling("turn", writelist, Readable, <<>>)
    BY <1>5, <2>1 DEF Select
  <2> QED  BY <1>4, <1>5, <2>1, <2>2 DEF Select, Polling, pipeVars
<1>6. ASSUME NEW p \in AllPipes, EventWrite(p)
      PROVE  Pushing'
  <2>1. writeBuf[p] # <<>> /\ p \in writelist /\ ended = {}
    BY <1>6 DEF EventWrite, Pushing, OnlyWrites
  <2>2. PICK n \in 1..Len(writeBuf[p]) : Flush(p, n)
    BY <1>6, <2>1 DEF EventWrite, FlushFails
  <2>3. poll' = [poll EXCEPT !.w = @ \ {p}] /\ poll \in Turns
    BY <1>6, <2>1 DEF EventWrite, TypeOK
  <2>4. /\ poll'.w = poll.w \ {p} /\ poll'.r = poll.r /\ poll'.pc = poll.pc
        /\ poll'.commands = poll.commands
    BY <2>3 DEF Turns
  <2>5. writelist' \in SUBSET writelist /\ poll'.w \in SUBSET writelist'
    BY <2>2, <2>4 DEF Flush, Pushing
  <2>6. ASSUME NEW q \in writelist'
        PROVE  writeBuf'[q] # <<>>
    <3>1. q \in AllPipes /\ writeBuf[q] # <<>> /\ writeBuf[p] \in Seq(Nat)
      BY <2>5, <2>6 DEF Pushing, TypeOK, AllPipes
    <3>2. CASE q = p
      <4>1. n # Len(writeBuf[p]) /\ Len(writeBuf[p]) \in Nat
        BY <2>2, <2>6, <3>1, <3>2 DEF Flush
      <4>2. Len(SubSeq(writeBuf[p], n + 1, Len(writeBuf[p]))) # 0
        BY <2>2, <3>1, <4>1
      <4>3. writeBuf'[p] = SubSeq(writeBuf[p], n + 1, Len(writeBuf[p]))
        BY <2>2 DEF Flush, TypeOK
      <4> QED  BY <1>3, <3>2, <4>2, <4>3
    <3>3. CASE q # p
      BY <2>2, <3>1, <3>3 DEF Flush, TypeOK
    <3> QED  BY <3>2, <3>3
  <2>7. CommandsHaveInfos'
    BY <1>1, <1>2, <1>6, <2>4 DEF CommandsHaveInfos, EventWrite
  <2> QED  BY <1>1, <1>6, <2>4, <2>5, <2>6, <2>7 DEF EventWrite, Pushing, PollerSurvives
<1>7. ASSUME NEW p \in AllPipes, EventClose(p)
      PROVE  FALSE
  BY <1>7 DEF EventClose, Pushing
<1>8. ASSUME ReadAlarm
      PROVE  Pushing'
  <2>1. /\ poll'.pc = "commands" /\ poll'.w = {} /\ poll'.r = poll.r \ {Alarmed}
        /\ poll'.commands = wire /\ wire' = <<>>
    BY <1>8 DEF ReadAlarm, Polling
  <2>2. CommandsHaveInfos'
    BY <1>1, <1>2, <1>3, <1>8, <2>1 DEF CommandsHaveInfos, ReadAlarm
  <2> QED  BY <1>1, <1>3, <1>8, <2>1, <2>2 DEF ReadAlarm, Pushing, PollerSurvives, pipeVars
<1>9. ASSUME Command
      PROVE  Pushing'
  <2>1. PICK info : info = Head(alarmQueue)
    OBVIOUS
  <2>2. /\ alarmQueue # <<>> /\ poll.commands # <<>> /\ alarmQueue' = Tail(alarmQueue)
        /\ poll' = [poll EXCEPT !.commands = Tail(@)] /\ poll \in Turns /\ UNCHANGED wire
    BY <1>9 DEF Command, TypeOK
  <2>3. /\ info \in Writes /\ alarmQueue' \in Seq(Writes)
        /\ Len(alarmQueue') = Len(alarmQueue) - 1
    BY <2>1, <2>2, HeadTailProperties DEF Pushing
  <2>4. info.kind = "write" /\ info.pipe \in Pipes /\ info.pipe \in AllPipes
    BY <2>3, WriteTypes
  <2>5. BuzzWriteReady(info)
    BY <1>9, <2>1, <2>4 DEF Command, Executes, BuzzNewSocket
  <2>6. /\ poll'.pc = poll.pc /\ poll'.w = poll.w /\ poll'.r = poll.r
        /\ poll'.commands = Tail(poll.commands)
    BY <2>2 DEF Turns
  <2>7. poll'.commands \in Seq({"write"}) /\ Len(poll'.commands) = Len(poll.commands) - 1
    BY <2>2, <2>6, HeadTailProperties DEF Pushing
  <2>8. writelist' = writelist \cup {info.pipe}
    BY <2>4, <2>5 DEF BuzzWriteReady, Fd, Pushing
  <2>9. ASSUME NEW q \in writelist'
        PROVE  writeBuf'[q] # <<>>
    <3>1. q \in AllPipes /\ writeBuf[q] \in Seq(Nat)
      BY <2>4, <2>8, <2>9 DEF Pushing, TypeOK, AllPipes
    <3>2. CASE q = info.pipe
      <4>1. writeQueue[q] \in Seq(Nat) /\ writeQueue[q] # <<>>
        BY <2>5, <3>1, <3>2 DEF TypeOK, BuzzWriteReady
      <4>2. Append(writeBuf[q], Head(writeQueue[q])) # <<>>
        BY <3>1, <4>1, HeadTailProperties, AppendProperties
      <4> QED  BY <2>5, <3>1, <3>2, <4>2 DEF BuzzWriteReady, TypeOK
    <3>3. CASE q # info.pipe
      BY <2>5, <2>8, <2>9, <3>1, <3>3 DEF BuzzWriteReady, TypeOK, Pushing
    <3> QED  BY <3>2, <3>3
  <2>10. CommandsHaveInfos'
    BY <1>1, <1>2, <2>2, <2>3, <2>7 DEF CommandsHaveInfos
  <2> QED  BY <1>1, <2>2, <2>3, <2>4, <2>5, <2>6, <2>7, <2>8, <2>9, <2>10
           DEF BuzzWriteReady, Pushing, PollerSurvives
<1>10. ASSUME BuzzStop \/ LoopEnds
       PROVE  FALSE
  BY <1>10 DEF BuzzStop, LoopEnds, OnlyWrites
<1>11. ASSUME CommandFails
       PROVE  FALSE
  <2>1. poll.commands # <<>> /\ poll.commands \in Seq({"write"}) /\ alarmQueue \in Seq(Writes)
    BY <1>11 DEF CommandFails, Pushing
  <2>2. Len(poll.commands) # 0 /\ Head(poll.commands) = "write"
    <3>1. Head(poll.commands) \in {"write"}
      BY <2>1, HeadTailProperties
    <3> QED  BY <2>1, <3>1, EmptySeq
  <2>3. alarmQueue # <<>>
    BY <1>2, <1>3, <2>2
  <2>4. Head(alarmQueue) \in Writes
    BY <2>1, <2>3, HeadTailProperties
  <2> QED  BY <1>11, <2>2, <2>3, <2>4, WriteTypes DEF CommandFails
<1>12. ASSUME CommandsEnd
       PROVE  Pushing'
  <2>1. poll'.pc = "turn" /\ poll'.w = poll.w /\ poll'.r = poll.r /\ poll'.commands = poll.commands
    BY <1>12 DEF CommandsEnd, TypeOK, Turns
  <2> QED  BY <1>4, <1>12, <2>1 DEF CommandsEnd, Pushing, pipeVars
<1>13. ASSUME TurnEnds
       PROVE  Pushing'
  BY <1>4, <1>13 DEF TurnEnds, Selecting, Polling, pipeVars
<1> QED  BY <1>5, <1>6, <1>7, <1>8, <1>9, <1>10, <1>11, <1>12, <1>13 DEF PollStep

-----------------------------------------------------------------------------
(* The theorems                                                               *)

LEMMA Initially == Init => IInv
<1> SUFFICES ASSUME Init PROVE IInv
  OBVIOUS
<1>1. Records = {}
  <2>1. \A p \in AllPipes : Range(pushed[p]) = {}
    BY DEF Init, Range
  <2> QED  BY <2>1 DEF Records
<1>2. TypeOK
  <2>1. \A S : <<>> \in Seq(S)
    OBVIOUS
  <2> QED  BY <1>1, <2>1, Types, FS_EmptySet DEF Init, TypeOK, Idle, AllPipes
<1>3. RecordsInOrder
  <2>1. <<>> \o <<>> \o <<>> = <<>>
    OBVIOUS
  <2> QED  BY <2>1 DEF Init, RecordsInOrder
<1>4. Pushing
  <2>1. \A S : <<>> \in Seq(S)
    OBVIOUS
  <2>2. Sending = {}
    BY DEF Init, Sending, Idle
  <2>3. CommandsHaveInfos
    <3>1. Len(<<>>) = 0 /\ poll.commands = <<>> /\ wire = <<>> /\ alarmQueue = <<>>
      BY DEF Init, Selecting, Polling
    <3>2. Cardinality(Sending) = 0 /\ IsFiniteSet(Sending)
      BY <2>2, FS_EmptySet
    <3> QED  BY <3>1, <3>2 DEF CommandsHaveInfos
  <2> QED  BY <2>1, <2>3 DEF Init, Pushing, PollerSurvives, Selecting, Polling, AllPipes, Idle
<1> QED  BY <1>2, <1>3, <1>4 DEF IInv

LEMMA Inductive == IInv /\ [Next]_vars => IInv'
<1> SUFFICES ASSUME IInv, [Next]_vars PROVE IInv'
  OBVIOUS
<1>1. CASE UNCHANGED vars
  <2>1. TypeOK'
    BY <1>1 DEF IInv, vars, TypeOK, Records
  <2>2. RecordsInOrder'
    BY <1>1 DEF IInv, vars, RecordsInOrder
  <2>3. OnlyWrites' => Pushing'
    <3>1. Sending' = Sending
      BY <1>1 DEF vars, Sending
    <3> QED  BY <1>1, <3>1 DEF IInv, vars, OnlyWrites, Pushing, PollerSurvives, CommandsHaveInfos
  <2> QED  BY <2>1, <2>2, <2>3 DEF IInv
<1>2. CASE Next
  <2>1. TypeOK'
    <3>1. ASSUME NEW p \in AllPipes, PeerCloses(p)
          PROVE  TypeOK'
      BY <3>1 DEF PeerCloses, IInv, TypeOK, pipeVars, Records
    <3> QED  BY <1>2, <3>1, ThreadTypes, PollTypes DEF IInv, Next
  <2>2. RecordsInOrder'
    BY <1>2, OrderIsKept DEF IInv
  <2>3. ASSUME OnlyWrites'
        PROVE  Pushing'
    <3>1. OnlyWrites /\ Pushing /\ TypeOK
      BY <1>2, <2>3, OnlyWritesBefore DEF IInv
    <3>2. ASSUME NEW p \in AllPipes, PeerCloses(p)
          PROVE  FALSE
      BY <2>3, <3>2 DEF PeerCloses, OnlyWrites
    <3> QED  BY <1>2, <2>3, <3>1, <3>2, ThreadsPush, PollPushes DEF Next
  <2> QED  BY <2>1, <2>2, <2>3 DEF IInv
<1> QED  BY <1>1, <1>2

(* In every reachable state the queues, buffers and histories have their      *)
(* types and hold the pushed records in order; and while threads only push,   *)
(* no command of the alarm is ahead of its info.                              *)
THEOREM Invariance == Spec => []IInv
BY Initially, Inductive, PTL DEF Spec

(* Whichever threads push records, call connect() or stop the loop, however   *)
(* their commands and infos cross, and whenever connections end: what was     *)
(* sent over a connection, what is in its buffer and what is in its queue are *)
(* together the records pushed on it, each once and in the order of pushing   *)
(* (push_record, pop_record, flush_pipe).                                     *)
THEOREM RecordsKeepTheirOrder == Spec => []RecordsInOrder
<1>1. IInv => RecordsInOrder
  BY DEF IInv
<1> QED  BY <1>1, Invariance, PTL

(* As long as threads only push records the polling thread survives: every    *)
(* command it reads has an info in the deque, because buzz() appends the info *)
(* before it sends the command, even though two threads may send their        *)
(* commands in the other order and send() may fail on a full socket; and a    *)
(* pipe that select() finds writable has something to write.                  *)
THEOREM PushingIsSafe == Spec => []WritesAreSafe
<1>1. IInv => WritesAreSafe
  BY DEF IInv, Pushing, WritesAreSafe
<1> QED  BY <1>1, Invariance, PTL
-----------------------------------------------------------------------------
(* The bytes of one connection: RecordMarking, with names of its own for what *)
(* PollLoop keeps of every connection.                                        *)

CONSTANTS Wsize, Rsize, Closes, MaxLen

VARIABLES
  records, buffer, marking, stream, closed,
  readBuf, packetBuf, out, receiver, delivered

M == INSTANCE RecordMarking WITH pushed <- records, writeBuf <- buffer

(* The inductive invariant                                                    *)

Bytes == [last : BOOLEAN, len : Nat, data : Nat \X Nat]

BytesOK ==
  /\ records \in Seq(Seq(Bytes)) /\ out \in Seq(Seq(Bytes)) /\ delivered \in Seq(Seq(Bytes))
  /\ marking \in [i : Nat, out : Seq(Bytes), on : BOOLEAN]
  /\ buffer \in Seq(Bytes) /\ stream \in Seq(Bytes)
  /\ readBuf \in Seq(Bytes) /\ packetBuf \in Seq(Bytes)
  /\ closed \in BOOLEAN /\ receiver \in {"select", "parse", "closed"}

(* Everything the receiver has not parsed yet, in order                       *)
OnTheWay == readBuf \o (stream \o (buffer \o marking.out))

(* A place in the stream: where the fragment begins that holds record n after *)
(* its first "from" bytes, "at" bytes having come before it.                  *)
Places == [n : Nat, from : Nat, at : Nat]

(* The fragment that begins there, and the place that follows it              *)
LastOf(c) == M!LastAt(c.from, Len(records[c.n]))
DataLen(c) == IF LastOf(c) THEN Len(records[c.n]) - c.from ELSE Wsize
Fragment(c) ==
  M!Mark(LastOf(c), DataLen(c)) \o SubSeq(records[c.n], c.from + 1, c.from + DataLen(c))
FragmentLen(c) == M!MarkLen + DataLen(c)
Following(c) ==
  [n |-> IF LastOf(c) THEN c.n + 1 ELSE c.n,
   from |-> IF LastOf(c) THEN 0 ELSE c.from + Wsize,
   at |-> c.at + FragmentLen(c)]

(* It begins in a record that was pushed.                                     *)
InRecord(c) == c.n \in 1..Len(records) /\ c.from <= Len(records[c.n])

Received == delivered \o out

(* The places C lead from the receiver's to the sender's, fragment by         *)
(* fragment, and the bytes on the way are these fragments.                    *)
Receiving(C) ==
  /\ C[1].n = Len(Received) + 1
  /\ C[1].from = Len(packetBuf)
  /\ C[1].n <= Len(records) => packetBuf = SubSeq(records[C[1].n], 1, C[1].from)
Sent(C) ==
  \A c \in 1..(Len(C) - 1) :
    /\ InRecord(C[c])
    /\ C[c + 1] = Following(C[c])
    /\ \A m \in 1..FragmentLen(C[c]) : OnTheWay[C[c].at - C[1].at + m] = Fragment(C[c])[m]
Ordered(C) == \A a, b \in 1..Len(C) : a < b => C[a].at + FragmentLen(C[a]) <= C[b].at
AtSender(c) ==
  /\ c.n = IF marking.on THEN Len(records) ELSE Len(records) + 1
  /\ c.from = marking.i
Threaded(C) ==
  /\ C # <<>>
  /\ Receiving(C) /\ Sent(C) /\ Ordered(C)
  /\ AtSender(C[Len(C)])
  /\ C[Len(C)].at = C[1].at + Len(OnTheWay)

(* What holds between the turns of the two loops                              *)
Calm ==
  /\ IF marking.on THEN records # <<>> /\ marking.i <= Len(M!Last(records)) ELSE marking = M!Idle
  /\ receiver # "parse" => out = <<>>

(* RecordsIntact, record by record                                            *)
Prefix ==
  /\ Len(Received) <= Len(records)
  /\ \A k \in 1..Len(Received) : Received[k] = records[k]

MarkingInv == BytesOK /\ Calm /\ Prefix /\ \E C \in Seq(Places) : Threaded(C)

-----------------------------------------------------------------------------
(* Sequences                                                                  *)

LEMMA Joined ==
  ASSUME NEW S, NEW s \in Seq(S), NEW t \in Seq(S), NEW m \in Nat, NEW n \in Nat,
         Len(s) = m, Len(t) = n
  PROVE  /\ s \o t \in Seq(S) /\ Len(s \o t) = m + n
         /\ \A i \in 1..m : (s \o t)[i] = s[i]
         /\ \A i \in 1..n : (s \o t)[m + i] = t[i]
<1>1. /\ s \o t \in Seq(S) /\ Len(s \o t) = m + n
      /\ \A i \in 1..(m + n) : (s \o t)[i] = IF i <= m THEN s[i] ELSE t[i - m]
  BY ConcatProperties
<1>2. \A i \in 1..m : (s \o t)[i] = s[i]
  BY <1>1
<1>3. \A i \in 1..n : m + i \in 1..(m + n) /\ ~(m + i <= m) /\ m + i - m = i
  OBVIOUS
<1>4. \A i \in 1..n : (s \o t)[m + i] = t[i]
  BY <1>1, <1>3
<1> QED
  BY <1>1, <1>2, <1>4

LEMMA JoinedBytes ==
  \A s, t \in Seq(Bytes) : \A m, n \in Nat :
    Len(s) = m /\ Len(t) = n =>
      /\ s \o t \in Seq(Bytes) /\ Len(s \o t) = m + n
      /\ \A i \in 1..m : (s \o t)[i] = s[i]
      /\ \A i \in 1..n : (s \o t)[m + i] = t[i]
BY SMTT(40), Joined

LEMMA Regrouped ==
  \A s, t, u \in Seq(Bytes) : (s \o t) \o u = s \o (t \o u)
BY ConcatAssociative

LEMMA RegroupedFar ==
  ASSUME NEW s \in Seq(Bytes), NEW t \in Seq(Bytes), NEW u \in Seq(Bytes), NEW v \in Seq(Bytes),
         NEW w \in Seq(Bytes)
  PROVE  (s \o (t \o (u \o v))) \o w = s \o (t \o (u \o (v \o w)))
<1>1. PICK uv \in Seq(Bytes) : uv = u \o v
  BY ConcatProperties
<1>2. PICK tuv \in Seq(Bytes) : tuv = t \o uv
  BY ConcatProperties
<1>3. \A x \in Seq(Bytes) : \A y, z \in Seq(Bytes) : (x \o y) \o z = x \o (y \o z)
  BY Regrouped
<1>4. \A y, z \in Seq(Bytes) : (s \o y) \o z = s \o (y \o z)
  BY <1>3
<1>5. \A y, z \in Seq(Bytes) : (t \o y) \o z = t \o (y \o z)
  BY <1>3
<1>6. \A y, z \in Seq(Bytes) : (u \o y) \o z = u \o (y \o z)
  BY <1>3
<1>7. (s \o tuv) \o w = s \o (tuv \o w)
  BY <1>4
<1>8. (t \o uv) \o w = t \o (uv \o w)
  BY <1>5
<1>9. (u \o v) \o w = u \o (v \o w)
  BY <1>6
<1> QED
  BY <1>1, <1>2, <1>7, <1>8, <1>9

LEMMA Part ==
  ASSUME NEW S, NEW s \in Seq(S), NEW i \in Nat, NEW n \in Nat, i + n <= Len(s)
  PROVE  /\ SubSeq(s, i + 1, i + n) \in Seq(S) /\ Len(SubSeq(s, i + 1, i + n)) = n
         /\ \A k \in 1..n : SubSeq(s, i + 1, i + n)[k] = s[i + k]
<1>1. \A k \in (i + 1)..(i + n) : s[k] \in S
  BY LenProperties, ElementOfSeq
<1>2. /\ SubSeq(s, i + 1, i + n) \in Seq(S)
      /\ Len(SubSeq(s, i + 1, i + n)) = IF i + 1 <= i + n THEN i + n - (i + 1) + 1 ELSE 0
      /\ \A k \in 1..(i + n - (i + 1) + 1) : SubSeq(s, i + 1, i + n)[k] = s[i + 1 + k - 1]
  BY SMTT(40), <1>1, SubSeqProperties
<1>3. /\ i + n - (i + 1) + 1 = n
      /\ (IF i + 1 <= i + n THEN i + n - (i + 1) + 1 ELSE 0) = n
      /\ \A k \in 1..n : i + 1 + k - 1 = i + k
  OBVIOUS
<1> QED
  BY <1>2, <1>3

-----------------------------------------------------------------------------
(* Fragments and places                                                       *)

(* A mark is four bytes that say it all.                                      *)
LEMMA MarkFacts ==
  ASSUME NEW last \in BOOLEAN, NEW len \in Nat
  PROVE  /\ M!Mark(last, len) \in Seq(Bytes) /\ Len(M!Mark(last, len)) = M!MarkLen
         /\ M!Mark(last, len)[1].last = last /\ M!Mark(last, len)[1].len = len
<1>1. M!Mark(last, len) \in [1..M!MarkLen -> Bytes]
  BY DEF M!Mark, M!MarkLen, Bytes
<1>2. M!MarkLen \in Nat /\ 1 \in 1..M!MarkLen
  BY DEF M!MarkLen
<1>3. M!Mark(last, len) \in Seq(Bytes)
  BY <1>1, <1>2, SeqDef
<1>4. Len(M!Mark(last, len)) = M!MarkLen
  BY <1>1, <1>2, <1>3, LenProperties
<1> QED
  BY <1>2, <1>3, <1>4 DEF M!Mark

(* A fragment of a record that was pushed is a mark and a part of the record. *)
LEMMA FragmentFacts ==
  ASSUME M!MarkingAssumption, BytesOK, NEW c \in Places, InRecord(c)
  PROVE  /\ records[c.n] \in Seq(Bytes) /\ Len(records[c.n]) \in Nat
         /\ DataLen(c) \in Nat /\ c.from + DataLen(c) <= Len(records[c.n])
         /\ LastOf(c) => c.from + DataLen(c) = Len(records[c.n])
         /\ ~LastOf(c) => DataLen(c) = Wsize
         /\ FragmentLen(c) = M!MarkLen + DataLen(c) /\ FragmentLen(c) \in Nat \ {0}
         /\ Fragment(c) \in Seq(Bytes) /\ Len(Fragment(c)) = FragmentLen(c)
         /\ Fragment(c)[1].last = LastOf(c) /\ Fragment(c)[1].len = DataLen(c)
         /\ \A m \in 1..DataLen(c) : Fragment(c)[M!MarkLen + m] = records[c.n][c.from + m]
         /\ Following(c) \in Places
         /\ Following(c).at = c.at + FragmentLen(c)
         /\ LastOf(c) => Following(c).n = c.n + 1 /\ Following(c).from = 0
         /\ ~LastOf(c) => Following(c).n = c.n /\ Following(c).from = c.from + Wsize
<1>1. /\ records[c.n] \in Seq(Bytes) /\ c.from \in Nat /\ c.from <= Len(records[c.n])
      /\ c.n \in Nat /\ c.at \in Nat
  BY ElementOfSeq DEF BytesOK, InRecord, Places
<1>2. Len(records[c.n]) \in Nat /\ Wsize \in Nat
  BY <1>1, LenProperties DEF M!MarkingAssumption
<1>3. /\ DataLen(c) \in Nat /\ c.from + DataLen(c) <= Len(records[c.n])
      /\ LastOf(c) => c.from + DataLen(c) = Len(records[c.n])
      /\ ~LastOf(c) => DataLen(c) = Wsize
      /\ LastOf(c) \in BOOLEAN
  BY <1>1, <1>2 DEF DataLen, LastOf, M!LastAt
<1>4. PICK L \in BOOLEAN, d \in Nat, f \in Nat, r \in Seq(Bytes) :
        L = LastOf(c) /\ d = DataLen(c) /\ f = c.from /\ r = records[c.n]
  BY <1>1, <1>3
<1>5. PICK s : s = SubSeq(r, f + 1, f + d)
  OBVIOUS
<1>6. /\ s \in Seq(Bytes) /\ Len(s) = d /\ \A m \in 1..d : s[m] = r[f + m]
  <2>1. f + d <= Len(r)
    BY <1>3, <1>4
  <2>2. \A i, n \in Nat : i + n <= Len(r) =>
          /\ SubSeq(r, i + 1, i + n) \in Seq(Bytes) /\ Len(SubSeq(r, i + 1, i + n)) = n
          /\ \A m \in 1..n : SubSeq(r, i + 1, i + n)[m] = r[i + m]
    BY SMTT(40), Part
  <2>3. /\ SubSeq(r, f + 1, f + d) \in Seq(Bytes) /\ Len(SubSeq(r, f + 1, f + d)) = d
        /\ \A m \in 1..d : SubSeq(r, f + 1, f + d)[m] = r[f + m]
    BY <2>1, <2>2
  <2> QED
    BY <1>5, <2>3
<1>7. Fragment(c) = M!Mark(L, d) \o s
  BY <1>4, <1>5 DEF Fragment
<1>8. /\ M!Mark(L, d) \in Seq(Bytes) /\ Len(M!Mark(L, d)) = M!MarkLen
      /\ M!Mark(L, d)[1].last = L /\ M!Mark(L, d)[1].len = d
  BY MarkFacts
<1>9. PICK k : k = M!Mark(L, d)
  OBVIOUS
<1>10. /\ k \o s \in Seq(Bytes) /\ Len(k \o s) = M!MarkLen + d
       /\ \A i \in 1..(M!MarkLen + d) :
            (k \o s)[i] = IF i <= M!MarkLen THEN k[i] ELSE s[i - M!MarkLen]
  <2>1. k \in Seq(Bytes) /\ s \in Seq(Bytes) /\ Len(k) = M!MarkLen /\ Len(s) = d
    BY <1>6, <1>8, <1>9
  <2>2. /\ k \o s \in Seq(Bytes) /\ Len(k \o s) = Len(k) + Len(s)
        /\ \A i \in 1..(Len(k) + Len(s)) :
             (k \o s)[i] = IF i <= Len(k) THEN k[i] ELSE s[i - Len(k)]
    BY <2>1, ConcatProperties
  <2> QED
    BY <2>1, <2>2
<1>11. (k \o s)[1] = k[1]
  BY <1>10 DEF M!MarkLen
<1>12. \A m \in 1..d : (k \o s)[M!MarkLen + m] = s[m]
  BY <1>10 DEF M!MarkLen
<1>13. FragmentLen(c) = M!MarkLen + DataLen(c) /\ FragmentLen(c) \in Nat \ {0}
  BY <1>3 DEF FragmentLen, M!MarkLen
<1>14. Following(c) \in Places
  BY <1>1, <1>2, <1>13 DEF Following, Places
<1>15. /\ Following(c).at = c.at + FragmentLen(c)
       /\ LastOf(c) => Following(c).n = c.n + 1 /\ Following(c).from = 0
       /\ ~LastOf(c) => Following(c).n = c.n /\ Following(c).from = c.from + Wsize
  BY DEF Following
<1>16. /\ Fragment(c) \in Seq(Bytes) /\ Len(Fragment(c)) = FragmentLen(c)
       /\ Fragment(c)[1].last = LastOf(c) /\ Fragment(c)[1].len = DataLen(c)
  BY <1>4, <1>7, <1>8, <1>9, <1>10, <1>11, <1>13
<1>17. \A m \in 1..DataLen(c) : Fragment(c)[M!MarkLen + m] = records[c.n][c.from + m]
  BY <1>4, <1>6, <1>7, <1>9, <1>12
<1> QED
  BY <1>1, <1>2, <1>3, <1>13, <1>14, <1>15, <1>16, <1>17

LEMMA WayFacts ==
  ASSUME BytesOK
  PROVE  /\ OnTheWay \in Seq(Bytes) /\ Len(OnTheWay) \in Nat
         /\ Received \in Seq(Seq(Bytes)) /\ Len(Received) \in Nat
         /\ Len(records) \in Nat /\ Len(readBuf) \in Nat /\ Len(packetBuf) \in Nat
         /\ marking.i \in Nat /\ marking.on \in BOOLEAN /\ marking.out \in Seq(Bytes)
<1>1. marking.i \in Nat /\ marking.on \in BOOLEAN /\ marking.out \in Seq(Bytes)
  BY DEF BytesOK
<1>2. OnTheWay \in Seq(Bytes)
  BY <1>1, ConcatProperties DEF BytesOK, OnTheWay
<1>3. Received \in Seq(Seq(Bytes))
  BY ConcatProperties DEF BytesOK, Received
<1> QED
  BY <1>1, <1>2, <1>3, LenProperties DEF BytesOK

(* A place keeps its fragment while the records that were pushed stay.        *)
LEMMA PlacesStay ==
  ASSUME Len(records) \in Nat, Len(records') \in Nat, Len(records) <= Len(records'),
         \A k \in 1..Len(records) : records'[k] = records[k],
         NEW c \in Places, InRecord(c)
  PROVE  /\ InRecord(c)' /\ LastOf(c)' = LastOf(c) /\ DataLen(c)' = DataLen(c)
         /\ FragmentLen(c)' = FragmentLen(c) /\ Fragment(c)' = Fragment(c)
         /\ Following(c)' = Following(c)
<1>1. records'[c.n] = records[c.n] /\ InRecord(c)'
  BY DEF InRecord, Places
<1>2. LastOf(c)' = LastOf(c)
  BY <1>1 DEF LastOf
<1>3. DataLen(c)' = DataLen(c)
  BY <1>1, <1>2 DEF DataLen
<1> QED
  BY <1>1, <1>2, <1>3 DEF FragmentLen, Fragment, Following

(* Every fragment on the way is within it.                                    *)
LEMMA WithinReach ==
  ASSUME M!MarkingAssumption, BytesOK, NEW C \in Seq(Places), Threaded(C)
  PROVE  /\ Len(C) \in Nat \ {0} /\ \A c \in 1..Len(C) : C[c] \in Places /\ C[c].at \in Nat
         /\ \A c \in 1..(Len(C) - 1) :
              /\ InRecord(C[c]) /\ FragmentLen(C[c]) \in Nat \ {0}
              /\ C[1].at <= C[c].at
              /\ C[c].at - C[1].at + FragmentLen(C[c]) <= Len(OnTheWay)
<1>1. Len(C) \in Nat \ {0} /\ \A c \in 1..Len(C) : C[c] \in Places
  BY EmptySeq, ElementOfSeq DEF Threaded
<1>2. \A c \in 1..Len(C) : C[c].at \in Nat
  BY <1>1 DEF Places
<1>3. ASSUME NEW c \in 1..(Len(C) - 1)
      PROVE  /\ InRecord(C[c]) /\ FragmentLen(C[c]) \in Nat \ {0}
             /\ C[1].at <= C[c].at
             /\ C[c].at - C[1].at + FragmentLen(C[c]) <= Len(OnTheWay)
  <2>1. \A a \in 1..(Len(C) - 1) : InRecord(C[a]) /\ FragmentLen(C[a]) \in Nat \ {0}
    <3> SUFFICES ASSUME NEW a \in 1..(Len(C) - 1)
                 PROVE  InRecord(C[a]) /\ FragmentLen(C[a]) \in Nat \ {0}
      OBVIOUS
    <3>1. InRecord(C[a]) /\ C[a] \in Places
      BY <1>1 DEF Threaded, Sent
    <3> QED
      BY <3>1, FragmentFacts
  <2>2. C[c].at + FragmentLen(C[c]) <= C[Len(C)].at
    BY <1>1 DEF Threaded, Ordered
  <2>3. C[1].at <= C[c].at
    <3>1. CASE c = 1
      BY <1>1, <1>2, <3>1
    <3>2. CASE c # 1
      <4>1. C[1].at + FragmentLen(C[1]) <= C[c].at
        BY <1>1, <3>2 DEF Threaded, Ordered
      <4> QED
        BY <1>1, <1>2, <2>1, <3>2, <4>1
    <3> QED
      BY <3>1, <3>2
  <2>4. C[Len(C)].at = C[1].at + Len(OnTheWay) /\ Len(OnTheWay) \in Nat
    BY WayFacts DEF Threaded
  <2> QED
    BY SMTT(40), <1>1, <1>2, <2>1, <2>2, <2>3, <2>4
<1> QED
  BY <1>1, <1>2, <1>3

(* A step that neither cuts nor joins leaves the places what they are.        *)
LEMMA PlacesStayThreaded ==
  ASSUME M!MarkingAssumption, BytesOK, BytesOK', Calm,
         NEW C \in Seq(Places), Threaded(C),
         Received' = Received, packetBuf' = packetBuf, OnTheWay' = OnTheWay,
         \A c \in Places : AtSender(c) => AtSender(c)',
         Len(records) <= Len(records'),
         \A k \in 1..Len(records) : records'[k] = records[k]
  PROVE  Threaded(C)'
<1>1. /\ Len(C) \in Nat \ {0} /\ \A c \in 1..Len(C) : C[c] \in Places /\ C[c].at \in Nat
      /\ \A c \in 1..(Len(C) - 1) : InRecord(C[c])
  BY WithinReach
<1>2. Len(records) \in Nat /\ Len(records') \in Nat
  BY LenProperties DEF BytesOK
<1>3. Receiving(C)'
  <2>1. C[1].n = Len(Received) + 1 /\ C[1].from = Len(packetBuf)
    BY DEF Threaded, Receiving
  <2>2. ASSUME C[1].n <= Len(records')
        PROVE  packetBuf = SubSeq(records'[C[1].n], 1, C[1].from)
    <3>1. C[1].n \in Nat \ {0}
      BY <2>1, WayFacts
    <3>2. CASE C[1].n <= Len(records)
      BY <1>2, <3>1, <3>2 DEF Threaded, Receiving
    <3>3. CASE C[1].n > Len(records)
      <4>1. Len(C) = 1
        <5>1. ASSUME Len(C) # 1
              PROVE  FALSE
          <6>1. PICK len \in Nat : len = Len(C) /\ len >= 1
            BY <1>1
          <6>2. 1 \in 1..(len - 1)
            BY <5>1, <6>1
          <6>3. InRecord(C[1])
            BY <1>1, <6>1, <6>2
          <6> QED
            BY <1>2, <3>3, <6>3 DEF InRecord
        <5> QED
          BY <5>1
      <4>2. AtSender(C[1])
        BY <4>1 DEF Threaded
      <4>3. C[1].from = 0
        BY <1>2, <3>3, <4>2 DEF AtSender, Calm, M!Idle
      <4>4. packetBuf = <<>>
        BY <2>1, <4>3, EmptySeq DEF BytesOK
      <4>5. SubSeq(records'[C[1].n], 1, 0) = <<>>
        BY SubSeqEmpty
      <4> QED
        BY <4>3, <4>4, <4>5
    <3> QED
      BY <1>2, <3>1, <3>2, <3>3
  <2> QED
    BY <2>1, <2>2 DEF Receiving
<1>4. \A c \in 1..(Len(C) - 1) :
        /\ InRecord(C[c])' /\ Fragment(C[c])' = Fragment(C[c])
        /\ FragmentLen(C[c])' = FragmentLen(C[c]) /\ Following(C[c])' = Following(C[c])
  BY <1>1, <1>2, PlacesStay
<1>5. Sent(C)'
  BY <1>4 DEF Threaded, Sent
<1>6. Ordered(C)'
  BY SMTT(40), <1>1, <1>4 DEF Threaded, Ordered
<1>7. AtSender(C[Len(C)])'
  BY <1>1 DEF Threaded
<1> QED
  BY <1>3, <1>5, <1>6, <1>7 DEF Threaded

-----------------------------------------------------------------------------
(* Steps                                                                      *)

(* A turn of add_record_marks adds the fragment at the sender's place to the  *)
(* bytes on the way.                                                          *)
LEMMA AddMarkAdds ==
  ASSUME M!MarkingAssumption, BytesOK, Calm, M!AddMark,
         NEW c \in Places, AtSender(c)
  PROVE  /\ InRecord(c) /\ Following(c) \in Places
         /\ OnTheWay' = OnTheWay \o Fragment(c)
         /\ AtSender(Following(c))' /\ Received' = Received
         /\ UNCHANGED <<records, packetBuf>>
         /\ marking' \in [i : Nat, out : Seq(Bytes), on : BOOLEAN] /\ buffer' \in Seq(Bytes)
         /\ IF marking'.on THEN marking'.i <= Len(M!Last(records)) ELSE marking' = M!Idle
<1>1. c.n = Len(records) /\ c.from = marking.i /\ marking.on
  BY DEF AtSender, M!AddMark
<1>2. /\ InRecord(c) /\ Len(records) \in Nat \ {0} /\ M!Last(records) = records[c.n]
      /\ marking.i \in Nat
  BY <1>1, WayFacts, EmptySeq DEF Calm, InRecord, M!Last, BytesOK
<1>3. /\ Len(records[c.n]) \in Nat /\ DataLen(c) \in Nat
      /\ c.from + DataLen(c) <= Len(records[c.n])
      /\ LastOf(c) => c.from + DataLen(c) = Len(records[c.n])
      /\ ~LastOf(c) => DataLen(c) = Wsize
      /\ Fragment(c) \in Seq(Bytes)
      /\ Following(c) \in Places
      /\ LastOf(c) => Following(c).n = c.n + 1 /\ Following(c).from = 0
      /\ ~LastOf(c) => Following(c).n = c.n /\ Following(c).from = c.from + Wsize
      /\ records[c.n] \in Seq(Bytes)
  BY <1>2, FragmentFacts
<1>4. PICK i, f, d, len \in Nat, r \in Seq(Bytes), L \in BOOLEAN :
        /\ i = marking.i /\ f = c.from /\ d = DataLen(c) /\ len = Len(r) /\ r = records[c.n]
        /\ L = LastOf(c)
  <2>1. LastOf(c) \in BOOLEAN
    BY DEF LastOf, M!LastAt
  <2>2. c.from \in Nat
    BY DEF Places
  <2> QED
    BY <1>2, <1>3, <2>1, <2>2
<1>5. PICK chunk : chunk = SubSeq(r, f + 1, f + d)
  OBVIOUS
<1>6. chunk \in Seq(Bytes) /\ Len(chunk) = d
  <2>1. f + d <= Len(r)
    BY <1>3, <1>4
  <2>2. \A k, n \in Nat : k + n <= Len(r) =>
          /\ SubSeq(r, k + 1, k + n) \in Seq(Bytes) /\ Len(SubSeq(r, k + 1, k + n)) = n
          /\ \A m \in 1..n : SubSeq(r, k + 1, k + n)[m] = r[k + m]
    BY Part
  <2>3. /\ SubSeq(r, f + 1, f + d) \in Seq(Bytes) /\ Len(SubSeq(r, f + 1, f + d)) = d
        /\ \A m \in 1..d : SubSeq(r, f + 1, f + d)[m] = r[f + m]
    BY <2>1, <2>2
  <2> QED
    BY <1>5, <2>3
<1>7. M!LastAt(i, len) = L
  BY <1>1, <1>2, <1>4 DEF LastOf
<1>8. (IF i + Wsize < len THEN i + Wsize ELSE len) = f + d /\ i = f
  <2>1. L <=> f + Wsize >= len
    BY <1>4 DEF LastOf, M!LastAt
  <2>2. (L => f + d = len) /\ (~L => d = Wsize)
    BY <1>3, <1>4
  <2>3. i = f /\ Wsize \in Nat
    BY <1>1, <1>4 DEF M!MarkingAssumption
  <2> QED
    BY <2>1, <2>2, <2>3
<1>9. PICK mark : mark = M!Mark(L, d)
  OBVIOUS
<1>10. mark \in Seq(Bytes)
  BY <1>9, MarkFacts
<1>11. PICK marked : marked = (marking.out \o mark) \o chunk
  OBVIOUS
<1>12. /\ marking' = IF L THEN M!Idle ELSE M!Marking(i + Wsize, marked)
       /\ buffer' = IF L THEN buffer \o marked ELSE buffer
  <2>1. M!Last(records) = r /\ marking.i = i
    BY <1>2, <1>4
  <2>2. SubSeq(r, i + 1, IF i + Wsize < Len(r) THEN i + Wsize ELSE Len(r)) = chunk
    BY <1>4, <1>5, <1>8
  <2>3. M!LastAt(i, Len(r)) = L
    BY <1>4, <1>7
  <2> QED
    BY <1>6, <1>9, <1>11, <2>1, <2>2, <2>3 DEF M!AddMark
<1>13. UNCHANGED <<records, stream, readBuf, packetBuf, out, delivered>>
  BY DEF M!AddMark
<1>14. PICK b, s, w, o, g \in Seq(Bytes) :
         b = readBuf /\ s = stream /\ w = buffer /\ o = marking.out /\ g = Fragment(c)
  BY <1>3, WayFacts DEF BytesOK
<1>15. g = mark \o chunk
  BY <1>4, <1>5, <1>9, <1>14 DEF Fragment
<1>16. marked = o \o g
  <2>1. \A y, z \in Seq(Bytes) : (o \o y) \o z = o \o (y \o z)
    BY Regrouped
  <2>2. (o \o mark) \o chunk = o \o (mark \o chunk)
    BY <1>6, <1>10, <2>1
  <2> QED
    BY <1>11, <1>14, <1>15, <2>2
<1>17. OnTheWay' = OnTheWay \o Fragment(c)
  <2>1. (b \o (s \o (w \o o))) \o g = b \o (s \o (w \o (o \o g)))
    <3>1. \A t, u, v, x \in Seq(Bytes) :
            (b \o (t \o (u \o v))) \o x = b \o (t \o (u \o (v \o x)))
      BY RegroupedFar
    <3>2. \A u, v, x \in Seq(Bytes) :
            (b \o (s \o (u \o v))) \o x = b \o (s \o (u \o (v \o x)))
      BY <3>1
    <3>3. \A v, x \in Seq(Bytes) :
            (b \o (s \o (w \o v))) \o x = b \o (s \o (w \o (v \o x)))
      BY <3>2
    <3> QED
      BY <3>3
  <2>2. w \o (o \o g) \in Seq(Bytes)
    BY ConcatProperties
  <2>3. buffer' \o marking'.out = w \o (o \o g)
    <3>1. CASE L
      <4>1. buffer' = w \o (o \o g) /\ marking'.out = <<>>
        BY <1>12, <1>14, <1>16, <3>1 DEF M!Idle
      <4> QED
        BY <2>2, <4>1, ConcatEmptySeq
    <3>2. CASE ~L
      BY <1>12, <1>14, <1>16, <3>2 DEF M!Marking
    <3> QED
      BY <3>1, <3>2
  <2>4. OnTheWay = b \o (s \o (w \o o))
    BY <1>14 DEF OnTheWay
  <2>5. OnTheWay' = b \o (s \o (buffer' \o marking'.out))
    BY <1>13, <1>14 DEF OnTheWay
  <2> QED
    BY <1>14, <2>1, <2>3, <2>4, <2>5
<1>18. AtSender(Following(c))'
  <2>1. Following(c)' = Following(c) /\ records' = records
    BY <1>13 DEF Following, FragmentLen, DataLen, LastOf
  <2>2. CASE L
    <3>1. Following(c).n = Len(records) + 1 /\ Following(c).from = 0
      BY <1>1, <1>3, <1>4, <2>2
    <3>2. marking' = M!Idle
      BY <1>12, <2>2
    <3> QED
      BY <2>1, <3>1, <3>2 DEF AtSender, M!Idle
  <2>3. CASE ~L
    <3>1. Following(c).n = Len(records) /\ Following(c).from = i + Wsize
      BY <1>1, <1>3, <1>4, <1>8, <2>3
    <3>2. marking' = M!Marking(i + Wsize, marked)
      BY <1>12, <2>3
    <3> QED
      BY <2>1, <3>1, <3>2 DEF AtSender, M!Marking
  <2> QED
    BY <2>2, <2>3
<1>19. Received' = Received
  BY <1>13 DEF Received
<1>20. marked \in Seq(Bytes) /\ w \o marked \in Seq(Bytes) /\ <<>> \in Seq(Bytes)
  BY <1>16, ConcatProperties, EmptySeq
<1>21. marking' \in [i : Nat, out : Seq(Bytes), on : BOOLEAN] /\ buffer' \in Seq(Bytes)
  <2>1. M!Idle \in [i : Nat, out : Seq(Bytes), on : BOOLEAN]
    BY <1>20 DEF M!Idle
  <2>2. M!Marking(i + Wsize, marked) \in [i : Nat, out : Seq(Bytes), on : BOOLEAN]
    BY <1>20 DEF M!Marking, M!MarkingAssumption
  <2> QED
    BY <1>12, <1>14, <1>20, <2>1, <2>2
<1>22. IF marking'.on THEN marking'.i <= Len(M!Last(records)) ELSE marking' = M!Idle
  <2>1. CASE L
    BY <1>12, <2>1 DEF M!Idle
  <2>2. CASE ~L
    <3>1. i + Wsize <= len
      BY <1>3, <1>4, <1>8, <2>2
    <3>2. marking'.on /\ marking'.i = i + Wsize
      BY <1>12, <2>2 DEF M!Marking
    <3> QED
      BY <1>2, <1>4, <3>1, <3>2
  <2> QED
    BY <2>1, <2>2
<1> QED
  BY <1>2, <1>3, <1>13, <1>17, <1>18, <1>19, <1>21, <1>22

(* With that fragment there is one place more on the way.                     *)
LEMMA AddMarkThreads ==
  ASSUME M!MarkingAssumption, BytesOK, Calm, M!AddMark,
         NEW C \in Seq(Places), Threaded(C)
  PROVE  \E D \in Seq(Places) : Threaded(D)'
<1>1. /\ Len(C) \in Nat \ {0} /\ \A b \in 1..Len(C) : C[b] \in Places /\ C[b].at \in Nat
      /\ \A b \in 1..(Len(C) - 1) :
           /\ InRecord(C[b]) /\ FragmentLen(C[b]) \in Nat \ {0}
           /\ C[1].at <= C[b].at
           /\ C[b].at - C[1].at + FragmentLen(C[b]) <= Len(OnTheWay)
  BY WithinReach
<1>2. PICK last \in Nat : last = Len(C) /\ last >= 1
  BY <1>1
<1>3. PICK c \in Places : c = C[last]
  BY <1>1, <1>2
<1>4. AtSender(c) /\ c.at = C[1].at + Len(OnTheWay) /\ c.at \in Nat
  BY <1>2, <1>3 DEF Threaded, Places
<1>5. /\ InRecord(c) /\ OnTheWay' = OnTheWay \o Fragment(c)
      /\ Following(c) \in Places
      /\ AtSender(Following(c))' /\ Received' = Received
      /\ records' = records /\ packetBuf' = packetBuf
  BY <1>4, AddMarkAdds
<1>6. PICK e \in Places : e = Following(c)
  BY <1>5
<1>7. /\ FragmentLen(c) \in Nat \ {0} /\ e.at = c.at + FragmentLen(c)
      /\ Fragment(c) \in Seq(Bytes) /\ Len(Fragment(c)) = FragmentLen(c)
  BY <1>5, <1>6, FragmentFacts
<1>8. \A b : /\ InRecord(b)' = InRecord(b) /\ Fragment(b)' = Fragment(b)
             /\ FragmentLen(b)' = FragmentLen(b) /\ Following(b)' = Following(b)
  BY <1>5 DEF InRecord, Fragment, FragmentLen, Following, DataLen, LastOf
<1>9. PICK D \in Seq(Places) :
        /\ Len(D) = last + 1 /\ D # <<>>
        /\ \A b \in 1..last : D[b] = C[b]
        /\ D[last + 1] = e
  <2>1. /\ Append(C, e) \in Seq(Places) /\ Append(C, e) # <<>>
        /\ Len(Append(C, e)) = last + 1
        /\ \A b \in 1..last : Append(C, e)[b] = C[b]
        /\ Append(C, e)[last + 1] = e
    BY <1>2, AppendProperties
  <2> QED
    BY <2>1
<1>10. PICK w, f \in Seq(Bytes), n, m \in Nat :
         w = OnTheWay /\ f = Fragment(c) /\ n = Len(w) /\ m = Len(f)
  BY <1>7, WayFacts, LenProperties
<1>11. /\ Len(w \o f) = n + m
       /\ \A i \in 1..n : (w \o f)[i] = w[i]
       /\ \A i \in 1..m : (w \o f)[n + i] = f[i]
  BY <1>10, Joined
<1>12. /\ \A i \in 1..Len(OnTheWay) : OnTheWay'[i] = OnTheWay[i]
       /\ \A i \in 1..FragmentLen(c) : OnTheWay'[n + i] = Fragment(c)[i]
       /\ Len(OnTheWay') = n + FragmentLen(c)
       /\ n = Len(OnTheWay) /\ FragmentLen(c) = m
  BY <1>5, <1>7, <1>10, <1>11
<1>13. D[1] = C[1] /\ C[1].at \in Nat
  BY <1>1, <1>2, <1>9
<1>14. Receiving(D)'
  BY <1>5, <1>13 DEF Threaded, Receiving
<1>15. \A b \in 1..last :
         /\ InRecord(D[b])
         /\ D[b + 1] = Following(D[b])
         /\ \A i \in 1..FragmentLen(D[b]) : OnTheWay'[D[b].at - D[1].at + i] = Fragment(D[b])[i]
  <2> SUFFICES ASSUME NEW b \in 1..last
               PROVE  /\ InRecord(D[b])
                      /\ D[b + 1] = Following(D[b])
                      /\ \A i \in 1..FragmentLen(D[b]) :
                           OnTheWay'[D[b].at - D[1].at + i] = Fragment(D[b])[i]
    OBVIOUS
  <2>1. CASE b = last
    <3>1. D[b] = c /\ D[b + 1] = Following(c)
      BY <1>2, <1>3, <1>6, <1>9, <2>1
    <3>2. c.at - D[1].at = n
      BY SMTT(40), <1>4, <1>12, <1>13
    <3> QED
      BY <1>5, <1>12, <3>1, <3>2
  <2>2. CASE b # last
    <3>1. b \in 1..(Len(C) - 1) /\ b + 1 \in 1..last /\ D[b] = C[b]
      BY <1>2, <1>9, <2>2
    <3>2. /\ InRecord(C[b]) /\ C[b + 1] = Following(C[b])
          /\ \A i \in 1..FragmentLen(C[b]) :
               OnTheWay[C[b].at - C[1].at + i] = Fragment(C[b])[i]
      BY <3>1 DEF Threaded, Sent
    <3>3. D[b + 1] = C[b + 1]
      BY <1>9, <3>1
    <3>4. PICK x, y, z \in Nat : x = C[b].at /\ y = C[1].at /\ z = FragmentLen(C[b])
      BY <1>1, <1>2, <1>13, <3>1
    <3>5. y <= x /\ x - y + z <= n
      BY <1>1, <1>12, <3>1, <3>4
    <3>6. \A i \in 1..z : x - y + i \in 1..n
      BY <3>5
    <3>7. \A i \in 1..FragmentLen(C[b]) :
            OnTheWay'[C[b].at - C[1].at + i] = OnTheWay[C[b].at - C[1].at + i]
      BY <1>12, <3>4, <3>6
    <3> QED
      BY <1>13, <3>1, <3>2, <3>3, <3>7
  <2> QED
    BY <2>1, <2>2
<1>16. Sent(D)'
  <2>1. 1..(Len(D) - 1) = 1..last
    BY <1>9
  <2> QED
    BY <1>8, <1>15, <2>1 DEF Sent
<1>17. \A a, b \in 1..Len(D) : a < b => D[a].at + FragmentLen(D[a]) <= D[b].at
  <2> SUFFICES ASSUME NEW a \in 1..(last + 1), NEW b \in 1..(last + 1), a < b
               PROVE  D[a].at + FragmentLen(D[a]) <= D[b].at
    BY <1>9
  <2>1. a \in 1..last /\ D[a] = C[a]
    BY <1>9
  <2>2. CASE b # last + 1
    <3>1. b \in 1..last /\ D[b] = C[b]
      BY <1>9, <2>2
    <3>2. C[a].at + FragmentLen(C[a]) <= C[b].at
      BY <1>2, <2>1, <3>1 DEF Threaded, Ordered
    <3> QED
      BY <2>1, <3>1, <3>2
  <2>3. CASE b = last + 1
    <3>1. D[b].at = c.at + FragmentLen(c)
      BY <1>7, <1>9, <2>3
    <3>2. CASE a = last
      <4>1. D[a] = c
        BY <1>3, <2>1, <3>2
      <4>2. D[a].at + FragmentLen(D[a]) = D[b].at /\ D[b].at \in Nat
        BY SMTT(40), <1>4, <1>7, <3>1, <4>1
      <4> QED
        BY <4>2
    <3>3. CASE a # last
      <4>1. a \in 1..(Len(C) - 1)
        BY <1>2, <2>1, <3>3
      <4>2. C[a].at + FragmentLen(C[a]) <= c.at
        BY <1>2, <1>3, <2>1, <4>1 DEF Threaded, Ordered
      <4>3. PICK x, y, z, u \in Nat :
              x = C[a].at /\ y = FragmentLen(C[a]) /\ z = c.at /\ u = FragmentLen(c)
        BY <1>1, <1>2, <1>4, <1>7, <2>1, <4>1
      <4>4. x + y <= z => x + y <= z + u
        OBVIOUS
      <4> QED
        BY <2>1, <3>1, <4>2, <4>3, <4>4
    <3> QED
      BY <3>2, <3>3
  <2> QED
    BY <2>2, <2>3
<1>18. Ordered(D)'
  BY <1>8, <1>17 DEF Ordered
<1>19. D[Len(D)] = e
  BY <1>9
<1>20. AtSender(D[Len(D)])'
  <2>1. Following(c)' = e
    BY <1>6, <1>8
  <2> QED
    BY <1>5, <1>19, <2>1
<1>21. D[Len(D)].at = D[1].at + Len(OnTheWay')
  <2>1. PICK x, y \in Nat : x = C[1].at /\ y = FragmentLen(c)
    BY <1>7, <1>13
  <2>2. e.at = (x + n) + y /\ Len(OnTheWay') = n + y
    BY <1>4, <1>7, <1>12, <2>1
  <2>3. (x + n) + y = x + (n + y)
    OBVIOUS
  <2> QED
    BY <1>13, <1>19, <2>1, <2>2, <2>3
<1>22. Threaded(D)'
  BY <1>9, <1>14, <1>16, <1>18, <1>20, <1>21 DEF Threaded
<1> QED
  BY <1>22

(* A turn of recv_records takes the fragment at the receiver's place off the  *)
(* bytes on the way, and joins what it holds to the rest of the record.       *)
LEMMA PacketTakes ==
  ASSUME M!MarkingAssumption, BytesOK, M!Packet, NEW c \in Places, InRecord(c),
         \A m \in 1..FragmentLen(c) : m <= Len(OnTheWay) => OnTheWay[m] = Fragment(c)[m],
         c.from = Len(packetBuf), packetBuf = SubSeq(records[c.n], 1, c.from)
  PROVE  /\ Len(OnTheWay) = FragmentLen(c) + Len(OnTheWay')
         /\ \A i \in 1..Len(OnTheWay') : OnTheWay'[i] = OnTheWay[FragmentLen(c) + i]
         /\ packetBuf' = IF LastOf(c) THEN <<>>
                         ELSE SubSeq(records[c.n], 1, c.from + DataLen(c))
         /\ out' = IF LastOf(c) THEN Append(out, records[c.n]) ELSE out
         /\ UNCHANGED <<records, marking, delivered>>
<1>1. PICK rest \in Seq(Bytes) : rest = stream \o (buffer \o marking.out)
  BY WayFacts, ConcatProperties DEF BytesOK
<1>2. PICK b \in Seq(Bytes), r \in Seq(Bytes), q \in Seq(Bytes), n, f, d, p \in Nat, L \in BOOLEAN :
        /\ b = readBuf /\ r = records[c.n] /\ q = packetBuf /\ n = Len(b)
        /\ f = c.from /\ d = DataLen(c) /\ p = FragmentLen(c) /\ L = LastOf(c)
  <2>1. records[c.n] \in Seq(Bytes) /\ DataLen(c) \in Nat /\ FragmentLen(c) \in Nat
    BY FragmentFacts
  <2>2. c.from \in Nat /\ LastOf(c) \in BOOLEAN
    BY DEF Places, LastOf, M!LastAt
  <2>3. readBuf \in Seq(Bytes) /\ packetBuf \in Seq(Bytes) /\ Len(readBuf) \in Nat
    BY WayFacts DEF BytesOK
  <2> QED
    BY <2>1, <2>2, <2>3
<1>3. /\ f + d <= Len(r) /\ Len(r) \in Nat /\ (L => f + d = Len(r)) /\ p = M!MarkLen + d
      /\ Fragment(c)[1].last = L /\ Fragment(c)[1].len = d
      /\ \A m \in 1..d : Fragment(c)[M!MarkLen + m] = r[f + m]
  BY <1>2, FragmentFacts
<1>4. PICK k \in Nat : k = Len(rest)
  BY LenProperties
<1>5. /\ OnTheWay = b \o rest /\ Len(OnTheWay) = n + k
      /\ \A i \in 1..n : OnTheWay[i] = b[i]
      /\ \A i \in 1..k : OnTheWay[n + i] = rest[i]
  <2>1. OnTheWay = b \o rest
    BY <1>1, <1>2 DEF OnTheWay
  <2>2. /\ Len(b \o rest) = n + k
        /\ \A i \in 1..n : (b \o rest)[i] = b[i]
        /\ \A i \in 1..k : (b \o rest)[n + i] = rest[i]
    BY <1>2, <1>4, Joined
  <2> QED
    BY <2>1, <2>2
<1>6. n >= M!MarkLen /\ n >= Head(b).len + M!MarkLen
  BY <1>2 DEF M!Packet, M!FullPacket
<1>7. Head(b).len = d /\ Head(b).last = L
  <2>1. Head(b) = b[1]
    BY <1>2, <1>6 DEF M!MarkLen
  <2>2. 1 \in 1..n /\ 1 \in 1..p /\ 1 <= n + k
    BY SMTT(40), <1>3, <1>6 DEF M!MarkLen
  <2>3. OnTheWay[1] = b[1]
    BY <1>5, <2>2
  <2>4. OnTheWay[1] = Fragment(c)[1]
    BY <1>2, <1>5, <2>2
  <2> QED
    BY <1>3, <2>1, <2>3, <2>4
<1>8. p <= n /\ Head(readBuf).len + M!MarkLen = p
  BY <1>2, <1>3, <1>6, <1>7 DEF M!MarkLen
<1>9. \A m \in 1..d : b[M!MarkLen + m] = r[f + m]
  <2>1. SUFFICES ASSUME NEW m \in 1..d PROVE b[M!MarkLen + m] = r[f + m]
    OBVIOUS
  <2>2. PICK i \in Nat : i = M!MarkLen + m
    BY DEF M!MarkLen
  <2>3. i \in 1..p /\ i \in 1..n /\ i <= n + k
    BY <1>3, <1>8, <2>2 DEF M!MarkLen
  <2>4. OnTheWay[i] = b[i]
    BY <1>5, <2>3
  <2>5. OnTheWay[i] = Fragment(c)[i]
    BY <1>2, <1>5, <2>3
  <2> QED
    BY <1>3, <2>2, <2>4, <2>5
<1>10. PICK chunk : chunk = SubSeq(b, M!MarkLen + 1, p)
  OBVIOUS
<1>11. chunk \in Seq(Bytes) /\ Len(chunk) = d /\ \A m \in 1..d : chunk[m] = r[f + m]
  <2>1. M!MarkLen + d <= n /\ M!MarkLen \in Nat
    BY <1>3, <1>8 DEF M!MarkLen
  <2>2. /\ SubSeq(b, M!MarkLen + 1, M!MarkLen + d) \in Seq(Bytes)
        /\ Len(SubSeq(b, M!MarkLen + 1, M!MarkLen + d)) = d
        /\ \A m \in 1..d : SubSeq(b, M!MarkLen + 1, M!MarkLen + d)[m] = b[M!MarkLen + m]
    <3>1. \A i, j \in Nat : i + j <= Len(b) =>
            /\ SubSeq(b, i + 1, i + j) \in Seq(Bytes) /\ Len(SubSeq(b, i + 1, i + j)) = j
            /\ \A m \in 1..j : SubSeq(b, i + 1, i + j)[m] = b[i + m]
      BY Part
    <3>2. PICK l \in Nat : l = M!MarkLen /\ l + d <= Len(b)
      BY <1>2, <2>1
    <3>3. /\ SubSeq(b, l + 1, l + d) \in Seq(Bytes) /\ Len(SubSeq(b, l + 1, l + d)) = d
          /\ \A m \in 1..d : SubSeq(b, l + 1, l + d)[m] = b[l + m]
      BY <3>1, <3>2
    <3> QED
      BY <3>2, <3>3
  <2> QED
    BY <1>3, <1>9, <1>10, <2>2
<1>12. q \o chunk = SubSeq(r, 1, f + d)
  <2>1. /\ SubSeq(r, 1, f + d) \in Seq(Bytes) /\ Len(SubSeq(r, 1, f + d)) = f + d
        /\ \A i \in 1..(f + d) : SubSeq(r, 1, f + d)[i] = r[i]
    BY <1>3, ElementOfSeq, SubSeqProperties
  <2>2. Len(q) = f /\ \A i \in 1..f : q[i] = r[i]
    <3>1. \A i \in 1..f : SubSeq(r, 1, f)[i] = r[i]
      BY <1>3, ElementOfSeq, SubSeqProperties
    <3> QED
      BY <1>2, <3>1
  <2>3. /\ q \o chunk \in Seq(Bytes) /\ Len(q \o chunk) = f + d
        /\ \A i \in 1..f : (q \o chunk)[i] = q[i]
        /\ \A i \in 1..d : (q \o chunk)[f + i] = chunk[i]
    <3>1. q \in Seq(Bytes) /\ chunk \in Seq(Bytes) /\ Len(q) = f /\ Len(chunk) = d
      BY <1>11, <2>2
    <3>2. f \in Nat /\ d \in Nat
      OBVIOUS
    <3>3. \A i, j \in Nat :
            Len(q) = i /\ Len(chunk) = j =>
              /\ q \o chunk \in Seq(Bytes) /\ Len(q \o chunk) = i + j
              /\ \A k1 \in 1..i : (q \o chunk)[k1] = q[k1]
              /\ \A k1 \in 1..j : (q \o chunk)[i + k1] = chunk[k1]
      BY <3>1, JoinedBytes
    <3> QED
      BY <3>1, <3>2, <3>3
  <2>4. \A i \in 1..(f + d) : (q \o chunk)[i] = r[i]
    <3>1. SUFFICES ASSUME NEW i \in 1..(f + d) PROVE (q \o chunk)[i] = r[i]
      OBVIOUS
    <3>2. CASE i <= f
      BY <2>2, <2>3, <3>2
    <3>3. CASE ~(i <= f)
      <4>1. PICK m \in 1..d : f + m = i
        <5>1. i - f \in 1..d /\ f + (i - f) = i
          BY <3>3
        <5> QED
          BY <5>1
      <4>2. (q \o chunk)[f + m] = chunk[m] /\ chunk[m] = r[f + m]
        BY <1>11, <2>3
      <4> QED
        BY <4>1, <4>2
    <3> QED
      BY <3>2, <3>3
  <2>5. PICK s, t \in Seq(Bytes) : s = q \o chunk /\ t = SubSeq(r, 1, f + d)
    BY <2>1, <2>3
  <2>6. Len(s) = Len(t) /\ \A i \in 1..Len(s) : s[i] = t[i]
    BY <2>1, <2>3, <2>4, <2>5
  <2> QED
    BY <2>5, <2>6, SeqEqual
<1>13. /\ packetBuf' = IF L THEN <<>> ELSE q \o chunk
       /\ out' = IF L THEN Append(out, q \o chunk) ELSE out
       /\ readBuf' = SubSeq(b, p + 1, n)
       /\ UNCHANGED <<records, marking, buffer, stream, delivered>>
  BY <1>2, <1>7, <1>8, <1>10 DEF M!Packet, M!sender
<1>14. PICK h \in Nat : n = p + h
  <2>1. n - p \in Nat /\ n = p + (n - p)
    BY <1>8
  <2> QED
    BY <2>1
<1>15. PICK e \in Seq(Bytes) :
         e = readBuf' /\ Len(e) = h /\ \A i \in 1..h : e[i] = b[p + i]
  <2>1. p + h <= Len(b)
    BY <1>2, <1>14
  <2>2. /\ SubSeq(b, p + 1, p + h) \in Seq(Bytes) /\ Len(SubSeq(b, p + 1, p + h)) = h
        /\ \A i \in 1..h : SubSeq(b, p + 1, p + h)[i] = b[p + i]
    <3>1. \A i, j \in Nat : i + j <= Len(b) =>
            /\ SubSeq(b, i + 1, i + j) \in Seq(Bytes) /\ Len(SubSeq(b, i + 1, i + j)) = j
            /\ \A m \in 1..j : SubSeq(b, i + 1, i + j)[m] = b[i + m]
      BY SMTT(40), Part
    <3> QED
      BY <2>1, <3>1
  <2> QED
    BY <1>13, <1>14, <2>2
<1>16. /\ Len(OnTheWay') = h + k
       /\ \A i \in 1..h : OnTheWay'[i] = e[i]
       /\ \A i \in 1..k : OnTheWay'[h + i] = rest[i]
  <2>1. OnTheWay' = e \o rest
    BY <1>1, <1>13, <1>15 DEF OnTheWay
  <2>2. /\ Len(e \o rest) = h + k
        /\ \A i \in 1..h : (e \o rest)[i] = e[i]
        /\ \A i \in 1..k : (e \o rest)[h + i] = rest[i]
    <3>1. e \in Seq(Bytes) /\ rest \in Seq(Bytes) /\ Len(e) = h /\ Len(rest) = k
      BY <1>4, <1>15
    <3>2. h \in Nat /\ k \in Nat
      OBVIOUS
    <3>3. \A i, j \in Nat :
            Len(e) = i /\ Len(rest) = j =>
              /\ e \o rest \in Seq(Bytes) /\ Len(e \o rest) = i + j
              /\ \A k1 \in 1..i : (e \o rest)[k1] = e[k1]
              /\ \A k1 \in 1..j : (e \o rest)[i + k1] = rest[k1]
      BY <3>1, JoinedBytes
    <3> QED
      BY <3>1, <3>2, <3>3
  <2> QED
    BY <2>1, <2>2
<1>17. \A i \in 1..(h + k) : OnTheWay'[i] = OnTheWay[p + i]
  <2>1. SUFFICES ASSUME NEW i \in 1..(h + k) PROVE OnTheWay'[i] = OnTheWay[p + i]
    OBVIOUS
  <2>2. CASE i <= h
    <3>1. PICK j \in 1..n : j = p + i
      <4>1. p + i \in 1..n
        BY <1>14, <2>2
      <4> QED
        BY <4>1
    <3>2. i \in 1..h
      BY <2>2
    <3>3. OnTheWay[j] = b[j] /\ OnTheWay'[i] = e[i] /\ e[i] = b[p + i]
      BY <1>5, <1>15, <1>16, <3>2
    <3> QED
      BY <3>1, <3>3
  <2>3. CASE ~(i <= h)
    <3>1. PICK j \in 1..k : h + j = i
      <4>1. i - h \in 1..k /\ h + (i - h) = i
        BY <2>3
      <4> QED
        BY <4>1
    <3>2. p + i = n + j
      BY <1>14, <3>1
    <3>3. OnTheWay[n + j] = rest[j] /\ OnTheWay'[h + j] = rest[j]
      BY <1>5, <1>16
    <3> QED
      BY <3>1, <3>2, <3>3
  <2> QED
    BY <2>2, <2>3
<1>18. L => q \o chunk = r
  BY <1>3, <1>12, SubSeqFull
<1>19. n + k = p + (h + k)
  BY <1>14
<1>20. /\ packetBuf' = IF L THEN <<>> ELSE SubSeq(r, 1, f + d)
       /\ out' = IF L THEN Append(out, r) ELSE out
  BY <1>12, <1>13, <1>18
<1> QED
  BY <1>2, <1>5, <1>13, <1>16, <1>17, <1>19, <1>20

(* Without that fragment there is one place less on the way, and what has     *)
(* come out is still what went in.                                            *)
LEMMA PacketThreads ==
  ASSUME M!MarkingAssumption, BytesOK, Prefix, M!Packet,
         NEW C \in Seq(Places), Threaded(C)
  PROVE  Prefix' /\ \E D \in Seq(Places) : Threaded(D)'
<1>1. /\ Len(C) \in Nat \ {0} /\ \A b \in 1..Len(C) : C[b] \in Places /\ C[b].at \in Nat
      /\ \A b \in 1..(Len(C) - 1) :
           /\ InRecord(C[b]) /\ FragmentLen(C[b]) \in Nat \ {0}
           /\ C[1].at <= C[b].at
           /\ C[b].at - C[1].at + FragmentLen(C[b]) <= Len(OnTheWay)
  BY WithinReach
<1>2. PICK last \in Nat, x \in Nat, n \in Nat :
        last = Len(C) /\ last >= 1 /\ x = C[1].at /\ n = Len(OnTheWay)
  <2>1. PICK l \in Nat : l = Len(C) /\ l >= 1
    BY <1>1
  <2>2. 1 \in 1..Len(C)
    BY <2>1
  <2>3. C[1].at \in Nat /\ Len(OnTheWay) \in Nat
    BY <1>1, <2>2, WayFacts
  <2> QED
    BY <2>1, <2>3
<1>3. n # 0
  <2>1. Len(readBuf) >= 4
    BY DEF M!Packet, M!FullPacket, M!MarkLen
  <2>2. PICK r \in Seq(Bytes), rest \in Seq(Bytes), k \in Nat, l \in Nat :
          /\ r = readBuf /\ rest = stream \o (buffer \o marking.out)
          /\ k = Len(r) /\ l = Len(rest)
    BY WayFacts, ConcatProperties, LenProperties DEF BytesOK
  <2>3. Len(r \o rest) = k + l
    BY <2>2, Joined
  <2> QED
    BY <1>2, <2>1, <2>2, <2>3 DEF OnTheWay
<1>4. last >= 2
  <2>1. C[last].at = C[1].at + n
    BY <1>2 DEF Threaded
  <2>2. last # 1
    BY <1>2, <1>3, <2>1
  <2> QED
    BY <1>2, <2>2
<1>5. PICK c \in Places, p \in Nat : c = C[1] /\ p = FragmentLen(C[1])
  BY <1>1, <1>2, <1>4
<1>6. 1 \in 1..(Len(C) - 1) /\ Len(C) - 1 = last - 1 /\ 2 \in 1..Len(C)
  BY <1>2, <1>4
<1>7. /\ InRecord(c) /\ C[2] = Following(c)
      /\ \A m \in 1..FragmentLen(c) : OnTheWay[C[1].at - C[1].at + m] = Fragment(c)[m]
  <2>1. /\ InRecord(C[1]) /\ C[1 + 1] = Following(C[1])
        /\ \A m \in 1..FragmentLen(C[1]) : OnTheWay[C[1].at - C[1].at + m] = Fragment(C[1])[m]
    BY <1>6 DEF Threaded, Sent
  <2> QED
    BY <1>5, <2>1
<1>8. \A m \in 1..FragmentLen(c) : OnTheWay[m] = Fragment(c)[m]
  <2>1. \A m \in 1..p : x - x + m = m
    OBVIOUS
  <2> QED
    BY <1>2, <1>5, <1>7, <2>1
<1>9. /\ c.n = Len(Received) + 1 /\ c.from = Len(packetBuf)
      /\ packetBuf = SubSeq(records[c.n], 1, c.from)
  BY SMTT(40), <1>5, <1>7 DEF Threaded, Receiving, InRecord
<1>10. /\ Len(OnTheWay) = FragmentLen(c) + Len(OnTheWay')
       /\ \A i \in 1..Len(OnTheWay') : OnTheWay'[i] = OnTheWay[FragmentLen(c) + i]
       /\ packetBuf' = IF LastOf(c) THEN <<>> ELSE SubSeq(records[c.n], 1, c.from + DataLen(c))
       /\ out' = IF LastOf(c) THEN Append(out, records[c.n]) ELSE out
       /\ records' = records /\ marking' = marking /\ delivered' = delivered
  BY <1>7, <1>8, <1>9, PacketTakes
<1>11. /\ records[c.n] \in Seq(Bytes) /\ Len(records[c.n]) \in Nat /\ DataLen(c) \in Nat
       /\ c.from + DataLen(c) <= Len(records[c.n])
       /\ LastOf(c) => c.from + DataLen(c) = Len(records[c.n])
       /\ ~LastOf(c) => DataLen(c) = Wsize
       /\ Following(c).at = c.at + FragmentLen(c)
       /\ LastOf(c) => Following(c).n = c.n + 1 /\ Following(c).from = 0
       /\ ~LastOf(c) => Following(c).n = c.n /\ Following(c).from = c.from + Wsize
  BY <1>7, FragmentFacts
<1>12. /\ c.n \in 1..Len(records) /\ c.from \in Nat
       /\ Received \in Seq(Seq(Bytes)) /\ Len(Received) \in Nat /\ Len(records) \in Nat
  BY <1>7, WayFacts DEF InRecord, Places
<1>13. /\ LastOf(c) => Received' = Append(Received, records[c.n])
       /\ ~LastOf(c) => Received' = Received
  <2>1. CASE LastOf(c)
    <3>1. PICK a, b \in Seq(Seq(Bytes)), r \in Seq(Bytes) :
            a = delivered /\ b = out /\ r = records[c.n]
      BY <1>11 DEF BytesOK
    <3>2. a \o Append(b, r) = Append(a \o b, r)
      OBVIOUS
    <3> QED
      BY <1>10, <2>1, <3>1, <3>2 DEF Received
  <2>2. CASE ~LastOf(c)
    BY <1>10, <2>2 DEF Received
  <2> QED
    BY <2>1, <2>2
<1>14. /\ LastOf(c) => Len(Received') = c.n
       /\ ~LastOf(c) => Len(Received') = Len(Received)
       /\ \A k \in 1..Len(Received) : Received'[k] = Received[k]
       /\ LastOf(c) => Received'[c.n] = records[c.n]
  <2>1. PICK s \in Seq(Seq(Bytes)), r \in Seq(Bytes), l \in Nat :
          s = Received /\ r = records[c.n] /\ l = Len(s) /\ c.n = l + 1
    BY <1>9, <1>11, <1>12
  <2>2. /\ Len(Append(s, r)) = l + 1
        /\ \A k \in 1..l : Append(s, r)[k] = s[k]
        /\ Append(s, r)[l + 1] = r
    BY <2>1, AppendProperties
  <2>3. CASE LastOf(c)
    BY <1>13, <2>1, <2>2, <2>3
  <2>4. CASE ~LastOf(c)
    BY <1>13, <2>4
  <2> QED
    BY <2>3, <2>4
<1>15. Prefix'
  <2>1. CASE LastOf(c)
    <3>1. \A k \in 1..c.n : k \in 1..Len(Received) \/ k = c.n
      BY <1>9, <1>12
    <3>2. Len(Received') = c.n /\ records' = records /\ c.n <= Len(records)
      BY <1>10, <1>12, <1>14, <2>1
    <3>3. \A k \in 1..c.n : Received'[k] = records[k]
      BY <1>14, <2>1, <3>1 DEF Prefix
    <3> QED
      BY <3>2, <3>3 DEF Prefix
  <2>2. CASE ~LastOf(c)
    BY <1>10, <1>14, <2>2 DEF Prefix
  <2> QED
    BY <2>1, <2>2
<1>16. PICK D \in Seq(Places) :
         D # <<>> /\ Len(D) = last - 1 /\ \A b \in 1..(last - 1) : D[b] = C[b + 1]
  <2>1. C # <<>>
    BY DEF Threaded
  <2>2. /\ Tail(C) \in Seq(Places) /\ Len(Tail(C)) = last - 1
        /\ \A b \in 1..(last - 1) : Tail(C)[b] = C[b + 1]
    BY <1>2, <2>1, HeadTailProperties
  <2>3. Tail(C) # <<>>
    <3>1. Len(Tail(C)) # 0
      BY <1>4, <2>2
    <3>2. Len(<<>>) = 0
      OBVIOUS
    <3> QED
      BY <3>1, <3>2
  <2> QED
    BY <2>2, <2>3
<1>17. PICK d \in Places : d = C[2]
  BY <1>1, <1>6
<1>18. D[1] = d /\ d = Following(c) /\ d.at = x + p /\ d.at \in Nat
  <2>1. 1 \in 1..(last - 1) /\ 1 + 1 = 2
    BY <1>4
  <2>2. D[1] = C[2]
    BY <1>16, <2>1
  <2> QED
    BY <1>2, <1>5, <1>7, <1>11, <1>17, <2>2 DEF Places
<1>19. \A b : /\ InRecord(b)' = InRecord(b) /\ Fragment(b)' = Fragment(b)
              /\ FragmentLen(b)' = FragmentLen(b) /\ Following(b)' = Following(b)
  BY <1>10 DEF InRecord, Fragment, FragmentLen, Following, DataLen, LastOf
<1>20. Receiving(D)'
  <2>1. CASE LastOf(c)
    <3>1. d.n = Len(Received') + 1 /\ d.from = 0
      BY <1>11, <1>14, <1>18, <2>1
    <3>2. packetBuf' = <<>> /\ SubSeq(records[d.n], 1, 0) = <<>>
      BY <1>10, <2>1, SubSeqEmpty
    <3>3. Len(packetBuf') = 0
      BY <3>2
    <3> QED
      BY <1>10, <1>18, <3>1, <3>2, <3>3 DEF Receiving
  <2>2. CASE ~LastOf(c)
    <3>1. d.n = c.n /\ d.from = c.from + DataLen(c)
      BY <1>11, <1>18, <2>2
    <3>2. packetBuf' = SubSeq(records[c.n], 1, c.from + DataLen(c))
      BY <1>10, <2>2
    <3>3. Len(packetBuf') = c.from + DataLen(c)
      <4>1. PICK r \in Seq(Bytes), f, g \in Nat : r = records[c.n] /\ f = c.from /\ g = DataLen(c)
        BY <1>11, <1>12
      <4>2. 0 + (f + g) <= Len(r) /\ 0 + 1 = 1 /\ 0 + (f + g) = f + g
        BY <1>11, <4>1
      <4>3. Len(SubSeq(r, 1, f + g)) = f + g
        BY <4>2, Part
      <4> QED
        BY <3>2, <4>1, <4>3
    <3> QED
      BY <1>9, <1>10, <1>14, <1>18, <2>2, <3>1, <3>2, <3>3 DEF Receiving
  <2> QED
    BY <2>1, <2>2
<1>21. \A b \in 1..(last - 1) : d.at <= D[b].at /\ D[b].at \in Nat
  <2>1. SUFFICES ASSUME NEW b \in 1..(last - 1) PROVE d.at <= D[b].at /\ D[b].at \in Nat
    OBVIOUS
  <2>2. b + 1 \in 1..Len(C) /\ 1 \in 1..Len(C) /\ 1 < b + 1
    BY <1>2, <1>6
  <2>3. C[1].at + FragmentLen(C[1]) <= C[b + 1].at
    BY <2>2 DEF Threaded, Ordered
  <2> QED
    BY <1>1, <1>2, <1>5, <1>16, <1>18, <2>2, <2>3
<1>22. \A b \in 1..(last - 2) :
         /\ InRecord(D[b])
         /\ D[b + 1] = Following(D[b])
         /\ \A i \in 1..FragmentLen(D[b]) : OnTheWay'[D[b].at - D[1].at + i] = Fragment(D[b])[i]
  <2> SUFFICES ASSUME NEW b \in 1..(last - 2)
               PROVE  /\ InRecord(D[b])
                      /\ D[b + 1] = Following(D[b])
                      /\ \A i \in 1..FragmentLen(D[b]) :
                           OnTheWay'[D[b].at - D[1].at + i] = Fragment(D[b])[i]
    OBVIOUS
  <2>1. /\ b \in 1..(last - 1) /\ b + 1 \in 1..(last - 1) /\ b + 1 \in 1..(Len(C) - 1)
        /\ b + 1 \in 1..Len(C)
    BY <1>2
  <2>2. D[b] = C[b + 1] /\ D[b + 1] = C[b + 1 + 1]
    BY <1>16, <2>1
  <2>3. /\ InRecord(C[b + 1]) /\ C[b + 1 + 1] = Following(C[b + 1])
        /\ \A i \in 1..FragmentLen(C[b + 1]) :
             OnTheWay[C[b + 1].at - C[1].at + i] = Fragment(C[b + 1])[i]
    BY <2>1 DEF Threaded, Sent
  <2>4. PICK y \in Nat, z \in Nat : y = C[b + 1].at /\ z = FragmentLen(C[b + 1])
    BY <1>1, <2>1
  <2>5. y - x + z <= n /\ x + p <= y
    BY <1>1, <1>2, <1>18, <1>21, <2>1, <2>2, <2>4
  <2>6. PICK h \in Nat : h = Len(OnTheWay') /\ n = p + h
    <3>1. Len(OnTheWay') = n - p /\ p <= n
      <4>1. FragmentLen(C[1]) <= n
        BY <2>5, <1>1, <1>2, <1>5, <1>6
      <4>2. n = p + Len(OnTheWay')
        BY <1>2, <1>5, <1>10
      <4>3. Len(OnTheWay') \in Nat
        <5>1. CASE OnTheWay' = <<>>
          BY <5>1
        <5> QED
          BY <4>1, <4>2
      <4> QED
        BY <1>5, <4>1, <4>2, <4>3
    <3> QED
      BY <3>1
  <2>7. \A i \in 1..z : y - (x + p) + i \in 1..h /\ p + (y - (x + p) + i) = y - x + i
    BY <2>5, <2>6
  <2>8. \A i \in 1..z : OnTheWay'[y - (x + p) + i] = OnTheWay[y - x + i]
    BY <1>5, <1>10, <2>6, <2>7
  <2>9. D[b].at - D[1].at = y - (x + p) /\ FragmentLen(D[b]) = z /\ C[b + 1].at - C[1].at = y - x
    BY <1>2, <1>18, <2>2, <2>4
  <2>10. \A i \in 1..FragmentLen(D[b]) :
           OnTheWay'[D[b].at - D[1].at + i] = Fragment(D[b])[i]
    BY ZenonT(40), <2>2, <2>3, <2>4, <2>8, <2>9
  <2> QED
    BY <2>2, <2>3, <2>10
<1>23. Sent(D)'
  <2>1. 1..(Len(D) - 1) = 1..(last - 2)
    BY <1>4, <1>16
  <2> QED
    BY <1>19, <1>22, <2>1 DEF Sent
<1>24. \A a, b \in 1..(last - 1) : a < b => D[a].at + FragmentLen(D[a]) <= D[b].at
  <2> SUFFICES ASSUME NEW a \in 1..(last - 1), NEW b \in 1..(last - 1), a < b
               PROVE  D[a].at + FragmentLen(D[a]) <= D[b].at
    OBVIOUS
  <2>1. a + 1 \in 1..Len(C) /\ b + 1 \in 1..Len(C) /\ a + 1 < b + 1
    BY <1>2
  <2>2. C[a + 1].at + FragmentLen(C[a + 1]) <= C[b + 1].at
    BY <2>1 DEF Threaded, Ordered
  <2> QED
    BY <1>16, <2>2
<1>25. Ordered(D)'
  BY <1>16, <1>19, <1>24 DEF Ordered
<1>26. D[Len(D)] = C[last]
  <2>1. last - 1 \in 1..(last - 1) /\ last - 1 + 1 = last
    BY <1>4
  <2> QED
    BY <1>16, <2>1
<1>27. AtSender(D[Len(D)])'
  BY <1>2, <1>10, <1>26 DEF Threaded, AtSender
<1>28. D[Len(D)].at = D[1].at + Len(OnTheWay')
  <2>1. C[last].at = x + n /\ n = p + Len(OnTheWay')
    BY <1>2, <1>5, <1>10 DEF Threaded
  <2> QED
    BY <1>18, <1>26, <2>1
<1>29. Threaded(D)'
  BY <1>16, <1>20, <1>23, <1>25, <1>27, <1>28 DEF Threaded
<1> QED
  BY <1>15, <1>29

LEMMA Parts ==
  \A S : \A s \in Seq(S) : \A i, j \in Nat : i >= 1 /\ j <= Len(s) => SubSeq(s, i, j) \in Seq(S)
<1> SUFFICES ASSUME NEW S, NEW s \in Seq(S), NEW i \in Nat, NEW j \in Nat, i >= 1, j <= Len(s)
             PROVE  SubSeq(s, i, j) \in Seq(S)
  OBVIOUS
<1>1. \A k \in i..j : s[k] \in S
  <2>1. \A k \in i..j : k \in 1..Len(s)
    BY LenProperties
  <2> QED
    BY <2>1, ElementOfSeq
<1> QED
  BY <1>1, SubSeqProperties

LEMMA BytesStayOK ==
  ASSUME M!MarkingAssumption, BytesOK, Calm, [M!Next]_M!vars
  PROVE  BytesOK'
<1> USE DEF BytesOK
<1>1. ASSUME NEW len \in 0..MaxLen, M!PopRecord(len)
      PROVE  BytesOK'
  <2>1. M!Record(Len(records) + 1, len) \in Seq(Bytes)
    <3>1. len \in Nat
      BY DEF M!MarkingAssumption
    <3>2. PICK n \in Nat : n = Len(records) + 1
      BY WayFacts
    <3>3. M!Record(n, len) \in [1..len -> Bytes]
      BY <3>1 DEF M!Record, M!Byte, Bytes
    <3>4. M!Record(n, len) \in Seq(Bytes)
      BY <3>1, <3>3, SeqDef
    <3> QED
      BY <3>2, <3>4
  <2>2. records' \in Seq(Seq(Bytes))
    BY <1>1, <2>1, AppendProperties DEF M!PopRecord
  <2>3. marking' \in [i : Nat, out : Seq(Bytes), on : BOOLEAN]
    BY <1>1, EmptySeq DEF M!PopRecord, M!Marking
  <2> QED
    BY <1>1, <2>2, <2>3 DEF M!PopRecord
<1>2. ASSUME M!AddMark
      PROVE  BytesOK'
  <2>1. PICK c \in Places : c = [n |-> Len(records), from |-> marking.i, at |-> 0]
    BY WayFacts DEF Places
  <2>2. AtSender(c)
    BY <1>2, <2>1 DEF M!AddMark, AtSender
  <2>3. marking' \in [i : Nat, out : Seq(Bytes), on : BOOLEAN] /\ buffer' \in Seq(Bytes)
    BY <1>2, <2>2, AddMarkAdds
  <2> QED
    BY <1>2, <2>3 DEF M!AddMark
<1>3. ASSUME NEW n \in 1..Len(buffer), M!FlushPipe(n)
      PROVE  BytesOK'
  <2>1. n \in Nat /\ Len(buffer) \in Nat
    BY LenProperties
  <2>2. SubSeq(buffer, 1, n) \in Seq(Bytes)
        /\ SubSeq(buffer, n + 1, Len(buffer)) \in Seq(Bytes)
    BY <2>1, Parts
  <2>3. stream \o SubSeq(buffer, 1, n) \in Seq(Bytes)
    BY <2>2, ConcatProperties
  <2> QED
    BY <1>3, <2>2, <2>3 DEF M!FlushPipe
<1>4. CASE M!Close
  BY <1>4 DEF M!Close, M!sender
<1>5. ASSUME NEW n \in 1..Rsize, n <= Len(stream), M!Recv(n)
      PROVE  BytesOK'
  <2>1. n \in Nat /\ Len(stream) \in Nat
    BY LenProperties DEF M!MarkingAssumption
  <2>2. SubSeq(stream, 1, n) \in Seq(Bytes) /\ SubSeq(stream, n + 1, Len(stream)) \in Seq(Bytes)
    BY <1>5, <2>1, Parts
  <2>3. readBuf \o SubSeq(stream, 1, n) \in Seq(Bytes)
    BY <2>2, ConcatProperties
  <2> QED
    BY <1>5, <2>2, <2>3, EmptySeq DEF M!Recv, M!sender
<1>6. CASE M!RecvEnd
  BY <1>6 DEF M!RecvEnd, M!sender
<1>7. CASE M!Packet
  <2>1. PICK l \in Nat, p \in Nat : l = Len(readBuf) /\ p = Head(readBuf).len + M!MarkLen
    <3>1. Head(readBuf) \in Bytes
      <4>1. readBuf # <<>>
        BY <1>7 DEF M!Packet, M!FullPacket, M!MarkLen
      <4> QED
        BY <4>1, HeadTailProperties
    <3>2. Head(readBuf).len \in Nat
      BY <3>1 DEF Bytes
    <3> QED
      BY <3>2, WayFacts DEF M!MarkLen
  <2>2. p <= l
    BY <1>7, <2>1 DEF M!Packet, M!FullPacket
  <2>3. SubSeq(readBuf, M!MarkLen + 1, p) \in Seq(Bytes) /\ SubSeq(readBuf, p + 1, l) \in Seq(Bytes)
    BY SMTT(40), <2>1, <2>2, Parts DEF M!MarkLen
  <2>4. PICK packets \in Seq(Bytes) : packets = packetBuf \o SubSeq(readBuf, M!MarkLen + 1, p)
    BY <2>3, ConcatProperties
  <2>5. Append(out, packets) \in Seq(Seq(Bytes)) /\ <<>> \in Seq(Bytes)
    BY AppendProperties, EmptySeq
  <2>6. /\ packetBuf' = IF Head(readBuf).last THEN <<>> ELSE packets
        /\ out' = IF Head(readBuf).last THEN Append(out, packets) ELSE out
        /\ readBuf' = SubSeq(readBuf, p + 1, l)
        /\ UNCHANGED <<M!sender, stream, closed, receiver, delivered>>
    BY <1>7, <2>1, <2>4 DEF M!Packet
  <2> QED
    BY <2>3, <2>5, <2>6 DEF M!sender
<1>8. CASE M!Deliver
  BY <1>8, ConcatProperties, EmptySeq DEF M!Deliver, M!sender
<1>9. CASE UNCHANGED M!vars
  BY <1>9 DEF M!vars
<1> QED
  BY <1>1, <1>2, <1>3, <1>4, <1>5, <1>6, <1>7, <1>8, <1>9 DEF M!Next, M!Flush, M!Receive

(* Steps that neither cut nor join only pass bytes on.                        *)
PassesOn ==
  /\ Received' = Received /\ packetBuf' = packetBuf /\ OnTheWay' = OnTheWay
  /\ \A c \in Places : AtSender(c) => AtSender(c)'
  /\ Len(records) <= Len(records')
  /\ \A k \in 1..Len(records) : records'[k] = records[k]

LEMMA BytesPassOn ==
  ASSUME M!MarkingAssumption, BytesOK, BytesOK', Calm, M!Next, ~M!AddMark, ~M!Packet
  PROVE  PassesOn
<1>1. ASSUME NEW len \in 0..MaxLen, M!PopRecord(len)
      PROVE  PassesOn
  <2>1. marking = M!Idle /\ marking' = M!Marking(0, <<>>) /\ ~marking.on
    BY <1>1 DEF M!PopRecord, Calm
  <2>2. OnTheWay' = OnTheWay /\ Received' = Received /\ packetBuf' = packetBuf
    <3>1. UNCHANGED <<buffer, stream, readBuf, packetBuf, out, delivered>>
      BY <1>1 DEF M!PopRecord
    <3>2. marking.out = <<>> /\ marking'.out = <<>>
      BY <2>1 DEF M!Idle, M!Marking
    <3> QED
      BY ZenonT(40), <3>1, <3>2 DEF OnTheWay, Received
  <2>3. PICK s, t \in Seq(Seq(Bytes)), l \in Nat : s = records /\ t = records' /\ l = Len(s)
    BY WayFacts DEF BytesOK
  <2>4. t = Append(s, M!Record(l + 1, len))
    BY <1>1, <2>3 DEF M!PopRecord
  <2>5. Len(t) = l + 1 /\ \A k \in 1..l : t[k] = s[k]
    BY <2>3, <2>4
  <2>6. \A c \in Places : AtSender(c) => AtSender(c)'
    BY <2>1, <2>3, <2>5 DEF AtSender, M!Idle, M!Marking
  <2>7. Len(records) = l /\ Len(records') = l + 1 /\ \A k \in 1..l : records'[k] = records[k]
    BY <2>3, <2>5
  <2>8. Len(records) <= Len(records')
    BY <2>7
  <2> QED
    BY <2>2, <2>6, <2>7, <2>8 DEF PassesOn
<1>2. ASSUME UNCHANGED <<records, marking, packetBuf>>, Received' = Received, OnTheWay' = OnTheWay
      PROVE  PassesOn
  BY <1>2, WayFacts DEF AtSender, PassesOn
<1>3. ASSUME NEW n \in 1..Len(buffer), M!FlushPipe(n)
      PROVE  PassesOn
  <2>1. marking = M!Idle
    BY <1>3 DEF M!FlushPipe, Calm
  <2>2. PICK s \in Seq(Bytes), w \in Seq(Bytes), l \in Nat :
          s = stream /\ w = buffer /\ l = Len(w)
    BY LenProperties DEF BytesOK
  <2>3. (s \o SubSeq(w, 1, n)) \o SubSeq(w, n + 1, Len(w)) = s \o w
    <3>1. n \in 1..Len(w)
      BY <2>2
    <3> QED
      BY ZenonT(40), <3>1, Split
  <2>4. /\ SubSeq(w, n + 1, Len(w)) \in Seq(Bytes)
        /\ stream' = s \o SubSeq(w, 1, n) /\ buffer' = SubSeq(w, n + 1, Len(w))
        /\ UNCHANGED <<records, marking, closed, readBuf, packetBuf, out, receiver, delivered>>
    BY <1>3, <2>2 DEF M!FlushPipe, BytesOK
  <2>5. w \o <<>> = w /\ SubSeq(w, n + 1, Len(w)) \o <<>> = SubSeq(w, n + 1, Len(w))
    BY <2>4, ConcatEmptySeq
  <2>6. OnTheWay' = readBuf \o (stream' \o (buffer' \o <<>>))
        /\ OnTheWay = readBuf \o (stream \o (buffer \o <<>>))
    BY <2>1, <2>4 DEF OnTheWay, M!Idle
  <2>7. OnTheWay' = OnTheWay
    BY <2>2, <2>3, <2>4, <2>5, <2>6
  <2>8. Received' = Received
    BY <2>4 DEF Received
  <2> QED
    BY <1>2, <2>4, <2>7, <2>8
<1>4. CASE M!Close
  BY <1>2, <1>4 DEF M!Close, M!sender, OnTheWay, Received
<1>5. ASSUME NEW n \in 1..Rsize, n <= Len(stream), M!Recv(n)
      PROVE  PassesOn
  <2>1. out = <<>> /\ out' = <<>>
    BY <1>5 DEF M!Recv, Calm
  <2>2. PICK s, b, rest, y, z \in Seq(Bytes), l \in Nat :
          /\ s = stream /\ b = readBuf /\ rest = buffer \o marking.out /\ l = Len(s)
          /\ y = readBuf' /\ z = stream'
    BY WayFacts, LenProperties, ConcatProperties DEF BytesOK
  <2>3. n \in 1..Len(s)
    BY <1>5, <2>2 DEF M!MarkingAssumption
  <2>4. (b \o SubSeq(s, 1, n)) \o SubSeq(s, n + 1, Len(s)) = b \o s
    BY <2>3, Split
  <2>5. /\ y = b \o SubSeq(s, 1, n) /\ z = SubSeq(s, n + 1, Len(s))
        /\ UNCHANGED <<records, marking, buffer, closed, packetBuf, delivered>>
    BY <1>5, <2>2 DEF M!Recv, M!sender
  <2>6. y \o (z \o rest) = (y \o z) \o rest /\ b \o (s \o rest) = (b \o s) \o rest
    <3>1. y \o (z \o rest) = (y \o z) \o rest
      BY ZenonT(40), Regrouped
    <3>2. b \o (s \o rest) = (b \o s) \o rest
      BY ZenonT(40), Regrouped
    <3> QED  BY <3>1, <3>2
  <2>7. OnTheWay' = y \o (z \o rest) /\ OnTheWay = b \o (s \o rest)
    BY <2>2, <2>5 DEF OnTheWay
  <2>8. y \o z = b \o s
    BY <2>4, <2>5
  <2>9. OnTheWay' = OnTheWay
    <3>1. (y \o z) \o rest = (b \o s) \o rest
      BY <2>8
    <3> QED
      BY ZenonT(40), <2>6, <2>7, <3>1
  <2>10. Received' = Received
    BY <2>1, <2>5 DEF Received
  <2> QED
    BY <1>2, <2>5, <2>9, <2>10
<1>6. CASE M!RecvEnd
  BY <1>2, <1>6 DEF M!RecvEnd, M!sender, OnTheWay, Received
<1>7. CASE M!Deliver
  <2>1. PICK d \in Seq(Seq(Bytes)) : d = delivered \o out
    BY ConcatProperties DEF BytesOK
  <2>2. d \o <<>> = d
    BY ConcatEmptySeq
  <2>3. Received' = Received
    BY <1>7, <2>1, <2>2 DEF M!Deliver, Received
  <2>4. OnTheWay' = OnTheWay /\ UNCHANGED <<records, marking, packetBuf>>
    BY <1>7 DEF M!Deliver, M!sender, OnTheWay
  <2> QED
    BY <1>2, <2>3, <2>4
<1>8. \/ \E len \in 0..MaxLen : M!PopRecord(len)
      \/ \E n \in 1..Len(buffer) : M!FlushPipe(n)
      \/ \E n \in 1..Rsize : n <= Len(stream) /\ M!Recv(n)
      \/ M!Close \/ M!RecvEnd \/ M!Deliver
  BY DEF M!Next, M!Flush, M!Receive
<1>9. CASE \E n \in 1..Len(buffer) : M!FlushPipe(n)
  BY <1>3, <1>9
<1>10. CASE \E n \in 1..Rsize : n <= Len(stream) /\ M!Recv(n)
  BY <1>5, <1>10
<1>11. CASE \E len \in 0..MaxLen : M!PopRecord(len)
  BY <1>1, <1>11
<1> QED
  BY <1>4, <1>6, <1>7, <1>8, <1>9, <1>10, <1>11

LEMMA CalmStays ==
  ASSUME M!MarkingAssumption, BytesOK, BytesOK', Calm, [M!Next]_M!vars
  PROVE  Calm'
<1>1. ASSUME NEW len \in 0..MaxLen, M!PopRecord(len)
      PROVE  Calm'
  <2>1. PICK r \in Seq(Bytes), t \in Seq(Seq(Bytes)), s \in Seq(Seq(Bytes)) :
          s = records /\ t = records' /\ r = M!Last(t) /\ t # <<>>
    <3>1. PICK s \in Seq(Seq(Bytes)), t \in Seq(Seq(Bytes)), l \in Nat :
            s = records /\ t = records' /\ l = Len(s)
      BY WayFacts DEF BytesOK
    <3>2. t = Append(s, M!Record(Len(s) + 1, len))
      BY <1>1, <3>1 DEF M!PopRecord
    <3>3. Len(t) = l + 1
      BY <3>1, <3>2
    <3>4. t # <<>> /\ t[Len(t)] \in Seq(Bytes)
      BY <3>3, ElementOfSeq
    <3> QED
      BY <3>1, <3>4 DEF M!Last
  <2>2. Len(r) \in Nat
    BY LenProperties
  <2> QED
    BY <1>1, <2>1, <2>2 DEF M!PopRecord, Calm, M!Marking
<1>2. CASE M!AddMark
  <2>1. PICK c \in Places : c = [n |-> Len(records), from |-> marking.i, at |-> 0]
    BY WayFacts DEF Places
  <2>2. AtSender(c)
    BY <1>2, <2>1 DEF M!AddMark, AtSender
  <2>3. /\ records' = records
        /\ IF marking'.on THEN marking'.i <= Len(M!Last(records)) ELSE marking' = M!Idle
    BY <1>2, <2>2, AddMarkAdds
  <2> QED
    BY <1>2, <2>3 DEF M!AddMark, Calm
<1>3. ASSUME UNCHANGED <<records, marking, out, receiver>>
      PROVE  Calm'
  BY <1>3 DEF Calm
<1>4. ASSUME UNCHANGED <<records, marking>>, receiver' # "parse" => out' = <<>>
      PROVE  Calm'
  BY <1>4 DEF Calm
<1>5. ASSUME NEW n \in 1..Len(buffer), M!FlushPipe(n)
      PROVE  Calm'
  BY <1>3, <1>5 DEF M!FlushPipe
<1>6. CASE M!Close
  BY <1>3, <1>6 DEF M!Close, M!sender
<1>7. ASSUME NEW n \in 1..Rsize, M!Recv(n)
      PROVE  Calm'
  BY <1>4, <1>7 DEF M!Recv, M!sender
<1>8. CASE M!RecvEnd
  BY <1>4, <1>8 DEF M!RecvEnd, M!sender, Calm
<1>9. CASE M!Packet
  BY <1>4, <1>9 DEF M!Packet, M!sender
<1>10. CASE M!Deliver
  BY <1>4, <1>10 DEF M!Deliver, M!sender
<1>11. CASE UNCHANGED M!vars
  BY <1>3, <1>11 DEF M!vars
<1> QED
  BY <1>1, <1>2, <1>5, <1>6, <1>7, <1>8, <1>9, <1>10, <1>11 DEF M!Next, M!Flush, M!Receive

(* Nothing is on the way at first, and both sides are at the same place.      *)
LEMMA MarkingStarts ==
  ASSUME M!MarkingAssumption, M!Init
  PROVE  MarkingInv
<1>1. BytesOK
  BY EmptySeq DEF M!Init, BytesOK, M!Idle
<1>2. Calm
  BY DEF M!Init, Calm, M!Idle
<1>3. Received = <<>> /\ OnTheWay = <<>> /\ Len(<<>>) = 0
  BY DEF M!Init, Received, OnTheWay, M!Idle
<1>4. Prefix
  BY <1>3 DEF M!Init, Prefix
<1>5. PICK c \in Places : c = [n |-> 1, from |-> 0, at |-> 0]
  BY DEF Places
<1>6. PICK C \in Seq(Places) : Len(C) = 1 /\ C[1] = c /\ C # <<>>
  <2>1. <<c>> \in Seq(Places) /\ Len(<<c>>) = 1 /\ <<c>>[1] = c /\ <<c>> # <<>>
    OBVIOUS
  <2> QED
    BY <2>1
<1>7. Receiving(C)
  <2>1. packetBuf = <<>> /\ records = <<>>
    BY DEF M!Init
  <2> QED
    BY <1>3, <1>5, <1>6, <2>1 DEF Receiving
<1>8. Sent(C) /\ Ordered(C)
  BY <1>6 DEF Sent, Ordered
<1>9. AtSender(C[Len(C)])
  BY <1>3, <1>5, <1>6 DEF M!Init, AtSender, M!Idle
<1>10. C[Len(C)].at = C[1].at + Len(OnTheWay)
  BY <1>3, <1>5, <1>6
<1>11. Threaded(C)
  BY <1>6, <1>7, <1>8, <1>9, <1>10 DEF Threaded
<1> QED
  BY <1>1, <1>2, <1>4, <1>11 DEF MarkingInv

LEMMA MarkingStays ==
  ASSUME M!MarkingAssumption, MarkingInv, [M!Next]_M!vars
  PROVE  MarkingInv'
<1>1. BytesOK /\ Calm /\ Prefix
  BY DEF MarkingInv
<1>2. PICK C \in Seq(Places) : Threaded(C)
  BY DEF MarkingInv
<1>3. BytesOK'
  BY <1>1, BytesStayOK
<1>4. Calm'
  BY <1>1, <1>3, CalmStays
<1>5. CASE M!AddMark
  <2>1. \E D \in Seq(Places) : Threaded(D)'
    BY <1>1, <1>2, <1>5, AddMarkThreads
  <2>2. Received' = Received /\ records' = records
    BY <1>5 DEF M!AddMark, Received
  <2>3. Prefix'
    BY <1>1, <2>2 DEF Prefix
  <2> QED
    BY <1>3, <1>4, <2>1, <2>3 DEF MarkingInv
<1>6. CASE M!Packet
  BY <1>1, <1>2, <1>3, <1>4, <1>6, PacketThreads DEF MarkingInv
<1>7. CASE M!Next /\ ~M!AddMark /\ ~M!Packet
  <2>1. PassesOn
    BY <1>1, <1>3, <1>7, BytesPassOn
  <2>2. Threaded(C)'
    BY <1>1, <1>2, <1>3, <2>1, PlacesStayThreaded DEF PassesOn
  <2>3. Prefix'
    <3>1. PICK l, m, n \in Nat : l = Len(Received) /\ m = Len(records) /\ n = Len(records')
      BY <1>1, <1>3, WayFacts, LenProperties DEF BytesOK
    <3>2. l <= m /\ m <= n
      BY <1>1, <2>1, <3>1 DEF Prefix, PassesOn
    <3>3. \A k \in 1..l : k \in 1..m
      BY <3>2
    <3> QED
      BY <1>1, <2>1, <3>1, <3>2, <3>3 DEF Prefix, PassesOn
  <2> QED
    BY <1>3, <1>4, <2>2, <2>3 DEF MarkingInv
<1>8. CASE UNCHANGED M!vars
  <2>1. UNCHANGED <<Received, OnTheWay, packetBuf, records, marking>>
    BY <1>8 DEF M!vars, Received, OnTheWay
  <2>2. Threaded(C)'
    BY <1>2, <2>1 DEF Threaded, Receiving, Sent, Ordered, AtSender, InRecord, Following, Fragment,
                      FragmentLen, DataLen, LastOf
  <2>3. Prefix'
    BY <1>1, <2>1 DEF Prefix
  <2> QED
    BY <1>3, <1>4, <2>2, <2>3 DEF MarkingInv
<1> QED
  BY <1>5, <1>6, <1>7, <1>8

LEMMA MarkingShows ==
  ASSUME MarkingInv
  PROVE  M!RecordsIntact
<1>1. PICK s, t \in Seq(Seq(Bytes)), l, m \in Nat :
        s = Received /\ t = records /\ l = Len(s) /\ m = Len(t)
  BY WayFacts DEF MarkingInv, BytesOK
<1>2. l <= m /\ \A k \in 1..l : s[k] = t[k]
  BY <1>1 DEF MarkingInv, Prefix
<1>3. PICK u, v \in Seq(Seq(Bytes)) : u = SubSeq(s, 1, l) /\ v = SubSeq(t, 1, l)
  <2>1. SubSeq(s, 1, l) \in Seq(Seq(Bytes))
    BY <1>1, Parts
  <2>2. l <= Len(t)
    BY <1>1, <1>2
  <2>3. SubSeq(t, 1, l) \in Seq(Seq(Bytes))
    BY <2>2, Parts
  <2> QED
    BY <2>1, <2>3
<1>4. /\ Len(u) = l /\ \A k \in 1..l : u[k] = s[k]
      /\ Len(v) = l /\ \A k \in 1..l : v[k] = t[k]
  BY <1>1, <1>2, <1>3
<1>5. u = v
  BY <1>2, <1>4, SeqEqual
<1> QED
  BY <1>1, <1>2, <1>3, <1>5 DEF M!RecordsIntact, M!IsPrefix, Received

(* Record marking loses, joins and reorders nothing: whatever fragments and   *)
(* reads are cut, the records that come out of recv_records are the first     *)
(* ones that were given to pop_record, byte for byte.                         *)
THEOREM RecordsStayIntact ==
  ASSUME M!MarkingAssumption
  PROVE  M!Spec => []M!RecordsIntact
<1>1. M!Init => MarkingInv
  BY MarkingStarts
<1>2. MarkingInv /\ [M!Next]_M!vars => MarkingInv'
  BY MarkingStays
<1>3. MarkingInv => M!RecordsIntact
  BY MarkingShows
<1> QED
  BY <1>1, <1>2, <1>3, PTL DEF M!Spec
=============================================================================
