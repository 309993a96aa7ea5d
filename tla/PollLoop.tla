------------------------------ MODULE PollLoop ------------------------------
(* The polling loop of the RPC layer, src/rpc/rpc.py: class ConnectionHandler *)
(* (start, the _buzz_ and the _event_ functions), class Alarm and the sending *)
(* side of class Pipe.  Client and server both run it.                        *)
(*                                                                           *)
(* One thread polls.  The others, which handle requests, make calls, connect  *)
(* or stop the loop, tell it so through the Alarm: they append an info to a   *)
(* deque and then send one byte, the command, over a socket.                  *)
(*                                                                           *)
(* A record is a number.  flush_pipe sends any number of whole records here;  *)
(* how records become packets and bytes is not in this module.  Of incoming   *)
(* data only the end of a connection matters, the rest starts threads that    *)
(* may reply at any time, after the end of the connection as well.            *)
(*                                                                           *)
(* The bound is MaxRecords.                                                   *)
EXTENDS Naturals, Sequences, SequencesExt, FiniteSets

CONSTANTS
  Threads,       \* all threads but the one that polls
  Pipes,         \* the connections there are from the start
  NewPipes,      \* those that threads make with connect()
  Alarmed,       \* the file descriptor of _alarm_poll
  NoFd,          \* fileno() of a closed socket, -1
  PeersClose,    \* whether peers close connections
  Stops,         \* whether a thread calls stop()
  AlarmCapacity, \* the bytes the socket of the Alarm takes while nobody reads
  MaxRecords     \* bound: records ever pushed

ASSUME PollAssumption ==
  /\ Alarmed \notin Pipes \cup NewPipes /\ NoFd \notin Pipes \cup NewPipes \cup {Alarmed}
  /\ Pipes \cap NewPipes = {}
  /\ PeersClose \in BOOLEAN /\ Stops \in BOOLEAN
  /\ AlarmCapacity \in Nat \ {0} /\ MaxRecords \in Nat

AllPipes == Pipes \cup NewPipes

VARIABLES
  conn,       \* each connection: "none", "made", "open" (in sockets) or "closed"
  ended,      \* the connections whose peer has closed its end
  writeQueue, \* Pipe._write_queue, the oldest record first
  writeBuf,   \* Pipe._write_buf
  writelist,  \* ConnectionHandler.writelist
  alarmQueue, \* Alarm._queue, the oldest info first
  wire,       \* the commands on their way over the socket of the Alarm
  poll,       \* the polling thread
  stopped,    \* ConnectionHandler._stopped
  thread,     \* the other threads
  pushed,     \* history: the records pushed on each pipe, in order
  sent        \* history: the records sent over each connection, in order

pipeVars == <<writeQueue, writeBuf, pushed, sent>>
vars == <<conn, ended, writeQueue, writeBuf, writelist, alarmQueue, wire, poll,
          stopped, thread, pushed, sent>>

Idle == [pc |-> "idle"]
Polling(pc, w, r, commands) == [pc |-> pc, w |-> w, r |-> r, commands |-> commands]
Selecting == Polling("select", {}, {}, <<>>)
Dead == Polling("dead", {}, {}, <<>>)

\* What buzz() is given: the command, and the info for it
Write(p) == [kind |-> "write", pipe |-> p]
Connect(p) == [kind |-> "new", pipe |-> p]
Stop == [kind |-> "stop"]
Infos == {Write(p) : p \in AllPipes} \cup {Connect(p) : p \in NewPipes} \cup {Stop}

Init ==
  /\ conn = [p \in AllPipes |-> IF p \in Pipes THEN "open" ELSE "none"]
  /\ ended = {}
  /\ writeQueue = [p \in AllPipes |-> <<>>] /\ writeBuf = [p \in AllPipes |-> <<>>]
  /\ writelist = {}
  /\ alarmQueue = <<>> /\ wire = <<>>
  /\ poll = Selecting /\ stopped = FALSE
  /\ thread = [t \in Threads |-> Idle]
  /\ pushed = [p \in AllPipes |-> <<>>] /\ sent = [p \in AllPipes |-> <<>>]

-----------------------------------------------------------------------------
(* The other threads                                                          *)

Records == UNION {Range(pushed[p]) : p \in AllPipes}

\* push_record, up to the call of buzz
PushRecord(t, p) ==
  LET record == Cardinality(Records) + 1 IN
  /\ thread[t] = Idle
  /\ conn[p] \in {"open", "closed"}
  /\ record <= MaxRecords
  /\ writeQueue' = [writeQueue EXCEPT ![p] = Append(@, record)]
  /\ pushed' = [pushed EXCEPT ![p] = Append(@, record)]
  /\ thread' = [thread EXCEPT ![t] = [pc |-> "append", info |-> Write(p)]]
  /\ UNCHANGED <<conn, ended, writeBuf, writelist, alarmQueue, wire, poll, stopped, sent>>

\* connect(), up to the call of buzz
MakePipe(t, p) ==
  /\ thread[t] = Idle
  /\ conn[p] = "none"
  /\ conn' = [conn EXCEPT ![p] = "made"]
  /\ thread' = [thread EXCEPT ![t] = [pc |-> "append", info |-> Connect(p)]]
  /\ UNCHANGED <<ended, pipeVars, writelist, alarmQueue, wire, poll, stopped>>

\* stop(), which is called once
StopLoop(t) ==
  /\ Stops
  /\ thread[t] = Idle
  /\ ~stopped /\ Stop \notin Range(alarmQueue)
  /\ "stop" \notin Range(wire) \cup Range(poll.commands)
  /\ \A u \in Threads : thread[u] # Idle => thread[u].info # Stop
  /\ thread' = [thread EXCEPT ![t] = [pc |-> "append", info |-> Stop]]
  /\ UNCHANGED <<conn, ended, pipeVars, writelist, alarmQueue, wire, poll, stopped>>

\* After buzz(), connect() waits for its DeferredData; nothing else waits.
AfterBuzz(info) == IF info.kind = "new" THEN [pc |-> "wait", info |-> info] ELSE Idle

\* Mutant: the command is sent before its info is appended.
BuzzSendsFirst(t) ==
  /\ \/ /\ thread[t].pc = "append"
        /\ Len(wire) < AlarmCapacity
        /\ wire' = Append(wire, thread[t].info.kind)
        /\ thread' = [thread EXCEPT ![t].pc = "sent"]
        /\ UNCHANGED alarmQueue
     \/ /\ thread[t].pc = "sent"
        /\ alarmQueue' = Append(alarmQueue, thread[t].info)
        /\ thread' = [thread EXCEPT ![t] = AfterBuzz(@.info)]
        /\ UNCHANGED wire
  /\ UNCHANGED <<conn, ended, pipeVars, writelist, poll, stopped>>

\* buzz: self._queue.appendleft(info)
BuzzAppend(t) ==
  /\ thread[t].pc = "append"
  /\ alarmQueue' = Append(alarmQueue, thread[t].info)
  /\ thread' = [thread EXCEPT ![t].pc = "send"]
  /\ UNCHANGED <<conn, ended, pipeVars, writelist, wire, poll, stopped>>

(* buzz: self._s.send(command).  The socket does not block: when it takes no  *)
(* more, send() does not return 0 but raises, and the thread is out of the    *)
(* loop, its info left in the deque.                                          *)
BuzzSend(t) ==
  /\ thread[t].pc = "send"
  /\ \/ /\ Len(wire) < AlarmCapacity
        /\ wire' = Append(wire, thread[t].info.kind)
        /\ thread' = [thread EXCEPT ![t] = AfterBuzz(@.info)]
     \/ /\ Len(wire) >= AlarmCapacity
        /\ thread' = [thread EXCEPT ![t] = Idle]
        /\ UNCHANGED wire
  /\ UNCHANGED <<conn, ended, pipeVars, writelist, alarmQueue, poll, stopped>>

\* connect() returns once the loop knows the pipe.
Connected(t) ==
  /\ thread[t].pc = "wait"
  /\ conn[thread[t].info.pipe] # "made"
  /\ thread' = [thread EXCEPT ![t] = Idle]
  /\ UNCHANGED <<conn, ended, pipeVars, writelist, alarmQueue, wire, poll, stopped>>

\* After ten seconds it raises RPCTimeout, and leaves the pipe to the loop.
ConnectTimesOut(t) ==
  /\ thread[t].pc = "wait"
  /\ conn[thread[t].info.pipe] = "made"
  /\ thread' = [thread EXCEPT ![t] = Idle]
  /\ UNCHANGED <<conn, ended, pipeVars, writelist, alarmQueue, wire, poll, stopped>>

PeerCloses(p) ==
  /\ PeersClose
  /\ conn[p] = "open" /\ p \notin ended
  /\ ended' = ended \cup {p}
  /\ UNCHANGED <<conn, pipeVars, writelist, alarmQueue, wire, poll, stopped, thread>>

-----------------------------------------------------------------------------
(* The polling thread.  One turn of start() writes to the sockets that select *)
(* found writable and then reads from those it found readable.                *)

\* Mutant: the end of a connection takes the alarm off the readlist as well.
ReadableForgetsAlarm ==
  {p \in ended : conn[p] = "open"}
    \cup (IF wire = <<>> \/ \E p \in ended : conn[p] = "closed" THEN {} ELSE {Alarmed})

\* The descriptors of readlist that have something to read
Readable ==
  {p \in ended : conn[p] = "open"} \cup (IF wire = <<>> THEN {} ELSE {Alarmed})

\* select.select(), which refuses a negative descriptor with a ValueError
Select ==
  /\ poll.pc = "select" /\ ~stopped
  /\ writelist \cup Readable # {}
  /\ poll' = IF NoFd \in writelist THEN Dead ELSE Polling("turn", writelist, Readable, <<>>)
  /\ UNCHANGED <<conn, ended, pipeVars, writelist, alarmQueue, wire, stopped, thread>>

\* Mutant: a flush that did not send all is not tried again.
FlushOnce(p, n) ==
  /\ n > 0
  /\ sent' = [sent EXCEPT ![p] = @ \o SubSeq(writeBuf[p], 1, n)]
  /\ writeBuf' = [writeBuf EXCEPT ![p] = SubSeq(@, n + 1, Len(@))]
  /\ writelist' = writelist \ {p}

\* Mutant: what was sent stays in the buffer.
FlushKeepsBuffer(p, n) ==
  /\ n > 0
  /\ sent' = [sent EXCEPT ![p] = @ \o SubSeq(writeBuf[p], 1, n)]
  /\ writelist' = writelist \ {p}
  /\ UNCHANGED writeBuf

\* _event_write: flush_pipe sends n records; the pipe is done when none is left
Flush(p, n) ==
  /\ n > 0
  /\ sent' = [sent EXCEPT ![p] = @ \o SubSeq(writeBuf[p], 1, n)]
  /\ writeBuf' = [writeBuf EXCEPT ![p] = SubSeq(@, n + 1, Len(@))]
  /\ writelist' = IF n = Len(writeBuf[p]) THEN writelist \ {p} ELSE writelist

\* flush_pipe on a connection that is gone reports success, "to stop retries"
FlushFails(p) ==
  /\ p \in ended
  /\ writelist' = writelist \ {p}
  /\ UNCHANGED <<sent, writeBuf>>

EventWrite(p) ==
  /\ poll.pc = "turn" /\ p \in poll.w
  /\ \/ /\ writeBuf[p] # <<>>
        /\ FlushFails(p) \/ \E n \in 1..Len(writeBuf[p]) : Flush(p, n)
        /\ poll' = [poll EXCEPT !.w = @ \ {p}]
     \/ /\ writeBuf[p] = <<>>   \* RuntimeError
        /\ poll' = Dead
        /\ UNCHANGED <<sent, writeBuf, writelist>>
  /\ UNCHANGED <<conn, ended, writeQueue, alarmQueue, wire, stopped, thread, pushed>>

\* recv_records finds the end of the connection: _event_close
EventClose(p) ==
  /\ poll.pc = "turn" /\ poll.w = {} /\ p \in poll.r \ {Alarmed}
  /\ conn' = [conn EXCEPT ![p] = "closed"]
  /\ writelist' = writelist \ {p}
  /\ poll' = [poll EXCEPT !.r = @ \ {p}]
  /\ UNCHANGED <<ended, pipeVars, alarmQueue, wire, stopped, thread>>

\* commands = self._alarm_poll.recv(self.rsize)
ReadAlarm ==
  /\ poll.pc = "turn" /\ poll.w = {} /\ Alarmed \in poll.r
  /\ poll' = Polling("commands", {}, poll.r \ {Alarmed}, wire)
  /\ wire' = <<>>
  /\ UNCHANGED <<conn, ended, pipeVars, writelist, alarmQueue, stopped, thread>>

\* fileno() of a pipe
Fd(p) == IF conn[p] = "closed" THEN NoFd ELSE p

\* _buzz_write_ready: pop_record, which adds a record to the buffer
BuzzWriteReady(info) ==
  /\ info.kind = "write"
  /\ writeQueue[info.pipe] # <<>>
  /\ writeQueue' = [writeQueue EXCEPT ![info.pipe] = Tail(@)]
  /\ writeBuf' = [writeBuf EXCEPT ![info.pipe] = Append(@, Head(writeQueue[info.pipe]))]
  /\ writelist' = writelist \cup {Fd(info.pipe)}
  /\ UNCHANGED conn

BuzzNewSocket(info) ==
  /\ info.kind = "new"
  /\ conn' = [conn EXCEPT ![info.pipe] = "open"]
  /\ UNCHANGED <<writeQueue, writeBuf, writelist>>

Executes(command, info) ==
  \/ command = "write" /\ BuzzWriteReady(info)
  \/ command = "new" /\ BuzzNewSocket(info)

\* for c in commands: data = self._alarm.pop(); switch[c](data)
Command ==
  /\ poll.pc = "commands" /\ poll.commands # <<>>
  /\ alarmQueue # <<>>
  /\ Head(poll.commands) # "stop"
  /\ Executes(Head(poll.commands), Head(alarmQueue))
  /\ alarmQueue' = Tail(alarmQueue)
  /\ poll' = [poll EXCEPT !.commands = Tail(@)]
  /\ UNCHANGED <<ended, wire, stopped, thread, pushed, sent>>

BuzzStop ==
  /\ poll.pc = "commands" /\ poll.commands # <<>>
  /\ alarmQueue # <<>>
  /\ Head(poll.commands) = "stop"
  /\ stopped' = TRUE
  /\ alarmQueue' = Tail(alarmQueue)
  /\ poll' = [poll EXCEPT !.commands = Tail(@)]
  /\ UNCHANGED <<conn, ended, pipeVars, writelist, wire, thread>>

(* pop() of an empty deque, or a command that meets an info of another kind:  *)
(* an exception that is no socket.error ends the polling thread.              *)
CommandFails ==
  /\ poll.pc = "commands" /\ poll.commands # <<>>
  /\ \/ alarmQueue = <<>>
     \/ Head(poll.commands) # "stop" /\ Head(poll.commands) # Head(alarmQueue).kind
  /\ poll' = Dead
  /\ UNCHANGED <<conn, ended, pipeVars, writelist, alarmQueue, wire, stopped, thread>>

CommandsEnd ==
  /\ poll.pc = "commands" /\ poll.commands = <<>>
  /\ poll' = [poll EXCEPT !.pc = "turn"]
  /\ UNCHANGED <<conn, ended, pipeVars, writelist, alarmQueue, wire, stopped, thread>>

TurnEnds ==
  /\ poll.pc = "turn" /\ poll.w = {} /\ poll.r = {}
  /\ poll' = Selecting
  /\ UNCHANGED <<conn, ended, pipeVars, writelist, alarmQueue, wire, stopped, thread>>

\* The loop is left, and every socket closed.
LoopEnds ==
  /\ poll.pc = "select" /\ stopped
  /\ poll' = [poll EXCEPT !.pc = "ended"]
  /\ conn' = [p \in AllPipes |-> IF conn[p] = "open" THEN "closed" ELSE conn[p]]
  /\ UNCHANGED <<ended, pipeVars, writelist, alarmQueue, wire, stopped, thread>>

PollStep ==
  \/ Select \/ (\E p \in AllPipes : EventWrite(p) \/ EventClose(p))
  \/ ReadAlarm \/ Command \/ BuzzStop \/ CommandFails \/ CommandsEnd
  \/ TurnEnds \/ LoopEnds

Buzz(t) == BuzzAppend(t) \/ BuzzSend(t) \/ Connected(t)

Next ==
  \/ PollStep
  \/ \E t \in Threads :
       \/ Buzz(t) \/ ConnectTimesOut(t) \/ StopLoop(t)
       \/ \E p \in AllPipes : PushRecord(t, p)
       \/ \E p \in NewPipes : MakePipe(t, p)
  \/ \E p \in AllPipes : PeerCloses(p)

Spec == Init /\ [][Next]_vars

(* Threads run.  Nothing is assumed of peers, of new records or of timeouts.  *)
Fairness == WF_vars(PollStep) /\ \A t \in Threads : WF_vars(Buzz(t))
FairSpec == Spec /\ Fairness

-----------------------------------------------------------------------------
(* Properties                                                                 *)

(* No record is lost, sent twice or overtaken on its way through the queue    *)
(* and the buffer of its pipe, whichever threads push and however their       *)
(* commands and infos cross.                                                  *)
RecordsInOrder ==
  \A p \in AllPipes : sent[p] \o writeBuf[p] \o writeQueue[p] = pushed[p]

(* The polling thread meets no exception, which nothing in start() would      *)
(* catch: the loop would be over for every connection.                        *)
PollerSurvives == poll.pc # "dead"

OnlyWrites ==
  /\ ended = {} /\ \A p \in NewPipes : conn[p] = "none"
  /\ ~stopped /\ Stop \notin Range(alarmQueue)

(* Pushing records alone never ends the polling thread, from however many     *)
(* threads: "This is called from worker threads, so needs locking.  However,  *)
(* deque is thread safe, so all is good" (push_record).                       *)
WritesAreSafe == OnlyWrites => PollerSurvives

(* An info has no command on its way: buzz() was left by an exception of      *)
(* send(), and from then on infos are popped by commands that are not theirs. *)
InfoLeftOver ==
  Len(alarmQueue) > Len(wire) + Len(poll.commands)
                    + Cardinality({t \in Threads : thread[t].pc = "send"})

(* Every record that is pushed is sent, unless the loop is over before, a     *)
(* connection has ended or the alarm lost a command: "This is handled by      *)
(* arranging to have the function called each time the polling loop responds  *)
(* to self._alarm.buzz" (Pipe.pop_record).                                    *)
RecordsAreSent ==
  \A p \in AllPipes : \A n \in 1..MaxRecords :
    n \in Range(writeQueue[p])
      ~> \/ n \in Range(sent[p])
         \/ ~PollerSurvives \/ stopped \/ ended # {} \/ InfoLeftOver

(* The polling loop gets to know every pipe that connect() makes, unless it   *)
(* is over before or the alarm lost a command: "Wait until polling loop knows *)
(* about new socket".                                                         *)
ConnectReturns ==
  \A p \in NewPipes :
    conn[p] = "made" ~> (conn[p] # "made" \/ ~PollerSurvives \/ stopped \/ InfoLeftOver)
=============================================================================
