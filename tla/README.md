# A TLA+ model of pynfs

pynfs is a test suite for NFS: it drives servers (4.0, 4.1 and a little of 3)
through tests, and brings an NFSv4.1 server and an older NFSv4.0 server of its
own, so that clients can be tested too. What is hard in it is the servers and
the RPC layer they share. They are threaded: `rpc/rpc.py` polls all sockets in
one thread and starts a thread for each record that comes in, so that every
operation of the 4.1 server runs beside every other, with a lock here and there
and many comments that say `STUB - locking?`.

This directory models that code. Each module is translated from the source, not
from the RFCs; where source and its own comments or tests disagree, the model
follows the source and the disagreement is a finding (below).

The files of both servers are read as Python 2, for which they are written
(`StandardError`, `__cmp__`, `__nonzero__`, `itervalues`, strings as bytes):
`list.remove` compares locks by `ByteLock.__cmp__`, and `dict.items()` is a
copy. `rpc/rpc.py` runs under both and is read the same way under either. The
4.0 server was converted in part and does not parse under either at this commit
(`except (ValueError as NFS4Error)`, nfs4state.py:288 and nfs4server.py:736); it
is read as what it was before that. `StubFS_Disk` opens the files of its disk in
text mode, and is read as if it could write pickles to them.

## 1. Inventory

| part | state it keeps | operations | module |
|---|---|---|---|
| Reader/writer lock (`nfs4.1/locking.py`) | three counters, an inner lock, a condition | acquire, acquire_write, release, upgrade, downgrade | `RWLock` |
| Replay cache (`Slot`, `Cache`, `PairedResults`, `handle_1`, `op_compound`, `op_sequence`) | a seqid and a cached reply per slot | check_seqid, execution, filling the cache, replays that wait | `ReplayCache` |
| Calls of the 4.1 client (`nfs4client.SessionRecord`, `SendChannel`, `rpc.RpcPipe`) | slots of a session, xids, `_pending` | compound with its retries, send_call, listen with a timeout, rcv_reply | `ClientCalls` |
| Clients and sessions (`ClientList`, `ClientRecord`, `SessionRecord`, `NFS4Server.sessions`) | two dictionaries and a list that refer to each other | EXCHANGE_ID (nine cases), CREATE_SESSION, DESTROY_SESSION, client_reboot, injected session errors, reboot | `ClientSessions` |
| Opens, locks and delegations (`nfs4.1/nfs4state.py` and the operations on it) | trees of entries per file, an index per client, the cached share union, anonymous counters, slots of the back channel | OPEN, CLOSE, LOCK, LOCKU, DELEGRETURN, SETATTR, READ, WRITE, recalls, reboot of a client | `FileState41` |
| File system objects (`nfs4.1/fs.py` and the operations on it) | names, link counts, change counters, data, ids; the same on disk | CREATE, LINK, LOOKUP, OPEN, REMOVE, RENAME, WRITE, COMMIT, CLOSE, crash and restart | `FileSystem41` |
| Polling loop (`ConnectionHandler`, `Alarm`, `Pipe`) | socket lists, a deque of infos with a command per byte, write queues and buffers | push_record, connect, stop, the `_buzz_` and `_event_` functions | `PollLoop` |
| Record marking (`Pipe.pop_record`, `recv_records`) | buffers on both sides of a connection | cutting records into fragments, joining them | `RecordMarking` |
| NFSv4.0 server (`nfs4.0/nfs4state.py`, `nfs4server.py`) | clients with their confirmation, owners with sequence ids and cached answers, stateids, shares, POSIX locks, leases | SETCLIENTID to LOCKU, READ and WRITE, one request at a time | `LockLists40`, `ServerState40`, `Server40` |
| pNFS (`dataserver.py`, `block.py`, layouts in `fs.py`) | data server sessions, volumes, layouts | retries, volume arithmetic | planned |
| Callbacks (`cb_compound_async`, `NFS4Client.op_cb_*`) | hooks, slots of the back channel | CB_SEQUENCE, CB_RECALL | planned |
| Test runner (`nfs4.1/testmod.py`) | tests and their dependencies, results | runtests, _runtree, Test.run | `TestRunner` |
| Proxy, configuration, NFSv3, XDR compiler, the tests | | | not modelled, see `components` in PROJECT.json |

How they interact. The polling thread receives bytes, `RecordMarking` turns
them into records, a new thread runs the record. A reply goes to the caller that
waits for its xid (`ClientCalls`). A call goes to `handle_1`, which runs the
operations of the COMPOUND. SEQUENCE looks up a session (`ClientSessions`) and
asks its slot (`ReplayCache`) whether the call is new. Operations on open files
find an entry under a stateid and hold the lock of the file (`FileState41`);
operations on directories take the directory's `RWLock`, or should
(`FileSystem41`). The reply is pushed to the pipe, and the `Alarm` tells the
polling thread (`PollLoop`). Callbacks go the other way on the same connection,
from threads that recall delegations. A change of the configuration, or the
reboot of a client, removes clients, sessions and state while all this goes on.
The 4.0 server stands alone: an older RPC layer calls it from one thread. The tests that
drive servers are run by `TestRunner`.

What is hard:

- threads that run the same request, or two that undo each other's work
  (replays, DESTROY_SESSION twice, OPEN against client reboot, two CREATEs of
  one name);
- state that is looked up without a lock and used later (client records in
  CREATE_SESSION, stateids in `find_state`, pipes in worker threads, the change
  counter in `sync`);
- two steps that must stay together (`Alarm.buzz`: the info, then the byte; an
  object and its name on disk);
- wake-ups: the condition of `RWLock`, a replay that waits for a cache, connect()
  that waits for the loop, a caller that waits for a reply;
- requests and replies that are lost, repeated, late or reordered, and
  connections that end under them; delays and retries; leases that run out;
- crashes between the write of an object and that of its directory;
- wrap-around of sequence ids, edges of byte ranges, of fragments and of buffers.

The list, each at its line, is under `hazards` in PROJECT.json.

What makes each part correct, in a sentence: the RWLock excludes and forgets no
waiter; a call is carried out once and every reply is its own; a caller gets the
reply to its own call and is told the truth; the tables of clients and sessions
agree with each other; opens, locks and delegations that exclude each other never
coexist; what the server said is made or stable survives a crash; records are
sent once, in order, and the loop survives; records come out as they went in; a
lock list says of each byte what its owner asked last; every test runs once, after
what it depends on, and every result has its reason.

## 2. The modules

### RWLock, AbstractRWLock, MCRWLock, RWLock_proofs

One action per method. A method body is one `with self._cond` block, so it is
atomic up to its first `wait()`; `at[t]` says which of the three wait loops a
thread is in, and `Retry` is one turn of that loop by a woken thread.
`_read_lock`, `_read_count`, `_write_count` and `_write_lock` are `readLock`,
`readCount`, `writeCount` and `writeLock`. `release()` does not know its caller;
it decides by `_read_lock > 0`, which is why `ReleaseRead` and `ReleaseWrite` are
guarded by the counter and not by `at[t]`.

`AbstractRWLock` is what the docstring promises: ask, be granted, release, with
preference for writers. `mode` is the refinement mapping.

### ReplayCache, ExactlyOnce, MCReplayCache, ReplayCache_proofs

A `Slot` has a seqid modulo `SeqMod` and a sequence of Caches, the last of which
is `replay_cache`: a thread that got `NFS4Replay` keeps the Cache it was given,
even when the slot has moved on. A thread goes through `ops` (one operation a
step; SEQUENCE and CREATE_SESSION run `check_seqid`), `finish`, `fill` (the reply
is coded and the cache becomes valid), `wait` (a replay that waits for it) and
`send`. The client, the network and the reset of connections are external; the
client keeps the protocol: it uses the next seqid after the reply to the last
call and retransmits the same request. `ExactlyOnce` is what the client is to
see of it: asked, carried out once, answered with the outcome, or with
RETRY_UNCACHED_REP; a COMPOUND with a CREATE_SESSION inside a session is a call
of two slots that are asked, carried out and answered at once.

### ClientCalls, MCClientCalls, ClientCalls_proofs

The other end: threads that share a session. `caller[c].pc` walks through
`compound` as it is written: `_prepare_compound` (choose_slot, get_seqid),
send_call (`_get_xid` and `_pending`), listen, `update_seq_state` with
`finish_call`, and the loop for NFS4ERR_DELAY. `pending` maps an xid to a
`DeferredData`, `deferred` are these objects by order of creation. `rcv_reply`
runs in threads of its own and is two steps, the lookup in `_pending` and the
filling of what it found, so that replies cross each other. The server is
external, a slot that keeps the protocol as `ReplayCache` says; it delays,
denies, answers twice, or is lost.

### ClientSessions, MCClientSessions, ClientSessions_proofs

`record` and `session` are the objects by order of creation; `byOwner` and
`listed` are the two kinds of keys in `ClientList._data`; `sessions` is the
server's dictionary. Steps of a handler end where another thread can see, or
change, what it reads next: CREATE_SESSION looks up, confirms, builds,
appends to `c.sessions` and publishes; DESTROY_SESSION deletes and then removes
from the list; `client_reboot` goes through `c.sessions` by index, as iteration
over a Python list that changes does. A `KeyError` or `ValueError` ends the
operation with SERVERFAULT and leaves what was done.

### FileState41, MCFileState41, FileState41_proofs

The state of one file. `entry` are the `StateTableEntry` objects in the order of
their creation, `tree` those in the trees of the file and `known` the
`client.state` dictionaries: three things that CLOSE, DELEGRETURN and the reboot
of a client change differently. CLOSE takes a share out of the tree alone (its
key may by then be another entry's), DELEGRETURN out of both, a reboot out of
both for shares and locks and out of `client.state` alone for delegations.
Handlers hold the lock of the file to their end and are one step, but for the
lookup of the stateid (`FindState`), the lookup of the client (`OpenFile`) and
SETATTR, which changes the file after it gave the lock up. A recall thread takes
no lock until it has its answer. `stuck` is the lock left taken by
`state.release()` (line 69).

### FileSystem41, MCFileSystem41, FileSystem41_proofs

One directory, its files, and their disk. A handler is a list of steps (`todo`),
one for each thing that another thread, or a crash, can come between: testing a
name, taking an id, linking, and the three parts of `sync()` (the object's m_
file, its d_ file, `_last_sync`). `object` has `change`, `_last_sync` and
`refcnt`; `version` stands for the data of a file. `Crash` loses memory and
threads; `Restart` reads the objects back as `_find` does, on demand.

Which requests run beside others is the constant `Overlap`. OPEN, REMOVE and
RENAME take no lock of the directory ("BUG fs locking"), and with them in
`Overlap` TLC refutes `NamesAreKept`, `StableDataIsOnDisk` and `LinksAgree`; the
run keeps them alone, and lets those overlap that lock what they change, which is
where the locks, the order of the syncs and crashes are the question.

### PollLoop, MCPollLoop, PollLoop_proofs

The polling thread is `poll` (the `select`, the write and read events of one turn,
the commands it has read), the others are at `append`, `send` or `wait` of
`Alarm.buzz` and `connect`. `_buzz_` handlers are guarded by what they need; when
a command is given an info of another kind, `CommandFails` is the exception that
ends `start()`. Sockets of the Alarm have a capacity, at which `send()` raises.

### RecordMarking (proved in PollLoop_proofs)

Both ends of one connection. A byte is its record and place; a mark is four
bytes that stand for its 32 bits. `add_record_marks` is cut turn by turn: each
turn of its loop (`AddMark`) puts one fragment behind the last. The loop, and the
`flush_pipe` that follows, run in the polling thread, which does nothing else
meanwhile; only the receiver and the network come in between. TCP takes and
gives any number of bytes. The proof of `RecordsIntact` is the second part of
`PollLoop_proofs`, where the module is instantiated with names of its own.

### LockLists40, ServerState40, Server40, MCServer40

The 4.0 server handles one request at a time, so that its operations are
functions: `Serve(s, req)` gives the state after it, the status and the stateid.
What is hard here is not interleaving but history: replays and seqids, clients
that reboot or whose lease runs out, state that is removed while it is searched.

`LockLists40` is the list of ranges of one owner (`addposixlock`,
`removeposixlock`, `__removerange`): split at both ends, drop what lies inside,
join what meets. `ServerState40` is `NFSServerState` with the `NFSFileState` of
each file: clients by confirmation, `info` and `owners`, `state` (the stateids by
their id), shares and locks by that id. `Sequenced` is the frame of every
operation with a seqid: check, replay or carry out, keep the answer. `FAULT`
stands for an exception other than NFS4Error: what was changed before it stays.
`held` is history, byte by byte what an owner asked for, the reference the lists
are compared with. `Server40` adds the clients, the loss of answers, late copies,
leases and reboots.

### TestRunner, MCTestRunner, TestRunner_proofs

`stack` holds the calls of `_runtree`, each with the dependency it is at; a step
is what happens between two of them. `FILTERED` is `_omit_result`, which the code
tells from other OMITs by its identity: only it is tried again with --rundeps.
The suite, the selection of `run_filter` and the options are chosen in Init.

### Composition

`ExactlyOnce` is the contract between client and server: `ReplayCache` implements
it, and the external server of `ClientCalls` is a slot that keeps it. The
composed state spaces are beyond a run (each half is near a million states), so
the two meet at that contract and not in one module. `Server40` composes the 4.0
state with its clients in one module, since both ends are sequential.

## 3. The runs

Where one question needs several small instances, a variable chosen in Init
(`workload`, `scenario`) picks one of the set given in the MC module, so that one
run covers them all.

| run | what is in it | what it shows |
|---|---|---|
| RWLock | 4 threads | `Exclusion`, `Counters`, `NoLostWakeup`, `WriterPreference`, `ImplementsAbstract`, and with fairness `WritersGetIn` |
| Replay | 2 threads, seqids modulo 3, 2 transmissions of a call: 1 slot with 3 calls, or 2 of which replies are kept or not, and 1 reset; CREATE_SESSION alone and inside a session, 2 calls on each slot | `AtMostOnce`, `AnswersItsRequest`, `ImplementsExactlyOnce`; `ReplayEnds` |
| Calls | 2 callers, 2 slots, 2 compounds, 2 retries, seqids modulo 3, 2 faults | `RepliesMeetTheirCalls`, `TellsWhatHappened`, `SlotsInStep`; `EveryCallEnds` |
| Clients | 1 thread with 2 principals and 3 clients; 2 and 3 threads with 2 clients and up to 3 sessions; reboots | `NoServerFault`, `SessionsAgree`, `TablesAgree`, `RebootSkipsNoSession` |
| Clients_lockout | 2 threads | refutes `OwnerCanReturn` |
| State | opens: 2 threads, 2 clients, 3 entries, 3 kinds of OPEN, delegations, recalls, reboots; locks: 1 thread, 2 clients with 2 open and 2 lock owners, 4 entries, two ranges that share a byte | `SharesCompatible`, `AnonWriteExcludesDeny`, `LocksAreSound`, `OpenWaitsForDelegs` |
| Files | 2 threads, 2 names, 3 files, 5 requests, 1 crash | `NamesAreKept`, `StableDataIsOnDisk`, `LinksAgree`, `IdsNeverReused` |
| Poll | 2 threads, a connection and a new one, 2 records, alarm of 2 bytes, peers close, stop() | `RecordsInOrder`, `WritesAreSafe`; `RecordsAreSent`, `ConnectReturns` |
| Marking | records of 0 to 5 bytes in fragments of 2, any cuts, reads of up to 7, the connection may end | `RecordsIntact`, `RecordsArrive` |
| Server40 | six scenarios: clients that begin; two that lock and close one file; anything two may ask; lock owners that split and join ranges; a client that reboots; one that tests a lock of a second file and closes it | `LocksAreBytes`, `LocksCompatible`, `StateUnderOpens`, `AtMostOnce`, `SeqidsInStep` |
| Runner | every suite of 3 tests with up to 2 dependencies each (tests, functions), every selection, both options, an interruption | `DependenciesRunFirst`, `ResultsHaveReasons`; `RunEnds` |
| Server40_close | 1 client, two lock owners, CLOSE | refutes `CloseReleasesLocks` |

Bounds, and why they are enough.

- RWLock: with four threads one can be in each wait loop while another holds
  the lock; the proofs cover every number.
- Replay: the cache can answer for one call only, so a call, its copy and the
  call after it are all that can meet on a slot; with seqids modulo 3 the third
  call wraps around. (Modulo 2 a retransmission of the last call and the next
  one would be the same number, which the protocol excludes by its 2^32.)
- Calls: two callers and two slots are a slot of one's own and one that the
  other gives back; two faults are a late reply and what it can be taken for.
  With 2 retries the last one is not the first; the code has 10.
- Clients: every pair of handlers meets with two threads; the third is there so
  that a client reboots between the two steps of another pair. Three clients are
  a first, its replacement and the replacement's.
- State: with two clients, one entry each and a third for the delegation, all
  pairs of share, delegation and recall occur. Locks need two owners that have
  no name in common, which takes two shares and two lock lists; one thread is
  enough there, since every lock handler holds the lock of the file.
- Files: two names and three files are a rename over another file and a name
  that comes back with a new id; five requests are two of each of two threads
  and one that looks, before and after the crash; what the crash left is read
  back and worked on by the requests that remain.
- Poll: two records on one pipe can cross each other and a connect; an alarm of
  two bytes is full when a third comes.
- Marking: five bytes in fragments of two are one, two or three fragments, with
  and without a rest.
- Runner: three tests are a circle of two and one that depends on it, or a
  chain; the second dependency is the one that a test may or may not get to.
- Server40: three or four requests after the state a scenario begins with; a
  lock of three bytes is split in three, joined again, and met at an end; a lock
  owner gets to a second open file by a LOCK and a LOCKT, and two CLOSEs are left
  to see what becomes of its locks. Seqids
  modulo 16 start at 15, so that open owners wrap around and none comes back to
  a number it used.

The runs have up to two million states and take up to three minutes with two
workers. Symmetry is used in safety runs only, over sets no property or action
distinguishes.

`CHECK_DEADLOCK FALSE` where the model may stop: clients that have made all their
calls, a loop that was stopped, a bound that is reached, a file whose lock stays
taken. RWLock and the runs of ClientSessions never stop, and are checked for it.

Every property of a passing run has a mutant, a plausible error in the code
(named `Mutant` where it is defined) that makes TLC refute it.

## 4. Fairness

- RWLock: a woken thread runs again, and who has the lock gives it back
  (`finally` clauses around every acquire of the server). Nobody needs to ask.
- ReplayCache: the threads of the server run. The network, the client and the
  arrival of requests are not fair; `ReplayEnds` says nothing of replies, only
  that a thread that waits for a cache does not wait for ever.
- ClientCalls: each caller runs, and its timeout is a step of its own. The
  server need never answer and the network never deliver: `EveryCallEnds` rests
  on the timeout and on the bounded number of retries alone.
- PollLoop: the polling thread runs, and a thread in `buzz` ends it. Peers and
  timeouts are not fair. Weak fairness of the loop is enough: a turn of it
  writes to every socket that is writable, so none waits for another.
- RecordMarking: both loops run (`AddMark \/ Flush` on one side, `Receive` on the
  other) and TCP delivers what it took.
- TestRunner: the one thread runs, and a test ends.
- The other modules claim safety only.

## 5. Proofs

Each `*_proofs` module holds the theorems about one component. All have the same
plan: an inductive invariant `IInv`, a conjunction of named parts, checked by TLC
first; a lemma that `Init` gives it; a lemma for each action that keeps it; the
theorem `Invariance` (`Spec => []IInv`); and the properties of the runs as
theorems that follow from it. (`FileSystem41` has three layers, `DataOK`,
`NamesOK` and `CountOK`, each on top of the one before; `ClientSessions` has
`AloneOK` on top of `IInv`, and `TestRunner` `ReasonsOK`.) They hold for every value of the constants that the
module's named assumption allows, with no bound on threads, slots, clients, locks
or records.

| module | theorems | assumption |
|---|---|---|
| RWLock_proofs | `TypeCorrect`, `MutualExclusion`, `CountersRight`, `NoWakeupLost`, `WritersFirst`, `Refinement` | finitely many threads |
| ReplayCache_proofs | `ExactlyOneExecution`, `OwnAnswers`, `Refinement` | the slot of CREATE_SESSION is not a slot of the session; sequence ids have a modulus above one |
| ClientCalls_proofs | `EveryReplyMeetsItsCall`, `CompoundTellsTheTruth`, `FreeSlotsAreInStep` | a slot, a retry, a modulus above one; "no reply" is not a reply |
| ClientSessions_proofs | `TablesStayInAgreement`, `RebootMissesNoSession`, `OneByOneInvariance`, `OneByOneHasNoFault`, `SessionsStayInAgreement` | finitely many threads; "nobody" is no thread and no number |
| FileState41_proofs | `OpensAreCompatible`, `NoOpenDeniesTheWriter`, `LocksStaySound`, `OpensWaitForDelegs` | byte ranges begin before they end; every OPEN asks for some access |
| PollLoop_proofs | `RecordsKeepTheirOrder`, `PushingIsSafe`, `RecordsStayIntact` | the alarm's descriptor is no connection's, and takes a byte at least; fragments and reads have a byte at least |
| FileSystem41_proofs | `NoIdIsReused`, `MemoryAndDisk`, `StableDataIsSafe`, `NamesAndDisk`, `NamesSurvive`, `NamesStandForObjects`, `CountsAndNames`, `LinksKeepAgreeing` | finitely many threads and names, "no thread" is no thread; the root's id can be given out |
| TestRunner_proofs | `DependenciesComeFirst`, `ReasonsStay`, `EveryResultHasItsReason` | a function is no test; what comes of a test is one of its results |

**RWLock.** Exclusion is not inductive alone. A writer gets in when `_read_lock` is 0,
which means no reader only while the counters are exact; they are exact only while
`release()` guesses its caller's mode right, which it does only while a reader
and a writer never have the lock together. And the inner loop of
`_acquire_write` never looks at `_read_lock` again, so no reader may get in while
a writer is there. `IInv` is therefore the conjunction of `TypeOK`, `Counters`,
`Exclusion`, `InnerLoopHasNoReaders` and `NoLostWakeup`. The last needs the
others for `upgrade()`, which gives a read lock up and notifies nobody: the
writers that wait for readers then wait for the upgraded thread, whose release
wakes them. The proof counts threads: `CountMove` says what moving one thread does
to the size of a set of places, `ZeroCounts` that a counter of 0 means an empty
set. `LegalMove` says which moves keep counters and exclusion, `Sleepers` which
keep every sleeper something to wait for. `Refinement` uses the invariant to show
that a reader is granted only when nobody has or wants to write.

**ReplayCache.** That a call runs once rests on what a sequence id says: the slot
has accepted all calls of the client but perhaps the last (`InStep`), and every
transmission in flight is so recent (`Recent`) that its id, modulo `SeqMod`, tells
which call it is of. `Told` says what any transmission of a call may be answered;
`CachesOK` says it of every filled cache and every transmission in flight,
`ThreadsOK` of every thread, each at its place in the COMPOUND, and that one
thread at most has work of a call before it. `Refinement` maps a slot to
`ExactlyOnce`; the step that carries work out and the one that makes a session
are the abstract step, all others stutter or are the client's. `Recent` was not
inductive at first: the client of the model could send a call again, once
sequence ids had come round, whose request it still held inside another COMPOUND.
`Free` therefore looks at the calls that wait (`Waiting`) beside the requests in
flight; with ids modulo 2^32 no call waits that long.

**ClientCalls.** `XidsOK`: an xid is of one call, and leads to its DeferredData as
long as somebody listens. `SendsOK`: of a send there is a request, or replies,
never both. `RequestsOK` and `CallersOK` say what the caller of a compound may
believe of it at each place in the loop, `SlotsOK` what the two ends of a slot
know of each other, for slots that are not `adrift`. `begun` counts the compounds
of all callers, which the bound is about.

**ClientSessions.** `TablesAgree` is about tables that several threads change with
no lock, so `IInv` is mostly about the threads: those before place i of the list
that client_reboot goes through are gone for good (`DiscardOK`), though
DESTROY_SESSION and CREATE_SESSION change the list under it; of two threads that
create a session of one client, one only gets past the confirmation
(`PairOK`, by the sequence id), and a session that is on its way to
`self.sessions` is in nobody's hands but its own thread's. While a client is
listed, its sessions have different ids (`SeqidsOK`).

`NoServerFault` and `SessionsAgree` are about a server that works on one operation
at a time, and rest on more than `IInv`: every session in the list of a listed
client can be used, but the one the operation at hand is taking away (`Gone` says
at which place of which handler), and no list has a session twice. Then
`sessions[sid]`, `c.sessions.remove` and the two deletions in `client_reboot` find
what they expect. An unconfirmed client that is replaced has no session to leave
behind, since every session belongs to a confirmed client. With two threads all
of this is false, as `Clients_lockout` shows.

**FileState41.** `OPEN` tests a share against a cached union of all shares.
`SharesCompatible` needs `CacheOK`, that a valid cache leaves out no open (it may
contain closed ones); `AnonWriteExcludesDeny` needs nothing but itself, as the
counter and the denying open are both tested under the lock. `LocksAreSound`
needs lemmas about the lists: a lock that is put in the place of the first one of
its range, or removed, leaves the others where they are relative to each other.

**PollLoop.** `RecordsInOrder` is inductive with the types, and holds even when
commands and infos cross. `WritesAreSafe` is about runs that only push, and counts:
the deque has at least as many infos as there are commands on the alarm, in the
hands of the loop, and of threads that have appended and not yet sent
(`CommandsHaveInfos`); a pipe on the write list has a buffer that is not empty.

**RecordMarking.** The stream is described from both ends at once. A place is a
record and how far into it the cutting has come. `MarkingInv` says that there is a
sequence of places, the first the receiver's and the last the sender's, each
following the one before by one fragment, and that the bytes on the way (marked so
far, in the write buffer, in the connection, in the read buffer) are these fragments with
their marks, one behind the other. A turn of `add_record_marks` appends a place; a
fragment that is taken drops the first; flush, TCP and `recv()` move bytes and
change nothing. So no step needs induction over the stream, nor a function that
parses it. That the last fragment of a record, and no other, has the high bit of
its mark set is what keeps records apart (`LastAt`), and what the mutant breaks.

**TestRunner.** What a call of `_runtree` has found out about the dependencies it
passed (`FrameOK`) must stay true while others run deeper down: a result is
changed only while it is NOTRUN, WAIT, RUNNING or, with --rundeps, FILTERED
(`Tried` excludes these), and the tests of the stack wait, each in one call
(`StackOK`), so that none is called twice.

`ResultsHaveReasons` is about the end of a run, and `ReasonsOK` about every moment
before: a result that is there has its reason, and keeps it, since the results a
reason rests on (`Tried`, `Failed`, `Called`) change no more. What is hard is WAIT.
A test that a call has left waiting depends on one that was left waiting too, but
while a call has just met a circle: the test it left waiting depends on one that is
still on the stack (`Doomed`). `ChainOK`, that each call waits for the next, makes
it certain that the calls above return the same way. At the end the stack is empty,
and the waiting tests are themselves the set that `Circular` asks for: no path has
to be followed.

**FileSystem41.** All but `NoIdIsReused` say `Locked => ...`: OPEN, REMOVE and
RENAME, which lock nothing, are kept alone, as in the run (section 2); any of the
others overlap. `NoIdIsReused` needs no such thing, only that `alloc_id` writes the
next id to disk before it gives it out. `DataOK` is about one object at a time: where
change and `_last_sync` agree the disk has the data (`LoadedOK`, `Stored`), which
`sync()` relies on when it does nothing, and a handler that is between store and
mark has its object to itself (`Exclusive`), so that `_last_sync` does not take up
a change that was not written. A file is `Safe` when it can be read
back, after the crash that may come too. `NamesOK` relates directory and
objects: what the directory in memory names is safe or still in the hands of the
CREATE or OPEN that made it (`InMaking`); on disk it is safe, because no handler
syncs the directory before the new object; and when the directory's change and
`_last_sync` agree, every entry is on disk (`DirStored`), so that a
`dir.sync()` that is skipped promises nothing false. The lemmas follow a handler
through its steps (`todo`), which is what the shapes `Choosing`, `Linked`, `Written`
and `Made` are for.

`CountOK` compares `refcnt` with the names of an object, before any crash. A count
lags its names by one at most (`Lag`): while one handler is between the entry and
`refcnt += 1`, or between `refcnt -= 1` and the deletion of the name. To show that
none gets lost, the invariant knows what is left to do of each handler:
`Chained`, that the steps in its `todo` lead to each other (an entry is counted
next, what is counted down is deleted two steps later), and `Knows`, that what it
read of the object is still so. A handler that links or unlinks is the only one
that does, or has the directory's lock.

Only model-checked, and why:

- liveness (`WritersGetIn`, `ReplayEnds`, `EveryCallEnds`, `RecordsAreSent`,
  `ConnectReturns`, `RecordsArrive`, `RunEnds`): fairness and ENABLED are out of
  the prover's reach;
- `LocksAreBytes` and `LocksCompatible`: the lock lists of the 4.0 server are
  sorted, split and joined by folds over lists of any length, which needs
  induction over data;
- `AtMostOnce` and `SeqidsInStep`: they hold for as long as seqids do not come
  round to a number of which a copy is still on its way. The run is shorter than
  `SeqidMod`; for every run of any length they are not true of the code;
- `StateUnderOpens`: it excepts by name what CLOSE and an expiry leave behind, and
  its invariant would have to say what each of some fifteen handlers does to
  five dictionaries. It was also simulated with larger bounds.

## 6. Findings and known deviations

Two runs refute what tests of the repository say of its servers:

- `Clients_lockout`: a client that reboots while one of its CREATE_SESSIONs is
  between `c.sessions.append` and `self.sessions[...] =` meets a KeyError, and
  can never come back.
- `Server40_close`: CLOSE in the 4.0 server removes lock owners from the list it
  goes through and skips every second one, whose locks stay for ever.

Others that the modules show by what their properties except, or have as
actions, and that are no runs.

RPC and replay:

- CREATE_SESSION inside a session overwrites `env.cache`
  (nfs4.1/nfs4server.py:936): the cache of the SEQUENCE is never filled, and a
  retransmission waits for ever (`cache.valid.wait()` has no timeout, :726).
  `ReplayEnds` excepts it;
- an exception in `handle_1` after the operations (a connection that was reset,
  line 851) leaves the cache empty for ever: `ReplayEnds` excepts resets;
- two threads in `Alarm.buzz`, one of which is in connect(), cross: a command
  takes the other's info (`CommandFails`) and the polling thread ends
  (rpc.py:184), for which the comment at rpc.py:291 sees no reason to lock.
  `ConnectReturns` and `RecordsAreSent` except it;
- a pipe that was closed under a thread puts -1 into the write list, and
  `select` refuses it: `WritesAreSafe` excepts closed connections;
- a full alarm loses a command: `InfoLeftOver`;
- the client gives a slot back before it repeats a SEQUENCE that was itself
  delayed, although the comment at nfs4client.py:543-545 says that the slot must
  not change: another thread may take it, and one of the two is answered from the
  other's cache. `adrift` marks these slots, and without it `TellsWhatHappened`
  is violated;
- a timeout and a denied call leave slot and `_pending` entry taken for good, and
  after its last retry `compound` takes one slot more; enough of them and the
  session is out of slots (`outOfSlots`);
- `compound` pops its keywords out of the dictionary that it saved for the retry,
  so that a retry does not ask for `cache_this` (not modelled: no property is
  about it).

The 4.1 server:

- a session created while its client reboots belongs to nobody;
- `find_state` calls `state.release()`, which does not exist, when it meets an
  entry that was removed: the file is locked for good (`FoundInvalid`);
- CLOSE leaves the cached share union as it is, so that a closed open still
  denies; and it leaves its stateid valid, so that the stateid closes a later
  open of the same owner;
- a client's delegations survive its reboot in the tree of the file, where no one
  can return them;
- `find_conflicts` overlooks the locks of keys that agree in any part: two lock
  owners of one client can both lock a range for writing;
- a recall keeps its slot of the back channel when the delegation is returned
  first or the client does not answer;
- OPEN, REMOVE and RENAME lock no directory, and OPEN's `existing.sync()` runs
  beside a WRITE that holds the lock of the file's state, against the docstring of
  `FSObject` (fs.py:40-45). `Overlap` keeps them alone (section 2);
- `unlink` counts `refcnt` down without touching the change counter, so that
  `sync` skips the object, and REMOVE and RENAME are not on disk when they are
  answered: after a crash a count can be wrong, even -1. `LinksAgree` compares
  counts until the first crash only. LINK and RENAME sync the directory and never the object.

The 4.0 server:

- `__testlock` that finds a lock of an expired client removes the client's state
  and looks at no other lock, so that a conflicting one is granted; if the client
  is the asking one, it goes on with ids that are gone (KeyError) and leaves a lock
  of nobody, which makes later requests fail (`Is("expiry", ...)`);
- an open that is not confirmed gives way to the next OPEN, but `open()` looks for
  its share in the new file (`Is("pending", ...)`);
- the first OPEN of an owner, when it fails, leaves an owner that answers
  BAD_STATEID for ever;
- SETCLIENTID_CONFIRM of a callback update resets the seqids, after which delayed
  copies run again; with the verifier of the confirmed entry it confirms the
  update that is pending;
- LOCK of a new lock owner caches its status only, and a replay gets OK without
  a stateid (FIXME in the source; st_replay.py tests it); an answer BAD_SEQID
  replaces the cached answer;
- LOCKT for a second file gives a lock owner two files for real (the FIXME at
  nfs4state.py:580 asks whether it should): CLOSE of the second takes the owner out
  of the lock owners of its open owner and makes it unconfirmed, though it holds
  locks of the first, so that its seqids restart and a later CLOSE of the first
  leaves its locks (`Is("dropped", ...)`); and `remove_state` raises "Too many
  files";
- OPEN_DOWNGRADE of a closed stateid raises; LOCK takes an old stateid of its
  open, where st_lock.py (testOldOpenStateid) expects OLD_STATEID.

## 7. Not modelled, and the plan

Left out of modelled parts: in `FileSystem41` attributes other than the size,
READDIR and its cache, mounts, requests that name two directories, access checks
and `StubFS_Mem`; `_find` is one step. In `FileState41` layouts, the seqids of
stateids and current stateids. In the 4.0 server exclusive and guarded OPEN,
reserved stateids, locks that are not POSIX, stateids that come with another
file's handle, READW and WRITEW locks, file handles, ACLs and attributes. In
`PollLoop` listening sockets. Security flavours everywhere: none of them changes
state that the modelled parts share.

The test suites, more than half of the Python in the repository, are straight-line
scripts against whatever server they are given: they have no state of their own to
check, and are read here for what they say of the two servers. Of the rest, XDR
and its compiler, attribute tables, options and reports convert and print.

Done, in this order: RWLock with its proofs, ReplayCache, ClientSessions,
PollLoop, RecordMarking, FileState41, ClientCalls, FileSystem41, the 4.0 server,
TestRunner.

Next, most important first:

1. Callbacks: `cb_compound_async` and the client's CB_SEQUENCE beside the calls of
   `ClientCalls`, with hooks that come before the reply they belong to.
2. Layouts and data servers: LAYOUTGET to LAYOUTRETURN (fs.py), the reset loop of
   `DataServer41._execute`, striping, and the volume arithmetic of `block.py`
   against a reference definition. The reset loop counts nothing: a data server
   that keeps answering with a state error is reset for ever (dataserver.py:103).
3. The GSS window of `rpc/security.py` and `SSVContext`.

Theorems worth proving next: `StateUnderOpens` of the 4.0 server, over its five
dictionaries; `SplitAt` of `LockLists40`, which changes one place of a list and
needs no induction; and `LinksAgree` after a crash, once `unlink`
counts as a change. Liveness and `LocksAreBytes` as a whole stay with TLC. No
module uses RECURSIVE.

## 8. Running

    tlc -workers 2 -config RWLock.cfg MCRWLock
    tlc -workers 2 -config Replay.cfg MCReplayCache
    tlc -workers 2 -config Calls.cfg MCClientCalls
    tlc -workers 2 -config Clients.cfg MCClientSessions
    tlc -workers 2 -config State.cfg MCFileState41
    tlc -workers 2 -config Files.cfg MCFileSystem41
    tlc -workers 2 -config Poll.cfg MCPollLoop
    tlc -workers 2 -config Marking.cfg RecordMarking
    tlc -workers 2 -config Server40.cfg MCServer40
    tlc -workers 2 -config Runner.cfg MCTestRunner
    for m in *_proofs.tla; do tlapm $m; done
