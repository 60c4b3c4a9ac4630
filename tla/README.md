# TLA+ models of core-hiendm

core-hiendm is a Java framework for small services. A cache server keeps its
data in memory and a commit log on disk; services talk to it and to each other
over a Netty connector in which every message is handled by an Akka actor; an
HTTP server, a fork of the JDK's, feeds requests from browsers into the same
connector; on top sit a single sign-on service and a front end. There is no
documentation and there are no tests, so the models are translated from the
code alone.

This directory holds TLA+ modules for the parts whose correctness depends on
the order in which threads, actors, timers and crashes interleave, TLC
configurations that check them on small instances, and TLAPS proofs.

## Running it

    tlasany HiCacheRpc.tla
    tlc -config MCHiCacheRpc.cfg MCHiCacheRpc
    tlapm HiCacheRpcProofs.tla

| run | module, cfg | distinct states | time, 2 workers |
| --- | --- | --- | --- |
| rpc_safety | MCHiCacheRpc, MCHiCacheRpc.cfg | 4.8 M | 180 s |
| rpc_liveness | MCHiCacheRpc, MCHiCacheRpcLive.cfg | 0.4 M | 95 s |
| log_safety | MCHiCacheLog, MCHiCacheLog.cfg | 7.1 M | 85 s |
| log_liveness | MCHiCacheLog, MCHiCacheLogLive.cfg | 0.6 M | 45 s |
| session | MCHiCacheSession, MCHiCacheSession.cfg | 0.9 M | 60 s |
| sequence_safety | MCHiCacheSequence, MCHiCacheSequence.cfg | 1.2 M | 16 s |
| framing | MCFraming, MCFraming.cfg | 0.2 M | 20 s |
| link | MCNettyLink, MCNettyLink.cfg | 0.7 M | 170 s |
| http | MCHttpLifecycle, MCHttpLifecycle.cfg | 0.7 M | 130 s |
| http_read_timer (violated) | MCHttpLifecycle, MCHttpReadTimer.cfg | - | 1 s |
| http_stop_accepts (violated) | MCHttpLifecycle, MCHttpStop.cfg | - | 1 s |
| user_table | MCUserTable, MCUserTable.cfg | 1.0 M | 40 s |

Paths below are relative to `src/`. Two prefixes are abbreviated: *server* is
`hi-cache/hi-cache-server/src/com/hh/cache/process/server/`, *client* is
`hi-cache-client/hi-cache-client/src/com/hh/cache/process/client/`.

## Inventory

### hi-cache-client (913 lines)

*State.* A message id counter, an access token, and for each server a
concurrent table from message id to either a lock (a boxed `Long`, the time of
the request) or the answer that replaced it (`HiCacheSession`).
*Operations.* `sendRequest` registers a lock, sends, waits, collects;
`HiCacheUpdater` is run by an actor for each answer; `ClearTimeoutTask` walks
over the table and wakes and removes old locks; `KeepSessionTask` keeps the
session alive; about twenty wrappers build a command and read its result.
*Interacts with* `Connector.send` (call), and with the server by messages that
carry the id back.
*Hard.* The lock is waited on without looking at the table first; the updater
looks up, stores and notifies in three steps; the timer removes an entry it
read earlier.
*Correct when* a call returns its own answer or null, no notification meant
for one call wakes another only, nobody waits who could have been woken, the
table does not leak.

### hi-connector (1472 lines)

*State.* For each connector a list of `NettyConnection`s: a channel, the hint
`isActive`, two timers, a cache of messages to be retried. For the server side
a table of accepted clients and another retry cache.
*Operations.* `Connector.send` chooses a connection by message id and skips
inactive ones; `NettyConnection` connects, reconnects, sends or keeps;
`ClientSender`/`ServerSender` actors write; `ClientDispatcher`/
`ServerDispatcher` actors pick a process class by `hi-process` and run it;
`ServerDecoder` cuts the stream into frames; `TimerProcess` starts periodic
tasks.
*Hard.* One actor per message gives up the order of messages; `isActive` is
not unset when a channel dies; retrying invalidates the wrong key, so kept
messages are sent every ten seconds until they expire; the server's retry casts
a list to a map.
*Correct when* a connection never gives up and never connects twice, a
connection that is up is used, an accepted message is sent or kept, frames
survive fragmentation.

### hi-cache server (1961 lines)

*State.* `MemManager`: credentials, administrators, permissions, sessions,
spaces with stores and sequences, all unsynchronised maps, and
`maintenanceFlag`. `CommitDiskThread`: a queue of records and a file. On disk
`cache.log`, and `cache_<date>.bak` or `.bak.zip`.
*Operations.* Some thirty commands. Those that change something test for
maintenance (all but `useSpace`), session and permission, change a map and append
a record; the disk thread writes
the queue and once a day renames the log and refills it with a snapshot;
start-up replays the log and creates the administrator; `commitCacheToDb`
copies the memory to a database.
*Hard.* Commands, disk thread and start-up share everything without a lock; a
crash may come between any two steps of the rotation.
*Correct when* log and queue replay to what memory holds, what was written is
found again after a restart, maintenance ends, records reach the file,
permissions decide, increments are not lost.

### hi-server (11316 lines)

*State.* The selector, four connection sets (all, idle, request, response),
counters of exchanges, per-exchange streams, HTTP sessions in memory or Redis.
*Operations.* The dispatcher accepts, reads and re-registers connections;
`Exchange` parses and runs handlers on an executor; two timers close
connections that are idle or too slow; `ServerActor` dispatches to methods by
reflection; websockets, Jersey.
*Hard.* The timers close connections the dispatcher or a handler is using; the
fork's `Exchange.requestCompleted` changes a connection's state without moving
it between the sets.
*Correct when* a connection is in the set its state says, is closed once, is
not closed by a timer that does not concern it, and the dispatcher takes an
idle connection or the timer does.

### hi-authen (2250 lines), hi-aerospike-be (2247 lines)

*State.* Everything in hi-cache attributes under the access token: user name,
failed logins, call-back addresses. *Operations.* A filter before every
process, login, logout, the exchange of call-backs with an application.
*Hard.* Every step is several calls of the cache that other requests of the
same browser interleave with. *Correct when* nobody passes the filter without
a login, a logout ends the session everywhere, failures are counted.
hi-aerospike-be repeats the cache's commands and the filter over another back
end.

### The rest

hi-frontend (730 lines) glues HTTP to the connector. hi-utils (4020) wraps
files, databases, Kafka and Redis; hi-container (192) loads jars. hi-ws and the
`share/` directories are vendored libraries and web assets. None of these has a
protocol of its own.

### The administration pages (hi-authen-fe, hi-aerospike-fe)

*State.* A form, a flag in a hidden field, the DataTables a page has made on one
`<table>`, boxes that are ticked, requests under way.
*Operations.* `searchUser` makes a new table for every search; the table asks
for a page of rows; deletion sets the flag, so that the next search deletes the
ticked rows before it searches; the answer takes the flag back.
*Hard.* Answers come in any order and draw even if their table was replaced; a
request may fail; the admin need not wait.
*Correct when* nothing is deleted that was not ticked on the screen when the
admin said yes, and the flag does not outlive its deletion.

## Modules

### HiCacheCall, HiCacheRpc, HiCacheRpcProofs: the call of the cache

`HiCacheCall` says what a caller may rely on: a call begins, the server may
execute it any number of times from then on, and it ends with null or with the
answer to that very call, which exists only once the server has executed it.
`HiCacheRpc` is the protocol and implements it under the refinement that maps
`calling[t]` to "thread t is not idle".

| action | code |
| --- | --- |
| Register, SendAccepted, SendQueued, SendRefused, Wait, Collect | *client* HiCacheSession.java 81-112 |
| UpdaterLookup, UpdaterPut, UpdaterNotify | *client* HiCacheUpdater.java 20-32 |
| SweepRead, SweepExpire | *client* ClearTimeoutTask.java 16-32 |
| Evict | *client* HiCacheSession.java 51-54 |
| RetrySend, RetryExpire | NettyConnection.java 67-70, 200-215 |
| Execute, ExecuteUnanswered | *server* ApiProcess.java 18-22 |
| LoseRequest, SpuriousWakeup | TCP, `Object.wait` (external) |

A step ends where another thread can interfere: the table is a concurrent map
and only the blocks synchronized on the lock exclude each other. A lock and an
answer carry the call they belong to, so that a mixed-up answer shows.
Messages are a set, so they are reordered freely; `Execute` and the retry cache
repeat them.

*rpc_safety* (two threads, two ids, so that a thread calls twice or both call
at once; answers late, repeated and lost; entries evicted): `OwnAnswer`,
`NoneForgotten` (from its registration on, a call has its lock in the table or
a notifier with the lock in his hands), the action property `AnswerKept` (an
answer stays for its caller), and `ImplementsCall`.
*rpc_liveness* (one thread, two calls): `WaitersReturn` (a call ends),
`LocksExpire`.

The code does lose calls, and the properties say which, by two history
variables. `unheard` holds the callers that were notified between their
registration and their wait: nothing looks at the table before waiting, and
they wait for ever. `evicted` holds those whose lock the table dropped: it is a
cache of ten million entries that keeps one for fifteen minutes after its last
access, and tells nobody. An answer may go the same way, or be removed by a
timer that had read the lock it replaced. A caller is forgotten, and an answer
lost, in no other way. The clock is a choice, so that a lock may be evicted, or
found old, at any time.

*Proved* for any number of threads and ids: the inductive invariant `RpcInv`,
`TypeOK`, `SoleOwner` (no two threads wait on one lock; it is a conjunct of
`RpcInv` and not checked by itself), all the safety properties of the run and
the refinement. The types and `OwnAnswer` are not inductive. The
strengthening says that every id is fresh (`IdsFresh`: nothing is stored above
the counter), that whatever travels or is stored under an id belongs to the
call that took the id and was executed if it is an answer (`MessagesBelong`),
and that an updater without a lock never sees one come back (`LocksSeen`). From
it `Collect` can only return the caller's own answer; `NoneForgotten` is
inductive beside it, and `AnswerKept` follows step by step; the refinement maps every action to a step of
`HiCacheCall` or to a stutter. The only assumption is `RpcAssumption`: the bound
on ids is positive.

### HiCacheLog, HiCacheLogProofs: memory, log and restart

An *entry* stands for anything one record describes. A *sequence* is an entry
whose changes leave no record; only its deletion and the snapshot's copy do. A
*session* is an entry whose value is the space it uses: a login makes it, useSpace
changes it, at any time, and nothing but its expiry removes it. Entries are
independent: a record is applied whatever else is missing.
`Root` stands for the administrator that `loadDefaultSetup` creates, with its
credential, right and session.

| action | code |
| --- | --- |
| Check, Mutate, Commit, Refuse | a command: the maintenance test, the change, the record; *server* MemManager.java 511-547 and its like, 703-877 |
| UseSpace | *server* MemManager.java 259-267, which makes no such test |
| Drain, DrainDone | *server* CommitDiskThread.java 22-43 |
| CompressSkip, CompressBegin, Rename, Reopen, SnapshotStart | *server* LoadCacheProcess.java 76-101; ClearMemTask.java 30-79, which the snapshot calls first |
| SnapshotRead, SnapshotAppend, SnapshotDone, SnapshotAbort | *server* MemManager.java 879-924 |
| ReloadBegin, Replay, ReplayFails, ReloadEnd | *server* LoadCacheProcess.java 30-67, 103-174 |
| Setup | MemManager.java 1006-1016, StartApp.java 52-56 |
| NewDay, Crash | the date; the process dies, the files stay |

Details kept because they matter: any command starts the disk thread, even one
that is refused; the first replayed record starts it, so the log may be renamed
under the replay (the reader goes on with the renamed file) and the flag reset
in the middle of it; what is written to the file being replayed is replayed;
`reloadCache` resets the flag only when there was a log; a sequence record ends
the replay with a failed cast; a `ConcurrentModificationException` ends the
snapshot, and nothing retries before the next day; a change during the snapshot
may hit a map that is being iterated, was, or will be.

*log_safety* (two handlers, the administrator's entry and a session, two
values, two commands besides the set-up, one crash, any number of days; the run's VIEW
leaves out of a state what no later step and no property reads, as the comment at
`Seen` says):

* `LogMatchesMemory`: once the server is up, log and queue together replay to
  what memory holds, entry by entry, except for sequences, entries whose record
  is on its way, and entries struck by a race of the code. The races are named
  at the action where they happen and collected in the history variable
  `excused`; each of them is needed - without any one of them TLC finds a
  counterexample - and no other is:
  1. two commands change one entry at once, their records may be swapped (`Change`);
  2. the flag is set when a change is to be recorded, since it was set in between
     or since the command is a `useSpace`, and no snapshot is due; or a removal is
     dropped while an older record of the entry is queued; or a handler changes a
     session that start-up is reading from the log (`Lost`);
  3. an entry changes between the snapshot's reading and appending it (`StaleHeld`);
  4. the snapshot ends early (`SnapshotAbort`);
  5. the queue still holds a record of an entry that has expired, or whose removal
     was dropped, when the snapshot begins (`SnapshotStart`).

  The daily snapshot heals an entry in all other cases.
* `Recovered`: an entry whose last record was in the file when the process died
  has its value again when the replay ends, unless a command changed it or the
  disk thread renamed the log before start-up opened it (a refused command is
  enough to start the disk thread that early).

*log_liveness* (one handler, the administrator's entry and a sequence, two
commands): `MaintenanceEnds`, also after a
restart without a log, where it may take until the date changes, and after a
failed replay; `RecordsReachDisk`.

*Proved*: `TypeOK`, `LogMatchesMemory` and `Recovered`, for any entries,
values, handlers, numbers of commands and crashes, from `LogAssumption` (the
start-up thread is not a handler, administrator, sequences and sessions are
different entries, None and Unknown are not values).

`LogMatchesMemory` speaks of a server that is up and has no snapshot due, and is
far from inductive. Its strengthening `LogInv` says

* what the disk thread's place tells of the file and of what it holds
  (`FileInv`);
* that nothing is queued or changed before start-up has opened the log, and that
  a file that is replayed while the disk thread writes it replays to what memory
  has so far and the records to come, but for sessions that a useSpace has changed
  meanwhile (`BootInv`: `Untouched`, `Replaying`);
* that the flag is down while a snapshot is written and up, during a replay from
  a renamed file, only for the renaming itself (`FlagInv`). This is what makes a
  dropped record safe: a snapshot is due that heals it, or a race is named;
* that a change whose record is still to come is what memory holds, and that of
  two such changes of one entry the entry is excused (`OpInv`);
* for each clean entry (`MatchInv`): if no snapshot is due and none holds it
  back, log and queue replay to memory; if one is due, at least no queued record
  brings back an entry that memory has lost - the snapshot writes only what is
  there;
* where the value that a restart owes is on its way: in the file, in memory and
  the rest of the file, in memory (`WantInv`). `Recovered` is its last case.

The lemmas they share are about `Effect`, the last record of an entry in a
sequence: what it is after a record or a sequence is appended (`EffectIsOver`,
`OverConcat`). It chooses the largest index, and that there is one (`Largest`)
is proved by well-founded induction over the numbers, with the relation given as
a set.

### NettyLink, NettyLinkProofs: the connections of a connector

| action | code (`hi-connector/src/com/hh/connector/netty/client/`) |
| --- | --- |
| DoConnect, ConnectFail, ConnectOk, Activate, Lost | NettyConnection.java 138-198 |
| Lose | the peer, the network or ClientHandler.java 48-53 |
| Select, Refuse | Connector.java 50-78: the search, and `isActive` read again |
| Send, SendFails, RetrySend, Expire | NettyConnection.java 67-70, 114-127, 200-215 |
| Write, WriteFails | ClientSender.java 55-86, ServerDecoder.java 45-62 |

Scheduled, running and finished connects are counted rather than held in one
state, so that a connect too many or too few is possible and `OneAttempt` rules
it out. `isActive = true` is a step of its own after the listener was added, as
the next connect may already be failing on another event loop. The search of
`Connector.send` is one step, its second reading of `isActive` another; copies
of one message are not told apart. Exceptions on the way of a message are caught
and logged in two places: in `NettyConnection.send`, after which `Connector.send`
returns true as if it had been sent, and in the sender actor, when the message
cannot be packed or written. `SendFails` and `WriteFails` may strike any message.

*link* (two connections, two messages, so that the choice by id goes to either
and passes over one that is down, each connection lost twice): `OneAttempt`,
`OpenIsUsable` (a connection whose socket is up is active and refers to it),
`AcceptedIsKept` (an accepted message is written, with a sender, or in the
cache, unless the cache dropped it by age or size, its socket was lost under its
sender, or an exception was swallowed), `Reconnects`, `QueuedIsWritten` (what the
cache keeps is written, unless a sender met an exception with it: a message that
cannot be packed is sent in vain every ten seconds until it expires).

*Proved* for any number of connections, messages and losses, as one inductive
invariant: `OneAttempt` gives the range of the counters, which the types need,
and tells that a connect can only fail while no socket is up, which
`OpenIsUsable` needs.

### HiCacheSession, HiCacheSessionProofs: the session a service keeps

| action | code |
| --- | --- |
| Connect, Begin, Answered, Lost | StartApp.java 72-75 (hi-authen), *client* HiCacheSession.java 65-128 |
| Wake, KeepGoesOn | *client* KeepSessionTask.java 14-21, HiCacheSession.java 76-79 |
| MainGoesOn | hi-authen ServerProcess.java 176-203, `defaultSetup` |
| Login, Size, UseSpace, CreateSpace, CreateStore | *server* MemManager.java 59-92, 236-303, 325-357 |
| Execute, ExecuteStray, SendAgain | *server* ApiProcess.java 18-60, NettyConnection.java 200-215 |
| Expire | *server* ClearMemTask.java 30-43 |
| Maintenance, Restart, BackUp | *server* LoadCacheProcess.java 30-66, 76-101, as seen by a client |
| Tick | TimerProcess.java 53-66 |

Two threads of the service share one field, the token: the start-up thread,
which logs in, sets the space and fills an empty cache, and the keep-alive, an
actor that asks for the size of its space every 30 seconds and connects anew
when it gets null. A call is that of `HiCacheCall`: the token and the names are
read when it is made, it is executed at some later time, perhaps again or after
its caller has given up. Time is counted in periods of the tick; a session is
given 15 minutes by its login (three periods here) and 60 seconds, two periods,
by each question for a size. A token that nobody holds is free to stand for a
new one; its session is not told from one that has gone.

*session* (one thing goes wrong):

* `KeptAlive`: as long as nothing does, the session of the service is never
  found too old, though the first keep-alive shortens it to a minute.
* `DataKept`: as long as nothing does, and no login of the timer without a name
  crosses `connect`, a start does not replace the store of a service whose data
  was there. Both conditions are needed: `defaultSetup` takes null, of a lost
  call as well as of a token that has been replaced by "", for an empty cache.
* `Heals`: whatever has gone wrong, the session comes to have its space again.

*Proved* for any times with two ticks in `KeepLife` and more in `LoginLife`
(`SessionAssumption`: 60 seconds and 15 minutes against 30 seconds), any number
of tokens and of faults: `TypeOK`, which needs that a call stands only where
there is one to make (`CallsMatch`), `KeptAlive` and `DataKept`. The first rests
on an account of time, `Alive`: one period is left while the keep-alive is going
to ask about this very token, two otherwise (`TokenAlive`); a token that was
answered and not yet returned has its whole time but for one tick, and nobody
else holds it (`PendingAlive`, `PendingAlone`). The second adds that calls carry
the name once `connect` has stored it, so that their logins succeed
(`WithName`), and that the token with which the start-up thread asks lives even
when the keep-alive has replaced it meanwhile (`AskedAlive`): then `defaultSetup`
finds the space. `Heals` is model-checked; the types are proved only.

### HiCacheSequence, HiCacheSequenceProofs: sequences and spaces

Commands of `MemManager` look the space's map up once to check and once more to
act; the increment then reads the number and locks the box it was in.

| action | code (*server* MemManager.java) |
| --- | --- |
| Begin, Refuse, Check | ApiProcess.java 24-60, and the checks, e.g. 646-661, 668-688 |
| CreateSpace, DeleteSpace | 254-257, 319-322 |
| Fetch, NoSpace | the second look-up, e.g. 690-692 |
| CreateSequence, CreateStore, Remove | 663-666, 345-357, 503-509 (deleteStore also for ClearMemTask) |
| Read, Increment | 693-700 |

Two threads that read different boxes do not exclude each other, and a thread
that has read puts back a number others have passed, or one that was deleted or
created anew. Sequences are numbered as they are made, so that such a number is
seen; `overwritten` names the ones this has happened to.

*sequence_safety* (three threads, one name, two maps for the space, eight
commands): `Increasing` - the numbers of a sequence increase unless an
increment has put over what it had not read; `CreatedOnce` - a sequence or
space is replaced only by a creation that had checked before the replaced one
was made.

*Proved* for any threads, names, numbers, commands and spaces. `Increasing` is
far from inductive. `SequenceInv` adds that a sequence nothing was put over is
in one place only (`OnePlace`), has answered nothing above its number (`Below`)
and is numbered within what was made (`Numbered`); that maps to come are empty
(`MapsMade`); and, for `CreatedOnce`, that what a creation finds and its check
did not is younger than the check (`SpaceSince`, `SequenceSince`).

Left out: what simultaneous puts do to the links inside LinkedTreeMap, and
visibility between threads; steps are positive; `long` does not overflow.

### Framing, RecordChannel, FramingProofs: a length and a body

One format for the socket and for cache.log, one loop that cuts, two ways to go
on with what is left: Netty keeps it, the file's buffer is compacted only if the
body was incomplete.

| action | code |
| --- | --- |
| Write, Frame | CommitDiskThread.java 52-62, ServerDecoder.java 45-62 |
| Arrive, ReadFile, ReadNothing | ServerDecoder.java 22-23, *server* LoadCacheProcess.java 37-39, 62-65 |
| CutRecord, CutIncomplete, CutEnd | ServerDecoder.java 25-38, LoadCacheProcess.java 40-62 |
| CutGarbage | LoadCacheProcess.java 49-60 |
| Restart, Reconnect | LoadCacheProcess.java 30-38; a new socket with a new decoder |

A byte is its record and its place, so a length read across two records is
noticed and stands for any number. `room` is what `ByteBuffer` has between
position and limit when it is filled.

*framing* (bodies of 2, 3, 6 and 9 bytes, a buffer of 12, three records, two
restarts, every way to tear a record and to fragment a stream): `InOrder`,
`NothingMissed`, `ReloadEnds`, `SentArrives`, `ImplementsChannel`. On a socket
nothing is excepted: `RecordChannel` is what NettyLink and HiCacheRpc take a
connection for - whole records come out once and in order, and are lost with
the connection - and the decoder implements it.
In the file a log that is whole and fits in the buffer (64 MB in the code) is
loaded without exception, also when commands append to it meanwhile and part of
what they append falls outside: `NothingMissed`'s first case. For a longer log, or
one with a torn record, there are two named exceptions, both at the end of a full buffer:
`slipped`, where the buffer ended within a length and that part is read over,
and `aligned`, where it ended just behind a record and no room is left, so that
`read` returns 0 and the load ends. Bodies and buffer are small so that every
such end occurs.

*Proved* for any lengths of bodies, any pieces, any capacity above four and any
number of records and crashes (`FramingAssumption`): `TypeOK`, `InOrder`,
`NothingMissed`, that a decoder never fails (`SocketExact`), and
`ImplementsChannel`. What the loop computes is not proved by induction over the
bytes but as an invariant of its steps, `FramingInv`:

* `WireInv`: what is in the file or on the socket is a row of frames. Around
  every byte stand the others of its record (`Together`), a first byte follows
  the last one of the record before (`Follows`), the row begins with the first
  record that is expected and ends with the last one written (`Ends`), and a
  torn record lacks its last byte (`Places`). A crash must keep this, for which
  `LastRecord` shows that it tears only the record at the very end.
* `ReadInv`: while records are cut, the buffer is a window on the bytes and the
  next record begins at the position; while it is filled, either what is in it
  begins with the next record and is less than all of it (`Partial`), or the
  file's reader is about to read over something (`ReadOver`).
* `OrderInv`, `DoneInv`, `FailInv`, `SocketInv`: what was handed on is
  consecutive and ends before the first torn record; a reader that has ended has
  nothing left to cut; it fails at a torn record; a decoder reads nothing over.
* `SmallInv`: a whole log within the capacity is read at one go, to the end of a
  record no older than the last one of earlier lives, so that neither exception is
  met: the load is cut without a rest, and what it does not see was appended later.

`InOrder` follows since the length of an untorn record is put together from its
own bytes (`Intact`), so that the whole record and nothing else is cut.
`NothingMissed` needs `Partial`'s upper bound: at the end of the file, or with
no room left, an untorn record that has begun would have been there completely.
`ReloadEnds` and `SentArrives` are model-checked.

### HttpLifecycle, HttpLifecycleProofs: the HTTP core

| action | code (`hi-server/src/com/hh/net/httpserver/` unless named) |
| --- | --- |
| Looping, Turn, Accept, ListAccepted, Readable, ReadClosed | Dispatcher.java 51-128, 210-216 |
| TakeEvent, Evict, Abort, Pipeline, Keep, EndEvent, ReRegister | Dispatcher.java 141-200 |
| HeadRead, HeadFails | RequestProcessor.java 46-98, Exchange.java 100-181 |
| BodyRead, Respond, RespondHere, HandlerFails | FixedLengthInputStream.java 44-61, FixedLengthOutputStream.java 79-100, ExchangeImpl.java 126-178, 227-298 |
| Finish, HandOff | ServerActor.java 32-37, HttpUtils.java 196-237 (hi-server web) |
| Reply, ReplyFails | ReturnProcess.java 24-33 (hi-frontend) |
| IdleExpires, ReqExpires, RspExpires | ServerImpl.java 380-435 |
| StopBegins, StopWalks, StopEnds | ServerImpl.java 181-207 |

The Dispatcher is one thread: between two of its steps the timers, the exchanges
and `stop()` may act. It takes two steps for an event (TakeEvent, EndEvent) and
two for a new connection: Accept tests `terminating`, accepts, registers and
starts the request timer, none of which another thread can tell apart, and
ListAccepted adds the connection to `allConnections`. `finished` is read only at
the top of the loop, so the round in which it is set goes on: `stage` says how
far it is (registering, events, keys), and a later part is not followed by an
earlier one. `stop()` takes three steps: `terminating`; then `finished` and the
walk that closes what is listed; then the lists are cleared and the timers
cancelled.

*http* (two connections, three exchanges, one idle connection allowed, with
pipelining, hand-over, timers and stop): `OpenIsWatched` (an open connection is
listed and watched by a timer, or in the Dispatcher's hands, and after `stop()`
has walked the list only one that was being accepted is open), `OneExchange`, `StateAgrees`, `StopWaits` (`finished`
is set only when no handler runs, no reply is awaited and no event is queued),
`RemoteEnds` and `ClosedIsUnlisted` under fairness. The exception of the last,
`cut`, is a connection closed while the Dispatcher held it between two sets: it
stays in `allConnections` until `stop()`. The run's VIEW drops the record of an
exchange that is done and whose event is handled: no action and no property
reads it any more. It leaves 0.7 M of 2 M states.

The exception of `OpenIsWatched` is real: a connection that the Dispatcher has
accepted and not yet listed when `stop()` walks `allConnections` stays open after
`stop()` has returned, with its timers cancelled, though `HttpServer.stop`
documents that "all open TCP connections are closed". It happens only where the
delay is over or `finished` set while the Dispatcher is between two lines.

Two runs are violated, and should be: the code does not do what a comment says.

* *http_read_timer*: "called after a request has been completely read by the
  server. This stops the timer which would close the connection if the request
  doec't arrive quickly enough" (ServerImpl.java 354-359).
  `Exchange.requestCompleted`, taken for requests without a body, sets the state
  and leaves the connection with the request timer.
* *http_stop_accepts*: `stop` "stops this server by closing the listening socket
  and disallowing any new exchanges from being processed" (HttpServer.java
  173-174). The Dispatcher's branch for readable keys does not test
  `terminating`.

*Proved* for any connections, exchanges and limit: `HttpInv`, and from it the
safety properties, `TypeOK`, and `StopCloses`: when `stop()` is through at most
one connection is open, the one it missed. None is inductive alone: that one
exchange works on a connection needs `OneHolder` - a connection is held by just
one of the selector, the list to register, an exchange at work, a queued event
or the event in hand; `StateAgrees` needs the state of each holder; that the
count is never negative, and `StopWaits`, need that every exchange that is
awaited or queued is counted (`CountCovers`, by cardinality of finite sets);
`OpenIsWatched` needs that what is not listed rests with the selector and the
request timer (`LateRests`).

Left out: contexts and filters, TLS, upgrades, chunked streams. The clock is a
choice: a timer may find any connection of its set too old.

### UserTable, UserTableProofs: the list of users

| action | code |
| --- | --- |
| Search, Redraw, SendRequest | hi-authen-fe `share/js/app/user.js` 1-65, DataTables 1.10.2 |
| Tick, CheckAll, DeleteOnClick, Confirm, Cancel, CloseAllMessage | user.js 67-143 |
| Answer | hi-authen UserProcess.java 110-174 |
| Draw, Fail, InitComplete | user.js 33-39, DataTables |

*user_table* (two users, three tables, three requests): `OnlyAgreed` (nothing is
deleted but what was ticked on the screen at a yes), `FlagEndsWithAnswer`,
`ReportIsTrue`, `FlagEnds`. The safety properties speak of an admin who waits
for each answer and meets no failure (`hasty`): without that each is false, as
the flag is taken back only by the first answer to the table that deletes, and
an answer does not say which draw it belongs to. `ReportIsTrue` says that the
message of success comes when all that was agreed is gone and the request it
answers deleted something, unless `vain`: no row was ticked at the yes. The
question is asked for the form's hidden field too, which checkAll ticks, and rows
may be unticked while it is on the screen; `userid` is then empty, which the HTTP
layer makes a null, the process skips the deletion, the search is answered and the
page reports a success.

*Proved* for any number of users, searches and requests. The invariant `Careful`
says what waiting gives: at most the last request is due, the flag is set only
for it, it carries only what was agreed, and nothing only after a vain yes, and
otherwise the newest table is the
one on the screen.

## Bounds

`MaxId`, `MaxOps`, `MaxCrashes`, `MaxFaults`, `NumMessages`, `MaxLosses`,
`MaxTokens`, `MaxSpaces`, `MaxRecords`, `MaxExchanges`, `MaxTables`,
`MaxRequests` and `MaxDialogs` bound what the environment may do; the code has
none of them. They are enough for the interesting cases: two calls under way at
once and one after another; two commands on one entry around every step of a
rotation and of a restart; an increment that sleeps while a sequence is deleted,
created and incremented; a connection that is lost, comes back and is lost
again; a connection that is used again, pipelined, while another one fills the
idle set; an answer that overtakes a deletion and a third request that meets its
flag. With six tokens one is always free for a login. `MaxIdle`, `Capacity`,
`LoginLife` and `KeepLife` are constants of the code, made small: one idle
connection, a buffer shorter than three records, 30 periods to three. The systems
stop when the bounds are used up, so deadlock is not checked, except in
the safety and liveness runs of HiCacheLog, where days go on. Threads and handlers are symmetric where no
liveness is checked.

## Fairness

* Threads, actors, timers and listeners that can run do run: weak fairness of
  their steps. Nothing is assumed of new calls and commands, of losses, expiry
  or crashes.
* In HiCacheRpc the sweep comes back every `clearRequestTime` and visits each
  entry, so a lock that stays is found again and again: strong fairness of
  reading it. This takes it for granted that the timer was started.
  `TimerProcess.start` sleeps until a moment that its constructor took from the
  clock; when the clock has moved in between, the argument is negative, `sleep`
  throws, and the timer never runs. The liveness run is about a client whose
  timer did start.
* In HiCacheLog the date changes again and again. Nothing assumes that commands
  come.
* In NettyLink a peer accepts a connect sooner or later. A send may end in an
  exception each time; nothing is assumed of that.
* In HiCacheSession threads run, what is not lost is executed and answered,
  maintenance ends, and ticks come; that a call lasts less than a period is not
  assumed of the ticks but counted as a fault.
* In HttpLifecycle the Dispatcher loops, the timers tick and the delay of
  `stop()` passes. Nothing is asked of peers, handlers or the remote process.
* In UserTable requests end, with an answer or an error.
* In Framing the reader's loop runs and bytes on a socket arrive.

## Not modelled

Within the modules: the reset of the message id counter at two thousand million,
torn map internals under data races, a second disk thread from two simultaneous
first commands, the moments of expiry (what a snapshot finds expired is any choice
of entries no command has in its hands), records that need another entry (an
attribute its store, a useSpace its session), the idle ping, the inverted tests of `deleteUser` and
`refreshStoreExpire`, the NullPointerException of a login to a space by a user
without permissions (its caller gets no answer, which HiCacheRpc has).

Parts without a module: the server side of hi-connector (filters and its own
retry cache; HiCacheRpc has it as a network that delays, repeats and loses), the
hourly copy to a database, which nothing reads back, the web layer and its
sessions, websockets and the REST containers, hi-authen's sign-on flow,
hi-aerospike-be, which repeats the cache's commands over another back end, and
the wrappers of hi-utils and hi-container.

By lines most of the repository is code it vendors: hi-ws holds some 344
thousand lines of Java (JAX-WS and XML internals of the JDK, repackaged), and
the `share/` directories hold DataTables, CodeMirror, d3, moment, jQuery and
their like, most of them three times. The project's own program is about 25
thousand lines of Java and 7 thousand of page scripts, and that is what the
models are about: the lines they map are a small share of the repository and
most of the program's concurrent core. The libraries are modelled where their
behaviour decides (DataTables in UserTable) and are not this program otherwise.

Only model-checked: everything under fairness, that is `WaitersReturn`,
`LocksExpire`, `MaintenanceEnds`, `RecordsReachDisk`, `Reconnects`,
`QueuedIsWritten`, `RemoteEnds`, `ClosedIsUnlisted`, `FlagEnds`, `ReloadEnds`,
`SentArrives` and `Heals`; liveness is out of the prover's reach. Every safety
property of a passing run is a theorem, and so is each of the two refinements.
The bounds of the models (`MaxOps` and its like) are parameters of the theorems,
so that they hold for any number of commands, calls, crashes and so on. The two
violated runs show what the code does on a small instance.

Where a definition is preceded by a comment `Fault`, it is not part of the
model: it is a plausible bug put in place of the definition after it to see
that the properties notice.

## Plan

1. **HiCacheLog** with two disk threads, as two first commands may start them,
   and the order of dependent records, a store and its attributes.
2. **HiCacheStore**: users, permissions and expiry, an abstract map that the
   commands implement. Properties: a command that changes a space was allowed by
   a permission held at that moment; a store lives as long as it is used.
3. **AuthenFlow**: filter, login, logout and call-backs over an abstract cache.
4. **Composition** of HiCacheRpc and NettyLink: the network of HiCacheRpc as
   what NettyLink does, with the server's retry cache.
5. **UserForm**: adding and changing a user, and the other pages of hi-frontend.

Each with a type invariant, its safety properties as theorems where the
induction is not over data, and a liveness run where something has to happen.
