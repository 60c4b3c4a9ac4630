------------------------------- MODULE HiCacheRpc -------------------------------
(***************************************************************************)
(* The request/response protocol of the cache client.  Application threads *)
(* call HiCacheSession.sendRequest, which stores a lock object (a boxed    *)
(* Long) under the message id in a shared table, sends the message and     *)
(* waits on that lock.  A HiCacheUpdater actor per incoming answer stores  *)
(* the answer under the id and notifies the lock it found there.  The      *)
(* ClearTimeoutTask timer notifies and removes locks that are too old.     *)
(*                                                                         *)
(* One action is one step between two points at which another thread can   *)
(* interfere: the table is a concurrent map, only the three synchronized   *)
(* blocks on the lock exclude each other.                                  *)
(***************************************************************************)
EXTENDS Naturals

CONSTANTS
    Threads,              \* application threads that use one HiCacheSession
    MaxId                 \* bound: the last message id handed out

ASSUME RpcAssumption == MaxId \in Nat \ {0}

VARIABLES
    index,                \* HiCacheSession.index, the message id counter
    calls,                \* calls[t]: how many calls thread t has begun
    pc,                   \* pc[t]: where thread t is in sendRequest
    req,                  \* req[t]: the hi-message-id of t's last call
    outcome,              \* outcome[t]: what t's last call returned
    table,                \* cacheStore.get(cacheName): id -> lock or answer
    requests,             \* request messages on their way to the server
    retry,                \* request messages in NettyConnection.retryMessage
    answers,              \* answers on their way to the client
    updaters,             \* running HiCacheUpdater.process activations
    sweep,                \* the id whose old lock ClearTimeoutTask has read
    executed,             \* history: calls the server has carried out
    unheard,              \* history: callers notified before they waited
    evicted               \* history: callers whose lock the table dropped

vars == <<index, calls, pc, req, outcome, table, requests, retry, answers,
          updaters, sweep, executed, unheard, evicted>>

--------------------------------------------------------------------------------
\* The counter starts at 1 and is incremented before use.  It is reset only
\* after two thousand million requests, which is not modelled.
Ids == 2 .. MaxId
NoId == 0

Calls == Threads \X Nat
NullReply == <<>>                       \* sendRequest returns null

\* A request and its answer carry the id and, as payload, the call they are for.
Messages == [id : Ids, call : Calls]

\* What the table holds under an id.
Absent == [kind |-> "absent"]
Lock == [kind |-> "lock"]
Reply(c) == [kind |-> "reply", call |-> c]
Entries == {Absent, Lock} \cup [kind : {"reply"}, call : Calls]

\* lock: the activation found the Long under the id and will notify it.
Activations == [id : Ids, call : Calls, lock : BOOLEAN,
                stage : {"put", "notify"}]

PCs == {"idle", "registered", "sent", "waiting", "woken"}

TypeOK ==
    /\ index \in 1 .. MaxId
    /\ calls \in [Threads -> Nat]
    /\ pc \in [Threads -> PCs]
    /\ req \in [Threads -> Ids \cup {NoId}]
    /\ \A t \in Threads : pc[t] # "idle" => req[t] \in Ids
    /\ outcome \in [Threads -> Calls \cup {NullReply}]
    /\ table \in [Ids -> Entries]
    /\ requests \subseteq Messages
    /\ retry \subseteq Messages
    /\ answers \subseteq Messages
    /\ updaters \subseteq Activations
    /\ sweep \in Ids \cup {NoId}
    /\ executed \subseteq Calls
    /\ unheard \subseteq Threads
    /\ evicted \subseteq Threads

Init ==
    /\ index = 1
    /\ calls = [t \in Threads |-> 0]
    /\ pc = [t \in Threads |-> "idle"]
    /\ req = [t \in Threads |-> NoId]
    /\ outcome = [t \in Threads |-> NullReply]
    /\ table = [i \in Ids |-> Absent]
    /\ requests = {}
    /\ retry = {}
    /\ answers = {}
    /\ updaters = {}
    /\ sweep = NoId
    /\ executed = {}
    /\ unheard = {}
    /\ evicted = {}

--------------------------------------------------------------------------------
\* HiCacheSession.sendRequest, in the calling thread.

netVars == <<requests, retry, answers>>
wakeVars == <<unheard, evicted>>
threadVars == <<index, calls, pc, req, outcome>>

Goto(t, label) == pc' = [pc EXCEPT ![t] = label]
Return(t) ==
    /\ Goto(t, "idle")
    /\ unheard' = unheard \ {t}
    /\ evicted' = evicted \ {t}
\* fault: the id is read from the shared counter again
MessageWithIndex(t) == [id |-> index, call |-> <<t, calls[t]>>]
MessageOf(t) == [id |-> req[t], call |-> <<t, calls[t]>>]

\* AtomicInteger.incrementAndGet.
OldIndex == index                       \* fault: the value before the increment
NextIndex == index + 1

\* Take an id and put the lock under it.
Register(t) ==
    /\ pc[t] = "idle"
    /\ index < MaxId
    /\ index' = NextIndex
    /\ calls' = [calls EXCEPT ![t] = @ + 1]
    /\ req' = [req EXCEPT ![t] = index']
    /\ outcome' = [outcome EXCEPT ![t] = NullReply]
    /\ table' = [table EXCEPT ![index'] = Lock]
    /\ Goto(t, "registered")
    /\ UNCHANGED <<netVars, updaters, sweep, executed, wakeVars>>

\* Connector.send hands the message to an open channel and returns true.
SendAccepted(t) ==
    /\ pc[t] = "registered"
    /\ requests' = requests \cup {MessageOf(t)}
    /\ Goto(t, "sent")
    /\ UNCHANGED <<index, calls, req, outcome, table, retry, answers, updaters,
                   sweep, executed, wakeVars>>

\* The connection is marked active but its channel is not open: the message
\* is kept for the retry timer, and send returns true all the same.
SendQueued(t) ==
    /\ pc[t] = "registered"
    /\ retry' = retry \cup {MessageOf(t)}
    /\ Goto(t, "sent")
    /\ UNCHANGED <<index, calls, req, outcome, table, requests, answers,
                   updaters, sweep, executed, wakeVars>>

\* No connection is active: send returns false and so the call returns null;
\* the lock stays in the table.
SendRefused(t) ==
    /\ pc[t] = "registered"
    /\ Return(t)
    /\ UNCHANGED <<index, calls, req, outcome, table, netVars, updaters, sweep,
                   executed>>

\* synchronized (lock) { lock.wait(): nothing is looked at before waiting.
Wait(t) ==
    /\ pc[t] = "sent"
    /\ Goto(t, "waiting")
    /\ UNCHANGED <<index, calls, req, outcome, table, netVars, updaters, sweep,
                   executed, wakeVars>>

\* Object.wait may return without a notification.
SpuriousWakeup(t) ==
    /\ pc[t] = "waiting"
    /\ Goto(t, "woken")
    /\ UNCHANGED <<index, calls, req, outcome, table, netVars, updaters, sweep,
                   executed, wakeVars>>

\* After wait(): an answer is taken out of the table and returned, anything
\* else is left there and null is returned.
Collect(t) ==
    /\ pc[t] = "woken"
    /\ \/ /\ table[req[t]].kind = "reply"
          /\ outcome' = [outcome EXCEPT ![t] = table[req[t]].call]
          /\ table' = [table EXCEPT ![req[t]] = Absent]
       \/ /\ table[req[t]].kind # "reply"
          /\ UNCHANGED <<outcome, table>>
    /\ Return(t)
    /\ UNCHANGED <<index, calls, req, netVars, updaters, sweep, executed>>

--------------------------------------------------------------------------------
\* The connector and the cache server, as far as sendRequest can tell.

\* NettyConnection.retrySendMessage sends a kept message and, because it
\* invalidates the value instead of the key, keeps it to be sent again.
RetrySend(m) ==
    /\ m \in retry
    /\ requests' = requests \cup {m}
    /\ UNCHANGED <<threadVars, table, retry, answers, updaters, sweep,
                   executed, wakeVars>>

\* The kept message leaves the retry cache ten minutes after its last use.
RetryExpire(m) ==
    /\ m \in retry
    /\ retry' = retry \ {m}
    /\ UNCHANGED <<threadVars, table, requests, answers, updaters, sweep,
                   executed, wakeVars>>

\* ApiProcess executes the command and answers with the same message id.
AnswerUnexecuted(m) ==                  \* fault: answered before it is run
    /\ m \in requests
    /\ requests' = requests \ {m}
    /\ answers' = answers \cup {m}
    /\ UNCHANGED <<threadVars, table, retry, updaters, sweep, executed,
                   wakeVars>>

Execute(m) ==
    /\ m \in requests
    /\ requests' = requests \ {m}
    /\ answers' = answers \cup {m}
    /\ executed' = executed \cup {m.call}
    /\ UNCHANGED <<threadVars, table, retry, updaters, sweep, wakeVars>>

\* The command is executed and fails with an exception, or its answer is
\* dropped with the connection: no answer arrives.
ExecuteUnanswered(m) ==
    /\ m \in requests
    /\ requests' = requests \ {m}
    /\ executed' = executed \cup {m.call}
    /\ UNCHANGED <<threadVars, table, retry, answers, updaters, sweep,
                   wakeVars>>

\* The connection is lost with the request in it.
LoseRequest(m) ==
    /\ m \in requests
    /\ requests' = requests \ {m}
    /\ UNCHANGED <<threadVars, table, retry, answers, updaters, sweep,
                   executed, wakeVars>>

--------------------------------------------------------------------------------
\* HiCacheUpdater.process, one activation per answer, run by an actor.

\* lock = cache.getIfPresent(messageId)
LockGone(i) == FALSE                    \* fault: looked up after the put
LockFound(i) == table[i] = Lock

UpdaterLookup(m) ==
    /\ m \in answers
    /\ answers' = answers \ {m}
    /\ updaters' = updaters \cup
           {[id |-> m.id, call |-> m.call, lock |-> LockFound(m.id),
             stage |-> "put"]}
    /\ UNCHANGED <<threadVars, table, requests, retry, sweep, executed,
                   wakeVars>>

\* cache.put(messageId, message); without a lock the activation is over.
UpdaterPut(u) ==
    /\ u \in updaters
    /\ u.stage = "put"
    /\ table' = [table EXCEPT ![u.id] = Reply(u.call)]
    /\ updaters' = (updaters \ {u}) \cup
           IF u.lock THEN {[u EXCEPT !.stage = "notify"]} ELSE {}
    /\ UNCHANGED <<threadVars, netVars, sweep, executed, wakeVars>>

\* The threads that wait, or are going to wait, on the lock under an id.
WaitingOn(i) == {t \in Threads : pc[t] = "waiting" /\ req[t] = i}
WaitingSoon(i) ==
    {t \in Threads : pc[t] \in {"registered", "sent"} /\ req[t] = i}

\* lock.notify() wakes one waiting thread if there is one; otherwise nothing
\* remembers that it was called.
NotifyNobody(i) == UNCHANGED <<pc, unheard>>    \* fault: on another object
Notify(i) ==
    \/ /\ WaitingOn(i) = {}
       /\ unheard' = unheard \cup WaitingSoon(i)
       /\ UNCHANGED pc
    \/ /\ \E t \in WaitingOn(i) : Goto(t, "woken")
       /\ UNCHANGED unheard

UpdaterNotify(u) ==
    /\ u \in updaters
    /\ u.stage = "notify"
    /\ Notify(u.id)
    /\ updaters' = updaters \ {u}
    /\ UNCHANGED <<index, calls, req, outcome, table, netVars, sweep, executed,
                   evicted>>

--------------------------------------------------------------------------------
\* ClearTimeoutTask.process, the timer that walks over the table.  That the
\* lock is older than clearRequestTime is a possibility in every state: a
\* request may be that slow at any point.

\* value instanceof Long
AnyValue(i) == table[i] # Absent        \* fault: the type is not looked at
IsLong(i) == table[i] = Lock

\* The entry's value is an old Long; it is now held in a local variable.
SweepRead(i) ==
    /\ sweep = NoId
    /\ IsLong(i)
    /\ sweep' = i
    /\ UNCHANGED <<threadVars, table, netVars, updaters, executed, wakeVars>>

\* synchronized (lock) { notify; invalidate the key }
KeyKept(i) == table                     \* fault: notified, not invalidated
KeyInvalidated(i) == [table EXCEPT ![i] = Absent]

SweepExpire ==
    /\ sweep # NoId
    /\ Notify(sweep)
    /\ table' = KeyInvalidated(sweep)
    /\ sweep' = NoId
    /\ UNCHANGED <<index, calls, req, outcome, netVars, updaters, executed,
                   evicted>>

\* The table is a cache that holds ten million entries at most, each for fifteen
\* minutes after its last access: it may drop any entry, a lock as well as an
\* answer, and notifies nobody.  Both bounds are beyond the model, so that it
\* may happen at any time.
Evict(i) ==
    /\ table[i] # Absent
    /\ table' = [table EXCEPT ![i] = Absent]
    /\ evicted' = IF table[i] = Lock
                  THEN evicted \cup WaitingOn(i) \cup WaitingSoon(i)
                  ELSE evicted
    /\ UNCHANGED <<threadVars, netVars, updaters, sweep, executed, unheard>>

--------------------------------------------------------------------------------
Caller(t) ==
    \/ Register(t)
    \/ SendAccepted(t)
    \/ SendQueued(t)
    \/ SendRefused(t)
    \/ Wait(t)
    \/ SpuriousWakeup(t)
    \/ Collect(t)

Network(m) ==
    \/ RetrySend(m)
    \/ RetryExpire(m)
    \/ Execute(m)
    \/ ExecuteUnanswered(m)
    \/ LoseRequest(m)

Next ==
    \/ \E t \in Threads : Caller(t)
    \/ \E m \in requests \cup retry : Network(m)
    \/ \E m \in answers : UpdaterLookup(m)
    \/ \E u \in updaters : UpdaterPut(u) \/ UpdaterNotify(u)
    \/ \E i \in Ids : SweepRead(i) \/ Evict(i)
    \/ SweepExpire

Spec == Init /\ [][Next]_vars

\* A thread inside sendRequest keeps running; an updater that has found a lock
\* runs on; the timer comes back every clearRequestTime and visits every entry,
\* so that a Long that stays is found old again and again.  Nothing is assumed of
\* new calls, of the network, of the server or of spurious wakeups.
SendStep(t) == SendAccepted(t) \/ SendQueued(t) \/ SendRefused(t)
NotifierStep(i) ==
    \E u \in {v \in updaters : v.id = i /\ v.lock} :
        UpdaterPut(u) \/ UpdaterNotify(u)

Fairness ==
    /\ \A t \in Threads : WF_vars(SendStep(t) \/ Wait(t) \/ Collect(t))
    /\ \A i \in Ids : WF_vars(NotifierStep(i)) /\ SF_vars(SweepRead(i))
    /\ WF_vars(SweepExpire)

FairSpec == Spec /\ Fairness

--------------------------------------------------------------------------------
\* Properties.

\* sendRequest returns either null or the answer to the very call it was made
\* for, however answers are delayed, repeated or overtaken: the id under which
\* an answer is stored and collected never brings two calls together.
OwnAnswer ==
    \A t \in Threads :
        outcome[t] # NullReply => outcome[t] = <<t, calls[t]>>

\* notify() wakes one thread only.  That is enough because two threads never
\* wait on the same lock, and an answer under a thread's id is its own.
SoleOwner ==
    \A t, o \in Threads :
        (t # o /\ req[t] # NoId) => req[t] # req[o]

\* Everything that travels or is stored under an id belongs to one call: the
\* one that took the id.  c is a call that has begun, under id i, and if i is
\* the id of a thread's last call then c is that call.
Belongs(i, c) ==
    /\ i <= index
    /\ c[1] \in Threads
    /\ c[2] \in 1 .. calls[c[1]]
    /\ \A t \in Threads : req[t] = i => c = <<t, calls[t]>>

IdsFresh ==
    /\ \A t \in Threads : req[t] <= index /\ (req[t] # NoId => calls[t] > 0)
    /\ \A i \in Ids : i > index => table[i] = Absent
    /\ sweep <= index

MessagesBelong ==
    /\ \A m \in requests \cup retry : Belongs(m.id, m.call)
    /\ \A m \in answers : Belongs(m.id, m.call) /\ m.call \in executed
    /\ \A u \in updaters : Belongs(u.id, u.call) /\ u.call \in executed
    /\ \A i \in Ids : table[i].kind = "reply" =>
           Belongs(i, table[i].call) /\ table[i].call \in executed

\* An activation that found no lock found an answer or an expired entry, and a
\* lock never comes back under an id.
LocksSeen ==
    \A u \in updaters :
        /\ u.stage = "notify" => u.lock
        /\ ~u.lock => table[u.id] # Lock

\* The inductive invariant behind OwnAnswer, SoleOwner and the action
\* properties below.
RpcInv ==
    /\ TypeOK
    /\ IdsFresh
    /\ MessagesBelong
    /\ LocksSeen
    /\ SoleOwner
    /\ OwnAnswer

\* Somebody is still going to wake t: its lock is in the table, where the
\* timer finds it, or the timer or an updater has the lock in its hands.
Wakeable(t) ==
    \/ table[req[t]] = Lock
    \/ sweep = req[t]
    \/ \E u \in updaters : u.id = req[t] /\ u.lock

\* A call on its way into the wait, or in it, is never forgotten: its lock is
\* still in the table, or whoever has the lock in his hands is still to notify
\* it.  There are two ways to be forgotten and no other: the notification came
\* before the wait, which looks at nothing first, or the table dropped the lock.
NoneForgotten ==
    \A t \in Threads :
        pc[t] \in {"registered", "sent", "waiting"} =>
            Wakeable(t) \/ t \in unheard \cup evicted

\* An answer that is in the table for a call still in progress stays there
\* until the caller takes it and the timer does not pick it up.  There are two
\* exceptions: a timer that had read the lock before the answer replaced it
\* removes the answer it has never seen, and the table may evict it.
AnswerKept ==
    [][\A t \in Threads :
           (/\ pc[t] # "idle"
            /\ table[req[t]].kind = "reply"
            /\ sweep # req[t])
           => \/ pc'[t] = "idle"
              \/ table'[req[t]] = table[req[t]] /\ sweep' # req[t]
              \/ Evict(req[t])]_vars

\* A call comes to an end, whatever becomes of its message and its answer,
\* unless its notification came before its wait or the table dropped its lock.
WaitersReturn ==
    \A t \in Threads :
        pc[t] # "idle" ~> pc[t] = "idle" \/ t \in unheard \cup evicted

\* The lock of a request does not stay in the table: also the locks of
\* refused sends and of requests that are never answered go.
LocksExpire == \A i \in Ids : table[i] = Lock ~> table[i] # Lock

\* Every call is a call of the abstract interface.
Abstract == INSTANCE HiCacheCall WITH
                calling <- [t \in Threads |-> pc[t] # "idle"]
ImplementsCall == Abstract!CallSpec
================================================================================
