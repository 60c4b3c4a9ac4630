---------------------------- MODULE HiCacheRpcProofs ----------------------------
(***************************************************************************)
(* Proofs about HiCacheRpc, for any set of threads and any number of calls.*)
(***************************************************************************)
EXTENDS HiCacheRpc, TLAPS

\* The type invariant is inductive.
LEMMA TypeInit == Init => TypeOK
BY RpcAssumption DEF Init, TypeOK, PCs, Ids, NoId, NullReply, Entries, Absent, Messages, Activations

LEMMA TypeNext == TypeOK /\ [Next]_vars => TypeOK'
<1>. SUFFICES ASSUME TypeOK, [Next]_vars PROVE TypeOK'
  OBVIOUS
<1>. USE RpcAssumption DEF TypeOK, PCs, Ids, NoId, Goto, Return, wakeVars
<1>1. ASSUME NEW t \in Threads, Register(t) PROVE TypeOK'
  BY <1>1 DEF Register, netVars, NextIndex, Lock, Entries, NullReply
<1>2. ASSUME NEW t \in Threads, SendAccepted(t) \/ SendQueued(t) PROVE TypeOK'
  <2>1. MessageOf(t) \in Messages
    BY <1>2 DEF SendAccepted, SendQueued, MessageOf, Messages, Calls
  <2>. QED
    BY <1>2, <2>1 DEF SendAccepted, SendQueued
<1>3. ASSUME NEW t \in Threads, SendRefused(t) \/ Wait(t) \/ SpuriousWakeup(t)
      PROVE TypeOK'
  BY <1>3 DEF SendRefused, Wait, SpuriousWakeup, netVars
<1>4. ASSUME NEW t \in Threads, Collect(t) PROVE TypeOK'
  <2>1. req[t] \in Ids /\ table[req[t]] \in Entries
    BY <1>4 DEF Collect
  <2>2. table[req[t]].kind = "reply" => table[req[t]].call \in Calls
    BY <2>1 DEF Entries, Absent, Lock
  <2>3. outcome' \in [Threads -> Calls \cup {NullReply}]
    BY <1>4, <2>2 DEF Collect
  <2>4. table' \in [Ids -> Entries]
    BY <1>4, <2>1 DEF Collect, Entries, Absent
  <2>. QED
    BY <1>4, <2>3, <2>4 DEF Collect, netVars
<1>5. ASSUME NEW m \in requests \cup retry, Network(m) PROVE TypeOK'
  BY <1>5 DEF Network, RetrySend, RetryExpire, Execute, ExecuteUnanswered,
              LoseRequest, threadVars, Messages
<1>6. ASSUME NEW m \in answers, UpdaterLookup(m) PROVE TypeOK'
  <2>1. LockFound(m.id) \in BOOLEAN
    BY DEF LockFound
  <2>2. [id |-> m.id, call |-> m.call, lock |-> LockFound(m.id),
         stage |-> "put"] \in Activations
    BY <1>6, <2>1 DEF Messages, Activations
  <2>. QED
    BY <1>6, <2>2 DEF UpdaterLookup, threadVars
<1>7. ASSUME NEW u \in updaters, UpdaterPut(u) PROVE TypeOK'
  BY <1>7 DEF UpdaterPut, threadVars, netVars, Activations, Reply, Entries
<1>8. ASSUME NEW u \in updaters, UpdaterNotify(u) PROVE TypeOK'
  BY <1>8 DEF UpdaterNotify, Notify, WaitingOn, WaitingSoon, netVars
<1>9. ASSUME NEW i \in Ids, SweepRead(i) PROVE TypeOK'
  BY <1>9 DEF SweepRead, threadVars, netVars
<1>10. ASSUME SweepExpire PROVE TypeOK'
  BY <1>10 DEF SweepExpire, Notify, WaitingOn, WaitingSoon, KeyInvalidated,
               netVars, Entries, Absent
<1>12. ASSUME NEW i \in Ids, Evict(i) PROVE TypeOK'
  BY <1>12 DEF Evict, WaitingOn, WaitingSoon, threadVars, netVars, Entries, Absent
<1>11. CASE UNCHANGED vars
  BY <1>11 DEF vars
<1>. QED
  BY <1>1, <1>2, <1>3, <1>4, <1>5, <1>6, <1>7, <1>8, <1>9, <1>10, <1>11, <1>12
     DEF Next, Caller

--------------------------------------------------------------------------------
\* Only Register moves the counters and the ids that calls hold.
LEMMA IdsMove ==
    ASSUME [Next]_vars
    PROVE  \/ UNCHANGED <<index, calls, req>>
           \/ \E t \in Threads : Register(t)
<1>. USE DEF threadVars
<1>1. ASSUME NEW t \in Threads, Caller(t)
      PROVE  Register(t) \/ UNCHANGED <<index, calls, req>>
  BY <1>1 DEF Caller, SendAccepted, SendQueued, SendRefused, Wait,
              SpuriousWakeup, Collect
<1>2. ASSUME NEW m, Network(m) PROVE UNCHANGED <<index, calls, req>>
  BY <1>2 DEF Network, RetrySend, RetryExpire, Execute, ExecuteUnanswered,
              LoseRequest
<1>3. ASSUME NEW m, UpdaterLookup(m) PROVE UNCHANGED <<index, calls, req>>
  BY <1>3 DEF UpdaterLookup
<1>4. ASSUME NEW u, UpdaterPut(u) \/ UpdaterNotify(u)
      PROVE  UNCHANGED <<index, calls, req>>
  BY <1>4 DEF UpdaterPut, UpdaterNotify
<1>5. ASSUME NEW i, SweepRead(i) PROVE UNCHANGED <<index, calls, req>>
  BY <1>5 DEF SweepRead
<1>6. ASSUME SweepExpire PROVE UNCHANGED <<index, calls, req>>
  BY <1>6 DEF SweepExpire
<1>7. ASSUME NEW i, Evict(i) PROVE UNCHANGED <<index, calls, req>>
  BY <1>7 DEF Evict
<1>. QED
  BY <1>1, <1>2, <1>3, <1>4, <1>5, <1>6, <1>7 DEF Next, vars

\* What belongs to a call goes on belonging to it: a new call takes a new id.
LEMMA BelongsKept ==
    ASSUME TypeOK, [Next]_vars, NEW i \in Ids, NEW c \in Calls, Belongs(i, c)
    PROVE  Belongs(i, c)'
<1>1. CASE UNCHANGED <<index, calls, req>>
  BY <1>1 DEF Belongs
<1>2. ASSUME NEW t \in Threads, Register(t) PROVE Belongs(i, c)'
  <2>1. index' = index + 1 /\ index \in Nat
    BY <1>2, RpcAssumption DEF Register, NextIndex, TypeOK
  <2>2. calls' = [calls EXCEPT ![t] = @ + 1] /\ req' = [req EXCEPT ![t] = index']
    BY <1>2 DEF Register
  <2>3. c[2] \in 1 .. calls'[c[1]]
    BY <2>2 DEF Belongs, TypeOK
  <2>4. ASSUME NEW o \in Threads, req'[o] = i PROVE c = <<o, calls'[o]>>
    <3>1. o # t
      BY <2>1, <2>2, <2>4 DEF Belongs, TypeOK, Ids
    <3>. QED
      BY <2>2, <2>4, <3>1 DEF Belongs, TypeOK
  <2>. QED
    BY <2>1, <2>3, <2>4 DEF Belongs, Ids
<1>. QED
  BY <1>1, <1>2, IdsMove

\* No two calls ever share an id, and ids are taken in increasing order.
LEMMA OwnersNext ==
    ASSUME RpcInv, [Next]_vars
    PROVE  /\ SoleOwner'
           /\ \A t \in Threads :
                  req'[t] <= index' /\ (req'[t] # NoId => calls'[t] > 0)
<1>. DEFINE Goal == /\ SoleOwner'
                    /\ \A t \in Threads :
                           req'[t] <= index' /\ (req'[t] # NoId => calls'[t] > 0)
<1>. USE DEF RpcInv, SoleOwner, IdsFresh
<1>1. CASE UNCHANGED <<index, calls, req>>
  BY <1>1
<1>2. ASSUME NEW t \in Threads, Register(t) PROVE Goal
  <2>1. index' = index + 1 /\ index \in Nat
    BY <1>2, RpcAssumption DEF Register, NextIndex, TypeOK
  <2>2. req' = [req EXCEPT ![t] = index'] /\ calls' = [calls EXCEPT ![t] = @ + 1]
    BY <1>2 DEF Register
  <2>3. \A o \in Threads : req[o] \in Nat /\ calls[o] \in Nat
    BY DEF TypeOK, Ids, NoId
  <2>. QED
    BY <2>1, <2>2, <2>3 DEF TypeOK
<1>. QED
  BY <1>1, <1>2, IdsMove

\* Requests, answers, activations and stored answers belong to their call.
LEMMA MessagesNext ==
    ASSUME RpcInv, [Next]_vars
    PROVE  MessagesBelong'
<1>. TypeOK /\ MessagesBelong /\ IdsFresh /\ SoleOwner
  BY DEF RpcInv
<1>. USE DEF MessagesBelong
<1>a. \A m \in requests \cup retry \cup answers \cup updaters :
          m.id \in Ids /\ m.call \in Calls /\ Belongs(m.id, m.call)'
  BY BelongsKept DEF TypeOK, Messages, Activations
<1>b. \A i \in Ids : \A c \in Calls :
          (table[i].kind = "reply" /\ table[i].call = c) => Belongs(i, c)'
  BY BelongsKept
<1>c. \A i \in Ids : table[i].kind = "reply" => table[i].call \in Calls
  BY DEF TypeOK, Entries, Absent, Lock
<1>1. ASSUME NEW t \in Threads, Register(t) PROVE MessagesBelong'
  <2>1. index' \in Ids
    BY <1>1, RpcAssumption DEF Register, NextIndex, TypeOK, Ids
  <2>2. \A i \in Ids : table'[i].kind = "reply" => table'[i] = table[i]
    BY <1>1, <2>1 DEF Register, Lock, TypeOK
  <2>. QED
    BY <1>1, <1>a, <1>b, <1>c, <2>2 DEF Register, netVars
<1>2. ASSUME NEW t \in Threads, SendAccepted(t) \/ SendQueued(t)
      PROVE  MessagesBelong'
  <2>1. pc[t] # "idle" /\ UNCHANGED <<index, calls, req>>
    BY <1>2 DEF SendAccepted, SendQueued
  <2>2. calls[t] # 0 => Belongs(req[t], <<t, calls[t]>>)'
    BY <2>1 DEF Belongs, IdsFresh, SoleOwner, TypeOK, NoId, Ids
  <2>3. calls[t] # 0
    BY <2>1 DEF IdsFresh, TypeOK, Ids, NoId
  <2>. QED
    BY <1>2, <1>a, <1>b, <1>c, <2>2, <2>3 DEF SendAccepted, SendQueued, MessageOf
<1>3. ASSUME NEW t \in Threads, SendRefused(t) \/ Wait(t) \/ SpuriousWakeup(t)
      PROVE  MessagesBelong'
  BY <1>3, <1>a, <1>b, <1>c DEF SendRefused, Wait, SpuriousWakeup, netVars
<1>4. ASSUME NEW t \in Threads, Collect(t) PROVE MessagesBelong'
  <2>1. \A i \in Ids : table'[i].kind = "reply" => table'[i] = table[i]
    BY <1>4 DEF Collect, Absent, TypeOK
  <2>. QED
    BY <1>4, <1>a, <1>b, <1>c, <2>1 DEF Collect, netVars
<1>5. ASSUME NEW m \in requests \cup retry, Network(m) PROVE MessagesBelong'
  BY <1>5, <1>a, <1>b, <1>c DEF Network, RetrySend, RetryExpire, Execute,
                    ExecuteUnanswered, LoseRequest, threadVars
<1>6. ASSUME NEW m \in answers, UpdaterLookup(m) PROVE MessagesBelong'
  BY <1>6, <1>a, <1>b, <1>c DEF UpdaterLookup, threadVars
<1>7. ASSUME NEW u \in updaters, UpdaterPut(u) PROVE MessagesBelong'
  <2>1. \A i \in Ids : table'[i].kind = "reply" =>
            \/ table'[i] = table[i]
            \/ i = u.id /\ table'[i].call = u.call
    BY <1>7 DEF UpdaterPut, Reply, TypeOK
  <2>2. \A v \in updaters' : \E w \in updaters : v.id = w.id /\ v.call = w.call
    BY <1>7 DEF UpdaterPut, TypeOK, Activations
  <2>. QED
    BY <1>7, <1>a, <1>b, <1>c, <2>1, <2>2 DEF UpdaterPut, threadVars, netVars
<1>8. ASSUME NEW u \in updaters, UpdaterNotify(u) PROVE MessagesBelong'
  BY <1>8, <1>a, <1>b, <1>c DEF UpdaterNotify, netVars
<1>9. ASSUME NEW i \in Ids, SweepRead(i) PROVE MessagesBelong'
  BY <1>9, <1>a, <1>b, <1>c DEF SweepRead, threadVars, netVars
<1>10. ASSUME SweepExpire PROVE MessagesBelong'
  <2>1. \A i \in Ids : table'[i].kind = "reply" => table'[i] = table[i]
    BY <1>10 DEF SweepExpire, KeyInvalidated, Absent, TypeOK
  <2>. QED
    BY <1>10, <1>a, <1>b, <1>c, <2>1 DEF SweepExpire, netVars
<1>12. ASSUME NEW j \in Ids, Evict(j) PROVE MessagesBelong'
  <2>1. \A i \in Ids : table'[i].kind = "reply" => table'[i] = table[i]
    BY <1>12 DEF Evict, Absent, TypeOK
  <2>. QED
    BY <1>12, <1>a, <1>b, <1>c, <2>1 DEF Evict, threadVars, netVars
<1>11. CASE UNCHANGED vars
  BY <1>11, <1>a, <1>b, <1>c DEF vars
<1>. QED
  BY <1>1, <1>2, <1>3, <1>4, <1>5, <1>6, <1>7, <1>8, <1>9, <1>10, <1>11, <1>12
     DEF Next, Caller

\* The rest of IdsFresh: nothing is stored or expired under an id before it is
\* handed out.
LEMMA FreshNext ==
    ASSUME RpcInv, [Next]_vars
    PROVE  IdsFresh'
<1>. TypeOK /\ IdsFresh /\ MessagesBelong
  BY DEF RpcInv
<1>1. index <= index' /\ index \in Nat /\ index' \in Nat
  BY IdsMove, RpcAssumption DEF Register, NextIndex, TypeOK
<1>2. ASSUME NEW i \in Ids, i > index', table[i] = Absent PROVE table'[i] = Absent
  <2>1. ASSUME NEW t \in Threads, Caller(t) PROVE table'[i] = Absent
    <3>1. CASE Register(t)
      BY <1>1, <1>2, <3>1 DEF Register, TypeOK, Ids
    <3>2. CASE Collect(t)
      BY <1>2, <3>2 DEF Collect, TypeOK
    <3>. QED
      BY <1>2, <2>1, <3>1, <3>2 DEF Caller, SendAccepted, SendQueued,
                                    SendRefused, Wait, SpuriousWakeup
  <2>2. ASSUME NEW m, Network(m) PROVE table'[i] = Absent
    BY <1>2, <2>2 DEF Network, RetrySend, RetryExpire, Execute,
                      ExecuteUnanswered, LoseRequest
  <2>3. ASSUME NEW m, UpdaterLookup(m) PROVE table'[i] = Absent
    BY <1>2, <2>3 DEF UpdaterLookup
  <2>4. ASSUME NEW u \in updaters, UpdaterPut(u) PROVE table'[i] = Absent
    <3>1. u.id <= index /\ u.id \in Ids
      BY DEF MessagesBelong, Belongs, TypeOK, Activations
    <3>. QED
      BY <1>1, <1>2, <2>4, <3>1 DEF UpdaterPut, TypeOK, Ids
  <2>5. ASSUME NEW u, UpdaterNotify(u) PROVE table'[i] = Absent
    BY <1>2, <2>5 DEF UpdaterNotify
  <2>6. ASSUME NEW j, SweepRead(j) PROVE table'[i] = Absent
    BY <1>2, <2>6 DEF SweepRead
  <2>7. ASSUME SweepExpire PROVE table'[i] = Absent
    BY <1>2, <2>7 DEF SweepExpire, KeyInvalidated, TypeOK
  <2>9. ASSUME NEW j, Evict(j) PROVE table'[i] = Absent
    BY <1>2, <2>9 DEF Evict, TypeOK
  <2>8. CASE UNCHANGED vars
    BY <1>2, <2>8 DEF vars
  <2>. QED
    BY <2>1, <2>2, <2>3, <2>4, <2>5, <2>6, <2>7, <2>8, <2>9 DEF Next
<1>3. sweep' = sweep \/ sweep' = NoId \/ \E i \in Ids : SweepRead(i)
  <2>1. ASSUME NEW t \in Threads, Caller(t) PROVE sweep' = sweep
    BY <2>1 DEF Caller, Register, SendAccepted, SendQueued, SendRefused, Wait,
                SpuriousWakeup, Collect
  <2>2. ASSUME NEW m, Network(m) PROVE sweep' = sweep
    BY <2>2 DEF Network, RetrySend, RetryExpire, Execute, ExecuteUnanswered,
                LoseRequest
  <2>. QED
    BY <2>1, <2>2 DEF Next, UpdaterLookup, UpdaterPut, UpdaterNotify,
                      SweepExpire, Evict, vars
<1>4. sweep' <= index'
  <2>1. ASSUME NEW i \in Ids, SweepRead(i) PROVE i <= index
    BY <2>1, <1>1 DEF SweepRead, IsLong, IdsFresh, Lock, Absent, Ids
  <2>2. sweep \in Nat /\ sweep <= index
    BY DEF IdsFresh, TypeOK, Ids, NoId
  <2>. QED
    BY <1>1, <1>3, <2>1, <2>2 DEF SweepRead, NoId, Ids
<1>5. \A i \in Ids : i > index' => table'[i] = Absent
  BY <1>1, <1>2 DEF IdsFresh, Ids
<1>. QED
  BY <1>4, <1>5, OwnersNext DEF IdsFresh

\* An activation that found no lock never sees one appear.
LEMMA LocksSeenNext ==
    ASSUME RpcInv, [Next]_vars
    PROVE  LocksSeen'
<1>. TypeOK /\ IdsFresh /\ MessagesBelong /\ LocksSeen
  BY DEF RpcInv
<1>. USE DEF LocksSeen
<1>a. \A u \in updaters : u.id \in Ids /\ u.id <= index
  BY DEF MessagesBelong, Belongs, TypeOK, Activations
<1>1. ASSUME NEW t \in Threads, Register(t) PROVE LocksSeen'
  <2>1. \A u \in updaters : table'[u.id] = table[u.id]
    BY <1>1, <1>a, RpcAssumption DEF Register, NextIndex, TypeOK, Ids
  <2>. QED
    BY <1>1, <2>1 DEF Register
<1>2. ASSUME NEW t \in Threads,
             \/ SendAccepted(t) \/ SendQueued(t) \/ SendRefused(t)
             \/ Wait(t) \/ SpuriousWakeup(t)
      PROVE  LocksSeen'
  BY <1>2 DEF SendAccepted, SendQueued, SendRefused, Wait, SpuriousWakeup
<1>4. ASSUME NEW t \in Threads, Collect(t) PROVE LocksSeen'
  <2>1. \A i \in Ids : table'[i] = table[i] \/ table'[i] = Absent
    BY <1>4 DEF Collect, TypeOK
  <2>. QED
    BY <1>4, <1>a, <2>1 DEF Collect, Absent, Lock
<1>5. ASSUME NEW m \in requests \cup retry, Network(m) PROVE LocksSeen'
  BY <1>5 DEF Network, RetrySend, RetryExpire, Execute, ExecuteUnanswered,
              LoseRequest
<1>6. ASSUME NEW m \in answers, UpdaterLookup(m) PROVE LocksSeen'
  <2>. DEFINE new == [id |-> m.id, call |-> m.call, lock |-> LockFound(m.id),
                      stage |-> "put"]
  <2>1. new.id = m.id /\ new.stage = "put" /\ new.lock = LockFound(m.id)
    OBVIOUS
  <2>2. ~LockFound(m.id) => table[m.id] # Lock
    BY DEF LockFound
  <2>3. new.stage # "notify" /\ (~new.lock => table[new.id] # Lock)
    BY <2>1, <2>2
  <2>4. updaters' = updaters \cup {new} /\ table' = table
    BY <1>6 DEF UpdaterLookup
  <2>. HIDE DEF new
  <2>. QED
    BY <2>3, <2>4
<1>7. ASSUME NEW u \in updaters, UpdaterPut(u) PROVE LocksSeen'
  <2>1. \A i \in Ids : table'[i] = table[i] \/ table'[i] # Lock
    BY <1>7 DEF UpdaterPut, Reply, Lock, TypeOK
  <2>2. \A v \in updaters' : v \in updaters \/ (v = [u EXCEPT !.stage = "notify"] /\ u.lock)
    BY <1>7 DEF UpdaterPut
  <2>3. u \in Activations
    BY DEF TypeOK
  <2>4. [u EXCEPT !.stage = "notify"].lock = u.lock
    BY <2>3 DEF Activations
  <2>. QED
    BY <1>a, <2>1, <2>2, <2>4
<1>8. ASSUME NEW u \in updaters, UpdaterNotify(u) PROVE LocksSeen'
  BY <1>8 DEF UpdaterNotify
<1>9. ASSUME NEW i \in Ids, SweepRead(i) PROVE LocksSeen'
  BY <1>9 DEF SweepRead
<1>10. ASSUME SweepExpire PROVE LocksSeen'
  <2>1. \A i \in Ids : table'[i] = table[i] \/ table'[i] = Absent
    BY <1>10 DEF SweepExpire, KeyInvalidated, TypeOK
  <2>. QED
    BY <1>10, <1>a, <2>1 DEF SweepExpire, Absent, Lock
<1>12. ASSUME NEW j \in Ids, Evict(j) PROVE LocksSeen'
  <2>1. \A i \in Ids : table'[i] = table[i] \/ table'[i] = Absent
    BY <1>12 DEF Evict, TypeOK
  <2>. QED
    BY <1>12, <1>a, <2>1 DEF Evict, Absent, Lock
<1>11. CASE UNCHANGED vars
  BY <1>11 DEF vars
<1>. QED
  BY <1>1, <1>2, <1>4, <1>5, <1>6, <1>7, <1>8, <1>9, <1>10, <1>11, <1>12
     DEF Next, Caller

\* What a call returns is its own answer.
LEMMA OutcomeNext ==
    ASSUME RpcInv, [Next]_vars
    PROVE  OwnAnswer'
<1>. TypeOK /\ IdsFresh /\ MessagesBelong /\ OwnAnswer
  BY DEF RpcInv
<1>1. ASSUME NEW t \in Threads, Register(t) PROVE OwnAnswer'
  BY <1>1 DEF Register, OwnAnswer, TypeOK
<1>2. ASSUME NEW t \in Threads, Collect(t) PROVE OwnAnswer'
  <2>1. req[t] \in Ids
    BY <1>2 DEF Collect, TypeOK
  <2>2. table[req[t]].kind = "reply" => table[req[t]].call = <<t, calls[t]>>
    BY <2>1 DEF MessagesBelong, Belongs
  <2>. QED
    BY <1>2, <2>2 DEF Collect, OwnAnswer, TypeOK
<1>3. ASSUME NEW t \in Threads,
             \/ SendAccepted(t) \/ SendQueued(t) \/ SendRefused(t)
             \/ Wait(t) \/ SpuriousWakeup(t)
      PROVE  UNCHANGED <<outcome, calls>>
  BY <1>3 DEF SendAccepted, SendQueued, SendRefused, Wait, SpuriousWakeup
<1>4. ASSUME NEW m, Network(m) PROVE UNCHANGED <<outcome, calls>>
  BY <1>4 DEF Network, RetrySend, RetryExpire, Execute, ExecuteUnanswered,
              LoseRequest, threadVars
<1>. QED
  BY <1>1, <1>2, <1>3, <1>4
     DEF Next, Caller, UpdaterLookup, UpdaterPut, UpdaterNotify, SweepRead,
         SweepExpire, Evict, vars, threadVars, OwnAnswer

\* The invariant holds in every reachable state.
THEOREM RpcCorrect == Spec => []RpcInv
<1>1. Init => RpcInv
  BY TypeInit DEF Init, RpcInv, IdsFresh, MessagesBelong, LocksSeen, SoleOwner,
                  OwnAnswer, Absent, NoId, Ids
<1>2. RpcInv /\ [Next]_vars => RpcInv'
  BY TypeNext, FreshNext, MessagesNext, LocksSeenNext, OwnersNext, OutcomeNext
     DEF RpcInv
<1>. QED
  BY <1>1, <1>2, PTL DEF Spec

\* Every variable keeps its type.
THEOREM TypeCorrect == Spec => []TypeOK
BY RpcCorrect, PTL DEF RpcInv

\* sendRequest returns null or the answer to the call it was made for.
THEOREM OwnAnswerCorrect == Spec => []OwnAnswer
BY RpcCorrect, PTL DEF RpcInv

\* Two threads never wait on the same lock.
THEOREM SoleOwnerCorrect == Spec => []SoleOwner
BY RpcCorrect, PTL DEF RpcInv

--------------------------------------------------------------------------------
\* A notification on a lock that one thread waits on wakes that thread.
LEMMA NotifyWakes ==
    ASSUME TypeOK, SoleOwner, NEW t \in Threads, pc[t] = "waiting", Notify(req[t])
    PROVE  pc'[t] = "woken"
<1>1. t \in WaitingOn(req[t])
  BY DEF WaitingOn
<1>2. PICK o \in WaitingOn(req[t]) : Goto(o, "woken")
  BY <1>1 DEF Notify
<1>3. o = t
  BY <1>2 DEF WaitingOn, SoleOwner, TypeOK, NoId, Ids
<1>. QED
  BY <1>2, <1>3 DEF Goto, TypeOK

\* A caller that is not waiting yet misses the notification, and it alone.
LEMMA NotifyMissed ==
    ASSUME TypeOK, SoleOwner, NEW t \in Threads,
           pc[t] \in {"registered", "sent"}, Notify(req[t])
    PROVE  t \in unheard'
<1>1. WaitingOn(req[t]) = {}
  BY DEF WaitingOn, SoleOwner, TypeOK, NoId, Ids
<1>2. t \in WaitingSoon(req[t])
  BY DEF WaitingSoon
<1>. QED
  BY <1>1, <1>2 DEF Notify

\* The step lemma of NoneForgotten, for one caller.
LEMMA ForgottenStep ==
    ASSUME RpcInv, NoneForgotten, [Next]_vars, NEW t \in Threads,
           pc'[t] \in {"registered", "sent", "waiting"}
    PROVE  Wakeable(t)' \/ t \in unheard' \cup evicted'
<1>. DEFINE InCall == {"registered", "sent", "waiting"}
            Excused == t \in unheard \cup evicted
            Goal == Wakeable(t)' \/ t \in unheard' \cup evicted'
<1>. TypeOK /\ SoleOwner /\ IdsFresh /\ LocksSeen
  BY DEF RpcInv
<1>a. pc[t] \in InCall => Wakeable(t) \/ Excused
  BY DEF NoneForgotten
<1>b. pc[t] \in InCall => req[t] \in Ids
  BY DEF TypeOK
<1>1. ASSUME NEW o \in Threads, Register(o) PROVE Goal
  <2>1. index' \in Ids /\ index' > index
    BY <1>1, RpcAssumption DEF Register, NextIndex, TypeOK, Ids
  <2>2. CASE o = t
    <3>1. req'[t] = index' /\ table'[index'] = Lock
      BY <1>1, <2>1, <2>2 DEF Register, TypeOK
    <3>. QED
      BY <3>1 DEF Wakeable
  <2>3. CASE o # t
    <3>1. pc[t] \in InCall /\ req'[t] = req[t]
      BY <1>1, <2>3 DEF Register, Goto, TypeOK
    <3>2. req[t] # index'
      BY <2>1, <3>1, <1>b DEF IdsFresh, TypeOK, Ids
    <3>3. table'[req[t]] = table[req[t]]
      BY <1>1, <3>2 DEF Register, TypeOK
    <3>. QED
      BY <1>1, <1>a, <3>1, <3>3 DEF Register, Wakeable, wakeVars
  <2>. QED
    BY <2>2, <2>3
<1>2. ASSUME NEW o \in Threads, Collect(o) PROVE Goal
  <2>1. o # t /\ pc[t] \in InCall
    BY <1>2 DEF Collect, Return, Goto, TypeOK
  <2>2. table'[req[t]] = table[req[t]]
    <3>1. req[o] # req[t]
      BY <2>1, <1>b DEF SoleOwner, NoId, Ids
    <3>. QED
      BY <1>2, <1>b, <2>1, <3>1 DEF Collect, TypeOK
  <2>. QED
    BY <1>2, <1>a, <2>1, <2>2 DEF Collect, Return, Wakeable
<1>3. ASSUME NEW o \in Threads,
             SendAccepted(o) \/ SendQueued(o) \/ Wait(o) \/ SpuriousWakeup(o)
      PROVE  Goal
  <2>1. pc[t] \in InCall
    BY <1>3 DEF SendAccepted, SendQueued, Wait, SpuriousWakeup, Goto, TypeOK
  <2>. QED
    BY <1>3, <1>a, <2>1 DEF SendAccepted, SendQueued, Wait, SpuriousWakeup,
                            Wakeable, wakeVars
<1>4. ASSUME NEW o \in Threads, SendRefused(o) PROVE Goal
  <2>1. o # t /\ pc[t] \in InCall
    BY <1>4 DEF SendRefused, Return, Goto, TypeOK
  <2>. QED
    BY <1>4, <1>a, <2>1 DEF SendRefused, Return, Wakeable
<1>5. ASSUME NEW m, Network(m) PROVE Goal
  BY <1>5, <1>a DEF Network, RetrySend, RetryExpire, Execute, ExecuteUnanswered,
                    LoseRequest, threadVars, Wakeable, wakeVars
<1>6. ASSUME NEW m, UpdaterLookup(m) PROVE Goal
  BY <1>6, <1>a DEF UpdaterLookup, threadVars, Wakeable, wakeVars
<1>7. ASSUME NEW u \in updaters, UpdaterPut(u) PROVE Goal
  <2>0. pc[t] \in InCall /\ req'[t] = req[t] /\ UNCHANGED wakeVars
    BY <1>7 DEF UpdaterPut, threadVars
  <2>1. u \in Activations
    BY DEF TypeOK
  <2>2. CASE u.lock
    <3>. DEFINE v == [u EXCEPT !.stage = "notify"]
    <3>1. v.id = u.id /\ v.lock = u.lock /\ v \in updaters'
      BY <1>7, <2>1, <2>2 DEF UpdaterPut, Activations
    <3>2. u.id = req[t] => Wakeable(t)'
      BY <2>0, <2>2, <3>1 DEF Wakeable
    <3>3. u.id # req[t] => table'[req[t]] = table[req[t]]
      BY <1>7 DEF UpdaterPut, TypeOK
    <3>4. updaters \ {u} \subseteq updaters' /\ sweep' = sweep
      BY <1>7 DEF UpdaterPut
    <3>5. u.id # req[t] => (Wakeable(t) => Wakeable(t)')
      BY <2>0, <3>3, <3>4 DEF Wakeable
    <3>. QED
      BY <1>a, <2>0, <3>2, <3>5 DEF wakeVars
  <2>3. CASE ~u.lock
    <3>1. table[u.id] # Lock
      BY <2>3 DEF LocksSeen
    <3>2. table[req[t]] = Lock => table'[req[t]] = Lock
      BY <1>7, <3>1 DEF UpdaterPut, TypeOK
    <3>3. updaters \ {u} \subseteq updaters' /\ sweep' = sweep
      BY <1>7 DEF UpdaterPut
    <3>4. Wakeable(t) => Wakeable(t)'
      BY <2>0, <2>3, <3>2, <3>3 DEF Wakeable
    <3>. QED
      BY <1>a, <2>0, <3>4 DEF wakeVars
  <2>. QED
    BY <2>2, <2>3
<1>8. ASSUME NEW i, Notify(i), UNCHANGED req, evicted' = evicted,
             i # NoId,
             Wakeable(t) => Wakeable(t)' \/ i = req[t]
      PROVE  Goal
  <2>1. pc[t] \in InCall /\ unheard \subseteq unheard'
    BY <1>8 DEF Notify, Goto, WaitingOn, TypeOK
  <2>2. CASE i = req[t]
    <3>1. Notify(req[t])
      BY <1>8, <2>2
    <3>2. pc[t] # "waiting"
      BY <3>1, NotifyWakes
    <3>. QED
      BY <2>1, <3>1, <3>2, NotifyMissed
  <2>. QED
    BY <1>8, <1>a, <2>1, <2>2
<1>9. ASSUME NEW u \in updaters, UpdaterNotify(u) PROVE Goal
  <2>1. u.id # NoId
    BY DEF TypeOK, Activations, NoId, Ids
  <2>2. Wakeable(t) => Wakeable(t)' \/ u.id = req[t]
    BY <1>9 DEF UpdaterNotify, Wakeable
  <2>. QED
    BY <1>8, <1>9, <2>1, <2>2 DEF UpdaterNotify
<1>10. ASSUME NEW i \in Ids, SweepRead(i) PROVE Goal
  <2>1. pc[t] \in InCall /\ req[t] # NoId
    BY <1>10, <1>b DEF SweepRead, threadVars, NoId, Ids
  <2>2. Wakeable(t) => Wakeable(t)'
    BY <1>10, <2>1 DEF SweepRead, threadVars, Wakeable
  <2>. QED
    BY <1>10, <1>a, <2>1, <2>2 DEF SweepRead, wakeVars
<1>11. ASSUME SweepExpire PROVE Goal
  <2>1. sweep # req[t] => table'[req[t]] = table[req[t]]
    BY <1>11 DEF SweepExpire, KeyInvalidated, TypeOK
  <2>2. Wakeable(t) => Wakeable(t)' \/ sweep = req[t]
    BY <1>11, <2>1 DEF SweepExpire, Wakeable
  <2>. QED
    BY <1>8, <1>11, <2>2 DEF SweepExpire
<1>12. ASSUME NEW i \in Ids, Evict(i) PROVE Goal
  <2>1. pc[t] \in InCall
    BY <1>12 DEF Evict, threadVars
  <2>2. CASE i = req[t] /\ table[i] = Lock
    <3>1. t \in WaitingOn(i) \cup WaitingSoon(i)
      BY <2>1, <2>2 DEF WaitingOn, WaitingSoon
    <3>. QED
      BY <1>12, <2>2, <3>1 DEF Evict
  <2>3. CASE ~(i = req[t] /\ table[i] = Lock)
    <3>1. table[req[t]] = Lock => table'[req[t]] = Lock
      BY <1>12, <2>3 DEF Evict, TypeOK
    <3>2. Wakeable(t) => Wakeable(t)'
      BY <1>12, <3>1 DEF Evict, threadVars, Wakeable
    <3>3. Excused => t \in unheard' \cup evicted'
      BY <1>12 DEF Evict
    <3>. QED
      BY <1>a, <2>1, <3>2, <3>3
  <2>. QED
    BY <2>2, <2>3
<1>13. CASE UNCHANGED vars
  BY <1>13, <1>a DEF vars, Wakeable
<1>. QED
  BY <1>1, <1>2, <1>3, <1>4, <1>5, <1>6, <1>7, <1>9, <1>10, <1>11, <1>12, <1>13
     DEF Next, Caller

\* No call is forgotten but by a notification before its wait, or by the
\* table's own eviction of its lock.
THEOREM NoneForgottenCorrect == Spec => []NoneForgotten
<1>1. Init => NoneForgotten
  BY DEF Init, NoneForgotten
<1>2. RpcInv /\ NoneForgotten /\ [Next]_vars => NoneForgotten'
  BY ForgottenStep DEF NoneForgotten
<1>. QED
  BY <1>1, <1>2, RpcCorrect, PTL DEF Spec

\* The step lemma of AnswerKept.
LEMMA AnswerStep ==
    ASSUME RpcInv, [Next]_vars,
           NEW t \in Threads, pc[t] # "idle", table[req[t]].kind = "reply",
           sweep # req[t]
    PROVE  \/ pc'[t] = "idle"
           \/ table'[req[t]] = table[req[t]] /\ sweep' # req[t]
           \/ Evict(req[t])
<1>. DEFINE Goal == \/ pc'[t] = "idle"
                    \/ table'[req[t]] = table[req[t]] /\ sweep' # req[t]
<1>. TypeOK /\ SoleOwner /\ IdsFresh /\ MessagesBelong /\ req[t] \in Ids
  BY DEF RpcInv, TypeOK
<1>1. ASSUME NEW o \in Threads, Register(o) PROVE Goal
  BY <1>1, RpcAssumption DEF Register, NextIndex, TypeOK, IdsFresh, Ids
<1>2. ASSUME NEW o \in Threads, Collect(o) PROVE Goal
  <2>1. CASE o = t
    BY <1>2, <2>1 DEF Collect, Return, Goto, TypeOK
  <2>2. CASE o # t
    <3>1. req[o] # req[t]
      BY <2>2 DEF SoleOwner, NoId, Ids
    <3>. QED
      BY <1>2, <3>1 DEF Collect, TypeOK
  <2>. QED
    BY <2>1, <2>2
<1>3. ASSUME NEW o \in Threads,
             \/ SendAccepted(o) \/ SendQueued(o) \/ SendRefused(o)
             \/ Wait(o) \/ SpuriousWakeup(o)
      PROVE  Goal
  BY <1>3 DEF SendAccepted, SendQueued, SendRefused, Wait, SpuriousWakeup
<1>4. ASSUME NEW m, Network(m) PROVE Goal
  BY <1>4 DEF Network, RetrySend, RetryExpire, Execute, ExecuteUnanswered,
              LoseRequest
<1>5. ASSUME NEW m, UpdaterLookup(m) PROVE Goal
  BY <1>5 DEF UpdaterLookup
<1>6. ASSUME NEW u \in updaters, UpdaterPut(u) PROVE Goal
  <2>1. CASE u.id # req[t]
    BY <1>6, <2>1 DEF UpdaterPut, TypeOK
  <2>2. CASE u.id = req[t]
    <3>a. table[req[t]].call = <<t, calls[t]>>
      BY DEF MessagesBelong, Belongs
    <3>b. table[req[t]] \in [kind : {"reply"}, call : Calls]
      BY DEF TypeOK, Entries, Absent, Lock
    <3>1. table[req[t]] = Reply(<<t, calls[t]>>)
      BY <3>a, <3>b DEF Reply
    <3>2. u.call = <<t, calls[t]>>
      BY <2>2 DEF MessagesBelong, Belongs
    <3>. QED
      BY <1>6, <2>2, <3>1, <3>2 DEF UpdaterPut, TypeOK
  <2>. QED
    BY <2>1, <2>2
<1>7. ASSUME NEW u \in updaters, UpdaterNotify(u) PROVE Goal
  BY <1>7 DEF UpdaterNotify
<1>8. ASSUME NEW i \in Ids, SweepRead(i) PROVE Goal
  BY <1>8 DEF SweepRead, IsLong, Lock
<1>9. ASSUME SweepExpire PROVE Goal
  BY <1>9 DEF SweepExpire, KeyInvalidated, TypeOK, NoId, Ids
<1>11. ASSUME NEW i \in Ids, Evict(i) PROVE Goal \/ Evict(req[t])
  BY <1>11 DEF Evict, threadVars, TypeOK
<1>10. CASE UNCHANGED vars
  BY <1>10 DEF vars
<1>. QED
  BY <1>1, <1>2, <1>3, <1>4, <1>5, <1>6, <1>7, <1>8, <1>9, <1>10, <1>11
     DEF Next, Caller

\* An answer stays for its caller unless the timer had read the lock before or
\* the table evicts the answer.
THEOREM AnswerKeptCorrect == Spec => AnswerKept
<1>1. RpcInv /\ [Next]_vars =>
          [\A t \in Threads :
              (/\ pc[t] # "idle"
               /\ table[req[t]].kind = "reply"
               /\ sweep # req[t])
              => \/ pc'[t] = "idle"
                 \/ table'[req[t]] = table[req[t]] /\ sweep' # req[t]
                 \/ Evict(req[t])]_vars
  BY AnswerStep
<1>. QED
  BY <1>1, RpcCorrect, PTL DEF Spec, AnswerKept

--------------------------------------------------------------------------------
\* A step of sendRequest, of an actor, of the timer or of the network is a step
\* of the abstract call interface or changes nothing in it.
LEMMA CallStep ==
    ASSUME RpcInv, [Next]_vars
    PROVE  [Abstract!CallNext]_(Abstract!absVars)
<1>. DEFINE Calling == [t \in Threads |-> pc[t] # "idle"]
            Stutter == Calling' = Calling /\ UNCHANGED <<calls, executed, outcome>>
<1>. TypeOK /\ MessagesBelong
  BY DEF RpcInv
<1>0. Stutter => UNCHANGED Abstract!absVars
  BY DEF Abstract!absVars
<1>1. ASSUME NEW t \in Threads, Register(t) PROVE Abstract!Begin(t)
  <2>1. Calling' = [Calling EXCEPT ![t] = TRUE] /\ ~Calling[t]
    BY <1>1 DEF Register, Goto, TypeOK
  <2>. QED
    BY <1>1, <2>1 DEF Register, Abstract!Begin, NullReply, Abstract!NullReply
<1>2. ASSUME NEW t \in Threads,
             SendAccepted(t) \/ SendQueued(t) \/ Wait(t) \/ SpuriousWakeup(t)
      PROVE  Stutter
  BY <1>2 DEF SendAccepted, SendQueued, Wait, SpuriousWakeup, Goto, TypeOK
<1>3. ASSUME NEW t \in Threads, SendRefused(t) PROVE Abstract!EndWithNull(t)
  BY <1>3 DEF SendRefused, Return, Goto, TypeOK, Abstract!EndWithNull
<1>4. ASSUME NEW t \in Threads, Collect(t)
      PROVE  Abstract!EndWithNull(t) \/ Abstract!EndWithAnswer(t)
  <2>1. Calling[t] /\ Calling' = [Calling EXCEPT ![t] = FALSE]
    BY <1>4 DEF Collect, Return, Goto, TypeOK
  <2>2. CASE table[req[t]].kind = "reply"
    <3>1. table[req[t]].call = <<t, calls[t]>> /\ <<t, calls[t]>> \in executed
      BY <1>4, <2>2 DEF MessagesBelong, Belongs, Collect, TypeOK
    <3>2. outcome' = [outcome EXCEPT ![t] = <<t, calls[t]>>]
      BY <1>4, <2>2, <3>1 DEF Collect
    <3>. QED
      BY <1>4, <2>1, <3>1, <3>2 DEF Collect, Abstract!EndWithAnswer
  <2>3. CASE table[req[t]].kind # "reply"
    BY <1>4, <2>1, <2>3 DEF Collect, Abstract!EndWithNull
  <2>. QED
    BY <2>2, <2>3
<1>5. ASSUME NEW m \in requests \cup retry, Network(m)
      PROVE  Stutter \/ \E t \in Threads : \E n \in 1 .. calls[t] :
                            Abstract!Perform(t, n)
  <2>1. m.call \in Calls /\ m.call[1] \in Threads
        /\ m.call[2] \in 1 .. calls[m.call[1]]
    BY DEF MessagesBelong, Belongs, TypeOK, Messages
  <2>2. CASE Execute(m) \/ ExecuteUnanswered(m)
    <3>1. Abstract!Perform(m.call[1], m.call[2])
      BY <2>1, <2>2 DEF Execute, ExecuteUnanswered, threadVars, Calls,
                        Abstract!Perform
    <3>. QED
      BY <2>1, <3>1
  <2>3. CASE RetrySend(m) \/ RetryExpire(m) \/ LoseRequest(m)
    BY <2>3 DEF RetrySend, RetryExpire, LoseRequest, threadVars
  <2>. QED
    BY <1>5, <2>2, <2>3 DEF Network
<1>6. ASSUME NEW m, UpdaterLookup(m) PROVE Stutter
  BY <1>6 DEF UpdaterLookup, threadVars
<1>7. ASSUME NEW u, UpdaterPut(u) PROVE Stutter
  BY <1>7 DEF UpdaterPut, threadVars
<1>8. ASSUME NEW i, Notify(i) PROVE Calling' = Calling
  BY <1>8 DEF Notify, WaitingOn, Goto, TypeOK
<1>9. ASSUME NEW u, UpdaterNotify(u) PROVE Stutter
  BY <1>8, <1>9 DEF UpdaterNotify
<1>10. ASSUME NEW i, SweepRead(i) PROVE Stutter
  BY <1>10 DEF SweepRead, threadVars
<1>11. ASSUME SweepExpire PROVE Stutter
  BY <1>8, <1>11 DEF SweepExpire
<1>13. ASSUME NEW i, Evict(i) PROVE Stutter
  BY <1>13 DEF Evict, threadVars
<1>12. CASE UNCHANGED vars
  BY <1>12 DEF vars, Abstract!absVars
<1>. QED
  BY <1>0, <1>1, <1>2, <1>3, <1>4, <1>5, <1>6, <1>7, <1>9, <1>10, <1>11, <1>12,
     <1>13
     DEF Next, Caller, Abstract!CallNext

\* The protocol implements the abstract call interface.
THEOREM RpcImplementsCall == Spec => ImplementsCall
<1>1. Init => Abstract!CallInit
  BY DEF Init, Abstract!CallInit, NullReply, Abstract!NullReply
<1>2. RpcInv /\ [Next]_vars => [Abstract!CallNext]_(Abstract!absVars)
  BY CallStep
<1>. QED
  BY <1>1, <1>2, RpcCorrect, PTL DEF Spec, ImplementsCall, Abstract!CallSpec
================================================================================
