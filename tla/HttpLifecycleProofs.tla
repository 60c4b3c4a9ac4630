--------------------------- MODULE HttpLifecycleProofs ---------------------------
(***************************************************************************)
(* HttpInv is inductive: one lemma per action, one step per conjunct.  The  *)
(* safety properties of HttpLifecycle follow for any number of connections *)
(* and exchanges and any limit of idle connections.                        *)
(***************************************************************************)
EXTENDS HttpLifecycle, FiniteSetTheorems, TLAPS

--------------------------------------------------------------------------------
(* The queue of events as a set.                                           *)

LEMMA QueuedSame ==
    ASSUME events' = events
    PROVE  Queued' = Queued /\ (OnceQueued => OnceQueued')
BY DEF Queued, OnceQueued

LEMMA HeadTail ==
    ASSUME NEW s \in Seq(Exchanges), s # <<>>
    PROVE  Head(s) \in Exchanges /\ Tail(s) \in Seq(Exchanges)
OBVIOUS

LEMMA QueuedTail ==
    ASSUME events \in Seq(Exchanges), events # <<>>, events' = Tail(events), OnceQueued
    PROVE  /\ Queued' = Queued \ {Head(events)}
           /\ OnceQueued' /\ Head(events) \in Queued
<1>1. /\ Len(events) \in Nat \ {0} /\ DOMAIN events = 1 .. Len(events)
      /\ DOMAIN Tail(events) = 1 .. Len(events) - 1
      /\ \A i \in 1 .. Len(events) - 1 : Tail(events)[i] = events[i + 1]
      /\ Head(events) = events[1]
    OBVIOUS
<1>2. OnceQueued'
    BY <1>1 DEF OnceQueued
<1>3. Queued' \subseteq Queued \ {Head(events)}
    BY <1>1 DEF OnceQueued, Queued
<1>4. ASSUME NEW e \in Queued, e # Head(events) PROVE e \in Queued'
  <2>1. PICK i \in 1 .. Len(events) : events[i] = e
    BY <1>1, <1>4 DEF Queued
  <2>2. i # 1 /\ i - 1 \in 1 .. Len(events) - 1 /\ Tail(events)[i - 1] = e
    BY <1>1, <1>4, <2>1
  <2>. QED BY <1>1, <2>2 DEF Queued
<1>5. Head(events) \in Queued
    BY <1>1 DEF Queued
<1>. QED BY <1>2, <1>3, <1>4, <1>5

LEMMA QueuedAppend ==
    ASSUME events \in Seq(Exchanges), NEW e \in Exchanges, events' = Append(events, e),
           OnceQueued, e \notin Queued
    PROVE  Queued' = Queued \cup {e} /\ OnceQueued'
<1>1. /\ Len(events) \in Nat /\ DOMAIN events = 1 .. Len(events)
      /\ DOMAIN events' = 1 .. Len(events) + 1
      /\ \A i \in 1 .. Len(events) : events'[i] = events[i]
      /\ events'[Len(events) + 1] = e
    OBVIOUS
<1>2. \A i \in DOMAIN events' : i \in DOMAIN events \/ i = Len(events) + 1
    BY <1>1
<1>. QED BY <1>1, <1>2 DEF Queued, OnceQueued

LEMMA ZeroIsNone == 0 \notin Exchanges
BY HttpAssumption DEF Exchanges

--------------------------------------------------------------------------------
(* The counter covers the exchanges stop() must wait for.                  *)

LEMMA AwaitedFinite == IsFiniteSet(Awaited)
<1>1. IsFiniteSet(Exchanges)
    BY HttpAssumption, FS_Interval DEF Exchanges
<1>. QED BY <1>1, FS_Subset DEF Awaited

LEMMA CountShrinks ==
    ASSUME HttpInv, Awaited' \subseteq Awaited, count' = count
    PROVE  CountCovers'
<1>1. Cardinality(Awaited') <= Cardinality(Awaited)
      /\ Cardinality(Awaited') \in Nat /\ Cardinality(Awaited) \in Nat
    BY AwaitedFinite, FS_Subset, FS_CardinalityType
<1>. QED BY <1>1 DEF HttpInv, TypeOK, CountCovers

LEMMA CountGrows ==
    ASSUME HttpInv, NEW e \in Exchanges, Awaited' \subseteq Awaited \cup {e}, count' = count + 1
    PROVE  CountCovers'
<1>1. IsFiniteSet(Awaited \cup {e}) /\ Cardinality(Awaited) \in Nat
      /\ Cardinality(Awaited \cup {e}) <= Cardinality(Awaited) + 1
    BY AwaitedFinite, FS_AddElement, FS_CardinalityType
<1>2. Cardinality(Awaited') <= Cardinality(Awaited \cup {e})
      /\ Cardinality(Awaited') \in Nat /\ Cardinality(Awaited \cup {e}) \in Nat
    BY <1>1, FS_Subset, FS_CardinalityType
<1>. QED BY <1>1, <1>2 DEF HttpInv, TypeOK, CountCovers

LEMMA CountFalls ==
    ASSUME HttpInv, NEW e \in Awaited, Awaited' = Awaited \ {e}, count' = count - 1
    PROVE  CountCovers' /\ count' \in Nat
<1>1. Cardinality(Awaited') = Cardinality(Awaited) - 1
      /\ Cardinality(Awaited') \in Nat /\ Cardinality(Awaited) \in Nat
    BY AwaitedFinite, FS_RemoveElement, FS_CardinalityType
<1>. QED BY <1>1 DEF HttpInv, TypeOK, CountCovers

--------------------------------------------------------------------------------
(* The steps.                                                              *)

\* A new connection.
LEMMA AcceptKeeps ==
    ASSUME NEW c \in Conns, HttpInv,
           Accept(c)
    PROVE  HttpInv'
<1>q. Queued' = Queued /\ (OnceQueued => OnceQueued')
    BY QueuedSame DEF Accept, RequestStarted, Looping, Turn, Running
<1>1. TypeOK'
    BY DEF HttpInv, TypeOK, Places, Accept, RequestStarted, Looping, Turn, Running
<1>2. OneHolder'
    BY <1>q DEF HttpInv, TypeOK, OneHolder, Busy, Active, Accept, RequestStarted,
       Looping, Turn, Running
<1>3. StateAgrees'
    BY DEF HttpInv, TypeOK, OneHolder, Busy, Active, StateAgrees, HolderState, Accept,
       RequestStarted, Looping, Turn, Running
<1>4. HolderState'
    BY <1>q DEF HttpInv, TypeOK, OneHolder, Busy, Active, HolderState, Accept,
       RequestStarted, Looping, Turn, Running
<1>5. CountCovers'
  <2>1. Awaited' \subseteq Awaited /\ count' = count
    BY <1>q DEF HttpInv, TypeOK, OneHolder, Busy, Awaited, Accept, RequestStarted,
       Looping, Turn, Running
  <2>. QED BY <2>1, CountShrinks
<1>6. OpenIsWatched'
    BY DEF HttpInv, TypeOK, OneHolder, LateRests, OpenIsWatched, Timed, Taken, Busy,
       Accept, RequestStarted, Looping, Turn, Running
<1>7. LateRests'
    BY DEF HttpInv, TypeOK, OneHolder, Busy, Active, OpenIsWatched, LateRests,
       Accept, RequestStarted, Looping, Turn, Running
<1>. QED BY <1>1, <1>2, <1>3, <1>4, <1>5, <1>6, <1>7 DEF HttpInv

\* The accepted connection is listed.
LEMMA ListAcceptedKeeps ==
    ASSUME HttpInv,
           ListAccepted
    PROVE  HttpInv'
<1>q. Queued' = Queued /\ (OnceQueued => OnceQueued')
    BY QueuedSame DEF ListAccepted
<1>1. TypeOK'
    BY DEF HttpInv, TypeOK, Places, ListAccepted
<1>2. OneHolder'
    BY <1>q DEF HttpInv, TypeOK, OneHolder, Busy, Active, ListAccepted
<1>3. StateAgrees'
    BY DEF HttpInv, TypeOK, OneHolder, Busy, Active, StateAgrees, HolderState,
       ListAccepted
<1>4. HolderState'
    BY <1>q DEF HttpInv, TypeOK, OneHolder, Busy, Active, HolderState, ListAccepted
<1>5. CountCovers'
  <2>1. Awaited' \subseteq Awaited /\ count' = count
    BY <1>q DEF HttpInv, TypeOK, OneHolder, Busy, Awaited, ListAccepted
  <2>. QED BY <2>1, CountShrinks
<1>6. OpenIsWatched'
    BY DEF HttpInv, TypeOK, OneHolder, LateRests, OpenIsWatched, Timed, Taken, Busy,
       ListAccepted
<1>7. LateRests'
    BY DEF HttpInv, TypeOK, OneHolder, Busy, Active, OpenIsWatched, LateRests,
       ListAccepted
<1>. QED BY <1>1, <1>2, <1>3, <1>4, <1>5, <1>6, <1>7 DEF HttpInv

\* A readable connection.
LEMMA ReadableKeeps ==
    ASSUME NEW c \in Conns, NEW x \in Exchanges, HttpInv,
           Readable(c, x)
    PROVE  HttpInv'
<1>q. Queued' = Queued /\ (OnceQueued => OnceQueued')
    BY QueuedSame DEF Readable, Looping, Turn, Running, KeyCancelled,
       RequestStarted, Handle, Fresh
<1>1. TypeOK'
    BY DEF HttpInv, TypeOK, Places, Readable, Looping, Turn, Running, KeyCancelled,
       RequestStarted,
       Handle, Fresh
<1>2. OneHolder'
    BY <1>q DEF HttpInv, TypeOK, OneHolder, Busy, Active, Readable, Looping, Turn,
       Running,
       KeyCancelled, RequestStarted, Handle, Fresh
<1>3. StateAgrees'
    BY DEF HttpInv, TypeOK, OneHolder, Busy, Active, StateAgrees, HolderState,
       Readable, Looping, Turn, Running, KeyCancelled, RequestStarted, Handle, Fresh
<1>4. HolderState'
    BY <1>q DEF HttpInv, TypeOK, OneHolder, Busy, Active, HolderState, Readable,
       Looping, Turn, Running, KeyCancelled, RequestStarted, Handle, Fresh
<1>5. CountCovers'
  <2>1. Awaited' \subseteq Awaited /\ count' = count
    BY <1>q DEF HttpInv, TypeOK, OneHolder, Busy, Awaited, Readable, Looping, Turn,
       Running,
       KeyCancelled, RequestStarted, Handle, Fresh
  <2>. QED BY <2>1, CountShrinks
<1>6. OpenIsWatched'
    BY DEF HttpInv, TypeOK, OneHolder, LateRests, OpenIsWatched, Timed, Taken, Busy,
       Readable, Looping, Turn, Running, KeyCancelled, RequestStarted, Handle, Fresh
<1>7. LateRests'
    BY DEF HttpInv, TypeOK, OneHolder, Busy, Active, OpenIsWatched, LateRests,
       Readable, Looping, Turn, Running, KeyCancelled, RequestStarted, Handle, Fresh
<1>. QED BY <1>1, <1>2, <1>3, <1>4, <1>5, <1>6, <1>7 DEF HttpInv

\* The key of a closed connection.
LEMMA ReadClosedKeeps ==
    ASSUME NEW c \in Conns, HttpInv,
           ReadClosed(c)
    PROVE  HttpInv'
<1>q. Queued' = Queued /\ (OnceQueued => OnceQueued')
    BY QueuedSame DEF ReadClosed, Looping, Turn, Running, Sets
<1>1. TypeOK'
    BY DEF HttpInv, TypeOK, Places, ReadClosed, Looping, Turn, Running, Sets
<1>2. OneHolder'
    BY <1>q DEF HttpInv, TypeOK, OneHolder, Busy, Active, ReadClosed, Looping, Turn,
       Running, Sets
<1>3. StateAgrees'
    BY DEF HttpInv, TypeOK, OneHolder, Busy, Active, StateAgrees, HolderState,
       ReadClosed, Looping, Turn, Running, Sets
<1>4. HolderState'
    BY <1>q DEF HttpInv, TypeOK, OneHolder, Busy, Active, HolderState, ReadClosed,
       Looping, Turn, Running, Sets
<1>5. CountCovers'
  <2>1. Awaited' \subseteq Awaited /\ count' = count
    BY <1>q DEF HttpInv, TypeOK, OneHolder, Busy, Awaited, ReadClosed, Looping,
       Turn, Running, Sets
  <2>. QED BY <2>1, CountShrinks
<1>6. OpenIsWatched'
    BY DEF HttpInv, TypeOK, OneHolder, LateRests, OpenIsWatched, Timed, Taken, Busy,
       ReadClosed, Looping, Turn, Running, Sets
<1>7. LateRests'
    BY DEF HttpInv, TypeOK, OneHolder, Busy, Active, OpenIsWatched, LateRests,
       ReadClosed, Looping, Turn, Running, Sets
<1>. QED BY <1>1, <1>2, <1>3, <1>4, <1>5, <1>6, <1>7 DEF HttpInv

\* An event is taken; it was counted once and is queued once.
LEMMA TakeEventKeeps ==
    ASSUME HttpInv,
           TakeEvent
    PROVE  HttpInv'
<1>q. /\ Queued' = Queued \ {Head(events)}
      /\ OnceQueued' /\ Head(events) \in Queued
    BY QueuedTail DEF HttpInv, TypeOK, OneHolder, TakeEvent, Looping, Turn, Running,
       FinishedNow
<1>1. CountCovers' /\ count' \in Nat
  <2>1. Head(events) \in Exchanges /\ ex' = ex
        /\ ex[Head(events)].at \in {"responded", "done"}
    BY <1>q, HeadTail DEF HttpInv, TypeOK, OneHolder, TakeEvent
  <2>2. Head(events) \in Awaited /\ Awaited' = Awaited \ {Head(events)}
    BY <1>q, <2>1 DEF Awaited
  <2>. QED BY <2>2, CountFalls DEF TakeEvent
<1>2. TypeOK'
    BY <1>1, HeadTail DEF HttpInv, TypeOK, Places, TakeEvent, Looping, Turn,
       Running, FinishedNow
<1>3. OneHolder'
    BY <1>q, HeadTail DEF HttpInv, TypeOK, OneHolder, Busy, Active, TakeEvent,
       Looping, Turn, Running, FinishedNow
<1>4. StateAgrees'
  <2>1. Head(events) \in Exchanges /\ Busy(Head(events)) /\ ex' = ex
        /\ ex[Head(events)].conn \in Conns /\ ex[Head(events)].at \in {"responded", "done"}
    BY <1>q, HeadTail DEF HttpInv, TypeOK, OneHolder, Busy, TakeEvent
  <2>2. \A e \in Exchanges : ex[e].at \in {"handling", "remote"} /\ ~ex[e].unread
           => ex[e].conn # ex[Head(events)].conn
    BY <2>1 DEF HttpInv, OneHolder, Busy, Active
  <2>. QED BY <2>1, <2>2 DEF HttpInv, TypeOK, StateAgrees, TakeEvent
<1>5. HolderState'
    BY <1>q, HeadTail DEF HttpInv, TypeOK, OneHolder, Busy, Active, HolderState,
       TakeEvent, Looping, Turn, Running, FinishedNow
<1>6. OpenIsWatched'
    BY <1>q, HeadTail DEF HttpInv, TypeOK, OneHolder, LateRests, OpenIsWatched,
       Timed, Taken, Busy, TakeEvent, Looping, Turn, Running, FinishedNow
<1>7. LateRests'
    BY <1>q, HeadTail DEF HttpInv, TypeOK, OneHolder, Busy, Active, OpenIsWatched,
       LateRests, TakeEvent, Looping, Turn, Running, FinishedNow
<1>. QED BY <1>1, <1>2, <1>3, <1>4, <1>5, <1>6, <1>7 DEF HttpInv

\* The connection is closed after its exchange.
LEMMA EvictKeeps ==
    ASSUME HttpInv,
           taking # 0, taking' = 0, Evict(taking, ex[taking].conn),
           UNCHANGED <<idle, rsp, registered, accepting, stage, events, count, phase, late>>
    PROVE  HttpInv'
<1>q. Queued' = Queued /\ (OnceQueued => OnceQueued')
    BY QueuedSame DEF Evict, Closed
<1>1. TypeOK'
    BY DEF HttpInv, TypeOK, Places, Evict, Closed
<1>2. OneHolder'
  <2>1. taking \in Exchanges /\ ex[taking].conn \in Conns /\ Busy(taking)
    BY DEF HttpInv, TypeOK, Busy
  <2>2. \A e \in Exchanges : Busy(e)' => Busy(e) /\ e # taking
    BY <1>q, <2>1, ZeroIsNone DEF HttpInv, OneHolder, Busy, Active, Evict, Closed
  <2>3. \A e \in Exchanges : e \in Queued' \/ e = taking' => ex'[e].at \in {"responded", "done"}
    BY <1>q, ZeroIsNone DEF HttpInv, OneHolder, Evict, Closed
  <2>4. ex' = ex /\ \A d, e \in Exchanges : Busy(d)' /\ Busy(e)' /\ ex'[d].conn = ex'[e].conn => d = e
    BY <2>2 DEF HttpInv, OneHolder, Evict, Closed
  <2>5. \A e \in Exchanges :
           Busy(e)' => /\ sock'[ex'[e].conn] # "none"
                       /\ ex'[e].conn \notin registered' \cup toRegister' \cup idle'
    BY <2>1, <2>2, <2>4 DEF HttpInv, TypeOK, OneHolder, Evict, Closed
  <2>6. \A c \in toRegister' : c \notin registered' \cup idle'
    BY <2>1 DEF HttpInv, OneHolder, Evict, Closed
  <2>7. \A c \in Conns : sock'[c] = "none" => c \notin registered' \cup toRegister' \cup idle' \cup rsp'
    BY <2>1 DEF HttpInv, TypeOK, OneHolder, Evict, Closed
  <2>8. OnceQueued' /\ taking' \notin Queued'
    BY <1>q, ZeroIsNone DEF HttpInv, TypeOK, OneHolder, Queued
  <2>. QED BY <2>3, <2>4, <2>5, <2>6, <2>7, <2>8 DEF OneHolder
<1>3. StateAgrees'
    BY DEF HttpInv, TypeOK, OneHolder, Busy, Active, StateAgrees, HolderState,
       Evict, Closed
<1>4. HolderState'
    BY <1>q DEF HttpInv, TypeOK, OneHolder, Busy, Active, HolderState, Evict, Closed
<1>5. CountCovers'
  <2>1. Awaited' \subseteq Awaited /\ count' = count
    BY <1>q DEF HttpInv, TypeOK, OneHolder, Busy, Awaited, Evict, Closed
  <2>. QED BY <2>1, CountShrinks
<1>6. OpenIsWatched'
    BY DEF HttpInv, TypeOK, OneHolder, LateRests, OpenIsWatched, Timed, Taken, Busy,
       Evict, Closed
<1>7. LateRests'
    BY DEF HttpInv, TypeOK, OneHolder, Busy, Active, OpenIsWatched, LateRests,
       Evict, Closed
<1>. QED BY <1>1, <1>2, <1>3, <1>4, <1>5, <1>6, <1>7 DEF HttpInv

\* Its streams are gone or closed.
LEMMA AbortKeeps ==
    ASSUME HttpInv,
           taking # 0, taking' = 0, Abort(taking, ex[taking].conn),
           UNCHANGED <<idle, rsp, registered, accepting, stage, events, count, phase, late>>
    PROVE  HttpInv'
<1>q. Queued' = Queued /\ (OnceQueued => OnceQueued')
    BY QueuedSame DEF Abort, Closed
<1>1. TypeOK'
    BY DEF HttpInv, TypeOK, Places, Abort, Closed
<1>2. OneHolder'
  <2>1. taking \in Exchanges /\ ex[taking].conn \in Conns /\ Busy(taking)
    BY DEF HttpInv, TypeOK, Busy
  <2>2. \A e \in Exchanges : Busy(e)' => Busy(e) /\ e # taking
    BY <1>q, <2>1, ZeroIsNone DEF HttpInv, OneHolder, Busy, Active, Abort, Closed
  <2>3. \A e \in Exchanges : e \in Queued' \/ e = taking' => ex'[e].at \in {"responded", "done"}
    BY <1>q, ZeroIsNone DEF HttpInv, OneHolder, Abort, Closed
  <2>4. ex' = ex /\ \A d, e \in Exchanges : Busy(d)' /\ Busy(e)' /\ ex'[d].conn = ex'[e].conn => d = e
    BY <2>2 DEF HttpInv, OneHolder, Abort, Closed
  <2>5. \A e \in Exchanges :
           Busy(e)' => /\ sock'[ex'[e].conn] # "none"
                       /\ ex'[e].conn \notin registered' \cup toRegister' \cup idle'
    BY <2>1, <2>2, <2>4 DEF HttpInv, TypeOK, OneHolder, Abort, Closed
  <2>6. \A c \in toRegister' : c \notin registered' \cup idle'
    BY <2>1 DEF HttpInv, OneHolder, Abort, Closed
  <2>7. \A c \in Conns : sock'[c] = "none" => c \notin registered' \cup toRegister' \cup idle' \cup rsp'
    BY <2>1 DEF HttpInv, TypeOK, OneHolder, Abort, Closed
  <2>8. OnceQueued' /\ taking' \notin Queued'
    BY <1>q, ZeroIsNone DEF HttpInv, TypeOK, OneHolder, Queued
  <2>. QED BY <2>3, <2>4, <2>5, <2>6, <2>7, <2>8 DEF OneHolder
<1>3. StateAgrees'
    BY DEF HttpInv, TypeOK, OneHolder, Busy, Active, StateAgrees, HolderState,
       Abort, Closed
<1>4. HolderState'
    BY <1>q DEF HttpInv, TypeOK, OneHolder, Busy, Active, HolderState, Abort, Closed
<1>5. CountCovers'
  <2>1. Awaited' \subseteq Awaited /\ count' = count
    BY <1>q DEF HttpInv, TypeOK, OneHolder, Busy, Awaited, Abort, Closed
  <2>. QED BY <2>1, CountShrinks
<1>6. OpenIsWatched'
    BY DEF HttpInv, TypeOK, OneHolder, LateRests, OpenIsWatched, Timed, Taken, Busy,
       Abort, Closed
<1>7. LateRests'
    BY DEF HttpInv, TypeOK, OneHolder, Busy, Active, OpenIsWatched, LateRests,
       Abort, Closed
<1>. QED BY <1>1, <1>2, <1>3, <1>4, <1>5, <1>6, <1>7 DEF HttpInv

\* The next request is buffered.
LEMMA PipelineKeeps ==
    ASSUME NEW x \in Exchanges, HttpInv,
           taking # 0, taking' = 0, Pipeline(taking, ex[taking].conn, x),
           UNCHANGED <<idle, rsp, registered, accepting, stage, events, count, phase, late>>
    PROVE  HttpInv'
<1>q. Queued' = Queued /\ (OnceQueued => OnceQueued')
    BY QueuedSame DEF Pipeline, RequestStarted, Handle, Fresh
<1>1. TypeOK'
    BY DEF HttpInv, TypeOK, Places, Pipeline, RequestStarted, Handle, Fresh
<1>2. OneHolder'
  <2>1. taking \in Exchanges /\ ex[taking].conn \in Conns /\ Busy(taking)
    BY DEF HttpInv, TypeOK, Busy
  <2>0. ex' = [ex EXCEPT ![x] = [at |-> "head", conn |-> ex[taking].conn, linked |-> TRUE,
                                  unread |-> FALSE, eof |-> FALSE]]
    BY DEF Pipeline, Handle
  <2>a. ex'[x].conn = ex[taking].conn /\ \A e \in Exchanges : e # x => ex'[e] = ex[e]
    BY <2>0, <2>1 DEF HttpInv, TypeOK
  <2>b. taking \notin Queued /\ ex[taking].at \in {"responded", "done"}
    BY <2>1 DEF HttpInv, OneHolder
  <2>2. /\ \A e \in Exchanges : Busy(e)' => e = x \/ (Busy(e) /\ e # taking)
        /\ ex'[x].conn = ex[taking].conn /\ \A e \in Exchanges : e # x => ex'[e] = ex[e]
    BY <1>q, <2>a, <2>b, ZeroIsNone DEF Busy, Active
  <2>3. x # taking /\ x \notin Queued
    BY <2>1 DEF HttpInv, OneHolder, Busy, Pipeline, Handle, Fresh
  <2>4. \A e \in Exchanges : e \in Queued' \/ e = taking' => ex'[e].at \in {"responded", "done"}
    BY <1>q, <2>2, <2>3, ZeroIsNone DEF HttpInv, OneHolder
  <2>5. \A d, e \in Exchanges : Busy(d)' /\ Busy(e)' /\ ex'[d].conn = ex'[e].conn => d = e
    BY <2>1, <2>2 DEF HttpInv, OneHolder
  <2>6. \A e \in Exchanges :
           Busy(e)' => /\ sock'[ex'[e].conn] # "none"
                       /\ ex'[e].conn \notin registered' \cup toRegister' \cup idle'
    BY <2>1, <2>2 DEF HttpInv, OneHolder, Pipeline
  <2>7. \A c \in toRegister' : c \notin registered' \cup idle'
    BY DEF HttpInv, OneHolder, Pipeline
  <2>8. \A c \in Conns : sock'[c] = "none" => c \notin registered' \cup toRegister' \cup idle' \cup rsp'
    BY DEF HttpInv, OneHolder, Pipeline
  <2>9. OnceQueued' /\ taking' \notin Queued'
    BY <1>q, ZeroIsNone DEF HttpInv, TypeOK, OneHolder, Queued
  <2>. QED BY <2>4, <2>5, <2>6, <2>7, <2>8, <2>9 DEF OneHolder
<1>3. StateAgrees'
    BY DEF HttpInv, TypeOK, OneHolder, Busy, Active, StateAgrees, HolderState,
       Pipeline, RequestStarted, Handle, Fresh
<1>4. HolderState'
    BY <1>q DEF HttpInv, TypeOK, OneHolder, Busy, Active, HolderState, Pipeline,
       RequestStarted, Handle, Fresh
<1>5. CountCovers'
  <2>1. Awaited' \subseteq Awaited /\ count' = count
    BY <1>q DEF HttpInv, TypeOK, OneHolder, Busy, Awaited, Pipeline, RequestStarted,
       Handle, Fresh
  <2>. QED BY <2>1, CountShrinks
<1>6. OpenIsWatched'
    BY DEF HttpInv, TypeOK, OneHolder, LateRests, OpenIsWatched, Timed, Taken, Busy,
       Pipeline, RequestStarted, Handle, Fresh
<1>7. LateRests'
    BY DEF HttpInv, TypeOK, OneHolder, Busy, Active, OpenIsWatched, LateRests,
       Pipeline, RequestStarted, Handle, Fresh
<1>. QED BY <1>1, <1>2, <1>3, <1>4, <1>5, <1>6, <1>7 DEF HttpInv

\* The connection waits to be registered again.
LEMMA KeepKeeps ==
    ASSUME HttpInv,
           taking # 0, taking' = 0, Keep(taking, ex[taking].conn),
           UNCHANGED <<idle, rsp, registered, accepting, stage, events, count, phase, late>>
    PROVE  HttpInv'
<1>q. Queued' = Queued /\ (OnceQueued => OnceQueued')
    BY QueuedSame DEF Keep
<1>1. TypeOK'
    BY DEF HttpInv, TypeOK, Places, Keep
<1>2. OneHolder'
  <2>1. taking \in Exchanges /\ ex[taking].conn \in Conns /\ Busy(taking)
    BY DEF HttpInv, TypeOK, Busy
  <2>2. \A e \in Exchanges : Busy(e)' => Busy(e) /\ e # taking
    BY <1>q, <2>1, ZeroIsNone DEF HttpInv, OneHolder, Busy, Active, Keep
  <2>3. \A e \in Exchanges : e \in Queued' \/ e = taking' => ex'[e].at \in {"responded", "done"}
    BY <1>q, ZeroIsNone DEF HttpInv, OneHolder, Keep
  <2>4. ex' = ex /\ \A d, e \in Exchanges : Busy(d)' /\ Busy(e)' /\ ex'[d].conn = ex'[e].conn => d = e
    BY <2>2 DEF HttpInv, OneHolder, Keep
  <2>5. \A e \in Exchanges :
           Busy(e)' => /\ sock'[ex'[e].conn] # "none"
                       /\ ex'[e].conn \notin registered' \cup toRegister' \cup idle'
    BY <2>1, <2>2, <2>4 DEF HttpInv, TypeOK, OneHolder, Keep
  <2>6. \A c \in toRegister' : c \notin registered' \cup idle'
    BY <2>1 DEF HttpInv, OneHolder, Keep
  <2>7. \A c \in Conns : sock'[c] = "none" => c \notin registered' \cup toRegister' \cup idle' \cup rsp'
    BY <2>1 DEF HttpInv, TypeOK, OneHolder, Keep
  <2>8. OnceQueued' /\ taking' \notin Queued'
    BY <1>q, ZeroIsNone DEF HttpInv, TypeOK, OneHolder, Queued
  <2>. QED BY <2>3, <2>4, <2>5, <2>6, <2>7, <2>8 DEF OneHolder
<1>3. StateAgrees'
    BY DEF HttpInv, TypeOK, OneHolder, Busy, Active, StateAgrees, HolderState, Keep
<1>4. HolderState'
    BY <1>q DEF HttpInv, TypeOK, OneHolder, Busy, Active, HolderState, Keep
<1>5. CountCovers'
  <2>1. Awaited' \subseteq Awaited /\ count' = count
    BY <1>q DEF HttpInv, TypeOK, OneHolder, Busy, Awaited, Keep
  <2>. QED BY <2>1, CountShrinks
<1>6. OpenIsWatched'
    BY DEF HttpInv, TypeOK, OneHolder, LateRests, OpenIsWatched, Timed, Taken, Busy,
       Keep
<1>7. LateRests'
    BY DEF HttpInv, TypeOK, OneHolder, Busy, Active, OpenIsWatched, LateRests, Keep
<1>. QED BY <1>1, <1>2, <1>3, <1>4, <1>5, <1>6, <1>7 DEF HttpInv

\* Back to the selector.
LEMMA ReRegisterKeeps ==
    ASSUME NEW c \in Conns, HttpInv,
           ReRegister(c)
    PROVE  HttpInv'
<1>q. Queued' = Queued /\ (OnceQueued => OnceQueued')
    BY QueuedSame DEF ReRegister, Looping, Turn, Running, IdleAdded
<1>1. TypeOK'
    BY DEF HttpInv, TypeOK, Places, ReRegister, Looping, Turn, Running, IdleAdded
<1>2. OneHolder'
    BY <1>q DEF HttpInv, TypeOK, OneHolder, Busy, Active, ReRegister, Looping, Turn,
       Running, IdleAdded
<1>3. StateAgrees'
    BY DEF HttpInv, TypeOK, OneHolder, Busy, Active, StateAgrees, HolderState,
       ReRegister, Looping, Turn, Running, IdleAdded
<1>4. HolderState'
    BY <1>q DEF HttpInv, TypeOK, OneHolder, Busy, Active, HolderState, ReRegister,
       Looping, Turn, Running, IdleAdded
<1>5. CountCovers'
  <2>1. Awaited' \subseteq Awaited /\ count' = count
    BY <1>q DEF HttpInv, TypeOK, OneHolder, Busy, Awaited, ReRegister, Looping,
       Turn, Running, IdleAdded
  <2>. QED BY <2>1, CountShrinks
<1>6. OpenIsWatched'
    BY DEF HttpInv, TypeOK, OneHolder, LateRests, OpenIsWatched, Timed, Taken, Busy,
       ReRegister, Looping, Turn, Running, IdleAdded
<1>7. LateRests'
    BY DEF HttpInv, TypeOK, OneHolder, Busy, Active, OpenIsWatched, LateRests,
       ReRegister, Looping, Turn, Running, IdleAdded
<1>. QED BY <1>1, <1>2, <1>3, <1>4, <1>5, <1>6, <1>7 DEF HttpInv

\* A request that is refused.
LEMMA HeadFailsKeeps ==
    ASSUME NEW x \in Exchanges, HttpInv,
           HeadFails(x)
    PROVE  HttpInv'
<1>q. Queued' = Queued /\ (OnceQueued => OnceQueued')
    BY QueuedSame DEF HeadFails, StateMoved, Closed, Move, Sets, loopVars
<1>1. TypeOK'
    BY DEF HttpInv, TypeOK, Places, HeadFails, StateMoved, Closed, Move, Sets, loopVars
<1>2. OneHolder'
    BY <1>q DEF HttpInv, TypeOK, OneHolder, Busy, Active, HeadFails, StateMoved,
       Closed, Move,
       Sets, loopVars
<1>3. StateAgrees'
    BY DEF HttpInv, TypeOK, OneHolder, Busy, Active, StateAgrees, HolderState,
       HeadFails, StateMoved, Closed, Move, Sets, loopVars
<1>4. HolderState'
    BY <1>q DEF HttpInv, TypeOK, OneHolder, Busy, Active, HolderState, HeadFails,
       StateMoved, Closed, Move, Sets, loopVars
<1>5. CountCovers'
  <2>1. Awaited' \subseteq Awaited /\ count' = count
    BY <1>q DEF HttpInv, TypeOK, OneHolder, Busy, Awaited, HeadFails, StateMoved,
       Closed, Move,
       Sets, loopVars
  <2>. QED BY <2>1, CountShrinks
<1>6. OpenIsWatched'
    BY DEF HttpInv, TypeOK, OneHolder, LateRests, OpenIsWatched, Timed, Taken, Busy,
       HeadFails, StateMoved, Closed, Move, Sets, loopVars
<1>7. LateRests'
    BY DEF HttpInv, TypeOK, OneHolder, Busy, Active, OpenIsWatched, LateRests,
       HeadFails, StateMoved, Closed, Move, Sets, loopVars
<1>. QED BY <1>1, <1>2, <1>3, <1>4, <1>5, <1>6, <1>7 DEF HttpInv

\* A request is read; it is counted.
LEMMA HeadReadKeeps ==
    ASSUME NEW x \in Exchanges, NEW body \in BOOLEAN, HttpInv,
           HeadRead(x, body)
    PROVE  HttpInv'
<1>q. Queued' = Queued /\ (OnceQueued => OnceQueued')
    BY QueuedSame DEF HeadRead, StateMoved, Sets, loopVars
<1>1. TypeOK'
  <2>1. ex' \in [Exchanges -> [at : Places, conn : Conns, linked : BOOLEAN, unread : BOOLEAN, eof : BOOLEAN]]
    <3>. DEFINE r == [ex[x] EXCEPT !.at = "handling", !.unread = body]
    <3>1. ex' = [ex EXCEPT ![x] = r]
        BY DEF HttpInv, TypeOK, HeadRead, StateMoved, Sets, loopVars
    <3>2. ex[x] \in [at : Places, conn : Conns, linked : BOOLEAN, unread : BOOLEAN, eof : BOOLEAN]
        BY DEF HttpInv, TypeOK
    <3>3. r \in [at : Places, conn : Conns, linked : BOOLEAN, unread : BOOLEAN, eof : BOOLEAN]
        BY <3>2, Zenon DEF Places
    <3>. HIDE DEF r
    <3>. QED BY <3>1, <3>3 DEF HttpInv, TypeOK
  <2>2. count' \in Nat
    BY DEF HttpInv, TypeOK, HeadRead, StateMoved, Sets, loopVars
  <2>. QED BY <2>1, <2>2 DEF HttpInv, TypeOK, HeadRead, StateMoved, Sets, loopVars
<1>2. OneHolder'
    BY <1>q DEF HttpInv, TypeOK, OneHolder, Busy, Active, HeadRead, StateMoved, Sets,
       loopVars
<1>3. StateAgrees'
    BY DEF HttpInv, TypeOK, OneHolder, Busy, Active, StateAgrees, HolderState,
       HeadRead, StateMoved, Sets, loopVars
<1>4. HolderState'
    BY <1>q DEF HttpInv, TypeOK, OneHolder, Busy, Active, HolderState, HeadRead,
       StateMoved, Sets, loopVars
<1>5. CountCovers'
  <2>1. Awaited' \subseteq Awaited \cup {x} /\ count' = count + 1
    BY <1>q DEF HttpInv, TypeOK, Awaited, HeadRead, StateMoved, Sets, loopVars
  <2>. QED BY <2>1, CountGrows
<1>6. OpenIsWatched'
    BY DEF HttpInv, TypeOK, OneHolder, LateRests, OpenIsWatched, Timed, Taken, Busy,
       HeadRead, StateMoved, Sets, loopVars
<1>7. LateRests'
    BY DEF HttpInv, TypeOK, OneHolder, Busy, Active, OpenIsWatched, LateRests,
       HeadRead, StateMoved, Sets, loopVars
<1>. QED BY <1>1, <1>2, <1>3, <1>4, <1>5, <1>6, <1>7 DEF HttpInv

\* The body is read.
LEMMA BodyReadKeeps ==
    ASSUME NEW x \in Exchanges, HttpInv,
           BodyRead(x)
    PROVE  HttpInv'
<1>q. Queued' = Queued /\ (OnceQueued => OnceQueued')
    BY QueuedSame DEF BodyRead, RequestCompleted, loopVars
<1>1. TypeOK'
    BY DEF HttpInv, TypeOK, Places, BodyRead, RequestCompleted, loopVars
<1>2. OneHolder'
    BY <1>q DEF HttpInv, TypeOK, OneHolder, Busy, Active, BodyRead, RequestCompleted,
       loopVars
<1>3. StateAgrees'
    BY DEF HttpInv, TypeOK, OneHolder, Busy, Active, StateAgrees, HolderState,
       BodyRead, RequestCompleted, loopVars
<1>4. HolderState'
    BY <1>q DEF HttpInv, TypeOK, OneHolder, Busy, Active, HolderState, BodyRead,
       RequestCompleted, loopVars
<1>5. CountCovers'
  <2>1. Awaited' \subseteq Awaited /\ count' = count
    BY <1>q DEF HttpInv, TypeOK, OneHolder, Busy, Awaited, BodyRead, RequestCompleted,
       loopVars
  <2>. QED BY <2>1, CountShrinks
<1>6. OpenIsWatched'
    BY DEF HttpInv, TypeOK, OneHolder, LateRests, OpenIsWatched, Timed, Taken, Busy,
       BodyRead, RequestCompleted, loopVars
<1>7. LateRests'
    BY DEF HttpInv, TypeOK, OneHolder, Busy, Active, OpenIsWatched, LateRests,
       BodyRead, RequestCompleted, loopVars
<1>. QED BY <1>1, <1>2, <1>3, <1>4, <1>5, <1>6, <1>7 DEF HttpInv

\* The response ends; shared by the actor and the remote process.
LEMMA RespondKeeps ==
    ASSUME NEW x \in Exchanges, NEW place \in {"responded", "done"}, NEW eof \in BOOLEAN, HttpInv,
           ex[x].at \in {"handling", "remote"}, Respond(x, place, eof)
    PROVE  HttpInv'
<1>q. Queued' = Queued \cup {x} /\ OnceQueued'
    BY QueuedAppend DEF HttpInv, TypeOK, OneHolder, Respond, RequestCompleted, Posted,
       loopVars
<1>1. TypeOK'
  <2>1. ex' \in [Exchanges -> [at : Places, conn : Conns, linked : BOOLEAN, unread : BOOLEAN, eof : BOOLEAN]]
    <3>. DEFINE r == [ex[x] EXCEPT !.at = place, !.unread = (ex[x].unread /\ ~eof), !.eof = eof]
    <3>1. ex' = [ex EXCEPT ![x] = r]
        BY DEF HttpInv, TypeOK, Respond, RequestCompleted, Posted, loopVars
    <3>2. ex[x] \in [at : Places, conn : Conns, linked : BOOLEAN, unread : BOOLEAN, eof : BOOLEAN]
        BY DEF HttpInv, TypeOK
    <3>3. r \in [at : Places, conn : Conns, linked : BOOLEAN, unread : BOOLEAN, eof : BOOLEAN]
        BY <3>2, Zenon DEF Places
    <3>. HIDE DEF r
    <3>. QED BY <3>1, <3>3 DEF HttpInv, TypeOK
  <2>2. events' \in Seq(Exchanges)
    BY DEF HttpInv, TypeOK, Respond, RequestCompleted, Posted, loopVars
  <2>. QED BY <2>1, <2>2 DEF HttpInv, TypeOK, Respond, RequestCompleted, Posted, loopVars
<1>2. OneHolder'
    BY <1>q DEF HttpInv, TypeOK, OneHolder, Busy, Active, Respond, RequestCompleted,
       Posted, loopVars
<1>3. StateAgrees'
    BY DEF HttpInv, TypeOK, OneHolder, Busy, Active, StateAgrees, HolderState,
       Respond, RequestCompleted, Posted, loopVars
<1>4. HolderState'
    BY <1>q DEF HttpInv, TypeOK, OneHolder, Busy, Active, HolderState, Respond,
       RequestCompleted, Posted, loopVars
<1>5. CountCovers'
  <2>1. Awaited' \subseteq Awaited /\ count' = count
    BY <1>q DEF HttpInv, TypeOK, OneHolder, Busy, Awaited, Respond, RequestCompleted,
       Posted, loopVars
  <2>. QED BY <2>1, CountShrinks
<1>6. OpenIsWatched'
    BY DEF HttpInv, TypeOK, OneHolder, LateRests, OpenIsWatched, Timed, Taken, Busy,
       Respond, RequestCompleted, Posted, loopVars
<1>7. LateRests'
    BY DEF HttpInv, TypeOK, OneHolder, Busy, Active, OpenIsWatched, LateRests,
       Respond, RequestCompleted, Posted, loopVars
<1>. QED BY <1>1, <1>2, <1>3, <1>4, <1>5, <1>6, <1>7 DEF HttpInv

\* A handler that throws.
LEMMA HandlerFailsKeeps ==
    ASSUME NEW x \in Exchanges, HttpInv,
           HandlerFails(x)
    PROVE  HttpInv'
<1>q. Queued' = Queued /\ (OnceQueued => OnceQueued')
    BY QueuedSame DEF HandlerFails, Closed, Sets, loopVars
<1>1. TypeOK'
    <2>1. ex' \in [Exchanges -> [at : Places, conn : Conns,
                                 linked : BOOLEAN, unread : BOOLEAN, eof : BOOLEAN]]
        <3>1. ex \in [Exchanges -> [at : Places, conn : Conns,
                                    linked : BOOLEAN, unread : BOOLEAN, eof : BOOLEAN]]
            BY DEF HttpInv, TypeOK
        <3>2. ex' = [ex EXCEPT ![x].at = "done", ![x].linked = FALSE]
            BY DEF HandlerFails
        <3>. QED
            BY <3>1, <3>2 DEF Places
    <2>2. sock' \in [Conns -> {"none", "open", "closed"}]
        BY DEF HttpInv, TypeOK, HandlerFails, Closed
    <2>. QED
        BY <2>1, <2>2 DEF HttpInv, TypeOK, HandlerFails, Sets, loopVars
<1>2. OneHolder'
    BY <1>q DEF HttpInv, TypeOK, OneHolder, Busy, Active, HandlerFails, Closed, Sets,
       loopVars
<1>3. StateAgrees'
    BY DEF HttpInv, TypeOK, OneHolder, Busy, Active, StateAgrees, HolderState,
       HandlerFails, Closed, Sets, loopVars
<1>4. HolderState'
    BY <1>q DEF HttpInv, TypeOK, OneHolder, Busy, Active, HolderState, HandlerFails,
       Closed, Sets, loopVars
<1>5. CountCovers'
  <2>1. Awaited' \subseteq Awaited /\ count' = count
    BY <1>q DEF HttpInv, TypeOK, OneHolder, Busy, Awaited, HandlerFails, Closed, Sets,
       loopVars
  <2>. QED BY <2>1, CountShrinks
<1>6. OpenIsWatched'
    BY DEF HttpInv, TypeOK, OneHolder, LateRests, OpenIsWatched, Timed, Taken, Busy,
       HandlerFails, Closed, Sets, loopVars
<1>7. LateRests'
    BY DEF HttpInv, TypeOK, OneHolder, Busy, Active, OpenIsWatched, LateRests,
       HandlerFails, Closed, Sets, loopVars
<1>. QED BY <1>1, <1>2, <1>3, <1>4, <1>5, <1>6, <1>7 DEF HttpInv

\* The actor's finally.
LEMMA FinishKeeps ==
    ASSUME NEW x \in Exchanges, HttpInv,
           Finish(x)
    PROVE  HttpInv'
<1>q. Queued' = Queued /\ (OnceQueued => OnceQueued')
    BY QueuedSame DEF Finish, Closed, Sets, loopVars
<1>1. TypeOK'
    <2>1. ex' \in [Exchanges -> [at : Places, conn : Conns,
                                 linked : BOOLEAN, unread : BOOLEAN, eof : BOOLEAN]]
        <3>1. ex \in [Exchanges -> [at : Places, conn : Conns,
                                    linked : BOOLEAN, unread : BOOLEAN, eof : BOOLEAN]]
            BY DEF HttpInv, TypeOK
        <3>2. ex' = [ex EXCEPT ![x].at = "done", ![x].linked = FALSE]
            BY DEF Finish
        <3>. QED
            BY <3>1, <3>2 DEF Places
    <2>2. sock' \in [Conns -> {"none", "open", "closed"}]
        BY DEF HttpInv, TypeOK, Finish, Closed
    <2>. QED
        BY <2>1, <2>2 DEF HttpInv, TypeOK, Finish, Sets, loopVars
<1>2. OneHolder'
    BY <1>q DEF HttpInv, TypeOK, OneHolder, Busy, Active, Finish, Closed, Sets, loopVars
<1>3. StateAgrees'
    BY DEF HttpInv, TypeOK, OneHolder, Busy, Active, StateAgrees, HolderState, Finish,
       Closed, Sets, loopVars
<1>4. HolderState'
    BY <1>q DEF HttpInv, TypeOK, OneHolder, Busy, Active, HolderState, Finish, Closed,
       Sets, loopVars
<1>5. CountCovers'
  <2>1. Awaited' \subseteq Awaited /\ count' = count
    BY <1>q DEF HttpInv, TypeOK, OneHolder, Busy, Awaited, Finish, Closed, Sets,
       loopVars
  <2>. QED BY <2>1, CountShrinks
<1>6. OpenIsWatched'
  <2>1. \A c \in Conns : sock'[c] = "open" => sock[c] = "open"
    BY DEF HttpInv, TypeOK, Finish, Closed
  <2>2. taking' = taking /\ \A e \in Exchanges : ex'[e].conn = ex[e].conn
    BY DEF HttpInv, TypeOK, Finish, loopVars
  <2>3. Timed' = Timed /\ Taken' = Taken
    BY <2>2 DEF HttpInv, TypeOK, Timed, Taken, Finish, Sets, loopVars
  <2>. QED BY <2>1, <2>3 DEF HttpInv, OpenIsWatched, Finish, Sets, loopVars
<1>7. LateRests'
    BY DEF HttpInv, TypeOK, OneHolder, Busy, Active, OpenIsWatched, LateRests,
       Finish, Closed, Sets, loopVars
<1>. QED BY <1>1, <1>2, <1>3, <1>4, <1>5, <1>6, <1>7 DEF HttpInv

\* To another process.
LEMMA HandOffKeeps ==
    ASSUME NEW x \in Exchanges, HttpInv,
           HandOff(x)
    PROVE  HttpInv'
<1>q. Queued' = Queued /\ (OnceQueued => OnceQueued')
    BY QueuedSame DEF HandOff, Move, connVars, loopVars
<1>1. TypeOK'
    BY DEF HttpInv, TypeOK, Places, HandOff, Move, connVars, loopVars
<1>2. OneHolder'
    BY <1>q DEF HttpInv, TypeOK, OneHolder, Busy, Active, HandOff, Move, connVars,
       loopVars
<1>3. StateAgrees'
    BY DEF HttpInv, TypeOK, OneHolder, Busy, Active, StateAgrees, HolderState,
       HandOff, Move, connVars, loopVars
<1>4. HolderState'
    BY <1>q DEF HttpInv, TypeOK, OneHolder, Busy, Active, HolderState, HandOff, Move,
       connVars, loopVars
<1>5. CountCovers'
  <2>1. Awaited' \subseteq Awaited /\ count' = count
    BY <1>q DEF HttpInv, TypeOK, OneHolder, Busy, Awaited, HandOff, Move, connVars,
       loopVars
  <2>. QED BY <2>1, CountShrinks
<1>6. OpenIsWatched'
    BY DEF HttpInv, TypeOK, OneHolder, LateRests, OpenIsWatched, Timed, Taken, Busy,
       HandOff, Move, connVars, loopVars
<1>7. LateRests'
    BY DEF HttpInv, TypeOK, OneHolder, Busy, Active, OpenIsWatched, LateRests,
       HandOff, Move, connVars, loopVars
<1>. QED BY <1>1, <1>2, <1>3, <1>4, <1>5, <1>6, <1>7 DEF HttpInv

\* A reply that throws.
LEMMA ReplyFailsKeeps ==
    ASSUME NEW x \in Exchanges, HttpInv,
           ReplyFails(x)
    PROVE  HttpInv'
<1>q. Queued' = Queued /\ (OnceQueued => OnceQueued')
    BY QueuedSame DEF ReplyFails, Move, connVars, loopVars
<1>1. TypeOK'
    BY DEF HttpInv, TypeOK, Places, ReplyFails, Move, connVars, loopVars
<1>2. OneHolder'
    BY <1>q DEF HttpInv, TypeOK, OneHolder, Busy, Active, ReplyFails, Move, connVars,
       loopVars
<1>3. StateAgrees'
    BY DEF HttpInv, TypeOK, OneHolder, Busy, Active, StateAgrees, HolderState,
       ReplyFails, Move, connVars, loopVars
<1>4. HolderState'
    BY <1>q DEF HttpInv, TypeOK, OneHolder, Busy, Active, HolderState, ReplyFails,
       Move, connVars, loopVars
<1>5. CountCovers'
  <2>1. Awaited' \subseteq Awaited /\ count' = count
    BY <1>q DEF HttpInv, TypeOK, OneHolder, Busy, Awaited, ReplyFails, Move, connVars,
       loopVars
  <2>. QED BY <2>1, CountShrinks
<1>6. OpenIsWatched'
    BY DEF HttpInv, TypeOK, OneHolder, LateRests, OpenIsWatched, Timed, Taken, Busy,
       ReplyFails, Move, connVars, loopVars
<1>7. LateRests'
    BY DEF HttpInv, TypeOK, OneHolder, Busy, Active, OpenIsWatched, LateRests,
       ReplyFails, Move, connVars, loopVars
<1>. QED BY <1>1, <1>2, <1>3, <1>4, <1>5, <1>6, <1>7 DEF HttpInv

\* The idle timer.
LEMMA IdleExpiresKeeps ==
    ASSUME NEW c \in Conns, HttpInv,
           IdleExpires(c)
    PROVE  HttpInv'
<1>q. Queued' = Queued /\ (OnceQueued => OnceQueued')
    BY QueuedSame DEF IdleExpires, TimersRun, Closed, loopVars
<1>1. TypeOK'
    BY DEF HttpInv, TypeOK, Places, IdleExpires, TimersRun, Closed, loopVars
<1>2. OneHolder'
    BY <1>q DEF HttpInv, TypeOK, OneHolder, Busy, Active, IdleExpires, TimersRun,
       Closed, loopVars
<1>3. StateAgrees'
    BY DEF HttpInv, TypeOK, OneHolder, Busy, Active, StateAgrees, HolderState,
       IdleExpires, TimersRun, Closed, loopVars
<1>4. HolderState'
    BY <1>q DEF HttpInv, TypeOK, OneHolder, Busy, Active, HolderState, IdleExpires,
       TimersRun, Closed, loopVars
<1>5. CountCovers'
  <2>1. Awaited' \subseteq Awaited /\ count' = count
    BY <1>q DEF HttpInv, TypeOK, OneHolder, Busy, Awaited, IdleExpires, TimersRun,
       Closed, loopVars
  <2>. QED BY <2>1, CountShrinks
<1>6. OpenIsWatched'
    BY DEF HttpInv, TypeOK, OneHolder, LateRests, OpenIsWatched, Timed, Taken, Busy,
       IdleExpires, TimersRun, Closed, loopVars
<1>7. LateRests'
    BY DEF HttpInv, TypeOK, OneHolder, Busy, Active, OpenIsWatched, LateRests,
       IdleExpires, TimersRun, Closed, loopVars
<1>. QED BY <1>1, <1>2, <1>3, <1>4, <1>5, <1>6, <1>7 DEF HttpInv

\* The request timer.
LEMMA ReqExpiresKeeps ==
    ASSUME NEW c \in Conns, HttpInv,
           ReqExpires(c)
    PROVE  HttpInv'
<1>q. Queued' = Queued /\ (OnceQueued => OnceQueued')
    BY QueuedSame DEF ReqExpires, TimersRun, Closed, Unlisted, loopVars
<1>1. TypeOK'
    BY DEF HttpInv, TypeOK, Places, ReqExpires, TimersRun, Closed, Unlisted, loopVars
<1>2. OneHolder'
    BY <1>q DEF HttpInv, TypeOK, OneHolder, Busy, Active, ReqExpires, TimersRun,
       Closed, Unlisted, loopVars
<1>3. StateAgrees'
    BY DEF HttpInv, TypeOK, OneHolder, Busy, Active, StateAgrees, HolderState,
       ReqExpires, TimersRun, Closed, Unlisted, loopVars
<1>4. HolderState'
    BY <1>q DEF HttpInv, TypeOK, OneHolder, Busy, Active, HolderState, ReqExpires,
       TimersRun, Closed, Unlisted, loopVars
<1>5. CountCovers'
  <2>1. Awaited' \subseteq Awaited /\ count' = count
    BY <1>q DEF HttpInv, TypeOK, OneHolder, Busy, Awaited, ReqExpires, TimersRun,
       Closed, Unlisted, loopVars
  <2>. QED BY <2>1, CountShrinks
<1>6. OpenIsWatched'
    BY DEF HttpInv, TypeOK, OneHolder, LateRests, OpenIsWatched, Timed, Taken, Busy,
       ReqExpires, TimersRun, Closed, Unlisted, loopVars
<1>7. LateRests'
    BY DEF HttpInv, TypeOK, OneHolder, Busy, Active, OpenIsWatched, LateRests,
       ReqExpires, TimersRun, Closed, Unlisted, loopVars
<1>. QED BY <1>1, <1>2, <1>3, <1>4, <1>5, <1>6, <1>7 DEF HttpInv

\* The response timer.
LEMMA RspExpiresKeeps ==
    ASSUME NEW c \in Conns, HttpInv,
           RspExpires(c)
    PROVE  HttpInv'
<1>q. Queued' = Queued /\ (OnceQueued => OnceQueued')
    BY QueuedSame DEF RspExpires, TimersRun, Closed, loopVars
<1>1. TypeOK'
    BY DEF HttpInv, TypeOK, Places, RspExpires, TimersRun, Closed, loopVars
<1>2. OneHolder'
    BY <1>q DEF HttpInv, TypeOK, OneHolder, Busy, Active, RspExpires, TimersRun,
       Closed, loopVars
<1>3. StateAgrees'
    BY DEF HttpInv, TypeOK, OneHolder, Busy, Active, StateAgrees, HolderState,
       RspExpires, TimersRun, Closed, loopVars
<1>4. HolderState'
    BY <1>q DEF HttpInv, TypeOK, OneHolder, Busy, Active, HolderState, RspExpires,
       TimersRun, Closed, loopVars
<1>5. CountCovers'
  <2>1. Awaited' \subseteq Awaited /\ count' = count
    BY <1>q DEF HttpInv, TypeOK, OneHolder, Busy, Awaited, RspExpires, TimersRun,
       Closed, loopVars
  <2>. QED BY <2>1, CountShrinks
<1>6. OpenIsWatched'
    BY DEF HttpInv, TypeOK, OneHolder, LateRests, OpenIsWatched, Timed, Taken, Busy,
       RspExpires, TimersRun, Closed, loopVars
<1>7. LateRests'
    BY DEF HttpInv, TypeOK, OneHolder, Busy, Active, OpenIsWatched, LateRests,
       RspExpires, TimersRun, Closed, loopVars
<1>. QED BY <1>1, <1>2, <1>3, <1>4, <1>5, <1>6, <1>7 DEF HttpInv

\* stop() begins.
LEMMA StopBeginsKeeps ==
    ASSUME HttpInv,
           StopBegins
    PROVE  HttpInv'
<1>q. Queued' = Queued /\ (OnceQueued => OnceQueued')
    BY QueuedSame DEF StopBegins, connVars, loopVars
<1>1. TypeOK'
    BY DEF HttpInv, TypeOK, Places, StopBegins, connVars, loopVars
<1>2. OneHolder'
    BY <1>q DEF HttpInv, TypeOK, OneHolder, Busy, Active, StopBegins, connVars, loopVars
<1>3. StateAgrees'
    BY DEF HttpInv, TypeOK, OneHolder, Busy, Active, StateAgrees, HolderState,
       StopBegins, connVars, loopVars
<1>4. HolderState'
    BY <1>q DEF HttpInv, TypeOK, OneHolder, Busy, Active, HolderState, StopBegins,
       connVars, loopVars
<1>5. CountCovers'
  <2>1. Awaited' \subseteq Awaited /\ count' = count
    BY <1>q DEF HttpInv, TypeOK, OneHolder, Busy, Awaited, StopBegins, connVars,
       loopVars
  <2>. QED BY <2>1, CountShrinks
<1>6. OpenIsWatched'
    BY DEF HttpInv, TypeOK, OneHolder, LateRests, OpenIsWatched, Timed, Taken, Busy,
       StopBegins, connVars, loopVars
<1>7. LateRests'
    BY DEF HttpInv, TypeOK, OneHolder, Busy, Active, OpenIsWatched, LateRests,
       StopBegins, connVars, loopVars
<1>. QED BY <1>1, <1>2, <1>3, <1>4, <1>5, <1>6, <1>7 DEF HttpInv

\* stop() walks the list.
LEMMA StopWalksKeeps ==
    ASSUME HttpInv,
           StopWalks
    PROVE  HttpInv'
<1>q. Queued' = Queued /\ (OnceQueued => OnceQueued')
    BY QueuedSame DEF StopWalks, StopsAll, Sets
<1>1. TypeOK'
    BY DEF HttpInv, TypeOK, Places, StopWalks, StopsAll, Sets
<1>2. OneHolder'
    BY <1>q DEF HttpInv, TypeOK, OneHolder, Busy, Active, StopWalks, StopsAll, Sets
<1>3. StateAgrees'
    BY DEF HttpInv, TypeOK, OneHolder, Busy, Active, StateAgrees, HolderState,
       StopWalks, StopsAll, Sets
<1>4. HolderState'
    BY <1>q DEF HttpInv, TypeOK, OneHolder, Busy, Active, HolderState, StopWalks,
       StopsAll, Sets
<1>5. CountCovers'
  <2>1. Awaited' \subseteq Awaited /\ count' = count
    BY <1>q DEF HttpInv, TypeOK, OneHolder, Busy, Awaited, StopWalks, StopsAll, Sets
  <2>. QED BY <2>1, CountShrinks
<1>6. OpenIsWatched'
    BY DEF HttpInv, TypeOK, OneHolder, LateRests, OpenIsWatched, Timed, Taken, Busy,
       StopWalks, StopsAll, Sets
<1>7. LateRests'
    BY DEF HttpInv, TypeOK, OneHolder, Busy, Active, OpenIsWatched, LateRests,
       StopWalks, StopsAll, Sets
<1>. QED BY <1>1, <1>2, <1>3, <1>4, <1>5, <1>6, <1>7 DEF HttpInv

\* stop() ends.
LEMMA StopEndsKeeps ==
    ASSUME HttpInv,
           StopEnds
    PROVE  HttpInv'
<1>q. Queued' = Queued /\ (OnceQueued => OnceQueued')
    BY QueuedSame DEF StopEnds, loopVars
<1>1. TypeOK'
    BY DEF HttpInv, TypeOK, Places, StopEnds, loopVars
<1>2. OneHolder'
    BY <1>q DEF HttpInv, TypeOK, OneHolder, Busy, Active, StopEnds, loopVars
<1>3. StateAgrees'
    BY DEF HttpInv, TypeOK, OneHolder, Busy, Active, StateAgrees, HolderState,
       StopEnds, loopVars
<1>4. HolderState'
    BY <1>q DEF HttpInv, TypeOK, OneHolder, Busy, Active, HolderState, StopEnds,
       loopVars
<1>5. CountCovers'
  <2>1. Awaited' \subseteq Awaited /\ count' = count
    BY <1>q DEF HttpInv, TypeOK, OneHolder, Busy, Awaited, StopEnds, loopVars
  <2>. QED BY <2>1, CountShrinks
<1>6. OpenIsWatched'
    BY DEF HttpInv, TypeOK, OneHolder, LateRests, OpenIsWatched, Timed, Taken, Busy,
       StopEnds, loopVars
<1>7. LateRests'
    BY DEF HttpInv, TypeOK, OneHolder, Busy, Active, OpenIsWatched, LateRests,
       StopEnds, loopVars
<1>. QED BY <1>1, <1>2, <1>3, <1>4, <1>5, <1>6, <1>7 DEF HttpInv
--------------------------------------------------------------------------------
LEMMA InitHolds == Init => HttpInv
<1>. SUFFICES ASSUME Init PROVE HttpInv
    OBVIOUS
<1>1. Queued = {} /\ OnceQueued
    BY DEF Init, Queued, OnceQueued
<1>2. (CHOOSE c \in Conns : TRUE) \in Conns
    BY HttpAssumption
<1>3. TypeOK
  <2>1. ex \in [Exchanges -> [at : Places, conn : Conns, linked : BOOLEAN,
                              unread : BOOLEAN, eof : BOOLEAN]]
    BY <1>2 DEF Init, Places
  <2>. QED BY <2>1 DEF Init, TypeOK
<1>4. OneHolder
    BY <1>1, <1>3, ZeroIsNone DEF Init, TypeOK, OneHolder, Busy, Active
<1>5. StateAgrees /\ HolderState /\ OpenIsWatched /\ LateRests
    BY DEF Init, StateAgrees, HolderState, OpenIsWatched, LateRests
<1>6. CountCovers
  <2>1. Awaited = {}
    BY <1>1 DEF Init, Awaited
  <2>. QED BY <2>1, FS_EmptySet DEF Init, CountCovers
<1>. QED BY <1>3, <1>4, <1>5, <1>6 DEF HttpInv

LEMMA StepHolds == HttpInv /\ [Next]_vars => HttpInv'
<1>. SUFFICES ASSUME HttpInv, [Next]_vars PROVE HttpInv'
    OBVIOUS
<1>1. CASE Dispatch
  <2>1. CASE EndEvent
    <3>. PICK c \in Conns : c = ex[taking].conn
        BY <2>1 DEF EndEvent, HttpInv, TypeOK
    <3>. QED BY <2>1, EvictKeeps, AbortKeeps, PipelineKeeps, KeepKeeps DEF EndEvent
  <2>. QED BY <1>1, <2>1, TakeEventKeeps, ListAcceptedKeeps, ReRegisterKeeps,
              ReadClosedKeeps DEF Dispatch
<1>2. ASSUME NEW c \in Conns, Accept(c) \/ Timers(c) PROVE HttpInv'
    BY <1>2, AcceptKeeps, IdleExpiresKeeps, ReqExpiresKeeps, RspExpiresKeeps DEF Timers
<1>3. ASSUME NEW c \in Conns, NEW e \in Exchanges, Readable(c, e) PROVE HttpInv'
    BY <1>3, ReadableKeeps
<1>4. ASSUME NEW e \in Exchanges, Answer(e) PROVE HttpInv'
  <2>1. CASE RespondHere(e)
    BY <2>1, RespondKeeps DEF RespondHere
  <2>. QED BY <1>4, <2>1, HeadFailsKeeps, BodyReadKeeps, HandlerFailsKeeps, FinishKeeps,
              HandOffKeeps, HeadReadKeeps DEF Answer
<1>5. ASSUME NEW e \in Exchanges, Reply(e) \/ ReplyFails(e) PROVE HttpInv'
    BY <1>5, RespondKeeps, ReplyFailsKeeps DEF Reply
<1>6. CASE UNCHANGED vars
  <2>1. Queued' = Queued /\ (OnceQueued => OnceQueued')
    BY <1>6, QueuedSame DEF vars
  <2>2. Awaited' = Awaited /\ CountCovers'
    BY <1>6, <2>1 DEF vars, HttpInv, Awaited, CountCovers
  <2>. QED BY <1>6, <2>1, <2>2 DEF vars, connVars, loopVars, HttpInv, TypeOK, OneHolder,
           Busy, StateAgrees, HolderState, OpenIsWatched, Timed, Taken, LateRests
<1>. QED BY <1>1, <1>2, <1>3, <1>4, <1>5, <1>6, StopBeginsKeeps, StopWalksKeeps,
        StopEndsKeeps DEF Next

\* The inductive invariant of the HTTP core.
THEOREM HttpCorrect == Spec => []HttpInv
<1>. QED BY InitHolds, StepHolds, PTL DEF Spec

\* All variables keep their types; the count of exchanges is never negative.
THEOREM TypeCorrect == Spec => []TypeOK
<1>1. HttpInv => TypeOK
    BY DEF HttpInv
<1>. QED BY <1>1, HttpCorrect, PTL

\* No open connection is forgotten by the timers, nor by stop() unless it is being
\* accepted meanwhile.
THEOREM OpenIsWatchedCorrect == Spec => []OpenIsWatched
<1>1. HttpInv => OpenIsWatched
    BY DEF HttpInv
<1>. QED BY <1>1, HttpCorrect, PTL

\* One exchange at a time works on a connection.
THEOREM OneExchangeCorrect == Spec => []OneExchange
<1>1. HttpInv => OneExchange
    BY DEF HttpInv, OneHolder, Busy, OneExchange
<1>. QED BY <1>1, HttpCorrect, PTL

\* State and timer of a connection agree.
THEOREM StateAgreesCorrect == Spec => []StateAgrees
<1>1. HttpInv => StateAgrees
    BY DEF HttpInv
<1>. QED BY <1>1, HttpCorrect, PTL

\* stop() leaves no connection open but the one the Dispatcher was accepting.
THEOREM StopClosesCorrect == Spec => []StopCloses
<1>1. HttpInv => StopCloses
    BY DEF HttpInv, OpenIsWatched, LateRests, StopCloses
<1>. QED BY <1>1, HttpCorrect, PTL

--------------------------------------------------------------------------------
(* When finished is set nothing is left to wait for.                       *)

LEMMA FinishedIsZero ==
    ASSUME HttpInv, Next, phase' = "finished", phase # "finished"
    PROVE  count' = 0
<1>1. TakeEvent => count' = 0
    BY DEF TakeEvent, FinishedNow
<1>2. (EndEvent \/ ListAccepted \/ (\E c \in Conns : ReRegister(c) \/ ReadClosed(c))) => phase' = phase
    BY DEF EndEvent, ListAccepted, ReRegister, ReadClosed
<1>3. (\E c \in Conns : Accept(c) \/ Timers(c)) => phase' = phase
    BY DEF Accept, Timers, IdleExpires, ReqExpires, RspExpires
<1>4. (\E c \in Conns, e \in Exchanges : Readable(c, e)) => phase' = phase
    BY DEF Readable
<1>5. ASSUME NEW e \in Exchanges, Answer(e) \/ Reply(e) \/ ReplyFails(e) PROVE phase' = phase
    BY <1>5 DEF Answer, Reply, ReplyFails, HeadFails, BodyRead, RespondHere, Respond,
       HandlerFails, Finish, HandOff, HeadRead
<1>6. (StopBegins \/ StopWalks \/ StopEnds) => phase' # "finished"
    BY DEF StopBegins, StopWalks, StopEnds
<1>. QED BY <1>1, <1>2, <1>3, <1>4, <1>5, <1>6 DEF Next, Dispatch

LEMMA ZeroIsNothing ==
    ASSUME HttpInv', count' = 0
    PROVE  events' = <<>> /\ \A e \in Exchanges : ex'[e].at \notin {"handling", "remote"}
<1>1. IsFiniteSet(Exchanges)
    BY HttpAssumption, FS_Interval DEF Exchanges
<1>2. IsFiniteSet(Awaited') /\ Cardinality(Awaited') \in Nat
    BY <1>1, FS_Subset, FS_CardinalityType DEF Awaited
<1>3. Cardinality(Awaited') = 0
    BY <1>2 DEF HttpInv, CountCovers
<1>4. Awaited' = {}
    BY <1>2, <1>3, FS_EmptySet
<1>5. events' = <<>>
  <2>1. SUFFICES ASSUME events' # <<>> PROVE FALSE
    OBVIOUS
  <2>2. events' \in Seq(Exchanges)
    BY DEF HttpInv, TypeOK
  <2>3. 1 \in DOMAIN events' /\ events'[1] \in Exchanges
    BY <2>1, <2>2
  <2>. QED BY <1>4, <2>3 DEF Awaited, Queued
<1>. QED BY <1>4, <1>5 DEF Awaited

\* stop() is told that all is finished only when no handler runs, no reply is
\* awaited and no event is queued.
THEOREM StopWaitsCorrect == Spec => StopWaits
<1>1. HttpInv /\ HttpInv' /\ [Next]_vars
         => [NothingLeft]_vars
    BY FinishedIsZero, ZeroIsNothing DEF NothingLeft
<1>. QED BY <1>1, HttpCorrect, PTL DEF Spec, StopWaits

================================================================================
