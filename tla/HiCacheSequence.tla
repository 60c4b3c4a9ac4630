------------------------------- MODULE HiCacheSequence -------------------------------
(***************************************************************************)
(* The sequences of a space of the cache under concurrent commands of      *)
(* MemManager.  A space is a map; its commands look it up once to check    *)
(* and once more to act, without a lock around both.  incrementAndGet      *)
(* locks the boxed number it has read: that excludes only those who have   *)
(* read the same box, and none of them reads again, so that the lock, the  *)
(* sum and the put are one step here.  A get and a put of the map are each *)
(* one step too: what two puts at once do to LinkedTreeMap's own links,    *)
(* which nothing guards, is left out.                                      *)
(***************************************************************************)
EXTENDS Integers

CONSTANTS
    Handlers,             \* threads that run commands
    Names,                \* names of sequences and stores, which share the map
    Starts, Steps,        \* the numbers of createSequence and of incrementAndGet
    MaxSpaces,            \* bound: maps made for the space
    MaxOps                \* bound: commands

ASSUME SequenceAssumption ==
    /\ Starts \subseteq Int /\ Steps \subseteq Nat \ {0}
    /\ MaxSpaces \in Nat /\ MaxOps \in Nat

SpaceOps == {"createSpace", "deleteSpace"}
ItemOps == {"createSequence", "deleteSequence", "incrementAndGet", "createStore", "deleteStore"}
Maps == 1 .. MaxSpaces

VARIABLES
    cache,                \* the map under the space's name, 0 if there is none
    spaces,               \* maps made so far
    item,                 \* item[o][n]: what map o has under n
    h,                    \* h[t]: the command of thread t
    ops,                  \* commands begun
    born,                 \* sequences made so far, which numbers them
    given,                \* history: <<sequence, number>> answered by incrementAndGet
    repeated,             \* history: sequences that answered a number no larger than one before
    overwritten           \* history: sequences an increment put over, or put back, unseen

vars == <<cache, spaces, item, h, ops, born, given, repeated, overwritten>>

Items == [kind : {"none", "sequence", "store"}, num : Int, born : Nat]
Nothing == [kind |-> "none", num |-> 0, born |-> 0]
Store == [kind |-> "store", num |-> 0, born |-> 0]

Idle == [pc |-> "idle"]
Commands == [pc : {"begun", "checked", "fetched", "read"}, op : SpaceOps \cup ItemOps,
             name : Names, by : Steps, map : 0 .. MaxSpaces, seen : Items, since : Nat]

TypeOK ==
    /\ spaces \in 0 .. MaxSpaces /\ cache \in 0 .. spaces
    /\ item \in [Maps -> [Names -> Items]]
    /\ h \in [Handlers -> Commands \cup {Idle}]
    /\ \A t \in Handlers : h[t].pc = "read" => h[t].seen.kind = "sequence"
    /\ ops \in 0 .. MaxOps /\ born \in Nat
    /\ given \subseteq Nat \X Int
    /\ repeated \subseteq Nat /\ overwritten \subseteq Nat

Init ==
    /\ cache = 0 /\ spaces = 0
    /\ item = [o \in Maps |-> [n \in Names |-> Nothing]]
    /\ h = [t \in Handlers |-> Idle]
    /\ ops = 0 /\ born = 0
    /\ given = {} /\ repeated = {} /\ overwritten = {}

At(t, op, pc) == h[t].pc = pc /\ h[t].op = op
Ends(t) == h' = [h EXCEPT ![t] = Idle]

--------------------------------------------------------------------------------
(* Up to the change: every command checks first.                           *)

Begin(t) ==
    /\ h[t] = Idle /\ ops < MaxOps /\ ops' = ops + 1
    /\ \E op \in SpaceOps \cup ItemOps, n \in Names, by \in Steps :
          h' = [h EXCEPT ![t] = [pc |-> "begun", op |-> op, name |-> n, by |-> by,
                                 map |-> 0, seen |-> Nothing, since |-> 0]]
    /\ UNCHANGED <<cache, spaces, item, born, given, repeated, overwritten>>

\* Maintenance, no session, no permission, a check that fails, a time-out that has
\* passed, or a space that is missing and whose null is dereferenced.
Refuse(t) ==
    /\ h[t].pc = "begun"
    /\ Ends(t)
    /\ UNCHANGED <<cache, spaces, item, ops, born, given, repeated, overwritten>>

\* Fault: createSequence does not look whether the name is taken.
FreeOrNot(n) == TRUE

Free(n) == item[cache][n].kind = "none"

Passes(op, n) ==
    \/ op = "createSpace" /\ cache = 0
    \/ op = "deleteSpace" /\ cache # 0
    \/ op = "createStore"
    \/ op = "createSequence" /\ cache # 0 /\ Free(n)
    \/ op \in {"incrementAndGet", "deleteSequence"} /\ cache # 0 /\ item[cache][n].kind = "sequence"
    \/ op = "deleteStore" /\ cache # 0 /\ item[cache][n].kind = "store"

\* since: maps or sequences made up to the check.
Check(t) ==
    /\ h[t].pc = "begun" /\ Passes(h[t].op, h[t].name)
    /\ h' = [h EXCEPT ![t].pc = "checked", ![t].map = cache,
                      ![t].since = IF h[t].op \in SpaceOps THEN spaces ELSE born]
    /\ UNCHANGED <<cache, spaces, item, ops, born, given, repeated, overwritten>>

--------------------------------------------------------------------------------
(* The space.                                                              *)

CreateSpace(t) ==
    /\ At(t, "createSpace", "checked")
    /\ spaces < MaxSpaces /\ spaces' = spaces + 1 /\ cache' = spaces + 1
    /\ Ends(t)
    /\ UNCHANGED <<item, ops, born, given, repeated, overwritten>>

DeleteSpace(t) ==
    /\ At(t, "deleteSpace", "checked")
    /\ cache' = 0
    /\ Ends(t)
    /\ UNCHANGED <<spaces, item, ops, born, given, repeated, overwritten>>

\* The space is looked up again.
Fetch(t) ==
    /\ h[t].pc = "checked" /\ h[t].op \in ItemOps /\ cache # 0
    /\ h' = [h EXCEPT ![t].pc = "fetched", ![t].map = cache]
    /\ UNCHANGED <<cache, spaces, item, ops, born, given, repeated, overwritten>>

\* It is gone: success is answered all the same.
NoSpace(t) ==
    /\ h[t].pc = "checked" /\ h[t].op \in ItemOps /\ cache = 0
    /\ Ends(t)
    /\ UNCHANGED <<cache, spaces, item, ops, born, given, repeated, overwritten>>

--------------------------------------------------------------------------------
(* What is in the map, which may be out of the cache by now.               *)

Put(t, i) == item' = [item EXCEPT ![h[t].map][h[t].name] = i]

CreateSequence(t) ==
    /\ At(t, "createSequence", "fetched")
    /\ born' = born + 1
    /\ \E start \in Starts : Put(t, [kind |-> "sequence", num |-> start, born |-> born + 1])
    /\ Ends(t)
    /\ UNCHANGED <<cache, spaces, ops, given, repeated, overwritten>>

\* createStore replaces whatever there is.
CreateStore(t) ==
    /\ At(t, "createStore", "fetched")
    /\ Put(t, Store)
    /\ Ends(t)
    /\ UNCHANGED <<cache, spaces, ops, born, given, repeated, overwritten>>

\* So does a deletion, whatever it has checked.  What ClearMemTask does to a store whose
\* time has passed is a deleteStore: found, looked up again by name, and removed.
Remove(t) ==
    /\ At(t, "deleteSequence", "fetched") \/ At(t, "deleteStore", "fetched")
    /\ Put(t, Nothing)
    /\ Ends(t)
    /\ UNCHANGED <<cache, spaces, ops, born, given, repeated, overwritten>>

\* Fault: no instanceof before the cast.
AnyItem(i) == TRUE

IsLong(i) == i.kind = "sequence"

\* adminIncrementAndGet reads the number once more; what is none is answered as it is.
Read(t) ==
    /\ At(t, "incrementAndGet", "fetched")
    /\ LET i == item[h[t].map][h[t].name] IN
          h' = [h EXCEPT ![t] = IF IsLong(i) THEN [@ EXCEPT !.pc = "read", !.seen = i] ELSE Idle]
    /\ UNCHANGED <<cache, spaces, item, ops, born, given, repeated, overwritten>>

\* Fault: the sum is answered and the old number put back.
OldNumber(i, by) == i

Sum(i, by) == [i EXCEPT !.num = @ + by]

Increment(t) ==
    /\ h[t].pc = "read"
    /\ LET i == h[t].seen
           there == item[h[t].map][h[t].name]
           num == i.num + h[t].by
       IN /\ Put(t, Sum(i, h[t].by))
          /\ overwritten' = IF there = i THEN overwritten
                            ELSE overwritten \cup {i.born, there.born}
          /\ given' = given \cup {<<i.born, num>>}
          /\ repeated' = IF \E g \in given : g[1] = i.born /\ num <= g[2]
                         THEN repeated \cup {i.born} ELSE repeated
    /\ Ends(t)
    /\ UNCHANGED <<cache, spaces, ops, born>>

--------------------------------------------------------------------------------
Step(t) ==
    \/ Begin(t) \/ Refuse(t) \/ Check(t) \/ CreateSpace(t) \/ DeleteSpace(t) \/ Fetch(t) \/ NoSpace(t)
    \/ CreateSequence(t) \/ CreateStore(t) \/ Remove(t) \/ Read(t) \/ Increment(t)
Next == \E t \in Handlers : Step(t)
Spec == Init /\ [][Next]_vars

--------------------------------------------------------------------------------
\* Every number a sequence answers is larger than all it has answered before, in
\* whatever map it is by now, unless an increment has put over what it had not read.
Increasing == repeated \subseteq overwritten

\* A sequence starts anew, and a space is emptied, only by a creation that had
\* checked before the one it replaces was made, or before an increment put that back.
CreatedOnce == [][
    /\ cache # 0 /\ cache' \notin {0, cache} =>
          \E t \in Handlers : At(t, "createSpace", "checked") /\ h[t].since < cache
    /\ \A o \in Maps, n \in Names :
          /\ item[o][n].kind = "sequence" /\ item[o][n].born \notin overwritten
          /\ item'[o][n].kind = "sequence" /\ item'[o][n].born = born + 1
          => \E t \in Handlers : /\ At(t, "createSequence", "fetched")
                                 /\ h[t].map = o /\ h[t].name = n /\ h[t].since < item[o][n].born
    ]_vars

================================================================================
