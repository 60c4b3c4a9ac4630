----------------------------- MODULE HiCacheLogProofs -----------------------------
(***************************************************************************)
(* Proofs about HiCacheLog, for any entries, values and number of commands.*)
(***************************************************************************)
EXTENDS HiCacheLog, SequenceTheorems, WellFoundedInduction, TLAPS

LEMMA IdleType == Idle \in Commands
BY LogAssumption DEF Idle, Commands, Stages, NoRecord, Records

\* What every command does that is let in.
LEMMA Accepted ==
    ASSUME NEW h \in Handlers, NEW k \in Keys, NEW v \in Values \cup {None},
           Check(h, k, v) \/ UseSpace(h, k, v)
    PROVE  Accept(h, k, v) /\ Present # {}
BY DEF Check, UseSpace, Present

\* The type invariant is inductive.
LEMMA TypeInit == Init => TypeOK
<1>. SUFFICES ASSUME Init PROVE TypeOK
  OBVIOUS
<1>1. mem \in States /\ want \in [Keys -> Values \cup {None, Unknown}]
  BY DEF Init, States, Empty
<1>2. op \in [Threads -> Commands]
  BY IdleType DEF Init
<1>3. /\ queue \in Seq(Records) /\ log \in Seq(Records)
      /\ held \in Seq(Records) /\ pending \in Seq(Records)
  BY DEF Init
<1>. QED
  BY <1>1, <1>2, <1>3 DEF Init, TypeOK, DiskStates, Phases

\* The put or remove of a command keeps the types.
LEMMA ChangeType ==
    ASSUME TypeOK, NEW h \in Threads, NEW r \in Records, Change(h, r)
    PROVE  /\ mem' \in States /\ op' \in [Threads -> Commands]
           /\ excused' \subseteq Keys /\ todo' \subseteq Keys
           /\ dirty' \in BOOLEAN /\ held' \in Seq(Records)
<1>. USE DEF TypeOK, Change
<1>1. r.key \in Keys /\ r.val \in Values \cup {None}
  BY DEF Records
<1>2. mem' \in States
  BY <1>1 DEF States
<1>3. op' \in [Threads -> Commands]
  BY DEF Commands, Stages
<1>4. excused' \subseteq Keys
  BY <1>1
<1>5. todo' \subseteq Keys /\ dirty' \in BOOLEAN
  BY <1>1
<1>. QED
  BY <1>2, <1>3, <1>4, <1>5

LEMMA TypeNext == TypeOK /\ [Next]_vars => TypeOK'
<1>. SUFFICES ASSUME TypeOK, [Next]_vars PROVE TypeOK'
  OBVIOUS
<1>. USE LogAssumption, IdleType DEF TypeOK, storeVars, snapVars, bootVars, counters
<1>0. DiskStarted \in DiskStates
  BY DEF DiskStarted, DiskStates
<1>1. ASSUME NEW h \in Handlers, NEW k \in Keys, NEW v \in Values \cup {None},
             Accept(h, k, v)
      PROVE  TypeOK'
  <2>1. [stage |-> "checked", rec |-> [key |-> k, val |-> v]] \in Commands
    BY DEF Commands, Stages, Records
  <2>. QED
    BY <1>0, <1>1, <2>1 DEF Accept, Threads
<1>2. ASSUME NEW h \in Handlers, Mutate(h) PROVE TypeOK'
  <2>1. h \in Threads /\ op[h].rec \in Records
    BY DEF Threads, Commands
  <2>2. op[h].rec.key \in Keys
    BY <2>1 DEF Records
  <2>. QED
    BY <1>2, <2>1, <2>2, ChangeType DEF Mutate
<1>3. ASSUME NEW h \in Threads, Commit(h) PROVE TypeOK'
  <2>1. op[h].rec \in Records /\ op[h].rec.key \in Keys
    BY DEF Commands, Records
  <2>2. Offered(op[h].rec) \in Seq(Records)
    BY <2>1 DEF Offered
  <2>. QED
    BY <1>3, <2>1, <2>2 DEF Commit
<1>4. CASE Refuse
  BY <1>0, <1>4 DEF Refuse
<1>5. CASE Drain
  BY <1>5 DEF Drain, Written
<1>6. CASE DrainDone
  BY <1>6 DEF DrainDone, DiskStates
<1>7. CASE CompressSkip \/ CompressBegin
  BY <1>7 DEF CompressSkip, CompressBegin, LogOpened, DiskStates
<1>8. CASE Rename
  <2>1. log' \in Seq(Records) /\ want' \in [Keys -> Values \cup {None, Unknown}]
    BY <1>8 DEF Rename
  <2>. QED
    BY <1>8, <2>1 DEF Rename, DiskStates
<1>9. CASE Reopen
  BY <1>9 DEF Reopen, DiskStates
<1>10. CASE SnapshotStart
  <2>1. PICK gone \in SUBSET Expiring : SnapshotBegins(gone)
    BY <1>10 DEF SnapshotStart
  <2>2. mem' \in States /\ want' \in [Keys -> Values \cup {None, Unknown}]
    BY <2>1 DEF SnapshotBegins, States
  <2>3. flag' = FALSE /\ excused' \subseteq Keys
    BY <1>10 DEF SnapshotStart, Expiring, Present
  <2>. QED
    BY <2>1, <2>2, <2>3 DEF SnapshotBegins, DiskStates, Present
<1>11. ASSUME NEW k \in Keys, SnapshotRead(k) PROVE TypeOK'
  <2>1. [key |-> k, val |-> mem[k]] \in Records
    BY DEF States, Records
  <2>. QED
    BY <1>11, <2>1 DEF SnapshotRead
<1>12. CASE SnapshotAppend
  <2>0. Head(held) \in Records
    BY <1>12 DEF SnapshotAppend
  <2>1. Head(held) \in Records /\ Head(held).key \in Keys
    BY <2>0 DEF Records
  <2>2. queue' \in Seq(Records)
    BY <1>12, <2>1 DEF SnapshotAppend
  <2>3. held' \in Seq(Records) /\ excused' \subseteq Keys
    BY <1>12, <2>1 DEF SnapshotAppend
  <2>. QED
    BY <1>12, <2>2, <2>3 DEF SnapshotAppend
<1>13. CASE SnapshotDone \/ SnapshotAbort
  BY <1>13 DEF SnapshotDone, SnapshotAbort, DiskStates
<1>14. CASE NewDay
  BY <1>14 DEF NewDay
<1>15. CASE ReloadBegin
  BY <1>15 DEF ReloadBegin, Phases
<1>16. CASE Replay
  <2>1. Main \in Threads /\ Head(pending) \in Records
    BY <1>16 DEF Replay, Threads
  <2>. QED
    BY <1>0, <1>16, <2>1, ChangeType DEF Replay
<1>17. CASE ReplayFails \/ ReloadEnd
  <2>1. CASE ReplayFails
    <3>1. pending' \in Seq(Records)
      BY <2>1 DEF ReplayFails
    <3>. QED
      BY <1>0, <2>1, <3>1 DEF ReplayFails, Phases
  <2>2. CASE ReloadEnd
    BY <2>2 DEF ReloadEnd, Phases
  <2>. QED
    BY <1>17, <2>1, <2>2
<1>18. CASE Setup
  <2>1. ASSUME NEW v \in Values, Change(Main, [key |-> Root, val |-> v])
        PROVE  /\ mem' \in States /\ op' \in [Threads -> Commands]
               /\ excused' \subseteq Keys /\ todo' \subseteq Keys
               /\ dirty' \in BOOLEAN /\ held' \in Seq(Records)
    <3>1. Main \in Threads /\ [key |-> Root, val |-> v] \in Records
      BY DEF Threads, Records
    <3>. QED
      BY <2>1, <3>1, ChangeType
  <2>. QED
    BY <1>0, <1>18, <2>1 DEF Setup, Phases
<1>19. CASE Crash
  <2>1. want' \in [Keys -> Values \cup {None, Unknown}]
    BY <1>19 DEF Crash, States
  <2>2. mem' \in States /\ op' \in [Threads -> Commands]
    BY <1>19 DEF Crash, Empty, States
  <2>3. queue' \in Seq(Records) /\ held' \in Seq(Records) /\ pending' \in Seq(Records)
    BY <1>19 DEF Crash
  <2>4. crashes' \in Nat /\ ops' \in Nat
    BY <1>19 DEF Crash
  <2>. QED
    BY <1>19, <2>1, <2>2, <2>3, <2>4 DEF Crash, DiskStates, Phases
<1>20. CASE UNCHANGED vars
  BY <1>20 DEF vars
<1>. QED
  BY <1>1, <1>2, <1>3, <1>4, <1>5, <1>6, <1>7, <1>8, <1>9, <1>10, <1>11, <1>12,
     <1>13, <1>14, <1>15, <1>16, <1>17, <1>18, <1>19, <1>20, Accepted
     DEF Next, Command, Disk, Startup

\* Every variable of the memory, the log and the threads keeps its type.
THEOREM TypeCorrect == Spec => []TypeOK
<1>. QED
  BY TypeInit, TypeNext, PTL DEF Spec

--------------------------------------------------------------------------------
(* Effect: what a sequence of records does to one entry.                   *)

Named(s, k) == \E i \in DOMAIN s : s[i].key = k
\* The value of entry k when the records of s are applied to the value v.
Over(v, s, k) == IF Named(s, k) THEN Effect(s, k) ELSE v

\* The order of the naturals as a set of pairs is well-founded.
LEMMA LessThanWF == IsWellFoundedOn({p \in Nat \X Nat : p[1] < p[2]}, Nat)
BY NatLessThanWellFounded DEF OpToRel

\* A set of indices that is not empty has a largest.
LEMMA Largest ==
    ASSUME NEW n \in Nat, NEW T \in SUBSET (1 .. n), T # {}
    PROVE  \E i \in T : \A j \in T : j <= i
<1>. DEFINE D == {n - i : i \in T}
            R == {p \in Nat \X Nat : p[1] < p[2]}
<1>1. D \subseteq Nat /\ D # {}
  <2>1. PICK i \in T : TRUE
    OBVIOUS
  <2>2. n - i \in D /\ \A j \in T : n - j \in Nat
    BY <2>1
  <2>. QED
    BY <2>2
<1>2. PICK d \in D : \A e \in D : ~ (<<e, d>> \in R)
  <2>. HIDE DEF D, R
  <2>1. IsWellFoundedOn(R, Nat)
    BY LessThanWF DEF R
  <2>. QED
    BY <1>1, <2>1, WFMin
<1>3. \A e \in D : ~ (e < d)
  BY <1>1, <1>2
<1>4. PICK i \in T : d = n - i
  OBVIOUS
<1>5. \A j \in T : j <= i
  BY <1>3, <1>4
<1>. QED
  BY <1>5

\* No record names the entry, so nothing is left of it.
LEMMA EffectNone ==
    ASSUME NEW s, NEW k, ~Named(s, k)
    PROVE  Effect(s, k) = None
BY DEF Effect, Named

\* The last record that names the entry decides.
LEMMA EffectAt ==
    ASSUME NEW s \in Seq(Records), NEW k, NEW i \in DOMAIN s, s[i].key = k,
           \A j \in DOMAIN s : s[j].key = k => j <= i
    PROVE  Effect(s, k) = s[i].val
<1>. DEFINE mine == {j \in DOMAIN s : s[j].key = k}
            last == CHOOSE j \in mine : \A m \in mine : m <= j
<1>0. DOMAIN s = 1 .. Len(s) /\ Len(s) \in Nat
  OBVIOUS
<1>1. i \in mine /\ \A m \in mine : m <= i
  OBVIOUS
<1>2. last \in mine /\ \A m \in mine : m <= last
  BY <1>1
<1>3. last = i
  BY <1>0, <1>1, <1>2
<1>. QED
  BY <1>1, <1>3 DEF Effect

\* A sequence that names the entry has a last record that does.
LEMMA LastRecord ==
    ASSUME NEW s \in Seq(Records), NEW k, Named(s, k)
    PROVE  \E i \in DOMAIN s : /\ s[i].key = k
                               /\ \A j \in DOMAIN s : s[j].key = k => j <= i
                               /\ Effect(s, k) = s[i].val
<1>. DEFINE mine == {j \in DOMAIN s : s[j].key = k}
<1>1. DOMAIN s = 1 .. Len(s) /\ Len(s) \in Nat
  OBVIOUS
<1>2. mine \in SUBSET (1 .. Len(s)) /\ mine # {}
  BY <1>1 DEF Named
<1>3. PICK i \in mine : \A j \in mine : j <= i
  <2>. HIDE DEF mine
  <2>. QED
    BY <1>1, <1>2, Largest
<1>4. Effect(s, k) = s[i].val
  BY <1>3, EffectAt
<1>. QED
  BY <1>3, <1>4

\* Applying one sequence and then another is applying them both.
LEMMA OverConcat ==
    ASSUME NEW a \in Seq(Records), NEW b \in Seq(Records), NEW k, NEW v
    PROVE  Over(v, a \o b, k) = Over(Over(v, a, k), b, k)
<1>. DEFINE c == a \o b
<1>1. /\ c \in Seq(Records) /\ Len(c) = Len(a) + Len(b)
      /\ Len(a) \in Nat /\ Len(b) \in Nat
      /\ DOMAIN a = 1 .. Len(a) /\ DOMAIN b = 1 .. Len(b) /\ DOMAIN c = 1 .. Len(c)
      /\ \A i \in DOMAIN c : c[i] = IF i <= Len(a) THEN a[i] ELSE b[i - Len(a)]
  BY ConcatProperties
<1>. HIDE DEF c
<1>2. CASE Named(b, k)
  <2>1. PICK i \in DOMAIN b : /\ b[i].key = k
                              /\ \A j \in DOMAIN b : b[j].key = k => j <= i
                              /\ Effect(b, k) = b[i].val
    BY <1>2, LastRecord
  <2>2. Len(a) + i \in DOMAIN c /\ c[Len(a) + i] = b[i]
    BY <1>1, <2>1
  <2>3. \A j \in DOMAIN c : c[j].key = k => j <= Len(a) + i
    <3>1. SUFFICES ASSUME NEW j \in DOMAIN c, c[j].key = k PROVE j <= Len(a) + i
      OBVIOUS
    <3>2. CASE j <= Len(a)
      BY <1>1, <2>1, <3>2
    <3>3. CASE ~(j <= Len(a))
      <4>1. j - Len(a) \in DOMAIN b /\ b[j - Len(a)].key = k
        BY <1>1, <3>1, <3>3
      <4>2. j - Len(a) <= i
        BY <2>1, <4>1
      <4>. QED
        BY <1>1, <2>1, <4>2
    <3>. QED
      BY <3>2, <3>3
  <2>4. Effect(c, k) = c[Len(a) + i].val
    <3>. DEFINE last == Len(a) + i
    <3>1. last \in DOMAIN c /\ c[last].key = k /\ \A j \in DOMAIN c : c[j].key = k => j <= last
      BY <2>1, <2>2, <2>3
    <3>. HIDE DEF last
    <3>. QED
      BY <1>1, <3>1, EffectAt DEF last
  <2>5. Named(c, k)
    BY <2>1, <2>2 DEF Named
  <2>. QED
    BY <1>2, <2>1, <2>2, <2>4, <2>5 DEF Over, c
<1>3. CASE ~Named(b, k) /\ Named(a, k)
  <2>1. PICK i \in DOMAIN a : /\ a[i].key = k
                              /\ \A j \in DOMAIN a : a[j].key = k => j <= i
                              /\ Effect(a, k) = a[i].val
    BY <1>3, LastRecord
  <2>2. i \in DOMAIN c /\ c[i] = a[i]
    BY <1>1, <2>1
  <2>3. \A j \in DOMAIN c : c[j].key = k => j <= i
    <3>1. SUFFICES ASSUME NEW j \in DOMAIN c, c[j].key = k PROVE j <= i
      OBVIOUS
    <3>2. j - Len(a) \in DOMAIN b => b[j - Len(a)].key # k
      BY <1>3 DEF Named
    <3>. QED
      BY <1>1, <2>1, <3>1, <3>2
  <2>4. Effect(c, k) = c[i].val
    BY <1>1, <2>1, <2>2, <2>3, EffectAt
  <2>5. Named(c, k)
    BY <2>1, <2>2 DEF Named
  <2>. QED
    BY <1>3, <2>1, <2>2, <2>4, <2>5 DEF Over, c
<1>4. CASE ~Named(b, k) /\ ~Named(a, k)
  <2>1. ASSUME NEW j \in DOMAIN c, c[j].key = k PROVE FALSE
    <3>1. j \in DOMAIN a \/ j - Len(a) \in DOMAIN b
      BY <1>1
    <3>. QED
      BY <1>1, <1>4, <2>1, <3>1 DEF Named
  <2>. QED
    BY <1>4, <2>1 DEF Over, Named, c
<1>. QED
  BY <1>2, <1>3, <1>4

\* One record sets its own entry and no other.
LEMMA OverOne ==
    ASSUME NEW r \in Records, NEW k, NEW v
    PROVE  Over(v, <<r>>, k) = IF r.key = k THEN r.val ELSE v
<1>. DEFINE s == <<r>>
<1>1. s \in Seq(Records) /\ DOMAIN s = {1} /\ s[1] = r
  OBVIOUS
<1>. HIDE DEF s
<1>2. CASE r.key = k
  <2>1. 1 \in DOMAIN s /\ s[1].key = k /\ \A j \in DOMAIN s : s[j].key = k => j <= 1
    BY <1>1, <1>2
  <2>2. Effect(s, k) = s[1].val
    BY <1>1, <2>1, EffectAt
  <2>. QED
    BY <1>1, <1>2, <2>1, <2>2 DEF Over, Named, s
<1>3. CASE r.key # k
  BY <1>1, <1>3 DEF Over, Named, s
<1>. QED
  BY <1>2, <1>3

\* A record at the end decides for its entry.
LEMMA OverAppend ==
    ASSUME NEW s \in Seq(Records), NEW r \in Records, NEW k, NEW v
    PROVE  Over(v, Append(s, r), k) = IF r.key = k THEN r.val ELSE Over(v, s, k)
<1>. DEFINE one == <<r>>
<1>1. Append(s, r) = s \o one /\ one \in Seq(Records)
  BY AppendIsConcat
<1>2. Over(v, one, k) = IF r.key = k THEN r.val ELSE v
  BY OverOne
<1>3. Over(Over(v, s, k), one, k) = IF r.key = k THEN r.val ELSE Over(v, s, k)
  BY OverOne
<1>. HIDE DEF one
<1>. QED
  BY <1>1, <1>3, OverConcat

\* The first record may be applied before the others.
LEMMA OverTail ==
    ASSUME NEW s \in Seq(Records), s # <<>>, NEW k, NEW v
    PROVE  Over(v, s, k) =
               Over(IF Head(s).key = k THEN Head(s).val ELSE v, Tail(s), k)
<1>. DEFINE one == <<Head(s)>>
            rest == Tail(s)
<1>1. /\ Head(s) \in Records /\ rest \in Seq(Records)
      /\ one \in Seq(Records) /\ s = one \o rest
  OBVIOUS
<1>2. Over(v, one, k) = IF Head(s).key = k THEN Head(s).val ELSE v
  BY <1>1, OverOne
<1>. HIDE DEF one, rest
<1>3. Over(v, s, k) = Over(Over(v, one, k), rest, k)
  BY <1>1, OverConcat
<1>. QED
  BY <1>2, <1>3 DEF rest

\* No records, no change.
LEMMA OverEmpty ==
    ASSUME NEW k, NEW v
    PROVE  Over(v, <<>>, k) = v
BY DEF Over, Named

\* What the snapshot holds is empty or one record.
LEMMA OneRecord ==
    ASSUME NEW s \in Seq(Records), s # <<>>, Len(s) <= 1
    PROVE  Head(s) \in Records /\ s = <<Head(s)>>
<1>1. Len(s) = 1
  <2>1. \A n \in Nat : n # 0 /\ n <= 1 => n = 1
    OBVIOUS
  <2>2. Len(s) \in Nat /\ Len(s) # 0
    BY EmptySeq
  <2>. QED
    BY <2>1, <2>2
<1>2. Head(s) = s[1] /\ s[1] \in Records
  BY <1>1, ElementOfSeq
<1>. DEFINE one == <<Head(s)>>
<1>3. one \in Seq(Records) /\ Len(one) = 1 /\ one[1] = Head(s)
  BY <1>2
<1>. HIDE DEF one
<1>4. s = one
  BY <1>1, <1>2, <1>3, SeqEqual
<1>. QED
  BY <1>2, <1>4 DEF one

\* Effect starts from nothing.
LEMMA EffectIsOver ==
    ASSUME NEW s, NEW k
    PROVE  Effect(s, k) = Over(None, s, k)
BY EffectNone DEF Over

--------------------------------------------------------------------------------
(* The inductive invariant, in parts.                                      *)

\* Where the disk thread is tells what is in cache.log and in its own hands.
FileInv ==
    /\ ~logFile \/ disk \in {"renamed", "reopened"} => log = <<>>
    /\ writer /\ disk # "renamed" => logFile
    /\ disk = "closing" => writer
    /\ disk \in {"reopened", "snapshot"} => logFile
    /\ disk # "snapshot" => todo = {} /\ held = <<>>
    /\ Len(held) <= 1

\* Before start-up reads the log no command is accepted, so nothing is in memory.
Untouched ==
    /\ mem = Empty /\ queue = <<>> /\ excused = {} /\ ~tail
    /\ \A h \in Threads : op[h].stage = "idle"
    /\ todo = {} /\ held = <<>>
    /\ disk = "snapshot" => log = <<>>

\* A useSpace during the replay has changed the entry.
Moved(k) == \E h \in Handlers : op[h].stage = "mutated" /\ op[h].rec.key = k

\* While start-up replays the very file the disk thread writes, no command but a
\* useSpace is accepted, nothing is recorded, and memory is what the records read so
\* far leave.
Replaying ==
    /\ phase = "loading"
    /\ queue = <<>>
    /\ todo = {} /\ held = <<>>
    /\ flag \/ log = <<>>
    /\ disk = "snapshot" => log = <<>>
    /\ log = <<>> =>
          /\ mem = Empty /\ pending = <<>> /\ excused = {}
          /\ \A h \in Threads : op[h].stage = "idle"
    /\ \A k \in Keys \ excused :
          ~Moved(k) => Effect(log, k) = Over(mem[k], pending, k)

BootInv ==
    /\ phase = "booting" => Untouched
    /\ tail => Replaying
    /\ phase = "setup" => op[Main].stage = "idle"

\* maintenanceFlag is not up while a snapshot is written, nor, once the file that
\* is replayed was renamed away, at any time but during the renaming.
FlagInv ==
    /\ phase = "loading" /\ ~tail /\ flag => disk \in {"closing", "renamed", "reopened"}
    /\ phase \in {"setup", "up"} /\ disk = "snapshot" => ~flag

\* A change whose record is still to come is what memory holds, unless another
\* command has changed the same entry, which excuses it.
OpInv ==
    /\ \A h \in Threads :
          op[h].stage = "mutated" /\ op[h].rec.key \notin excused
             => op[h].rec.val = mem[op[h].rec.key]
    /\ \A h, g \in Threads :
          op[h].stage = "mutated" /\ op[g].stage = "mutated"
             => h = g \/ op[h].rec.key # op[g].rec.key \/ op[h].rec.key \in excused

\* A snapshot is going to write down everything that is in memory.
Heals == SnapshotDue \/ disk = "reopened"
\* Neither a race nor a change under way touches the entry.
Clean(k) == k \notin Sequences_ \cup excused /\ ~Unrecorded(k)
\* The snapshot has not appended the entry yet.
Waiting(k) == k \in todo \/ Named(held, k)

\* LogMatchesMemory already while start-up runs, and what holds in its place until
\* a snapshot is written: the queue has no record left that would bring back an
\* entry memory has lost.
MatchInv ==
    phase \in {"loading", "setup", "up"} /\ ~tail =>
       \A k \in Keys : Clean(k) =>
          /\ ~Heals /\ ~Waiting(k) => Effect(log \o queue, k) = mem[k]
          /\ Heals /\ mem[k] = None => Effect(queue, k) = None

\* Where the value a restart owes is on its way: in the file, in memory and the
\* rest of the file, in memory.
WantInv ==
    \A k \in Keys : want[k] # Unknown =>
       /\ phase = "booting" => want[k] = Effect(log, k)
       /\ phase = "loading" => want[k] = Over(mem[k], pending, k)
       /\ phase = "setup" => want[k] = mem[k]

--------------------------------------------------------------------------------
\* FileInv needs nothing else.
LEMMA FileNext == TypeOK /\ FileInv /\ [Next]_vars => FileInv'
<1>. SUFFICES ASSUME TypeOK, FileInv, [Next]_vars PROVE FileInv'
  OBVIOUS
<1>. USE DEF FileInv, TypeOK, storeVars, snapVars, bootVars, counters
<1>1. CASE Command
  <2>1. ASSUME NEW h \in Handlers, NEW k \in Keys, NEW v \in Values \cup {None},
               Accept(h, k, v)
        PROVE  FileInv'
    BY <2>1 DEF Accept, DiskStarted
  <2>2. ASSUME NEW h \in Handlers, Mutate(h) PROVE FileInv'
    BY <2>2 DEF Mutate, Change
  <2>. QED
    BY <1>1, <2>1, <2>2, Accepted DEF Command
<1>2. CASE Refuse
  BY <1>2 DEF Refuse, DiskStarted
<1>3. CASE Drain \/ DrainDone \/ CompressSkip \/ CompressBegin
  <2>1. CASE Drain
    BY <2>1 DEF Drain
  <2>2. CASE DrainDone \/ CompressSkip \/ CompressBegin
    BY <2>2 DEF DrainDone, CompressSkip, CompressBegin, LogOpened
  <2>. QED
    BY <1>3, <2>1, <2>2
<1>4. CASE Rename \/ Reopen \/ SnapshotStart
  BY <1>4 DEF Rename, Reopen, SnapshotStart, SnapshotBegins
<1>5. CASE SnapshotAppend \/ SnapshotDone \/ SnapshotAbort
  BY <1>5 DEF SnapshotAppend, SnapshotDone, SnapshotAbort
<1>6. ASSUME NEW k \in Keys, SnapshotRead(k) PROVE FileInv'
  BY <1>6 DEF SnapshotRead
<1>7. CASE Startup
  <2>1. CASE ReloadBegin \/ ReplayFails \/ ReloadEnd
    BY <2>1 DEF ReloadBegin, ReplayFails, ReloadEnd, DiskStarted
  <2>2. CASE Replay
    BY <2>2 DEF Replay, Change, DiskStarted
  <2>3. CASE Setup
    BY <2>3 DEF Setup, Change, DiskStarted
  <2>. QED
    BY <1>7, <2>1, <2>2, <2>3 DEF Startup
<1>8. CASE NewDay \/ Crash
  BY <1>8 DEF NewDay, Crash
<1>9. ASSUME NEW h \in Threads, Commit(h) PROVE FileInv'
  BY <1>9 DEF Commit
<1>10. CASE UNCHANGED vars
  BY <1>10 DEF vars
<1>. QED
  BY <1>1, <1>2, <1>3, <1>4, <1>5, <1>6, <1>7, <1>8, <1>9, <1>10 DEF Next, Disk

\* The put or remove keeps a recorded operation and its entry together.
LEMMA ChangeOp ==
    ASSUME TypeOK, OpInv, NEW h \in Threads, NEW r \in Records, Change(h, r),
           op[h].stage # "mutated"
    PROVE  OpInv'
<1>. USE DEF TypeOK, OpInv, Change, Commands
<1>0. r.key \in Keys
  BY DEF Records
<1>1. \A g \in Threads : op'[g] = IF g = h THEN [stage |-> "mutated", rec |-> r] ELSE op[g]
  OBVIOUS
<1>2. \A k \in Keys : mem'[k] = IF k = r.key THEN r.val ELSE mem[k]
  BY <1>0 DEF States
<1>3. \A g \in Threads : op[g].stage = "mutated" /\ op[g].rec.key = r.key => r.key \in excused'
  BY DEF Unrecorded
<1>4. excused \subseteq excused'
  OBVIOUS
<1>5. \A g \in Threads : op[g].rec.key \in Keys
  BY DEF Records
<1>6. ASSUME NEW g \in Threads, op'[g].stage = "mutated", op'[g].rec.key \notin excused'
      PROVE  op'[g].rec.val = mem'[op'[g].rec.key]
  <2>1. CASE g = h
    BY <1>0, <1>1, <1>2, <2>1
  <2>2. CASE g # h
    BY <1>1, <1>2, <1>3, <1>4, <1>5, <1>6, <2>2
  <2>. QED
    BY <2>1, <2>2
<1>7. ASSUME NEW g \in Threads, NEW f \in Threads, g # f, op'[g].rec.key = op'[f].rec.key,
             op'[g].stage = "mutated", op'[f].stage = "mutated"
      PROVE  op'[g].rec.key \in excused'
  <2>1. CASE g = h \/ f = h
    BY <1>1, <1>3, <1>7, <2>1
  <2>2. CASE g # h /\ f # h
    BY <1>1, <1>4, <1>7, <2>2
  <2>. QED
    BY <2>1, <2>2
<1>. QED
  BY <1>6, <1>7

\* Races on one entry are excused when they begin, and stay so.
LEMMA OpNext == TypeOK /\ BootInv /\ OpInv /\ [Next]_vars => OpInv'
<1>. SUFFICES ASSUME TypeOK, BootInv, OpInv, [Next]_vars PROVE OpInv'
  OBVIOUS
<1>. USE DEF TypeOK, storeVars, snapVars, bootVars, counters
<1>0. ASSUME UNCHANGED <<mem, op>>, excused \subseteq excused' PROVE OpInv'
  BY <1>0 DEF OpInv
<1>1. CASE Command
  <2>1. ASSUME NEW h \in Handlers, NEW k \in Keys, NEW v \in Values \cup {None},
               Accept(h, k, v)
        PROVE  OpInv'
    <3>1. \A g \in Threads :
             op'[g] = IF g = h THEN [stage |-> "checked", rec |-> [key |-> k, val |-> v]]
                      ELSE op[g]
      BY <2>1 DEF Accept
    <3>. QED
      BY <2>1, <3>1 DEF Accept, OpInv
  <2>2. ASSUME NEW h \in Handlers, Mutate(h) PROVE OpInv'
    <3>1. h \in Threads /\ op[h].rec \in Records
      BY DEF Threads, Commands
    <3>. QED
      BY <2>2, <3>1, ChangeOp DEF Mutate
  <2>. QED
    BY <1>1, <2>1, <2>2, Accepted DEF Command
<1>2. CASE Refuse \/ Drain \/ DrainDone \/ CompressSkip \/ CompressBegin \/ Rename
           \/ Reopen \/ SnapshotDone \/ SnapshotAbort \/ NewDay
           \/ ReloadBegin \/ ReplayFails \/ ReloadEnd
  BY <1>0, <1>2 DEF Refuse, Drain, DrainDone, CompressSkip, CompressBegin, Rename,
     Reopen, SnapshotDone, SnapshotAbort, NewDay, ReloadBegin, ReplayFails, ReloadEnd
<1>3. CASE SnapshotAppend
  BY <1>0, <1>3 DEF SnapshotAppend
<1>4. ASSUME NEW k \in Keys, SnapshotRead(k) PROVE OpInv'
  BY <1>0, <1>4 DEF SnapshotRead
<1>5. CASE SnapshotStart
  <2>1. PICK gone \in SUBSET Expiring : SnapshotBegins(gone)
    BY <1>5 DEF SnapshotStart
  <2>2. \A k \in Keys : k \in gone => ~Unrecorded(k)
    BY <2>1 DEF Expiring, Busy, Unrecorded
  <2>3. \A h \in Threads : op[h].rec.key \in Keys
    BY DEF Commands, Records
  <2>4. /\ UNCHANGED op
        /\ \A h \in Threads : op[h].stage = "mutated" =>
              mem'[op[h].rec.key] = mem[op[h].rec.key]
    BY <2>1, <2>2, <2>3 DEF SnapshotBegins, Unrecorded
  <2>5. \A k \in Keys : k \in excused /\ Unrecorded(k) => k \in excused'
    BY <1>5 DEF SnapshotStart
  <2>6. \A h \in Threads : op[h].stage = "mutated" /\ op[h].rec.key \in excused
            => op[h].rec.key \in excused'
    BY <2>3, <2>5 DEF Unrecorded
  <2>. QED
    BY <2>4, <2>6 DEF OpInv
<1>6. CASE Replay
  <2>1. Main \in Threads /\ Head(pending) \in Records
    BY <1>6 DEF Replay, Threads
  <2>. QED
    BY <1>6, <2>1, ChangeOp DEF Replay
<1>7. CASE Setup
  <2>1. CASE mem[Root] = None
    <3>1. PICK v \in Values : Change(Main, [key |-> Root, val |-> v])
      BY <1>7, <2>1 DEF Setup
    <3>2. Main \in Threads /\ [key |-> Root, val |-> v] \in Records
      BY LogAssumption DEF Threads, Records
    <3>. QED
      BY <1>7, <3>1, <3>2, ChangeOp DEF Setup, BootInv
  <2>2. CASE mem[Root] # None
    BY <1>0, <1>7, <2>2 DEF Setup
  <2>. QED
    BY <2>1, <2>2
<1>8. CASE Crash
  BY <1>8 DEF Crash, OpInv, Idle
<1>9. ASSUME NEW h \in Threads, Commit(h) PROVE OpInv'
  <2>1. \A g \in Threads : op'[g] = IF g = h THEN Idle ELSE op[g]
    BY <1>9 DEF Commit
  <2>2. UNCHANGED mem /\ excused \subseteq excused'
    BY <1>9 DEF Commit
  <2>3. \A g \in Threads : op'[g].stage = "mutated" => op'[g] = op[g]
    BY <2>1 DEF Idle
  <2>. QED
    BY <2>2, <2>3 DEF OpInv
<1>10. CASE UNCHANGED vars
  BY <1>0, <1>10 DEF vars
<1>. QED
  BY <1>1, <1>2, <1>3, <1>4, <1>5, <1>6, <1>7, <1>8, <1>9, <1>10
     DEF Next, Disk, Startup

\* Without entries no command passes its test.
LEMMA NothingPresent == mem = Empty => Present = {}
BY DEF Empty, Present

\* A snapshot of nothing begins: nothing expires, and nothing is to be read.
LEMMA EmptyStart ==
    ASSUME SnapshotStart, mem = Empty, excused = {}
    PROVE  /\ mem' = Empty /\ excused' = {} /\ todo' = {} /\ disk' = "snapshot"
           /\ disk = "reopened"
           /\ UNCHANGED <<op, queue, writer, storeVars, held, bootVars, counters>>
<1>1. PICK gone \in SUBSET Expiring :
          /\ SnapshotBegins(gone)
          /\ excused' = {k \in excused \cup gone :
                            \/ Unrecorded(k)
                            \/ mem'[k] = None /\ Effect(queue, k) # None}
  BY DEF SnapshotStart
<1>2. gone = {} /\ Present = {}
  BY NothingPresent DEF Expiring
<1>3. mem' = mem
  BY <1>1, <1>2 DEF SnapshotBegins, Empty
<1>. QED
  BY <1>1, <1>2, <1>3 DEF SnapshotBegins

\* While nobody has accepted a command, only the start-up thread moves.
LEMMA UntouchedNext ==
    ASSUME TypeOK, FileInv, Untouched, [Next]_vars, phase = "booting", phase' = "booting"
    PROVE  Untouched'
<1>. USE DEF TypeOK, Untouched, storeVars, snapVars, bootVars, counters
<1>1. CASE Command
  <2>1. ASSUME NEW h \in Handlers, NEW k \in Keys, NEW v \in Values \cup {None},
               Check(h, k, v) \/ UseSpace(h, k, v)
        PROVE  FALSE
    BY <2>1, NothingPresent, Accepted
  <2>2. ASSUME NEW h \in Handlers, Mutate(h) PROVE FALSE
    BY <2>2 DEF Mutate, Threads
  <2>. QED
    BY <1>1, <2>1, <2>2 DEF Command
<1>2. CASE Refuse
  BY <1>2 DEF Refuse, DiskStarted
<1>3. CASE Drain \/ SnapshotAppend \/ SnapshotAbort \/ \E k \in Keys : SnapshotRead(k)
  BY <1>3 DEF Drain, SnapshotAppend, SnapshotAbort, SnapshotRead
<1>4. CASE DrainDone \/ CompressSkip \/ CompressBegin \/ Rename \/ Reopen \/ SnapshotDone
  BY <1>4 DEF DrainDone, CompressSkip, CompressBegin, Rename, Reopen, SnapshotDone
<1>5. CASE SnapshotStart
  BY <1>5, EmptyStart DEF FileInv
<1>6. CASE Startup
  BY <1>6 DEF Startup, ReloadBegin, Replay, ReplayFails, ReloadEnd, Setup
<1>7. CASE NewDay
  BY <1>7 DEF NewDay
<1>8. CASE Crash
  BY <1>8 DEF Crash, Idle
<1>9. ASSUME NEW h \in Threads, Commit(h) PROVE Untouched'
  BY <1>9 DEF Commit
<1>10. CASE UNCHANGED vars
  BY <1>10 DEF vars
<1>. QED
  BY <1>1, <1>2, <1>3, <1>4, <1>5, <1>6, <1>7, <1>8, <1>9, <1>10 DEF Next, Disk

\* Replaying a record moves it from what is left of the file into memory.
LEMMA ReplayOver ==
    ASSUME TypeOK, Replay, NEW k \in Keys
    PROVE  Over(mem[k], pending, k) = Over(mem'[k], pending', k)
<1>. DEFINE r == Head(pending)
<1>1. r \in Records /\ r.key \in Keys /\ pending \in Seq(Records) /\ pending # <<>>
  <2>1. r \in Records
    BY DEF Replay, TypeOK
  <2>. QED
    BY <2>1 DEF Replay, TypeOK, Records
<1>2. mem'[k] = IF r.key = k THEN r.val ELSE mem[k]
  BY <1>1 DEF Replay, Change, TypeOK, States
<1>3. pending' = Tail(pending)
  BY DEF Replay
<1>. HIDE DEF r
<1>4. Over(mem[k], pending, k) = Over(IF r.key = k THEN r.val ELSE mem[k], Tail(pending), k)
  BY <1>1, OverTail DEF r
<1>. QED
  BY <1>2, <1>3, <1>4

\* A change under way keeps Replaying: memory moves with the file, or the entry
\* is exempt.
LEMMA ReplayingChange ==
    ASSUME TypeOK, Replaying, log # <<>>, NEW h \in Threads, NEW r \in Records,
           Change(h, r), op[h].stage # "mutated",
           UNCHANGED <<phase, queue, log, flag>>, disk' # "snapshot",
           \A k \in Keys : h = Main \/ k # r.key
               => Over(mem[k], pending, k) = Over(mem'[k], pending', k)
    PROVE  Replaying'
<1>. USE DEF TypeOK, Replaying, Change
<1>1. disk # "snapshot" /\ todo' = {} /\ held' = <<>>
  OBVIOUS
<1>2. op'[h] = [stage |-> "mutated", rec |-> r] /\ \A g \in Threads \ {h} : op'[g] = op[g]
  OBVIOUS
<1>3. ASSUME NEW k \in Keys, k \notin excused', ~Moved(k)'
      PROVE  Effect(log', k) = Over(mem'[k], pending', k)
  <2>1. h = Main \/ k # r.key
    BY <1>2, <1>3 DEF Moved, Threads
  <2>2. k \notin excused
    BY <1>3
  <2>3. ~Moved(k)
    BY <1>2, <1>3 DEF Moved, Threads
  <2>4. Effect(log, k) = Over(mem[k], pending, k)
    BY <2>2, <2>3
  <2>. QED
    BY <2>1, <2>4
<1>. QED
  BY <1>1, <1>3

\* While cache.log is replayed in place, nothing is recorded and nothing is written:
\* memory and the rest of the file are the file, but for the sessions a useSpace
\* has struck.
LEMMA ReplayingNext ==
    ASSUME TypeOK, FileInv, Replaying, tail, [Next]_vars, tail'
    PROVE  Replaying'
<1>. USE DEF TypeOK, Replaying, storeVars, snapVars, bootVars, counters
<1>0. ASSUME UNCHANGED <<phase, queue, excused, op, todo, held, log, mem, pending>>,
             flag' \/ log = <<>>, disk' = "snapshot" => log = <<>>
      PROVE  Replaying'
  BY <1>0 DEF Moved
<1>1. CASE Command
  <2>1. ASSUME NEW h \in Handlers, NEW k \in Keys, NEW v \in Values \cup {None},
               Check(h, k, v) \/ UseSpace(h, k, v)
        PROVE  Replaying'
    <3>1. log # <<>>
      BY <2>1, NothingPresent, Accepted
    <3>2. Accept(h, k, v)
      BY <2>1, Accepted
    <3>3. \A j \in Keys : Moved(j) => Moved(j)'
      BY <3>2 DEF Accept, Moved, Threads
    <3>. QED
      BY <3>1, <3>2, <3>3 DEF Accept, DiskStarted
  <2>2. ASSUME NEW h \in Handlers, Mutate(h) PROVE Replaying'
    <3>1. /\ h \in Threads /\ op[h].rec \in Records /\ op[h].rec.key \in Keys
          /\ h # Main
      BY LogAssumption DEF Threads, Commands, Records
    <3>2. log # <<>> /\ disk # "snapshot" /\ op[h].stage = "checked"
      BY <2>2, <3>1 DEF Mutate
    <3>3. \A k \in Keys : k # op[h].rec.key => mem'[k] = mem[k]
      BY <2>2, <3>1 DEF Mutate, Change, States
    <3>4. UNCHANGED <<phase, queue, log, flag, disk, pending>>
      BY <2>2 DEF Mutate
    <3>5. Change(h, op[h].rec)
      BY <2>2 DEF Mutate
    <3>. DEFINE r == op[h].rec
    <3>6. \A k \in Keys : h = Main \/ k # r.key
              => Over(mem[k], pending, k) = Over(mem'[k], pending', k)
      BY <3>1, <3>3, <3>4
    <3>7. r \in Records /\ Change(h, r)
      BY <3>1, <3>5
    <3>. HIDE DEF r
    <3>. QED
      BY <3>1, <3>2, <3>4, <3>6, <3>7, ReplayingChange
  <2>. QED
    BY <1>1, <2>1, <2>2 DEF Command
<1>2. CASE Refuse
  BY <1>0, <1>2 DEF Refuse, DiskStarted
<1>3. CASE Drain \/ SnapshotAppend \/ SnapshotAbort \/ Rename
           \/ \E k \in Keys : SnapshotRead(k)
  BY <1>3 DEF Drain, SnapshotAppend, SnapshotAbort, SnapshotRead, Rename
<1>4. CASE DrainDone \/ CompressSkip \/ CompressBegin \/ Reopen \/ SnapshotDone
  BY <1>0, <1>4 DEF DrainDone, CompressSkip, CompressBegin, Reopen, SnapshotDone
<1>5. CASE SnapshotStart
  <2>1. log = <<>> /\ mem = Empty /\ excused = {}
    BY <1>5 DEF SnapshotStart, SnapshotBegins, FileInv
  <2>. QED
    BY <1>0, <1>5, <2>1, EmptyStart
<1>6. CASE Replay
  <2>1. log # <<>> /\ disk # "snapshot"
    BY <1>6 DEF Replay
  <2>2. Main \in Threads /\ Head(pending) \in Records /\ op[Main].stage = "idle"
    BY <1>6 DEF Replay, Threads
  <2>3. \A k \in Keys : Over(mem[k], pending, k) = Over(mem'[k], pending', k)
    BY <1>6, ReplayOver
  <2>4. /\ Change(Main, Head(pending)) /\ UNCHANGED <<phase, queue, log, flag>>
        /\ disk' # "snapshot"
    BY <1>6, <2>1 DEF Replay, DiskStarted
  <2>. QED
    BY <2>1, <2>2, <2>3, <2>4, ReplayingChange
<1>7. CASE ReloadBegin \/ ReplayFails \/ ReloadEnd \/ Setup \/ Crash
  BY <1>7 DEF ReloadBegin, ReplayFails, ReloadEnd, Setup, Crash
<1>8. CASE NewDay
  BY <1>0, <1>8 DEF NewDay
<1>9. ASSUME NEW h \in Threads, Commit(h) PROVE Replaying'
  <2>1. flag /\ log # <<>> /\ op[h].stage = "mutated"
    BY <1>9 DEF Commit
  <2>2. /\ UNCHANGED <<phase, queue, todo, held, log, flag, mem, pending, disk>>
        /\ \A g \in Threads \ {h} : op'[g] = op[g]
        /\ h # Main => op[h].rec.key \in excused'
        /\ excused \subseteq excused'
    BY <1>9, <2>1 DEF Commit, Offered, Lost
  <2>3. ASSUME NEW k \in Keys, k \notin excused', ~Moved(k)'
        PROVE  Effect(log', k) = Over(mem'[k], pending', k)
    <3>1. k \notin excused /\ ~Moved(k)
      BY <2>2, <2>3, LogAssumption DEF Moved, Threads
    <3>. QED
      BY <2>2, <3>1
  <2>. QED
    BY <2>1, <2>2, <2>3
<1>10. CASE UNCHANGED vars
  BY <1>0, <1>10 DEF vars
<1>. QED
  BY <1>1, <1>2, <1>3, <1>4, <1>5, <1>6, <1>7, <1>8, <1>9, <1>10
     DEF Next, Disk, Startup

\* Start-up takes over an untouched memory.
LEMMA BootNext == TypeOK /\ FileInv /\ BootInv /\ [Next]_vars => BootInv'
<1>. SUFFICES ASSUME TypeOK, FileInv, BootInv, [Next]_vars PROVE BootInv'
  OBVIOUS
<1>. USE DEF TypeOK, BootInv, storeVars, snapVars, bootVars, counters
<1>1. CASE Command
  <2>1. UNCHANGED <<phase, tail>> /\ op'[Main] = op[Main]
    <3>1. ASSUME NEW h \in Handlers, NEW k \in Keys, NEW v \in Values \cup {None},
                 Accept(h, k, v)
          PROVE  UNCHANGED <<phase, tail>> /\ op'[Main] = op[Main]
      BY <3>1, LogAssumption DEF Accept, Threads
    <3>2. ASSUME NEW h \in Handlers, Mutate(h)
          PROVE  UNCHANGED <<phase, tail>> /\ op'[Main] = op[Main]
      BY <3>2, LogAssumption DEF Mutate, Change, Threads
    <3>. QED
      BY <1>1, <3>1, <3>2, Accepted DEF Command
  <2>. QED
    BY <2>1, UntouchedNext, ReplayingNext
<1>2. CASE Refuse \/ Disk \/ NewDay
  <2>1. phase' = phase /\ (tail' => tail) /\ UNCHANGED op
    BY <1>2 DEF Refuse, Disk, NewDay, Drain, DrainDone, CompressSkip, CompressBegin,
       Rename, Reopen, SnapshotStart, SnapshotBegins, SnapshotRead, SnapshotAppend,
       SnapshotDone, SnapshotAbort
  <2>. QED
    BY <2>1, UntouchedNext, ReplayingNext
<1>3. CASE ReloadBegin
  <2>1. Untouched
    BY <1>3 DEF ReloadBegin
  <2>2. Main \in Threads
    BY DEF Threads
  <2>3. CASE logFile
    <3>1. \A k \in Keys : Effect(log', k) = Over(mem'[k], pending', k)
      BY <1>3, <2>1, <2>3, EffectIsOver DEF ReloadBegin, Untouched, Empty
    <3>2. Replaying'
      BY <1>3, <2>1, <2>2, <2>3, <3>1 DEF ReloadBegin, Replaying, Untouched, Threads
    <3>. QED
      BY <1>3, <2>3, <3>2 DEF ReloadBegin
  <2>4. CASE ~logFile
    BY <1>3, <2>1, <2>2, <2>4 DEF ReloadBegin, Untouched
  <2>. QED
    BY <2>3, <2>4
<1>4. CASE Replay
  <2>1. UNCHANGED <<phase, tail>> /\ phase = "loading"
    BY <1>4 DEF Replay
  <2>. QED
    BY <2>1, ReplayingNext
<1>5. CASE ReplayFails \/ ReloadEnd
  BY <1>5 DEF ReplayFails, ReloadEnd
<1>6. CASE Setup
  BY <1>6 DEF Setup, Replaying
<1>7. CASE Crash
  BY <1>7 DEF Crash, Untouched, Idle
<1>8. ASSUME NEW h \in Threads, Commit(h) PROVE BootInv'
  <2>1. UNCHANGED <<phase, tail>> /\ (op[Main].stage = "idle" => op'[Main].stage = "idle")
    BY <1>8 DEF Commit, Idle, Threads
  <2>. QED
    BY <2>1, UntouchedNext, ReplayingNext
<1>9. CASE UNCHANGED vars
  <2>1. UNCHANGED <<phase, tail, op>>
    BY <1>9 DEF vars
  <2>. QED
    BY <2>1, UntouchedNext, ReplayingNext
<1>. QED
  BY <1>1, <1>2, <1>3, <1>4, <1>5, <1>6, <1>7, <1>8, <1>9 DEF Next, Startup

\* The flag falls before the snapshot begins.
LEMMA FlagNext == TypeOK /\ FileInv /\ BootInv /\ FlagInv /\ [Next]_vars => FlagInv'
<1>. SUFFICES ASSUME TypeOK, FileInv, BootInv, FlagInv, [Next]_vars PROVE FlagInv'
  OBVIOUS
<1>. USE DEF TypeOK, FlagInv, storeVars, snapVars, bootVars, counters
<1>1. CASE Command
  <2>1. UNCHANGED <<flag, phase, tail>> /\ disk' \in {disk, DiskStarted}
    <3>1. ASSUME NEW h \in Handlers, NEW k \in Keys, NEW v \in Values \cup {None},
                 Accept(h, k, v)
          PROVE  UNCHANGED <<flag, phase, tail>> /\ disk' \in {disk, DiskStarted}
      BY <3>1 DEF Accept
    <3>2. ASSUME NEW h \in Handlers, Mutate(h)
          PROVE  UNCHANGED <<flag, phase, tail>> /\ disk' \in {disk, DiskStarted}
      BY <3>2 DEF Mutate
    <3>. QED
      BY <1>1, <3>1, <3>2, Accepted DEF Command
  <2>. QED
    BY <2>1 DEF DiskStarted
<1>2. CASE Refuse \/ Drain \/ DrainDone \/ CompressSkip \/ CompressBegin \/ NewDay
  BY <1>2 DEF Refuse, DiskStarted, Drain, DrainDone, CompressSkip, CompressBegin, NewDay
<1>3. CASE Rename \/ Reopen \/ SnapshotStart
  BY <1>3 DEF Rename, Reopen, SnapshotStart, SnapshotBegins
<1>4. CASE SnapshotAppend \/ SnapshotDone \/ SnapshotAbort \/ \E k \in Keys : SnapshotRead(k)
  BY <1>4 DEF SnapshotAppend, SnapshotDone, SnapshotAbort, SnapshotRead
<1>5. CASE ReloadBegin
  BY <1>5 DEF ReloadBegin, FileInv
<1>6. CASE Replay \/ ReplayFails \/ ReloadEnd \/ Setup
  BY <1>6 DEF Replay, ReplayFails, ReloadEnd, Setup, DiskStarted
<1>7. CASE Crash
  BY <1>7 DEF Crash
<1>8. ASSUME NEW h \in Threads, Commit(h) PROVE FlagInv'
  BY <1>8 DEF Commit
<1>9. CASE UNCHANGED vars
  BY <1>9 DEF vars
<1>. QED
  BY <1>1, <1>2, <1>3, <1>4, <1>5, <1>6, <1>7, <1>8, <1>9 DEF Next, Disk, Startup

--------------------------------------------------------------------------------
\* Entry k on its way through the log: while no snapshot is due, log and queue
\* replay to what memory holds; while one is, no record outlives the entry.
Match(k) ==
    /\ ~Heals /\ ~Waiting(k) => Effect(log \o queue, k) = mem[k]
    /\ Heals /\ mem[k] = None => Effect(queue, k) = None

\* Start-up has left the file alone, or has read it all.
Active == phase \in {"loading", "setup", "up"} /\ ~tail

\* MatchInv for one entry.
LEMMA MatchAt ==
    ASSUME MatchInv, Active, NEW k \in Keys, Clean(k)
    PROVE  Match(k)
BY DEF MatchInv, Active, Match

\* What concatenation does to one entry.
LEMMA QueueDecides ==
    ASSUME NEW a \in Seq(Records), NEW b \in Seq(Records), NEW k
    PROVE  /\ Effect(a \o b, k) = Over(Effect(a, k), b, k)
           /\ Effect(a \o b, k) = None => Effect(b, k) = None
<1>1. a \o b \in Seq(Records)
  OBVIOUS
<1>2. Effect(a \o b, k) = Over(Effect(a, k), b, k)
  BY <1>1, OverConcat, EffectIsOver
<1>. QED
  BY <1>2, EffectNone DEF Over

\* Appending to the queue.
LEMMA EffectAppend ==
    ASSUME NEW s \in Seq(Records), NEW r \in Records, NEW k
    PROVE  Effect(Append(s, r), k) = IF r.key = k THEN r.val ELSE Effect(s, k)
BY OverAppend, EffectIsOver

\* Appending to the queue, seen from the start of the log.
LEMMA BothAppend ==
    ASSUME NEW a \in Seq(Records), NEW s \in Seq(Records), NEW r \in Records, NEW k
    PROVE  Effect(a \o Append(s, r), k) = IF r.key = k THEN r.val ELSE Effect(a \o s, k)
<1>. DEFINE c == a \o s
<1>1. c \in Seq(Records) /\ a \o Append(s, r) = Append(c, r)
  OBVIOUS
<1>2. Effect(Append(c, r), k) = IF r.key = k THEN r.val ELSE Effect(c, k)
  <2>. HIDE DEF c
  <2>. QED
    BY <1>1, EffectAppend
<1>. QED
  BY <1>1, <1>2

\* A step that leaves the entry alone keeps Match.
LEMMA MatchKept ==
    ASSUME NEW k \in Keys, Match(k), Effect((log \o queue)', k) = Effect(log \o queue, k),
           Effect(queue', k) = Effect(queue, k),
           mem'[k] = mem[k], Heals' = Heals, Waiting(k) => Waiting(k)'
    PROVE  Match(k)'
BY DEF Match

\* A step after which a snapshot is due.
LEMMA MatchHealed ==
    ASSUME TypeOK, NEW k \in Keys, Match(k), UNCHANGED <<log, queue, mem>>,
           Heals', ~Waiting(k)
    PROVE  Match(k)'
BY QueueDecides DEF Match, TypeOK

\* Changing one entry leaves the others alone.
LEMMA ChangeOthers ==
    ASSUME TypeOK, NEW h \in Threads, NEW r \in Records, Change(h, r),
           op[h].stage # "mutated", NEW k \in Keys, Clean(k)'
    PROVE  /\ k # r.key /\ mem'[k] = mem[k] /\ Clean(k)
           /\ Waiting(k) => Waiting(k)'
<1>. USE DEF TypeOK, Change, Commands
<1>0. r.key \in Keys
  BY DEF Records
<1>1. op'[h] = [stage |-> "mutated", rec |-> r] /\ \A g \in Threads \ {h} : op'[g] = op[g]
  OBVIOUS
<1>2. Unrecorded(r.key)'
  BY <1>1 DEF Unrecorded
<1>3. k # r.key
  BY <1>2 DEF Clean
<1>4. Unrecorded(k) => Unrecorded(k)'
  BY <1>1 DEF Unrecorded
<1>5. Clean(k)
  BY <1>4 DEF Clean
<1>6. k \in todo => k \in todo'
  BY <1>3
<1>7. mem'[k] = mem[k]
  BY <1>0, <1>3 DEF States
<1>. QED
  BY <1>3, <1>5, <1>6, <1>7 DEF Waiting, Named

\* A record of the entry itself: what was offered is what memory holds, what was
\* turned away is made good by the snapshot that is due, or is excused.
LEMMA CommitMatch ==
    ASSUME TypeOK, OpInv, MatchInv, Active, NEW h \in Threads, Commit(h),
           NEW k \in Keys, Clean(k)'
    PROVE  Match(k)'
<1>. DEFINE r == op[h].rec
<1>. USE DEF TypeOK
<1>1. r \in Records /\ op[h].stage = "mutated"
  BY DEF Commands, Commit
<1>2. /\ queue' = Offered(r)
      /\ excused' = IF Lost(h, r) THEN excused \cup {r.key} ELSE excused
      /\ UNCHANGED <<mem, flag, log, disk, backup, todo, held, tail>>
      /\ \A g \in Threads \ {h} : op'[g] = op[g]
  BY DEF Commit, storeVars, snapVars, bootVars
<1>. HIDE DEF r
<1>3. Heals' = Heals /\ (Waiting(k) => Waiting(k)')
  BY <1>2 DEF Heals, SnapshotDue, Waiting, Named
<1>4. CASE k # r.key
  <2>1. Unrecorded(k) => Unrecorded(k)'
    BY <1>2, <1>4 DEF Unrecorded, r
  <2>2. Clean(k)
    BY <1>2, <2>1 DEF Clean
  <2>3. Match(k)
    BY <2>2, MatchAt
  <2>4. queue' = queue \/ queue' = Append(queue, r)
    BY <1>2 DEF Offered
  <2>5. Effect(Append(queue, r), k) = Effect(queue, k)
    BY <1>1, <1>4, EffectAppend
  <2>6. Effect(log \o Append(queue, r), k) = Effect(log \o queue, k)
    BY <1>1, <1>4, BothAppend
  <2>7. /\ Effect(queue', k) = Effect(queue, k)
        /\ Effect((log \o queue)', k) = Effect(log \o queue, k)
    BY <1>2, <2>4, <2>5, <2>6
  <2>. QED
    BY <1>2, <1>3, <2>3, <2>7, MatchKept
<1>5. CASE k = r.key
  <2>1. ~Lost(h, r) /\ k \notin excused /\ Logged(r)
    BY <1>2, <1>5 DEF Clean, Logged
  <2>2. r.val = mem[k]
    BY <1>1, <1>5, <2>1 DEF OpInv, r
  <2>3. CASE ~flag
    <3>1. queue' = Append(queue, r)
      BY <1>2, <2>1, <2>3 DEF Offered
    <3>2. Effect(queue', k) = mem[k] /\ Effect(log \o queue', k) = mem[k]
      BY <1>1, <1>5, <2>2, <3>1, EffectAppend, BothAppend
    <3>. QED
      BY <1>2, <3>2 DEF Match
  <2>4. CASE flag
    <3>1. SnapshotDue /\ (r.val = None => Effect(queue, k) = None)
      BY <1>5, <2>1, <2>4 DEF Lost, Active
    <3>2. queue' = queue
      BY <1>2, <2>4 DEF Offered
    <3>. QED
      BY <1>2, <1>3, <2>2, <3>1, <3>2 DEF Match, Heals
  <2>. QED
    BY <2>3, <2>4
<1>. QED
  BY <1>4, <1>5

\* The disk thread while it writes the queue.
LEMMA DrainMatch ==
    ASSUME TypeOK, MatchInv, Active, Drain, NEW k \in Keys, Clean(k)'
    PROVE  Match(k)'
<1>. DEFINE r == Head(queue)
<1>. USE DEF TypeOK
<1>1. /\ r \in Records /\ queue # <<>> /\ queue' = Tail(queue) /\ log' = Append(log, r)
      /\ UNCHANGED <<mem, flag, op, excused, disk, backup, todo, held>>
  BY DEF Drain, Written, storeVars, snapVars
<1>2. log' \o queue' = log \o queue
  BY <1>1
<1>3. Clean(k) /\ Heals' = Heals /\ Waiting(k)' = Waiting(k)
  BY <1>1 DEF Clean, Unrecorded, Heals, SnapshotDue, Waiting, Named
<1>4. Match(k)
  BY <1>3, MatchAt
<1>5. Effect(queue, k) = None => Effect(Tail(queue), k) = None
  <2>. DEFINE v == IF r.key = k THEN r.val ELSE None
  <2>1. Over(None, queue, k) = Over(v, Tail(queue), k)
    BY <1>1, OverTail
  <2>. HIDE DEF v
  <2>. QED
    BY <2>1, EffectIsOver, EffectNone DEF Over
<1>. QED
  BY <1>1, <1>2, <1>3, <1>4, <1>5 DEF Match

\* The log has been renamed away and its refill begins: what the snapshot will
\* not write down is not in memory, and not in the queue.
LEMMA StartMatch ==
    ASSUME TypeOK, FileInv, MatchInv, Active, SnapshotStart, NEW k \in Keys, Clean(k)'
    PROVE  Match(k)'
<1>. USE DEF TypeOK
<1>1. PICK gone \in SUBSET Expiring :
          /\ SnapshotBegins(gone) /\ ~flag'
          /\ excused' = {j \in excused \cup gone :
                            \/ Unrecorded(j)
                            \/ mem'[j] = None /\ Effect(queue, j) # None}
  BY DEF SnapshotStart
<1>2. /\ disk = "reopened" /\ disk' = "snapshot" /\ log = <<>>
      /\ todo' = Present \ gone
      /\ \A j \in Keys : mem'[j] = IF j \in gone THEN None ELSE mem[j]
      /\ UNCHANGED <<op, queue, log>>
  BY <1>1 DEF SnapshotBegins, FileInv, storeVars
<1>3. ~Heals'
  BY <1>1, <1>2 DEF Heals, SnapshotDue
<1>4. ~Waiting(k)' => mem'[k] = None
  BY <1>2 DEF Waiting, Present
<1>5. Unrecorded(k)' = Unrecorded(k)
  BY <1>2 DEF Unrecorded
<1>6. mem'[k] = None => Effect(queue, k) = None
  <2>1. CASE k \in excused \cup gone
    BY <1>1, <1>5, <2>1 DEF Clean
  <2>2. CASE k \notin excused \cup gone
    BY <1>2, <1>5, <2>2, MatchAt DEF Clean, Match, Heals
  <2>. QED
    BY <2>1, <2>2
<1>7. log' \o queue' = queue
  BY <1>2
<1>. QED
  BY <1>2, <1>3, <1>4, <1>6, <1>7 DEF Match

\* The snapshot appends what it has read.
LEMMA AppendMatch ==
    ASSUME TypeOK, FileInv, FlagInv, MatchInv, Active, SnapshotAppend,
           NEW k \in Keys, Clean(k)'
    PROVE  Match(k)'
<1>. DEFINE r == Head(held)
<1>. USE DEF TypeOK
<1>1. /\ disk = "snapshot" /\ held # <<>> /\ held' = <<>>
      /\ excused' = IF StaleHeld(r) THEN excused \cup {r.key} ELSE excused
      /\ queue' = IF flag THEN queue ELSE Append(queue, r)
      /\ UNCHANGED <<mem, flag, op, log, backup, disk, todo>>
  BY DEF SnapshotAppend, storeVars
<1>2. r \in Records /\ held = <<r>>
  BY <1>1, OneRecord DEF FileInv
<1>3. ~flag /\ queue' = Append(queue, r)
  BY <1>1 DEF FlagInv, Active
<1>. HIDE DEF r
<1>4. Unrecorded(k)' = Unrecorded(k) /\ Clean(k)
  BY <1>1 DEF Unrecorded, Clean
<1>5. ~Heals /\ ~Heals'
  BY <1>1, <1>3 DEF Heals, SnapshotDue
<1>6. CASE k = r.key
  <2>1. r.val = mem[k]
    BY <1>1, <1>4, <1>6 DEF Clean, StaleHeld
  <2>2. Effect(log \o queue', k) = mem[k]
    BY <1>2, <1>3, <1>6, <2>1, BothAppend
  <2>. QED
    BY <1>1, <1>5, <2>2 DEF Match
<1>7. CASE k # r.key
  <2>1. Waiting(k) => Waiting(k)'
    BY <1>1, <1>2, <1>7 DEF Waiting, Named
  <2>2. Effect(log \o queue', k) = Effect(log \o queue, k)
    BY <1>2, <1>3, <1>7, BothAppend
  <2>3. Match(k)
    BY <1>4, MatchAt
  <2>. QED
    BY <1>1, <1>5, <2>1, <2>2, <2>3 DEF Match
<1>. QED
  BY <1>6, <1>7

\* The rest of what the disk thread does.
LEMMA DiskMatch ==
    ASSUME TypeOK, FileInv, FlagInv, MatchInv, Disk, Active', NEW k \in Keys, Clean(k)',
           BootInv
    PROVE  Match(k)'
<1>. USE DEF TypeOK, storeVars, snapVars, bootVars, counters
<1>1. CASE Rename
  <2>1. Heals' /\ UNCHANGED <<mem, queue, op, excused, phase>>
    BY <1>1 DEF Rename, Heals, SnapshotDue
  <2>2. Clean(k)
    BY <2>1 DEF Clean, Unrecorded
  <2>3. mem[k] = None => Effect(queue, k) = None
    <3>1. CASE tail
      BY <3>1, EffectNone DEF BootInv, Replaying, Named
    <3>2. CASE ~tail
      <4>1. Active /\ Heals
        BY <1>1, <2>1, <3>2 DEF Active, Rename, Heals, SnapshotDue
      <4>. QED
        BY <2>2, <4>1, MatchAt DEF Match
    <3>. QED
      BY <3>1, <3>2
  <2>. QED
    BY <2>1, <2>3 DEF Match
<1>2. CASE ~Rename
  <2>0. Active
    BY <1>2 DEF Active, Disk, Drain, DrainDone, CompressSkip, CompressBegin, Reopen,
       SnapshotStart, SnapshotBegins, SnapshotRead, SnapshotAppend, SnapshotDone,
       SnapshotAbort
  <2>1. CASE Drain \/ SnapshotStart \/ SnapshotAppend
    BY <2>0, <2>1, DrainMatch, StartMatch, AppendMatch
  <2>2. CASE DrainDone \/ CompressSkip \/ Reopen \/ SnapshotDone
    <3>1. /\ UNCHANGED <<mem, flag, op, queue, log, backup, todo, held, excused>>
          /\ Heals' = Heals
      BY <2>2 DEF DrainDone, CompressSkip, Reopen, SnapshotDone, Heals, SnapshotDue
    <3>2. Clean(k) /\ Waiting(k)' = Waiting(k)
      BY <3>1 DEF Clean, Unrecorded, Waiting, Named
    <3>. QED
      BY <2>0, <3>1, <3>2, MatchAt, MatchKept
  <2>3. CASE CompressBegin
    <3>1. UNCHANGED <<mem, op, queue, log, excused>> /\ Heals' /\ ~Waiting(k)
      BY <2>3 DEF CompressBegin, Heals, SnapshotDue, FileInv, Waiting, Named
    <3>2. Clean(k)
      BY <3>1 DEF Clean, Unrecorded
    <3>. QED
      BY <2>0, <3>1, <3>2, MatchAt, MatchHealed
  <2>4. CASE SnapshotAbort
    <3>1. /\ UNCHANGED <<mem, flag, op, queue, log, backup, held>>
          /\ held = <<>> /\ excused' = excused \cup todo /\ Heals' = Heals
      BY <2>4 DEF SnapshotAbort, Heals, SnapshotDue
    <3>2. Clean(k) /\ ~Waiting(k)
      BY <3>1 DEF Clean, Unrecorded, Waiting, Named
    <3>. QED
      BY <2>0, <3>1, <3>2, MatchAt, MatchKept
  <2>5. ASSUME NEW j \in Keys, SnapshotRead(j) PROVE Match(k)'
    <3>1. /\ UNCHANGED <<mem, flag, op, queue, log, backup, disk, excused>>
          /\ held = <<>> /\ held' = <<[key |-> j, val |-> mem[j]]>> /\ todo' = todo \ {j}
      BY <2>5 DEF SnapshotRead
    <3>2. Clean(k) /\ Heals' = Heals
      BY <3>1 DEF Clean, Unrecorded, Heals, SnapshotDue
    <3>3. Waiting(k) => Waiting(k)'
      BY <3>1 DEF Waiting, Named
    <3>. QED
      BY <2>0, <3>1, <3>2, <3>3, MatchAt, MatchKept
  <2>. QED
    BY <1>2, <2>1, <2>2, <2>3, <2>4, <2>5 DEF Disk
<1>. QED
  BY <1>1, <1>2

\* Start-up: the replay ends and the default set-up runs.
LEMMA StartupMatch ==
    ASSUME TypeOK, FileInv, BootInv, FlagInv, MatchInv, Startup, Active',
           NEW k \in Keys, Clean(k)'
    PROVE  Match(k)'
<1>. USE DEF TypeOK, storeVars, snapVars, bootVars, counters
<1>1. CASE ReloadBegin
  <2>1. /\ UNCHANGED <<mem, queue, log>> /\ log = <<>> /\ queue = <<>> /\ mem[k] = None
    BY <1>1 DEF ReloadBegin, Active, BootInv, Untouched, FileInv, Empty
  <2>2. Effect(log \o queue, k) = None /\ Effect(queue, k) = None
    <3>1. log \o queue = <<>>
      BY <2>1
    <3>. QED
      BY <2>1, <3>1, EffectNone DEF Named
  <2>. QED
    BY <2>1, <2>2 DEF Match
<1>2. CASE Replay
  <2>1. Active /\ UNCHANGED <<queue, log, flag, backup>> /\ disk' = DiskStarted
    BY <1>2 DEF Replay, Active
  <2>2. Heals' = Heals
    BY <2>1 DEF Heals, SnapshotDue, DiskStarted
  <2>3. Main \in Threads /\ Head(pending) \in Records /\ op[Main].stage # "mutated"
    BY <1>2 DEF Replay, Threads
  <2>4. Change(Main, Head(pending))
    BY <1>2 DEF Replay
  <2>5. mem'[k] = mem[k] /\ Clean(k) /\ (Waiting(k) => Waiting(k)')
    BY <2>3, <2>4, ChangeOthers
  <2>. QED
    BY <2>1, <2>2, <2>5, MatchAt, MatchKept
<1>3. CASE ReplayFails
  BY <1>3 DEF ReplayFails, Active
<1>4. CASE ReloadEnd
  <2>1. /\ UNCHANGED <<mem, op, queue, log, backup, disk, todo, held, excused>>
        /\ ~flag' /\ phase = "loading" /\ pending = <<>>
    BY <1>4 DEF ReloadEnd
  <2>2. Clean(k)
    BY <2>1 DEF Clean, Unrecorded
  <2>3. CASE tail
    <3>0. ~Moved(k)
      BY <2>2 DEF Moved, Clean, Unrecorded, Threads
    <3>1. queue = <<>> /\ Effect(log, k) = Over(mem[k], <<>>, k)
      BY <2>1, <2>2, <2>3, <3>0 DEF BootInv, Replaying, Clean
    <3>2. Effect(log, k) = mem[k] /\ Effect(queue, k) = None /\ log \o queue = log
      BY <3>1, OverEmpty, EffectNone DEF Named
    <3>. QED
      BY <2>1, <3>2 DEF Match
  <2>4. CASE ~tail
    <3>1. Active
      BY <2>1, <2>4 DEF Active
    <3>2. Heals' = Heals
      BY <2>1, <2>4 DEF FlagInv, Heals, SnapshotDue
    <3>3. Waiting(k)' = Waiting(k)
      BY <2>1 DEF Waiting, Named
    <3>. QED
      BY <2>1, <2>2, <3>1, <3>2, <3>3, MatchAt, MatchKept
  <2>. QED
    BY <2>3, <2>4
<1>5. CASE Setup
  <2>1. Active /\ UNCHANGED <<queue, log, flag, backup>> /\ disk' = DiskStarted
    BY <1>5 DEF Setup, Active
  <2>2. Heals' = Heals
    BY <2>1 DEF Heals, SnapshotDue, DiskStarted
  <2>3. mem'[k] = mem[k] /\ Clean(k) /\ (Waiting(k) => Waiting(k)')
    <3>1. CASE mem[Root] = None
      <4>1. PICK v \in Values : Change(Main, [key |-> Root, val |-> v])
        BY <1>5, <3>1 DEF Setup
      <4>2. /\ Main \in Threads /\ [key |-> Root, val |-> v] \in Records
            /\ op[Main].stage # "mutated"
        BY <1>5, LogAssumption DEF Threads, Records, Setup, BootInv
      <4>. QED
        BY <4>1, <4>2, ChangeOthers
    <3>2. CASE mem[Root] # None
      <4>1. UNCHANGED <<mem, op, todo, held, excused>>
        BY <1>5, <3>2 DEF Setup
      <4>. QED
        BY <4>1 DEF Clean, Unrecorded, Waiting, Named
    <3>. QED
      BY <3>1, <3>2
  <2>. QED
    BY <2>1, <2>2, <2>3, MatchAt, MatchKept
<1>. QED
  BY <1>1, <1>2, <1>3, <1>4, <1>5 DEF Startup

\* A command that is accepted or changes memory.
LEMMA CommandMatch ==
    ASSUME TypeOK, MatchInv, Command, Active', NEW k \in Keys, Clean(k)'
    PROVE  Match(k)'
<1>. USE DEF TypeOK, storeVars, snapVars, bootVars, counters
<1>1. ASSUME NEW h \in Handlers, NEW j \in Keys, NEW v \in Values \cup {None},
             Accept(h, j, v)
      PROVE  Match(k)'
  <2>1. /\ UNCHANGED <<mem, queue, log, flag, backup, todo, held, excused, phase, tail>>
        /\ disk' = DiskStarted
        /\ \A g \in Threads \ {h} : op'[g] = op[g]
        /\ op[h].stage = "idle"
    BY <1>1 DEF Accept
  <2>2. Active /\ Heals' = Heals /\ Waiting(k)' = Waiting(k)
    BY <2>1 DEF Active, Heals, SnapshotDue, DiskStarted, Waiting, Named
  <2>3. Unrecorded(k) => Unrecorded(k)'
    BY <2>1 DEF Unrecorded
  <2>4. Clean(k)
    BY <2>1, <2>3 DEF Clean
  <2>. QED
    BY <2>1, <2>2, <2>4, MatchAt, MatchKept
<1>2. ASSUME NEW h \in Handlers, Mutate(h) PROVE Match(k)'
  <2>1. /\ h \in Threads /\ op[h].rec \in Records /\ op[h].stage # "mutated"
        /\ Change(h, op[h].rec)
        /\ UNCHANGED <<queue, log, flag, backup, disk, phase, tail>>
    BY <1>2 DEF Threads, Commands, Mutate
  <2>2. Active /\ Heals' = Heals
    BY <2>1 DEF Active, Heals, SnapshotDue
  <2>3. mem'[k] = mem[k] /\ Clean(k) /\ (Waiting(k) => Waiting(k)')
    BY <2>1, ChangeOthers
  <2>. QED
    BY <2>1, <2>2, <2>3, MatchAt, MatchKept
<1>. QED
  BY <1>1, <1>2, Accepted DEF Command

\* MatchInv is kept by every step.
LEMMA MatchNext ==
    TypeOK /\ FileInv /\ BootInv /\ FlagInv /\ OpInv /\ MatchInv /\ [Next]_vars
        => MatchInv'
<1>. SUFFICES ASSUME TypeOK, FileInv, BootInv, FlagInv, OpInv, MatchInv, [Next]_vars,
                     Active', NEW k \in Keys, Clean(k)'
              PROVE  Match(k)'
  BY DEF MatchInv, Active, Match
<1>. USE DEF TypeOK, storeVars, snapVars, bootVars, counters
<1>1. CASE Command
  BY <1>1, CommandMatch
<1>2. CASE Disk
  BY <1>2, DiskMatch
<1>3. CASE Startup
  BY <1>3, StartupMatch
<1>4. CASE Refuse
  <2>1. /\ UNCHANGED <<mem, queue, log, op, flag, backup, todo, held, excused, phase, tail>>
        /\ disk' = DiskStarted
    BY <1>4 DEF Refuse
  <2>2. Active /\ Heals' = Heals /\ Waiting(k)' = Waiting(k) /\ Clean(k)
    BY <2>1 DEF Active, Heals, SnapshotDue, DiskStarted, Waiting, Named, Clean, Unrecorded
  <2>. QED
    BY <2>1, <2>2, MatchAt, MatchKept
<1>5. CASE NewDay
  <2>1. /\ UNCHANGED <<mem, queue, log, op, flag, disk, todo, held, excused, phase, tail>>
        /\ ~backup'
    BY <1>5 DEF NewDay
  <2>2. Active /\ Waiting(k)' = Waiting(k) /\ Clean(k)
    BY <2>1 DEF Active, Waiting, Named, Clean, Unrecorded
  <2>3. CASE Heals' = Heals
    BY <2>1, <2>2, <2>3, MatchAt, MatchKept
  <2>4. CASE Heals' # Heals
    <3>1. Heals' /\ flag
      BY <2>1, <2>4 DEF Heals, SnapshotDue
    <3>2. ~Waiting(k)
      BY <2>2, <3>1 DEF FlagInv, Active, FileInv, Waiting, Named
    <3>. QED
      BY <2>1, <2>2, <3>1, <3>2, MatchAt, MatchHealed
  <2>. QED
    BY <2>3, <2>4
<1>6. CASE Crash
  BY <1>6 DEF Crash, Active
<1>7. ASSUME NEW h \in Threads, Commit(h) PROVE Match(k)'
  <2>1. Active
    BY <1>7 DEF Commit, Active
  <2>. QED
    BY <1>7, <2>1, CommitMatch
<1>8. CASE UNCHANGED vars
  <2>1. UNCHANGED <<mem, queue, log, op, flag, backup, disk, todo, held, excused, phase, tail>>
    BY <1>8 DEF vars
  <2>2. Active /\ Heals' = Heals /\ Waiting(k)' = Waiting(k) /\ Clean(k)
    BY <2>1 DEF Active, Heals, SnapshotDue, Waiting, Named, Clean, Unrecorded
  <2>. QED
    BY <2>1, <2>2, MatchAt, MatchKept
<1>. QED
  BY <1>1, <1>2, <1>3, <1>4, <1>5, <1>6, <1>7, <1>8 DEF Next

\* The property of the runs follows.
LEMMA MatchMeets == TypeOK /\ BootInv /\ MatchInv => LogMatchesMemory
<1>. SUFFICES ASSUME BootInv, MatchInv, phase = "up", ~SnapshotDue, disk # "reopened",
                     NEW k \in Keys \ (Sequences_ \cup excused \cup todo),
                     ~Unrecorded(k), \A i \in DOMAIN held : held[i].key # k
              PROVE  Effect(log \o queue, k) = mem[k]
  BY DEF LogMatchesMemory
<1>1. Active /\ Clean(k) /\ ~Heals /\ ~Waiting(k)
  BY DEF Active, BootInv, Replaying, Clean, Heals, Waiting, Named
<1>. QED
  BY <1>1, MatchAt DEF Match

--------------------------------------------------------------------------------
\* What is owed is kept from crash to set-up: LogMatchesMemory says that a settled
\* entry is in the file.
LEMMA WantNext ==
    TypeOK /\ FileInv /\ BootInv /\ MatchInv /\ WantInv /\ [Next]_vars => WantInv'
<1>. SUFFICES ASSUME TypeOK, FileInv, BootInv, MatchInv, WantInv, [Next]_vars,
                     NEW k \in Keys, want'[k] # Unknown
              PROVE  /\ phase' = "booting" => want'[k] = Effect(log', k)
                     /\ phase' = "loading" => want'[k] = Over(mem'[k], pending', k)
                     /\ phase' = "setup" => want'[k] = mem'[k]
  BY DEF WantInv
<1>. USE DEF TypeOK, storeVars, snapVars, bootVars, counters
<1>0. ASSUME want'[k] = want[k], UNCHANGED <<phase, log, pending>>, mem'[k] = mem[k]
      PROVE  /\ phase' = "booting" => want'[k] = Effect(log', k)
             /\ phase' = "loading" => want'[k] = Over(mem'[k], pending', k)
             /\ phase' = "setup" => want'[k] = mem'[k]
  BY <1>0 DEF WantInv
<1>1. CASE Command
  <2>1. ASSUME NEW h \in Handlers, NEW j \in Keys, NEW v \in Values \cup {None},
               Accept(h, j, v)
        PROVE  want'[k] = want[k] /\ mem'[k] = mem[k] /\ UNCHANGED <<phase, log, pending>>
    BY <2>1 DEF Accept
  <2>2. ASSUME NEW h \in Handlers, Mutate(h)
        PROVE  want'[k] = want[k] /\ mem'[k] = mem[k] /\ UNCHANGED <<phase, log, pending>>
    <3>1. op[h].rec.key \in Keys
      BY DEF Threads, Commands, Records
    <3>2. k # op[h].rec.key /\ want'[k] = want[k]
      BY <2>2, <3>1 DEF Mutate
    <3>. QED
      BY <2>2, <3>1, <3>2 DEF Mutate, Change, States
  <2>. QED
    BY <1>0, <1>1, <2>1, <2>2, Accepted DEF Command
<1>2. CASE Drain
  <2>1. ~tail /\ phase # "booting"
    BY <1>2 DEF Drain, BootInv, Untouched, Replaying
  <2>. QED
    BY <1>2, <2>1 DEF Drain, WantInv
<1>3. CASE Rename
  BY <1>3 DEF Rename, WantInv
<1>4. CASE Refuse \/ NewDay \/ DrainDone \/ CompressSkip \/ CompressBegin \/ Reopen
           \/ SnapshotAppend \/ SnapshotDone \/ SnapshotAbort
  BY <1>0, <1>4 DEF Refuse, NewDay, DrainDone, CompressSkip, CompressBegin, Reopen,
     SnapshotAppend, SnapshotDone, SnapshotAbort
<1>13. CASE SnapshotStart
  <2>1. want'[k] = want[k] /\ mem'[k] = mem[k] /\ UNCHANGED <<phase, log, pending>>
    BY <1>13 DEF SnapshotStart, SnapshotBegins
  <2>. QED
    BY <1>0, <2>1
<1>5. ASSUME NEW j \in Keys, SnapshotRead(j)
      PROVE  want'[k] = want[k] /\ mem'[k] = mem[k] /\ UNCHANGED <<phase, log, pending>>
  BY <1>5 DEF SnapshotRead
<1>6. CASE ReloadBegin
  <2>1. mem[k] = None /\ want[k] = Effect(log, k) /\ UNCHANGED <<want, mem, log>>
    BY <1>6 DEF ReloadBegin, BootInv, Untouched, Empty, WantInv
  <2>2. CASE logFile
    BY <1>6, <2>1, <2>2, EffectIsOver DEF ReloadBegin
  <2>3. CASE ~logFile
    <3>1. Effect(log, k) = None
      BY <2>3, EffectNone DEF FileInv, Named
    <3>. QED
      BY <1>6, <2>1, <2>3, <3>1 DEF ReloadBegin
  <2>. QED
    BY <2>2, <2>3
<1>7. CASE Replay
  <2>1. UNCHANGED <<want, phase>> /\ phase = "loading"
    BY <1>7 DEF Replay
  <2>2. Over(mem[k], pending, k) = Over(mem'[k], pending', k)
    BY <1>7, ReplayOver
  <2>. QED
    BY <2>1, <2>2 DEF WantInv
<1>8. CASE ReplayFails \/ Setup
  BY <1>8 DEF ReplayFails, Setup
<1>9. CASE ReloadEnd
  <2>1. UNCHANGED <<want, mem>> /\ pending = <<>> /\ phase = "loading" /\ phase' = "setup"
    BY <1>9 DEF ReloadEnd
  <2>. QED
    BY <2>1, OverEmpty DEF WantInv
<1>10. CASE Crash
  <2>1. Settled(k) /\ want'[k] = mem[k] /\ log' = log /\ phase' = "booting"
    BY <1>10 DEF Crash
  <2>2. LogMatchesMemory
    BY MatchMeets
  <2>3. Effect(log \o queue, k) = mem[k]
    BY <2>1, <2>2 DEF LogMatchesMemory, Settled
  <2>4. ~Named(queue, k)
    BY <2>1 DEF Settled, Named
  <2>5. Effect(log, k) = mem[k]
    BY <2>3, <2>4, QueueDecides DEF Over
  <2>. QED
    BY <2>1, <2>5
<1>11. ASSUME NEW h \in Threads, Commit(h)
       PROVE  want'[k] = want[k] /\ mem'[k] = mem[k] /\ UNCHANGED <<phase, log, pending>>
  BY <1>11 DEF Commit
<1>12. CASE UNCHANGED vars
  BY <1>0, <1>12 DEF vars
<1>. QED
  BY <1>0, <1>1, <1>2, <1>3, <1>4, <1>5, <1>6, <1>7, <1>8, <1>9, <1>10, <1>11, <1>12,
     <1>13 DEF Next, Disk, Startup

--------------------------------------------------------------------------------
\* The inductive invariant.
LogInv == FileInv /\ BootInv /\ FlagInv /\ OpInv /\ MatchInv /\ WantInv

\* A new installation has it.
LEMMA LogInvInit == Init => LogInv
<1>. SUFFICES ASSUME Init PROVE LogInv
  OBVIOUS
<1>. USE DEF Init
<1>1. FileInv /\ FlagInv
  BY DEF FileInv, FlagInv
<1>2. BootInv
  BY DEF BootInv, Untouched, Idle
<1>3. OpInv
  BY DEF OpInv, Idle
<1>4. MatchInv
  BY DEF MatchInv
<1>5. WantInv
  BY DEF WantInv
<1>. QED
  BY <1>1, <1>2, <1>3, <1>4, <1>5 DEF LogInv

\* It holds in every state, whatever commands run, days pass and crashes occur.
THEOREM LogInvCorrect == Spec => []LogInv
<1>1. TypeOK /\ LogInv /\ [Next]_vars => LogInv'
  BY FileNext, BootNext, FlagNext, OpNext, MatchNext, WantNext DEF LogInv
<1>. QED
  BY <1>1, LogInvInit, TypeCorrect, PTL DEF Spec

\* Log and queue replay to what memory holds, entry by entry, unless one of the
\* races that the module names has struck it.
THEOREM LogMatchesMemoryCorrect == Spec => []LogMatchesMemory
<1>1. TypeOK /\ LogInv => LogMatchesMemory
  BY MatchMeets DEF LogInv
<1>. QED
  BY <1>1, LogInvCorrect, TypeCorrect, PTL

\* A restart finds again every entry whose last record was in the file when the
\* process died.
THEOREM RecoveredCorrect == Spec => []Recovered
<1>1. LogInv => Recovered
  BY DEF LogInv, WantInv, Recovered
<1>. QED
  BY <1>1, LogInvCorrect, PTL

================================================================================
