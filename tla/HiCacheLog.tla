------------------------------- MODULE HiCacheLog -------------------------------
(***************************************************************************)
(* How the cache server keeps its memory and its commit log together.      *)
(*                                                                         *)
(* MemManager changes a map in memory and then appends a record of the     *)
(* change to an in-memory queue; CommitDiskThread writes the queue to      *)
(* cache.log and once a day renames cache.log away and refills it with a   *)
(* snapshot of the memory; StartApp replays cache.log after a restart.     *)
(* maintenanceFlag turns mutating commands away while the log is renamed   *)
(* and while it is replayed - all but useSpace, which never looks at it.   *)
(* None of this is synchronised: the handlers, the disk thread and the     *)
(* start-up thread interleave freely.                                      *)
(*                                                                         *)
(* An entry stands for whatever one record describes: a user, a space, a   *)
(* store attribute, a permission; or a session, whose value is the space   *)
(* it uses.  A sequence is an entry whose changes are kept in memory only. *)
(* Entries are independent: that a record of one is refused when another   *)
(* is missing is left out.                                                 *)
(***************************************************************************)
EXTENDS Naturals, Sequences

CONSTANTS
    Unknown,              \* history: a restart may give the entry any value
    Handlers,             \* actors that execute commands
    Main,                 \* the start-up thread
    Keys,                 \* entries
    Sequences_,           \* the entries that are sequences
    Sessions_,            \* the entries that are sessions
    Root,                 \* the credential that loadDefaultSetup creates
    Values,
    None,                 \* no value: the entry does not exist
    MaxOps,               \* bound: commands accepted
    MaxCrashes            \* bound: crashes

ASSUME LogAssumption ==
    /\ Main \notin Handlers
    /\ Sequences_ \subseteq Keys
    /\ Root \in Keys \ Sequences_
    /\ Sessions_ \subseteq Keys \ (Sequences_ \cup {Root})
    /\ None \notin Values /\ Unknown \notin Values \cup {None}
    /\ Values # {}
    /\ MaxOps \in Nat /\ MaxCrashes \in Nat

VARIABLES
    mem,                  \* MemManager.cache, credentials, ...: Keys -> value
    flag,                 \* MemManager.maintenanceFlag
    op,                   \* op[h]: the command h is executing
    queue,                \* CommitDiskThread.content
    writer,               \* CommitDiskThread.cacheWriter is open
    logFile,              \* cache.log exists
    log,                  \* the records in cache.log
    backup,               \* a .bak or .bak.zip of today exists
    disk,                 \* where CommitDiskThread is
    todo,                 \* entries the snapshot has not read yet
    held,                 \* the record the snapshot is about to append
    dirty,                \* an entry was added or removed since it started
    phase,                \* where the start-up thread is
    pending,              \* records of the file being replayed, not yet replayed
    tail,                 \* the file being replayed is still cache.log
    excused,              \* history: entries one of the races below has struck
    want,                 \* history: what a restart must find again
    ops, crashes          \* history: counters for the bounds

storeVars == <<logFile, log, backup>>
snapVars == <<todo, held, dirty>>
bootVars == <<phase, pending, tail>>
counters == <<ops, crashes>>
vars == <<mem, flag, op, queue, writer, storeVars, disk, snapVars, bootVars,
          excused, want, counters>>

--------------------------------------------------------------------------------
Threads == Handlers \cup {Main}
States == [Keys -> Values \cup {None}]

\* A record sets an entry, or removes it when its value is None.
Records == [key : Keys, val : Values \cup {None}]
NoRecord == [key |-> Root, val |-> None]

\* checked: past the test of maintenanceFlag; mutated: memory changed, record
\* not yet appended.
Stages == {"idle", "checked", "mutated"}
Commands == [stage : Stages, rec : Records]
Idle == [stage |-> "idle", rec |-> NoRecord]

DiskStates == {"off", "drain", "compress", "closing", "renamed", "reopened",
               "snapshot"}
Phases == {"booting", "loading", "setup", "up", "failed"}

TypeOK ==
    /\ mem \in States
    /\ flag \in BOOLEAN
    /\ op \in [Threads -> Commands]
    /\ queue \in Seq(Records)
    /\ writer \in BOOLEAN
    /\ logFile \in BOOLEAN
    /\ log \in Seq(Records)
    /\ backup \in BOOLEAN
    /\ disk \in DiskStates
    /\ todo \subseteq Keys
    /\ held \in Seq(Records)
    /\ dirty \in BOOLEAN
    /\ phase \in Phases
    /\ pending \in Seq(Records)
    /\ tail \in BOOLEAN
    /\ excused \subseteq Keys
    /\ want \in [Keys -> Values \cup {None, Unknown}]
    /\ ops \in Nat /\ crashes \in Nat

Empty == [k \in Keys |-> None]
Present == {k \in Keys : mem[k] # None}

\* A new installation: no log, nothing in memory, the server accepts commands.
Init ==
    /\ mem = Empty
    /\ flag = FALSE
    /\ op = [h \in Threads |-> Idle]
    /\ queue = <<>>
    /\ writer = FALSE
    /\ logFile = FALSE
    /\ log = <<>>
    /\ backup = FALSE
    /\ disk = "off"
    /\ todo = {}
    /\ held = <<>>
    /\ dirty = FALSE
    /\ phase = "booting"
    /\ pending = <<>>
    /\ tail = FALSE
    /\ excused = {}
    /\ want = [k \in Keys |-> Unknown]
    /\ ops = 0 /\ crashes = 0

--------------------------------------------------------------------------------
\* What the records of s leave behind for entry k: the last one decides.
Effect(s, k) ==
    LET mine == {i \in DOMAIN s : s[i].key = k}
    IN IF mine = {} THEN None
       ELSE s[CHOOSE i \in mine : \A j \in mine : j <= i].val

\* A change of k in memory whose record is still to be appended.
Unrecorded(k) == \E h \in Threads : op[h].stage = "mutated" /\ op[h].rec.key = k

\* A command has entry k in its hands.
Busy(k) == \E h \in Threads : op[h].stage # "idle" /\ op[h].rec.key = k

\* Every API call reaches MemManager.getInstance, which starts the disk thread.
DiskStarted == IF disk = "off" THEN "drain" ELSE disk

\* The next snapshot will write down all that memory holds.
SnapshotDue == disk \in {"closing", "renamed"} \/ (flag /\ ~backup)

--------------------------------------------------------------------------------
(* Commands.                                                               *)

\* ApiProcess runs a command, which is past the tests of its method.
Accept(h, k, v) ==
    /\ ops < MaxOps
    /\ op[h].stage = "idle"
    /\ op' = [op EXCEPT ![h] = [stage |-> "checked", rec |-> [key |-> k, val |-> v]]]
    /\ disk' = DiskStarted
    /\ ops' = ops + 1
    /\ UNCHANGED <<mem, flag, queue, writer, storeVars, snapVars, bootVars,
                   excused, want, crashes>>

\* A command whose MemManager method finds maintenanceFlag
\* unset.  A command needs a session, so some entry is in memory; deleting
\* needs the entry.  A login makes a session under a fresh token, and no command
\* removes one.
Check(h, k, v) ==
    /\ ~flag
    /\ Present # {}
    /\ v = None => mem[k] # None /\ k \notin Sessions_
    /\ k \in Sessions_ => mem[k] = None /\ ~Busy(k)
    /\ Accept(h, k, v)

\* useSpace needs the session and no more: it runs during maintenance as well.
UseSpace(h, k, v) ==
    /\ k \in Sessions_ /\ mem[k] # None
    /\ v # None
    /\ Accept(h, k, v)

\* A command that is refused leaves only the disk thread behind.
Refuse ==
    /\ disk = "off"
    /\ disk' = DiskStarted
    /\ UNCHANGED <<mem, flag, op, queue, writer, storeVars, snapVars, bootVars,
                   excused, want, counters>>

\* The record adds an entry to a map or takes it out.
Resized(r) == (mem[r.key] = None) # (r.val = None)

\* The put or remove of an adminX method, or of useSpace.  Adding or removing an entry while
\* the snapshot runs strikes the map it is iterating, or one it has still to
\* visit, or one it is done with; a session is a map itself, which the snapshot
\* iterates when it writes the session down.
\* Race: two commands change one entry, and their records may be swapped.
Change(h, r) ==
    /\ mem' = [mem EXCEPT ![r.key] = r.val]
    /\ op' = [op EXCEPT ![h] = [stage |-> "mutated", rec |-> r]]
    /\ excused' = IF Unrecorded(r.key) THEN excused \cup {r.key} ELSE excused
    /\ \/ /\ disk = "snapshot" /\ (Resized(r) \/ r.key \in Sessions_)
          /\ dirty' = TRUE /\ UNCHANGED todo
       \/ /\ disk = "snapshot" /\ Resized(r)
          /\ todo' = IF r.val = None THEN todo \ {r.key} ELSE todo \cup {r.key}
          /\ UNCHANGED dirty
       \/ /\ disk = "snapshot" /\ r.val = None => mem[r.key] = None
          /\ UNCHANGED <<todo, dirty>>
    /\ UNCHANGED held

Mutate(h) ==
    /\ op[h].stage = "checked"
    /\ Change(h, op[h].rec)
    /\ want' = [want EXCEPT ![op[h].rec.key] = Unknown]
    /\ UNCHANGED <<flag, queue, writer, storeVars, disk, bootVars, counters>>

\* Fault: a removal is not committed.
LoggedPuts(r) == r.val # None

\* Creating and incrementing a sequence commit nothing.
Logged(r) == r.key \notin Sequences_ \/ r.val = None

\* The commitX methods: CommitDiskThread.append unless maintenanceFlag is set.
Offered(r) == IF flag \/ ~Logged(r) THEN queue ELSE Append(queue, r)

\* Race: the flag was set between the change and its record, or the command is a
\* useSpace during maintenance.  A put that is dropped reaches the log with the
\* snapshot, if one is due; a removal that is dropped does not undo a record that
\* waits in the queue.  What start-up replays from cache.log needs no record while
\* cache.log stays, but what a handler changes meanwhile does.
Lost(h, r) ==
    /\ flag
    /\ ~(h = Main /\ tail)
    /\ \/ tail
       \/ ~SnapshotDue
       \/ r.val = None /\ Effect(queue, r.key) # None

Commit(h) ==
    /\ op[h].stage = "mutated"
    /\ LET r == op[h].rec
       IN /\ queue' = Offered(r)
          /\ excused' = IF Lost(h, r) THEN excused \cup {r.key} ELSE excused
    /\ op' = [op EXCEPT ![h] = Idle]
    /\ UNCHANGED <<mem, flag, writer, storeVars, disk, snapVars, bootVars, want,
                   counters>>

--------------------------------------------------------------------------------
(* The disk thread: CommitDiskThread.run and LoadCacheProcess.compressCache. *)

\* Fault: the writer is opened without append.
WrittenOver(r) == <<r>>

\* FileOutputStream(cacheFile, true).
Written(r) == Append(log, r)

\* A record written to the file that is being replayed will be read as well.
Drain ==
    /\ disk = "drain" /\ writer /\ queue # <<>>
    /\ queue' = Tail(queue)
    /\ log' = Written(Head(queue))
    /\ pending' = IF tail THEN Append(pending, Head(queue)) ELSE pending
    /\ UNCHANGED <<mem, flag, op, writer, logFile, backup, disk, snapVars, phase,
                   tail, excused, want, counters>>

DrainDone ==
    /\ disk = "drain" /\ (writer => queue = <<>>)
    /\ disk' = "compress"
    /\ UNCHANGED <<mem, flag, op, queue, writer, storeVars, snapVars, bootVars,
                   excused, want, counters>>

\* Fault: the file is created, and nobody opens the writer.
LogCreated == logFile' = TRUE /\ UNCHANGED writer

\* Create cache.log and open the writer if need be.
LogOpened == logFile' = TRUE /\ writer' = TRUE

\* Done for today.
CompressSkip ==
    /\ disk = "compress" /\ backup
    /\ disk' = "drain"
    /\ LogOpened
    /\ UNCHANGED <<mem, flag, op, queue, log, backup, snapVars, bootVars, excused,
                   want, counters>>

CompressBegin ==
    /\ disk = "compress" /\ ~backup
    /\ disk' = "closing"
    /\ LogOpened
    /\ flag' = TRUE
    /\ UNCHANGED <<mem, op, queue, log, backup, snapVars, bootVars, excused, want,
                   counters>>

\* The backup is of yesterday when the date has changed since CompressBegin.
\* Race: the log is renamed away before start-up has opened it.
Rename ==
    /\ disk = "closing"
    /\ disk' = "renamed"
    /\ logFile' = FALSE /\ log' = <<>>
    /\ backup' \in BOOLEAN
    /\ tail' = FALSE
    /\ want' = IF phase = "booting" THEN [k \in Keys |-> Unknown] ELSE want
    /\ UNCHANGED <<mem, flag, op, queue, writer, snapVars, phase, pending, excused,
                   counters>>

\* The new writer.
Reopen ==
    /\ disk = "renamed"
    /\ disk' = "reopened"
    /\ logFile' = TRUE
    /\ UNCHANGED <<mem, flag, op, queue, writer, log, backup, snapVars, bootVars,
                   excused, want, counters>>

\* What ClearMemTask.clearMem may find expired: sessions, and stores with what
\* they hold.  That a command has such an entry in its hands is left out.
Expiring == {k \in Present \ (Sequences_ \cup {Root}) : ~Busy(k)}

\* compressCacheToFile: clearMem takes out the entries in gone, and writes no
\* record of it; then the maps are read.
SnapshotBegins(gone) ==
    /\ disk = "reopened"
    /\ disk' = "snapshot"
    /\ mem' = [k \in Keys |-> IF k \in gone THEN None ELSE mem[k]]
    /\ want' = [k \in Keys |-> IF k \in gone THEN Unknown ELSE want[k]]
    /\ todo' = Present \ gone /\ dirty' = FALSE
    /\ UNCHANGED <<op, queue, writer, storeVars, held, bootVars, counters>>

\* Fault: the flag is not reset.
SnapshotStartSilent ==
    \E gone \in SUBSET Expiring :
        SnapshotBegins(gone) /\ UNCHANGED <<flag, excused>>

\* The flag falls, and the log starts again: what happened to an entry is
\* forgotten, unless a command still holds an older record of it, or
\* Race: the queue does, and the entry has left memory meanwhile.
SnapshotStart ==
    \E gone \in SUBSET Expiring :
        /\ SnapshotBegins(gone)
        /\ flag' = FALSE
        /\ excused' = {k \in excused \cup gone :
                          \/ Unrecorded(k)
                          \/ mem'[k] = None /\ Effect(queue, k) # None}

\* The credentials come before the sessions.
SnapshotRead(k) ==
    /\ disk = "snapshot" /\ held = <<>> /\ ~dirty
    /\ k \in todo
    /\ k \in Sessions_ => Root \notin todo
    /\ held' = <<[key |-> k, val |-> mem[k]]>>
    /\ todo' = todo \ {k}
    /\ UNCHANGED <<mem, flag, op, queue, writer, storeVars, disk, dirty, bootVars,
                   excused, want, counters>>

\* Race: the entry was changed, and its record appended, since it was read.
StaleHeld(r) == r.val # mem[r.key] /\ ~Unrecorded(r.key)

\* commitX for the snapshot; unlike adminCreateSequence it logs sequences.
SnapshotAppend ==
    /\ disk = "snapshot" /\ held # <<>>
    /\ LET r == Head(held)
       IN /\ queue' = IF flag THEN queue ELSE Append(queue, r)
          /\ excused' = IF StaleHeld(r) THEN excused \cup {r.key} ELSE excused
    /\ held' = <<>>
    /\ UNCHANGED <<mem, flag, op, writer, storeVars, disk, todo, dirty, bootVars,
                   want, counters>>

SnapshotDone ==
    /\ disk = "snapshot" /\ held = <<>> /\ todo = {}
    /\ disk' = "drain"
    /\ UNCHANGED <<mem, flag, op, queue, writer, storeVars, snapVars, bootVars,
                   excused, want, counters>>

\* ConcurrentModificationException; the backup of today exists, so nothing
\* tries again before tomorrow.
\* Race: the entries not yet read stay out of the log.
SnapshotAbort ==
    /\ disk = "snapshot" /\ held = <<>> /\ dirty /\ todo # {}
    /\ disk' = "drain"
    /\ todo' = {} /\ dirty' = FALSE
    /\ excused' = excused \cup todo
    /\ UNCHANGED <<mem, flag, op, queue, writer, storeVars, held, bootVars, want,
                   counters>>

\* The backups are named after the date.
NewDay ==
    /\ backup
    /\ backup' = FALSE
    /\ UNCHANGED <<mem, flag, op, queue, writer, logFile, log, disk, snapVars,
                   bootVars, excused, want, counters>>

--------------------------------------------------------------------------------
(* Start-up: StartApp.start and LoadCacheProcess.reloadCache.  The server   *)
(* already accepts commands.                                                *)

\* maintenanceFlag is set, and stays set when there is no log.
ReloadBegin ==
    /\ phase = "booting"
    /\ flag' = TRUE
    /\ IF logFile
       THEN phase' = "loading" /\ pending' = log /\ tail' = TRUE
       ELSE phase' = "setup" /\ UNCHANGED <<pending, tail>>
    /\ UNCHANGED <<mem, op, queue, writer, storeVars, disk, snapVars, excused, want,
                   counters>>

\* start-with was written as a number and is read with a cast to String: a
\* sequence that a snapshot wrote down ends the start-up thread.
Unreadable(r) == r.key \in Sequences_ /\ r.val # None

Replay ==
    /\ phase = "loading" /\ op[Main].stage = "idle" /\ pending # <<>>
    /\ ~Unreadable(Head(pending))
    /\ Change(Main, Head(pending))
    /\ pending' = Tail(pending)
    /\ disk' = DiskStarted
    /\ UNCHANGED <<flag, queue, writer, storeVars, phase, tail, want, counters>>

ReplayFails ==
    /\ phase = "loading" /\ op[Main].stage = "idle" /\ pending # <<>>
    /\ Unreadable(Head(pending))
    /\ phase' = "failed"
    /\ pending' = <<>> /\ tail' = FALSE
    /\ disk' = DiskStarted
    /\ UNCHANGED <<mem, flag, op, queue, writer, storeVars, snapVars, excused, want,
                   counters>>

ReloadEnd ==
    /\ phase = "loading" /\ op[Main].stage = "idle" /\ pending = <<>>
    /\ phase' = "setup" /\ tail' = FALSE
    /\ flag' = FALSE
    /\ UNCHANGED <<mem, op, queue, writer, storeVars, disk, snapVars, pending,
                   excused, want, counters>>

\* loadDefaultSetup; the administrator and the session it also creates go
\* with the credential.
Setup ==
    /\ phase = "setup"
    /\ phase' = "up"
    /\ disk' = DiskStarted
    /\ IF mem[Root] = None
       THEN \E v \in Values : Change(Main, [key |-> Root, val |-> v])
       ELSE UNCHANGED <<mem, op, snapVars, excused>>
    /\ UNCHANGED <<flag, queue, writer, storeVars, pending, tail, want, counters>>

--------------------------------------------------------------------------------
\* A restart owes an entry its value when its last record is in the file and
\* no race has struck it.
Settled(k) ==
    /\ phase = "up"
    /\ k \notin excused \cup Sequences_ \cup todo
    /\ ~Unrecorded(k)
    /\ \A i \in DOMAIN queue : queue[i].key # k
    /\ \A i \in DOMAIN held : held[i].key # k
    /\ ~SnapshotDue /\ disk # "reopened"

\* The process dies; cache.log and the backups remain.
Crash ==
    /\ crashes < MaxCrashes
    /\ crashes' = crashes + 1
    /\ want' = [k \in Keys |-> IF Settled(k) THEN mem[k] ELSE Unknown]
    /\ mem' = Empty
    /\ flag' = FALSE
    /\ op' = [h \in Threads |-> Idle]
    /\ queue' = <<>>
    /\ writer' = FALSE
    /\ disk' = "off"
    /\ todo' = {} /\ held' = <<>> /\ dirty' = FALSE
    /\ phase' = "booting" /\ pending' = <<>> /\ tail' = FALSE
    /\ excused' = {}
    /\ UNCHANGED <<storeVars, ops>>

Command == \E h \in Handlers :
              \/ \E k \in Keys, v \in Values \cup {None} :
                    Check(h, k, v) \/ UseSpace(h, k, v)
              \/ Mutate(h)
Disk == \/ Drain \/ DrainDone \/ CompressSkip \/ CompressBegin \/ Rename \/ Reopen
        \/ SnapshotStart \/ SnapshotAppend \/ SnapshotDone \/ SnapshotAbort
        \/ \E k \in Keys : SnapshotRead(k)
Startup == ReloadBegin \/ Replay \/ ReplayFails \/ ReloadEnd \/ Setup
Next == \/ Command \/ Refuse \/ Disk \/ Startup \/ NewDay \/ Crash
        \/ \E h \in Threads : Commit(h)

Spec == Init /\ [][Next]_vars

\* Threads are scheduled and days pass; nobody has to send a command.
Fairness ==
    /\ WF_vars(Disk)
    /\ WF_vars(Startup)
    /\ \A h \in Handlers : WF_vars(Mutate(h))
    /\ \A h \in Threads : WF_vars(Commit(h))
    /\ WF_vars(NewDay)
FairSpec == Spec /\ Fairness

--------------------------------------------------------------------------------
\* The log and the queue together replay to what memory holds, entry by entry,
\* once the server is up: while cache.log is renamed and refilled, across
\* restarts, whatever commands run - for every entry but a sequence, unless its
\* change is still to be recorded or a race named above has struck it.
LogMatchesMemory ==
    phase = "up" /\ ~SnapshotDue /\ disk # "reopened" =>
        \A k \in Keys \ (Sequences_ \cup excused \cup todo) :
            ~Unrecorded(k) /\ (\A i \in DOMAIN held : held[i].key # k)
                => Effect(log \o queue, k) = mem[k]

\* What was on disk when the process died is in memory when the replay ends.
Recovered ==
    phase = "setup" =>
        \A k \in Keys : want[k] # Unknown => mem[k] = want[k]

\* Maintenance ends, even after a start without a log and a replay that fails;
\* the wait may last until the date changes.
MaintenanceEnds == flag ~> ~flag

\* What is offered to the queue reaches the file, or dies with the process.
RecordsReachDisk == queue # <<>> ~> queue = <<>>

================================================================================
