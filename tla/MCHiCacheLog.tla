------------------------------ MODULE MCHiCacheLog ------------------------------
(* Small instances of HiCacheLog for TLC. *)
EXTENDS HiCacheLog, TLC

Symmetry == Permutations(Handlers) \cup Permutations(Values)

\* What no step and no property reads again is left out of the fingerprint.  Only a
\* snapshot reads dirty, and it begins by setting it; want is read before the server
\* is up, and set by the crash that takes it down.  Once no crash is left to come, a log
\* that start-up has read is looked at for its effect alone.
Seen ==
    << mem, flag, op, queue, writer, logFile, backup, disk, todo, held,
       disk = "snapshot" /\ dirty,
       phase, pending, tail, excused,
       IF phase \in {"up", "failed"} THEN Empty ELSE want,
       IF crashes = MaxCrashes /\ phase # "booting" THEN [k \in Keys |-> Effect(log, k)] ELSE log,
       ops, crashes >>
================================================================================
