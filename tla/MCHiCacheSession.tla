------------------------------ MODULE MCHiCacheSession ------------------------------
(* One thing goes wrong: a call is lost, late or repeated, the cache restarts or is *)
(* in maintenance, or a period is too short for what is to be done in it.  Of six   *)
(* tokens one is always free.                                                       *)
EXTENDS HiCacheSession
================================================================================
