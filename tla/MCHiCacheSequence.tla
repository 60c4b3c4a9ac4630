----------------------------- MODULE MCHiCacheSequence -----------------------------
(* Three commands at once on one name: an increment that sleeps while others go on. *)
EXTENDS HiCacheSequence, TLC

Symmetry == Permutations(Handlers)
================================================================================
