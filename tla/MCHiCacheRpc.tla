------------------------------ MODULE MCHiCacheRpc ------------------------------
(* Instances of HiCacheRpc for TLC. *)
EXTENDS HiCacheRpc, TLC

Symmetry == Permutations(Threads)
================================================================================
