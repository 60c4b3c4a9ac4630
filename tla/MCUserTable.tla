------------------------------- MODULE MCUserTable -------------------------------
(* One page, two users and three requests.  No symmetry: liveness is checked. *)
EXTENDS UserTable
================================================================================
