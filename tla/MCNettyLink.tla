------------------------------- MODULE MCNettyLink -------------------------------
(* Small instances of NettyLink for TLC. *)
EXTENDS NettyLink
================================================================================
