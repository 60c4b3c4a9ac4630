------------------------------- MODULE RecordChannel -------------------------------
(***************************************************************************)
(* What NettyLink and HiCacheRpc take for granted of a connection: whole   *)
(* messages come out once, in the order in which they were sent, and what  *)
(* is under way when the connection is lost is lost with it.  The decoder  *)
(* of Framing implements this, whatever pieces the bytes arrive in.        *)
(***************************************************************************)
EXTENDS Naturals, Sequences

VARIABLES
    sent,                 \* records sent so far, over all connections
    start,                \* the first one of this connection
    got                   \* the records that came out of it

Init == sent = 0 /\ start = 1 /\ got = <<>>

Send == sent' = sent + 1 /\ UNCHANGED <<start, got>>

Deliver ==
    /\ start + Len(got) <= sent
    /\ got' = Append(got, start + Len(got))
    /\ UNCHANGED <<sent, start>>

Lose == start' = sent + 1 /\ got' = <<>> /\ UNCHANGED sent

Next == Send \/ Deliver \/ Lose

Spec == Init /\ [][Next]_<<sent, start, got>>
================================================================================
