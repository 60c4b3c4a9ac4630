------------------------------ MODULE HiCacheCall ------------------------------
(***************************************************************************)
(* What a caller of the cache client may rely on, whatever threads,        *)
(* messages and timers do underneath: a call is begun, the cache server    *)
(* may execute it (once, several times, or never), and the call ends with  *)
(* null or with the answer to that very call, an answer that only exists   *)
(* once the server has executed it.  HiCacheRpc implements this.           *)
(***************************************************************************)
EXTENDS Naturals

CONSTANT Threads          \* application threads that use one HiCacheSession

VARIABLES
    calling,              \* [Threads -> BOOLEAN]: inside sendRequest
    calls,                \* [Threads -> Nat]: calls begun so far
    executed,             \* the calls the server has carried out
    outcome               \* what the thread's last call returned

absVars == <<calling, calls, executed, outcome>>

NullReply == <<>>

CallInit ==
    /\ calling = [t \in Threads |-> FALSE]
    /\ calls = [t \in Threads |-> 0]
    /\ executed = {}
    /\ outcome = [t \in Threads |-> NullReply]

Begin(t) ==
    /\ ~calling[t]
    /\ calling' = [calling EXCEPT ![t] = TRUE]
    /\ calls' = [calls EXCEPT ![t] = @ + 1]
    /\ outcome' = [outcome EXCEPT ![t] = NullReply]
    /\ UNCHANGED executed

\* A call that has begun may be executed at any time after, also when its
\* caller has given up on it.
Perform(t, n) ==
    /\ executed' = executed \cup {<<t, n>>}
    /\ UNCHANGED <<calling, calls, outcome>>

EndWithNull(t) ==
    /\ calling[t]
    /\ calling' = [calling EXCEPT ![t] = FALSE]
    /\ UNCHANGED <<calls, executed, outcome>>

EndWithAnswer(t) ==
    /\ calling[t]
    /\ <<t, calls[t]>> \in executed
    /\ calling' = [calling EXCEPT ![t] = FALSE]
    /\ outcome' = [outcome EXCEPT ![t] = <<t, calls[t]>>]
    /\ UNCHANGED <<calls, executed>>

CallNext ==
    \/ \E t \in Threads : Begin(t) \/ EndWithNull(t) \/ EndWithAnswer(t)
    \/ \E t \in Threads : \E n \in 1 .. calls[t] : Perform(t, n)

CallSpec == CallInit /\ [][CallNext]_absVars
================================================================================
