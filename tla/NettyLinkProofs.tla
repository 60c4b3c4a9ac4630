----------------------------- MODULE NettyLinkProofs -----------------------------
(***************************************************************************)
(* Proofs about NettyLink, for any number of connections and messages.     *)
(***************************************************************************)
EXTENDS NettyLink, TLAPS

\* The types alone are not inductive: that a counter stays below two follows
\* from OneAttempt, and that a failed connect cannot deactivate a connection
\* that is up follows from it too.
LinkInv == TypeOK /\ OneAttempt /\ OpenIsUsable /\ AcceptedIsKept

LEMMA InvInit == Init => LinkInv
<1>. SUFFICES ASSUME Init PROVE LinkInv
  OBVIOUS
<1>. USE LinkAssumption DEF Init
<1>1. TypeOK
  BY DEF TypeOK, At, NotChosen
<1>2. OneAttempt /\ OpenIsUsable
  BY DEF OneAttempt, OpenIsUsable
<1>3. AcceptedIsKept
  BY DEF AcceptedIsKept, At
<1>. QED
  BY <1>1, <1>2, <1>3 DEF LinkInv

\* The steps of the channel keep the channel's variables as they should be.
LEMMA LinkStep ==
    ASSUME TypeOK, OneAttempt, OpenIsUsable, NEW c \in Conns, Link(c)
    PROVE  TypeOK' /\ OneAttempt' /\ OpenIsUsable'
<1>. USE LinkAssumption DEF TypeOK, OneAttempt, OpenIsUsable, More, Less, messageVars,
                             fateVars
<1>1. CASE DoConnect(c)
  BY <1>1 DEF DoConnect
<1>2. CASE ConnectFail(c)
  BY <1>2 DEF ConnectFail
<1>3. CASE ConnectOk(c)
  BY <1>3 DEF ConnectOk, NewChannel
<1>4. CASE Activate(c)
  BY <1>4 DEF Activate
<1>5. CASE Lose(c)
  BY <1>5 DEF Lose
<1>6. CASE Lost(c)
  BY <1>6 DEF Lost
<1>. QED
  BY <1>1, <1>2, <1>3, <1>4, <1>5, <1>6 DEF Link

\* A message leaves a sender or the cache only for the socket or for good.
LEMMA LinkKeeps ==
    ASSUME TypeOK, AcceptedIsKept, NEW c \in Conns, Link(c)
    PROVE  AcceptedIsKept'
<1>. USE DEF AcceptedIsKept, messageVars, fateVars
<1>1. CASE Lose(c)
  BY <1>1 DEF Lose, TypeOK
<1>2. CASE UNCHANGED <<messageVars, losses, fateVars>>
  BY <1>2
<1>. QED
  BY <1>1, <1>2 DEF Link, DoConnect, ConnectFail, ConnectOk, Activate, Lost

\* The steps of a message leave the channels alone.
LEMMA MessageStep ==
    ASSUME TypeOK, AcceptedIsKept, NEW m \in Messages,
           \/ Select(m) \/ Refuse(m) \/ Send(m) \/ SendFails(m)
           \/ \E c \in Conns :
                 Write(c, m) \/ WriteFails(c, m) \/ RetrySend(c, m) \/ Expire(c, m)
    PROVE  TypeOK' /\ AcceptedIsKept' /\ UNCHANGED linkVars
<1>. USE LinkAssumption DEF TypeOK, linkVars, fateVars
<1>1. CASE Select(m)
  <2>1. PICK c \in Conns : call' = [call EXCEPT ![m] = [at |-> "chosen", conn |-> c]]
    BY <1>1 DEF Select
  <2>2. TypeOK'
    BY <1>1, <2>1 DEF Select
  <2>3. AcceptedIsKept'
    BY <1>1, <2>1 DEF Select, AcceptedIsKept
  <2>. QED
    BY <1>1, <2>2, <2>3 DEF Select
<1>2. CASE Refuse(m)
  <2>1. TypeOK'
    BY <1>2 DEF Refuse, At, NotChosen
  <2>2. AcceptedIsKept'
    BY <1>2 DEF Refuse, At, AcceptedIsKept
  <2>. QED
    BY <1>2, <2>1, <2>2 DEF Refuse
<1>3. CASE Send(m)
  <2>1. call[m].conn \in Conns
    BY <1>3 DEF Send, NotChosen
  <2>2. TypeOK'
    BY <1>3, <2>1 DEF Send, At, NotChosen, RetryPut
  <2>3. ASSUME NEW n \in Messages, call'[n].at = "accepted", n # m
        PROVE  \/ n \in written' \cup forgone' \cup unsent'
               \/ \E c \in Conns : n \in sending'[c] \cup retry'[c]
    BY <1>3, <2>1, <2>3 DEF Send, RetryPut, AcceptedIsKept
  <2>4. m \in sending'[call[m].conn] \cup retry'[call[m].conn]
    BY <1>3, <2>1 DEF Send, RetryPut
  <2>. QED
    BY <1>3, <2>1, <2>2, <2>3, <2>4 DEF Send, AcceptedIsKept
<1>4. ASSUME NEW c \in Conns, Write(c, m)
      PROVE  TypeOK' /\ AcceptedIsKept' /\ UNCHANGED linkVars
  BY <1>4 DEF Write, AcceptedIsKept
<1>5. ASSUME NEW c \in Conns, RetrySend(c, m)
      PROVE  TypeOK' /\ AcceptedIsKept' /\ UNCHANGED linkVars
  BY <1>5 DEF RetrySend, AcceptedIsKept
<1>6. ASSUME NEW c \in Conns, Expire(c, m)
      PROVE  TypeOK' /\ AcceptedIsKept' /\ UNCHANGED linkVars
  BY <1>6 DEF Expire, AcceptedIsKept
<1>7. CASE SendFails(m)
  <2>1. TypeOK'
    BY <1>7 DEF SendFails, At, NotChosen
  <2>2. AcceptedIsKept'
    BY <1>7 DEF SendFails, At, AcceptedIsKept
  <2>. QED
    BY <1>7, <2>1, <2>2 DEF SendFails
<1>8. ASSUME NEW c \in Conns, WriteFails(c, m)
      PROVE  TypeOK' /\ AcceptedIsKept' /\ UNCHANGED linkVars
  BY <1>8 DEF WriteFails, AcceptedIsKept
<1>. QED
  BY <1>1, <1>2, <1>3, <1>4, <1>5, <1>6, <1>7, <1>8

LEMMA InvNext == LinkInv /\ [Next]_vars => LinkInv'
<1>. SUFFICES ASSUME LinkInv, [Next]_vars PROVE LinkInv'
  OBVIOUS
<1>. USE DEF LinkInv
<1>1. ASSUME NEW c \in Conns, Link(c) PROVE LinkInv'
  BY <1>1, LinkStep, LinkKeeps
<1>2. ASSUME NEW m \in Messages,
             \/ Select(m) \/ Refuse(m) \/ Send(m) \/ SendFails(m)
             \/ \E c \in Conns :
                   Write(c, m) \/ WriteFails(c, m) \/ RetrySend(c, m) \/ Expire(c, m)
      PROVE  LinkInv'
  <2>1. TypeOK' /\ AcceptedIsKept' /\ UNCHANGED linkVars
    BY <1>2, MessageStep
  <2>2. OneAttempt' /\ OpenIsUsable'
    BY <2>1 DEF linkVars, OneAttempt, OpenIsUsable
  <2>. QED
    BY <2>1, <2>2
<1>3. CASE UNCHANGED vars
  BY <1>3 DEF vars, linkVars, messageVars, fateVars, TypeOK, OneAttempt, OpenIsUsable,
              AcceptedIsKept
<1>. QED
  BY <1>1, <1>2, <1>3 DEF Next

\* Types, and with them that the counters of a connection stay at zero and one.
THEOREM TypeCorrect == Spec => []TypeOK
<1>. QED
  BY InvInit, InvNext, PTL DEF Spec, LinkInv

\* A connection connects once at a time and never gives up, and its counters
\* stay at zero and one.
THEOREM OneAttemptCorrect == Spec => [](TypeOK /\ OneAttempt)
<1>. QED
  BY InvInit, InvNext, PTL DEF Spec, LinkInv

\* A connection whose socket is up is found by Connector and refers to it.
THEOREM OpenIsUsableCorrect == Spec => []OpenIsUsable
<1>. QED
  BY InvInit, InvNext, PTL DEF Spec, LinkInv

\* What Connector.send accepts is kept until it is written, the cache drops it, its
\* socket is lost under its sender or an exception on its way is swallowed.
THEOREM AcceptedIsKeptCorrect == Spec => []AcceptedIsKept
<1>. QED
  BY InvInit, InvNext, PTL DEF Spec, LinkInv

================================================================================
