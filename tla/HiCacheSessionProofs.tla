----------------------------- MODULE HiCacheSessionProofs -----------------------------
(***************************************************************************)
(* Proofs about HiCacheSession, for any numbers of tokens and faults and   *)
(* any times.  KeptAlive follows from an account of time: what is left of  *)
(* the session outlasts the ticks until the keep-alive has asked again.    *)
(***************************************************************************)
EXTENDS HiCacheSession, TLAPS

\* A call is made only where there is one to make, and it is that one.
CallsMatch == \A p \in Callers :
    call[p] # NoCall => pc[p] \notin {"wait", "up", "idle"} /\ call[p].cmd = Cmd(pc[p])
SessionType == TypeOK /\ CallsMatch

\* Nothing has gone wrong: nobody but the two asks, and a tick comes only to an idle keep.
Quiet == stray = {} /\ mode = "up" /\ due \in 0 .. 1 /\ (due = 1 => pc["keep"] = "idle")

\* The keep-alive is going to ask about this very token.
Asking == \/ due = 1
          \/ /\ pc["keep"] = "size"
             /\ \/ call["keep"] = NoCall
                \/ call["keep"].answer = Waiting /\ call["keep"].tok = token
TokenAlive == token # 0 => /\ session[token] # "gone" /\ left[token] >= 1
                           /\ ~Asking => left[token] >= 2

\* Tokens that were answered and are not used yet; of no use to anybody else.
Pending(p) == pc[p] = "login" /\ call[p].answer \in Tokens
Since(p) == IF p = "main" THEN age ELSE 0
PendingAlive == \A p \in Callers : Pending(p) =>
    session[call[p].answer] # "gone" /\ left[call[p].answer] >= 3 - Since(p)
PendingAlone == \A p \in Callers : Pending(p) =>
    /\ call[p].answer # token
    /\ \A q \in Callers : call[q].tok # call[p].answer
    /\ \A q \in Callers \ {p} : Pending(q) => call[q].answer # call[p].answer

Alive == Quiet /\ TokenAlive /\ PendingAlive /\ PendingAlone
AliveInv == SessionType /\ (faults = 0 => Alive)

--------------------------------------------------------------------------------
(* Types.                                                                  *)

Calls == [cmd : Commands, tok : Tokens \cup {0}, cred : BOOLEAN, own : BOOLEAN,
          answer : {Waiting, Refused} \cup Tokens]

LEMMA CallType ==
    ASSUME TypeOK, NEW p \in Callers
    PROVE  /\ call[p] \in {NoCall} \cup Calls /\ NoCall \notin Calls
           /\ call[p].answer \in {Waiting, Refused} \cup Tokens
           /\ call[p].tok \in {Waiting, 0} \cup Tokens
           /\ Waiting \notin Tokens \cup {0} /\ Refused \notin Tokens /\ Refused # Waiting
           /\ call[p] # NoCall => Request(p) \in Requests
<1>1. Waiting \notin Tokens \cup {0} /\ Refused \notin Tokens /\ Refused # Waiting
  BY SessionAssumption DEF Waiting, Refused, Tokens
<1>2. call[p] \in {NoCall} \cup Calls
  BY DEF TypeOK, Calls
<1>3. NoCall \notin Calls
  BY <1>1 DEF NoCall, Calls
<1>4. CASE call[p] = NoCall
  BY <1>1, <1>2, <1>3, <1>4 DEF NoCall
<1>5. CASE call[p] \in Calls
  BY <1>1, <1>2, <1>3, <1>5 DEF Calls, Request, Requests
<1>. QED
  BY <1>2, <1>4, <1>5

\* A call that ends: pc and token keep their types, and so do the sessions.
LEMMA ReturnType ==
    ASSUME SessionType, NEW p \in Callers, call[p] # NoCall,
           NEW result \in {Waiting, Refused} \cup Tokens, Return(p, result)
    PROVE  /\ token' \in Tokens \cup {0}
           /\ call' = [call EXCEPT ![p] = NoCall]
           /\ pc'["main"] \in {"wait", "login", "size", "use", "check", "create", "useAgain", "store", "up"}
           /\ pc'["keep"] \in {"idle", "size", "login", "use"} /\ DOMAIN pc' = Callers
           /\ \A q \in Callers \ {p} : pc'[q] = pc[q]
           /\ session' \in [Tokens -> {"gone", "bare", "space"}]
           /\ left' \in [Tokens -> 0 .. LoginLife]
           /\ age' \in 0 .. 1
<1>1. token' \in Tokens \cup {0}
  BY CallType DEF SessionType, TypeOK, Return, Waiting, Refused
<1>2. session' \in [Tokens -> {"gone", "bare", "space"}] /\ left' \in [Tokens -> 0 .. LoginLife]
  BY SessionAssumption DEF SessionType, TypeOK, Return, Forget
<1>3. DOMAIN pc' = Callers /\ \A q \in Callers \ {p} : pc'[q] = pc[q]
  BY DEF SessionType, TypeOK, Return
<1>4. CASE p = "main"
  <2>1. pc["main"] \in {"login", "size", "use", "check", "create", "useAgain", "store"}
    BY <1>4 DEF SessionType, TypeOK, CallsMatch
  <2>2. pc'["main"] = MainGoesOn(pc["main"], result) /\ pc'["keep"] = pc["keep"]
    BY <1>3, <1>4 DEF SessionType, TypeOK, Return, Callers
  <2>. QED
    BY <1>1, <1>2, <1>3, <1>4, <2>1, <2>2 DEF SessionType, TypeOK, Return, MainGoesOn
<1>5. CASE p = "keep"
  <2>1. pc["keep"] \in {"size", "login", "use"}
    BY <1>5 DEF SessionType, TypeOK, CallsMatch
  <2>2. pc'["keep"] = KeepGoesOn(pc["keep"], result) /\ pc'["main"] = pc["main"]
    BY <1>3, <1>5 DEF SessionType, TypeOK, Return, Callers
  <2>. QED
    BY <1>1, <1>2, <1>3, <1>5, <2>1, <2>2 DEF SessionType, TypeOK, Return, KeepGoesOn, LoggedIn
<1>. QED
  BY <1>4, <1>5 DEF Callers

\* What a request does to the server.
LEMMA EffectType ==
    ASSUME TypeOK, NEW r \in Requests, NEW answer, Effect(r, answer)
    PROVE  /\ session' \in [Tokens -> {"gone", "bare", "space"}]
           /\ left' \in [Tokens -> 0 .. LoginLife]
           /\ space' \in BOOLEAN /\ users' \in {"none", "root", "all"}
           /\ ~space' => users' = "none"
<1>1. r.tok \in Tokens \cup {0}
  BY DEF Requests
<1>2. CASE r.cmd = "login" /\ Login(r, answer)
  <2>1. Spare \subseteq Tokens
    BY DEF Spare
  <2>. QED BY <1>2, <2>1, SessionAssumption DEF TypeOK, Login
<1>3. CASE r.cmd = "size" /\ Size(r, answer)
  BY <1>1, <1>3, SessionAssumption DEF TypeOK, Size, Refreshed, Live
<1>4. CASE r.cmd = "use" /\ UseSpace(r, answer)
  BY <1>1, <1>4 DEF TypeOK, UseSpace
<1>5. CASE r.cmd = "create" /\ CreateSpace(r, answer)
  BY <1>5 DEF TypeOK, CreateSpace
<1>6. CASE r.cmd = "store" /\ CreateStore(r, answer)
  BY <1>6 DEF TypeOK, CreateStore, HasSpace
<1>. QED
  BY <1>2, <1>3, <1>4, <1>5, <1>6 DEF Effect

LEMMA InitType == Init => SessionType
<1>. SUFFICES ASSUME Init PROVE SessionType
  OBVIOUS
<1>1. call = [p \in Callers |-> NoCall]
  BY DEF Init
<1>2. CallsMatch
  BY <1>1 DEF CallsMatch
<1>3. session \in [Tokens -> {"gone", "bare", "space"}] /\ left \in [Tokens -> 0 .. LoginLife]
  BY SessionAssumption DEF Init
<1>4. call \in [Callers -> {NoCall} \cup Calls] /\ pc["main"] = "wait" /\ pc["keep"] = "idle"
      /\ DOMAIN pc = Callers
  BY <1>1 DEF Init, Callers
<1>5. due \in 0 .. MaxFaults + 1 /\ age \in 0 .. 1 /\ faults \in 0 .. MaxFaults
  BY SessionAssumption DEF Init
<1>. QED
  BY <1>2, <1>3, <1>4, <1>5 DEF Init, SessionType, TypeOK, Calls


\* Every step keeps the types and the calls in their places.
LEMMA StepType == SessionType /\ [Next]_vars => SessionType'
<1>. SUFFICES ASSUME SessionType, [Next]_vars PROVE SessionType'
  OBVIOUS
<1>. USE DEF SessionType
<1>1. ASSUME NEW p \in Callers, Begin(p) PROVE SessionType'
  <2>1. [cmd |-> Cmd(pc[p]), tok |-> token, cred |-> named, own |-> p = "keep", answer |-> Waiting] \in Calls
    BY <1>1 DEF Begin, TypeOK, Calls, Commands, Cmd, Callers
  <2>2. call' \in [Callers -> {NoCall} \cup Calls]
    BY <1>1, <2>1 DEF Begin, TypeOK, Calls
  <2>3. CallsMatch'
    BY <1>1 DEF Begin, TypeOK, CallsMatch
  <2>. QED
    BY <1>1, <2>2, <2>3 DEF Begin, TypeOK, Calls, server
<1>2. CASE Connect
  <2>1. call["main"] = NoCall
    BY <1>2 DEF Connect, CallsMatch, Callers
  <2>2. CallsMatch'
    BY <1>2, <2>1 DEF Connect, TypeOK, CallsMatch, Callers
  <2>. QED
    BY <1>2, <2>2 DEF Connect, TypeOK, server, Callers
<1>3. CASE Wake
  <2>1. call["keep"] = NoCall
    BY <1>3 DEF Wake, CallsMatch, Callers
  <2>2. CallsMatch'
    BY <1>3, <2>1 DEF Wake, TypeOK, CallsMatch, Callers
  <2>. QED
    BY <1>3, <2>2, SessionAssumption DEF Wake, TypeOK, server, Callers
<1>4. ASSUME NEW p \in Callers, NEW result \in {Waiting, Refused} \cup Tokens, call[p] # NoCall,
             Return(p, result), stray' \subseteq Requests, faults' \in 0 .. MaxFaults
      PROVE  SessionType'
  <2>1. call' \in [Callers -> {NoCall} \cup Calls]
    BY <1>4, ReturnType DEF TypeOK, Calls
  <2>2. CallsMatch'
    BY <1>4, ReturnType DEF TypeOK, CallsMatch
  <2>3. TypeOK'
    BY <1>4, <2>1, ReturnType DEF TypeOK, Return, Forget, Calls
  <2>. QED BY <2>2, <2>3
<1>5. ASSUME NEW p \in Callers, Answered(p) PROVE SessionType'
  <2>1. call[p] # NoCall
    BY <1>5 DEF Answered, NoCall
  <2>. QED
    BY <1>4, <1>5, <2>1, CallType DEF Answered, TypeOK
<1>6. ASSUME NEW p \in Callers, Lost(p) PROVE SessionType'
  <2>1. Request(p) \in Requests
    BY <1>6, CallType DEF Lost
  <2>. QED
    BY <1>4, <1>6, <2>1, SessionAssumption DEF Lost, Fault, TypeOK
<1>7. ASSUME NEW p \in Callers, Execute(p) PROVE SessionType'
  <2>1. call[p] \in Calls /\ Request(p) \in Requests
    BY <1>7, CallType DEF Execute
  <2>2. PICK answer \in Answers : Effect(Request(p), answer) /\ call' = [call EXCEPT ![p].answer = answer]
    BY <1>7 DEF Execute
  <2>3. [call[p] EXCEPT !.answer = answer] \in Calls
    BY <2>1 DEF Calls, Answers
  <2>4. call' \in [Callers -> {NoCall} \cup Calls]
    BY <2>2, <2>3 DEF TypeOK, Calls
  <2>5. CallsMatch'
    BY <1>7, <2>1, <2>2 DEF Execute, TypeOK, CallsMatch, Calls
  <2>. QED
    BY <1>7, <2>1, <2>2, <2>4, <2>5, EffectType DEF Execute, TypeOK, Calls
<1>8. ASSUME NEW r \in stray, ExecuteStray(r) PROVE SessionType'
  <2>1. r \in Requests
    BY DEF TypeOK
  <2>2. CASE r.cmd = "login"
    BY <1>8, <2>2 DEF ExecuteStray, TypeOK, CallsMatch, server
  <2>3. CASE r.cmd # "login"
    <3>1. PICK answer \in Answers : Effect(r, answer)
      BY <1>8, <2>3 DEF ExecuteStray
    <3>. QED
      BY <1>8, <2>1, <3>1, EffectType DEF ExecuteStray, TypeOK, CallsMatch
  <2>. QED BY <2>2, <2>3
<1>9. ASSUME NEW p \in Callers, SendAgain(p) PROVE SessionType'
  <2>1. Request(p) \in Requests
    BY <1>9, CallType DEF SendAgain
  <2>. QED
    BY <1>9, <2>1, SessionAssumption DEF SendAgain, Fault, TypeOK, CallsMatch, server
<1>10. ASSUME NEW k \in Tokens, Expire(k) PROVE SessionType'
  BY <1>10 DEF Expire, TypeOK, CallsMatch
<1>11. CASE Maintenance
  BY <1>11, SessionAssumption DEF Maintenance, Fault, TypeOK, CallsMatch, server
<1>12. CASE Restart
  <2>1. left' \in [Tokens -> 0 .. LoginLife]
    BY <1>12, SessionAssumption DEF Restart
  <2>. QED
    BY <1>12, <2>1, SessionAssumption DEF Restart, Fault, TypeOK, CallsMatch
<1>13. CASE BackUp
  BY <1>13 DEF BackUp, TypeOK, CallsMatch, server
<1>14. CASE Tick
  <2>1. left' \in [Tokens -> 0 .. LoginLife]
    BY <1>14, SessionAssumption DEF Tick, TypeOK
  <2>2. due' \in 0 .. MaxFaults + 1 /\ age' \in 0 .. 1 /\ faults' \in 0 .. MaxFaults
    BY <1>14, SessionAssumption DEF Tick, TypeOK, InTime, Fault
  <2>. QED
    BY <1>14, <2>1, <2>2 DEF Tick, TypeOK, CallsMatch
<1>15. CASE UNCHANGED vars
  BY <1>15 DEF vars, server, TypeOK, CallsMatch
<1>. QED
  BY <1>1, <1>2, <1>3, <1>5, <1>6, <1>7, <1>8, <1>9, <1>10, <1>11, <1>12, <1>13, <1>14, <1>15
     DEF Next, Client, Server

\* Calls, tokens and server keep their types.
THEOREM TypeCorrect == Spec => []TypeOK
<1>1. Init => SessionType
  BY InitType
<1>2. SessionType /\ [Next]_vars => SessionType'
  BY StepType
<1>3. SessionType => TypeOK
  BY DEF SessionType
<1>. QED
  BY <1>1, <1>2, <1>3, PTL DEF Spec


--------------------------------------------------------------------------------
(* Time.                                                                   *)

LEMMA InitAlive == Init => Alive
<1>. SUFFICES ASSUME Init PROVE Alive
  OBVIOUS
<1>1. \A p \in Callers : ~Pending(p)
  BY SessionAssumption DEF Init, Pending, NoCall, Waiting, Tokens, Callers
<1>. QED
  BY <1>1 DEF Init, Alive, Quiet, TokenAlive, PendingAlive, PendingAlone

\* A keep that is idle, or that has nothing to do yet, has made no call.
LEMMA NoCallMade ==
    ASSUME SessionType, NEW p \in Callers, pc[p] \in {"wait", "up", "idle"}
    PROVE  call[p] = NoCall /\ ~Pending(p)
BY SessionAssumption DEF SessionType, CallsMatch, Pending

\* The steps that touch neither sessions nor answers.
LEMMA BeginAlive ==
    ASSUME SessionType, Alive, NEW p \in Callers, Begin(p)
    PROVE  Alive'
<1>1. /\ call'[p].answer = Waiting /\ call'[p].tok = token /\ call[p] = NoCall
      /\ \A q \in Callers \ {p} : call'[q] = call[q]
      /\ UNCHANGED <<token, pc, stray, session, left, mode, due, age>>
  BY DEF Begin, SessionType, TypeOK, server
<1>2. ~Pending(p)' /\ \A q \in Callers : Pending(q)' => Pending(q) /\ q # p /\ call'[q] = call[q]
  BY <1>1, CallType DEF Pending, SessionType
<1>3. TokenAlive'
  BY <1>1 DEF Alive, TokenAlive, Asking, Callers
<1>4. PendingAlive'
  BY <1>1, <1>2 DEF Alive, PendingAlive, Since
<1>5. PendingAlone'
  BY <1>1, <1>2 DEF Alive, PendingAlone
<1>. QED
  BY <1>1, <1>3, <1>4, <1>5 DEF Alive, Quiet

LEMMA ConnectAlive ==
    ASSUME SessionType, Alive, Connect
    PROVE  Alive'
<1>1. call["main"] = NoCall /\ ~Pending("main")
  BY NoCallMade DEF Connect, Callers
<1>2. /\ pc'["keep"] = pc["keep"]
      /\ UNCHANGED <<token, call, stray, session, left, mode, due, age>>
  BY DEF Connect, SessionType, TypeOK, Callers, server
<1>3. ~Pending("main")' /\ (Pending("keep")' <=> Pending("keep"))
  BY <1>1, <1>2, CallType DEF Pending, SessionType, NoCall, Callers
<1>. QED
  BY <1>2, <1>3 DEF Alive, Quiet, TokenAlive, Asking, PendingAlive, PendingAlone, Since, Callers

LEMMA WakeAlive ==
    ASSUME SessionType, Alive, Wake
    PROVE  Alive'
<1>1. call["keep"] = NoCall /\ ~Pending("keep")
  BY NoCallMade DEF Wake, Callers
<1>2. /\ pc'["keep"] = "size" /\ pc'["main"] = pc["main"] /\ due' = 0
      /\ UNCHANGED <<token, call, stray, session, left, mode, age>>
  BY DEF Wake, SessionType, TypeOK, Callers, Alive, Quiet, server
<1>3. ~Pending("keep")' /\ (Pending("main")' <=> Pending("main"))
  BY <1>2 DEF Pending
<1>. QED
  BY <1>1, <1>2, <1>3 DEF Alive, Quiet, TokenAlive, Asking, PendingAlive, PendingAlone, Since, Callers

\* A token that is returned has not been used: there are two periods left.
LEMMA AnsweredAlive ==
    ASSUME SessionType, Alive, NEW p \in Callers, Answered(p)
    PROVE  Alive'
<1>. DEFINE result == call[p].answer
<1>1. call[p] # NoCall /\ result \in {Refused} \cup Tokens /\ Return(p, result)
  BY CallType DEF Answered, NoCall, SessionType
<1>2. /\ call' = [call EXCEPT ![p] = NoCall] /\ \A q \in Callers \ {p} : pc'[q] = pc[q] /\ call'[q] = call[q]
      /\ call'[p] = NoCall
      /\ token' = IF pc[p] = "login" THEN result ELSE token
      /\ UNCHANGED <<stray, mode, due>>
  BY <1>1, ReturnType, CallType DEF Answered, Return, SessionType, TypeOK
<1>3. ~Pending(p)' /\ \A q \in Callers : Pending(q)' => Pending(q) /\ q # p
  BY <1>2, CallType DEF Pending, SessionType, NoCall
<1>4. \A k \in Tokens : k \in Held' => session'[k] = session[k] /\ left'[k] = left[k]
  BY <1>1 DEF Return, Forget
<1>5. token' \in Held' /\ \A q \in Callers : call'[q].answer \in Held'
  BY DEF Held
<1>6. age' = (IF p = "main" THEN 0 ELSE age) /\ age \in 0 .. 1
  BY <1>1 DEF Return, SessionType, TypeOK
<1>7. Quiet'
  <2>1. due = 1 => p # "keep"
    BY <1>1, NoCallMade DEF Alive, Quiet, Callers
  <2>. QED BY <1>2, <2>1 DEF Alive, Quiet, Callers
<1>8. TokenAlive'
  <2>1. CASE pc[p] = "login" /\ result \in Tokens
    <3>1. Pending(p) /\ token' = result
      BY <1>2, <2>1 DEF Pending
    <3>2. session[result] # "gone" /\ left[result] >= 2
      BY <1>6, <2>1, <3>1 DEF Alive, PendingAlive, Since, SessionType, TypeOK
    <3>. QED BY <1>4, <1>5, <2>1, <3>1, <3>2, SessionAssumption DEF TokenAlive, SessionType, TypeOK
  <2>2. CASE pc[p] = "login" /\ result = Refused
    BY <1>2, <2>2 DEF TokenAlive, Refused
  <2>3. CASE pc[p] # "login"
    <3>1. token' = token /\ token \in Tokens \cup {0}
      BY <1>2, <2>3 DEF SessionType, TypeOK
    <3>2. Asking => Asking'
      BY <1>1, <1>2, <3>1, CallType DEF Asking, Callers, Answered, SessionType
    <3>. QED BY <1>4, <1>5, <3>1, <3>2 DEF Alive, TokenAlive
  <2>. QED BY <1>1, <2>1, <2>2, <2>3
<1>9. PendingAlive'
  BY <1>2, <1>3, <1>4, <1>5, <1>6 DEF Alive, PendingAlive, Since, Pending
<1>10. PendingAlone'
  <2>1. ASSUME NEW q \in Callers, Pending(q)' PROVE call'[q].answer # token'
    <3>1. Pending(q) /\ q # p /\ call'[q] = call[q] /\ call[q].answer \in Tokens
      BY <1>2, <1>3, <2>1 DEF Pending
    <3>2. pc[p] = "login" /\ result \in Tokens => Pending(p)
      BY DEF Pending
    <3>. QED
      BY <1>1, <1>2, <3>1, <3>2, CallType DEF Alive, PendingAlone, SessionType
  <2>2. ASSUME NEW q \in Callers, Pending(q)', NEW o \in Callers PROVE call'[o].tok # call'[q].answer
    BY <1>2, <1>3, <2>2, CallType DEF Alive, PendingAlone, SessionType, NoCall, Pending
  <2>. QED
    BY <1>2, <1>3, <2>1, <2>2 DEF Alive, PendingAlone
<1>. QED
  BY <1>7, <1>8, <1>9, <1>10 DEF Alive


\* A login answers a token that nobody holds.
LEMMA SpareIsFree ==
    ASSUME NEW k \in Spare
    PROVE  /\ k \in Tokens /\ k # token
           /\ \A q \in Callers : k # call[q].tok /\ k # call[q].answer
BY DEF Spare, Held

\* What is executed for p leaves everything else where it is.
LEMMA ExecuteFrame ==
    ASSUME SessionType, NEW p \in Callers, Execute(p)
    PROVE  /\ \E answer \in Answers : /\ Effect(Request(p), answer)
                                      /\ call'[p].answer = answer
           /\ call[p].answer = Waiting /\ call[p] # NoCall /\ call'[p] # NoCall
           /\ call'[p].tok = call[p].tok /\ call'[p].answer \in {Refused} \cup Tokens
           /\ \A q \in Callers \ {p} : call'[q] = call[q]
           /\ UNCHANGED <<token, pc, stray, mode, due, age>>
<1>1. call[p] \in Calls
  BY CallType DEF Execute, SessionType
<1>2. PICK answer \in Answers : Effect(Request(p), answer) /\ call' = [call EXCEPT ![p].answer = answer]
  BY DEF Execute
<1>3. call'[p] = [call[p] EXCEPT !.answer = answer] /\ \A q \in Callers \ {p} : call'[q] = call[q]
  BY <1>2 DEF SessionType, TypeOK
<1>4. call'[p].answer = answer /\ call'[p].tok = call[p].tok
  BY <1>1, <1>3 DEF Calls
<1>5. answer # Waiting
  BY CallType DEF Answers, SessionType
<1>. QED
  BY <1>2, <1>3, <1>4, <1>5 DEF Execute, Answers, NoCall

\* The answer to a login is new and has its whole time.
LEMMA LoginAlive ==
    ASSUME SessionType, Alive, NEW p \in Callers, Execute(p), pc[p] = "login"
    PROVE  Alive'
<1>1. call[p].cmd = "login" /\ ~Pending(p)
  BY ExecuteFrame, CallType DEF SessionType, CallsMatch, Cmd, Pending
<1>2. PICK answer \in Answers : Login(Request(p), answer) /\ call'[p].answer = answer
  BY <1>1, ExecuteFrame DEF Effect, Request
<1>3. \A q \in Callers \ {p} : Pending(q)' <=> Pending(q)
  BY ExecuteFrame DEF Pending
<1>4. Quiet'
  BY ExecuteFrame DEF Alive, Quiet
<1>5. CASE answer \in Spare
  <2>1. /\ session' = [session EXCEPT ![answer] = "bare"]
        /\ left' = [left EXCEPT ![answer] = LoginLife]
    <3>1. answer # Refused
      BY <1>5, CallType, SpareIsFree DEF SessionType
    <3>. QED BY <1>2, <3>1 DEF Login
  <2>2. session'[answer] = "bare" /\ left'[answer] >= 3
    BY <1>5, <2>1, SpareIsFree, SessionAssumption DEF SessionType, TypeOK
  <2>3. \A k \in Tokens \ {answer} : session'[k] = session[k] /\ left'[k] = left[k]
    BY <2>1 DEF SessionType, TypeOK
  <2>4. answer # token /\ \A q \in Callers : answer # call[q].tok /\ answer # call[q].answer
    BY <1>5, SpareIsFree
  <2>5. TokenAlive'
    <3>1. Asking => Asking'
      BY <1>1, ExecuteFrame DEF Asking, Callers
    <3>. QED BY <2>3, <2>4, <3>1, ExecuteFrame DEF Alive, TokenAlive, SessionType, TypeOK
  <2>6. PendingAlive'
    <3>1. ASSUME NEW q \in Callers \ {p}, Pending(q)
          PROVE  /\ call'[q].answer = call[q].answer /\ Since(q)' = Since(q)
                 /\ session'[call[q].answer] # "gone" /\ left'[call[q].answer] >= 3 - Since(q)
      BY <2>3, <2>4, <3>1, ExecuteFrame DEF Alive, PendingAlive, Since, Pending
    <3>2. session'[call'[p].answer] # "gone" /\ left'[call'[p].answer] >= 3 - Since(p)'
      <4>1. Since(p)' \in 0 .. 1
        BY ExecuteFrame DEF Since, SessionType, TypeOK
      <4>2. left'[answer] \in Int
        BY <1>5, <2>1, SpareIsFree, SessionAssumption DEF SessionType, TypeOK
      <4>. QED BY <1>2, <2>2, <4>1, <4>2
    <3>. QED BY <1>3, <3>1, <3>2 DEF PendingAlive
  <2>7. PendingAlone'
    <3>1. ASSUME NEW q \in Callers, Pending(q)'
          PROVE  call'[q].answer # token' /\ \A o \in Callers : call'[o].tok # call'[q].answer
      BY <1>2, <1>3, <2>4, <3>1, ExecuteFrame DEF Alive, PendingAlone
    <3>2. ASSUME NEW q \in Callers, Pending(q)', NEW o \in Callers \ {q}, Pending(o)'
          PROVE  call'[o].answer # call'[q].answer
      BY <1>2, <1>3, <2>4, <3>2, ExecuteFrame DEF Alive, PendingAlone
    <3>. QED BY <3>1, <3>2 DEF PendingAlone
  <2>. QED BY <1>4, <2>5, <2>6, <2>7 DEF Alive
<1>6. CASE answer \notin Spare
  <2>1. answer = Refused /\ UNCHANGED <<session, left>>
    BY <1>2, <1>6 DEF Login
  <2>2. ~Pending(p)'
    BY <1>2, <2>1, CallType DEF Pending, SessionType
  <2>3. TokenAlive'
    BY <1>1, <2>1, ExecuteFrame DEF Alive, TokenAlive, Asking, Callers
  <2>4. PendingAlive' /\ PendingAlone'
    BY <1>3, <2>1, <2>2, ExecuteFrame DEF Alive, PendingAlive, PendingAlone, Since
  <2>. QED BY <1>4, <2>3, <2>4 DEF Alive
<1>. QED
  BY <1>5, <1>6

\* The other commands shorten nothing below two periods and end no session.
LEMMA CommandEffect ==
    ASSUME SessionType, Alive, NEW p \in Callers, Execute(p), pc[p] # "login"
    PROVE  /\ \A k \in Tokens : session[k] # "gone" => session'[k] # "gone"
           /\ \A k \in Tokens : left'[k] = left[k] \/ (k = call[p].tok /\ left'[k] = KeepLife)
           /\ pc[p] = "size" /\ call[p].tok \in Tokens /\ session[call[p].tok] # "gone"
                 => left'[call[p].tok] = KeepLife
<1>1. /\ Request(p) \in Requests /\ Request(p).tok = call[p].tok /\ Request(p).cmd = Cmd(pc[p])
      /\ call[p].tok \in Tokens \cup {0}
  BY ExecuteFrame, CallType DEF SessionType, CallsMatch, Request, Requests
<1>2. PICK answer \in Answers : Effect(Request(p), answer)
  BY ExecuteFrame
<1>3. Cmd(pc[p]) # "login" /\ (pc[p] = "size" => Cmd(pc[p]) = "size")
  BY ExecuteFrame DEF Cmd, SessionType, TypeOK, CallsMatch, Callers
<1>. DEFINE r == Request(p)
<1>4. CASE r.cmd = "size" /\ Size(r, answer)
  <2>1. Seen = {TRUE}
    BY DEF Seen, Alive, Quiet
  <2>2. session' = session
    BY <1>4 DEF Size
  <2>3. CASE Live(r.tok)
    <3>1. left' = Refreshed(r.tok) /\ r.tok \in Tokens
      BY <1>1, <1>4, <2>1, <2>3 DEF Size, Live
    <3>. QED BY <1>1, <2>2, <3>1 DEF Refreshed, SessionType, TypeOK
  <2>4. CASE ~Live(r.tok)
    <3>1. left' = left
      BY <1>4, <2>4 DEF Size
    <3>. QED BY <1>1, <2>2, <2>4, <3>1, SessionAssumption DEF Live, Tokens
  <2>. QED BY <2>3, <2>4
<1>5. CASE r.cmd = "use" /\ UseSpace(r, answer)
  BY <1>1, <1>3, <1>5 DEF UseSpace, SessionType, TypeOK
<1>6. CASE r.cmd = "create" /\ CreateSpace(r, answer)
  BY <1>1, <1>3, <1>6 DEF CreateSpace
<1>7. CASE r.cmd = "store" /\ CreateStore(r, answer)
  BY <1>1, <1>3, <1>7 DEF CreateStore
<1>. QED
  BY <1>1, <1>2, <1>3, <1>4, <1>5, <1>6, <1>7 DEF Effect


LEMMA CommandAlive ==
    ASSUME SessionType, Alive, NEW p \in Callers, Execute(p), pc[p] # "login"
    PROVE  Alive'
<1>1. \A q \in Callers : Pending(q)' => Pending(q) /\ q # p /\ call'[q] = call[q] /\ Since(q)' = Since(q)
  BY ExecuteFrame DEF Pending, Since
<1>2. Quiet'
  BY ExecuteFrame DEF Alive, Quiet
<1>3. TokenAlive'
  <2>1. SUFFICES ASSUME token # 0
                 PROVE  /\ session'[token] # "gone" /\ left'[token] >= 1
                        /\ ~Asking' => left'[token] >= 2
    BY ExecuteFrame DEF TokenAlive
  <2>2. token \in Tokens /\ session[token] # "gone" /\ left[token] >= 1
        /\ (~Asking => left[token] >= 2)
    BY <2>1 DEF Alive, TokenAlive, SessionType, TypeOK
  <2>3. CASE left'[token] = KeepLife
    BY <2>2, <2>3, CommandEffect, SessionAssumption
  <2>4. CASE left'[token] = left[token]
    <3>1. Asking /\ ~Asking' => left'[token] = KeepLife
      <4>1. SUFFICES ASSUME Asking, ~Asking' PROVE left'[token] = KeepLife
        OBVIOUS
      <4>2. p = "keep" /\ pc[p] = "size" /\ call[p].tok = token
        BY <4>1, ExecuteFrame DEF Asking, Callers
      <4>. QED BY <2>2, <4>2, CommandEffect
    <3>. QED BY <2>2, <2>4, <3>1, CommandEffect, SessionAssumption
  <2>. QED BY <2>2, <2>3, <2>4, CommandEffect
<1>4. PendingAlive'
  <2>1. ASSUME NEW q \in Callers, Pending(q)
        PROVE  session'[call[q].answer] # "gone" /\ left'[call[q].answer] = left[call[q].answer]
    BY <2>1, CommandEffect DEF Alive, PendingAlive, PendingAlone, Pending
  <2>. QED BY <1>1, <2>1 DEF Alive, PendingAlive
<1>5. PendingAlone'
  <2>1. \A q \in Callers : call'[q].tok = call[q].tok
    BY ExecuteFrame
  <2>. QED BY <1>1, <2>1, ExecuteFrame DEF Alive, PendingAlone
<1>. QED
  BY <1>2, <1>3, <1>4, <1>5 DEF Alive

\* A session that is taken away is nobody's.
LEMMA ExpireAlive ==
    ASSUME SessionType, Alive, NEW k \in Tokens, Expire(k)
    PROVE  Alive'
<1>1. /\ left[k] = 0 /\ session' = [session EXCEPT ![k] = "gone"]
      /\ UNCHANGED <<token, pc, call, stray, left, mode, due, age>>
  BY DEF Expire
<1>2. \A j \in Tokens \ {k} : session'[j] = session[j]
  BY <1>1 DEF SessionType, TypeOK
<1>3. k # token
  BY <1>1, SessionAssumption DEF Alive, TokenAlive, SessionType, TypeOK, Tokens
<1>4. \A q \in Callers : Pending(q) => call[q].answer # k
  BY <1>1 DEF Alive, PendingAlive, Since, SessionType, TypeOK
<1>5. TokenAlive'
  BY <1>1, <1>2, <1>3 DEF Alive, TokenAlive, Asking, SessionType, TypeOK
<1>6. PendingAlive' /\ PendingAlone' /\ Quiet'
  BY <1>1, <1>2, <1>4 DEF Alive, Quiet, PendingAlive, PendingAlone, Pending, Since
<1>. QED
  BY <1>5, <1>6 DEF Alive

\* A tick takes a period, and asks for the question that gives it back.
LEMMA TickAlive ==
    ASSUME SessionType, Alive, Tick, InTime
    PROVE  Alive'
<1>1. /\ pc["keep"] = "idle" /\ due = 0 /\ age = 0 /\ due' = 1
      /\ UNCHANGED <<token, pc, call, stray, session, mode>>
  BY DEF Tick, InTime
<1>2. ~Pending("keep") /\ call["keep"] = NoCall
  BY <1>1, NoCallMade DEF Callers
<1>3. \A k \in Tokens : left[k] \in Nat /\ (left[k] > 0 => left'[k] = left[k] - 1)
  BY SessionAssumption DEF Tick, SessionType, TypeOK
<1>4. ~Asking /\ Asking'
  BY <1>1 DEF Asking
<1>5. TokenAlive'
  BY <1>1, <1>3, <1>4 DEF Alive, TokenAlive, SessionType, TypeOK
<1>6. Pending("main") => age' = 1
  BY DEF Tick, Pending
<1>7. PendingAlive'
  <2>1. SUFFICES ASSUME Pending("main")
                 PROVE  session[call["main"].answer] # "gone" /\ left'[call["main"].answer] >= 2
    BY <1>1, <1>2, <1>6 DEF PendingAlive, Pending, Since, Callers
  <2>. QED BY <1>1, <1>3, <2>1 DEF Alive, PendingAlive, Pending, Since, Callers
<1>. QED
  BY <1>1, <1>5, <1>7 DEF Alive, Quiet, PendingAlone, Pending

LEMMA AliveStep == AliveInv /\ [Next]_vars => AliveInv'
<1>. SUFFICES ASSUME SessionType, faults = 0 => Alive, [Next]_vars, faults' = 0 PROVE Alive'
  BY StepType DEF AliveInv
<1>1. ASSUME Fault PROVE FALSE
  BY <1>1, SessionAssumption DEF Fault, SessionType, TypeOK
<1>2. CASE Client
  <2>1. CASE Connect
    BY <2>1, ConnectAlive DEF Connect
  <2>2. CASE Wake
    BY <2>2, WakeAlive DEF Wake
  <2>3. ASSUME NEW p \in Callers, Begin(p) PROVE Alive'
    BY <2>3, BeginAlive DEF Begin
  <2>4. ASSUME NEW p \in Callers, Answered(p) PROVE Alive'
    BY <2>4, AnsweredAlive DEF Answered
  <2>5. ASSUME NEW p \in Callers, Lost(p) PROVE Alive'
    BY <1>1, <2>5 DEF Lost
  <2>. QED BY <1>2, <2>1, <2>2, <2>3, <2>4, <2>5 DEF Client
<1>3. CASE Server
  <2>1. ASSUME NEW p \in Callers, Execute(p) PROVE Alive'
    BY <2>1, LoginAlive, CommandAlive DEF Execute
  <2>2. ASSUME NEW p \in Callers, SendAgain(p) PROVE Alive'
    BY <1>1, <2>2 DEF SendAgain
  <2>3. ASSUME NEW r \in stray, ExecuteStray(r) PROVE Alive'
    BY <2>3 DEF ExecuteStray, Alive, Quiet
  <2>4. ASSUME NEW k \in Tokens, Expire(k) PROVE Alive'
    BY <2>4, ExpireAlive DEF Expire
  <2>5. CASE Maintenance \/ Restart
    BY <1>1, <2>5 DEF Maintenance, Restart
  <2>6. CASE BackUp
    BY <2>6 DEF BackUp, Alive, Quiet
  <2>. QED BY <1>3, <2>1, <2>2, <2>3, <2>4, <2>5, <2>6 DEF Server
<1>4. CASE Tick
  BY <1>1, <1>4, TickAlive DEF Tick
<1>5. CASE UNCHANGED vars
  <2>1. UNCHANGED <<token, pc, call, stray, session, left, mode, due, age, faults>>
    BY <1>5 DEF vars, server
  <2>. QED BY <2>1 DEF Alive, Quiet, TokenAlive, Asking, PendingAlive, PendingAlone, Pending, Since
<1>. QED
  BY <1>2, <1>3, <1>4, <1>5 DEF Next

\* What keeps the session alive as long as nothing goes wrong, for any times with
\* two ticks in KeepLife and more in LoginLife.
THEOREM AliveCorrect == Spec => []AliveInv
<1>1. Init => AliveInv
  BY InitType, InitAlive DEF AliveInv
<1>. QED
  BY <1>1, AliveStep, PTL DEF Spec

\* The keep-alive never finds the session of the service too old.
THEOREM KeptAliveCorrect == Spec => []KeptAlive
<1>1. AliveInv => KeptAlive
  BY DEF AliveInv, Alive, TokenAlive, KeptAlive
<1>. QED
  BY <1>1, AliveCorrect, PTL


--------------------------------------------------------------------------------
(* The data of the service.                                                *)

\* Calls carry the name once connect has stored it, and so their logins succeed.
WithName == \A p \in Callers :
    /\ call[p] # NoCall => (call[p].own <=> p = "keep") /\ (named => call[p].cred)
    /\ named /\ pc[p] = "login" => call[p].answer # Refused
Started == /\ named <=> pc["main"] # "wait"
           /\ pc["main"] \notin {"wait", "login"} => token # 0
\* The start-up thread asks with a token that lives, be it the service's no more.
AskedAlive ==
    call["main"] # NoCall /\ pc["main"] # "login" =>
        /\ call["main"].tok # 0
        /\ call["main"].answer = Waiting /\ call["main"].tok # token =>
              session[call["main"].tok] # "gone" /\ left[call["main"].tok] >= 2 - age
\* It never finds the cache empty.
DataFound == users = "all" => /\ pc["main"] \notin {"create", "useAgain", "store"}
                              /\ pc["main"] = "check" => call["main"].answer \in {Waiting, 1}
Kept == WithName /\ Started /\ AskedAlive /\ DataFound
DataInv == AliveInv /\ (faults = 0 /\ ~crossed => Kept)


LEMMA InitKept == Init => Kept
BY SessionAssumption DEF Init, Kept, WithName, Started, AskedAlive, DataFound, NoCall, Waiting, Refused, Callers

LEMMA BeginKept ==
    ASSUME SessionType, Kept, NEW p \in Callers, Begin(p)
    PROVE  Kept'
<1>1. /\ call'[p].answer = Waiting /\ call'[p].tok = token /\ call[p] = NoCall
      /\ call'[p].own = (p = "keep") /\ call'[p].cred = named
      /\ \A q \in Callers \ {p} : call'[q] = call[q]
      /\ pc[p] \notin {"wait", "up", "idle"}
      /\ UNCHANGED <<token, named, pc, session, left, users, age>>
  BY DEF Begin, SessionType, TypeOK, server
<1>2. WithName'
  BY <1>1, CallType DEF Kept, WithName, SessionType
<1>. QED
  BY <1>1, <1>2 DEF Kept, Started, AskedAlive, DataFound, Callers

\* No call of the timer's is under way when the name is stored.
LEMMA ConnectKept ==
    ASSUME SessionType, Kept, Connect, ~crossed'
    PROVE  Kept'
<1>1. /\ call["main"] = NoCall /\ call["keep"] = NoCall
      /\ pc["main"] = "wait" /\ pc'["main"] = "login" /\ pc'["keep"] = pc["keep"]
      /\ UNCHANGED <<token, call, session, left, users, age>> /\ named'
  BY NoCallMade DEF Connect, SessionType, TypeOK, Callers, server
<1>2. NoCall.answer # Refused
  BY DEF NoCall, Waiting, Refused
<1>. QED
  BY <1>1, <1>2 DEF Kept, WithName, Started, AskedAlive, DataFound, Callers

LEMMA WakeKept ==
    ASSUME SessionType, Kept, Wake
    PROVE  Kept'
<1>1. /\ pc'["keep"] = "size" /\ pc'["main"] = pc["main"]
      /\ UNCHANGED <<token, named, call, session, left, users, age>>
  BY DEF Wake, SessionType, TypeOK, Callers, server
<1>. QED
  BY <1>1 DEF Kept, WithName, Started, AskedAlive, DataFound, Callers

\* A token of the keep-alive's replaces one that has two periods left.
LEMMA AnsweredKept ==
    ASSUME SessionType, Alive, Kept, NEW p \in Callers, Answered(p)
    PROVE  Kept'
<1>. DEFINE result == call[p].answer
<1>1. call[p] # NoCall /\ result \in {Refused} \cup Tokens /\ Return(p, result)
  BY CallType DEF Answered, NoCall, SessionType
<1>2. /\ \A q \in Callers \ {p} : pc'[q] = pc[q] /\ call'[q] = call[q]
      /\ call'[p] = NoCall /\ NoCall.answer = Waiting
      /\ token' = IF pc[p] = "login" THEN result ELSE token
      /\ UNCHANGED <<named, users>>
  BY <1>1, ReturnType, CallType DEF Answered, Return, Forget, SessionType, TypeOK, NoCall
<1>3. WithName'
  BY <1>2, CallType DEF Kept, WithName, SessionType
<1>4. named => token' # 0 \/ (token' = token /\ pc[p] # "login")
  BY <1>1, <1>2, CallType DEF Kept, WithName, Refused
<1>5. CASE p = "main"
  <2>1. /\ pc["main"] \in {"login", "size", "use", "check", "create", "useAgain", "store"}
        /\ pc'["main"] = MainGoesOn(pc["main"], result)
    BY <1>1, <1>5 DEF Return, SessionType, TypeOK, CallsMatch, Callers
  <2>2. pc'["main"] # "wait" /\ pc'["main"] # "login"
    BY <2>1 DEF MainGoesOn
  <2>3. Started'
    BY <1>2, <1>4, <1>5, <2>1, <2>2 DEF Kept, Started
  <2>4. DataFound'
    <3>1. users = "all" => pc["main"] \in {"login", "size", "use"} \/ (pc["main"] = "check" /\ result = 1)
      BY <1>1, <1>5, <2>1, CallType DEF Kept, DataFound, SessionType
    <3>2. users = "all" => pc'["main"] \in {"size", "use", "check", "up"}
      BY <2>1, <3>1 DEF MainGoesOn
    <3>. QED BY <1>2, <1>5, <3>2 DEF DataFound, Callers
  <2>. QED BY <1>2, <1>3, <1>5, <2>3, <2>4 DEF Kept, AskedAlive
<1>6. CASE p = "keep"
  <2>1. call'["main"] = call["main"] /\ pc'["main"] = pc["main"] /\ age' = age
    BY <1>1, <1>2, <1>6 DEF Return, Callers
  <2>2. Started' /\ DataFound'
    BY <1>2, <1>4, <2>1 DEF Kept, Started, DataFound
  <2>3. AskedAlive'
    <3>. DEFINE k == call["main"].tok
    <3>1. SUFFICES ASSUME call["main"] # NoCall, pc["main"] # "login"
                   PROVE  /\ k # 0
                          /\ call["main"].answer = Waiting /\ k # token' =>
                                session'[k] # "gone" /\ left'[k] >= 2 - age
      BY <2>1 DEF AskedAlive
    <3>2. k \in Tokens
      BY <3>1, CallType DEF Kept, AskedAlive, SessionType, Calls, Callers
    <3>3. session'[k] = session[k] /\ left'[k] = left[k]
      <4>1. k \in Held'
        BY <2>1 DEF Held, Callers
      <4>. QED BY <1>1, <3>2, <4>1 DEF Return, Forget
    <3>4. CASE k = token /\ token' # token
      <4>1. ~Asking
        BY <1>1, <1>2, <1>6, <3>4 DEF Asking, Alive, Quiet, SessionType, CallsMatch
      <4>2. left[k] >= 2 /\ session[k] # "gone" /\ left[k] \in Nat /\ age \in 0 .. 1
        BY <3>2, <3>4, <4>1, SessionAssumption DEF Alive, TokenAlive, SessionType, TypeOK, Tokens
      <4>. QED BY <3>2, <3>3, <4>2, SessionAssumption DEF Tokens
    <3>5. CASE k # token
      BY <3>1, <3>3, <3>5 DEF Kept, AskedAlive
    <3>6. CASE k = token /\ token' = token
      BY <3>2, <3>6, SessionAssumption DEF Tokens
    <3>. QED BY <3>4, <3>5, <3>6
  <2>. QED BY <1>3, <2>2, <2>3 DEF Kept
<1>. QED
  BY <1>5, <1>6 DEF Callers


\* With a name and a cache that is up a login succeeds.
LEMMA NamedLogin ==
    ASSUME SessionType, Alive, Kept, NEW p \in Callers, Execute(p), pc[p] = "login", named
    PROVE  call'[p].answer # Refused
<1>1. Request(p).cmd = "login" /\ Request(p).cred /\ mode = "up"
  BY ExecuteFrame DEF SessionType, CallsMatch, Cmd, Request, Kept, WithName, Alive, Quiet
<1>2. PICK answer \in Answers : Login(Request(p), answer) /\ call'[p].answer = answer
  BY <1>1, ExecuteFrame DEF Effect
<1>3. answer \in Spare
  BY <1>1, <1>2 DEF Login
<1>. QED
  BY <1>2, <1>3, SpareIsFree, CallType DEF SessionType

\* With its data in the cache the start-up thread finds the space.
LEMMA SpaceFound ==
    ASSUME SessionType, Alive, Kept, Execute("main"), pc["main"] = "check", users = "all"
    PROVE  call'["main"].answer = 1
<1>. DEFINE r == Request("main")
<1>1. /\ call["main"] # NoCall /\ call["main"].answer = Waiting /\ "main" \in Callers
      /\ r.cmd = "size" /\ ~r.own /\ r.tok = call["main"].tok /\ r.tok \in Tokens
  <2>1. call["main"] \in Calls /\ "main" \in Callers
    BY CallType DEF Execute, SessionType, Callers
  <2>2. call["main"].tok \in Tokens
    BY <2>1, ExecuteFrame DEF Kept, AskedAlive, Calls
  <2>. QED BY <2>1, <2>2, ExecuteFrame DEF SessionType, CallsMatch, Cmd, Request, Kept, WithName
<1>2. Live(r.tok)
  <2>1. CASE r.tok = token
    BY <1>1, <2>1, SessionAssumption DEF Alive, TokenAlive, Live, Tokens
  <2>2. CASE r.tok # token
    BY <1>1, <2>2, SessionAssumption DEF Kept, AskedAlive, Live, Tokens
  <2>. QED BY <2>1, <2>2
<1>3. space /\ Seen = {TRUE}
  BY DEF SessionType, TypeOK, Seen, Alive, Quiet
<1>4. PICK answer \in Answers : Size(r, answer) /\ call'["main"].answer = answer
  BY <1>1, ExecuteFrame DEF Effect
<1>. QED
  BY <1>1, <1>2, <1>3, <1>4 DEF Size

\* Only the start-up thread replaces a store.
LEMMA UsersKept ==
    ASSUME SessionType, Kept, NEW p \in Callers, Execute(p), users = "all" \/ users' = "all"
    PROVE  users' = users
<1>1. PICK answer \in Answers : Effect(Request(p), answer)
  BY ExecuteFrame
<1>2. Request(p).cmd = Cmd(pc[p])
  BY ExecuteFrame DEF SessionType, CallsMatch, Request
<1>3. CASE Request(p).cmd = "store"
  <2>1. p = "main" /\ pc["main"] = "store"
    BY <1>2, <1>3, ExecuteFrame DEF Cmd, SessionType, TypeOK, CallsMatch, Callers
  <2>2. users # "all"
    BY <2>1 DEF Kept, DataFound
  <2>. QED BY <1>1, <1>3, <2>2 DEF Effect, CreateStore
<1>4. CASE Request(p).cmd # "store"
  BY <1>1, <1>4 DEF Effect, Login, Size, UseSpace, CreateSpace
<1>. QED
  BY <1>3, <1>4

LEMMA ExecuteKept ==
    ASSUME SessionType, Alive, Kept, NEW p \in Callers, Execute(p)
    PROVE  Kept'
<1>1. UNCHANGED <<token, named, pc, age>> /\ \A q \in Callers \ {p} : call'[q] = call[q]
  BY ExecuteFrame DEF Execute
<1>2. call'[p].own = call[p].own /\ call'[p].cred = call[p].cred
  <2>1. call[p] \in Calls
    BY ExecuteFrame, CallType DEF SessionType
  <2>2. PICK answer \in Answers : call' = [call EXCEPT ![p].answer = answer]
    BY DEF Execute
  <2>3. call'[p] = [call[p] EXCEPT !.answer = answer]
    BY <2>2 DEF SessionType, TypeOK
  <2>. QED BY <2>1, <2>3 DEF Calls
<1>3. WithName'
  BY <1>1, <1>2, ExecuteFrame, NamedLogin DEF Kept, WithName
<1>4. Started'
  BY <1>1 DEF Kept, Started
<1>5. AskedAlive'
  <2>. DEFINE k == call["main"].tok
  <2>1. CASE p = "main"
    BY <1>1, <2>1, ExecuteFrame, CallType DEF Kept, AskedAlive, SessionType
  <2>2. CASE p = "keep"
    <3>1. call'["main"] = call["main"]
      BY <1>1, <2>2 DEF Callers
    <3>2. SUFFICES ASSUME call["main"] # NoCall, pc["main"] # "login",
                          call["main"].answer = Waiting, k # token
                   PROVE  session'[k] # "gone" /\ left'[k] >= 2 - age
      BY <1>1, <3>1 DEF Kept, AskedAlive
    <3>3. k \in Tokens /\ session[k] # "gone" /\ left[k] >= 2 - age /\ age \in 0 .. 1
      BY <3>2, CallType DEF Kept, AskedAlive, SessionType, TypeOK, Calls, Callers
    <3>4. CASE pc[p] = "login"
      <4>1. Request(p).cmd = "login"
        BY <3>4, ExecuteFrame DEF SessionType, CallsMatch, Cmd, Request
      <4>2. PICK answer \in Answers : Login(Request(p), answer)
        BY <4>1, ExecuteFrame DEF Effect
      <4>3. answer \in Spare => answer # k
        BY SpareIsFree DEF Callers
      <4>. QED BY <3>3, <4>2, <4>3 DEF Login, SessionType, TypeOK
    <3>5. CASE pc[p] # "login"
      <4>1. session'[k] # "gone" /\ (left'[k] = left[k] \/ left'[k] = KeepLife)
        BY <3>3, <3>5, CommandEffect
      <4>. QED BY <3>3, <4>1, SessionAssumption
    <3>. QED BY <3>4, <3>5
  <2>. QED BY <2>1, <2>2 DEF Callers
<1>6. DataFound'
  <2>1. SUFFICES ASSUME users = "all"
                 PROVE  /\ pc["main"] \notin {"create", "useAgain", "store"}
                        /\ pc["main"] = "check" => call'["main"].answer \in {Waiting, 1}
    BY <1>1, UsersKept DEF DataFound
  <2>. QED BY <1>1, <2>1, SpaceFound DEF Kept, DataFound, Callers
<1>. QED
  BY <1>3, <1>4, <1>5, <1>6 DEF Kept

LEMMA ExpireKept ==
    ASSUME SessionType, Kept, NEW k \in Tokens, Expire(k)
    PROVE  Kept'
<1>1. /\ left[k] = 0 /\ session' = [session EXCEPT ![k] = "gone"]
      /\ UNCHANGED <<token, named, pc, call, left, users, age>>
  BY DEF Expire
<1>2. AskedAlive'
  BY <1>1 DEF Kept, AskedAlive, SessionType, TypeOK
<1>. QED
  BY <1>1, <1>2 DEF Kept, WithName, Started, DataFound

LEMMA TickKept ==
    ASSUME SessionType, Kept, Tick, InTime
    PROVE  Kept'
<1>1. age = 0 /\ UNCHANGED <<token, named, pc, call, session, users>>
  BY DEF Tick, InTime
<1>2. \A k \in Tokens : left[k] \in Nat /\ (left[k] > 0 => left'[k] = left[k] - 1)
  BY SessionAssumption DEF Tick, SessionType, TypeOK
<1>3. call["main"] # NoCall => age' = 1
  BY DEF Tick, SessionType, CallsMatch, Callers
<1>4. call["main"] # NoCall => call["main"].tok \in Tokens \cup {0}
  BY CallType DEF SessionType, Calls, Callers
<1>5. AskedAlive'
  BY <1>1, <1>2, <1>3, <1>4 DEF Kept, AskedAlive
<1>. QED
  BY <1>1, <1>5 DEF Kept, WithName, Started, DataFound

LEMMA DataStep == DataInv /\ [Next]_vars => DataInv'
<1>. SUFFICES ASSUME SessionType, faults = 0 => Alive, faults = 0 /\ ~crossed => Kept,
                     [Next]_vars, faults' = 0, ~crossed'
              PROVE Kept'
  BY AliveStep DEF DataInv, AliveInv
<1>1. ASSUME Fault PROVE FALSE
  BY <1>1, SessionAssumption DEF Fault, SessionType, TypeOK
<1>2. CASE Client
  <2>1. CASE Connect
    BY <2>1, ConnectKept DEF Connect
  <2>2. CASE Wake
    BY <2>2, WakeKept DEF Wake
  <2>3. ASSUME NEW p \in Callers, Begin(p) PROVE Kept'
    BY <2>3, BeginKept DEF Begin
  <2>4. ASSUME NEW p \in Callers, Answered(p) PROVE Kept'
    BY <2>4, AnsweredKept DEF Answered, Return
  <2>5. ASSUME NEW p \in Callers, Lost(p) PROVE Kept'
    BY <1>1, <2>5 DEF Lost
  <2>. QED BY <1>2, <2>1, <2>2, <2>3, <2>4, <2>5 DEF Client
<1>3. CASE Server
  <2>1. ASSUME NEW p \in Callers, Execute(p) PROVE Kept'
    BY <2>1, ExecuteKept DEF Execute
  <2>2. ASSUME NEW p \in Callers, SendAgain(p) PROVE Kept'
    BY <1>1, <2>2 DEF SendAgain
  <2>3. ASSUME NEW r \in stray, ExecuteStray(r) PROVE Kept'
    BY <2>3 DEF ExecuteStray, Alive, Quiet
  <2>4. ASSUME NEW k \in Tokens, Expire(k) PROVE Kept'
    BY <2>4, ExpireKept DEF Expire
  <2>5. CASE Maintenance \/ Restart
    BY <1>1, <2>5 DEF Maintenance, Restart
  <2>6. CASE BackUp
    BY <2>6 DEF BackUp, Alive, Quiet
  <2>. QED BY <1>3, <2>1, <2>2, <2>3, <2>4, <2>5, <2>6 DEF Server
<1>4. CASE Tick
  BY <1>1, <1>4, TickKept DEF Tick
<1>5. CASE UNCHANGED vars
  <2>1. UNCHANGED <<token, named, pc, call, session, left, users, age, faults, crossed>>
    BY <1>5 DEF vars, server
  <2>. QED BY <2>1 DEF Kept, WithName, Started, AskedAlive, DataFound
<1>. QED
  BY <1>2, <1>3, <1>4, <1>5 DEF Next

\* A step that empties the store of credentials comes after something went wrong, or
\* after a nameless login crossed connect.
LEMMA StoreStep == DataInv /\ [Next]_vars => (users = "all" /\ users' # "all" => faults > 0 \/ crossed)
<1>. SUFFICES ASSUME SessionType, faults = 0, Alive, Kept, users = "all", [Next]_vars
              PROVE  users' = users
  BY SessionAssumption DEF DataInv, AliveInv, SessionType, TypeOK
<1>1. ASSUME NEW p \in Callers, Execute(p) PROVE users' = users
  BY <1>1, UsersKept
<1>2. ASSUME NEW r \in stray, ExecuteStray(r) PROVE users' = users
  BY <1>2 DEF Alive, Quiet
<1>3. CASE Client
  BY <1>3 DEF Client, Connect, Wake, Begin, Answered, Lost, Return, Forget, server
<1>4. CASE Tick \/ Maintenance \/ Restart \/ BackUp
  BY <1>4 DEF Tick, Maintenance, Restart, BackUp, server
<1>5. ASSUME NEW p \in Callers, SendAgain(p) PROVE users' = users
  BY <1>5 DEF SendAgain, server
<1>6. ASSUME NEW k \in Tokens, Expire(k) PROVE users' = users
  BY <1>6 DEF Expire
<1>7. CASE UNCHANGED vars
  BY <1>7 DEF vars, server
<1>. QED
  BY <1>1, <1>2, <1>3, <1>4, <1>5, <1>6, <1>7 DEF Next, Server

\* A start does not empty the store of a service that had its data in the cache.
THEOREM DataKeptCorrect == Spec => DataKept
<1>1. Init => DataInv
  BY InitType, InitAlive, InitKept DEF DataInv, AliveInv
<1>. QED
  BY <1>1, DataStep, StoreStep, PTL DEF Spec, DataKept

================================================================================
