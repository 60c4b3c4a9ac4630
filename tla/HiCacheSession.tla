-------------------------------- MODULE HiCacheSession --------------------------------
(***************************************************************************)
(* The session a service has with the cache: the start-up thread connects  *)
(* and looks whether its data is there, while KeepSessionTask, one actor   *)
(* with a tick every 30 seconds, asks for the size of the session's space  *)
(* and connects anew when there is none.  Both use one token.              *)
(*                                                                         *)
(* A call is that of HiCacheCall: it is executed, perhaps more than once   *)
(* or later than its caller waits, and returns its answer or null.  The    *)
(* unit of time is the period of the ticks.  The service is hi-authen,     *)
(* whose user root is an administrator without permissions of its own.     *)
(***************************************************************************)
EXTENDS Integers

CONSTANTS
    MaxTokens,            \* bound: tokens somebody may hold at once
    LoginLife,            \* cacheTimeout: 15 minutes
    KeepLife,             \* CLEAR_TIME: 60 seconds
    MaxFaults             \* bound: what goes wrong

ASSUME SessionAssumption ==
    /\ MaxTokens \in Nat /\ MaxFaults \in Nat
    /\ KeepLife \in Nat /\ LoginLife \in Nat
    /\ 2 <= KeepLife /\ KeepLife < LoginLife

Tokens == 1 .. MaxTokens
Callers == {"main", "keep"}
Waiting == -1                  \* no answer yet, or null
Refused == 0                   \* no data in the answer; the token "" or null

VARIABLES
    token,                \* accessToken
    named,                \* connect has stored user, password and space
    pc,                   \* pc[p]: the call p makes, or where it is between calls
    call,                 \* call[p]: arguments and answer; token Waiting if there is none
    stray,                \* requests that are executed without a caller
    session,              \* session[k]: with the space, without one, or gone
    left,                 \* left[k]: periods until session k is too old
    space, users,         \* the space authen; the users in its store of credentials
    mode,                 \* up, maintenance, or loading after a restart
    due,                  \* ticks in the mailbox
    age,                  \* ticks since the start-up thread began its call
    faults,               \* what went wrong so far
    crossed               \* history: keep logged in with no name, across connect

server == <<session, left, space, users>>
vars == <<token, named, pc, call, stray, server, mode, due, age, faults, crossed>>

Commands == {"login", "size", "use", "create", "store"}
Requests == [cmd : Commands, tok : Tokens \cup {0}, cred : BOOLEAN, own : BOOLEAN]
NoCall == [cmd |-> "login", tok |-> Waiting, cred |-> FALSE, own |-> FALSE, answer |-> Waiting]

TypeOK ==
    /\ token \in Tokens \cup {0} /\ named \in BOOLEAN /\ crossed \in BOOLEAN
    /\ pc["main"] \in {"wait", "login", "size", "use", "check", "create", "useAgain", "store", "up"}
    /\ pc["keep"] \in {"idle", "size", "login", "use"} /\ DOMAIN pc = Callers
    /\ call \in [Callers -> {NoCall} \cup [cmd : Commands, tok : Tokens \cup {0}, cred : BOOLEAN,
                                           own : BOOLEAN, answer : {Waiting, Refused} \cup Tokens]]
    /\ stray \subseteq Requests
    /\ session \in [Tokens -> {"gone", "bare", "space"}]
    /\ left \in [Tokens -> 0 .. LoginLife]
    /\ space \in BOOLEAN /\ users \in {"none", "root", "all"}
    /\ ~space => users = "none"
    /\ mode \in {"up", "maintenance", "loading"}
    /\ due \in 0 .. MaxFaults + 1 /\ age \in 0 .. 1 /\ faults \in 0 .. MaxFaults

\* The service starts, for the first time or with its data in the cache.
Init ==
    /\ token = 0 /\ named = FALSE /\ crossed = FALSE
    /\ pc = [main |-> "wait", keep |-> "idle"]
    /\ call = [p \in Callers |-> NoCall] /\ stray = {}
    /\ session = [k \in Tokens |-> "gone"] /\ left = [k \in Tokens |-> 0]
    /\ space \in BOOLEAN /\ users = IF space THEN "all" ELSE "none"
    /\ mode = "up" /\ due = 0 /\ age = 0 /\ faults = 0

Fault == faults < MaxFaults /\ faults' = faults + 1

--------------------------------------------------------------------------------
(* The callers.                                                            *)

Held == {token} \cup {call[p].tok : p \in Callers} \cup {call[p].answer : p \in Callers}
        \cup {r.tok : r \in stray}

\* A session whose token nobody holds any more is not told from one that has gone.
Forget ==
    /\ session' = [k \in Tokens |-> IF k \in Held' THEN session[k] ELSE "gone"]
    /\ left' = [k \in Tokens |-> IF k \in Held' THEN left[k] ELSE 0]
    /\ UNCHANGED <<space, users>>

Cmd(step) == CASE step = "check" -> "size" [] step = "useAgain" -> "use" [] OTHER -> step

\* The token and the name are read when the call is made.
Begin(p) ==
    /\ call[p] = NoCall /\ pc[p] \notin {"wait", "up", "idle"}
    /\ call' = [call EXCEPT ![p] = [cmd |-> Cmd(pc[p]), tok |-> token, cred |-> named,
                                    own |-> p = "keep", answer |-> Waiting]]
    /\ UNCHANGED <<token, named, pc, stray, server, mode, due, age, faults, crossed>>

Connect ==
    /\ pc["main"] = "wait" /\ pc' = [pc EXCEPT !["main"] = "login"]
    /\ named' = TRUE
    /\ crossed' = (crossed \/ pc["keep"] # "idle")
    /\ UNCHANGED <<token, call, stray, server, mode, due, age, faults>>

\* A tick is taken from the mailbox.
Wake ==
    /\ pc["keep"] = "idle" /\ due > 0 /\ due' = due - 1
    /\ pc' = [pc EXCEPT !["keep"] = "size"]
    /\ UNCHANGED <<token, named, call, stray, server, mode, age, faults, crossed>>

\* Fault: reConnect leaves the space to the next tick.
LoggedInOnly(result) == "idle"

\* reConnect: login, and useSpace whatever it returned.
LoggedIn(result) == "use"

\* KeepSessionTask.process.
KeepGoesOn(step, result) ==
    CASE step = "size" -> IF result = 1 THEN "idle" ELSE "login"
      [] step = "login" -> LoggedIn(result)
      [] step = "use" -> "idle"

\* Fault: defaultSetup sets up whatever it has found.
SetUpAnyway(step, result) ==
    CASE step = "login" -> "size"
      [] step = "size" -> IF result = 1 THEN "use" ELSE "check"
      [] step = "use" -> "check"
      [] step = "check" -> "create"
      [] step = "create" -> "useAgain"
      [] step = "useAgain" -> "store"
      [] step = "store" -> "up"

\* connect, and ServerProcess.defaultSetup, which takes null for an empty cache.
MainGoesOn(step, result) ==
    CASE step = "login" -> "size"
      [] step = "size" -> IF result = 1 THEN "use" ELSE "check"
      [] step = "use" -> "check"
      [] step = "check" -> IF result = 1 THEN "up" ELSE "create"
      [] step = "create" -> "useAgain"
      [] step = "useAgain" -> "store"
      [] step = "store" -> "up"

\* What a login answers becomes the token, "" too.
Return(p, result) ==
    /\ call' = [call EXCEPT ![p] = NoCall]
    /\ token' = IF pc[p] = "login" /\ result # Waiting THEN result ELSE token
    /\ pc' = [pc EXCEPT ![p] = IF p = "keep" THEN KeepGoesOn(pc[p], result) ELSE MainGoesOn(pc[p], result)]
    /\ age' = IF p = "main" THEN 0 ELSE age
    /\ Forget
    /\ UNCHANGED <<named, mode, due, crossed>>

Request(p) == [cmd |-> call[p].cmd, tok |-> call[p].tok, cred |-> call[p].cred, own |-> call[p].own]

Answered(p) ==
    /\ call[p].answer # Waiting
    /\ UNCHANGED <<stray, faults>>
    /\ Return(p, call[p].answer)

\* Request or answer is lost or late: null.  The request may still be executed.
Lost(p) ==
    /\ call[p] # NoCall /\ Fault
    /\ \/ UNCHANGED stray
       \/ stray' = stray \cup {Request(p)}
    /\ Return(p, Waiting)

--------------------------------------------------------------------------------
(* The server.                                                             *)

\* A token that nobody holds stands for a new one.
Spare == {k \in Tokens : k \notin Held /\ \A j \in Tokens : j < k => j \in Held}

Live(k) == k # 0 /\ session[k] # "gone"

\* While the log is replayed a session or the space may not be there yet.
Seen == {TRUE} \cup (IF mode = "loading" THEN {FALSE} ELSE {})

Login(r, answer) ==
    /\ UNCHANGED <<space, users>>
    /\ IF r.cred /\ mode = "up"
       THEN /\ answer \in Spare
            /\ session' = [session EXCEPT ![answer] = "bare"]
            /\ left' = [left EXCEPT ![answer] = LoginLife]
       ELSE answer = Refused /\ UNCHANGED <<session, left>>

\* Fault: one period, that of the ticks.
OnePeriod(k) == [left EXCEPT ![k] = 1]

\* The new time-out, also where the old one was longer.
Refreshed(k) == [left EXCEPT ![k] = KeepLife]

\* getSpaceSize, for keep of the session's own space.
Size(r, answer) ==
    /\ UNCHANGED <<session, space, users>>
    /\ \E there, filled \in Seen :
          IF Live(r.tok) /\ there
          THEN /\ left' = Refreshed(r.tok)
               /\ answer = IF space /\ filled /\ (r.own => session[r.tok] = "space") THEN 1 ELSE Refused
          ELSE answer = Refused /\ UNCHANGED left

\* Not refused in maintenance.  The space is named: by keep only after connect.
UseSpace(r, answer) ==
    /\ UNCHANGED <<left, space, users>>
    /\ \E there \in Seen :
          IF Live(r.tok) /\ space /\ there /\ (r.own => r.cred)
          THEN answer = 1 /\ session' = [session EXCEPT ![r.tok] = "space"]
          ELSE answer = Refused /\ UNCHANGED session

CreateSpace(r, answer) ==
    /\ UNCHANGED <<session, left, users>>
    /\ IF mode = "up" /\ Live(r.tok) /\ ~space
       THEN answer = 1 /\ space' = TRUE
       ELSE answer = Refused /\ UNCHANGED space

\* The session names a space, and there is one.
HasSpace(k) == session[k] = "space" /\ space

\* createStore("credentials") replaces the store; the administrator is put into it.
CreateStore(r, answer) ==
    /\ UNCHANGED <<session, left, space>>
    /\ IF mode = "up" /\ Live(r.tok) /\ HasSpace(r.tok)
       THEN answer = 1 /\ users' = "root"
       ELSE answer = Refused /\ UNCHANGED users

Effect(r, answer) ==
    \/ r.cmd = "login" /\ Login(r, answer)
    \/ r.cmd = "size" /\ Size(r, answer)
    \/ r.cmd = "use" /\ UseSpace(r, answer)
    \/ r.cmd = "create" /\ CreateSpace(r, answer)
    \/ r.cmd = "store" /\ CreateStore(r, answer)

Answers == {Refused} \cup Tokens

Execute(p) ==
    /\ call[p] # NoCall /\ call[p].answer = Waiting
    /\ \E answer \in Answers : /\ Effect(Request(p), answer)
                               /\ call' = [call EXCEPT ![p].answer = answer]
    /\ UNCHANGED <<token, named, pc, stray, mode, due, age, faults, crossed>>

\* A request whose caller has gone, or one that is sent again.
ExecuteStray(r) ==
    /\ r \in stray /\ stray' = stray \ {r}
    /\ IF r.cmd = "login" THEN UNCHANGED server ELSE \E answer \in Answers : Effect(r, answer)
    /\ UNCHANGED <<token, named, pc, call, mode, due, age, faults, crossed>>

SendAgain(p) ==
    /\ call[p] # NoCall /\ Fault
    /\ stray' = stray \cup {Request(p)}
    /\ UNCHANGED <<token, named, pc, call, server, mode, due, age, crossed>>

\* ClearMemTask.clearMem: at the daily snapshot, or every minute if its timer runs.
Expire(k) ==
    /\ session[k] # "gone" /\ left[k] = 0
    /\ session' = [session EXCEPT ![k] = "gone"]
    /\ UNCHANGED <<token, named, pc, call, stray, left, space, users, mode, due, age, faults, crossed>>

\* The daily snapshot.
Maintenance ==
    /\ mode = "up" /\ mode' = "maintenance" /\ Fault
    /\ UNCHANGED <<token, named, pc, call, stray, server, due, age, crossed>>

\* The cache restarts: the log may lack a session or its space.
Restart ==
    /\ Fault /\ mode' = "loading"
    /\ session' \in [Tokens -> {"gone", "bare", "space"}]
    /\ \A k \in Tokens : /\ session[k] = "gone" => session'[k] = "gone"
                         /\ session[k] = "bare" => session'[k] # "space"
    /\ left' = [k \in Tokens |-> IF session'[k] = "gone" THEN 0 ELSE LoginLife]
    /\ UNCHANGED <<token, named, pc, call, stray, space, users, due, age, crossed>>

BackUp ==
    /\ mode # "up" /\ mode' = "up"
    /\ UNCHANGED <<token, named, pc, call, stray, server, due, age, faults, crossed>>

--------------------------------------------------------------------------------
(* Time.  A call is shorter than a period unless something goes wrong.     *)

InTime == pc["keep"] = "idle" /\ due = 0 /\ age = 0

Tick ==
    /\ InTime \/ due < MaxFaults
    /\ IF InTime THEN UNCHANGED faults ELSE Fault
    /\ due' = due + 1
    /\ left' = [k \in Tokens |-> IF left[k] > 0 THEN left[k] - 1 ELSE 0]
    /\ age' = IF pc["main"] \in {"wait", "up"} THEN 0 ELSE 1
    /\ UNCHANGED <<token, named, pc, call, stray, session, space, users, mode, crossed>>

Client == Connect \/ Wake \/ \E p \in Callers : Begin(p) \/ Answered(p) \/ Lost(p)
Server == \/ \E p \in Callers : Execute(p) \/ SendAgain(p)
          \/ \E r \in stray : ExecuteStray(r)
          \/ \E k \in Tokens : Expire(k)
          \/ Maintenance \/ Restart \/ BackUp
Next == Client \/ Server \/ Tick

Spec == Init /\ [][Next]_vars

\* Threads run, what is not lost is executed and answered, ticks come while all is in
\* time, and maintenance ends.  Nothing is asked of what goes wrong.
Fairness ==
    /\ WF_vars(Connect) /\ WF_vars(Wake) /\ WF_vars(BackUp) /\ WF_vars(InTime /\ Tick)
    /\ \A p \in Callers : WF_vars(Begin(p)) /\ WF_vars(Execute(p)) /\ WF_vars(Answered(p))
FairSpec == Spec /\ Fairness

--------------------------------------------------------------------------------
\* The session is never found too old as long as nothing goes wrong, though the first
\* keep-alive shortens it from 15 minutes to one.
KeptAlive == faults = 0 /\ token # 0 => session[token] # "gone"

\* A start does not empty the store of a service that had its data in the cache, as
\* long as nothing goes wrong and no nameless login of the timer crosses connect.
DataKept == [][users = "all" /\ users' # "all" => faults > 0 \/ crossed]_vars

\* Whatever has gone wrong, the session comes to have its space again.
Usable == token # 0 /\ session[token] = "space" /\ space
Heals == named /\ space ~> Usable

================================================================================
