------------------------------- MODULE HttpLifecycle -------------------------------
(***************************************************************************)
(* The HTTP core of hi-server: one Dispatcher thread hands connections to  *)
(* Exchange actors, two timers close connections that take too long, and   *)
(* the reply to a request comes either from the actor itself or later from *)
(* another process.                                                        *)
(*                                                                         *)
(* What each thread does between two touches of shared state is one step.  *)
(* The clock is left out: a timer may find any connection of its set too   *)
(* old.  Java's assert statements are off, as in the project's scripts.    *)
(***************************************************************************)
EXTENDS Integers, Sequences, FiniteSets

CONSTANTS
    Conns,                \* HttpConnection objects
    MaxExchanges,         \* bound: Exchange actors created
    MaxIdle               \* MAX_IDLE_CONNECTIONS

ASSUME HttpAssumption ==
    /\ IsFiniteSet(Conns) /\ Conns # {}
    /\ MaxExchanges \in Nat
    /\ MaxIdle \in Nat

Exchanges == 1 .. MaxExchanges

VARIABLES
    sock,                 \* sock[c]: not accepted yet, open, or closed by close()
    state,                \* HttpConnection.state
    all, idle, req, rsp,  \* allConnections, idleConnections, reqConnections, rspConnections
    registered,           \* connections whose key is with the selector
    toRegister,           \* connsToRegister
    events,               \* WriteFinishedEvents, by exchange
    ex,                   \* ex[e]: the Exchange actor and its ExchangeImpl
    taking,               \* the exchange whose event is half handled, or 0
    accepting,            \* the connection accepted and not yet listed, as a set
    stage,                \* how far the Dispatcher's last round is; 0 before finished is set
    count,                \* exchangeCount
    phase,                \* up, terminating, finished; closing, stopped: stop() after its waiting
    cut,                  \* history: closed while the Dispatcher was about to list them
    late                  \* history: being accepted when stop() walked the list

connVars == <<sock, state, all, idle, req, rsp>>
loopVars == <<registered, toRegister, taking, accepting, stage>>
vars == <<connVars, loopVars, events, ex, count, phase, cut, late>>

Sets == <<all, idle, req, rsp>>

\* unused -> head: reading the request line and headers -> handling: the handler
\* runs -> remote: sent to another process -> responded: the response is closed,
\* close() is still to come -> done.
Places == {"unused", "head", "handling", "remote", "responded", "done"}
Active == {"head", "handling", "remote"}

\* conn: the connection; linked: ExchangeImpl.connection is not null yet;
\* unread: a body is still to be read; eof: isEOF() of the request stream.
TypeOK ==
    /\ sock \in [Conns -> {"none", "open", "closed"}]
    /\ state \in [Conns -> {"null", "REQUEST", "RESPONSE", "IDLE"}]
    /\ all \subseteq Conns /\ idle \subseteq Conns
    /\ req \subseteq Conns /\ rsp \subseteq Conns
    /\ registered \subseteq Conns /\ toRegister \subseteq Conns
    /\ events \in Seq(Exchanges)
    /\ ex \in [Exchanges -> [at : Places, conn : Conns,
                             linked : BOOLEAN, unread : BOOLEAN, eof : BOOLEAN]]
    /\ taking \in Exchanges \cup {0} /\ accepting \subseteq Conns /\ stage \in 0 .. 3
    /\ count \in Nat
    /\ phase \in {"up", "terminating", "finished", "closing", "stopped"}
    /\ cut \subseteq Conns /\ late \subseteq Conns

Init ==
    /\ sock = [c \in Conns |-> "none"]
    /\ state = [c \in Conns |-> "null"]
    /\ all = {} /\ idle = {} /\ req = {} /\ rsp = {}
    /\ registered = {} /\ toRegister = {}
    /\ events = <<>>
    /\ ex \in [Exchanges -> [at : {"unused"}, conn : {CHOOSE c \in Conns : TRUE},
                             linked : {FALSE}, unread : {FALSE}, eof : {FALSE}]]
    /\ taking = 0 /\ accepting = {} /\ stage = 0
    /\ count = 0 /\ phase = "up" /\ cut = {} /\ late = {}

\* close() is idempotent.
Closed(c) == sock' = [sock EXCEPT ![c] = "closed"]

\* ServerImpl.requestStarted.
RequestStarted(c) ==
    /\ state' = [state EXCEPT ![c] = "REQUEST"]
    /\ req' = req \cup {c}

\* Dispatcher.handle: a new actor.
Fresh(e) == ex[e].at = "unused" /\ \A d \in Exchanges : d < e => ex[d].at # "unused"
Handle(e, c) ==
    /\ Fresh(e)
    /\ ex' = [ex EXCEPT ![e] = [at |-> "head", conn |-> c, linked |-> TRUE,
                                unread |-> FALSE, eof |-> FALSE]]

Move(e, place) == ex' = [ex EXCEPT ![e].at = place]

--------------------------------------------------------------------------------
(* The Dispatcher: one thread, so no step of it starts while another is half *)
(* done.  A round of its loop registers (1), handles events (2) and then     *)
(* handles keys (3); finished is read at the top only, so the round in which *)
(* it is set goes on, and is the last.                                       *)

Running == {"up", "terminating"}
Looping == taking = 0 /\ accepting = {}
Turn(part, now) ==
    /\ Looping /\ stage <= part
    /\ stage' = IF now \in Running THEN 0 ELSE part

\* terminating is not set yet; accept() fails once stop() has closed the channel.
Accept(c) ==
    /\ phase = "up" /\ sock[c] = "none"
    /\ Turn(3, phase)
    /\ sock' = [sock EXCEPT ![c] = "open"]
    /\ registered' = registered \cup {c}
    /\ RequestStarted(c)
    /\ accepting' = {c}
    /\ UNCHANGED <<all, idle, rsp, toRegister, taking, events, ex, count, phase, cut, late>>

\* allConnections.add, whatever stop() or a timer has done since.
ListAccepted ==
    /\ accepting # {} /\ accepting' = {}
    /\ all' = all \cup accepting
    /\ cut' = cut \cup {c \in accepting : sock[c] = "closed"}
    /\ UNCHANGED <<sock, state, idle, req, rsp, registered, toRegister, taking, stage,
                   events, ex, count, phase, late>>

\* Fault: the key stays with the selector while the request is read.
KeyKept(c) == registered

\* key.cancel().
KeyCancelled(c) == registered \ {c}

\* The key is readable, also because the peer has closed; not in the round that
\* accepted it.
Readable(c, e) ==
    /\ c \in registered /\ sock[c] = "open" /\ c \notin late
    /\ Turn(3, phase)
    /\ registered' = KeyCancelled(c)
    /\ idle' = idle \ {c}
    /\ IF c \in idle THEN RequestStarted(c) ELSE UNCHANGED <<state, req>>
    /\ Handle(e, c)
    /\ UNCHANGED <<sock, all, rsp, toRegister, taking, accepting, events, count, phase, cut, late>>

\* A timer closed the connection: either the selector drops the key, or it had
\* selected it and handleException calls closeConnection.
ReadClosed(c) ==
    /\ c \in registered /\ sock[c] = "closed"
    /\ Turn(3, phase)
    /\ registered' = registered \ {c}
    /\ \/ UNCHANGED Sets
       \/ /\ all' = all \ {c}
          /\ req' = IF state[c] = "REQUEST" THEN req \ {c} ELSE req
          /\ rsp' = IF state[c] = "RESPONSE" THEN rsp \ {c} ELSE rsp
          /\ idle' = IF state[c] = "IDLE" THEN idle \ {c} ELSE idle
    /\ UNCHANGED <<sock, state, toRegister, taking, accepting, events, ex, count, phase, cut, late>>

\* Fault: the last exchange but one ends the server too.
FinishedEarly == IF phase = "terminating" /\ count' <= 1 THEN "finished" ELSE phase

\* terminating && exchanges == 0.
FinishedNow == IF phase = "terminating" /\ count' = 0 THEN "finished" ELSE phase

\* handleEvent up to responseCompleted(c), which throws if close() has already
\* taken the connection away from the exchange.
TakeEvent ==
    /\ events # <<>>
    /\ events' = Tail(events)
    /\ count' = count - 1
    /\ phase' = FinishedNow
    /\ Turn(2, FinishedNow)
    /\ LET e == Head(events)
           c == ex[e].conn
       IN IF ex[e].linked
          THEN /\ rsp' = rsp \ {c}
               /\ state' = [state EXCEPT ![c] = "IDLE"]
               /\ taking' = e
          ELSE UNCHANGED <<rsp, state, taking>>
    /\ UNCHANGED <<sock, all, idle, req, registered, toRegister, accepting, ex, cut, late>>

TooManyIdle == Cardinality(idle) >= MaxIdle

\* t.close or too many are idle: the connection is closed and taken off the list.
Evict(e, c) ==
    /\ ~ex[e].eof \/ TooManyIdle
    /\ Closed(c)
    /\ all' = all \ {c}
    /\ UNCHANGED <<state, req, toRegister, ex, cut>>

\* Its stream is gone or closed: c.close() and nothing else.
Abort(e, c) ==
    /\ ~ex[e].linked \/ (sock[c] = "closed" /\ ex[e].eof /\ ~TooManyIdle)
    /\ Closed(c)
    /\ cut' = cut \cup {c}
    /\ UNCHANGED <<state, all, req, toRegister, ex>>

\* The next request is already buffered.
Pipeline(e, c, f) ==
    /\ ex[e].linked /\ sock[c] = "open" /\ ex[e].eof /\ ~TooManyIdle
    /\ RequestStarted(c)
    /\ Handle(f, c)
    /\ UNCHANGED <<sock, all, toRegister, cut>>

Keep(e, c) ==
    /\ ex[e].linked /\ sock[c] = "open" /\ ex[e].eof /\ ~TooManyIdle
    /\ toRegister' = toRegister \cup {c}
    /\ UNCHANGED <<sock, state, all, req, ex, cut>>

\* The rest of handleEvent.
EndEvent ==
    /\ taking # 0 /\ taking' = 0
    /\ LET c == ex[taking].conn
       IN \/ Evict(taking, c)
          \/ Abort(taking, c)
          \/ \E f \in Exchanges : Pipeline(taking, c, f)
          \/ Keep(taking, c)
    /\ UNCHANGED <<idle, rsp, registered, accepting, stage, events, count, phase, late>>

\* Fault: an idle connection is not put under the idle timer.
IdleUntimed(c) == idle

\* idleConnections.add.
IdleAdded(c) == idle \cup {c}

\* reRegister; a connection closed since is in no set afterwards.
ReRegister(c) ==
    /\ c \in toRegister
    /\ Turn(1, phase)
    /\ toRegister' = toRegister \ {c}
    /\ IF sock[c] = "open"
       THEN /\ registered' = registered \cup {c}
            /\ idle' = IdleAdded(c)
            /\ UNCHANGED cut
       ELSE cut' = cut \cup {c} /\ UNCHANGED <<registered, idle>>
    /\ UNCHANGED <<sock, state, all, req, rsp, taking, accepting, events, ex, count, phase, late>>

--------------------------------------------------------------------------------
(* An Exchange actor, and the process that answers in its place.           *)

\* Fault: requests without a body stay in state REQUEST.
StateLeft(c) == state

\* Exchange.requestCompleted: the state moves on, the sets do not.
StateMoved(c) == [state EXCEPT ![c] = "RESPONSE"]

\* The peer has closed, or the request is refused, perhaps for want of a context
\* when it has been read: connection.close() only.
HeadFails(e) ==
    /\ ex[e].at = "head"
    /\ Closed(ex[e].conn)
    /\ state' \in {state, StateMoved(ex[e].conn)}
    /\ Move(e, "done")
    /\ UNCHANGED <<Sets, loopVars, events, count, phase, cut, late>>

\* The headers are read and ExchangeImpl is made, which counts the exchange.
HeadRead(e, body) ==
    /\ ex[e].at = "head" /\ sock[ex[e].conn] = "open"
    /\ ex' = [ex EXCEPT ![e].at = "handling", ![e].unread = body]
    /\ state' = IF body THEN state ELSE StateMoved(ex[e].conn)
    /\ count' = count + 1
    /\ UNCHANGED <<sock, Sets, loopVars, events, phase, cut, late>>

\* Fault: the connection leaves one timer before the other has it.
TimerDropped(c) ==
    /\ req' = req \ {c}
    /\ UNCHANGED rsp
    /\ state' = [state EXCEPT ![c] = "RESPONSE"]

\* ServerImpl.requestCompleted.
RequestCompleted(c) ==
    /\ req' = req \ {c}
    /\ rsp' = rsp \cup {c}
    /\ state' = [state EXCEPT ![c] = "RESPONSE"]

\* The last byte of the body; the socket may have been closed since it came.
BodyRead(e) ==
    /\ ex[e].at = "handling" /\ ex[e].unread
    /\ ex' = [ex EXCEPT ![e].unread = FALSE]
    /\ RequestCompleted(ex[e].conn)
    /\ UNCHANGED <<sock, all, idle, loopVars, events, count, phase, cut, late>>

\* Fault: an answer without content posts its event, and closing its stream again.
PostedTwice(e) == Append(Append(events, e), e)

\* addEvent(new WriteFinishedEvent(this)).
Posted(e) == Append(events, e)

\* The response stream is closed: the request stream is drained up to a limit,
\* and the event is posted.  An answer without content posts it too, drains
\* nothing, and counts as closed.
Respond(e, place, eof) ==
    /\ sock[ex[e].conn] = "open"
    /\ events' = Posted(e)
    /\ ex' = [ex EXCEPT ![e].at = place, ![e].eof = eof, ![e].unread = @ /\ ~eof]
    /\ IF ex[e].unread /\ eof
       THEN RequestCompleted(ex[e].conn)
       ELSE UNCHANGED <<state, req, rsp>>
    /\ UNCHANGED <<sock, all, idle, loopVars, count, phase, cut, late>>

RespondHere(e) ==
    /\ ex[e].at = "handling"
    /\ \/ \E eof \in BOOLEAN : (eof \/ ex[e].unread) /\ Respond(e, "responded", eof)
       \/ \E eof \in BOOLEAN : (eof => ~ex[e].unread) /\ Respond(e, "done", eof)

\* The handler throws before the event: ServerActor's finally closes the
\* connection, and the stream that finds no context posts nothing: the exchange
\* stays counted.
HandlerFails(e) ==
    /\ ex[e].at = "handling"
    /\ Closed(ex[e].conn)
    /\ ex' = [ex EXCEPT ![e].at = "done", ![e].linked = FALSE]
    /\ UNCHANGED <<state, Sets, loopVars, events, count, phase, cut, late>>

\* ServerActor's finally, after the response: close() closes the connection.
Finish(e) ==
    /\ ex[e].at = "responded"
    /\ Closed(ex[e].conn)
    /\ ex' = [ex EXCEPT ![e].at = "done", ![e].linked = FALSE]
    /\ UNCHANGED <<state, Sets, loopVars, events, count, phase, cut, late>>

\* sendToProcess: the request goes to another process, or nowhere, as the result
\* of send is ignored; autoClose is off.  The body of a GET is not read.
HandOff(e) ==
    /\ ex[e].at = "handling"
    /\ Move(e, "remote")
    /\ UNCHANGED <<connVars, loopVars, events, count, phase, cut, late>>

\* ReturnProcess pops the request: it answers it and closes nothing, or throws,
\* and the exception is only logged.
Reply(e) ==
    /\ ex[e].at = "remote"
    /\ \E eof \in BOOLEAN : (eof \/ ex[e].unread) /\ Respond(e, "done", eof)
ReplyFails(e) ==
    /\ ex[e].at = "remote"
    /\ Move(e, "done")
    /\ UNCHANGED <<connVars, loopVars, events, count, phase, cut, late>>

--------------------------------------------------------------------------------
(* The timers and stop().                                                  *)

TimersRun == phase # "stopped"

\* ServerTimerTask.
IdleExpires(c) ==
    /\ TimersRun /\ c \in idle
    /\ idle' = idle \ {c} /\ all' = all \ {c}
    /\ Closed(c)
    /\ UNCHANGED <<state, req, rsp, loopVars, events, ex, count, phase, cut, late>>

\* Fault: the connection leaves the set but stays listed.
StillListed(c) == all

\* allConnections.remove.
Unlisted(c) == all \ {c}

\* ServerTimerTask1, its two halves.
ReqExpires(c) ==
    /\ TimersRun /\ c \in req
    /\ req' = req \ {c} /\ all' = Unlisted(c)
    /\ Closed(c)
    /\ UNCHANGED <<state, idle, rsp, loopVars, events, ex, count, phase, cut, late>>

RspExpires(c) ==
    /\ TimersRun /\ c \in rsp
    /\ rsp' = rsp \ {c} /\ all' = all \ {c}
    /\ Closed(c)
    /\ UNCHANGED <<state, idle, req, loopVars, events, ex, count, phase, cut, late>>

\* stop: terminating is set and the listening channel closed.
StopBegins ==
    /\ phase = "up" /\ phase' = "terminating"
    /\ UNCHANGED <<connVars, loopVars, events, ex, count, cut, late>>

\* for (HttpConnection c : allConnections) c.close().
StopsAll == all

\* finished is set or the delay is over: stop() sets it, wherever the Dispatcher
\* is in its round, and closes what is listed.
StopWalks ==
    /\ phase \in {"terminating", "finished"} /\ phase' = "closing"
    /\ sock' = [c \in Conns |-> IF c \in StopsAll THEN "closed" ELSE sock[c]]
    /\ late' = accepting
    /\ stage' = IF accepting # {} THEN 3 ELSE IF taking # 0 THEN 2 ELSE stage
    /\ UNCHANGED <<state, Sets, registered, toRegister, taking, accepting,
                   events, ex, count, cut>>

\* The lists are cleared and the timers cancelled.
StopEnds ==
    /\ phase = "closing" /\ phase' = "stopped"
    /\ all' = {} /\ idle' = {}
    /\ UNCHANGED <<sock, state, req, rsp, loopVars, events, ex, count, cut, late>>

--------------------------------------------------------------------------------
Dispatch == TakeEvent \/ EndEvent \/ ListAccepted \/ (\E c \in Conns : ReRegister(c) \/ ReadClosed(c))
Answer(e) == \/ HeadFails(e) \/ BodyRead(e) \/ RespondHere(e) \/ HandlerFails(e)
             \/ Finish(e) \/ HandOff(e) \/ (\E body \in BOOLEAN : HeadRead(e, body))
Timers(c) == IdleExpires(c) \/ ReqExpires(c) \/ RspExpires(c)
Next == \/ Dispatch
        \/ \E c \in Conns : Accept(c) \/ Timers(c)
        \/ \E c \in Conns, e \in Exchanges : Readable(c, e)
        \/ \E e \in Exchanges : Answer(e) \/ Reply(e) \/ ReplyFails(e)
        \/ StopBegins \/ StopWalks \/ StopEnds

Spec == Init /\ [][Next]_vars

\* The Dispatcher loops, the timers tick, and the delay of stop() passes.  Nothing
\* is asked of the peer, of the handlers or of the process that should reply.
Fairness ==
    /\ WF_vars(TakeEvent) /\ WF_vars(EndEvent) /\ WF_vars(ListAccepted)
    /\ WF_vars(StopWalks) /\ WF_vars(StopEnds)
    /\ \A c \in Conns : /\ WF_vars(ReRegister(c))
                        /\ WF_vars(IdleExpires(c)) /\ WF_vars(ReqExpires(c))
                        /\ WF_vars(RspExpires(c))
FairSpec == Spec /\ Fairness

--------------------------------------------------------------------------------
Timed == idle \cup req \cup rsp
Taken == toRegister \cup {ex[e].conn : e \in {taking} \ {0}}

\* No socket leaks: an open connection is listed, so that stop() closes it, but
\* for the one that is being accepted; some timer watches it unless the Dispatcher
\* is just about to put it there; and once stop() has walked the list the only
\* one still open can be the one that was being accepted then.
OpenIsWatched ==
    \A c \in Conns : sock[c] = "open" =>
        /\ c \in all \cup accepting \cup late
        /\ c \in Timed \cup Taken
        /\ phase \in {"closing", "stopped"} => c \in late

\* One request at a time is read from or answered on a connection, and none
\* while the connection waits for its next request.
OneExchange ==
    \A d, e \in Exchanges :
        /\ ex[d].at \in Active /\ ex[e].at \in Active /\ ex[d].conn = ex[e].conn => d = e
        /\ ex[d].at \in Active => ex[d].conn \notin registered \cup toRegister

\* The state of a connection agrees with the timer that watches it.
StateAgrees ==
    /\ \A c \in idle : state[c] = "IDLE"
    /\ \A c \in rsp : state[c] = "RESPONSE"
    /\ \A e \in Exchanges :
          ex[e].at \in {"handling", "remote"} /\ ~ex[e].unread
             => state[ex[e].conn] = "RESPONSE"

\* When finished is set no handler runs, no reply is awaited, no event is queued.
NothingLeft ==
    phase' = "finished" /\ phase # "finished"
      => events' = <<>> /\ \A e \in Exchanges : ex'[e].at \notin {"handling", "remote"}

\* stop() is not told that all is finished before that is so.
StopWaits == [][NothingLeft]_vars

\* What these rest on: a connection is held by one of the selector, the list to
\* register, an exchange at work, a queued event, and the event in hand; its
\* state is the holder's; and every exchange stop() has to wait for is counted.
Queued == {events[i] : i \in DOMAIN events}
OnceQueued == \A i, j \in DOMAIN events : events[i] = events[j] => i = j
Busy(e) == ex[e].at \in Active \/ e \in Queued \/ e = taking
OneHolder ==
    /\ \A d, e \in Exchanges : Busy(d) /\ Busy(e) /\ ex[d].conn = ex[e].conn => d = e
    /\ \A e \in Exchanges :
          Busy(e) => /\ sock[ex[e].conn] # "none"
                     /\ ex[e].conn \notin registered \cup toRegister \cup idle
    /\ \A c \in toRegister : c \notin registered \cup idle
    /\ OnceQueued
    /\ \A e \in Exchanges : e \in Queued \/ e = taking => ex[e].at \in {"responded", "done"}
    /\ taking \notin Queued
    /\ \A c \in Conns : sock[c] = "none" => c \notin registered \cup toRegister \cup idle \cup rsp
HolderState ==
    /\ \A c \in toRegister : state[c] = "IDLE"
    /\ taking # 0 => state[ex[taking].conn] = "IDLE"
Awaited == {e \in Exchanges : ex[e].at \in {"handling", "remote"} \/ e \in Queued}
CountCovers == Cardinality(Awaited) <= count

\* A connection that is not listed, or was listed too late, is with the selector and
\* the request timer and is the only one.
LateRests ==
    /\ late # {} => phase \in {"closing", "stopped"}
    /\ \A c \in accepting \cup late : sock[c] = "open" => c \in registered /\ c \in req
    /\ \A c, d \in accepting : c = d
    /\ \A c, d \in late : c = d

\* When stop() is through, at most one connection is open, the one that was being
\* accepted when it walked the list: no timer and no second walk will close it.
StopCloses ==
    phase = "stopped" =>
        \A c, d \in Conns : sock[c] = "open" /\ sock[d] = "open" => c = d /\ c \in late

HttpInv == TypeOK /\ OneHolder /\ StateAgrees /\ HolderState /\ CountCovers
           /\ OpenIsWatched /\ LateRests

\* A request that nobody answers does not keep its connection for ever.
RemoteEnds ==
    \A e \in Exchanges : ex[e].at = "remote" ~> ex[e].at = "done" \/ sock[ex[e].conn] = "closed"

\* A closed connection leaves allConnections, unless it was closed while the
\* Dispatcher held it between two sets.
ClosedIsUnlisted ==
    \A c \in Conns : sock[c] = "closed" ~> c \notin all \/ c \in cut

\* What the comment on requestCompleted says: once a request is read completely
\* the request timer is stopped.  (A request without a body goes another way.)
ReadStopsTimer ==
    \A e \in Exchanges :
        ex[e].at = "remote" /\ ~ex[e].unread /\ sock[ex[e].conn] = "open"
           => ex[e].conn \notin req

\* What HttpServer.stop documents: it disallows new exchanges.
NoNewExchange ==
    [][phase # "up" => \A e \in Exchanges : ex[e].at = "unused" => ex'[e].at = "unused"]_vars

================================================================================
