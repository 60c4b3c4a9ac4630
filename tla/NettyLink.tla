-------------------------------- MODULE NettyLink --------------------------------
(***************************************************************************)
(* The connections of one connector: Connector picks one of its            *)
(* NettyConnections for a message, NettyConnection keeps a channel open    *)
(* and a cache of the messages it could not send.                          *)
(*                                                                         *)
(* Callers, the timers, the event loop and the sender actors run freely:   *)
(* isActive is a hint that the event loop sets late and never unsets when  *)
(* the channel is lost.  Copies of one message are not told apart.  An     *)
(* exception on the way of a message is logged and swallowed.              *)
(***************************************************************************)
EXTENDS Naturals

CONSTANTS
    NumConns,             \* lstConnection.size()
    NumMessages,          \* bound: messages sent
    MaxLosses             \* bound: sockets lost, for each connection

ASSUME LinkAssumption ==
    /\ NumConns \in Nat \ {0}
    /\ NumMessages \in Nat
    /\ MaxLosses \in Nat

Conns == 0 .. (NumConns - 1)
\* A message is its id; HiCacheSession gives each request its own.
Messages == 0 .. (NumMessages - 1)

VARIABLES
    timer,                \* timer[c]: doConnect tasks scheduled
    connecting,           \* connecting[c]: connects under way, pauses included
    channel,              \* channel[c]: what the field channel refers to
    sockets,              \* sockets[c]: established, and watched by a listener
    closing,              \* closing[c]: lost, listener still to run
    activating,           \* activating[c]: connects whose isActive = true is to come
    isActive,             \* isActive[c]
    retry,                \* retry[c]: retryMessage
    sending,              \* sending[c]: in a ClientSender, not yet written
    written,              \* messages handed to a socket
    call,                 \* call[m]: where Connector.send is
    losses,               \* history: losses[c], for the bound
    forgone,              \* history: dropped by the cache, or with their socket
    unsent                \* history: met an exception on their way

linkVars == <<timer, connecting, channel, sockets, closing, activating, isActive>>
messageVars == <<retry, sending, written, call>>
fateVars == <<forgone, unsent>>
vars == <<linkVars, messageVars, losses, fateVars>>

NotChosen == {"new", "refused", "accepted"}

TypeOK ==
    /\ timer \in [Conns -> 0..1] /\ connecting \in [Conns -> 0..1]
    /\ sockets \in [Conns -> 0..1] /\ closing \in [Conns -> 0..1]
    /\ channel \in [Conns -> {"null", "open", "closed"}]
    /\ activating \in [Conns -> Nat]
    /\ isActive \in [Conns -> BOOLEAN]
    /\ retry \in [Conns -> SUBSET Messages]
    /\ sending \in [Conns -> SUBSET Messages]
    /\ written \subseteq Messages
    /\ call \in [Messages -> [at : NotChosen, conn : {0}] \cup [at : {"chosen"}, conn : Conns]]
    /\ losses \in [Conns -> 0..MaxLosses]
    /\ forgone \subseteq Messages /\ unsent \subseteq Messages

At(state) == [at |-> state, conn |-> 0]

\* The constructor ends with scheduleConnect.
Init ==
    /\ timer = [c \in Conns |-> 1]
    /\ connecting = [c \in Conns |-> 0]
    /\ channel = [c \in Conns |-> "null"]
    /\ sockets = [c \in Conns |-> 0]
    /\ closing = [c \in Conns |-> 0]
    /\ activating = [c \in Conns |-> 0]
    /\ isActive = [c \in Conns |-> FALSE]
    /\ retry = [c \in Conns |-> {}]
    /\ sending = [c \in Conns |-> {}]
    /\ written = {}
    /\ call = [m \in Messages |-> At("new")]
    /\ losses = [c \in Conns |-> 0]
    /\ forgone = {} /\ unsent = {}

More(f, c) == [f EXCEPT ![c] = f[c] + 1]
Less(f, c) == [f EXCEPT ![c] = f[c] - 1]

--------------------------------------------------------------------------------
(* The channel of a connection.                                            *)

\* doConnect; when it throws it schedules itself again.
DoConnect(c) ==
    /\ timer[c] > 0
    /\ timer' = Less(timer, c)
    /\ connecting' = More(connecting, c)
    /\ UNCHANGED <<channel, sockets, closing, activating, isActive, messageVars,
                   losses, fateVars>>

\* Fault: the listener schedules a connect besides the one it starts.
ConnectFailTwice(c) ==
    /\ connecting[c] > 0
    /\ isActive' = [isActive EXCEPT ![c] = FALSE]
    /\ timer' = More(timer, c)
    /\ UNCHANGED <<connecting, channel, sockets, closing, activating, messageVars,
                   losses, fateVars>>

\* operationComplete without success: a pause, and the same listener is added
\* to another connect.
ConnectFail(c) ==
    /\ connecting[c] > 0
    /\ isActive' = [isActive EXCEPT ![c] = FALSE]
    /\ UNCHANGED <<timer, connecting, channel, sockets, closing, activating,
                   messageVars, losses, fateVars>>

\* Fault: the first channel is kept.
FirstChannel(c) == IF channel[c] = "null" THEN "open" ELSE channel[c]

\* channel = future.channel().
NewChannel(c) == "open"

\* operationComplete with success sets the field and adds the listener that
\* watches the socket; isActive comes after that.
ConnectOk(c) ==
    /\ connecting[c] > 0
    /\ connecting' = Less(connecting, c)
    /\ channel' = [channel EXCEPT ![c] = NewChannel(c)]
    /\ sockets' = More(sockets, c)
    /\ activating' = More(activating, c)
    /\ UNCHANGED <<timer, closing, isActive, messageVars, losses, fateVars>>

Activate(c) ==
    /\ activating[c] > 0
    /\ activating' = Less(activating, c)
    /\ isActive' = [isActive EXCEPT ![c] = TRUE]
    /\ UNCHANGED <<timer, connecting, channel, sockets, closing, messageVars,
                   losses, fateVars>>

\* The socket dies, by the peer, the network or exceptionCaught.  A sender that
\* has not written yet writes to a closed channel, and only logs it.
Lose(c) ==
    /\ sockets[c] > 0 /\ losses[c] < MaxLosses
    /\ losses' = More(losses, c)
    /\ sockets' = Less(sockets, c)
    /\ closing' = More(closing, c)
    /\ channel' = [channel EXCEPT ![c] = "closed"]
    /\ sending' = [sending EXCEPT ![c] = {}]
    /\ forgone' = forgone \cup sending[c]
    /\ UNCHANGED <<timer, connecting, activating, isActive, retry, written, call,
                   unsent>>

\* Fault: nothing is scheduled.
LostForGood(c) ==
    /\ closing[c] > 0
    /\ closing' = Less(closing, c)
    /\ UNCHANGED <<timer, connecting, channel, sockets, activating, isActive,
                   messageVars, losses, fateVars>>

\* The listener of closeFuture; isActive stays as it is.
Lost(c) ==
    /\ closing[c] > 0
    /\ closing' = Less(closing, c)
    /\ timer' = More(timer, c)
    /\ UNCHANGED <<connecting, channel, sockets, activating, isActive, messageVars,
                   losses, fateVars>>

--------------------------------------------------------------------------------
(* Sending.                                                                *)

\* The connection the message's id selects, or the next one that is active, or
\* the first again.
Distance(m, c) == (c + NumConns - (m % NumConns)) % NumConns
Chosen(m, c) ==
    \/ /\ isActive[c]
       /\ \A d \in Conns : isActive[d] => Distance(m, c) <= Distance(m, d)
    \/ (\A d \in Conns : ~isActive[d]) /\ Distance(m, c) = 0

\* Connector.send, the search.
Select(m) ==
    /\ call[m].at = "new"
    /\ \E c \in Conns : /\ Chosen(m, c)
                        /\ call' = [call EXCEPT ![m] = [at |-> "chosen", conn |-> c]]
    /\ UNCHANGED <<linkVars, retry, sending, written, losses, fateVars>>

\* isActive is read again, and by now it is false: send returns false.
Refuse(m) ==
    /\ call[m].at = "chosen" /\ ~isActive[call[m].conn]
    /\ call' = [call EXCEPT ![m] = At("refused")]
    /\ UNCHANGED <<linkVars, retry, sending, written, losses, fateVars>>

\* Fault: what cannot be sent is not kept.
RetryDropped(m, c) == retry

\* retryMessage.put.
RetryPut(m, c) == [retry EXCEPT ![c] = @ \cup {m}]

\* NettyConnection.send, and Connector.send returns true either way.
Send(m) ==
    /\ call[m].at = "chosen" /\ isActive[call[m].conn]
    /\ LET c == call[m].conn
       IN IF channel[c] = "open"
          THEN sending' = [sending EXCEPT ![c] = @ \cup {m}] /\ UNCHANGED retry
          ELSE retry' = RetryPut(m, c) /\ UNCHANGED sending
    /\ call' = [call EXCEPT ![m] = At("accepted")]
    /\ UNCHANGED <<linkVars, written, losses, fateVars>>

\* NettyConnection.send catches whatever is thrown while the actor is made or the
\* message put into the cache; Connector.send returns true all the same.
SendFails(m) ==
    /\ call[m].at = "chosen" /\ isActive[call[m].conn]
    /\ call' = [call EXCEPT ![m] = At("accepted")]
    /\ unsent' = unsent \cup {m}
    /\ UNCHANGED <<linkVars, retry, sending, written, losses, forgone>>

\* ClientSender.process.
Write(c, m) ==
    /\ m \in sending[c] /\ channel[c] = "open"
    /\ sending' = [sending EXCEPT ![c] = @ \ {m}]
    /\ written' = written \cup {m}
    /\ UNCHANGED <<linkVars, retry, call, losses, fateVars>>

\* ClientSender.process when the message cannot be packed - mapToByteArray has
\* logged it and returns null - or writing it throws.
WriteFails(c, m) ==
    /\ m \in sending[c]
    /\ sending' = [sending EXCEPT ![c] = @ \ {m}]
    /\ unsent' = unsent \cup {m}
    /\ UNCHANGED <<linkVars, retry, written, call, losses, forgone>>

\* Fault: the channel is tested for null the wrong way round.
ChannelNull(c) == channel[c] = "null"

\* channel != null && channel.isOpen() && channel.isActive().
ChannelUp(c) == channel[c] = "open"

\* retrySendMessage sends the message and, as it invalidates the message and
\* not its key, keeps the entry.  An exception in send leaves all as it is.
RetrySend(c, m) ==
    /\ m \in retry[c] /\ ChannelUp(c)
    /\ sending' = [sending EXCEPT ![c] = @ \cup {m}]
    /\ UNCHANGED <<linkVars, retry, written, call, losses, fateVars>>

\* expireAfterAccess(10, MINUTES); maximumSize(1000000) may drop any entry too.
Expire(c, m) ==
    /\ m \in retry[c]
    /\ retry' = [retry EXCEPT ![c] = @ \ {m}]
    /\ forgone' = forgone \cup {m}
    /\ UNCHANGED <<linkVars, sending, written, call, losses, unsent>>

--------------------------------------------------------------------------------
Link(c) == DoConnect(c) \/ ConnectFail(c) \/ ConnectOk(c) \/ Activate(c)
           \/ Lose(c) \/ Lost(c)
Next == \/ \E c \in Conns : Link(c)
        \/ \E m \in Messages : Select(m) \/ Refuse(m) \/ Send(m) \/ SendFails(m)
        \/ \E c \in Conns, m \in Messages :
              Write(c, m) \/ WriteFails(c, m) \/ RetrySend(c, m) \/ Expire(c, m)

Spec == Init /\ [][Next]_vars

\* Timers, listeners, callers and actors run.  Of the peer: it accepts a
\* connect sooner or later.  Nothing has to expire, to fail or to be lost.
Fairness ==
    /\ \A c \in Conns : /\ WF_vars(DoConnect(c)) /\ WF_vars(Activate(c))
                        /\ WF_vars(Lost(c))
                        /\ WF_vars(ConnectOk(c))
    /\ \A m \in Messages : WF_vars(Select(m)) /\ WF_vars(Refuse(m) \/ Send(m) \/ SendFails(m))
    /\ \A c \in Conns, m \in Messages :
          WF_vars(Write(c, m) \/ WriteFails(c, m)) /\ WF_vars(RetrySend(c, m))
FairSpec == Spec /\ Fairness

--------------------------------------------------------------------------------
\* A connection never gives up and never connects twice: one connect is
\* scheduled or under way, or one socket is up, or its listener is to run.
OneAttempt ==
    \A c \in Conns : timer[c] + connecting[c] + sockets[c] + closing[c] = 1

\* Connector does not pass over a connection whose socket is up, whatever the
\* order in which a late isActive = true and a failed connect arrive; and the
\* field channel refers to that socket.
OpenIsUsable ==
    \A c \in Conns :
        /\ sockets[c] = 1 => channel[c] = "open"
        /\ sockets[c] = 1 /\ activating[c] = 0 => isActive[c]

\* A message that Connector.send has accepted is written, on its way, or in the
\* cache - whatever connections are lost, closed and opened meanwhile - unless the
\* cache dropped it by age or size, the socket was lost under its sender, or an
\* exception was swallowed while it was packed or sent.
AcceptedIsKept ==
    \A m \in Messages :
        call[m].at = "accepted" =>
            \/ m \in written \cup forgone \cup unsent
            \/ \E c \in Conns : m \in sending[c] \cup retry[c]

\* Once sockets are no longer lost, every connection is up and active.
Reconnects == \A c \in Conns : <>[](sockets[c] = 1 /\ isActive[c])

\* A message in the cache is written unless the cache drops it, or a sender meets
\* an exception with it, as it does with each copy of one that cannot be packed.
QueuedIsWritten ==
    \A c \in Conns, m \in Messages :
        m \in retry[c] ~> m \in written \cup unsent \/ m \notin retry[c]

================================================================================
