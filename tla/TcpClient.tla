----------------------------- MODULE TcpClient -----------------------------
(***************************************************************************)
(* TcpClient and its Connector on their EventLoop: attempts with a socket, *)
(* a channel and a deadline, the connection that comes of one, and the     *)
(* destruction of the client.                                              *)
(*                                                                         *)
(* One iteration of the loop polls, dispatches the events it found, then   *)
(* runs the functors it swapped out.  todo is what is left to do in this   *)
(* iteration, innermost first: <<name, socket>> of a handler or a functor. *)
(* <<"user", s>> is a callback or a timer of the application; until it     *)
(* returns it may call the client, and s is the connection it holds.       *)
(*                                                                         *)
(* A socket, its channel and its deadline have the number of their         *)
(* attempt; 0 is none.  The timers are those of module TimerQueue: one     *)
(* that has expired with others still runs when an earlier one cancels it. *)
(* Output is left to module TcpConnection: none is pending here.           *)
(***************************************************************************)
EXTENDS Naturals, Sequences, FiniteSets

CONSTANTS
    MaxAttempts,   \* sockets
    MaxCalls,      \* calls the application makes
    CallbackCalls  \* calls it makes from callbacks: connect, disconnect, stop, destroy

ASSUME TcpClientAssumption ==
    /\ MaxAttempts \in Nat /\ MaxCalls \in Nat
    /\ CallbackCalls \subseteq {"connect", "disconnect", "stop", "destroy"}

Sockets == 1..MaxAttempts

VARIABLES
    client,    \* TRUE until ~TcpClient(), which destroys the Connector with it
    state_, sockfd_, channel_, timeoutId_,   \* of the Connector
    connection_,
    conn,      \* the TcpConnection of a socket: its record, NoConn before and after
    open,      \* the sockets that are open
    kern,      \* what the kernel says of a socket
    armed,     \* the attempt whose deadline timer is in the TimerQueue
    made,      \* attempts so far
    pending, todo, phase,   \* of the EventLoop
    calls,
    polled,    \* whether the client existed at the last poll (history)
    outcomes,  \* what became of the attempts, and whose event decided it (history)
    failures   \* failed asserts and uses of the destroyed Connector

connectorVars == <<state_, sockfd_, channel_, timeoutId_, armed, made, open, kern>>
vars == <<client, connectorVars, connection_, conn, pending, todo, phase, calls, polled, outcomes, failures>>

NoConn == [state |-> "none", removed |-> FALSE, closeCallback |-> FALSE]

(***************************************************************************)
(* Handlers are functions of the whole state, so that they can call one    *)
(* another as the code does.                                               *)
(***************************************************************************)
Whole == [client |-> client, state_ |-> state_, sockfd_ |-> sockfd_, channel_ |-> channel_,
          timeoutId_ |-> timeoutId_, connection_ |-> connection_, conn |-> conn, open |-> open,
          kern |-> kern, armed |-> armed, made |-> made, pending |-> pending, todo |-> todo,
          outcomes |-> outcomes]

Holders == {"user", "closeCallback", "connectDestroyed", "forceCloseInLoop"}
Held(w, s) ==
    \/ w.connection_ = s
    \/ \E q \in {w.pending, w.todo} : \E i \in DOMAIN q : q[i][2] = s /\ q[i][1] \in Holders

\* The new state, after the destructors of connections nothing holds: ~TcpConnection() asserts
\* kDisconnected, ~Channel() that the channel was removed; the socket is closed.
Becomes(w) ==
    LET dead == {s \in Sockets : w.conn[s] # NoConn /\ ~Held(w, s)}
    IN  /\ client' = w.client /\ state_' = w.state_ /\ sockfd_' = w.sockfd_
        /\ channel_' = w.channel_ /\ timeoutId_' = w.timeoutId_ /\ connection_' = w.connection_
        /\ kern' = w.kern /\ armed' = w.armed /\ made' = w.made
        /\ pending' = w.pending /\ todo' = w.todo /\ outcomes' = w.outcomes
        /\ conn' = [s \in Sockets |-> IF s \in dead THEN NoConn ELSE w.conn[s]]
        /\ open' = w.open \ dead
        /\ failures' =
               {[at |-> "~TcpConnection", muted |-> ~w.conn[s].closeCallback] :
                    s \in {s \in dead : w.conn[s].state # "kDisconnected"}}
               \cup {[at |-> "~Channel", muted |-> ~w.conn[s].closeCallback] :
                    s \in {s \in dead : ~w.conn[s].removed}}

Crash(at) ==
    /\ failures' = {[at |-> at, muted |-> FALSE]}
    /\ UNCHANGED <<client, connectorVars, connection_, conn, pending, todo, outcomes>>

queueInLoop(w, f, s) == [w EXCEPT !.pending = Append(@, <<f, s>>)]
Callback(w, s) == [w EXCEPT !.todo = <<<<"user", s>>>> \o @]
Outcome(w, result, cause) ==
    [w EXCEPT !.outcomes = @ \cup {[attempt |-> w.made, result |-> result, cause |-> cause]}]

(***************************************************************************)
(* Connector.                                                              *)
(***************************************************************************)
cancelTimeout(w) ==
    [w EXCEPT !.armed = IF w.timeoutId_ # 0 /\ @ = w.timeoutId_ THEN 0 ELSE @, !.timeoutId_ = 0]

\* The channel object lives until the queued functor has run.
removeChannel(w) ==
    IF w.channel_ = 0 THEN w
    ELSE queueInLoop([w EXCEPT !.channel_ = 0], "doomed", w.channel_)

closeSockfd(w) == [w EXCEPT !.open = @ \ {w.sockfd_}, !.sockfd_ = 0]

\* Mutated form of CleanUp: the descriptor is left open.
LeavesSocket(w) == [removeChannel(cancelTimeout(w)) EXCEPT !.sockfd_ = 0]

CleanUp(w) == closeSockfd(removeChannel(cancelTimeout(w)))

\* The callback is the last thing fail() does.
fail(w, result, cause) ==
    Callback(Outcome(CleanUp([w EXCEPT !.state_ = "kFailed"]), result, cause), 0)

\* Mutated form of connect: no deadline is armed.
WithoutDeadline(w, how) ==
    LET a == w.made + 1
        opened == [w EXCEPT !.made = a, !.sockfd_ = a, !.channel_ = a, !.open = @ \cup {a}]
    IN  CASE how = "EMFILE" -> fail([w EXCEPT !.made = a], how, a)
          [] how = "ENETUNREACH" -> fail(opened, how, a)
          [] how = "EINPROGRESS" -> opened

\* how is the answer of socket() or of connect().
connect(w, how) ==
    LET a == w.made + 1
        opened == [w EXCEPT !.made = a, !.sockfd_ = a, !.channel_ = a, !.open = @ \cup {a}]
    IN  CASE how = "EMFILE" -> fail([w EXCEPT !.made = a], how, a)
          [] how = "ENETUNREACH" -> fail(opened, how, a)
          [] how = "EINPROGRESS" -> [opened EXCEPT !.timeoutId_ = a, !.armed = a]

startInLoop(w, how) ==
    IF w.state_ \in {"kConnecting", "kConnected"} THEN w
    ELSE connect([w EXCEPT !.state_ = "kConnecting"], how)

stopInLoop(w) ==
    CASE w.state_ = "kConnecting" ->
             CleanUp(Outcome([w EXCEPT !.state_ = "kDisconnected"], "stopped", w.made))
      [] w.state_ = "kFailed" -> [w EXCEPT !.state_ = "kDisconnected"]
      [] OTHER -> w

(***************************************************************************)
(* TcpClient and its connection.                                           *)
(***************************************************************************)
\* newConnection() and connectEstablished(), whose callback is the last thing they do.
newConnection(w, s) ==
    Callback([w EXCEPT !.connection_ = s,
                       !.conn[s] = [state |-> "kConnected", removed |-> FALSE, closeCallback |-> TRUE]], s)

\* kern of the socket tells whether the handshake had really completed.
finishConnect(w, cause) ==
    LET s == w.sockfd_
        done == Outcome(removeChannel(cancelTimeout(w)), w.kern[s], cause)
    IN  newConnection([done EXCEPT !.sockfd_ = 0, !.state_ = "kConnected"], s)

\* SO_ERROR and getpeername() are asked of the present sockfd_, whoever's event it is; a
\* connect that is still in progress has no error and no peer.
handleWrite(w, cause) ==
    IF w.state_ # "kConnecting" THEN w
    ELSE IF w.kern[w.sockfd_] \in {"refused", "self"} THEN fail(w, "ECONNREFUSED", cause)
    ELSE finishConnect(w, cause)

handleError(w, cause) == IF w.state_ # "kConnecting" THEN w ELSE fail(w, "ECONNREFUSED", cause)

\* Mutated form of handleTimeout: the state is not looked at.
TimesOutAlways(w, cause) == fail(w, "ETIMEDOUT", cause)

handleTimeout(w, cause) == IF w.state_ # "kConnecting" THEN w ELSE fail(w, "ETIMEDOUT", cause)

Closable(w, s) == w.conn[s].state \in {"kConnected", "kDisconnecting"}

forceClose(w, s) ==
    IF ~Closable(w, s) THEN w
    ELSE queueInLoop([w EXCEPT !.conn[s].state = "kDisconnecting"], "forceCloseInLoop", s)

\* The connection callback runs between the change of state and the close callback.
handleClose(w, s) ==
    Callback([w EXCEPT !.conn[s].state = "kDisconnected", !.todo = <<<<"closeCallback", s>>>> \o @], s)

connectDestroyed(w, s) ==
    [w EXCEPT !.conn[s].state = IF @ = "kConnected" THEN "kDisconnected" ELSE @,
              !.conn[s].removed = TRUE]

\* Mutated form of removeConnection: the teardown is not queued.
RemovesOnly(w, s) == [w EXCEPT !.connection_ = IF @ = s THEN 0 ELSE @]

removeConnection(w, s) ==
    queueInLoop([w EXCEPT !.connection_ = IF @ = s THEN 0 ELSE @], "connectDestroyed", s)

disconnect(w) ==
    IF w.connection_ = 0 THEN stopInLoop(w)
    ELSE [w EXCEPT !.conn[w.connection_].state = IF @ = "kConnected" THEN "kDisconnecting" ELSE @]

stop(w) ==
    LET stopped == stopInLoop(w)
    IN  IF w.connection_ = 0 THEN stopped ELSE forceClose(stopped, w.connection_)

\* ~TcpClient() and ~Connector(), which finds nothing left to clean up.
destroy(w) ==
    LET s == w.connection_
        gone == [stopInLoop(w) EXCEPT !.client = FALSE, !.connection_ = 0]
        mute == [gone EXCEPT !.conn[s].closeCallback = FALSE]
    IN  IF s = 0 THEN CleanUp(gone)
        ELSE IF w.conn[s].state = "kConnected" THEN connectDestroyed(mute, s)
        ELSE forceClose(mute, s)

Call(w, call, how) ==
    CASE call = "connect" -> startInLoop(w, how)
      [] call = "disconnect" -> disconnect(w)
      [] call = "stop" -> stop(w)
      [] call = "destroy" -> destroy(w)

(***************************************************************************)
(* The loop.                                                               *)
(***************************************************************************)
Init ==
    /\ client = TRUE /\ state_ = "kDisconnected"
    /\ sockfd_ = 0 /\ channel_ = 0 /\ timeoutId_ = 0 /\ connection_ = 0 /\ armed = 0 /\ made = 0
    /\ conn = [s \in Sockets |-> NoConn] /\ open = {} /\ kern = [s \in Sockets |-> "syn"]
    /\ pending = <<>> /\ todo = <<>> /\ phase = "poll"
    /\ calls = 0 /\ polled = TRUE /\ outcomes = {} /\ failures = {}

Running == failures = {}
Hows == IF made < MaxAttempts THEN {"EMFILE", "ENETUNREACH", "EINPROGRESS"} ELSE {}

\* What epoll reports of the Connector's channel (a refused connect has EPOLLERR and EPOLLOUT),
\* of the connection's (the peer closed), and a batch of expired timers.
ChannelEvents ==
    IF channel_ = 0 \/ kern[channel_] = "syn" THEN {}
    ELSE {(IF kern[channel_] = "refused" THEN <<<<"handleError", channel_>>>> ELSE <<>>)
              \o <<<<"handleWrite", channel_>>>>}
ConnectionEvents == {<<<<"handleRead", s>>>> : s \in {s \in Sockets : Closable(Whole, s) /\ kern[s] = "fin"}}
TimerEvents ==
    LET user == <<<<"user", 0>>>>
        timeout == <<<<"handleTimeout", armed>>>>
    IN  {user} \cup IF armed = 0 THEN {} ELSE {timeout, user \o timeout}

Poll ==
    /\ Running /\ phase = "poll" /\ phase' = "events" /\ polled' = client
    /\ \E io \in {<<>>} \cup ChannelEvents \cup ConnectionEvents, timers \in {<<>>} \cup TimerEvents :
           /\ io # <<>> \/ timers # <<>> \/ pending # <<>>
           /\ todo' \in {io \o timers, timers \o io}
           /\ armed' = IF \E i \in DOMAIN timers : timers[i][1] = "handleTimeout" THEN 0 ELSE armed
    /\ UNCHANGED <<client, state_, sockfd_, channel_, timeoutId_, made, open, kern, connection_,
                   conn, pending, calls, outcomes, failures>>

\* The events are handled, then the functors: the next part of the iteration.
Turn ==
    /\ Running /\ todo = <<>> /\ phase # "poll"
    /\ IF phase = "events" THEN phase' = "functors" /\ todo' = pending /\ pending' = <<>>
       ELSE phase' = "poll" /\ UNCHANGED <<todo, pending>>
    /\ UNCHANGED <<client, connectorVars, connection_, conn, calls, polled, outcomes, failures>>

\* The next handler or functor.  The Connector's handlers capture it; a connection's channel
\* is tied to its connection.
Run ==
    /\ Running /\ todo # <<>>
    /\ LET f == Head(todo)[1]
           s == Head(todo)[2]
           w == [Whole EXCEPT !.todo = Tail(@)]
       IN  CASE f \in {"handleError", "handleWrite", "handleTimeout"} ->
                    IF ~client THEN Crash(f)
                    ELSE Becomes(CASE f = "handleError" -> handleError(w, s)
                                   [] f = "handleWrite" -> handleWrite(w, s)
                                   [] f = "handleTimeout" -> handleTimeout(w, s))
             [] f = "handleRead" ->
                    IF conn[s] = NoConn THEN Becomes(w)
                    ELSE IF ~Closable(w, s) THEN Crash("handleClose")
                    ELSE Becomes(handleClose(w, s))
             [] f = "closeCallback" ->
                    Becomes(IF conn[s].closeCallback THEN removeConnection(w, s) ELSE w)
             [] f = "forceCloseInLoop" -> Becomes(IF Closable(w, s) THEN handleClose(w, s) ELSE w)
             [] f = "connectDestroyed" -> Becomes(connectDestroyed(w, s))
             [] f = "doomed" -> Becomes(w)
             [] f \in {"disconnect", "stop"} -> Becomes(Call(w, f, "none"))
             [] f = "connect" ->
                    IF Hows = {} THEN Becomes(w) ELSE \E how \in Hows : Becomes(Call(w, f, how))
             [] f = "user" -> Becomes(w)
    /\ UNCHANGED <<phase, calls, polled>>

\* A callback of the application calls the client; it destroys it only when no thread has a
\* call under way.
UserCalls(call) ==
    /\ Running /\ client /\ calls < MaxCalls /\ calls' = calls + 1
    /\ todo # <<>> /\ Head(todo)[1] = "user"
    /\ call = "destroy" =>
           \A q \in {pending, todo} : \A i \in DOMAIN q : q[i][1] \notin {"connect", "disconnect", "stop"}
    /\ \E how \in (IF call = "connect" THEN Hows ELSE {"none"}) : Becomes(Call(Whole, call, how))
    /\ UNCHANGED <<phase, polled>>

\* Another thread calls connect(), disconnect() or stop().
Post(call) ==
    /\ Running /\ client /\ calls < MaxCalls /\ calls' = calls + 1
    /\ pending' = Append(pending, <<call, 0>>)
    /\ UNCHANGED <<client, connectorVars, connection_, conn, todo, phase, polled, outcomes, failures>>

\* The network: an attempt is answered (or meets itself), the peer closes.
Answer(s, answer) ==
    /\ Running /\ s \in open
    /\ IF answer = "fin" THEN kern[s] = "up" ELSE kern[s] = "syn"
    /\ kern' = [kern EXCEPT ![s] = answer]
    /\ UNCHANGED <<client, state_, sockfd_, channel_, timeoutId_, armed, made, open, connection_, conn,
                   pending, todo, phase, calls, polled, outcomes, failures>>

Next ==
    \/ Poll \/ Turn \/ Run
    \/ \E call \in CallbackCalls : UserCalls(call)
    \/ \E call \in {"connect", "disconnect", "stop"} : Post(call)
    \/ \E s \in Sockets, answer \in {"up", "self", "refused", "fin"} : Answer(s, answer)

Spec == Init /\ [][Next]_vars

\* The loop thread keeps going, and an armed deadline is in the batch of some poll.
Fairness == WF_vars(Poll \/ Turn \/ Run) /\ SF_vars(Poll /\ armed # 0 /\ armed' = 0)

FairSpec == Spec /\ Fairness

(***************************************************************************)
(* Properties.                                                             *)
(***************************************************************************)
\* Every open socket has one owner, the Connector or a TcpConnection, and no owner has a closed
\* one: between attempts, stop(), success and destruction no descriptor leaks or is closed twice.
FdOwnedOnce ==
    Running =>
        LET connections == {s \in Sockets : conn[s] # NoConn}
            connector == {sockfd_} \ {0}
        IN  open = connections \cup connector /\ connections \cap connector = {}

\* An attempt has one outcome, decided by its own event or deadline and not by one left over
\* from an earlier attempt; a socket is delivered only when its handshake has completed
\* (Connector.h:27), and an attempt that was stopped reports nothing.
OutcomeIsOwn ==
    \A o \in outcomes :
        /\ o.cause = o.attempt /\ o.result # "syn"
        /\ \A p \in outcomes : p.attempt = o.attempt => p = o

\* The asserts hold and the Connector is not used after its destruction, except: the error
\* callback, or a timer of the application, destroys the client while another handler of the
\* Connector is still to run in the same iteration; or the client is destroyed while its
\* connection is closing, and the muted close callback leaves the channel in the loop.
OnlyKnownFailures ==
    \A f \in failures :
        CASE f.at \in {"handleWrite", "handleError", "handleTimeout"} -> polled
          [] f.at = "~Channel" -> ~client /\ f.muted
          [] OTHER -> FALSE

\* Every attempt ends: it is answered, stopped, or its deadline fires.
AttemptEnds == (state_ = "kConnecting") ~> (state_ # "kConnecting" \/ ~Running)

\* A destroyed client gives back every socket.
DestroyReleases == ~client ~> (open = {} \/ ~Running)

=============================================================================
