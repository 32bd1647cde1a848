------------------------------ MODULE RpcClient ------------------------------
(***************************************************************************)
(* RpcClient on its loop thread: the table of pending calls, request ids,  *)
(* deadlines, remembered timeouts and failure paths, with threads that     *)
(* call, connect and disconnect, and a server that answers in any order,   *)
(* late, wrongly or not at all.                                            *)
(*                                                                         *)
(* A request is its call; encoding is left out, except that it may fail.   *)
(* A response the client must not accept (malformed, of another version,   *)
(* type or serializer, or with an id that was never sent) is the frame     *)
(* "bad".  TcpClient and its Connector are part of the model; of a         *)
(* connection attempt only its end is kept, and of the TcpConnection the   *)
(* state that decides what the client may send and what it is told.        *)
(***************************************************************************)
EXTENDS Naturals, Sequences, SequencesExt, Functions, FiniteSets

CONSTANTS Calls,                  \* the calls made
          IdRange,                \* request ids are counted modulo IdRange (2^32)
          kMaxRememberedTimeouts, \* bound of the timed-out FIFO (1024)
          MaxPosts                \* bound on the posts to the loop at a time

ASSUME ClientAssumption ==
    /\ IdRange \in Nat \ {0, 1}
    /\ kMaxRememberedTimeouts \in Nat \ {0}
    /\ MaxPosts \in Nat

VARIABLES
    outcome,          \* of each call, as in RpcCalls
    deadline,         \* the calls made with a timeout
    nextRequestId_,   \* the id counter
    pendings_,        \* request id -> call
    timers,           \* the ids with an armed deadline timer
    timedOutIds_,     \* ids of timed-out calls, oldest first
    timedOutIdSet_,   \* the same ids, for lookup
    connection,       \* the TcpConnection: "none", "up", "closing", "down"
    connected_,       \* the client's flag; connection_ is set while it is TRUE
    posts,            \* functors posted to the loop
    failing,          \* calls failAllPending() moved out and is completing
    cause,            \* why: "none", "violation", "down" or "destroyed"
    alive,            \* the RpcClient exists
    dangling,         \* one of its callbacks ran after its destructor
    requests,         \* <<id, call>> sent and unanswered by the server
    replies,          \* frames on their way to the client
    connecting,       \* the thread in connect(): "no", "waiting", "returned"
    connector         \* state_ of the Connector

tableVars == <<nextRequestId_, pendings_, timers>>
timeoutVars == <<timedOutIds_, timedOutIdSet_>>
connVars == <<connection, connected_>>
lifeVars == <<alive, dangling>>
wireVars == <<requests, replies>>
connectVars == <<connecting, connector>>
vars == <<outcome, deadline, tableVars, timeoutVars, connVars, posts, failing, cause,
          lifeVars, wireVars, connectVars>>

Abstract == INSTANCE RpcCalls WITH Calls <- Calls, outcome <- outcome
New == Abstract!New
Waiting == Abstract!Waiting
Reply(c) == Abstract!Reply(c)
Ids == 0..(IdRange - 1)
Bad == <<"bad">>
Posts == {<<"start">>, <<"disconnect">>, <<"forceClose">>} \cup {<<"call", c>> : c \in Calls}
PendingCalls == Range(pendings_)

TypeOK ==
    /\ outcome \in [Calls -> {New, Waiting} \cup Abstract!Failures
                               \cup {Reply(c) : c \in Calls}]
    /\ deadline \subseteq Calls
    /\ nextRequestId_ \in Ids
    /\ DOMAIN pendings_ \subseteq Ids /\ PendingCalls \subseteq Calls
    /\ timers \subseteq Ids
    /\ timedOutIds_ \in Seq(Ids) /\ timedOutIdSet_ \subseteq Ids
    /\ connection \in {"none", "up", "closing", "down"}
    /\ connected_ \in BOOLEAN
    /\ posts \in Seq(Posts)
    /\ failing \subseteq Calls
    /\ cause \in {"none", "violation", "down", "destroyed"}
    /\ requests \subseteq Ids \X Calls
    /\ \A r \in ToSet(replies) : r = Bad \/ r \in Ids \X Calls
    /\ connecting \in {"no", "waiting", "returned"}
    /\ connector \in {"kDisconnected", "kConnecting", "kConnected", "kFailed"}
    /\ alive \in BOOLEAN /\ dangling \in BOOLEAN

\* The counter may be anywhere: the client may have made any number of calls.
Init ==
    /\ outcome = [c \in Calls |-> New] /\ deadline = {}
    /\ nextRequestId_ \in Ids
    /\ pendings_ = <<>> /\ timers = {}
    /\ timedOutIds_ = <<>> /\ timedOutIdSet_ = {}
    /\ connection = "none" /\ connected_ = FALSE
    /\ posts = <<>>
    /\ failing = {} /\ cause = "none"
    /\ requests = {} /\ replies = <<>>
    /\ connecting = "no" /\ connector = "kDisconnected"
    /\ alive = TRUE /\ dangling = FALSE

(***************************************************************************)
(* Mutated forms of definitions below: bugs this code could have.          *)
(***************************************************************************)

\* allocateRequestId() hands out the same id again and again.
SameId == 1

\* onMessage() leaves the deadline timer of an answered call armed.
TimerLeft(id) == timers

\* onConnection() leaves the table alone when the connection goes down.
NobodyFails == {}

\* startCallInLoop() arms no timer for a call made with a timeout.
NeverArms(id, c) == timers

(***************************************************************************)
(* Completing calls.                                                       *)
(***************************************************************************)
Completed(c, r) == outcome' = [outcome EXCEPT ![c] = r]

\* The loop thread is between handlers, not inside failAllPending().
LoopIdle == cause = "none"

\* The calls failAllPending() takes out of the table.
MovedOut == PendingCalls

\* failAllPending(): empty the table and cancel its timers; the completions follow.
failAllPending(why) ==
    /\ failing' = MovedOut
    /\ cause' = why
    /\ pendings_' = <<>>
    /\ timers' = {}
    /\ UNCHANGED nextRequestId_

\* One completion of failAllPending().
CompleteFailing(c) ==
    /\ c \in failing
    /\ failing' = failing \ {c}
    /\ Completed(c, <<"kConnectionClosed">>)
    /\ UNCHANGED <<deadline, tableVars, timeoutVars, connVars, posts, cause, lifeVars,
                   wireVars, connectVars>>

\* TcpConnection::forceClose(): kDisconnecting, and the close itself is posted.
forceClose ==
    IF connection \in {"up", "closing"}
    THEN connection' = "closing" /\ posts' = Append(posts, <<"forceClose">>)
    ELSE UNCHANGED <<connection, posts>>

\* failAllPending() returns to onConnection(), or to failConnection().
EndFailing ==
    /\ failing = {}
    /\ cause \in {"down", "violation"}
    /\ cause' = "none"
    /\ IF cause = "violation" THEN forceClose ELSE UNCHANGED <<connection, posts>>
    /\ UNCHANGED <<outcome, deadline, tableVars, timeoutVars, connected_, failing,
                   lifeVars, wireVars, connectVars>>

(***************************************************************************)
(* Starting calls.                                                         *)
(***************************************************************************)
Usable(id) ==
    id # 0 /\ id \notin DOMAIN pendings_ /\ id \notin timedOutIdSet_

\* The function with one more entry.
With(f, x, y) == [z \in DOMAIN f \cup {x} |-> IF z = x THEN y ELSE f[z]]

\* The ids allocateRequestId() counts through before it comes to id.
Passed(id) == IF id >= nextRequestId_ THEN id - nextRequestId_
                                      ELSE id + IdRange - nextRequestId_

\* allocateRequestId(): count on from nextRequestId_ to the first usable id.
AllocatedId ==
    CHOOSE id \in Ids :
        Usable(id) /\ \A other \in Ids : Usable(other) => Passed(id) <= Passed(other)

ArmedTimers(id, c) == IF c \in deadline' THEN timers \cup {id} ELSE timers

\* startCallInLoop() for call c, whose encoding succeeds or fails.  A connection that
\* is closing drops the frame: TcpConnection::send() only sends when kConnected.
startCallInLoop(c) ==
    \/ /\ ~connected_
       /\ Completed(c, <<"kConnectionClosed">>)
       /\ UNCHANGED <<tableVars, requests>>
    \/ /\ connected_
       /\ Completed(c, <<"kBadRequest">>)
       /\ UNCHANGED <<tableVars, requests>>
    \/ /\ connected_
       /\ \E id \in Ids : Usable(id)
       /\ LET id == AllocatedId
          IN  /\ nextRequestId_' = (id + 1) % IdRange
              /\ pendings_' = With(pendings_, id, c)
              /\ timers' = ArmedTimers(id, c)
              /\ requests' = IF connection = "up" THEN requests \cup {<<id, c>>}
                                                  ELSE requests
       /\ outcome' = [outcome EXCEPT ![c] = Waiting]

\* The user may call: the client exists and is not in its destructor.
Callable == alive /\ cause # "destroyed"

\* AsyncCall() from another thread (Call() and CallAsync() wait for this one).
AsyncCall(c) ==
    /\ Callable
    /\ outcome[c] = New
    /\ Len(posts) < MaxPosts
    /\ outcome' = [outcome EXCEPT ![c] = Waiting]
    /\ deadline' \in {deadline, deadline \cup {c}}
    /\ posts' = Append(posts, <<"call", c>>)
    /\ UNCHANGED <<tableVars, timeoutVars, connVars, failing, cause, lifeVars, wireVars,
                   connectVars>>

\* AsyncCall() on the loop thread, from a completion too: runs at once.
AsyncCallOnLoop(c) ==
    /\ Callable
    /\ outcome[c] = New
    /\ deadline' \in {deadline, deadline \cup {c}}
    /\ startCallInLoop(c)
    /\ UNCHANGED <<timeoutVars, connVars, posts, failing, cause, lifeVars, replies,
                   connectVars>>

\* The loop takes the functor at the head of its queue.
Runs(op) ==
    /\ LoopIdle
    /\ posts # <<>> /\ Head(posts)[1] = op
    /\ posts' = Tail(posts)

\* The posted call reaches the loop.
StartCall ==
    /\ Runs("call")
    /\ UNCHANGED deadline
    /\ startCallInLoop(Head(posts)[2])
    /\ UNCHANGED <<timeoutVars, connVars, failing, cause, lifeVars, replies, connectVars>>

(***************************************************************************)
(* Deadlines.                                                              *)
(***************************************************************************)
Full == Cardinality(timedOutIdSet_) >= kMaxRememberedTimeouts

\* rememberTimedOut(): evict the oldest id when the set is full.
RememberedSet(id) ==
    (IF Full THEN timedOutIdSet_ \ {Head(timedOutIds_)} ELSE timedOutIdSet_) \cup {id}

RememberedSeq(id) ==
    Append(IF Full THEN Tail(timedOutIds_) ELSE timedOutIds_, id)

\* onTimeout(), when a timer that is still armed fires.
OnTimeout(id) ==
    /\ LoopIdle
    /\ id \in timers
    /\ timers' = timers \ {id}
    /\ IF id \in DOMAIN pendings_
       THEN /\ pendings_' = Restrict(pendings_, DOMAIN pendings_ \ {id})
            /\ timedOutIds_' = RememberedSeq(id)
            /\ timedOutIdSet_' = RememberedSet(id)
            /\ Completed(pendings_[id], <<"kTimeout">>)
       ELSE UNCHANGED <<pendings_, timeoutVars, outcome>>
    /\ UNCHANGED <<deadline, nextRequestId_, connVars, posts, failing, cause, lifeVars,
                   wireVars, connectVars>>

(***************************************************************************)
(* Responses.                                                              *)
(***************************************************************************)

\* The loop has polled since a forceClose() was posted: a handler posts it, and the
\* loop runs what its handlers posted before it polls again.
Polled == LoopIdle /\ connection \in {"up", "closing"} /\ <<"forceClose">> \notin ToSet(posts)

CancelledTimer(id) == timers \ {id}

\* onMessage(), one frame: a reply to a pending call completes it, one to a
\* remembered id is dropped, anything else is failConnection().
OnMessage ==
    /\ Polled
    /\ replies # <<>>
    /\ replies' = Tail(replies)
    /\ LET frame == Head(replies)
           id == frame[1]
       IN  IF frame # Bad /\ id \in DOMAIN pendings_
           THEN /\ pendings_' = Restrict(pendings_, DOMAIN pendings_ \ {id})
                /\ timers' = CancelledTimer(id)
                /\ Completed(pendings_[id], Reply(frame[2]))
                /\ UNCHANGED <<nextRequestId_, failing, cause>>
           ELSE IF frame # Bad /\ id \in timedOutIdSet_
           THEN UNCHANGED <<tableVars, outcome, failing, cause>>
           ELSE failAllPending("violation") /\ UNCHANGED outcome
    /\ UNCHANGED <<deadline, timeoutVars, connVars, posts, lifeVars, requests, connectVars>>

(***************************************************************************)
(* The connection attempt: RpcClient::connect(), TcpClient, Connector.     *)
(***************************************************************************)

\* connect(), on a thread of its own: post the start and wait for the promise.
Connect ==
    /\ Callable
    /\ connection = "none"
    /\ connecting # "waiting"
    /\ Len(posts) < MaxPosts
    /\ connecting' = "waiting"
    /\ posts' = Append(posts, <<"start">>)
    /\ UNCHANGED <<outcome, deadline, tableVars, timeoutVars, connVars, failing, cause,
                   lifeVars, wireVars, connector>>

\* Connector::startInLoop().  That connect(2) fails at once is AttemptFails next.
StartInLoop ==
    /\ Runs("start")
    /\ connector' = IF connector \in {"kConnecting", "kConnected"} THEN connector
                                                                   ELSE "kConnecting"
    /\ UNCHANGED <<outcome, deadline, tableVars, timeoutVars, connVars, failing, cause,
                   lifeVars, wireVars, connecting>>

\* Connector::stopInLoop(): no callback.
Stopped == IF connector \in {"kConnecting", "kFailed"} THEN "kDisconnected" ELSE connector

\* The connect promise is taken and fulfilled, if a thread waits for it.
Resolved == IF connecting = "waiting" THEN "returned" ELSE connecting

\* finishConnect(), TcpClient::newConnection(), onConnection(): connected.
AttemptSucceeds ==
    /\ LoopIdle
    /\ connector = "kConnecting"
    /\ connector' = "kConnected"
    /\ connection' = "up"
    /\ connected_' = TRUE
    /\ connecting' = Resolved
    /\ UNCHANGED <<outcome, deadline, tableVars, timeoutVars, posts, failing, cause,
                   lifeVars, wireVars>>

\* fail(), by an error or the deadline of the attempt, and onConnectError().
AttemptFails ==
    /\ LoopIdle
    /\ connector = "kConnecting"
    /\ connector' = "kFailed"
    /\ connecting' = Resolved
    /\ UNCHANGED <<outcome, deadline, tableVars, timeoutVars, connVars, posts, failing,
                   cause, lifeVars, wireVars>>

(***************************************************************************)
(* The end of the connection.                                              *)
(***************************************************************************)

\* handleClose() and the onConnection() it calls.
handleClose ==
    /\ connection' = "down"
    /\ connected_' = FALSE
    /\ requests' = {}
    /\ replies' = <<>>
    /\ IF alive
       THEN failAllPending("down") /\ connecting' = Resolved /\ UNCHANGED dangling
       ELSE dangling' = TRUE /\ UNCHANGED <<tableVars, failing, cause, connecting>>

\* The peer closes or resets.
PeerCloses ==
    /\ Polled
    /\ handleClose
    /\ UNCHANGED <<outcome, deadline, timeoutVars, posts, alive, connector>>

\* The peer closes while requests wait in the output buffer: kDisconnecting.
PeerClosesEarly ==
    /\ Polled
    /\ connection' = "closing"
    /\ UNCHANGED <<outcome, deadline, tableVars, timeoutVars, connected_, posts, failing,
                   cause, lifeVars, wireVars, connectVars>>

ForceCloseInLoop ==
    /\ Runs("forceClose")
    /\ IF connection \in {"up", "closing"}
       THEN handleClose
       ELSE UNCHANGED <<connVars, wireVars, tableVars, failing, cause, dangling, connecting>>
    /\ UNCHANGED <<outcome, deadline, timeoutVars, alive, connector>>

\* TcpClient::disconnect() on the loop: shut a connection down, or stop the attempt.
disconnectInLoop ==
    /\ connection' = IF connection = "up" THEN "closing" ELSE connection
    /\ connector' = IF connection \in {"up", "closing"} THEN connector ELSE Stopped
    /\ UNCHANGED <<outcome, deadline, tableVars, timeoutVars, connected_, failing, cause,
                   lifeVars, wireVars, connecting>>

Disconnect ==
    /\ Callable
    /\ Len(posts) < MaxPosts
    /\ posts' = Append(posts, <<"disconnect">>)
    /\ UNCHANGED <<outcome, deadline, tableVars, timeoutVars, connVars, failing, cause,
                   lifeVars, wireVars, connectVars>>

DisconnectOnLoop == Callable /\ disconnectInLoop /\ UNCHANGED posts

DisconnectInLoop == Runs("disconnect") /\ disconnectInLoop

\* ~RpcClient(), once no post and no thread refers to the client ...
Destroy ==
    /\ LoopIdle
    /\ alive
    /\ ToSet(posts) \subseteq {<<"forceClose">>}
    /\ connecting # "waiting"
    /\ failAllPending("destroyed")
    /\ UNCHANGED <<outcome, deadline, timeoutVars, connVars, posts, lifeVars, wireVars,
                   connectVars>>

\* ... and the ~TcpClient() in it: a connection that is up is destroyed at once, one
\* that is closing is left to a posted forceCloseInLoop().
EndDestroy ==
    /\ failing = {}
    /\ cause = "destroyed"
    /\ cause' = "none"
    /\ alive' = FALSE
    /\ connector' = Stopped
    /\ IF connection = "up"
       THEN connection' = "down" /\ UNCHANGED posts
       ELSE forceClose
    /\ connected_' = FALSE
    /\ requests' = {} /\ replies' = <<>>
    /\ UNCHANGED <<outcome, deadline, tableVars, timeoutVars, failing, dangling, connecting>>

(***************************************************************************)
(* The server.                                                             *)
(***************************************************************************)
ServerAnswers(r) ==
    /\ r \in requests
    /\ requests' = requests \ {r}
    /\ replies' = Append(replies, r)
    /\ UNCHANGED <<outcome, deadline, tableVars, timeoutVars, connVars, posts, failing,
                   cause, lifeVars, connectVars>>

ServerMisbehaves ==
    /\ connection \in {"up", "closing"}
    /\ Bad \notin ToSet(replies)
    /\ replies' = Append(replies, Bad)
    /\ UNCHANGED <<outcome, deadline, tableVars, timeoutVars, connVars, posts, failing,
                   cause, lifeVars, requests, connectVars>>

(***************************************************************************)
(* The specification.                                                      *)
(***************************************************************************)
LoopStep ==
    \/ \E c \in Calls : CompleteFailing(c)
    \/ EndFailing \/ EndDestroy
    \/ StartCall \/ StartInLoop \/ DisconnectInLoop \/ ForceCloseInLoop

UserStep ==
    \/ \E c \in Calls : AsyncCall(c) \/ AsyncCallOnLoop(c)
    \/ Connect \/ Disconnect \/ DisconnectOnLoop \/ Destroy

ServerStep ==
    \/ \E r \in requests : ServerAnswers(r)
    \/ ServerMisbehaves \/ PeerCloses \/ PeerClosesEarly

AttemptEnds == AttemptSucceeds \/ AttemptFails

Next ==
    \/ LoopStep
    \/ \E id \in Ids : OnTimeout(id)
    \/ OnMessage
    \/ AttemptEnds
    \/ UserStep
    \/ ServerStep

Spec == Init /\ [][Next]_vars

\* The loop runs what is posted and finishes what it started, an armed timer fires and
\* an attempt ends (the Connector has a deadline).  Nothing is assumed of the server.
Fairness ==
    /\ WF_vars(LoopStep)
    /\ \A id \in Ids : WF_vars(OnTimeout(id))
    /\ WF_vars(AttemptEnds)

FairSpec == Spec /\ Fairness

(***************************************************************************)
(* Properties                                                              *)
(***************************************************************************)

\* Every call is answered at most once, with the reply to its own request or a
\* failure, whatever the order of responses, deadlines, connection failures and new
\* calls issued from completions (onMessage, onTimeout, failAllPending). It needs ids
\* that outlast the memory of timeouts: an id evicted from timedOutIds_ and allocated
\* again while its late reply is under way hands that reply to the new call.
AnsweredOnce == Abstract!CallsSpec

\* A pending call has an armed timer exactly when it was made with a deadline, no
\* timer outlives its call, and an id in use is neither 0 nor a remembered one
\* (startCallInLoop, onMessage, failAllPending, allocateRequestId).  The FIFO of
\* timed-out ids and the set onMessage() looks in hold the same ids, each once and
\* within the bound (rememberTimedOut).  A waiting call is posted, in the table or being
\* failed, so none is forgotten, and the table of a client without a connection is
\* empty, although completions may start calls while failAllPending() runs.
TableConsistent ==
    /\ TypeOK
    /\ timers = {id \in DOMAIN pendings_ : pendings_[id] \in deadline}
    /\ IsInjective(pendings_)
    /\ \A id \in DOMAIN pendings_ : id # 0 /\ id \notin timedOutIdSet_
    /\ timedOutIdSet_ = ToSet(timedOutIds_)
    /\ IsInjective(timedOutIds_)
    /\ Len(timedOutIds_) <= kMaxRememberedTimeouts
    /\ \A c \in Calls :
           outcome[c] = Waiting <=> \/ <<"call", c>> \in ToSet(posts)
                                    \/ c \in PendingCalls \cup failing
    /\ ~connected_ => PendingCalls = {}

\* A call with a deadline is answered, whatever the server and the connection do.
DeadlineAnswers ==
    \A c \in Calls :
        (c \in deadline /\ outcome[c] = Waiting) ~> outcome[c] # Waiting

\* No call waits for a connection that has gone down, or that a response the client
\* could not accept has condemned.
DownAnswersAll ==
    \A c \in Calls :
        ((connection = "down" \/ cause = "violation") /\ outcome[c] = Waiting)
            ~> outcome[c] # Waiting

\* No callback of the client runs once its destructor has returned: "The close
\* callback points back at this object. It must not survive us" (TcpClient.cpp:38).
\* It does not hold: the close that ~TcpClient() posts for a connection in
\* kDisconnecting still makes the connection callback.
NoCallbackAfterDestroy == ~dangling

==============================================================================
