---------------------------- MODULE TcpConnection ----------------------------
(***************************************************************************)
(* One TcpConnection with its Channel, as a multi-threaded TcpServer holds *)
(* it: the io loop runs its handlers and posted functors, other threads    *)
(* send and force-close through a shared_ptr, the server (its base loop)   *)
(* removes or destroys it, and the peer sends, closes or resets.           *)
(*                                                                         *)
(* Message m consists of the bytes <<m, 1>> .. <<m, MessageSize>>; what    *)
(* arrives from the peer is only counted.  A failed assert aborts the      *)
(* program.                                                                *)
(***************************************************************************)
EXTENDS Naturals, Sequences, SequencesExt, FiniteSets

CONSTANTS Threads,      \* threads other than the io loop and the base loop
          MaxSends,     \* bound on the number of send() calls
          MaxArrivals,  \* bound on the unread data from the peer
          MessageSize,  \* bytes of a message
          MaxCalls,     \* bound on the posts to the io loop at a time
          MaxDowns      \* no forceClose() after this many closes

ASSUME SizeAssumption ==
    /\ MaxSends \in Nat /\ MaxArrivals \in Nat /\ MaxCalls \in Nat /\ MaxDowns \in Nat
    /\ MessageSize \in Nat \ {0}

VARIABLES
    state_,       \* the connection's state
    outputBuffer_,\* bytes waiting for EPOLLOUT
    events_,      \* what the channel asks for: subset of {"IN", "OUT"}
    addedToLoop_, \* the channel's flag of that name
    inEpoll,      \* the poller's index_ = 1: the fd is in the epoll set
    wire,         \* bytes handed to the kernel
    finSent,      \* shutdownWrite() was called
    peer,         \* "open", "fin" or "reset"
    unread,       \* data from the peer, not read yet
    soError,      \* a pending socket error, cleared when it is read
    pc,           \* where the io loop is
    revents,      \* events the channel is still to handle
    functors,     \* the posts being executed
    pending,      \* the posts to the io loop
    caller,       \* where each other thread is in send() or forceClose()
    owner,        \* the server "holds" the connection, erased it ("gone"),
                  \* or is "destroyed"
    removals,     \* removeConnection() posts to the base loop
    sends,        \* number of send() calls so far
    accepted,     \* bytes sendInLoop() did not refuse, in order
    ups, downs,   \* calls of connectionCallback_ with connected() or not
    stray,        \* messageCallback_ was called before up or after down
    aborted       \* an assert failed

channelVars == <<events_, addedToLoop_, inEpoll>>
kernelVars == <<peer, unread, soError>>
loopVars == <<pc, revents, functors>>
ownerVars == <<owner, removals>>
ghosts == <<ups, downs, stray, aborted>>
vars == <<state_, outputBuffer_, channelVars, wire, finSent, kernelVars,
          loopVars, pending, caller, ownerVars, sends, accepted, ghosts>>

States == {"kConnecting", "kConnected", "kDisconnecting", "kDisconnected"}
Posts == {<<"connectEstablished">>, <<"connectDestroyed">>, <<"forceClose">>}
            \cup {<<"send", m>> : m \in 1..MaxSends}
Idle == <<"idle">>
CallerStates == {Idle, <<"closeChecked">>, <<"closeSet">>}
                    \cup {<<"send", m>> : m \in 1..MaxSends}
Message(m) == [i \in 1..MessageSize |-> <<m, i>>]
Bytes == (1..MaxSends) \X (1..MessageSize)

TypeOK ==
    /\ state_ \in States
    /\ outputBuffer_ \in Seq(Bytes) /\ wire \in Seq(Bytes) /\ accepted \in Seq(Bytes)
    /\ events_ \subseteq {"IN", "OUT"}
    /\ {addedToLoop_, inEpoll, finSent, soError, stray, aborted} \subseteq BOOLEAN
    /\ peer \in {"open", "fin", "reset"}
    /\ unread \in 0..MaxArrivals
    /\ pc \in {"poll", "event", "written", "functors", "dead"}
    /\ revents \subseteq {"IN", "OUT", "HUP", "ERR"}
    /\ functors \in Seq(Posts) /\ pending \in Seq(Posts)
    /\ caller \in [Threads -> CallerStates]
    /\ owner \in {"holds", "gone", "destroyed"}
    /\ {removals, ups, downs} \subseteq Nat
    /\ sends \in 0..MaxSends

\* As newConnection() leaves it: constructed, in the server's map, and with
\* connectEstablished() posted to its loop.
Init ==
    /\ state_ = "kConnecting"
    /\ outputBuffer_ = <<>> /\ wire = <<>> /\ accepted = <<>>
    /\ events_ = {} /\ addedToLoop_ = FALSE /\ inEpoll = FALSE
    /\ finSent = FALSE
    /\ peer = "open" /\ unread = 0 /\ soError = FALSE
    /\ pc = "poll" /\ revents = {}
    /\ functors = <<>> /\ pending = <<<<"connectEstablished">>>>
    /\ caller = [t \in Threads |-> Idle]
    /\ owner = "holds" /\ removals = 0
    /\ sends = 0
    /\ ups = 0 /\ downs = 0 /\ stray = FALSE /\ aborted = FALSE

(***************************************************************************)
(* Mutated forms of definitions below: bugs this code could have.          *)
(***************************************************************************)

\* shutdownInLoop() does not wait for the output.
AlwaysDrained == TRUE

\* sendInLoop() takes the fast path with bytes still buffered.
FastPathAlways == TRUE

\* shutdownInLoop() never finds the output drained.
NeverDrained == FALSE

\* Channel::update() without the EPOLL_CTL_MOD of a registered channel.
ForgetsWriting(ev) ==
    /\ events_' = ev \ {"OUT"}
    /\ addedToLoop_' = TRUE
    /\ inEpoll' = (~inEpoll \/ ev # {})

\* handleClose() leaves the channel enabled.
KeepsListening == UNCHANGED channelVars

\* forceCloseInLoop() only closes connections nobody is shutting down.
ClosesConnectedOnly == state_ = "kConnected"

(***************************************************************************)
(* The channel and its poller.                                             *)
(***************************************************************************)

\* Channel::update() and EPollPoller::updateChannel(): a channel that is not in
\* the epoll set is added even when it asks for nothing.
Update(ev) ==
    /\ events_' = ev
    /\ addedToLoop_' = TRUE
    /\ inEpoll' = (~inEpoll \/ ev # {})

isWriting == "OUT" \in events_
disableAll == Update({})

\* Channel::remove() after its assert, and EPollPoller::removeChannel().
RemoveChannel == addedToLoop_' = FALSE /\ inEpoll' = FALSE

(***************************************************************************)
(* The socket.  External: the kernel's rules as the code relies on them.   *)
(***************************************************************************)
Broken == finSent \/ peer = "reset"

\* The events epoll can report for the fd.
Ready ==
    {e \in {"IN", "OUT", "HUP", "ERR"} :
        \/ e = "IN"  /\ (unread > 0 \/ peer # "open")
        \/ e = "OUT"
        \/ e = "HUP" /\ (peer = "reset" \/ (peer = "fin" /\ finSent))
        \/ e = "ERR" /\ soError}

PeerSends ==
    /\ peer = "open"
    /\ unread < MaxArrivals
    /\ unread' = unread + 1
    /\ UNCHANGED <<state_, outputBuffer_, channelVars, wire, finSent, peer, soError,
                   loopVars, pending, caller, ownerVars, sends, accepted, ghosts>>

PeerCloses ==
    /\ peer = "open"
    /\ peer' = "fin"
    /\ UNCHANGED <<state_, outputBuffer_, channelVars, wire, finSent, unread, soError,
                   loopVars, pending, caller, ownerVars, sends, accepted, ghosts>>

PeerResets ==
    /\ peer # "reset"
    /\ peer' = "reset"
    /\ soError' = TRUE
    /\ UNCHANGED <<state_, outputBuffer_, channelVars, wire, finSent, unread,
                   loopVars, pending, caller, ownerVars, sends, accepted, ghosts>>

(***************************************************************************)
(* Pieces of the handlers.                                                 *)
(***************************************************************************)

AssertFails == aborted' = TRUE /\ pc' = "dead"

\* The disableAll() of handleClose().
StopListening == disableAll

\* handleClose(): the connection callback and, through the close callback,
\* removeConnection() posted to the base loop.
handleClose ==
    IF state_ \in {"kConnected", "kDisconnecting"}
    THEN /\ state_' = "kDisconnected"
         /\ StopListening
         /\ downs' = downs + 1
         /\ removals' = removals + 1
         /\ UNCHANGED <<pc, aborted>>
    ELSE AssertFails /\ UNCHANGED <<state_, channelVars, downs, removals>>

\* shutdownInLoop() sends the FIN only when no output is pending.
Drained == ~isWriting
shutdownInLoop == finSent' = (finSent \/ Drained)

\* The fast path of sendInLoop().
FastPath == ~isWriting /\ outputBuffer_ = <<>>

\* sendInLoop(): write what the socket takes, buffer the rest and wait for EPOLLOUT;
\* a broken connection drops the message.
sendInLoop(m) ==
    IF state_ = "kDisconnected"
    THEN UNCHANGED <<outputBuffer_, channelVars, wire, accepted>>
    ELSE /\ accepted' = accepted \o Message(m)
         /\ IF FastPath /\ Broken
            THEN UNCHANGED <<outputBuffer_, channelVars, wire>>
            ELSE \E n \in 0..(IF FastPath THEN MessageSize ELSE 0) :
                     /\ wire' = wire \o SubSeq(Message(m), 1, n)
                     /\ outputBuffer_' =
                            outputBuffer_ \o SubSeq(Message(m), n + 1, MessageSize)
                     /\ IF n < MessageSize /\ ~isWriting
                        THEN Update(events_ \cup {"OUT"})
                        ELSE UNCHANGED channelVars

(***************************************************************************)
(* The io loop: handlers.                                                  *)
(***************************************************************************)

\* The loop reports the fd's events; EPOLLOUT only when the kernel has room, HUP
\* and ERR whether asked for or not.
PollReports(rev) ==
    /\ pc = "poll"
    /\ pc' = "event"
    /\ revents' = rev
    /\ UNCHANGED <<state_, outputBuffer_, channelVars, wire, finSent, kernelVars,
                   functors, pending, caller, ownerVars, sends, accepted, ghosts>>

Reportable == IF inEpoll THEN Ready \cap (events_ \cup {"HUP", "ERR"}) ELSE {}

Poll == \E rev \in {Reportable, Reportable \ {"OUT"}} : PollReports(rev)

\* handleEventWithGuard(), first case: HUP without IN is handleClose().
HandleHup ==
    /\ pc = "event"
    /\ "HUP" \in revents
    /\ revents' = revents \ {"HUP"}
    /\ IF "IN" \in revents
       THEN UNCHANGED <<state_, channelVars, downs, removals, pc, aborted>>
       ELSE handleClose
    /\ UNCHANGED <<outputBuffer_, wire, finSent, kernelVars, functors, pending,
                   caller, owner, sends, accepted, ups, stray>>

\* handleError() reads, and so clears, SO_ERROR.
HandleError ==
    /\ pc = "event"
    /\ "HUP" \notin revents
    /\ "ERR" \in revents
    /\ soError' = FALSE
    /\ revents' = revents \ {"ERR"}
    /\ UNCHANGED <<state_, outputBuffer_, channelVars, wire, finSent, peer, unread,
                   pc, functors, pending, caller, ownerVars, sends, accepted, ghosts>>

\* The state in which the output is finished after the peer closed.
Finishing == "kDisconnecting"

\* handleRead(): data goes to the message callback; the end of the stream closes
\* the connection, or waits for pending output; an error is only logged.
HandleRead ==
    /\ pc = "event"
    /\ revents \cap {"HUP", "ERR"} = {}
    /\ "IN" \in revents
    /\ revents' = revents \ {"IN"}
    /\ \/ /\ unread > 0
          /\ unread' = 0
          /\ stray' = (stray \/ ups = 0 \/ downs > 0)
          /\ UNCHANGED <<state_, channelVars, downs, removals, soError, pc, aborted>>
       \/ /\ unread = 0 /\ soError
          /\ soError' = FALSE
          /\ UNCHANGED <<state_, channelVars, downs, removals, unread, stray, pc, aborted>>
       \/ /\ unread = 0 /\ ~soError /\ outputBuffer_ # <<>>
          /\ state_' = Finishing
          /\ UNCHANGED <<channelVars, downs, removals, unread, soError, stray, pc, aborted>>
       \/ /\ unread = 0 /\ ~soError /\ outputBuffer_ = <<>>
          /\ UNCHANGED <<unread, soError, stray>>
          /\ handleClose
    /\ UNCHANGED <<outputBuffer_, wire, finSent, peer, functors, pending, caller,
                   owner, sends, accepted, ups>>

\* handleWrite(): write part of the buffer; once it is empty, stop waiting for
\* EPOLLOUT and call the write-complete callback (which may send or shut down).
HandleWrite ==
    /\ pc = "event"
    /\ revents = {"OUT"}
    /\ revents' = {}
    /\ IF isWriting /\ ~Broken
       THEN \E n \in 1..Len(outputBuffer_) :
                /\ wire' = wire \o SubSeq(outputBuffer_, 1, n)
                /\ outputBuffer_' = SubSeq(outputBuffer_, n + 1, Len(outputBuffer_))
                /\ IF n = Len(outputBuffer_)
                   THEN Update(events_ \ {"OUT"}) /\ pc' = "written"
                   ELSE UNCHANGED <<channelVars, pc>>
       ELSE UNCHANGED <<wire, outputBuffer_, channelVars, pc>>
    /\ UNCHANGED <<state_, finSent, kernelVars, functors, pending, caller, ownerVars,
                   sends, accepted, ghosts>>

\* The end of handleWrite(): a shutdown that waited for the output.
WriteCompleted ==
    /\ pc = "written"
    /\ pc' = "event"
    /\ IF state_ = "kDisconnecting" THEN shutdownInLoop ELSE UNCHANGED finSent
    /\ UNCHANGED <<state_, outputBuffer_, channelVars, wire, kernelVars, revents,
                   functors, pending, caller, ownerVars, sends, accepted, ghosts>>

(***************************************************************************)
(* The io loop: functors.                                                  *)
(***************************************************************************)
SwapPending ==
    /\ pc = "event"
    /\ revents = {}
    /\ pc' = "functors"
    /\ functors' = pending
    /\ pending' = <<>>
    /\ UNCHANGED <<state_, outputBuffer_, channelVars, wire, finSent, kernelVars,
                   revents, caller, ownerVars, sends, accepted, ghosts>>

\* The next post, taken off the batch.
Runs(op) ==
    /\ pc = "functors"
    /\ functors # <<>>
    /\ Head(functors)[1] = op
    /\ functors' = Tail(functors)

EndFunctors ==
    /\ pc = "functors"
    /\ functors = <<>>
    /\ pc' = "poll"
    /\ UNCHANGED <<state_, outputBuffer_, channelVars, wire, finSent, kernelVars,
                   revents, functors, pending, caller, ownerVars, sends, accepted,
                   ghosts>>

ConnectEstablished ==
    /\ Runs("connectEstablished")
    /\ IF state_ = "kConnecting"
       THEN /\ state_' = "kConnected"
            /\ Update(events_ \cup {"IN"})
            /\ ups' = ups + 1
            /\ UNCHANGED <<pc, aborted>>
       ELSE AssertFails /\ UNCHANGED <<state_, channelVars, ups>>
    /\ UNCHANGED <<outputBuffer_, wire, finSent, kernelVars, revents, pending, caller,
                   ownerVars, sends, accepted, downs, stray>>

\* connectDestroyed() disables the channel only of a connection in kConnected, and
\* removes it in any state; Channel::remove() asserts isNoneEvent().
ConnectDestroyed ==
    /\ Runs("connectDestroyed")
    /\ IF state_ = "kConnected"
       THEN /\ state_' = "kDisconnected"
            /\ events_' = {}
            /\ RemoveChannel
            /\ downs' = downs + 1
            /\ UNCHANGED <<pc, aborted>>
       ELSE /\ UNCHANGED <<state_, events_, downs>>
            /\ IF events_ = {}
               THEN RemoveChannel /\ UNCHANGED <<pc, aborted>>
               ELSE AssertFails /\ UNCHANGED <<addedToLoop_, inEpoll>>
    /\ UNCHANGED <<outputBuffer_, wire, finSent, kernelVars, revents, pending, caller,
                   ownerVars, sends, accepted, ups, stray>>

\* The states forceClose() and forceCloseInLoop() act in.
ForceClosable == state_ \in {"kConnected", "kDisconnecting"}

ForceCloseInLoop ==
    /\ Runs("forceClose")
    /\ IF ForceClosable
       THEN handleClose
       ELSE UNCHANGED <<state_, channelVars, downs, removals, pc, aborted>>
    /\ UNCHANGED <<outputBuffer_, wire, finSent, kernelVars, revents, pending, caller,
                   owner, sends, accepted, ups, stray>>

SendInLoop ==
    /\ Runs("send")
    /\ sendInLoop(Head(functors)[2])
    /\ UNCHANGED <<state_, finSent, kernelVars, pc, revents, pending, caller,
                   ownerVars, sends, ghosts>>

(***************************************************************************)
(* Calls on the io loop's thread, from callbacks and functors.             *)
(***************************************************************************)
InUserCode == pc \in {"event", "written", "functors"} /\ ups > 0
Room == Len(functors) + Len(pending) < MaxCalls

Send ==
    /\ InUserCode
    /\ state_ = "kConnected"
    /\ sends < MaxSends
    /\ sends' = sends + 1
    /\ sendInLoop(sends + 1)
    /\ UNCHANGED <<state_, finSent, kernelVars, loopVars, pending, caller, ownerVars,
                   ghosts>>

Shutdown ==
    /\ InUserCode
    /\ state_ = "kConnected"
    /\ state_' = "kDisconnecting"
    /\ shutdownInLoop
    /\ UNCHANGED <<outputBuffer_, channelVars, wire, kernelVars, loopVars, pending,
                   caller, ownerVars, sends, accepted, ghosts>>

ForceClose ==
    /\ InUserCode
    /\ Room
    /\ state_ \in {"kConnected", "kDisconnecting"}
    /\ state_' = "kDisconnecting"
    /\ pending' = Append(pending, <<"forceClose">>)
    /\ UNCHANGED <<outputBuffer_, channelVars, wire, finSent, kernelVars, loopVars,
                   caller, ownerVars, sends, accepted, ghosts>>

(***************************************************************************)
(* Calls from other threads: each reads state_, and acts on it later.      *)
(***************************************************************************)
CallerMoves(t, from, to) == caller[t] = from /\ caller' = [caller EXCEPT ![t] = to]

CallsSend(t) ==
    /\ pc # "dead" /\ ups > 0 /\ Room
    /\ state_ = "kConnected"
    /\ sends < MaxSends
    /\ sends' = sends + 1
    /\ CallerMoves(t, Idle, <<"send", sends + 1>>)
    /\ UNCHANGED <<state_, outputBuffer_, channelVars, wire, finSent, kernelVars,
                   loopVars, pending, ownerVars, accepted, ghosts>>

PostsSend(t) ==
    /\ pc # "dead"
    /\ caller[t][1] = "send"
    /\ pending' = Append(pending, caller[t])
    /\ caller' = [caller EXCEPT ![t] = Idle]
    /\ UNCHANGED <<state_, outputBuffer_, channelVars, wire, finSent, kernelVars,
                   loopVars, ownerVars, sends, accepted, ghosts>>

\* forceClose(): the test of state_, ...
CallsForceClose(t) ==
    /\ pc # "dead" /\ ups > 0 /\ Room /\ downs < MaxDowns
    /\ state_ \in {"kConnected", "kDisconnecting"}
    /\ CallerMoves(t, Idle, <<"closeChecked">>)
    /\ UNCHANGED <<state_, outputBuffer_, channelVars, wire, finSent, kernelVars,
                   loopVars, pending, ownerVars, sends, accepted, ghosts>>

\* ... the assignment, ...
SetsDisconnecting(t) ==
    /\ pc # "dead"
    /\ CallerMoves(t, <<"closeChecked">>, <<"closeSet">>)
    /\ state_' = "kDisconnecting"
    /\ UNCHANGED <<outputBuffer_, channelVars, wire, finSent, kernelVars, loopVars,
                   pending, ownerVars, sends, accepted, ghosts>>

\* ... and the post.
PostsForceClose(t) ==
    /\ pc # "dead"
    /\ CallerMoves(t, <<"closeSet">>, Idle)
    /\ pending' = Append(pending, <<"forceClose">>)
    /\ UNCHANGED <<state_, outputBuffer_, channelVars, wire, finSent, kernelVars,
                   loopVars, ownerVars, sends, accepted, ghosts>>

(***************************************************************************)
(* The server, on its base loop, and the end of the connection.            *)
(***************************************************************************)

\* removeConnectionInLoop(): erase, assert that it was there, post the rest.
RemoveConnection ==
    /\ pc # "dead"
    /\ owner # "destroyed"
    /\ removals > 0
    /\ removals' = removals - 1
    /\ IF owner = "holds"
       THEN /\ owner' = "gone"
            /\ pending' = Append(pending, <<"connectDestroyed">>)
            /\ UNCHANGED <<pc, aborted>>
       ELSE AssertFails /\ UNCHANGED <<owner, pending>>
    /\ UNCHANGED <<state_, outputBuffer_, channelVars, wire, finSent, kernelVars,
                   revents, functors, caller, sends, accepted, ups, downs, stray>>

\* ~TcpServer() posts connectDestroyed() for every connection of its map.
DestroyServer ==
    /\ pc # "dead"
    /\ owner = "holds"
    /\ removals = 0
    /\ owner' = "destroyed"
    /\ pending' = Append(pending, <<"connectDestroyed">>)
    /\ UNCHANGED <<state_, outputBuffer_, channelVars, wire, finSent, kernelVars,
                   loopVars, caller, removals, sends, accepted, ghosts>>

\* The last shared_ptr goes: the asserts of ~TcpConnection() and ~Channel().
Destruct ==
    /\ pc = "poll"
    /\ owner # "holds" /\ removals = 0 /\ pending = <<>>
    /\ \A t \in Threads : caller[t] = Idle
    /\ pc' = "dead"
    /\ aborted' = (state_ # "kDisconnected" \/ addedToLoop_)
    /\ UNCHANGED <<state_, outputBuffer_, channelVars, wire, finSent, kernelVars,
                   revents, functors, pending, caller, ownerVars, sends, accepted,
                   ups, downs, stray>>

Handlers == HandleHup \/ HandleError \/ HandleRead \/ HandleWrite \/ WriteCompleted
Functors ==
    \/ SwapPending \/ ConnectEstablished \/ ConnectDestroyed \/ ForceCloseInLoop
    \/ SendInLoop \/ EndFunctors
ThreadStep(t) ==
    \/ CallsSend(t) \/ PostsSend(t)
    \/ CallsForceClose(t) \/ SetsDisconnecting(t) \/ PostsForceClose(t)

Next ==
    \/ Poll \/ Handlers \/ Functors
    \/ Send \/ Shutdown \/ ForceClose
    \/ \E t \in Threads : ThreadStep(t)
    \/ RemoveConnection \/ DestroyServer \/ Destruct
    \/ PeerSends \/ PeerCloses \/ PeerResets

Spec == Init /\ [][Next]_vars

\* The loop keeps running, a thread finishes its call, and the kernel has room for
\* output again and again.
Fairness ==
    /\ \A t \in Threads : WF_vars(PostsSend(t) \/ SetsDisconnecting(t) \/ PostsForceClose(t))
    /\ WF_vars(Poll \/ Handlers \/ Functors)
    /\ SF_vars(PollReports(Reportable))

FairSpec == Spec /\ Fairness

(***************************************************************************)
(* Properties                                                              *)
(***************************************************************************)

\* What reached the kernel, followed by the output buffer, is what sendInLoop()
\* accepted, in order and without gaps; bytes are missing at its end only once the
\* connection is broken or its FIN sent.  Until it is closed the channel waits for
\* EPOLLOUT exactly while there is output: no busy loop, no stranded bytes.
OutputInOrder ==
    /\ TypeOK
    /\ IsPrefix(wire \o outputBuffer_, accepted)
    /\ ~Broken => wire \o outputBuffer_ = accepted
    /\ (ups > 0 /\ downs = 0 /\ pc # "dead") => (isWriting <=> outputBuffer_ # <<>>)

\* Until the connection is closed, the FIN follows all pending output: shutdown()
\* "finishes writing pending data first", whoever sends meanwhile.
FinAfterOutput == (finSent /\ downs = 0) => outputBuffer_ = <<>>

\* The message callback is only called between the callbacks that report the
\* connection up and down, although handlers, functors and threads interleave.
MessagesWhileUp == ~stray

\* Buffered output reaches the kernel unless the peer resets or the connection is
\* closed.
OutputDrains ==
    outputBuffer_ # <<>> ~>
        (outputBuffer_ = <<>> \/ peer = "reset" \/ downs > 0 \/ pc = "dead")

\* A connection in kDisconnecting gets its FIN out, or closes.
OrderlyShutdown ==
    (state_ = "kDisconnecting") ~>
        (finSent \/ peer = "reset" \/ downs > 0 \/ pc = "dead")

\* A posted forceClose() closes the connection.
ForceCloseCloses ==
    (<<"forceClose">> \in ToSet(pending) \cup ToSet(functors)) ~>
        (downs > 0 \/ pc = "dead")

\* The asserts of handleClose(), connectEstablished(), Channel::remove(), of the
\* destructors and of removeConnectionInLoop() hold.  They do not: destroying the server
\* while a connection is in kDisconnecting trips the one of Channel::remove().
NoAssertFails == ~aborted

\* "Peer closed write side. If we have pending output, finish writing before closing"
\* (handleRead): a connection in kDisconnecting with the peer's FIN received and output
\* pending is closed in the end.  It does not hold: a reset of the peer then leaves the
\* connection open for ever.
PeerCloseCompletes ==
    (peer = "fin" /\ ups > 0 /\ outputBuffer_ # <<>> /\ state_ = "kDisconnecting") ~>
        (downs > 0 \/ pc = "dead")
==============================================================================
