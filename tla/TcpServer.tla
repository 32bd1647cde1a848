------------------------------ MODULE TcpServer ------------------------------
(***************************************************************************)
(* TcpServer with its Acceptor, its pool of sub-loops and the life of its  *)
(* connections from accept() to the destructor of TcpConnection.           *)
(*                                                                         *)
(* A connection object exists while connections_ or a queued functor holds *)
(* a shared_ptr to it.  A loop alternates between polling and running the  *)
(* functors it swapped out; a functor is <<name, connection>>.  The base   *)
(* loop runs in the thread that owns the server.  Asserts are compiled in: *)
(* a failed one ends the process, as does the use of the destroyed server. *)
(***************************************************************************)
EXTENDS Naturals, Sequences, FiniteSets, Functions

CONSTANTS
    Peers,         \* addresses (IP and port) clients connect from
    MaxSubLoops,   \* the largest pool
    MaxConns,      \* connections accepted in a behaviour
    MaxSpare       \* free descriptors the rest of the process leaves at most

ASSUME TcpServerAssumption ==
    /\ IsFiniteSet(Peers) /\ MaxSubLoops \in Nat
    /\ MaxConns \in Nat /\ MaxSpare \in Nat \ {0}

SubLoops == 1..MaxSubLoops

VARIABLES
    threadNum_,    \* sub-loops in use; 0 is the single-reactor server
    nextConnId_,
    connections_,  \* a partial function from names to connections
    conns,         \* the connections made so far, in order: their records
    base,          \* pendingFunctors_ of the base loop
    loops,         \* each sub-loop: its phase, pending functors, current batch
    server,        \* "new", "up", then the steps of ~TcpServer(), then "gone"
    waiting,       \* the listen queue: peers whose connection is not accepted yet
    acceptor,      \* where handleRead() of the Acceptor is
    idleFd_,       \* TRUE while the reserved descriptor is open
    spare,         \* descriptors the process can still open
    stolen,        \* another part took a descriptor during handleRead() (history)
    failures       \* failed asserts and uses of a destroyed server

serverVars == <<threadNum_, nextConnId_, connections_, conns, base, loops, server, failures>>
fdVars == <<acceptor, idleFd_, stolen>>
vars == <<serverVars, waiting, spare, fdVars>>

Base == 0
Ids == 1..Len(conns)
NewLoop == [phase |-> "poll", pending |-> <<>>, batch |-> <<>>, next |-> 1, quit |-> FALSE]

(***************************************************************************)
(* Descriptors.                                                            *)
(***************************************************************************)
FdFree == spare > 0
Freed(n, k) == IF n + k > MaxSpare THEN MaxSpare ELSE n + k

(***************************************************************************)
(* Reference counting.  The record of the whole: connection records, map,  *)
(* base queue, loops.  Release destroys what is no longer referenced.      *)
(***************************************************************************)
Whole == [conns |-> conns, map |-> connections_, base |-> base, loops |-> loops]

Held(w, c) ==
    \/ c \in Range(w.map)
    \/ \E q \in {w.base} \cup UNION {{w.loops[l].pending, w.loops[l].batch} : l \in SubLoops} :
           \E i \in DOMAIN q : q[i][2] = c

\* addedToLoop_ of the connection's channel: from connectEstablished() until it is removed.
AddedToLoop(k) == k.state # "kConnecting" /\ k.removed = 0

\* ~TcpConnection() of the connections a step let go of: it asserts their state, the ~Channel()
\* it runs that the channel was removed, and their sockets close.
Release(w, fds) ==
    LET dead == {c \in DOMAIN w.conns : ~w.conns[c].freed /\ ~Held(w, c)}
    IN  /\ conns' = [c \in DOMAIN w.conns |-> [w.conns[c] EXCEPT !.freed = @ \/ c \in dead]]
        /\ spare' = Freed(fds, Cardinality(dead))
        /\ connections_' = w.map /\ base' = w.base /\ loops' = w.loops
        /\ failures' =
               {[at |-> "~TcpConnection", conn |-> c] :
                    c \in {c \in dead : w.conns[c].state # "kDisconnected"}}
               \cup {[at |-> "~Channel", conn |-> c] :
                    c \in {c \in dead : w.conns[c].state = "kDisconnected" /\ AddedToLoop(w.conns[c])}}

(***************************************************************************)
(* Functors and the functions they run, each on a Whole.                   *)
(***************************************************************************)
\* queueInLoop() of connection c's loop.
Queue(w, name, c) ==
    IF w.conns[c].loop = Base THEN [w EXCEPT !.base = Append(@, <<name, c>>)]
    ELSE [w EXCEPT !.loops[w.conns[c].loop].pending = Append(@, <<name, c>>)]

connectEstablished(w, c) == [w EXCEPT !.conns[c].state = "kConnected"]

connectDestroyed(w, c) ==
    [w EXCEPT !.conns[c].state = IF @ = "kConnected" THEN "kDisconnected" ELSE @,
              !.conns[c].removed = @ + 1]

\* connections_[x] = c, and connections_.erase(x).
With(f, x, c) == [y \in DOMAIN f \cup {x} |-> IF y = x THEN c ELSE f[y]]
Without(f, x) == [y \in DOMAIN f \ {x} |-> f[y]]

\* Mutated form of removeConnectionInLoop: the connection stays in the map.
RemoveKeepsEntry(w, c) == Queue(w, "connectDestroyed", c)

removeConnectionInLoop(w, c) ==
    Queue([w EXCEPT !.map = Without(@, w.conns[c].name)], "connectDestroyed", c)

\* What is wrong with running functor f in w: connectEstablished() asserts kConnecting,
\* Channel::remove() that no event is enabled (connectDestroyed() disables them only in
\* kConnected), removeConnectionInLoop() that it erased one entry of a living server.
Misuse(w, f) ==
    {[at |-> at, conn |-> f[2]] : at \in
        {at \in {"connectEstablished", "Channel::remove", "erase", "server"} :
            CASE at = "connectEstablished" -> f[1] = at /\ w.conns[f[2]].state # "kConnecting"
              [] at = "Channel::remove" ->
                     f[1] = "connectDestroyed" /\ w.conns[f[2]].state \notin {"kConnected", "kDisconnected"}
              [] at = "erase" ->
                     f[1] = "remove" /\ server # "gone" /\ w.conns[f[2]].name \notin DOMAIN w.map
              [] at = "server" -> f[1] = "remove" /\ server = "gone"}}

Run(w, f) ==
    CASE f[1] = "connectEstablished" -> connectEstablished(w, f[2])
      [] f[1] = "connectDestroyed" -> connectDestroyed(w, f[2])
      [] OTHER -> removeConnectionInLoop(w, f[2])

\* Run functor f, then destroy what nothing holds any more; or the process ends.
Execute(w, f) ==
    IF Misuse(w, f) = {} THEN Release(Run(w, f), spare)
    ELSE failures' = Misuse(w, f) /\ UNCHANGED <<conns, connections_, base, loops, spare>>

(***************************************************************************)
(* start() and accepting.  The base thread accepts while it is in no other *)
(* callback; acceptor says where handleRead() is.                          *)
(***************************************************************************)
Init ==
    /\ threadNum_ = 0 /\ nextConnId_ = 1
    /\ connections_ = <<>> /\ conns = <<>> /\ base = <<>>
    /\ loops = [l \in SubLoops |-> [NewLoop EXCEPT !.phase = "none"]]
    /\ server = "new" /\ waiting = <<>> /\ failures = {}
    /\ acceptor = "idle" /\ idleFd_ = TRUE /\ spare = MaxSpare /\ stolen = FALSE

\* setThreadNum(n) and start(): n sub-loops run, the base loop listens.
start(n) ==
    /\ server = "new" /\ server' = "up"
    /\ threadNum_' = n
    /\ loops' = [l \in SubLoops |-> IF l <= n THEN NewLoop ELSE loops[l]]
    /\ UNCHANGED <<nextConnId_, connections_, conns, base, failures, waiting, spare, fdVars>>

BaseIdle == failures = {} /\ acceptor = "idle"

\* Mutated form of NextName: the counter is not part of the name.
NameWithoutId(peer) == [peer |-> peer, id |-> 1]

\* The name of a new connection: the counter moves only when there are sub-loops.
NextName(peer) == [peer |-> peer, id |-> IF threadNum_ > 0 THEN nextConnId_ + 1 ELSE nextConnId_]

newConnection(peer) ==
    LET c == Len(conns) + 1
        loop == IF threadNum_ > 0 THEN (nextConnId_ % threadNum_) + 1 ELSE Base
        conn == [peer |-> peer, name |-> NextName(peer), loop |-> loop, state |-> "kConnecting",
                 output |-> FALSE, hup |-> "no", removed |-> 0, freed |-> FALSE]
        w == [Whole EXCEPT !.conns = Append(@, conn), !.map = With(@, NextName(peer), c)]
    IN  /\ nextConnId_' = IF threadNum_ > 0 THEN nextConnId_ + 1 ELSE nextConnId_
        /\ Release(IF loop = Base THEN connectEstablished(w, c) ELSE Queue(w, "connectEstablished", c), spare - 1)

\* handleRead(): a descriptor is free.
Accept ==
    /\ BaseIdle /\ server = "up" /\ waiting # <<>> /\ FdFree
    /\ newConnection(Head(waiting))
    /\ waiting' = Tail(waiting)
    /\ UNCHANGED <<threadNum_, server, fdVars>>

\* Mutated form of AcceptFails: the error is only logged, the handler returns.
OnlyLogged ==
    /\ BaseIdle /\ server = "up" /\ waiting # <<>> /\ ~FdFree
    /\ UNCHANGED vars

\* handleRead(): accept() fails with EMFILE, the reserved descriptor is closed.
AcceptFails ==
    /\ BaseIdle /\ server = "up" /\ waiting # <<>> /\ ~FdFree
    /\ spare' = IF idleFd_ THEN spare + 1 ELSE spare
    /\ idleFd_' = FALSE /\ acceptor' = "closed"
    /\ UNCHANGED <<serverVars, waiting, stolen>>

\* Mutated form of AcceptAgain: when nobody is waiting any more, nothing is reopened.
NotReopened ==
    /\ failures = {} /\ acceptor = "closed"
    /\ IF FdFree /\ waiting # <<>>
       THEN acceptor' = "taken" /\ waiting' = Tail(waiting) /\ spare' = spare - 1
       ELSE acceptor' = "idle" /\ UNCHANGED <<waiting, spare>>
    /\ UNCHANGED <<serverVars, idleFd_, stolen>>

\* The second accept(); nobody may be waiting any more, or the descriptor may be gone.
AcceptAgain ==
    /\ failures = {} /\ acceptor = "closed"
    /\ IF FdFree /\ waiting # <<>>
       THEN acceptor' = "taken" /\ waiting' = Tail(waiting) /\ spare' = spare - 1
       ELSE acceptor' = "reopen" /\ UNCHANGED <<waiting, spare>>
    /\ UNCHANGED <<serverVars, idleFd_, stolen>>

\* The connection accepted in place of the reserved descriptor is closed.
TurnAway ==
    /\ failures = {} /\ acceptor = "taken" /\ acceptor' = "reopen"
    /\ spare' = Freed(spare, 1)
    /\ UNCHANGED <<serverVars, waiting, idleFd_, stolen>>

\* open("/dev/null") succeeds if a descriptor is left.
Reopen ==
    /\ failures = {} /\ acceptor = "reopen" /\ acceptor' = "idle"
    /\ idleFd_' = FdFree
    /\ spare' = IF FdFree THEN spare - 1 ELSE spare
    /\ UNCHANGED <<serverVars, waiting, stolen>>

(***************************************************************************)
(* Events and functors.                                                    *)
(***************************************************************************)
\* The thread of connection c's loop is handling events.
Polling(c) ==
    /\ failures = {} /\ ~conns[c].freed
    /\ IF conns[c].loop = Base THEN BaseIdle /\ server = "up" ELSE loops[conns[c].loop].phase = "poll"

\* The application calls shutdown() on c.
Shutdown(c) ==
    /\ Polling(c) /\ conns[c].state = "kConnected"
    /\ conns' = [conns EXCEPT ![c].state = "kDisconnecting"]
    /\ UNCHANGED <<threadNum_, nextConnId_, connections_, base, loops, server, failures, waiting, spare, fdVars>>

\* The application sends on c, and a part stays in the output buffer; with the connection
\* reset the write fails and nothing is kept.
Send(c) ==
    /\ Polling(c) /\ conns[c].state = "kConnected" /\ conns[c].hup # "rst"
    /\ conns' = [conns EXCEPT ![c].output = TRUE]
    /\ UNCHANGED <<threadNum_, nextConnId_, connections_, base, loops, server, failures, waiting, spare, fdVars>>

\* handleWrite() sends the rest; on a connection that was reset it only logs the error.
handleWrite(c) ==
    /\ Polling(c) /\ conns[c].state \in {"kConnected", "kDisconnecting"} /\ conns[c].hup # "rst"
    /\ conns[c].output
    /\ conns' = [conns EXCEPT ![c].output = FALSE]
    /\ UNCHANGED <<threadNum_, nextConnId_, connections_, base, loops, server, failures, waiting, spare, fdVars>>

\* handleRead() at the end of the stream (after a reset, once the error has been read) with
\* output pending: the connection is not closed.
HalfClosed(c) ==
    /\ Polling(c) /\ conns[c].state = "kConnected" /\ conns[c].hup # "no" /\ conns[c].output
    /\ conns' = [conns EXCEPT ![c].state = "kDisconnecting"]
    /\ UNCHANGED <<threadNum_, nextConnId_, connections_, base, loops, server, failures, waiting, spare, fdVars>>

\* handleRead() at the end of the stream without: handleClose() and removeConnection(), at
\* once in the base thread, else through its queue.
handleClose(c) ==
    /\ Polling(c) /\ conns[c].state \in {"kConnected", "kDisconnecting"} /\ conns[c].hup # "no"
    /\ ~conns[c].output
    /\ LET w == [Whole EXCEPT !.conns[c].state = "kDisconnected"]
       IN  IF conns[c].loop = Base THEN Execute(w, <<"remove", c>>)
           ELSE Release([w EXCEPT !.base = Append(@, <<"remove", c>>)], spare)
    /\ UNCHANGED <<threadNum_, nextConnId_, server, waiting, fdVars>>

\* The base loop runs its oldest functor; it may outlive the server.
RunBase ==
    /\ BaseIdle /\ server \in {"up", "gone"} /\ base # <<>>
    /\ Execute([Whole EXCEPT !.base = Tail(@)], Head(base))
    /\ UNCHANGED <<threadNum_, nextConnId_, server, waiting, fdVars>>

\* Mutated form of Swap: the wakeup of a queued functor is lost.
SwapOnQuit(l) ==
    /\ failures = {} /\ loops[l].phase = "poll" /\ loops[l].quit
    /\ loops' = [loops EXCEPT ![l].phase = "functors", ![l].batch = loops[l].pending,
                              ![l].next = 1, ![l].pending = <<>>]
    /\ UNCHANGED <<threadNum_, nextConnId_, connections_, conns, base, server, failures, waiting, spare, fdVars>>

\* Sub-loop l is done with its events and swaps out its functors ...
Swap(l) ==
    /\ failures = {} /\ loops[l].phase = "poll"
    /\ loops[l].pending # <<>> \/ loops[l].quit
    /\ loops' = [loops EXCEPT ![l].phase = "functors", ![l].batch = loops[l].pending,
                              ![l].next = 1, ![l].pending = <<>>]
    /\ UNCHANGED <<threadNum_, nextConnId_, connections_, conns, base, server, failures, waiting, spare, fdVars>>

\* ... runs them one by one ...
RunFunctor(l) ==
    /\ failures = {} /\ loops[l].phase = "functors" /\ loops[l].next <= Len(loops[l].batch)
    /\ Execute([Whole EXCEPT !.loops[l].next = @ + 1], loops[l].batch[loops[l].next])
    /\ UNCHANGED <<threadNum_, nextConnId_, server, waiting, fdVars>>

\* ... and looks at quit_: a loop that ends destroys the functors queued meanwhile.
EndIteration(l) ==
    /\ failures = {} /\ loops[l].phase = "functors" /\ loops[l].next > Len(loops[l].batch)
    /\ Release([Whole EXCEPT !.loops[l].batch = <<>>, !.loops[l].next = 1,
                             !.loops[l].phase = IF loops[l].quit THEN "exited" ELSE "poll",
                             !.loops[l].pending = IF loops[l].quit THEN <<>> ELSE @], spare)
    /\ UNCHANGED <<threadNum_, nextConnId_, server, waiting, fdVars>>

(***************************************************************************)
(* ~TcpServer(), in the base thread: connectDestroyed() for every          *)
(* connection, then the pool is destroyed thread by thread (quit, join).   *)
(***************************************************************************)
Destroy ==
    /\ BaseIdle /\ server = "up" /\ server' = "posting"
    /\ UNCHANGED <<threadNum_, nextConnId_, connections_, conns, base, loops, failures, waiting, spare, fdVars>>

Post(name) ==
    /\ failures = {} /\ server = "posting" /\ name \in DOMAIN connections_
    /\ LET c == connections_[name]
           w == [Whole EXCEPT !.map = Without(@, name)]
       IN  IF conns[c].loop = Base THEN Execute(w, <<"connectDestroyed", c>>)
           ELSE Release(Queue(w, "connectDestroyed", c), spare)
    /\ UNCHANGED <<threadNum_, nextConnId_, server, waiting, fdVars>>

Posted ==
    /\ failures = {} /\ server = "posting" /\ DOMAIN connections_ = {} /\ server' = "joining"
    /\ UNCHANGED <<threadNum_, nextConnId_, connections_, conns, base, loops, failures, waiting, spare, fdVars>>

QuitLoop(l) ==
    /\ failures = {} /\ server = "joining" /\ l <= threadNum_ /\ ~loops[l].quit
    /\ \A k \in 1..(l - 1) : loops[k].phase = "exited"
    /\ loops' = [loops EXCEPT ![l].quit = TRUE]
    /\ UNCHANGED <<threadNum_, nextConnId_, connections_, conns, base, server, failures, waiting, spare, fdVars>>

Joined ==
    /\ failures = {} /\ server = "joining" /\ \A l \in 1..threadNum_ : loops[l].phase = "exited"
    /\ server' = "gone"
    /\ UNCHANGED <<threadNum_, nextConnId_, connections_, conns, base, loops, failures, waiting, spare, fdVars>>

(***************************************************************************)
(* Clients and the rest of the process.                                    *)
(***************************************************************************)
\* A peer connects from an address no socket of the server uses any more: the kernel drops
\* its socket when the connection is reset, else when the descriptor is closed.
Connect(p) ==
    /\ failures = {} /\ server = "up" /\ Len(conns) + Len(waiting) < MaxConns /\ p \notin Range(waiting)
    /\ \A c \in Ids : conns[c].peer = p => conns[c].freed \/ conns[c].hup = "rst"
    /\ waiting' = Append(waiting, p)
    /\ UNCHANGED <<serverVars, spare, fdVars>>

\* A peer gives up before it is accepted: the listen queue closes up behind it.
GiveUp(i) ==
    /\ failures = {} /\ server = "up"
    /\ waiting' = [j \in 1..(Len(waiting) - 1) |-> IF j < i THEN waiting[j] ELSE waiting[j + 1]]
    /\ UNCHANGED <<serverVars, spare, fdVars>>

\* The peer closes its end, or resets the connection, perhaps after that.
HangUp(c, how) ==
    /\ failures = {} /\ conns[c].state # "kDisconnected"
    /\ conns[c].hup = "no" \/ (conns[c].hup = "fin" /\ how = "rst")
    /\ conns' = [conns EXCEPT ![c].hup = how]
    /\ UNCHANGED <<threadNum_, nextConnId_, connections_, base, loops, server, failures, waiting, spare, fdVars>>

\* Another part of the process opens or closes a descriptor; only the Acceptor notices.
OpenOther ==
    /\ failures = {} /\ server = "up" /\ FdFree /\ spare' = spare - 1
    /\ stolen' = (stolen \/ acceptor # "idle")
    /\ UNCHANGED <<serverVars, waiting, acceptor, idleFd_>>
CloseOther ==
    /\ failures = {} /\ server = "up" /\ spare < MaxSpare /\ spare' = spare + 1
    /\ UNCHANGED <<serverVars, waiting, fdVars>>

Next ==
    \/ \E n \in {0} \cup SubLoops : start(n)
    \/ Accept \/ AcceptFails \/ AcceptAgain \/ TurnAway \/ Reopen
    \/ \E c \in Ids :
           \/ Shutdown(c) \/ Send(c) \/ handleWrite(c) \/ HalfClosed(c) \/ handleClose(c)
           \/ \E how \in {"fin", "rst"} : HangUp(c, how)
    \/ RunBase
    \/ \E l \in SubLoops : Swap(l) \/ RunFunctor(l) \/ EndIteration(l) \/ QuitLoop(l)
    \/ Destroy \/ Posted \/ Joined \/ \E name \in DOMAIN connections_ : Post(name)
    \/ \E p \in Peers : Connect(p)
    \/ \E i \in DOMAIN waiting : GiveUp(i)
    \/ OpenOther \/ CloseOther

Spec == Init /\ [][Next]_vars

\* Every loop thread keeps running: it polls, runs its functors and ends; the end of a stream
\* is reported again until the connection is closed (handleClose is enabled only without
\* output). Nothing is assumed of output: the peer may never read it.
Fairness ==
    /\ SF_vars(RunBase) /\ WF_vars(Accept \/ AcceptFails) /\ WF_vars(AcceptAgain \/ TurnAway \/ Reopen)
    /\ \A l \in SubLoops : WF_vars(Swap(l) \/ RunFunctor(l) \/ EndIteration(l))
    /\ \A c \in 1..MaxConns : SF_vars(c \in Ids /\ handleClose(c))

FairSpec == Spec /\ Fairness

(***************************************************************************)
(* Properties.                                                             *)
(***************************************************************************)
Mapped(c) == conns[c].name \in DOMAIN connections_ /\ connections_[conns[c].name] = c

\* connections_ holds exactly the connections that are not closed or whose removal is still
\* queued, each under its own name; what is destroyed had its channel removed exactly once,
\* on its own loop, although accept, close and removal run in different threads.
MapExact ==
    server = "up" /\ failures = {} =>
        \A c \in Ids :
            /\ Mapped(c) <=> (conns[c].state # "kDisconnected" \/ <<"remove", c>> \in Range(base))
            /\ conns[c].freed => conns[c].state = "kDisconnected" /\ conns[c].removed = 1

\* The asserts of connectEstablished(), removeConnectionInLoop(), Channel::remove(), ~Channel()
\* and ~TcpConnection() hold and the server is not used after its destruction, except:
\* ~TcpServer() quits a sub-loop before it ran connectDestroyed(), of an open connection
\* (~TcpConnection) or of a closed one (~Channel); it meets a connection in kDisconnecting; a
\* removal queued by a sub-loop runs after it; or, in a server without sub-loops, a client that
\* reset its connection comes back from the same address before the reset is handled.
OnlyKnownFailures ==
    \A f \in failures :
        LET c == conns[f.conn]
        IN  CASE f.at = "~TcpConnection" ->
                     \/ server = "joining" /\ c.loop # Base /\ c.removed = 0
                     \/ /\ threadNum_ = 0 /\ c.hup = "rst"
                        /\ \E d \in Ids : d > f.conn /\ conns[d].name = c.name
              [] f.at = "~Channel" -> server = "joining" /\ c.loop # Base /\ c.removed = 0
              [] f.at = "Channel::remove" -> server # "up" /\ c.state = "kDisconnecting"
              [] f.at = "server" -> c.loop # Base
              [] OTHER -> FALSE

\* After handleRead() the reserved descriptor is open again, even if the waiting peer gave up
\* in between, unless another part of the process took a descriptor meanwhile.
IdleFdKept == acceptor = "idle" /\ ~stolen => idleFd_

Ended == server \notin {"new", "up"} \/ failures # {}

\* A connection whose peer hung up is closed, erased and destroyed, so that its descriptor
\* comes back, unless from some point on its output is never empty: then handleRead() does not
\* close it, and after a reset, or with a peer that does not read, nothing ever will.
HungUpIsFreed ==
    \A c \in 1..MaxConns :
        (c \in Ids /\ conns[c].hup # "no") ~>
            ((c \in Ids /\ conns[c].freed) \/ Ended \/ [](c \in Ids /\ conns[c].output))

\* A waiting peer is accepted or turned away, also when the process has no descriptor left, as
\* long as the reserved one was never lost.
WaitingIsServed == \A p \in Peers : p \in Range(waiting) ~> (p \notin Range(waiting) \/ stolen \/ Ended)

=============================================================================

