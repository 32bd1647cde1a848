--------------------------- MODULE TcpClientProofs ---------------------------
(***************************************************************************)
(* Proofs, for any number of attempts and of calls: every open socket has  *)
(* exactly one owner, an attempt has one outcome, which is its own, and    *)
(* the asserts of the client, the Connector and a connection fail, and the *)
(* destroyed Connector is used, in the known cases only.                   *)
(*                                                                         *)
(* The handlers are functions of the whole state, so each part first says  *)
(* what they do to it, then that they keep the part's invariant, then      *)
(* that every action does.                                                 *)
(***************************************************************************)
EXTENDS TcpClient, TLAPS

Fields == {"client", "state_", "sockfd_", "channel_", "timeoutId_", "connection_", "conn", "open",
           "kern", "armed", "made", "pending", "todo", "outcomes"}
Names == {"handleError", "handleWrite", "handleTimeout", "handleRead", "closeCallback",
          "forceCloseInLoop", "connectDestroyed", "doomed", "disconnect", "stop", "connect", "user"}

(***************************************************************************)
(* The invariant, of a record of the whole state.                          *)
(***************************************************************************)
\* A TcpConnection that exists.
LiveConn(r) == r = [x \in {"state", "removed", "closeCallback"} |-> r[x]] /\ r.state # "none"

\* The sockets that have one.
Live(c) == {s \in Sockets : c[s] # NoConn}

\* What may be in a queue when the sockets of live have a connection: what holds a connection
\* holds an existing one.  An event of a connection's channel has the connection's socket.
Entry(live) ==
    {e \in Names \X (0..MaxAttempts) :
        /\ e[1] \in Holders => e[2] \in live \/ (e[1] = "user" /\ e[2] = 0)
        /\ e[1] = "handleRead" => e[2] \in Sockets}

Conns(c) == c = [s \in Sockets |-> c[s]] /\ \A s \in Sockets : c[s] = NoConn \/ LiveConn(c[s])

Owned(w) ==
    /\ w = [x \in Fields |-> w[x]]
    /\ w.made \in 0..MaxAttempts /\ w.channel_ \in 0..MaxAttempts /\ w.armed \in 0..MaxAttempts
    /\ Conns(w.conn) /\ Live(w.conn) \subseteq 1..w.made
    /\ w.sockfd_ \in 0..w.made /\ w.sockfd_ \notin Live(w.conn)
    /\ w.open = Live(w.conn) \cup ({w.sockfd_} \ {0})
    /\ w.connection_ \in Live(w.conn) \cup {0}
    /\ w.pending \in Seq(Entry(Live(w.conn))) /\ w.todo \in Seq(Entry(Live(w.conn)))

\* The Connector has a socket exactly while it is connecting.
Good(w) == Owned(w) /\ (w.state_ = "kConnecting" <=> w.sockfd_ # 0)

Inv == Running => Good(Whole)

\* v and w agree on what the handlers look at.
Same(v, w) ==
    /\ v.state_ = w.state_ /\ v.sockfd_ = w.sockfd_ /\ v.made = w.made
    /\ v.conn = w.conn /\ v.connection_ = w.connection_

(***************************************************************************)
(* The handlers' parts.                                                    *)
(***************************************************************************)
\* Setting the Connector's state changes no owner.
LEMMA StateKeeps ==
    ASSUME NEW w, Owned(w), NEW x
    PROVE  LET v == [w EXCEPT !.state_ = x]
           IN  /\ Owned(v) /\ v.state_ = x /\ v.sockfd_ = w.sockfd_ /\ v.made = w.made
               /\ v.conn = w.conn /\ v.connection_ = w.connection_
  BY Zenon DEF Owned, Fields

\* Neither does cancelling the deadline ...
LEMMA CancelKeeps ==
    ASSUME NEW w, Owned(w)
    PROVE  Owned(cancelTimeout(w)) /\ Same(cancelTimeout(w), w)
  <1> DEFINE x == IF w.timeoutId_ # 0 /\ w.armed = w.timeoutId_ THEN 0 ELSE w.armed
             u == [w EXCEPT !.armed = x]
             v == [u EXCEPT !.timeoutId_ = 0]
  <1>1. x \in 0..MaxAttempts
    BY TcpClientAssumption DEF Owned
  <1>2. cancelTimeout(w) = v
    BY DEF cancelTimeout
  <1> HIDE DEF x
  <1>3. Owned(u) /\ Same(u, w)
    BY <1>1, Zenon DEF Owned, Fields, Same
  <1> HIDE DEF u
  <1>4. Owned(v) /\ Same(v, w)
    BY <1>3, Zenon DEF Owned, Fields, Same
  <1> QED
    BY <1>2, <1>4

\* ... recording an outcome ...
LEMMA OutcomeKeeps ==
    ASSUME NEW w, Owned(w), NEW result, NEW cause
    PROVE  Owned(Outcome(w, result, cause)) /\ Same(Outcome(w, result, cause), w)
  BY Zenon DEF Outcome, Owned, Fields, Same

\* ... posting what holds an existing connection or none ...
LEMMA QueueKeeps ==
    ASSUME NEW w, Owned(w), NEW f, NEW s, <<f, s>> \in Entry(Live(w.conn))
    PROVE  Owned(queueInLoop(w, f, s)) /\ Same(queueInLoop(w, f, s), w)
  <1>1. Append(w.pending, <<f, s>>) \in Seq(Entry(Live(w.conn)))
    BY DEF Owned
  <1> QED
    BY <1>1, Zenon DEF queueInLoop, Owned, Fields, Same

\* ... or doing it next, as a callback.
LEMMA TodoKeeps ==
    ASSUME NEW w, Owned(w), NEW e \in Entry(Live(w.conn))
    PROVE  LET v == [w EXCEPT !.todo = <<e>> \o @] IN Owned(v) /\ Same(v, w)
  <1>1. <<e>> \o w.todo \in Seq(Entry(Live(w.conn)))
    BY DEF Owned
  <1> QED
    BY <1>1, Zenon DEF Owned, Fields, Same

\* A callback of the application holds the connection it is given, if any.
LEMMA CallbackKeeps ==
    ASSUME NEW w, Owned(w), NEW s \in Live(w.conn) \cup {0}
    PROVE  Owned(Callback(w, s)) /\ Same(Callback(w, s), w)
  <1>1. <<"user", s>> \in Entry(Live(w.conn))
    BY TcpClientAssumption DEF Entry, Live, Names, Sockets
  <1> QED
    BY <1>1, TodoKeeps DEF Callback

\* The queued functor that ends the channel holds no connection.
LEMMA RemoveChannelKeeps ==
    ASSUME NEW w, Owned(w)
    PROVE  Owned(removeChannel(w)) /\ Same(removeChannel(w), w)
  <1> DEFINE v == [w EXCEPT !.channel_ = 0]
  <1>0. 0 \in 0..MaxAttempts
    BY TcpClientAssumption
  <1>1. Owned(v) /\ Same(v, w)
    BY <1>0, Zenon DEF Owned, Fields, Same
  <1>2. <<"doomed", w.channel_>> \in Entry(Live(v.conn))
    BY <1>1 DEF Owned, Entry, Names, Holders
  <1> HIDE DEF v
  <1>3. Owned(queueInLoop(v, "doomed", w.channel_)) /\ Same(queueInLoop(v, "doomed", w.channel_), w)
    BY <1>1, <1>2, QueueKeeps DEF Same
  <1> QED
    BY <1>3 DEF removeChannel, v, Same

\* The Connector lets go of its socket by closing it.
LEMMA CloseKeeps ==
    ASSUME NEW w, Owned(w)
    PROVE  /\ Owned(closeSockfd(w)) /\ closeSockfd(w).sockfd_ = 0
           /\ closeSockfd(w).state_ = w.state_ /\ closeSockfd(w).made = w.made
           /\ closeSockfd(w).conn = w.conn /\ closeSockfd(w).connection_ = w.connection_
  <1>1. 0 \notin Live(w.conn)
    BY DEF Live, Sockets
  <1>2. 0 \in 0..w.made
    BY DEF Owned
  <1> QED
    BY <1>1, <1>2, Zenon DEF closeSockfd, Owned, Fields

\* After the Connector's cleanup it has no socket, and no connection has changed.
LEMMA CleanUpKeeps ==
    ASSUME NEW w, Owned(w)
    PROVE  /\ Owned(CleanUp(w)) /\ CleanUp(w).sockfd_ = 0
           /\ CleanUp(w).state_ = w.state_ /\ CleanUp(w).made = w.made
           /\ CleanUp(w).conn = w.conn /\ CleanUp(w).connection_ = w.connection_
  <1> DEFINE u == cancelTimeout(w)
             v == removeChannel(u)
  <1>1. Owned(u) /\ Same(u, w)
    BY CancelKeeps
  <1> HIDE DEF u
  <1>2. Owned(v) /\ Same(v, w)
    BY <1>1, RemoveChannelKeeps DEF Same
  <1> HIDE DEF v
  <1>3. CleanUp(w) = closeSockfd(v)
    BY DEF CleanUp, u, v
  <1> QED
    BY <1>2, <1>3, CloseKeeps DEF Same

\* An attempt that fails, at whatever point, leaves no socket behind.
LEMMA FailKeeps ==
    ASSUME NEW w, Owned(w), NEW result, NEW cause
    PROVE  Good(fail(w, result, cause))
  <1> DEFINE u == [w EXCEPT !.state_ = "kFailed"]
             c == CleanUp(u)
             o == Outcome(c, result, cause)
  <1>1. Owned(u) /\ u.state_ = "kFailed"
    BY StateKeeps
  <1> HIDE DEF u
  <1>2. Owned(c) /\ c.state_ = "kFailed" /\ c.sockfd_ = 0
    BY <1>1, CleanUpKeeps
  <1> HIDE DEF c
  <1>3. Owned(o) /\ o.state_ = "kFailed" /\ o.sockfd_ = 0
    BY <1>2, OutcomeKeeps DEF Same
  <1> HIDE DEF o
  <1>4. Owned(Callback(o, 0)) /\ Same(Callback(o, 0), o)
    BY <1>3, CallbackKeeps
  <1>5. fail(w, result, cause) = Callback(o, 0)
    BY DEF fail, u, c, o
  <1> QED
    BY <1>3, <1>4, <1>5 DEF Good, Same

(***************************************************************************)
(* The Connector.                                                          *)
(***************************************************************************)
\* A new attempt opens a socket of its own; one that fails closes it again.
LEMMA ConnectKeeps ==
    ASSUME NEW w, Owned(w), w.sockfd_ = 0, w.state_ = "kConnecting", w.made < MaxAttempts,
           NEW how \in {"EMFILE", "ENETUNREACH", "EINPROGRESS"}
    PROVE  Good(connect(w, how))
  <1> DEFINE a == w.made + 1
             m == [w EXCEPT !.made = a]
             f == [m EXCEPT !.sockfd_ = a]
             c == [f EXCEPT !.channel_ = a]
             o == [c EXCEPT !.open = w.open \cup {a}]
             t == [o EXCEPT !.timeoutId_ = a]
             d == [t EXCEPT !.armed = a]
  <1>0. w.made \in 0..MaxAttempts /\ Live(w.conn) \subseteq 1..w.made
    BY Zenon DEF Owned
  <1>1. a \in 1..MaxAttempts /\ a \notin Live(w.conn) /\ 1..w.made \subseteq 1..a
    BY <1>0, TcpClientAssumption
  <1>2. Live(w.conn) \subseteq 1..a /\ 0 \in 0..a /\ a \in 0..a /\ a \in 0..MaxAttempts /\ a # 0
    BY <1>0, <1>1, TcpClientAssumption
  <1>3. CASE how = "EMFILE"
    <2> HIDE DEF a
    <2>1. Owned(m)
      BY <1>2, Zenon DEF Owned, Fields
    <2>2. connect(w, how) = fail(m, how, a)
      BY <1>3 DEF connect, a
    <2> QED
      BY <2>1, <2>2, FailKeeps
  <1>4. Owned(o) /\ o.sockfd_ = a /\ o.state_ = "kConnecting"
    <2> HIDE DEF a
    <2>1. /\ o = [x \in Fields |-> o[x]] /\ o.made = a /\ o.channel_ = a /\ o.sockfd_ = a
          /\ o.open = w.open \cup {a} /\ o.state_ = w.state_ /\ o.conn = w.conn
          /\ o.armed = w.armed /\ o.connection_ = w.connection_
          /\ o.pending = w.pending /\ o.todo = w.todo
      BY Zenon DEF Owned, Fields
    <2> HIDE DEF o
    <2>2. o.open = Live(w.conn) \cup ({a} \ {0})
      BY <2>1, <1>2, Zenon DEF Owned
    <2> QED
      BY <1>1, <1>2, <2>1, <2>2, Zenon DEF Owned
  <1>5. CASE how = "ENETUNREACH"
    <2>1. connect(w, how) = fail(o, how, a)
      BY <1>5 DEF connect
    <2> HIDE DEF o, a
    <2> QED
      BY <1>4, <2>1, FailKeeps
  <1>6. CASE how = "EINPROGRESS"
    <2>1. connect(w, how) = d
      BY <1>6 DEF connect
    <2> HIDE DEF o, a
    <2>2. Owned(t) /\ t.sockfd_ = a /\ t.state_ = "kConnecting"
      BY <1>4, Zenon DEF Owned, Fields
    <2> HIDE DEF t
    <2>3. Owned(d) /\ d.sockfd_ = a /\ d.state_ = "kConnecting"
      BY <2>2, <1>2, Zenon DEF Owned, Fields
    <2> QED
      BY <2>1, <2>3, <1>2 DEF Good
  <1> QED
    BY <1>3, <1>5, <1>6

\* start() opens a socket only when the Connector has none.
LEMMA StartKeeps ==
    ASSUME NEW w, Good(w), w.made < MaxAttempts,
           NEW how \in {"EMFILE", "ENETUNREACH", "EINPROGRESS"}
    PROVE  Good(startInLoop(w, how))
  <1> DEFINE v == [w EXCEPT !.state_ = "kConnecting"]
  <1>1. CASE w.state_ \in {"kConnecting", "kConnected"}
    BY <1>1 DEF startInLoop
  <1>2. CASE w.state_ \notin {"kConnecting", "kConnected"}
    <2>1. w.sockfd_ = 0
      BY <1>2 DEF Good
    <2>2. Owned(v) /\ v.state_ = "kConnecting" /\ v.sockfd_ = 0 /\ v.made = w.made
      BY <2>1, StateKeeps DEF Good
    <2> HIDE DEF v
    <2>3. Good(connect(v, how))
      BY <2>2, ConnectKeeps
    <2> QED
      BY <1>2, <2>3 DEF startInLoop, v
  <1> QED
    BY <1>1, <1>2

\* stop() leaves the Connector without a socket and every connection as it is.
LEMMA StopKeeps ==
    ASSUME NEW w, Good(w)
    PROVE  /\ Good(stopInLoop(w)) /\ stopInLoop(w).conn = w.conn
           /\ stopInLoop(w).connection_ = w.connection_ /\ stopInLoop(w).state_ # "kConnecting"
  <1> DEFINE v == [w EXCEPT !.state_ = "kDisconnected"]
             o == Outcome(v, "stopped", w.made)
  <1>1. /\ Owned(v) /\ v.state_ = "kDisconnected" /\ v.sockfd_ = w.sockfd_
        /\ v.conn = w.conn /\ v.connection_ = w.connection_
    BY StateKeeps DEF Good
  <1>2. CASE w.state_ = "kConnecting"
    <2>0. stopInLoop(w) = CleanUp(o)
      BY <1>2 DEF stopInLoop
    <2> HIDE DEF v
    <2>1. Owned(o) /\ Same(o, v)
      BY <1>1, OutcomeKeeps
    <2> HIDE DEF o
    <2>2. /\ Owned(CleanUp(o)) /\ CleanUp(o).sockfd_ = 0 /\ CleanUp(o).state_ = "kDisconnected"
          /\ CleanUp(o).conn = w.conn /\ CleanUp(o).connection_ = w.connection_
      BY <1>1, <2>1, CleanUpKeeps DEF Same
    <2> QED
      BY <2>0, <2>2 DEF Good
  <1>3. CASE w.state_ = "kFailed"
    <2>1. stopInLoop(w) = v
      BY <1>3 DEF stopInLoop
    <2> HIDE DEF v
    <2>2. w.sockfd_ = 0
      BY <1>3 DEF Good
    <2> QED
      BY <1>1, <2>1, <2>2 DEF Good
  <1>4. CASE w.state_ \notin {"kConnecting", "kFailed"}
    BY <1>4 DEF stopInLoop
  <1> QED
    BY <1>2, <1>3, <1>4

(***************************************************************************)
(* Connections.                                                            *)
(***************************************************************************)
\* The whole with the record r of connection s.
SetConn(w, s, r) == [w EXCEPT !.conn[s] = r]

\* A connection that changes and still exists has the same owner.
LEMMA ConnKeeps ==
    ASSUME NEW w, Owned(w), NEW s \in Live(w.conn), NEW r, LiveConn(r)
    PROVE  /\ Owned(SetConn(w, s, r)) /\ Live(SetConn(w, s, r).conn) = Live(w.conn)
           /\ SetConn(w, s, r).state_ = w.state_ /\ SetConn(w, s, r).sockfd_ = w.sockfd_
  <1> DEFINE c == [w.conn EXCEPT ![s] = r]
             v == SetConn(w, s, r)
  <1>0. Conns(w.conn) /\ s \in Sockets /\ w.conn[s] # NoConn
    BY DEF Owned, Live
  <1>1. r # NoConn
    BY DEF LiveConn, NoConn
  <1>2. Conns(c) /\ Live(c) = Live(w.conn) /\ c[s] = r
    BY <1>0, <1>1 DEF Conns, Live
  <1>3. v = [w EXCEPT !.conn = c]
    BY DEF SetConn
  <1> HIDE DEF c, v
  <1>4. /\ v = [x \in Fields |-> v[x]] /\ v.conn = c
        /\ \A x \in Fields \ {"conn"} : v[x] = w[x]
    BY <1>3, Zenon DEF Owned, Fields
  <1>5. /\ v.made = w.made /\ v.channel_ = w.channel_ /\ v.armed = w.armed /\ v.sockfd_ = w.sockfd_
        /\ v.open = w.open /\ v.connection_ = w.connection_ /\ v.pending = w.pending
        /\ v.todo = w.todo /\ v.state_ = w.state_
    BY <1>4 DEF Fields
  <1>6. Owned(v)
    BY <1>2, <1>4, <1>5, Zenon DEF Owned
  <1> QED
    BY <1>2, <1>4, <1>5, <1>6 DEF v

\* A connection that exists has a record.
LEMMA LiveIs ==
    ASSUME NEW w, Owned(w), NEW s \in Live(w.conn)
    PROVE  LiveConn(w.conn[s]) /\ s \in Sockets /\ w.conn[s] # NoConn
  BY Zenon DEF Owned, Conns, Live

\* Assigning a field of a connection's record keeps the connection in existence.
LEMMA LiveConnKeeps ==
    ASSUME NEW r, LiveConn(r), NEW x, x # "none", NEW b
    PROVE  /\ LiveConn([r EXCEPT !.state = x])
           /\ LiveConn([r EXCEPT !.removed = b])
           /\ LiveConn([r EXCEPT !.closeCallback = b])
           /\ [r EXCEPT !.state = x].state = x
           /\ [r EXCEPT !.closeCallback = b].state = r.state
  BY DEF LiveConn

\* The state of a connection that exists is assigned.
LEMMA ConnStateKeeps ==
    ASSUME NEW w, Owned(w), NEW s \in Live(w.conn), NEW x, x # "none"
    PROVE  LET v == [w EXCEPT !.conn[s].state = x]
           IN  /\ Owned(v) /\ Live(v.conn) = Live(w.conn)
               /\ v.state_ = w.state_ /\ v.sockfd_ = w.sockfd_
  <1> DEFINE r == [w.conn[s] EXCEPT !.state = x]
             v == [w EXCEPT !.conn[s].state = x]
  <1>1. LiveConn(r)
    BY LiveIs, LiveConnKeeps, Zenon
  <1>2. v = SetConn(w, s, r)
    BY DEF SetConn
  <1> HIDE DEF r, v
  <1>3. Owned(v) /\ Live(v.conn) = Live(w.conn) /\ v.state_ = w.state_ /\ v.sockfd_ = w.sockfd_
    BY <1>1, <1>2, ConnKeeps
  <1> QED
    BY <1>3 DEF v

\* forceClose() posts a functor that holds the connection.
LEMMA ForceCloseKeeps ==
    ASSUME NEW w, Good(w), NEW s \in Live(w.conn)
    PROVE  Good(forceClose(w, s))
  <1> DEFINE v == [w EXCEPT !.conn[s].state = "kDisconnecting"]
  <1>1. /\ Owned(v) /\ Live(v.conn) = Live(w.conn)
        /\ v.state_ = w.state_ /\ v.sockfd_ = w.sockfd_
    BY ConnStateKeeps DEF Good
  <1> HIDE DEF v
  <1>2. <<"forceCloseInLoop", s>> \in Entry(Live(v.conn))
    BY <1>1, LiveIs, TcpClientAssumption DEF Good, Entry, Names, Sockets
  <1>3. /\ Owned(queueInLoop(v, "forceCloseInLoop", s))
        /\ Same(queueInLoop(v, "forceCloseInLoop", s), v)
    BY <1>1, <1>2, QueueKeeps
  <1>4. Good(queueInLoop(v, "forceCloseInLoop", s))
    BY <1>1, <1>3 DEF Same, Good
  <1> QED
    BY <1>4 DEF forceClose, v

\* handleClose() runs two callbacks, which hold the connection.
LEMMA HandleCloseKeeps ==
    ASSUME NEW w, Good(w), NEW s \in Live(w.conn)
    PROVE  Good(handleClose(w, s))
  <1> DEFINE v == [w EXCEPT !.conn[s].state = "kDisconnected"]
             u == [v EXCEPT !.todo = <<<<"closeCallback", s>>>> \o @]
  <1>1. /\ Owned(v) /\ Live(v.conn) = Live(w.conn)
        /\ v.state_ = w.state_ /\ v.sockfd_ = w.sockfd_
    BY ConnStateKeeps DEF Good
  <1>2. handleClose(w, s) = Callback(u, s)
    BY DEF handleClose
  <1> HIDE DEF v
  <1>3. <<"closeCallback", s>> \in Entry(Live(v.conn))
    BY <1>1, LiveIs, TcpClientAssumption DEF Good, Entry, Names, Sockets
  <1>4. Owned(u) /\ Same(u, v)
    BY <1>1, <1>3, TodoKeeps
  <1> HIDE DEF u
  <1>5. Owned(Callback(u, s)) /\ Same(Callback(u, s), u)
    BY <1>1, <1>4, CallbackKeeps DEF Same
  <1> QED
    BY <1>1, <1>2, <1>4, <1>5 DEF Same, Good

\* connectDestroyed() leaves the connection to whoever still holds it.
LEMMA DestroyedKeeps ==
    ASSUME NEW w, Good(w), NEW s \in Live(w.conn)
    PROVE  Good(connectDestroyed(w, s))
  <1> DEFINE x == IF w.conn[s].state = "kConnected" THEN "kDisconnected" ELSE w.conn[s].state
             q == [w.conn[s] EXCEPT !.state = x]
             r == [q EXCEPT !.removed = TRUE]
             v == SetConn(w, s, r)
  <1>1. LiveConn(w.conn[s]) /\ w.conn[s].state # "none" /\ s \in Sockets
    BY LiveIs DEF Good, LiveConn
  <1>2. connectDestroyed(w, s) = v
    BY <1>1, Zenon DEF connectDestroyed, SetConn, Good, Owned, Fields, Conns
  <1>3. x # "none"
    BY <1>1
  <1> HIDE DEF x
  <1>4. LiveConn(q)
    BY <1>1, <1>3, LiveConnKeeps, Zenon
  <1> HIDE DEF q
  <1>5. LiveConn(r)
    BY <1>4, LiveConnKeeps, Zenon
  <1> HIDE DEF r
  <1>6. Owned(v) /\ v.state_ = w.state_ /\ v.sockfd_ = w.sockfd_
    BY <1>5, ConnKeeps DEF Good
  <1> QED
    BY <1>2, <1>6 DEF Good

\* The client gives its connection up to the functor that tears it down.
LEMMA RemoveConnectionKeeps ==
    ASSUME NEW w, Good(w), NEW s \in Live(w.conn)
    PROVE  Good(removeConnection(w, s))
  <1> DEFINE x == IF w.connection_ = s THEN 0 ELSE w.connection_
             v == [w EXCEPT !.connection_ = x]
  <1>1. removeConnection(w, s) = queueInLoop(v, "connectDestroyed", s)
    BY DEF removeConnection
  <1>2. x \in Live(w.conn) \cup {0}
    BY DEF Good, Owned
  <1> HIDE DEF x
  <1>3. Owned(v) /\ v.conn = w.conn /\ v.state_ = w.state_ /\ v.sockfd_ = w.sockfd_
    BY <1>2, Zenon DEF Good, Owned, Fields
  <1> HIDE DEF v
  <1>4. <<"connectDestroyed", s>> \in Entry(Live(v.conn))
    BY <1>3, LiveIs, TcpClientAssumption DEF Good, Entry, Names, Sockets
  <1>5. /\ Owned(queueInLoop(v, "connectDestroyed", s))
        /\ Same(queueInLoop(v, "connectDestroyed", s), v)
    BY <1>3, <1>4, QueueKeeps
  <1> QED
    BY <1>1, <1>3, <1>5 DEF Same, Good

\* A larger set of connections allows more in the queues.
LEMMA EntryGrows ==
    ASSUME NEW L, NEW M, L \subseteq M, NEW q \in Seq(Entry(L))
    PROVE  q \in Seq(Entry(M))
  <1>1. Entry(L) \subseteq Entry(M)
    BY Zenon DEF Entry
  <1> QED
    BY <1>1

\* The Connector hands its socket over to a new connection.
LEMMA NewConnectionKeeps ==
    ASSUME NEW w, Owned(w), w.sockfd_ # 0,
           NEW v, v = newConnection([w EXCEPT !.sockfd_ = 0, !.state_ = "kConnected"], w.sockfd_)
    PROVE  Good(v)
  <1> DEFINE s == w.sockfd_
             r == [state |-> "kConnected", removed |-> FALSE, closeCallback |-> TRUE]
             c == [w.conn EXCEPT ![s] = r]
             a == [w EXCEPT !.sockfd_ = 0]
             b == [a EXCEPT !.state_ = "kConnected"]
             d == [b EXCEPT !.connection_ = s]
             e == [d EXCEPT !.conn = c]
  <1>1. LiveConn(r) /\ r # NoConn
    BY DEF LiveConn, NoConn
  <1>2. /\ e = [x \in Fields |-> e[x]] /\ e.conn = c /\ e.sockfd_ = 0 /\ e.state_ = "kConnected"
        /\ e.connection_ = s /\ e.made = w.made /\ e.channel_ = w.channel_ /\ e.armed = w.armed
        /\ e.open = w.open /\ e.pending = w.pending /\ e.todo = w.todo
    <2> HIDE DEF r, c, s
    <2> QED
      BY Zenon DEF Owned, Fields
  <1>3. v = Callback(e, s)
    <2>1. b.conn = w.conn
      BY DEF Owned, Fields
    <2> HIDE DEF r
    <2>2. newConnection(b, s) = Callback(e, s)
      BY <2>1 DEF newConnection, r
    <2> QED
      BY <2>2
  <1>4. s \in Sockets /\ w.made \in 0..MaxAttempts /\ s \in 1..w.made
    BY TcpClientAssumption DEF Owned, Sockets
  <1> HIDE DEF r, e
  <1>5. Conns(c) /\ Live(c) = Live(w.conn) \cup {s}
    BY <1>1, <1>4, Zenon DEF Owned, Conns, Live
  <1> HIDE DEF c, s
  <1>6. w.pending \in Seq(Entry(Live(c))) /\ w.todo \in Seq(Entry(Live(c)))
    BY <1>5, EntryGrows DEF Owned
  <1>7. /\ Live(c) \subseteq 1..w.made /\ 0 \in 0..w.made /\ 0 \notin Live(c)
        /\ w.open = Live(c) /\ s \in Live(c)
    <2>1. 0 \notin Live(c)
      BY DEF Live, Sockets
    <2>2. 0 \in 0..w.made /\ s \in Live(c)
      BY <1>4, <1>5
    <2>3. Live(c) \subseteq 1..w.made
      BY <1>4, <1>5 DEF Owned
    <2>4. w.open = Live(c)
      <3>1. s # 0 /\ w.open = Live(w.conn) \cup ({s} \ {0})
        BY Zenon DEF Owned, s
      <3> QED
        BY <1>5, <3>1
    <2> QED
      BY <2>1, <2>2, <2>3, <2>4
  <1>8. Owned(e)
    <2>1. e.open = Live(e.conn) \cup ({e.sockfd_} \ {0})
      BY <1>2, <1>7
    <2>2. e.made \in 0..MaxAttempts /\ e.channel_ \in 0..MaxAttempts /\ e.armed \in 0..MaxAttempts
      BY <1>2, Zenon DEF Owned
    <2>3. /\ Conns(e.conn) /\ Live(e.conn) \subseteq 1..e.made
          /\ e.sockfd_ \in 0..e.made /\ e.sockfd_ \notin Live(e.conn)
      BY <1>2, <1>5, <1>7, Zenon
    <2>4. e.connection_ \in Live(e.conn) \cup {0}
      BY <1>2, <1>7, Zenon
    <2>5. e.pending \in Seq(Entry(Live(e.conn))) /\ e.todo \in Seq(Entry(Live(e.conn)))
      BY <1>2, <1>6, Zenon
    <2>6. e = [x \in Fields |-> e[x]]
      BY <1>2, Zenon
    <2> QED
      BY <2>1, <2>2, <2>3, <2>4, <2>5, <2>6, Zenon DEF Owned
  <1>9. Owned(Callback(e, s)) /\ Same(Callback(e, s), e)
    BY <1>2, <1>7, <1>8, CallbackKeeps
  <1> QED
    BY <1>2, <1>3, <1>9 DEF Same, Good

\* A completed attempt hands over the Connector's socket once.
LEMMA FinishKeeps ==
    ASSUME NEW w, Good(w), w.state_ = "kConnecting", NEW cause
    PROVE  Good(finishConnect(w, cause))
  <1> DEFINE u == cancelTimeout(w)
             v == removeChannel(u)
             d == Outcome(v, w.kern[w.sockfd_], cause)
  <1>1. Owned(u) /\ Same(u, w)
    BY CancelKeeps DEF Good
  <1>2. finishConnect(w, cause) =
            newConnection([d EXCEPT !.sockfd_ = 0, !.state_ = "kConnected"], w.sockfd_)
    BY DEF finishConnect
  <1> HIDE DEF u
  <1>3. Owned(v) /\ Same(v, w)
    BY <1>1, RemoveChannelKeeps DEF Same
  <1> HIDE DEF v
  <1>4. Owned(d) /\ Same(d, w)
    BY <1>3, OutcomeKeeps DEF Same
  <1> HIDE DEF d
  <1>5. d.sockfd_ = w.sockfd_ /\ d.sockfd_ # 0
    BY <1>4 DEF Same, Good
  <1> QED
    BY <1>2, <1>4, <1>5, NewConnectionKeeps, Zenon

(***************************************************************************)
(* The client's operations and the Connector's handlers.                   *)
(***************************************************************************)
\* The Connector's handlers act only while it has a socket.
LEMMA HandlersKeep ==
    ASSUME NEW w, Good(w), NEW cause
    PROVE  /\ Good(handleError(w, cause)) /\ Good(handleWrite(w, cause))
           /\ Good(handleTimeout(w, cause))
  BY FailKeeps, FinishKeeps DEF handleError, handleWrite, handleTimeout, Good

\* disconnect() shuts the connection down, or stops the attempt.
LEMMA DisconnectKeeps ==
    ASSUME NEW w, Good(w)
    PROVE  Good(disconnect(w))
  <1> DEFINE s == w.connection_
             x == IF w.conn[s].state = "kConnected" THEN "kDisconnecting" ELSE w.conn[s].state
             v == [w EXCEPT !.conn[s].state = x]
  <1>1. CASE s = 0
    BY <1>1, StopKeeps DEF disconnect
  <1>2. CASE s # 0
    <2>1. s \in Live(w.conn)
      BY <1>2 DEF Good, Owned
    <2>2. x # "none"
      BY <2>1, LiveIs, Zenon DEF Good, LiveConn
    <2>3. disconnect(w) = v
      BY <1>2 DEF disconnect
    <2> HIDE DEF x, s
    <2>4. Owned(v) /\ v.state_ = w.state_ /\ v.sockfd_ = w.sockfd_
      BY <2>1, <2>2, ConnStateKeeps, Zenon DEF Good
    <2> HIDE DEF v
    <2> QED
      BY <2>3, <2>4 DEF Good
  <1> QED
    BY <1>1, <1>2

\* stop() of the client stops the attempt and closes the connection.
LEMMA StopCallKeeps ==
    ASSUME NEW w, Good(w)
    PROVE  Good(stop(w))
  <1> DEFINE v == stopInLoop(w)
  <1>1. Good(v) /\ v.conn = w.conn
    BY StopKeeps
  <1>2. w.connection_ # 0 => w.connection_ \in Live(w.conn)
    BY DEF Good, Owned
  <1> HIDE DEF v
  <1>3. w.connection_ # 0 => Good(forceClose(v, w.connection_))
    BY <1>1, <1>2, ForceCloseKeeps
  <1> QED
    BY <1>1, <1>3 DEF stop, v

\* The destructors leave the connection to what is posted, and the Connector without a socket.
LEMMA DestroyKeeps ==
    ASSUME NEW w, Good(w)
    PROVE  Good(destroy(w))
  <1> DEFINE s == w.connection_
             v == stopInLoop(w)
             c == [v EXCEPT !.client = FALSE]
             g == [c EXCEPT !.connection_ = 0]
             r == [g.conn[s] EXCEPT !.closeCallback = FALSE]
             m == SetConn(g, s, r)
  <1>1. Good(v) /\ v.conn = w.conn /\ v.connection_ = s /\ v.state_ # "kConnecting"
    BY StopKeeps
  <1>2. /\ destroy(w) = IF s = 0 THEN CleanUp(g)
                        ELSE IF w.conn[s].state = "kConnected" THEN connectDestroyed(m, s)
                        ELSE forceClose(m, s)
    BY DEF destroy, SetConn
  <1> HIDE DEF v
  <1>3. Good(g) /\ g.conn = w.conn /\ g.state_ # "kConnecting"
    BY <1>1, Zenon DEF Good, Owned, Fields
  <1> HIDE DEF g
  <1>4. CASE s = 0
    <2>1. Good(CleanUp(g))
      <3>1. /\ Owned(CleanUp(g)) /\ CleanUp(g).sockfd_ = 0 /\ CleanUp(g).state_ = g.state_
        BY <1>3, CleanUpKeeps DEF Good
      <3> QED
        BY <1>3, <3>1 DEF Good
    <2> QED
      BY <1>2, <1>4, <2>1
  <1>5. CASE s # 0
    <2>1. s \in Live(g.conn)
      BY <1>3, <1>5 DEF Good, Owned
    <2>2. LiveConn(r)
      <3>1. LiveConn(g.conn[s])
        BY <1>3, <2>1, LiveIs DEF Good
      <3> QED
        BY <3>1, Zenon DEF LiveConn
    <2> HIDE DEF r, s
    <2>3. Owned(m) /\ Live(m.conn) = Live(g.conn) /\ m.state_ = g.state_ /\ m.sockfd_ = g.sockfd_
      BY <1>3, <2>1, <2>2, ConnKeeps DEF Good
    <2> HIDE DEF m
    <2>4. Good(m) /\ s \in Live(m.conn)
      BY <1>3, <2>1, <2>3 DEF Good
    <2>5. Good(connectDestroyed(m, s)) /\ Good(forceClose(m, s))
      BY <2>4, DestroyedKeeps, ForceCloseKeeps
    <2> QED
      BY <1>2, <1>5, <2>5
  <1> QED
    BY <1>4, <1>5

\* A call of the application, with what the kernel answers when it opens a socket.
LEMMA CallKeeps ==
    ASSUME NEW w, Good(w), NEW call \in {"connect", "disconnect", "stop", "destroy"}, NEW how,
           call = "connect" => w.made < MaxAttempts /\ how \in {"EMFILE", "ENETUNREACH", "EINPROGRESS"}
    PROVE  Good(Call(w, call, how))
  BY StartKeeps, DisconnectKeeps, StopCallKeeps, DestroyKeeps DEF Call

(***************************************************************************)
(* Steps.                                                                  *)
(***************************************************************************)
\* The state that follows a handler: what is destroyed was held by nobody, so nobody is left
\* with a connection that does not exist.
LEMMA BecomesGood ==
    ASSUME NEW w, Good(w), Becomes(w)
    PROVE  Good(Whole)'
  <1> DEFINE L == Live(w.conn)
             dead == {s \in Sockets : w.conn[s] # NoConn /\ ~Held(w, s)}
             M == L \ dead
             c == [s \in Sockets |-> IF s \in dead THEN NoConn ELSE w.conn[s]]
  <1>1. /\ client' = w.client /\ state_' = w.state_ /\ sockfd_' = w.sockfd_
        /\ channel_' = w.channel_ /\ timeoutId_' = w.timeoutId_ /\ connection_' = w.connection_
        /\ kern' = w.kern /\ armed' = w.armed /\ made' = w.made
        /\ pending' = w.pending /\ todo' = w.todo /\ outcomes' = w.outcomes
        /\ conn' = c /\ open' = w.open \ dead
    BY Zenon DEF Becomes
  <1>2. /\ Whole' = [x \in Fields |-> Whole'[x]]
        /\ Whole'.state_ = w.state_ /\ Whole'.sockfd_ = w.sockfd_ /\ Whole'.channel_ = w.channel_
        /\ Whole'.connection_ = w.connection_ /\ Whole'.armed = w.armed /\ Whole'.made = w.made
        /\ Whole'.pending = w.pending /\ Whole'.todo = w.todo
        /\ Whole'.conn = c /\ Whole'.open = w.open \ dead
    <2> HIDE DEF c, dead
    <2> QED
      BY <1>1 DEF Whole, Fields
  <1>3. dead \subseteq L
    BY DEF Live
  <1>4. Conns(c) /\ Live(c) = M
    BY Zenon DEF Good, Owned, Conns, Live
  <1>5. \A s \in L : Held(w, s) => s \in M
    BY DEF Live
  <1> HIDE DEF M, c, dead
  <1>6. ASSUME NEW q \in {w.pending, w.todo} PROVE q \in Seq(Entry(M))
    <2>1. q \in Seq(Entry(L))
      BY <1>6 DEF Good, Owned
    <2>2. ASSUME NEW i \in DOMAIN q PROVE q[i] \in Entry(M)
      <3>1. q[i] \in Entry(L)
        BY <2>1
      <3>2. q[i][1] \in Holders => Held(w, q[i][2])
        BY Zenon DEF Held
      <3> HIDE DEF L
      <3> QED
        BY <3>1, <3>2, <1>5, Zenon DEF Entry
    <2> QED
      BY <2>1, <2>2
  <1>7. w.connection_ \in M \cup {0}
    <2>1. w.connection_ \in L \cup {0}
      BY DEF Good, Owned
    <2>2. Held(w, w.connection_)
      BY Zenon DEF Held
    <2> QED
      BY <2>1, <2>2, <1>5
  <1>8. /\ M \subseteq 1..w.made /\ w.sockfd_ \notin M
        /\ w.open \ dead = M \cup ({w.sockfd_} \ {0})
    BY <1>3, Zenon DEF Good, Owned, M
  <1>9. Owned(Whole')
    BY <1>2, <1>4, <1>6, <1>7, <1>8, Zenon DEF Good, Owned
  <1> QED
    BY <1>2, <1>9 DEF Good

\* The fields of the whole.
LEMMA WholeIs ==
    /\ Whole = [x \in Fields |-> Whole[x]]
    /\ Whole.state_ = state_ /\ Whole.sockfd_ = sockfd_ /\ Whole.channel_ = channel_
    /\ Whole.connection_ = connection_ /\ Whole.armed = armed /\ Whole.made = made
    /\ Whole.pending = pending /\ Whole.todo = todo /\ Whole.conn = conn /\ Whole.open = open
  BY DEF Whole, Fields

\* The same of the next state.
LEMMA WholeNext ==
    /\ Whole' = [x \in Fields |-> Whole'[x]]
    /\ Whole'.state_ = state_' /\ Whole'.sockfd_ = sockfd_' /\ Whole'.channel_ = channel_'
    /\ Whole'.connection_ = connection_' /\ Whole'.armed = armed' /\ Whole'.made = made'
    /\ Whole'.pending = pending' /\ Whole'.todo = todo' /\ Whole'.conn = conn' /\ Whole'.open = open'
  BY DEF Whole, Fields

\* A step that only moves entries between the queues, or changes the armed deadline.
LEMMA QueuesStep ==
    ASSUME Good(Whole), UNCHANGED <<state_, sockfd_, channel_, connection_, made, conn, open>>,
           armed' \in 0..MaxAttempts,
           pending' \in Seq(Entry(Live(conn))), todo' \in Seq(Entry(Live(conn)))
    PROVE  Good(Whole)'
  <1>1. /\ state_' = state_ /\ sockfd_' = sockfd_ /\ channel_' = channel_ /\ made' = made
        /\ connection_' = connection_ /\ conn' = conn /\ open' = open
    BY Zenon
  <1>2. Good(Whole')
    BY <1>1, WholeIs, WholeNext, Zenon DEF Good, Owned
  <1> QED
    BY <1>2

\* What is left to do, without its head.
LEMMA HeadAndTail ==
    ASSUME Good(Whole), todo # <<>>
    PROVE  /\ Head(todo) \in Entry(Live(conn))
           /\ Good([Whole EXCEPT !.todo = Tail(@)])
           /\ [Whole EXCEPT !.todo = Tail(@)].conn = conn
           /\ [Whole EXCEPT !.todo = Tail(@)].made = made
  <1>1. todo \in Seq(Entry(Live(conn))) /\ Whole.todo = todo /\ Whole.conn = conn /\ Whole.made = made
    BY WholeIs DEF Good, Owned
  <1>2. Head(todo) \in Entry(Live(conn)) /\ Tail(todo) \in Seq(Entry(Live(conn)))
    BY <1>1
  <1> HIDE DEF Whole
  <1>3. Tail(Whole.todo) \in Seq(Entry(Live(Whole.conn)))
    BY <1>1, <1>2
  <1> QED
    BY <1>1, <1>2, <1>3, Zenon DEF Good, Owned, Fields

\* A handler or a functor.
LEMMA RunStep ==
    ASSUME Inv, Run
    PROVE  Inv'
  <1> DEFINE f == Head(todo)[1]
             s == Head(todo)[2]
             w == [Whole EXCEPT !.todo = Tail(@)]
  <1>0. Running /\ Good(Whole) /\ todo # <<>>
    BY Zenon DEF Run, Inv
  <1>1. Head(todo) \in Entry(Live(conn)) /\ Good(w) /\ w.conn = conn /\ w.made = made
    BY <1>0, HeadAndTail
  <1>2. f \in Names /\ s \in 0..MaxAttempts /\ (f = "handleRead" => s \in Sockets)
        /\ (f \in {"closeCallback", "connectDestroyed", "forceCloseInLoop"} => s \in Live(conn))
    <2> HIDE DEF w
    <2> QED
      BY <1>1 DEF Entry, Holders
  <1> SUFFICES Running' => Good(Whole)'
    BY DEF Inv
  <1>3. ASSUME NEW at, Crash(at) PROVE ~Running'
    BY <1>3, Zenon DEF Crash, Running
  <1>4. CASE f \in {"handleError", "handleWrite", "handleTimeout"}
    <2>1. \/ Crash(f) \/ Becomes(handleError(w, s)) \/ Becomes(handleWrite(w, s))
          \/ Becomes(handleTimeout(w, s))
      BY <1>4, Zenon DEF Run
    <2> HIDE DEF f, s, w
    <2>2. Good(handleError(w, s)) /\ Good(handleWrite(w, s)) /\ Good(handleTimeout(w, s))
      BY <1>1, HandlersKeep
    <2> QED
      BY <2>1, <2>2, <1>3, BecomesGood
  <1>5. CASE f = "handleRead"
    <2>1. \/ Crash("handleClose") \/ Becomes(w)
          \/ conn[s] # NoConn /\ Becomes(handleClose(w, s))
      BY <1>5, Zenon DEF Run
    <2>2. conn[s] # NoConn => s \in Live(w.conn)
      BY <1>1, <1>2, <1>5 DEF Live
    <2> HIDE DEF f, s, w
    <2>3. conn[s] # NoConn => Good(handleClose(w, s))
      BY <1>1, <2>2, HandleCloseKeeps
    <2> QED
      BY <1>1, <2>1, <2>3, <1>3, BecomesGood
  <1>6. CASE f \in {"closeCallback", "connectDestroyed", "forceCloseInLoop"}
    <2>1. \/ Becomes(w) \/ Becomes(removeConnection(w, s)) \/ Becomes(handleClose(w, s))
          \/ Becomes(connectDestroyed(w, s))
      BY <1>6, Zenon DEF Run
    <2>2. s \in Live(w.conn)
      BY <1>1, <1>2, <1>6
    <2> HIDE DEF f, s, w
    <2>3. /\ Good(removeConnection(w, s)) /\ Good(handleClose(w, s))
          /\ Good(connectDestroyed(w, s))
      BY <1>1, <2>2, RemoveConnectionKeeps, HandleCloseKeeps, DestroyedKeeps
    <2> QED
      BY <1>1, <2>1, <2>3, BecomesGood
  <1>7. CASE f \in {"doomed", "user"}
    <2>1. Becomes(w)
      BY <1>7, Zenon DEF Run
    <2> HIDE DEF f, s, w
    <2> QED
      BY <1>1, <2>1, BecomesGood
  <1>8. CASE f \in {"disconnect", "stop"}
    <2>1. Becomes(Call(w, f, "none"))
      BY <1>8, Zenon DEF Run
    <2> HIDE DEF s, w
    <2>2. Good(Call(w, f, "none"))
      BY <1>1, <1>8, CallKeeps
    <2> QED
      BY <2>1, <2>2, BecomesGood
  <1>9. CASE f = "connect"
    <2>1. Becomes(w) \/ \E how \in Hows : Becomes(Call(w, f, how))
      BY <1>9, Zenon DEF Run
    <2> HIDE DEF s, w
    <2>2. ASSUME NEW how \in Hows PROVE Good(Call(w, f, how))
      <3>1. made < MaxAttempts /\ how \in {"EMFILE", "ENETUNREACH", "EINPROGRESS"}
        BY <2>2 DEF Hows
      <3> QED
        BY <1>1, <1>9, <3>1, CallKeeps
    <2> QED
      BY <1>1, <2>1, <2>2, BecomesGood
  <1> QED
    BY <1>2, <1>4, <1>5, <1>6, <1>7, <1>8, <1>9 DEF Names

\* How the queues are put together.
LEMMA SeqFacts ==
    ASSUME NEW S
    PROVE  /\ <<>> \in Seq(S)
           /\ \A e \in S : <<e>> \in Seq(S)
           /\ \A e \in S, p \in Seq(S) : Append(p, e) \in Seq(S)
           /\ \A p, q \in Seq(S) : p \o q \in Seq(S)
  OBVIOUS

\* What a poll may find of the Connector's channel, and of the timers.
LEMMA ChannelFinds ==
    ASSUME NEW E, NEW io \in ChannelEvents,
           channel_ # 0 /\ kern[channel_] # "syn" =>
               <<"handleError", channel_>> \in E /\ <<"handleWrite", channel_>> \in E
    PROVE  io \in Seq(E)
  <1> DEFINE error == <<<<"handleError", channel_>>>>
             write == <<<<"handleWrite", channel_>>>>
  <1>1. io = error \o write \/ io = <<>> \o write
    BY Zenon DEF ChannelEvents
  <1>2. channel_ # 0 /\ kern[channel_] # "syn"
    BY Zenon DEF ChannelEvents
  <1>3. error \in Seq(E) /\ write \in Seq(E) /\ <<>> \in Seq(E)
    BY <1>2, SeqFacts, Zenon
  <1> QED
    BY <1>1, <1>3, SeqFacts, Zenon

\* The deadline of the Connector and timers of the application.
LEMMA TimersFind ==
    ASSUME NEW E, NEW timers \in {<<>>} \cup TimerEvents, <<"user", 0>> \in E,
           armed # 0 => <<"handleTimeout", armed>> \in E
    PROVE  timers \in Seq(E)
  <1> DEFINE user == <<<<"user", 0>>>>
             timeout == <<<<"handleTimeout", armed>>>>
  <1>1. \/ timers = <<>> \/ timers = user
        \/ armed # 0 /\ (timers = timeout \/ timers = user \o timeout)
    BY Zenon DEF TimerEvents
  <1>2. user \in Seq(E) /\ (armed # 0 => timeout \in Seq(E)) /\ <<>> \in Seq(E)
    BY SeqFacts, Zenon
  <1> QED
    BY <1>1, <1>2, SeqFacts, Zenon

\* What a poll may find.
LEMMA PollFinds ==
    ASSUME Poll, NEW E, <<"user", 0>> \in E,
           channel_ # 0 /\ kern[channel_] # "syn" =>
               <<"handleError", channel_>> \in E /\ <<"handleWrite", channel_>> \in E,
           armed # 0 => <<"handleTimeout", armed>> \in E,
           \A s \in Sockets : Closable(Whole, s) => <<"handleRead", s>> \in E
    PROVE  todo' \in Seq(E)
  <1>1. ASSUME NEW io \in {<<>>} \cup ChannelEvents \cup ConnectionEvents PROVE io \in Seq(E)
    <2>1. CASE io \in ChannelEvents
      BY <2>1, ChannelFinds
    <2>2. CASE io \in ConnectionEvents
      <3>1. PICK s \in Sockets : io = <<<<"handleRead", s>>>> /\ Closable(Whole, s)
        BY <2>2, Zenon DEF ConnectionEvents
      <3> QED
        BY <3>1, SeqFacts, Zenon
    <2>3. CASE io = <<>>
      BY <2>3, SeqFacts, Zenon
    <2> QED
      BY <1>1, <2>1, <2>2, <2>3
  <1>2. PICK io \in {<<>>} \cup ChannelEvents \cup ConnectionEvents,
             timers \in {<<>>} \cup TimerEvents :
            todo' \in {io \o timers, timers \o io}
    BY Zenon DEF Poll
  <1>3. io \in Seq(E) /\ timers \in Seq(E)
    BY <1>1, TimersFind
  <1> QED
    BY <1>2, <1>3, SeqFacts, Zenon

\* A poll puts events of existing channels, of the application's timers and the deadline in
\* what is to be done.
LEMMA PollStep ==
    ASSUME Inv, Poll
    PROVE  Inv'
  <1>0. Running /\ Good(Whole)
    BY Zenon DEF Poll, Inv
  <1> DEFINE E == Entry(Live(conn))
  <1>1. /\ channel_ \in 0..MaxAttempts /\ armed \in 0..MaxAttempts /\ 0 \in 0..MaxAttempts
        /\ pending \in Seq(E)
    BY <1>0, WholeIs, TcpClientAssumption DEF Good, Owned
  <1>2. /\ <<"handleError", channel_>> \in E /\ <<"handleWrite", channel_>> \in E
        /\ <<"handleTimeout", armed>> \in E /\ <<"user", 0>> \in E
        /\ \A s \in Sockets : <<"handleRead", s>> \in E
    BY <1>1, TcpClientAssumption DEF Entry, Names, Holders, Sockets
  <1> HIDE DEF E
  <1>3. todo' \in Seq(E)
    BY <1>2, PollFinds
  <1>4. armed' \in 0..MaxAttempts
    <2>1. armed' = 0 \/ armed' = armed
      BY Zenon DEF Poll
    <2> QED
      BY <1>1, <2>1
  <1>5. pending' = pending /\ UNCHANGED <<state_, sockfd_, channel_, connection_, made, conn, open>>
    BY Zenon DEF Poll
  <1>6. Good(Whole)'
    BY <1>0, <1>1, <1>3, <1>4, <1>5, QueuesStep DEF E
  <1> QED
    BY <1>6 DEF Inv

\* The turn from the events to the functors, and another thread's call.
LEMMA QueueSteps ==
    ASSUME Inv, Turn \/ \E call \in {"connect", "disconnect", "stop"} : Post(call)
    PROVE  Inv'
  <1>0. Running /\ Good(Whole)
    BY Zenon DEF Turn, Post, Inv
  <1> DEFINE E == Entry(Live(conn))
  <1>1. /\ armed \in 0..MaxAttempts /\ 0 \in 0..MaxAttempts
        /\ pending \in Seq(E) /\ todo \in Seq(E)
    BY <1>0, WholeIs, TcpClientAssumption DEF Good, Owned
  <1>2. \A call \in {"connect", "disconnect", "stop"} : <<call, 0>> \in E
    BY <1>1 DEF Entry, Names, Holders
  <1> HIDE DEF E
  <1>3. /\ armed' = armed /\ UNCHANGED <<state_, sockfd_, channel_, connection_, made, conn, open>>
    BY Zenon DEF Turn, Post, connectorVars
  <1>4. pending' \in Seq(E) /\ todo' \in Seq(E)
    <2>1. CASE Turn
      <3>1. (todo' = pending /\ pending' = <<>>) \/ (todo' = todo /\ pending' = pending)
        BY <2>1, Zenon DEF Turn
      <3> QED
        BY <1>1, <3>1, SeqFacts, Zenon
    <2>2. ASSUME NEW call \in {"connect", "disconnect", "stop"}, Post(call)
          PROVE  pending' \in Seq(E) /\ todo' \in Seq(E)
      <3>1. pending' = Append(pending, <<call, 0>>) /\ todo' = todo
        BY <2>2, Zenon DEF Post
      <3> QED
        BY <1>1, <1>2, <3>1, SeqFacts, Zenon
    <2> QED
      BY <2>1, <2>2
  <1>5. Good(Whole)'
    BY <1>0, <1>1, <1>3, <1>4, QueuesStep DEF E
  <1> QED
    BY <1>5 DEF Inv

\* The application's calls from a callback.
LEMMA UserStep ==
    ASSUME Inv, NEW call \in CallbackCalls, UserCalls(call)
    PROVE  Inv'
  <1>0. Running /\ Good(Whole)
    BY Zenon DEF UserCalls, Inv
  <1>1. PICK how \in (IF call = "connect" THEN Hows ELSE {"none"}) : Becomes(Call(Whole, call, how))
    BY Zenon DEF UserCalls
  <1>2. call \in {"connect", "disconnect", "stop", "destroy"}
    BY TcpClientAssumption
  <1>3. call = "connect" =>
            Whole.made < MaxAttempts /\ how \in {"EMFILE", "ENETUNREACH", "EINPROGRESS"}
    BY WholeIs DEF Hows
  <1>4. Good(Call(Whole, call, how))
    BY <1>0, <1>2, <1>3, CallKeeps
  <1>5. Good(Whole)'
    BY <1>1, <1>4, BecomesGood
  <1> QED
    BY <1>5 DEF Inv

\* The network, and steps that leave everything as it is.
LEMMA OtherStep ==
    ASSUME Inv,
           \/ \E s \in Sockets, answer \in {"up", "self", "refused", "fin"} : Answer(s, answer)
           \/ UNCHANGED vars
    PROVE  Inv'
  <1>1. /\ failures' = failures /\ armed' = armed /\ pending' = pending /\ todo' = todo
        /\ UNCHANGED <<state_, sockfd_, channel_, connection_, made, conn, open>>
    BY Zenon DEF Answer, vars, connectorVars
  <1>2. ASSUME Good(Whole) PROVE Good(Whole)'
    <2>1. /\ armed \in 0..MaxAttempts
          /\ pending \in Seq(Entry(Live(conn))) /\ todo \in Seq(Entry(Live(conn)))
      BY <1>2, WholeIs DEF Good, Owned
    <2> QED
      BY <1>1, <1>2, <2>1, QueuesStep
  <1> QED
    BY <1>1, <1>2 DEF Inv, Running

\* Every step keeps the invariant.
LEMMA InvStep == Inv /\ [Next]_vars => Inv'
  BY PollStep, QueueSteps, RunStep, UserStep, OtherStep, Zenon DEF Next

\* At first there is no socket.
LEMMA InvInit == Init => Inv
  <1> SUFFICES ASSUME Init PROVE Good(Whole)
    BY DEF Inv
  <1>1. Conns(conn) /\ Live(conn) = {}
    BY DEF Init, Conns, Live
  <1>2. /\ state_ = "kDisconnected" /\ sockfd_ = 0 /\ channel_ = 0 /\ connection_ = 0 /\ armed = 0
        /\ made = 0 /\ open = {} /\ pending = <<>> /\ todo = <<>>
    BY Zenon DEF Init
  <1>3. 0 \in 0..MaxAttempts /\ 0 \in 0..0
    BY TcpClientAssumption
  <1> QED
    <2>1. <<>> \in Seq(Entry(Live(conn)))
      BY SeqFacts, Zenon
    <2>2. Owned(Whole)
      BY <1>1, <1>2, <1>3, <2>1, WholeIs, Zenon DEF Owned
    <2> QED
      BY <1>2, <2>2, WholeIs DEF Good

(***************************************************************************)
(* Between the attempts, stop(), a success and the destruction of client   *)
(* and connections, no descriptor leaks and none is closed twice.          *)
(***************************************************************************)
THEOREM SocketsHaveOneOwner == Spec => []FdOwnedOnce
  <1>1. Inv => FdOwnedOnce
    <2> SUFFICES ASSUME Good(Whole) PROVE FdOwnedOnce
      BY DEF Inv, FdOwnedOnce
    <2>1. sockfd_ \notin Live(conn) /\ open = Live(conn) \cup ({sockfd_} \ {0})
      BY WholeIs, Zenon DEF Good, Owned
    <2> QED
      BY <2>1 DEF FdOwnedOnce, Live
  <1> QED
    BY <1>1, InvInit, InvStep, PTL DEF Spec

(***************************************************************************)
(* What the handlers do to the whole, field by field.                      *)
(***************************************************************************)
Entries(q) == {q[i] : i \in DOMAIN q}
Work == Names \X (0..MaxAttempts)

\* The entries of a queue that grows or shrinks at an end.
LEMMA EntriesAre ==
    ASSUME NEW q \in Seq(Work), NEW e \in Work
    PROVE  /\ Entries(Append(q, e)) = Entries(q) \cup {e}
           /\ Entries(<<e>> \o q) = Entries(q) \cup {e}
           /\ q # <<>> => Entries(q) = Entries(Tail(q)) \cup {Head(q)}
  <1>1. Entries(Append(q, e)) = Entries(q) \cup {e}
    <2>1. Len(q) \in Nat /\ DOMAIN q = 1..Len(q) /\ DOMAIN Append(q, e) = 1..Len(q)+1
      OBVIOUS
    <2>2. \A i \in 1..Len(q) : Append(q, e)[i] = q[i]
      OBVIOUS
    <2>3. Append(q, e)[Len(q)+1] = e
      OBVIOUS
    <2> QED
      BY <2>1, <2>2, <2>3 DEF Entries
  <1>2. Entries(<<e>> \o q) = Entries(q) \cup {e}
    <2> DEFINE p == <<e>> \o q
    <2>1. Len(q) \in Nat /\ DOMAIN q = 1..Len(q) /\ DOMAIN p = 1..Len(q)+1
      OBVIOUS
    <2>2. p[1] = e /\ \A i \in 1..Len(q) : p[i+1] = q[i]
      OBVIOUS
    <2>3. \A i \in 2..Len(q)+1 : i - 1 \in 1..Len(q) /\ p[i] = q[i-1]
      BY <2>1, <2>2
    <2> HIDE DEF p
    <2>4. Entries(p) \subseteq Entries(q) \cup {e}
      BY <2>1, <2>2, <2>3 DEF Entries
    <2>5. Entries(q) \cup {e} \subseteq Entries(p)
      <3>1. \A i \in DOMAIN q : i + 1 \in DOMAIN p /\ p[i+1] = q[i]
        BY <2>1, <2>2
      <3>2. 1 \in DOMAIN p
        BY <2>1
      <3> QED
        BY <2>2, <3>1, <3>2 DEF Entries
    <2> QED
      BY <2>4, <2>5 DEF p
  <1>3. ASSUME q # <<>> PROVE Entries(q) = Entries(Tail(q)) \cup {Head(q)}
    <2> DEFINE p == Tail(q)
    <2>1. Len(q) \in Nat \ {0} /\ DOMAIN q = 1..Len(q) /\ DOMAIN p = 1..Len(q)-1
      BY <1>3
    <2>2. q[1] = Head(q) /\ \A i \in 1..Len(q)-1 : p[i] = q[i+1]
      BY <1>3
    <2>3. \A i \in 2..Len(q) : i - 1 \in 1..Len(q)-1 /\ q[i] = p[i-1]
      BY <2>1, <2>2
    <2> HIDE DEF p
    <2>4. Entries(q) \subseteq Entries(p) \cup {Head(q)}
      BY <2>1, <2>2, <2>3 DEF Entries
    <2>5. Entries(p) \cup {Head(q)} \subseteq Entries(q)
      <3>1. \A i \in DOMAIN p : i + 1 \in DOMAIN q /\ q[i+1] = p[i]
        BY <2>1, <2>2
      <3>2. 1 \in DOMAIN q
        BY <2>1
      <3> QED
        BY <2>2, <3>1, <3>2 DEF Entries
    <2> QED
      BY <2>4, <2>5 DEF p
  <1> QED
    BY <1>1, <1>2, <1>3

\* What is queued is work.
LEMMA QueuesAre ==
    ASSUME NEW w, Owned(w)
    PROVE  w.pending \in Seq(Work) /\ w.todo \in Seq(Work)
  <1>1. Entry(Live(w.conn)) \subseteq Work
    BY Zenon DEF Entry, Work
  <1> QED
    BY <1>1 DEF Owned

\* v is w without the deadline and the channel of the attempt.
Released(v, w) ==
    /\ v.client = w.client /\ v.state_ = w.state_ /\ v.connection_ = w.connection_
    /\ v.conn = w.conn /\ v.kern = w.kern /\ v.made = w.made /\ v.todo = w.todo
    /\ v.outcomes = w.outcomes /\ v.channel_ = 0 /\ v.timeoutId_ = 0
    /\ (w.armed # 0 => w.timeoutId_ = w.armed) => v.armed = 0
    /\ Entries(v.pending) \in {Entries(w.pending), Entries(w.pending) \cup {<<"doomed", w.channel_>>}}

\* The deadline is cancelled and the channel removed.
LEMMA ReleaseIs ==
    ASSUME NEW w, Owned(w)
    PROVE  /\ Released(removeChannel(cancelTimeout(w)), w)
           /\ Owned(removeChannel(cancelTimeout(w)))
           /\ removeChannel(cancelTimeout(w)).sockfd_ = w.sockfd_
  <1> DEFINE u == cancelTimeout(w)
             x == IF w.timeoutId_ # 0 /\ w.armed = w.timeoutId_ THEN 0 ELSE w.armed
             d == [u EXCEPT !.channel_ = 0]
             r == removeChannel(u)
             q == Append(u.pending, <<"doomed", u.channel_>>)
  <1>1. Owned(u) /\ Same(u, w)
    BY CancelKeeps
  <1>2. (w.armed # 0 => w.timeoutId_ = w.armed) => x = 0
    OBVIOUS
  <1>3. /\ u.client = w.client /\ u.state_ = w.state_ /\ u.connection_ = w.connection_
        /\ u.conn = w.conn /\ u.kern = w.kern /\ u.made = w.made /\ u.todo = w.todo
        /\ u.outcomes = w.outcomes /\ u.pending = w.pending /\ u.channel_ = w.channel_
        /\ u.timeoutId_ = 0 /\ u.armed = x
    <2> HIDE DEF x
    <2> DEFINE a == [w EXCEPT !.armed = x]
    <2>1. u = [a EXCEPT !.timeoutId_ = 0]
      BY DEF x, cancelTimeout
    <2>2. /\ a = [y \in Fields |-> a[y]] /\ a.client = w.client /\ a.state_ = w.state_
          /\ a.connection_ = w.connection_
          /\ a.conn = w.conn /\ a.kern = w.kern /\ a.made = w.made /\ a.todo = w.todo
          /\ a.outcomes = w.outcomes /\ a.pending = w.pending /\ a.channel_ = w.channel_
          /\ a.armed = x
      BY Zenon DEF Owned, Fields
    <2> HIDE DEF u, a
    <2> QED
      BY <2>1, <2>2 DEF Fields
  <1> HIDE DEF u, x
  <1>4. r = IF u.channel_ = 0 THEN u ELSE [d EXCEPT !.pending = q]
    <2>1. d.pending = u.pending
      BY <1>1 DEF Owned, Fields
    <2> QED
      BY <2>1 DEF removeChannel, queueInLoop
  <1>5. /\ r.client = u.client /\ r.state_ = u.state_ /\ r.connection_ = u.connection_
        /\ r.conn = u.conn /\ r.kern = u.kern /\ r.made = u.made /\ r.todo = u.todo
        /\ r.outcomes = u.outcomes /\ r.timeoutId_ = u.timeoutId_ /\ r.armed = u.armed
        /\ r.channel_ = 0 /\ r.pending \in {u.pending, q}
    <2> HIDE DEF q, r
    <2> QED
      BY <1>1, <1>4 DEF Owned, Fields
  <1>6. Entries(q) = Entries(w.pending) \cup {<<"doomed", w.channel_>>}
    <2>1. <<"doomed", w.channel_>> \in Work
      BY DEF Work, Names, Owned
    <2>2. w.pending \in Seq(Work)
      BY QueuesAre
    <2>3. q = Append(w.pending, <<"doomed", w.channel_>>)
      BY <1>3
    <2> QED
      BY <2>1, <2>2, <2>3, EntriesAre, Zenon
  <1>7. Owned(r) /\ Same(r, u)
    BY <1>1, RemoveChannelKeeps
  <1> HIDE DEF r, q
  <1>8. Released(r, w) /\ Owned(r) /\ r.sockfd_ = w.sockfd_
    BY <1>1, <1>2, <1>3, <1>5, <1>6, <1>7 DEF Released, Same
  <1> QED
    BY <1>8 DEF r, u

\* The Connector's cleanup closes the socket, too.
LEMMA CleanUpIs ==
    ASSUME NEW w, Owned(w)
    PROVE  Released(CleanUp(w), w) /\ CleanUp(w).sockfd_ = 0 /\ Owned(CleanUp(w))
  <1> DEFINE r == removeChannel(cancelTimeout(w))
             v == closeSockfd(r)
  <1>1. Released(r, w) /\ Owned(r)
    BY ReleaseIs
  <1> HIDE DEF r
  <1>2. /\ v.client = r.client /\ v.state_ = r.state_ /\ v.connection_ = r.connection_
        /\ v.conn = r.conn /\ v.kern = r.kern /\ v.made = r.made /\ v.todo = r.todo
        /\ v.outcomes = r.outcomes /\ v.timeoutId_ = r.timeoutId_ /\ v.armed = r.armed
        /\ v.channel_ = r.channel_ /\ v.pending = r.pending /\ v.sockfd_ = 0
    BY <1>1 DEF closeSockfd, Owned, Fields
  <1>3. Released(v, w) /\ v.sockfd_ = 0
    <2> HIDE DEF v
    <2> QED
      BY <1>1, <1>2 DEF Released
  <1> QED
    BY <1>3, CleanUpKeeps DEF CleanUp, r

\* v is w after an attempt has failed.
Failed(v, w, result, cause) ==
    /\ v.client = w.client /\ v.connection_ = w.connection_ /\ v.conn = w.conn
    /\ v.kern = w.kern /\ v.made = w.made /\ v.state_ = "kFailed"
    /\ v.sockfd_ = 0 /\ v.channel_ = 0 /\ v.timeoutId_ = 0
    /\ (w.armed # 0 => w.timeoutId_ = w.armed) => v.armed = 0
    /\ v.outcomes = w.outcomes \cup {[attempt |-> w.made, result |-> result, cause |-> cause]}
    /\ Entries(v.pending) \in {Entries(w.pending), Entries(w.pending) \cup {<<"doomed", w.channel_>>}}
    /\ v.todo = <<<<"user", 0>>>> \o w.todo

\* An attempt fails.
LEMMA FailIs ==
    ASSUME NEW w, Owned(w), NEW result, NEW cause
    PROVE  Failed(fail(w, result, cause), w, result, cause)
  <1> DEFINE u == [w EXCEPT !.state_ = "kFailed"]
             c == CleanUp(u)
             o == Outcome(c, result, cause)
             v == Callback(o, 0)
  <1>1. /\ Owned(u) /\ u.state_ = "kFailed" /\ u.client = w.client /\ u.connection_ = w.connection_
        /\ u.conn = w.conn /\ u.kern = w.kern /\ u.made = w.made /\ u.armed = w.armed
        /\ u.timeoutId_ = w.timeoutId_ /\ u.outcomes = w.outcomes /\ u.pending = w.pending
        /\ u.todo = w.todo /\ u.channel_ = w.channel_
    BY StateKeeps DEF Owned, Fields
  <1> HIDE DEF u
  <1>2. Released(c, u) /\ c.sockfd_ = 0 /\ Owned(c)
    BY <1>1, CleanUpIs
  <1> HIDE DEF c
  <1> DEFINE x == c.outcomes \cup {[attempt |-> c.made, result |-> result, cause |-> cause]}
  <1>4. o = [c EXCEPT !.outcomes = x]
    BY DEF Outcome
  <1>5. /\ o = [y \in Fields |-> o[y]] /\ o.client = c.client /\ o.state_ = c.state_
        /\ o.connection_ = c.connection_ /\ o.conn = c.conn /\ o.kern = c.kern /\ o.made = c.made
        /\ o.todo = c.todo /\ o.outcomes = x /\ o.sockfd_ = c.sockfd_ /\ o.channel_ = c.channel_
        /\ o.timeoutId_ = c.timeoutId_ /\ o.armed = c.armed /\ o.pending = c.pending
    <2> HIDE DEF o, x
    <2> QED
      BY <1>2, <1>4, Zenon DEF Owned, Fields
  <1> HIDE DEF o
  <1>6. /\ v.client = o.client /\ v.state_ = o.state_
        /\ v.connection_ = o.connection_ /\ v.conn = o.conn /\ v.kern = o.kern /\ v.made = o.made
        /\ v.outcomes = o.outcomes /\ v.sockfd_ = o.sockfd_ /\ v.channel_ = o.channel_
        /\ v.timeoutId_ = o.timeoutId_ /\ v.armed = o.armed /\ v.pending = o.pending
        /\ v.todo = <<<<"user", 0>>>> \o o.todo
    BY <1>5 DEF Callback, Fields
  <1>7. fail(w, result, cause) = v
    BY DEF fail, u, c, o
  <1> HIDE DEF v
  <1>8. Failed(v, w, result, cause)
    BY <1>1, <1>2, <1>5, <1>6 DEF Failed, Released
  <1> QED
    BY <1>7, <1>8

\* v is w after an attempt has begun.
Begun(v, w) ==
    LET a == w.made + 1
    IN  /\ v.client = w.client /\ v.connection_ = w.connection_ /\ v.conn = w.conn
        /\ v.kern = w.kern /\ v.made = a /\ v.state_ = "kConnecting"
        /\ v.sockfd_ = a /\ v.channel_ = a /\ v.timeoutId_ = a /\ v.armed = a
        /\ v.outcomes = w.outcomes /\ v.pending = w.pending /\ v.todo = w.todo

\* v is w after an attempt that failed at once.
BegunInVain(v, w, how) ==
    LET a == w.made + 1
    IN  /\ v.client = w.client /\ v.connection_ = w.connection_ /\ v.conn = w.conn
        /\ v.kern = w.kern /\ v.made = a /\ v.state_ = "kFailed"
        /\ v.sockfd_ = 0 /\ v.channel_ = 0 /\ v.timeoutId_ = 0
        /\ (w.armed # 0 => w.timeoutId_ = w.armed) => v.armed = 0
        /\ v.outcomes = w.outcomes \cup {[attempt |-> a, result |-> how, cause |-> a]}
        /\ \E c : Entries(v.pending) \in {Entries(w.pending), Entries(w.pending) \cup {<<"doomed", c>>}}
        /\ v.todo = <<<<"user", 0>>>> \o w.todo

\* An attempt begins, or fails at once.
LEMMA ConnectIs ==
    ASSUME NEW w, Owned(w), w.sockfd_ = 0, w.state_ = "kConnecting", w.made < MaxAttempts,
           NEW how \in {"EMFILE", "ENETUNREACH", "EINPROGRESS"}
    PROVE  Begun(connect(w, how), w) \/ BegunInVain(connect(w, how), w, how)
  <1> DEFINE a == w.made + 1
             m == [w EXCEPT !.made = a]
             f == [m EXCEPT !.sockfd_ = a]
             c == [f EXCEPT !.channel_ = a]
             o == [c EXCEPT !.open = w.open \cup {a}]
             t == [o EXCEPT !.timeoutId_ = a]
             d == [t EXCEPT !.armed = a]
  <1>0. w.made \in 0..MaxAttempts /\ Live(w.conn) \subseteq 1..w.made
    BY Zenon DEF Owned
  <1>1. a \in 1..MaxAttempts /\ a \notin Live(w.conn) /\ 1..w.made \subseteq 1..a
    BY <1>0, TcpClientAssumption
  <1>2. Live(w.conn) \subseteq 1..a /\ 0 \in 0..a /\ a \in 0..a /\ a \in 0..MaxAttempts /\ a # 0
    BY <1>0, <1>1, TcpClientAssumption
  <1>3. CASE how = "EMFILE"
    <2>2. connect(w, how) = fail(m, how, a)
      BY <1>3 DEF connect
    <2> HIDE DEF a
    <2>1. Owned(m)
      BY <1>2, Zenon DEF Owned, Fields
    <2>3. /\ m.client = w.client /\ m.connection_ = w.connection_ /\ m.conn = w.conn
          /\ m.kern = w.kern /\ m.made = a /\ m.armed = w.armed /\ m.timeoutId_ = w.timeoutId_
          /\ m.outcomes = w.outcomes /\ m.pending = w.pending /\ m.todo = w.todo
      BY DEF Owned, Fields
    <2> HIDE DEF m
    <2>4. Failed(fail(m, how, a), m, how, a)
      BY <2>1, FailIs
    <2>5. BegunInVain(fail(m, how, a), w, how)
      BY <2>3, <2>4, Zenon DEF Failed, BegunInVain, a
    <2> QED
      BY <2>2, <2>5
  <1>4. Owned(o) /\ o.sockfd_ = a /\ o.state_ = "kConnecting"
    <2> HIDE DEF a
    <2>1. /\ o = [x \in Fields |-> o[x]] /\ o.made = a /\ o.channel_ = a /\ o.sockfd_ = a
          /\ o.open = w.open \cup {a} /\ o.state_ = w.state_ /\ o.conn = w.conn
          /\ o.armed = w.armed /\ o.connection_ = w.connection_
          /\ o.pending = w.pending /\ o.todo = w.todo
      BY Zenon DEF Owned, Fields
    <2> HIDE DEF o
    <2>2. o.open = Live(w.conn) \cup ({a} \ {0})
      BY <2>1, <1>2, Zenon DEF Owned
    <2> QED
      BY <1>1, <1>2, <2>1, <2>2, Zenon DEF Owned
  <1>5. /\ o.client = w.client /\ o.connection_ = w.connection_ /\ o.conn = w.conn /\ o.kern = w.kern
        /\ o.made = a /\ o.channel_ = a /\ o.sockfd_ = a /\ o.armed = w.armed
        /\ o.timeoutId_ = w.timeoutId_ /\ o.outcomes = w.outcomes /\ o.pending = w.pending
        /\ o.todo = w.todo
    <2> HIDE DEF a
    <2> QED
      BY DEF Owned, Fields
  <1>6. CASE how = "ENETUNREACH"
    <2>1. connect(w, how) = fail(o, how, a)
      BY <1>6 DEF connect
    <2> HIDE DEF o, a
    <2>2. Failed(fail(o, how, a), o, how, a)
      BY <1>4, FailIs
    <2>3. BegunInVain(fail(o, how, a), w, how)
      BY <1>5, <2>2, Zenon DEF Failed, BegunInVain, a
    <2> QED
      BY <2>1, <2>3
  <1>7. CASE how = "EINPROGRESS"
    <2>1. connect(w, how) = d
      BY <1>7 DEF connect
    <2> HIDE DEF o, a
    <2>2. /\ d.client = o.client /\ d.connection_ = o.connection_ /\ d.conn = o.conn /\ d.kern = o.kern
          /\ d.made = o.made /\ d.channel_ = o.channel_ /\ d.sockfd_ = o.sockfd_ /\ d.armed = a
          /\ d.timeoutId_ = a /\ d.outcomes = o.outcomes /\ d.pending = o.pending
          /\ d.todo = o.todo /\ d.state_ = o.state_
      BY <1>4 DEF Owned, Fields
    <2> HIDE DEF d
    <2>3. Begun(d, w)
      BY <1>4, <1>5, <2>2 DEF Begun, a
    <2> QED
      BY <2>1, <2>3
  <1> QED
    BY <1>3, <1>6, <1>7

\* start() begins an attempt only when there is none and no connection has come of one.
LEMMA StartIs ==
    ASSUME NEW w, Good(w), w.made < MaxAttempts,
           NEW how \in {"EMFILE", "ENETUNREACH", "EINPROGRESS"}
    PROVE  \/ startInLoop(w, how) = w
           \/ /\ w.sockfd_ = 0 /\ w.state_ \notin {"kConnecting", "kConnected"}
              /\ Begun(startInLoop(w, how), w) \/ BegunInVain(startInLoop(w, how), w, how)
  <1> DEFINE v == [w EXCEPT !.state_ = "kConnecting"]
  <1>1. CASE w.state_ \in {"kConnecting", "kConnected"}
    BY <1>1 DEF startInLoop
  <1>2. CASE w.state_ \notin {"kConnecting", "kConnected"}
    <2>0. startInLoop(w, how) = connect(v, how)
      BY <1>2 DEF startInLoop
    <2>1. w.sockfd_ = 0
      BY <1>2 DEF Good
    <2>2. Owned(v) /\ v.state_ = "kConnecting" /\ v.sockfd_ = 0 /\ v.made = w.made
      BY <2>1, StateKeeps DEF Good
    <2>3. /\ v.client = w.client /\ v.connection_ = w.connection_ /\ v.conn = w.conn
          /\ v.kern = w.kern /\ v.armed = w.armed /\ v.timeoutId_ = w.timeoutId_
          /\ v.outcomes = w.outcomes /\ v.pending = w.pending /\ v.todo = w.todo
      BY DEF Good, Owned, Fields
    <2> HIDE DEF v
    <2>4. Begun(connect(v, how), v) \/ BegunInVain(connect(v, how), v, how)
      BY <2>2, ConnectIs
    <2>5. Begun(connect(v, how), w) \/ BegunInVain(connect(v, how), w, how)
      BY <2>2, <2>3, <2>4, Zenon DEF Begun, BegunInVain
    <2> QED
      BY <1>2, <2>0, <2>1, <2>5
  <1> QED
    BY <1>1, <1>2

\* v is w after the Connector has been stopped.
Stopped(v, w) ==
    /\ v.client = w.client /\ v.connection_ = w.connection_ /\ v.conn = w.conn
    /\ v.kern = w.kern /\ v.made = w.made /\ v.todo = w.todo /\ v.sockfd_ = 0
    /\ v.state_ # "kConnecting" /\ (v.state_ = "kConnected" <=> w.state_ = "kConnected")
    /\ \/ /\ w.state_ # "kConnecting" /\ v.channel_ = w.channel_ /\ v.armed = w.armed
          /\ v.timeoutId_ = w.timeoutId_ /\ v.pending = w.pending /\ v.outcomes = w.outcomes
       \/ /\ w.state_ = "kConnecting" /\ v.channel_ = 0
          /\ (w.armed # 0 => w.timeoutId_ = w.armed) => v.armed = 0
          /\ v.outcomes = w.outcomes \cup {[attempt |-> w.made, result |-> "stopped", cause |-> w.made]}
          /\ Entries(v.pending) \in {Entries(w.pending), Entries(w.pending) \cup {<<"doomed", w.channel_>>}}

\* The Connector is stopped.
LEMMA StopIs ==
    ASSUME NEW w, Good(w)
    PROVE  Stopped(stopInLoop(w), w)
  <1> DEFINE v == [w EXCEPT !.state_ = "kDisconnected"]
             x == w.outcomes \cup {[attempt |-> w.made, result |-> "stopped", cause |-> w.made]}
             o == [v EXCEPT !.outcomes = x]
  <1>1. /\ v = [y \in Fields |-> v[y]] /\ v.state_ = "kDisconnected"
        /\ v.client = w.client /\ v.connection_ = w.connection_ /\ v.conn = w.conn
        /\ v.kern = w.kern /\ v.made = w.made /\ v.todo = w.todo /\ v.sockfd_ = w.sockfd_
        /\ v.channel_ = w.channel_ /\ v.armed = w.armed /\ v.timeoutId_ = w.timeoutId_
        /\ v.pending = w.pending /\ v.outcomes = w.outcomes
    BY DEF Good, Owned, Fields
  <1>2. Owned(v)
    BY StateKeeps DEF Good
  <1>3. CASE w.state_ = "kConnecting"
    <2>0. stopInLoop(w) = CleanUp(Outcome(v, "stopped", w.made))
      BY <1>3 DEF stopInLoop
    <2> HIDE DEF v
    <2>1. o = Outcome(v, "stopped", w.made)
      BY <1>1 DEF Outcome
    <2>2. Owned(o)
      BY <1>2, <2>1, OutcomeKeeps
    <2> HIDE DEF x
    <2>3. /\ o.state_ = v.state_ /\ o.client = v.client /\ o.connection_ = v.connection_
          /\ o.conn = v.conn /\ o.kern = v.kern /\ o.made = v.made /\ o.todo = v.todo
          /\ o.channel_ = v.channel_ /\ o.armed = v.armed /\ o.timeoutId_ = v.timeoutId_
          /\ o.pending = v.pending /\ o.outcomes = x
      BY <1>2 DEF Owned, Fields
    <2> HIDE DEF o
    <2>4. Released(CleanUp(o), o) /\ CleanUp(o).sockfd_ = 0
      BY <2>2, CleanUpIs
    <2> DEFINE c == CleanUp(o)
    <2>5. stopInLoop(w) = c
      BY <2>0, <2>1
    <2> HIDE DEF c
    <2>6. Released(c, o) /\ c.sockfd_ = 0
      BY <2>4 DEF c
    <2>7. Stopped(c, w)
      BY <1>1, <1>3, <2>3, <2>6 DEF Stopped, Released, x
    <2> QED
      BY <2>5, <2>7
  <1>4. CASE w.state_ = "kFailed"
    <2>1. stopInLoop(w) = v
      BY <1>4 DEF stopInLoop
    <2> HIDE DEF v
    <2>2. w.sockfd_ = 0
      BY <1>4 DEF Good
    <2> QED
      BY <1>1, <1>4, <2>1, <2>2 DEF Stopped
  <1>5. CASE w.state_ \notin {"kConnecting", "kFailed"}
    BY <1>5 DEF stopInLoop, Stopped, Good
  <1> QED
    BY <1>3, <1>4, <1>5

\* v is w after the attempt has become a connection.
Finished(v, w, cause) ==
    LET s == w.sockfd_
    IN  /\ v.client = w.client /\ v.kern = w.kern /\ v.made = w.made
        /\ v.state_ = "kConnected" /\ v.sockfd_ = 0 /\ v.channel_ = 0
        /\ (w.armed # 0 => w.timeoutId_ = w.armed) => v.armed = 0
        /\ v.outcomes = w.outcomes \cup {[attempt |-> w.made, result |-> w.kern[s], cause |-> cause]}
        /\ v.connection_ = s
        /\ v.conn = [w.conn EXCEPT ![s] = [state |-> "kConnected", removed |-> FALSE, closeCallback |-> TRUE]]
        /\ Entries(v.pending) \in {Entries(w.pending), Entries(w.pending) \cup {<<"doomed", w.channel_>>}}
        /\ v.todo = <<<<"user", s>>>> \o w.todo

\* The attempt becomes a connection.
LEMMA FinishIs ==
    ASSUME NEW w, Good(w), w.state_ = "kConnecting", NEW cause
    PROVE  Finished(finishConnect(w, cause), w, cause)
  <1> DEFINE s == w.sockfd_
             k == [state |-> "kConnected", removed |-> FALSE, closeCallback |-> TRUE]
             r == removeChannel(cancelTimeout(w))
             x == r.outcomes \cup {[attempt |-> r.made, result |-> w.kern[s], cause |-> cause]}
             y == [r.conn EXCEPT ![s] = k]
             d == [r EXCEPT !.outcomes = x]
             a == [d EXCEPT !.sockfd_ = 0]
             b == [a EXCEPT !.state_ = "kConnected"]
             c == [b EXCEPT !.connection_ = s]
             e == [c EXCEPT !.conn = y]
             v == Callback(e, s)
  <1>1. Released(r, w) /\ Owned(r)
    BY ReleaseIs DEF Good
  <1>2. finishConnect(w, cause) = newConnection(b, s)
    BY DEF finishConnect, Outcome
  <1>3. newConnection(b, s) = v
    <2> HIDE DEF r, k, x, s
    <2>1. b.conn = r.conn
      BY <1>1 DEF Owned, Fields
    <2> HIDE DEF b
    <2> QED
      BY <2>1, Zenon DEF newConnection, k
  <1> HIDE DEF r, k, x, y, s
  <1>4. /\ e = [z \in Fields |-> e[z]] /\ e.client = r.client /\ e.kern = r.kern /\ e.made = r.made
        /\ e.state_ = "kConnected" /\ e.sockfd_ = 0 /\ e.channel_ = r.channel_ /\ e.armed = r.armed
        /\ e.outcomes = x /\ e.connection_ = s /\ e.conn = y /\ e.pending = r.pending
        /\ e.todo = r.todo
    BY <1>1, Zenon DEF Owned, Fields
  <1> HIDE DEF e
  <1>5. /\ v.client = e.client /\ v.kern = e.kern /\ v.made = e.made /\ v.state_ = e.state_
        /\ v.sockfd_ = e.sockfd_ /\ v.channel_ = e.channel_ /\ v.armed = e.armed
        /\ v.outcomes = e.outcomes /\ v.connection_ = e.connection_ /\ v.conn = e.conn
        /\ v.pending = e.pending /\ v.todo = <<<<"user", s>>>> \o e.todo
    BY <1>4 DEF Callback, Fields
  <1> HIDE DEF v
  <1>6. Finished(v, w, cause)
    BY <1>1, <1>4, <1>5 DEF Finished, Released, x, y, s, k
  <1> QED
    BY <1>2, <1>3, <1>6

\* v and w have the same Connector, network and outcomes.
Quiet(v, w) ==
    /\ v.state_ = w.state_ /\ v.sockfd_ = w.sockfd_ /\ v.channel_ = w.channel_
    /\ v.timeoutId_ = w.timeoutId_ /\ v.armed = w.armed /\ v.made = w.made
    /\ v.kern = w.kern /\ v.outcomes = w.outcomes

\* The connections d are the connections c but for s, which has these fields.
ConnIs(d, c, s, state, removed, closeCallback) ==
    /\ d[s] # NoConn /\ d[s].state = state /\ d[s].removed = removed
    /\ d[s].closeCallback = closeCallback
    /\ \A t \in Sockets \ {s} : d[t] = c[t]

\* A connection's record is assigned.
LEMMA SetConnIs ==
    ASSUME NEW w, Owned(w), NEW s \in Live(w.conn), NEW r, LiveConn(r)
    PROVE  /\ Quiet(SetConn(w, s, r), w) /\ SetConn(w, s, r).client = w.client
           /\ SetConn(w, s, r).connection_ = w.connection_
           /\ SetConn(w, s, r).pending = w.pending /\ SetConn(w, s, r).todo = w.todo
           /\ ConnIs(SetConn(w, s, r).conn, w.conn, s, r.state, r.removed, r.closeCallback)
           /\ Live(SetConn(w, s, r).conn) = Live(w.conn) /\ Owned(SetConn(w, s, r))
  <1> DEFINE c == [w.conn EXCEPT ![s] = r]
             v == SetConn(w, s, r)
  <1>0. Conns(w.conn) /\ s \in Sockets
    BY DEF Owned, Live
  <1>1. r # NoConn
    BY DEF LiveConn, NoConn
  <1>2. ConnIs(c, w.conn, s, r.state, r.removed, r.closeCallback)
    BY <1>0, <1>1 DEF Conns, ConnIs
  <1>3. v = [w EXCEPT !.conn = c]
    BY DEF SetConn
  <1> HIDE DEF c, v
  <1>4. /\ v.client = w.client /\ v.connection_ = w.connection_ /\ v.pending = w.pending
        /\ v.todo = w.todo /\ v.conn = c /\ Quiet(v, w)
    BY <1>3 DEF Owned, Fields, Quiet
  <1> QED
    BY <1>2, <1>4, ConnKeeps DEF v

\* The whole with the state x of connection s.
SetState(w, s, x) == [w EXCEPT !.conn[s].state = x]

\* A connection's state is assigned.
LEMMA SetStateIs ==
    ASSUME NEW w, Owned(w), NEW s \in Live(w.conn), NEW x, x # "none"
    PROVE  LET v == SetState(w, s, x)
           IN  /\ Quiet(v, w) /\ v.client = w.client /\ v.connection_ = w.connection_
               /\ v.pending = w.pending /\ v.todo = w.todo
               /\ ConnIs(v.conn, w.conn, s, x, w.conn[s].removed, w.conn[s].closeCallback)
               /\ Live(v.conn) = Live(w.conn) /\ Owned(v)
  <1> DEFINE r == [w.conn[s] EXCEPT !.state = x]
             v == SetState(w, s, x)
  <1>1. LiveConn(w.conn[s])
    BY LiveIs
  <1>2. LiveConn(r) /\ r.state = x /\ r.removed = w.conn[s].removed /\ r.closeCallback = w.conn[s].closeCallback
    <2> DEFINE k == w.conn[s]
    <2> HIDE DEF k
    <2>1. LiveConn(k)
      BY <1>1 DEF k
    <2>2. LET q == [k EXCEPT !.state = x]
          IN  LiveConn(q) /\ q.state = x /\ q.removed = k.removed /\ q.closeCallback = k.closeCallback
      BY <2>1 DEF LiveConn
    <2> QED
      BY <2>2 DEF k
  <1>3. v = SetConn(w, s, r)
    BY DEF SetConn, SetState
  <1> HIDE DEF r, v
  <1>4. /\ Quiet(v, w) /\ v.client = w.client /\ v.connection_ = w.connection_
        /\ v.pending = w.pending /\ v.todo = w.todo
        /\ ConnIs(v.conn, w.conn, s, r.state, r.removed, r.closeCallback)
        /\ Live(v.conn) = Live(w.conn) /\ Owned(v)
    BY <1>2, <1>3, SetConnIs
  <1>5. ConnIs(v.conn, w.conn, s, x, w.conn[s].removed, w.conn[s].closeCallback)
    BY <1>2, <1>4
  <1> QED
    BY <1>4, <1>5 DEF v

\* A functor is posted.
LEMMA QueueIs ==
    ASSUME NEW w, Owned(w), NEW f, NEW s, <<f, s>> \in Work
    PROVE  LET v == queueInLoop(w, f, s)
           IN  /\ Quiet(v, w) /\ v.client = w.client /\ v.connection_ = w.connection_
               /\ v.conn = w.conn /\ v.todo = w.todo
               /\ Entries(v.pending) = Entries(w.pending) \cup {<<f, s>>}
  <1> DEFINE v == queueInLoop(w, f, s)
             q == Append(w.pending, <<f, s>>)
  <1>1. Entries(q) = Entries(w.pending) \cup {<<f, s>>}
    <2>1. w.pending \in Seq(Work)
      BY QueuesAre
    <2> QED
      BY <2>1, EntriesAre, Zenon
  <1>2. v = [w EXCEPT !.pending = q]
    BY DEF queueInLoop
  <1> HIDE DEF q, v
  <1>3. /\ Quiet(v, w) /\ v.client = w.client /\ v.connection_ = w.connection_
        /\ v.conn = w.conn /\ v.todo = w.todo /\ v.pending = q
    BY <1>2 DEF Quiet, Owned, Fields
  <1> QED
    BY <1>1, <1>3 DEF v

\* What forceClose() does.
LEMMA ForceCloseIs ==
    ASSUME NEW w, Good(w), NEW s \in Live(w.conn), NEW v, v = forceClose(w, s)
    PROVE  \/ ~Closable(w, s) /\ v = w
           \/ /\ Closable(w, s) /\ Quiet(v, w) /\ v.client = w.client
              /\ v.connection_ = w.connection_ /\ v.todo = w.todo
              /\ Entries(v.pending) = Entries(w.pending) \cup {<<"forceCloseInLoop", s>>}
              /\ ConnIs(v.conn, w.conn, s, "kDisconnecting", w.conn[s].removed, w.conn[s].closeCallback)
  <1> DEFINE u == SetState(w, s, "kDisconnecting")
             q == queueInLoop(u, "forceCloseInLoop", s)
  <1>1. /\ Quiet(u, w) /\ u.client = w.client /\ u.connection_ = w.connection_
        /\ u.pending = w.pending /\ u.todo = w.todo
        /\ ConnIs(u.conn, w.conn, s, "kDisconnecting", w.conn[s].removed, w.conn[s].closeCallback)
        /\ Owned(u)
    BY SetStateIs DEF Good
  <1>2. v = IF Closable(w, s) THEN q ELSE w
    BY DEF forceClose, SetState
  <1> HIDE DEF u
  <1>3. <<"forceCloseInLoop", s>> \in Work
    BY LiveIs, TcpClientAssumption DEF Good, Work, Names, Sockets
  <1>4. /\ Quiet(q, u) /\ q.client = u.client /\ q.connection_ = u.connection_
        /\ q.conn = u.conn /\ q.todo = u.todo
        /\ Entries(q.pending) = Entries(u.pending) \cup {<<"forceCloseInLoop", s>>}
    BY <1>1, <1>3, QueueIs
  <1> HIDE DEF q
  <1>5. Quiet(q, w)
    BY <1>1, <1>4 DEF Quiet
  <1> QED
    BY <1>1, <1>2, <1>4, <1>5

\* The same, its conclusion under one name.
ForceClosed(v, w, s) ==
    \/ ~Closable(w, s) /\ v = w
    \/ /\ Closable(w, s) /\ Quiet(v, w) /\ v.client = w.client
       /\ v.connection_ = w.connection_ /\ v.todo = w.todo
       /\ Entries(v.pending) = Entries(w.pending) \cup {<<"forceCloseInLoop", s>>}
       /\ ConnIs(v.conn, w.conn, s, "kDisconnecting", w.conn[s].removed, w.conn[s].closeCallback)

\* A connection is told to close.
LEMMA ForceClosedIs ==
    ASSUME NEW w, Good(w), NEW s \in Live(w.conn)
    PROVE  ForceClosed(forceClose(w, s), w, s)
  <1>1. PICK v : v = forceClose(w, s)
    OBVIOUS
  <1>2. ForceClosed(v, w, s)
    BY <1>1, ForceCloseIs DEF ForceClosed
  <1> QED
    BY <1>1, <1>2, Zenon

\* What handleClose() does.
LEMMA HandleCloseIs ==
    ASSUME NEW w, Good(w), NEW s \in Live(w.conn), NEW v, v = handleClose(w, s)
    PROVE  /\ Quiet(v, w) /\ v.client = w.client /\ v.connection_ = w.connection_
           /\ v.pending = w.pending
           /\ v.todo = <<<<"user", s>>>> \o (<<<<"closeCallback", s>>>> \o w.todo)
           /\ ConnIs(v.conn, w.conn, s, "kDisconnected", w.conn[s].removed, w.conn[s].closeCallback)
  <1> DEFINE u == SetState(w, s, "kDisconnected")
             q == <<<<"closeCallback", s>>>> \o u.todo
             p == <<<<"user", s>>>> \o q
             t == [u EXCEPT !.todo = q]
             c == [t EXCEPT !.todo = p]
  <1>1. /\ Quiet(u, w) /\ u.client = w.client /\ u.connection_ = w.connection_
        /\ u.pending = w.pending /\ u.todo = w.todo
        /\ ConnIs(u.conn, w.conn, s, "kDisconnected", w.conn[s].removed, w.conn[s].closeCallback)
        /\ Owned(u)
    BY SetStateIs DEF Good
  <1>2. v = Callback(t, s)
    BY DEF handleClose, SetState
  <1> HIDE DEF u
  <1>3. t.todo = q
    BY <1>1 DEF Owned, Fields
  <1>4. v = c
    <2> HIDE DEF t
    <2> QED
      BY <1>2, <1>3 DEF Callback
  <1> HIDE DEF p, q
  <1>5. /\ Quiet(c, u) /\ c.client = u.client /\ c.connection_ = u.connection_
        /\ c.pending = u.pending /\ c.conn = u.conn /\ c.todo = p
    BY <1>1 DEF Quiet, Owned, Fields
  <1> HIDE DEF c
  <1>6. Quiet(c, w)
    BY <1>1, <1>5 DEF Quiet
  <1> QED
    BY <1>1, <1>4, <1>5, <1>6 DEF p, q

\* What connectDestroyed() does.
LEMMA DestroyedIs ==
    ASSUME NEW w, Owned(w), NEW s \in Live(w.conn), NEW v, v = connectDestroyed(w, s)
    PROVE  /\ Quiet(v, w) /\ v.client = w.client /\ v.connection_ = w.connection_
           /\ v.pending = w.pending /\ v.todo = w.todo
           /\ ConnIs(v.conn, w.conn, s,
                     IF w.conn[s].state = "kConnected" THEN "kDisconnected" ELSE w.conn[s].state,
                     TRUE, w.conn[s].closeCallback)
  <1> DEFINE k == w.conn[s]
             x == IF k.state = "kConnected" THEN "kDisconnected" ELSE k.state
             q == [k EXCEPT !.state = x]
             r == [q EXCEPT !.removed = TRUE]
  <1>1. LiveConn(k) /\ k.state # "none" /\ s \in Sockets
    BY LiveIs DEF LiveConn
  <1>2. v = SetConn(w, s, r)
    BY <1>1, Zenon DEF connectDestroyed, SetConn, Owned, Fields, Conns
  <1>3. x # "none"
    BY <1>1
  <1> HIDE DEF k, x
  <1>4. LiveConn(q) /\ q.state = x /\ q.removed = k.removed /\ q.closeCallback = k.closeCallback
    BY <1>1, <1>3 DEF LiveConn
  <1> HIDE DEF q
  <1>5. LiveConn(r) /\ r.state = q.state /\ r.removed = TRUE /\ r.closeCallback = q.closeCallback
    BY <1>4, Zenon DEF LiveConn
  <1> HIDE DEF r
  <1>6. /\ Quiet(v, w) /\ v.client = w.client /\ v.connection_ = w.connection_
        /\ v.pending = w.pending /\ v.todo = w.todo
        /\ ConnIs(v.conn, w.conn, s, r.state, r.removed, r.closeCallback)
    BY <1>2, <1>5, SetConnIs
  <1>7. ConnIs(v.conn, w.conn, s, x, TRUE, k.closeCallback)
    BY <1>4, <1>5, <1>6, Zenon
  <1> QED
    BY <1>6, <1>7, Zenon DEF x, k

\* What removeConnection() does.
LEMMA RemoveConnectionIs ==
    ASSUME NEW w, Good(w), NEW s \in Live(w.conn), NEW v, v = removeConnection(w, s)
    PROVE  /\ Quiet(v, w) /\ v.client = w.client /\ v.conn = w.conn /\ v.todo = w.todo
           /\ v.connection_ = IF w.connection_ = s THEN 0 ELSE w.connection_
           /\ Entries(v.pending) = Entries(w.pending) \cup {<<"connectDestroyed", s>>}
  <1> DEFINE x == IF w.connection_ = s THEN 0 ELSE w.connection_
             u == [w EXCEPT !.connection_ = x]
  <1>1. v = queueInLoop(u, "connectDestroyed", s)
    BY DEF removeConnection
  <1>2. x \in Live(w.conn) \cup {0}
    BY DEF Good, Owned
  <1> HIDE DEF x
  <1>3. /\ Owned(u) /\ Quiet(u, w) /\ u.client = w.client /\ u.conn = w.conn /\ u.todo = w.todo
        /\ u.connection_ = x /\ u.pending = w.pending
    BY <1>2 DEF Good, Owned, Fields, Quiet
  <1> HIDE DEF u
  <1>4. <<"connectDestroyed", s>> \in Work
    BY LiveIs, TcpClientAssumption DEF Good, Work, Names, Sockets
  <1>5. /\ Quiet(v, u) /\ v.client = u.client /\ v.connection_ = u.connection_
        /\ v.conn = u.conn /\ v.todo = u.todo
        /\ Entries(v.pending) = Entries(u.pending) \cup {<<"connectDestroyed", s>>}
    BY <1>1, <1>3, <1>4, QueueIs
  <1>6. Quiet(v, w)
    BY <1>3, <1>5 DEF Quiet
  <1> QED
    BY <1>3, <1>5, <1>6 DEF x

\* What disconnect() does to a connection.
LEMMA DisconnectIs ==
    ASSUME NEW w, Good(w), NEW s, s = w.connection_, s # 0, NEW v, v = disconnect(w)
    PROVE  /\ Quiet(v, w) /\ v.client = w.client /\ v.connection_ = w.connection_
           /\ v.pending = w.pending /\ v.todo = w.todo
           /\ ConnIs(v.conn, w.conn, s,
                     IF w.conn[s].state = "kConnected" THEN "kDisconnecting" ELSE w.conn[s].state,
                     w.conn[s].removed, w.conn[s].closeCallback)
  <1> DEFINE x == IF w.conn[s].state = "kConnected" THEN "kDisconnecting" ELSE w.conn[s].state
  <1>1. s \in Live(w.conn)
    BY DEF Good, Owned
  <1>2. x # "none"
    BY <1>1, LiveIs, Zenon DEF Good, LiveConn
  <1>3. v = SetState(w, s, x)
    BY DEF disconnect, SetState
  <1> HIDE DEF x
  <1>4. /\ Quiet(v, w) /\ v.client = w.client /\ v.connection_ = w.connection_
        /\ v.pending = w.pending /\ v.todo = w.todo
        /\ ConnIs(v.conn, w.conn, s, x, w.conn[s].removed, w.conn[s].closeCallback)
    BY <1>1, <1>2, <1>3, SetStateIs DEF Good
  <1> QED
    BY <1>4 DEF x

\* v is w after ~TcpClient(); u is w with the Connector stopped, s the connection.
TornDown(v, u, w, s) ==
    /\ v.client = FALSE /\ v.connection_ = 0 /\ v.todo = w.todo /\ v.kern = w.kern
    /\ v.made = w.made /\ v.outcomes = u.outcomes /\ v.state_ = u.state_ /\ v.sockfd_ = 0
    /\ s = 0 => /\ v.conn = w.conn /\ v.channel_ = 0
                /\ (u.armed # 0 => u.timeoutId_ = u.armed) => v.armed = 0
                /\ Entries(v.pending) \in
                       {Entries(u.pending), Entries(u.pending) \cup {<<"doomed", u.channel_>>}}
    /\ s # 0 => /\ s \in Live(w.conn) /\ Quiet(v, u)
                /\ \/ /\ w.conn[s].state = "kConnected" /\ v.pending = u.pending
                      /\ ConnIs(v.conn, w.conn, s, "kDisconnected", TRUE, FALSE)
                   \/ /\ w.conn[s].state = "kDisconnecting"
                      /\ Entries(v.pending) = Entries(u.pending) \cup {<<"forceCloseInLoop", s>>}
                      /\ ConnIs(v.conn, w.conn, s, "kDisconnecting", w.conn[s].removed, FALSE)
                   \/ /\ w.conn[s].state \notin {"kConnected", "kDisconnecting"}
                      /\ v.pending = u.pending
                      /\ ConnIs(v.conn, w.conn, s, w.conn[s].state, w.conn[s].removed, FALSE)

\* What ~TcpClient() does, after the Connector has been stopped.
LEMMA DestroyIs ==
    ASSUME NEW w, Good(w), NEW u, u = stopInLoop(w), NEW v, v = destroy(w),
           NEW s, s = w.connection_
    PROVE  TornDown(v, u, w, s)
  <1> USE DEF TornDown
  <1> DEFINE c == [u EXCEPT !.client = FALSE]
             g == [c EXCEPT !.connection_ = 0]
             k == g.conn[s]
             r == [k EXCEPT !.closeCallback = FALSE]
             m == SetConn(g, s, r)
  <1>1. Good(u) /\ u.state_ # "kConnecting" /\ Stopped(u, w)
    BY StopKeeps, StopIs
  <1>2. v = IF s = 0 THEN CleanUp(g)
            ELSE IF w.conn[s].state = "kConnected" THEN connectDestroyed(m, s)
            ELSE forceClose(m, s)
    BY DEF destroy, SetConn
  <1>3. /\ Owned(g) /\ Good(g) /\ g.client = FALSE /\ g.connection_ = 0 /\ g.conn = u.conn /\ Quiet(g, u)
        /\ g.pending = u.pending /\ g.todo = u.todo
    BY <1>1, Zenon DEF Good, Owned, Fields, Quiet
  <1> HIDE DEF g
  <1>4. CASE s = 0
    <2>1. v = CleanUp(g)
      BY <1>2, <1>4
    <2>2. Released(v, g) /\ v.sockfd_ = 0
      BY <1>3, <2>1, CleanUpIs
    <2> QED
      BY <1>1, <1>3, <1>4, <2>2 DEF Released, Stopped, Quiet
  <1>5. CASE s # 0
    <2>1. s \in Live(g.conn) /\ s \in Live(w.conn) /\ k = w.conn[s] /\ LiveConn(k) /\ s \in Sockets
      <3>1. s \in Live(w.conn)
        BY <1>5 DEF Good, Owned
      <3>2. g.conn = w.conn
        BY <1>1, <1>3 DEF Stopped
      <3> QED
        BY <3>1, <3>2, LiveIs DEF Good
    <2> HIDE DEF k
    <2>2. LiveConn(r) /\ r.state = k.state /\ r.removed = k.removed /\ r.closeCallback = FALSE
      BY <2>1, Zenon DEF LiveConn
    <2> HIDE DEF r
    <2>3. /\ Quiet(m, g) /\ m.client = g.client /\ m.connection_ = g.connection_
          /\ m.pending = g.pending /\ m.todo = g.todo
          /\ ConnIs(m.conn, g.conn, s, r.state, r.removed, r.closeCallback)
          /\ Live(m.conn) = Live(g.conn) /\ Owned(m)
      BY <1>3, <2>1, <2>2, SetConnIs
    <2>4. ConnIs(m.conn, w.conn, s, k.state, k.removed, FALSE)
      BY <1>1, <1>3, <2>2, <2>3, Zenon DEF Stopped
    <2> HIDE DEF m
    <2>5. Good(m) /\ s \in Live(m.conn)
      BY <1>1, <1>3, <2>1, <2>3 DEF Good, Quiet
    <2>6. /\ m.conn[s].state = k.state /\ m.conn[s].removed = k.removed
          /\ m.conn[s].closeCallback = FALSE
      BY <2>4 DEF ConnIs
    <2>7. /\ m.client = FALSE /\ m.connection_ = 0 /\ m.todo = w.todo /\ Quiet(m, u)
          /\ m.pending = u.pending
      BY <1>1, <1>3, <2>3 DEF Stopped, Quiet
    <2>8. ASSUME NEW n, Quiet(n, m)
          PROVE  /\ Quiet(n, u) /\ n.kern = w.kern /\ n.made = w.made /\ n.outcomes = u.outcomes
                 /\ n.state_ = u.state_ /\ n.sockfd_ = 0
      BY <1>1, <2>7, <2>8 DEF Stopped, Quiet
    <2>9. ASSUME NEW d, NEW x, NEW y, NEW z, ConnIs(d, m.conn, s, x, y, z)
          PROVE  ConnIs(d, w.conn, s, x, y, z)
      BY <2>4, <2>9 DEF ConnIs
    <2>10. CASE k.state = "kConnected"
      <3>1. v = connectDestroyed(m, s)
        BY <1>2, <1>5, <2>1, <2>10
      <3>2. /\ Quiet(v, m) /\ v.client = m.client /\ v.connection_ = m.connection_
            /\ v.pending = m.pending /\ v.todo = m.todo
            /\ ConnIs(v.conn, m.conn, s,
                      IF m.conn[s].state = "kConnected" THEN "kDisconnected" ELSE m.conn[s].state,
                      TRUE, m.conn[s].closeCallback)
        BY <2>3, <2>5, <3>1, DestroyedIs, Zenon
      <3>3. ConnIs(v.conn, m.conn, s, "kDisconnected", TRUE, FALSE)
        BY <2>6, <2>10, <3>2, Zenon
      <3> QED
        BY <1>5, <2>1, <2>7, <2>8, <2>9, <2>10, <3>2, <3>3, Zenon
    <2>11. CASE k.state # "kConnected"
      <3>1. v = forceClose(m, s)
        BY <1>2, <1>5, <2>1, <2>11
      <3>2. \/ ~Closable(m, s) /\ v = m
            \/ /\ Closable(m, s) /\ Quiet(v, m) /\ v.client = m.client
               /\ v.connection_ = m.connection_ /\ v.todo = m.todo
               /\ Entries(v.pending) = Entries(m.pending) \cup {<<"forceCloseInLoop", s>>}
               /\ ConnIs(v.conn, m.conn, s, "kDisconnecting", m.conn[s].removed, m.conn[s].closeCallback)
        <4>1. ForceClosed(forceClose(m, s), m, s)
          BY <2>5, ForceClosedIs, Zenon
        <4> QED
          BY <3>1, <4>1, Zenon DEF ForceClosed
      <3>3. CASE ~Closable(m, s)
        <4>1. v = m /\ k.state \notin {"kConnected", "kDisconnecting"} /\ Quiet(m, m)
          BY <2>6, <3>2, <3>3 DEF Closable, Quiet
        <4> QED
          BY <1>5, <2>1, <2>4, <2>7, <2>8, <4>1, Zenon
      <3>4. CASE Closable(m, s)
        <4>1. k.state = "kDisconnecting"
          BY <2>6, <2>11, <3>4 DEF Closable
        <4>2. ConnIs(v.conn, m.conn, s, "kDisconnecting", k.removed, FALSE)
          BY <2>6, <3>2, <3>4, Zenon
        <4> QED
          BY <1>5, <2>1, <2>7, <2>8, <2>9, <3>2, <3>4, <4>1, <4>2, Zenon
      <3> QED
        BY <3>3, <3>4, Zenon
    <2> QED
      BY <2>10, <2>11, Zenon
  <1> QED
    BY <1>4, <1>5, Zenon

(***************************************************************************)
(* Outcomes.                                                               *)
(***************************************************************************)
Handlers == {"handleError", "handleWrite", "handleTimeout"}
Plain == {e \in Work : e[1] \notin Handlers \cup {"connect"}}

\* Each attempt so far has at most one outcome, of its own making.
Recorded(w) ==
    \A o \in w.outcomes :
        /\ o.attempt \in 1..w.made /\ o.cause = o.attempt /\ o.result # "syn"
        /\ \A p \in w.outcomes : p.attempt = o.attempt => p = o
\* The last one has none.
Fresh(w) == \A o \in w.outcomes : o.attempt # w.made
\* The Connector's socket, channel and deadline are those of the last attempt.
OwnSocket(w) ==
    /\ w.sockfd_ \in {0, w.made} /\ w.channel_ \in {0, w.sockfd_} /\ w.armed \in {0, w.sockfd_}
    /\ w.armed # 0 => w.timeoutId_ = w.armed
\* So are the events still to be handled, while the attempt lasts: they are handled in the part of
\* the iteration in which no attempt begins.
OwnEntries(w, part) ==
    /\ w.kern = [s \in Sockets |-> w.kern[s]]
    /\ \A e \in Entries(w.pending) : e[1] \notin Handlers
    /\ \A e \in Entries(w.todo) :
          /\ e[1] \in Handlers => part = "events" /\ (w.sockfd_ # 0 => e[2] = w.sockfd_)
          /\ e[1] = "handleWrite" => e[2] \in Sockets /\ w.kern[e[2]] # "syn"
          /\ e[1] = "connect" => part # "events"
Mine(w, part) ==
    /\ Recorded(w) /\ (w.sockfd_ # 0 => Fresh(w)) /\ OwnSocket(w) /\ OwnEntries(w, part)

\* An attempt that has no outcome gets one.
LEMMA RecordedKeeps ==
    ASSUME NEW w, Recorded(w), w.made \in Nat, NEW a \in Nat, a >= w.made, a >= 1,
           \A o \in w.outcomes : o.attempt # a, NEW result, result # "syn",
           NEW v, v.made = a,
           v.outcomes = w.outcomes \cup {[attempt |-> a, result |-> result, cause |-> a]}
    PROVE  Recorded(v)
  <1> DEFINE n == [attempt |-> a, result |-> result, cause |-> a]
  <1>1. n.attempt = a /\ n.cause = a /\ n.result = result
    OBVIOUS
  <1> HIDE DEF n
  <1>2. v.outcomes = w.outcomes \cup {n}
    BY DEF n
  <1>3. \A o \in w.outcomes : o.attempt \in 1..a
    BY DEF Recorded
  <1> QED
    BY <1>1, <1>2, <1>3 DEF Recorded

\* Handling what is not an event of the Connector leaves the outcomes alone.
LEMMA EntriesMine ==
    ASSUME NEW w, NEW part, OwnEntries(w, part), NEW v, v.kern = w.kern, v.sockfd_ \in {0, w.sockfd_},
           Entries(v.pending) \subseteq Entries(w.pending) \cup Plain,
           Entries(v.todo) \subseteq Entries(w.todo) \cup Plain
    PROVE  OwnEntries(v, part)
  BY DEF OwnEntries, Plain, Handlers

\* A queue grows by something that is not an event of the Connector.
LEMMA PlainGrows ==
    ASSUME NEW q \in Seq(Work), NEW f, NEW s, <<f, s>> \in Plain
    PROVE  Entries(<<<<f, s>>>> \o q) \subseteq Entries(q) \cup Plain
  <1> DEFINE e == <<f, s>>
  <1> HIDE DEF e
  <1>1. e \in Plain /\ e \in Work
    BY DEF Plain, e
  <1>2. Entries(<<e>> \o q) = Entries(q) \cup {e}
    BY <1>1, EntriesAre
  <1> QED
    BY <1>1, <1>2 DEF e

\* The functors and callbacks of the model are of this kind.
LEMMA PlainAre ==
    ASSUME NEW s \in 0..MaxAttempts
    PROVE  /\ <<"doomed", s>> \in Plain /\ <<"user", s>> \in Plain
           /\ <<"closeCallback", s>> \in Plain /\ <<"forceCloseInLoop", s>> \in Plain
           /\ <<"connectDestroyed", s>> \in Plain
  BY DEF Plain, Work, Names, Handlers

\* A failure is the outcome of the attempt it ends.
LEMMA FailMine ==
    ASSUME NEW w, Good(w), w.sockfd_ # 0, NEW part, Mine(w, part), NEW result, result # "syn",
           NEW v, v = fail(w, result, w.made)
    PROVE  Mine(v, part)
  <1>1. Failed(v, w, result, w.made)
    BY FailIs DEF Good
  <1>2. w.made \in Nat /\ w.made >= 1 /\ w.channel_ \in 0..MaxAttempts /\ 0 \in 0..MaxAttempts
    BY TcpClientAssumption DEF Good, Owned
  <1>3. Recorded(v)
    <2>1. /\ Recorded(w) /\ v.made = w.made /\ w.made >= w.made
          /\ v.outcomes = w.outcomes \cup {[attempt |-> w.made, result |-> result, cause |-> w.made]}
      BY <1>1, <1>2 DEF Mine, Failed
    <2>2. \A o \in w.outcomes : o.attempt # w.made
      BY DEF Mine, Fresh
    <2> QED
      BY <1>2, <2>1, <2>2, RecordedKeeps, Zenon
  <1>4. OwnSocket(v) /\ v.sockfd_ = 0
    BY <1>1 DEF Mine, OwnSocket, Failed
  <1>5. Entries(v.pending) \subseteq Entries(w.pending) \cup Plain
    BY <1>1, <1>2, PlainAre, Zenon DEF Failed
  <1>6. Entries(v.todo) \subseteq Entries(w.todo) \cup Plain
    <2>1. w.todo \in Seq(Work) /\ <<"user", 0>> \in Plain
      BY <1>2, QueuesAre, PlainAre, Zenon DEF Good
    <2>2. v.todo = <<<<"user", 0>>>> \o w.todo
      BY <1>1 DEF Failed
    <2> QED
      BY <2>1, <2>2, PlainGrows
  <1>7. OwnEntries(v, part)
    BY <1>1, <1>4, <1>5, <1>6, EntriesMine, Zenon DEF Mine, Failed
  <1> QED
    BY <1>3, <1>4, <1>7 DEF Mine

\* A new attempt has no outcome yet, and finds no event of an earlier one.
LEMMA StartMine ==
    ASSUME NEW w, Good(w), w.made < MaxAttempts, NEW part, Mine(w, part), part # "events",
           NEW how \in {"EMFILE", "ENETUNREACH", "EINPROGRESS"}
    PROVE  Mine(startInLoop(w, how), part)
  <1> DEFINE v == startInLoop(w, how)
  <1>1. \/ v = w
        \/ w.sockfd_ = 0 /\ (Begun(v, w) \/ BegunInVain(v, w, how))
    BY StartIs
  <1> SUFFICES Mine(v, part)
    OBVIOUS
  <1> HIDE DEF v
  <1>2. w.made \in Nat /\ w.made + 1 \in Nat /\ w.made + 1 >= 1 /\ 0 \in 0..MaxAttempts
    BY TcpClientAssumption DEF Good, Owned
  <1>3. \A o \in w.outcomes : o.attempt # w.made + 1 /\ o.attempt \in 1..w.made+1
    BY <1>2 DEF Mine, Recorded
  <1>4. CASE Begun(v, w)
    <2>1. Recorded(v)
      BY <1>3, <1>4 DEF Mine, Recorded, Begun
    <2>2. Fresh(v) /\ OwnSocket(v)
      BY <1>3, <1>4 DEF Fresh, OwnSocket, Begun
    <2>3. OwnEntries(v, part)
      BY <1>4 DEF Mine, OwnEntries, Begun
    <2> QED
      BY <2>1, <2>2, <2>3 DEF Mine
  <1>5. CASE w.sockfd_ = 0 /\ BegunInVain(v, w, how)
    <2>1. Recorded(v)
      <3>1. /\ w.made + 1 >= w.made /\ how # "syn" /\ Recorded(w) /\ v.made = w.made + 1
            /\ v.outcomes = w.outcomes \cup {[attempt |-> w.made + 1, result |-> how, cause |-> w.made + 1]}
        BY <1>2, <1>5 DEF Mine, BegunInVain
      <3>2. \A o \in w.outcomes : o.attempt # w.made + 1
        BY <1>3
      <3> DEFINE a == w.made + 1
      <3> HIDE DEF a
      <3> QED
        BY <1>2, <3>1, <3>2, RecordedKeeps, Zenon DEF a
    <2>2. OwnSocket(v) /\ v.sockfd_ = 0
      BY <1>5 DEF Mine, OwnSocket, BegunInVain
    <2>3. \A e \in Entries(v.pending) : e[1] \notin Handlers
      <3>1. PICK c : Entries(v.pending) \in {Entries(w.pending), Entries(w.pending) \cup {<<"doomed", c>>}}
        BY <1>5, Zenon DEF BegunInVain
      <3> QED
        BY <3>1 DEF Mine, OwnEntries, Handlers
    <2>4. Entries(v.todo) \subseteq Entries(w.todo) \cup Plain
      <3>1. w.todo \in Seq(Work) /\ <<"user", 0>> \in Plain
        BY <1>2, QueuesAre, PlainAre, Zenon DEF Good
      <3>2. v.todo = <<<<"user", 0>>>> \o w.todo
        BY <1>5 DEF BegunInVain
      <3> QED
        BY <3>1, <3>2, PlainGrows
    <2>5. OwnEntries(v, part)
      BY <1>5, <2>2, <2>3, <2>4 DEF Mine, OwnEntries, Plain, BegunInVain, Handlers
    <2> QED
      BY <2>1, <2>2, <2>5 DEF Mine
  <1> QED
    BY <1>1, <1>4, <1>5

\* stop() is the outcome of the attempt it ends.
LEMMA StopMine ==
    ASSUME NEW w, Good(w), NEW part, Mine(w, part), NEW v, v = stopInLoop(w)
    PROVE  Mine(v, part)
  <1>1. Stopped(v, w)
    BY StopIs
  <1>2. w.made \in Nat /\ w.channel_ \in 0..MaxAttempts
    BY TcpClientAssumption DEF Good, Owned
  <1>3. CASE w.state_ # "kConnecting"
    <2>1. w.sockfd_ = 0
      BY <1>3 DEF Good
    <2> QED
      BY <1>1, <1>3, <2>1 DEF Stopped, Mine, Recorded, OwnSocket, OwnEntries
  <1>4. CASE w.state_ = "kConnecting"
    <2>1. w.sockfd_ # 0 /\ w.made >= 1
      BY <1>4 DEF Good, Owned
    <2>2. Recorded(v)
      <3>1. /\ Recorded(w) /\ v.made = w.made /\ w.made >= w.made
            /\ v.outcomes = w.outcomes \cup {[attempt |-> w.made, result |-> "stopped", cause |-> w.made]}
        BY <1>1, <1>2, <1>4 DEF Mine, Stopped
      <3>2. \A o \in w.outcomes : o.attempt # w.made
        BY <2>1 DEF Mine, Fresh
      <3> QED
        BY <1>2, <2>1, <3>1, <3>2, RecordedKeeps
    <2>3. OwnSocket(v) /\ v.sockfd_ = 0
      BY <1>1, <1>4 DEF Mine, OwnSocket, Stopped
    <2>4. Entries(v.pending) \subseteq Entries(w.pending) \cup Plain /\ v.todo = w.todo
      BY <1>1, <1>2, <1>4, PlainAre, Zenon DEF Stopped
    <2>5. OwnEntries(v, part)
      BY <1>1, <2>3, <2>4, EntriesMine DEF Mine, Stopped
    <2> QED
      BY <2>2, <2>3, <2>5 DEF Mine
  <1> QED
    BY <1>3, <1>4

\* A connection is the outcome of the attempt whose handshake is over.
LEMMA FinishMine ==
    ASSUME NEW w, Good(w), w.state_ = "kConnecting", NEW part, Mine(w, part),
           w.kern[w.sockfd_] # "syn", NEW v, v = finishConnect(w, w.made)
    PROVE  Mine(v, part)
  <1>1. Finished(v, w, w.made)
    BY FinishIs
  <1>2. /\ w.made \in Nat /\ w.made >= 1 /\ w.channel_ \in 0..MaxAttempts /\ w.sockfd_ # 0
        /\ w.sockfd_ \in 0..MaxAttempts
    BY TcpClientAssumption DEF Good, Owned
  <1>3. Recorded(v)
    <2>1. /\ Recorded(w) /\ v.made = w.made /\ w.made >= w.made
          /\ v.outcomes = w.outcomes \cup
                 {[attempt |-> w.made, result |-> w.kern[w.sockfd_], cause |-> w.made]}
      BY <1>1, <1>2 DEF Mine, Finished
    <2>2. \A o \in w.outcomes : o.attempt # w.made
      BY <1>2 DEF Mine, Fresh
    <2> QED
      BY <1>2, <2>1, <2>2, RecordedKeeps, Zenon
  <1>4. OwnSocket(v) /\ v.sockfd_ = 0
    BY <1>1 DEF Mine, OwnSocket, Finished
  <1>5. Entries(v.pending) \subseteq Entries(w.pending) \cup Plain
    BY <1>1, <1>2, PlainAre, Zenon DEF Finished
  <1>6. Entries(v.todo) \subseteq Entries(w.todo) \cup Plain
    <2>1. w.todo \in Seq(Work) /\ <<"user", w.sockfd_>> \in Plain
      BY <1>2, QueuesAre, PlainAre, Zenon DEF Good
    <2>2. v.todo = <<<<"user", w.sockfd_>>>> \o w.todo
      BY <1>1 DEF Finished
    <2> QED
      BY <2>1, <2>2, PlainGrows
  <1>7. OwnEntries(v, part)
    BY <1>1, <1>4, <1>5, <1>6, EntriesMine, Zenon DEF Mine, Finished
  <1> QED
    BY <1>3, <1>4, <1>7 DEF Mine

\* The Connector's handlers.
LEMMA HandlersMine ==
    ASSUME NEW w, Good(w), NEW part, Mine(w, part), NEW s, w.sockfd_ # 0 => s = w.sockfd_
    PROVE  /\ Mine(handleError(w, s), part) /\ Mine(handleTimeout(w, s), part)
           /\ w.kern[s] # "syn" => Mine(handleWrite(w, s), part)
  <1>1. CASE w.state_ # "kConnecting"
    BY <1>1 DEF handleError, handleTimeout, handleWrite
  <1>2. CASE w.state_ = "kConnecting"
    <2>1. w.sockfd_ # 0 /\ s = w.made /\ s = w.sockfd_
      BY <1>2 DEF Good, Mine, OwnSocket
    <2>2. Mine(fail(w, "ECONNREFUSED", s), part) /\ Mine(fail(w, "ETIMEDOUT", s), part)
      BY <2>1, FailMine, Zenon
    <2>3. ASSUME w.kern[s] # "syn" PROVE Mine(finishConnect(w, s), part)
      BY <1>2, <2>1, <2>3, FinishMine, Zenon
    <2> QED
      BY <1>2, <2>2, <2>3 DEF handleError, handleTimeout, handleWrite
  <1> QED
    BY <1>1, <1>2

\* What leaves the Connector alone.
LEMMA QuietMine ==
    ASSUME NEW w, NEW part, Mine(w, part), NEW v, Quiet(v, w),
           Entries(v.pending) \subseteq Entries(w.pending) \cup Plain,
           Entries(v.todo) \subseteq Entries(w.todo) \cup Plain
    PROVE  Mine(v, part)
  <1>1. OwnEntries(v, part)
    BY EntriesMine DEF Quiet, Mine
  <1> QED
    BY <1>1 DEF Quiet, Mine, Recorded, Fresh, OwnSocket

\* The connection's handlers.
LEMMA ConnectionsMine ==
    ASSUME NEW w, Good(w), NEW part, Mine(w, part), NEW s \in Live(w.conn)
    PROVE  /\ Mine(forceClose(w, s), part) /\ Mine(handleClose(w, s), part)
           /\ Mine(connectDestroyed(w, s), part) /\ Mine(removeConnection(w, s), part)
  <1>1. s \in 0..MaxAttempts
    BY TcpClientAssumption DEF Live, Sockets
  <1>2. Mine(forceClose(w, s), part)
    <2> DEFINE v == forceClose(w, s)
    <2>1. \/ v = w
          \/ /\ Quiet(v, w) /\ v.todo = w.todo
             /\ Entries(v.pending) = Entries(w.pending) \cup {<<"forceCloseInLoop", s>>}
      <3>1. ForceClosed(v, w, s)
        BY ForceClosedIs, Zenon
      <3> HIDE DEF v
      <3> QED
        BY <3>1, Zenon DEF ForceClosed
    <2> HIDE DEF v
    <2>2. Mine(v, part)
      BY <1>1, <2>1, PlainAre, QuietMine, Zenon
    <2> QED
      BY <2>2 DEF v
  <1>3. Mine(handleClose(w, s), part)
    <2> DEFINE v == handleClose(w, s)
               q == <<<<"closeCallback", s>>>> \o w.todo
    <2>1. /\ Quiet(v, w) /\ v.pending = w.pending /\ v.todo = <<<<"user", s>>>> \o q
      BY HandleCloseIs
    <2> HIDE DEF v
    <2>2. w.todo \in Seq(Work) /\ <<"closeCallback", s>> \in Plain /\ <<"user", s>> \in Plain
      BY <1>1, QueuesAre, PlainAre, Zenon DEF Good
    <2>3. Entries(q) \subseteq Entries(w.todo) \cup Plain
      BY <2>2, PlainGrows
    <2>4. q \in Seq(Work)
      <3>1. <<"closeCallback", s>> \in Work
        BY <2>2 DEF Plain
      <3> QED
        BY <2>2, <3>1
    <2> HIDE DEF q
    <2>5. Entries(v.todo) \subseteq Entries(w.todo) \cup Plain
      BY <2>1, <2>2, <2>3, <2>4, PlainGrows
    <2>6. Mine(v, part)
      BY <2>1, <2>5, QuietMine, Zenon
    <2> QED
      BY <2>6 DEF v
  <1>4. Mine(connectDestroyed(w, s), part)
    <2> DEFINE v == connectDestroyed(w, s)
    <2>1. Quiet(v, w) /\ v.pending = w.pending /\ v.todo = w.todo
      BY DestroyedIs, Zenon DEF Good
    <2> HIDE DEF v
    <2>2. Mine(v, part)
      BY <2>1, QuietMine
    <2> QED
      BY <2>2 DEF v
  <1>5. Mine(removeConnection(w, s), part)
    <2> DEFINE v == removeConnection(w, s)
    <2>1. /\ Quiet(v, w) /\ v.todo = w.todo
          /\ Entries(v.pending) = Entries(w.pending) \cup {<<"connectDestroyed", s>>}
      BY RemoveConnectionIs
    <2> HIDE DEF v
    <2>2. Mine(v, part)
      BY <1>1, <2>1, PlainAre, QuietMine, Zenon
    <2> QED
      BY <2>2 DEF v
  <1> QED
    BY <1>2, <1>3, <1>4, <1>5

\* The calls of the application that begin no attempt.
LEMMA CallsMine ==
    ASSUME NEW w, Good(w), NEW part, Mine(w, part)
    PROVE  Mine(disconnect(w), part) /\ Mine(stop(w), part) /\ Mine(destroy(w), part)
  <1> DEFINE s == w.connection_
             u == stopInLoop(w)
  <1>1. Good(u) /\ u.conn = w.conn /\ u.connection_ = s /\ Mine(u, part)
    BY StopKeeps, StopMine
  <1>2. s # 0 => s \in Live(w.conn) /\ s \in 0..MaxAttempts
    BY TcpClientAssumption DEF Good, Owned, Live, Sockets
  <1>3. u.channel_ \in 0..MaxAttempts
    BY <1>1 DEF Good, Owned
  <1>4. Mine(disconnect(w), part)
    <2> DEFINE v == disconnect(w)
    <2>1. CASE s = 0
      BY <1>1, <2>1 DEF disconnect
    <2>2. CASE s # 0
      <3>1. Quiet(v, w) /\ v.pending = w.pending /\ v.todo = w.todo
        BY <2>2, DisconnectIs
      <3> HIDE DEF v
      <3>2. Mine(v, part)
        BY <3>1, QuietMine
      <3> QED
        BY <3>2 DEF v
    <2> QED
      BY <2>1, <2>2
  <1>5. Mine(stop(w), part)
    <2>1. stop(w) = IF s = 0 THEN u ELSE forceClose(u, s)
      BY DEF stop
    <2> HIDE DEF u, s
    <2>2. s # 0 => Mine(forceClose(u, s), part)
      BY <1>1, <1>2, ConnectionsMine
    <2> QED
      BY <1>1, <2>1, <2>2
  <1>6. Mine(destroy(w), part)
    <2> DEFINE v == destroy(w)
    <2> SUFFICES Mine(v, part)
      OBVIOUS
    <2>1. TornDown(v, u, w, s)
      BY DestroyIs
    <2>2. Stopped(u, w)
      BY StopIs
    <2> HIDE DEF u, v, s
    <2>3. Entries(v.pending) \subseteq Entries(u.pending) \cup Plain /\ v.todo = u.todo /\ v.kern = u.kern
      BY <1>2, <1>3, <2>1, <2>2, PlainAre, Zenon DEF Stopped, TornDown
    <2>4. CASE s # 0
      BY <1>1, <2>1, <2>3, <2>4, QuietMine DEF TornDown
    <2>5. CASE s = 0
      <3>1. OwnEntries(v, part)
        BY <1>1, <2>1, <2>3, EntriesMine DEF Mine, TornDown
      <3>2. OwnSocket(v)
        BY <1>1, <2>1, <2>5 DEF Mine, OwnSocket, TornDown
      <3>3. Recorded(v)
        BY <1>1, <2>1, <2>2 DEF Mine, Recorded, Stopped, TornDown
      <3> QED
        BY <2>1, <3>1, <3>2, <3>3 DEF Mine, TornDown
    <2> QED
      BY <2>4, <2>5
  <1> QED
    BY <1>4, <1>5, <1>6

\* The fields of the whole that the Connector's outcomes depend on.
LEMMA WholeHas ==
    /\ Whole.client = client /\ Whole.timeoutId_ = timeoutId_ /\ Whole.kern = kern
    /\ Whole.outcomes = outcomes
    /\ Whole'.client = client' /\ Whole'.timeoutId_ = timeoutId_' /\ Whole'.kern = kern'
    /\ Whole'.outcomes = outcomes'
  BY DEF Whole

\* The end of a connection leaves the outcomes alone.
LEMMA BecomesMine ==
    ASSUME NEW w, NEW part, Mine(w, part), Becomes(w)
    PROVE  Mine(Whole', part)
  <1>1. /\ state_' = w.state_ /\ sockfd_' = w.sockfd_ /\ channel_' = w.channel_
        /\ timeoutId_' = w.timeoutId_ /\ kern' = w.kern /\ armed' = w.armed /\ made' = w.made
        /\ pending' = w.pending /\ todo' = w.todo /\ outcomes' = w.outcomes
    BY Zenon DEF Becomes
  <1>2. Quiet(Whole', w) /\ Whole'.pending = w.pending /\ Whole'.todo = w.todo
    BY <1>1, WholeNext, WholeHas DEF Quiet
  <1> QED
    BY <1>2, QuietMine

\* So do steps that leave the Connector as it is.
LEMMA SameMine ==
    ASSUME NEW part, Mine(Whole, part), UNCHANGED <<connectorVars, outcomes, pending, todo>>
    PROVE  Mine(Whole', part)
  <1>1. /\ state_' = state_ /\ sockfd_' = sockfd_ /\ channel_' = channel_
        /\ timeoutId_' = timeoutId_ /\ kern' = kern /\ armed' = armed /\ made' = made
        /\ pending' = pending /\ todo' = todo /\ outcomes' = outcomes
    BY Zenon DEF connectorVars
  <1>2. Quiet(Whole', Whole) /\ Whole'.pending = Whole.pending /\ Whole'.todo = Whole.todo
    BY <1>1, WholeIs, WholeNext, WholeHas DEF Quiet
  <1> QED
    BY <1>2, QuietMine

OwnInv == Mine(Whole, phase)

\* What the head of the queue may be.
LEMMA HeadMine ==
    ASSUME Good(Whole), OwnInv, todo # <<>>
    PROVE  LET w == [Whole EXCEPT !.todo = Tail(@)]
               f == Head(todo)[1]
               s == Head(todo)[2]
           IN  /\ Mine(w, phase) /\ w.kern = kern
               /\ f \in Handlers => (w.sockfd_ # 0 => s = w.sockfd_)
               /\ f = "handleWrite" => kern[s] # "syn"
               /\ f = "connect" => phase # "events"
  <1> DEFINE w == [Whole EXCEPT !.todo = Tail(@)]
  <1>1. todo \in Seq(Work) /\ Whole.todo = todo
    BY QueuesAre, WholeIs DEF Good
  <1>2. Head(todo) \in Work
    BY <1>1
  <1>3. Entries(todo) = Entries(Tail(todo)) \cup {Head(todo)}
    BY <1>1, <1>2, EntriesAre, Zenon
  <1> HIDE DEF Whole
  <1>4. Quiet(w, Whole) /\ w.pending = Whole.pending /\ w.todo = Tail(todo)
    BY <1>1 DEF Quiet, Good, Owned, Fields
  <1> HIDE DEF w
  <1>5. Mine(w, phase)
    BY <1>1, <1>3, <1>4, QuietMine, Zenon DEF OwnInv
  <1>6. w.kern = kern /\ Whole.kern = kern /\ w.sockfd_ = Whole.sockfd_
    BY <1>4, WholeHas DEF Quiet
  <1>7. Head(todo) \in Entries(Whole.todo)
    BY <1>1, <1>3
  <1> QED
    BY <1>5, <1>6, <1>7 DEF OwnInv, Mine, OwnEntries, w

\* A handler or a functor.
LEMMA RunMine ==
    ASSUME Inv, OwnInv, Run
    PROVE  OwnInv'
  <1> DEFINE f == Head(todo)[1]
             s == Head(todo)[2]
             w == [Whole EXCEPT !.todo = Tail(@)]
  <1>0. Running /\ Good(Whole) /\ todo # <<>> /\ phase' = phase
    BY Zenon DEF Run, Inv
  <1>1. Head(todo) \in Entry(Live(conn)) /\ Good(w) /\ w.conn = conn /\ w.made = made
    BY <1>0, HeadAndTail
  <1>2. f \in Names /\ s \in 0..MaxAttempts /\ (f = "handleRead" => s \in Sockets)
        /\ (f \in {"closeCallback", "connectDestroyed", "forceCloseInLoop"} => s \in Live(conn))
    <2> HIDE DEF w
    <2> QED
      BY <1>1 DEF Entry, Holders
  <1>3. /\ Mine(w, phase) /\ w.kern = kern
        /\ f \in Handlers => (w.sockfd_ # 0 => s = w.sockfd_)
        /\ f = "handleWrite" => kern[s] # "syn"
        /\ f = "connect" => phase # "events"
    BY <1>0, HeadMine
  <1> SUFFICES Mine(Whole', phase)
    BY <1>0 DEF OwnInv
  <1>4. ASSUME NEW at, Crash(at) PROVE Mine(Whole', phase)
    <2>1. UNCHANGED <<connectorVars, outcomes, pending, todo>>
      BY <1>4, Zenon DEF Crash
    <2> QED
      BY <2>1, SameMine DEF OwnInv
  <1>5. CASE f \in Handlers
    <2>1. \/ Crash(f) \/ Becomes(handleError(w, s)) \/ Becomes(handleTimeout(w, s))
          \/ f = "handleWrite" /\ Becomes(handleWrite(w, s))
      BY <1>5, Zenon DEF Run, Handlers
    <2> HIDE DEF f, s, w
    <2>2. /\ Mine(handleError(w, s), phase) /\ Mine(handleTimeout(w, s), phase)
          /\ f = "handleWrite" => Mine(handleWrite(w, s), phase)
      BY <1>1, <1>3, <1>5, HandlersMine
    <2> QED
      BY <2>1, <2>2, <1>4, BecomesMine
  <1>6. CASE f = "handleRead"
    <2>1. \/ Crash("handleClose") \/ Becomes(w)
          \/ conn[s] # NoConn /\ Becomes(handleClose(w, s))
      BY <1>6, Zenon DEF Run
    <2>2. conn[s] # NoConn => s \in Live(w.conn)
      BY <1>1, <1>2, <1>6 DEF Live
    <2> HIDE DEF f, s, w
    <2>3. conn[s] # NoConn => Mine(handleClose(w, s), phase)
      BY <1>1, <1>3, <2>2, ConnectionsMine
    <2> QED
      BY <1>3, <2>1, <2>3, <1>4, BecomesMine
  <1>7. CASE f \in {"closeCallback", "connectDestroyed", "forceCloseInLoop"}
    <2>1. \/ Becomes(w) \/ Becomes(removeConnection(w, s)) \/ Becomes(handleClose(w, s))
          \/ Becomes(connectDestroyed(w, s))
      BY <1>7, Zenon DEF Run
    <2>2. s \in Live(w.conn)
      BY <1>1, <1>2, <1>7
    <2> HIDE DEF f, s, w
    <2>3. /\ Mine(removeConnection(w, s), phase) /\ Mine(handleClose(w, s), phase)
          /\ Mine(connectDestroyed(w, s), phase)
      BY <1>1, <1>3, <2>2, ConnectionsMine
    <2> QED
      BY <1>3, <2>1, <2>3, BecomesMine
  <1>8. CASE f \in {"doomed", "user"}
    <2>1. Becomes(w)
      BY <1>8, Zenon DEF Run
    <2> HIDE DEF f, s, w
    <2> QED
      BY <1>3, <2>1, BecomesMine
  <1>9. CASE f \in {"disconnect", "stop"}
    <2>1. Becomes(disconnect(w)) \/ Becomes(stop(w))
      BY <1>9, Zenon DEF Run, Call
    <2> HIDE DEF f, s, w
    <2> QED
      BY <1>1, <1>3, <2>1, CallsMine, BecomesMine
  <1>10. CASE f = "connect"
    <2>1. Becomes(w) \/ \E how \in Hows : Becomes(startInLoop(w, how))
      BY <1>10, Zenon DEF Run, Call
    <2> HIDE DEF s, w
    <2>2. ASSUME NEW how \in Hows PROVE Mine(startInLoop(w, how), phase)
      <3>1. made < MaxAttempts /\ how \in {"EMFILE", "ENETUNREACH", "EINPROGRESS"}
        BY <2>2 DEF Hows
      <3> QED
        BY <1>1, <1>3, <1>10, <3>1, StartMine
    <2> QED
      BY <1>3, <2>1, <2>2, BecomesMine
  <1> QED
    BY <1>2, <1>5, <1>6, <1>7, <1>8, <1>9, <1>10 DEF Names, Handlers

\* A poll finds events of the present attempt.
LEMMA PollMine ==
    ASSUME Inv, OwnInv, Poll
    PROVE  OwnInv'
  <1>0. /\ Running /\ Good(Whole) /\ phase' = "events"
    BY Zenon DEF Poll, Inv
  <1> DEFINE E == {e \in Work : /\ e[1] \in Handlers => (sockfd_ # 0 => e[2] = sockfd_)
                                /\ e[1] = "handleWrite" => e[2] \in Sockets /\ kern[e[2]] # "syn"
                                /\ e[1] # "connect"}
  <1>1. /\ channel_ \in 0..MaxAttempts /\ armed \in 0..MaxAttempts /\ 0 \in 0..MaxAttempts
        /\ channel_ # 0 => channel_ \in Sockets
    BY <1>0, WholeIs, TcpClientAssumption DEF Good, Owned, Sockets
  <1>2. channel_ \in {0, sockfd_} /\ armed \in {0, sockfd_}
    BY WholeIs DEF OwnInv, Mine, OwnSocket
  <1>3. /\ <<"user", 0>> \in E
        /\ channel_ # 0 /\ kern[channel_] # "syn" =>
               <<"handleError", channel_>> \in E /\ <<"handleWrite", channel_>> \in E
        /\ armed # 0 => <<"handleTimeout", armed>> \in E
        /\ \A s \in Sockets : <<"handleRead", s>> \in E
    BY <1>1, <1>2, TcpClientAssumption DEF Handlers, Work, Names, Sockets
  <1> HIDE DEF E
  <1>4. todo' \in Seq(E)
    BY <1>3, PollFinds
  <1>5. Entries(todo') \subseteq E
    BY <1>4 DEF Entries
  <1>6. /\ state_' = state_ /\ sockfd_' = sockfd_ /\ channel_' = channel_
        /\ timeoutId_' = timeoutId_ /\ kern' = kern /\ made' = made
        /\ pending' = pending /\ outcomes' = outcomes /\ (armed' = 0 \/ armed' = armed)
    BY Zenon DEF Poll
  <1>7. OwnEntries(Whole', "events")
    BY <1>5, <1>6, WholeIs, WholeNext, WholeHas DEF OwnInv, Mine, OwnEntries, E
  <1>8. OwnSocket(Whole') /\ Recorded(Whole') /\ (Whole'.sockfd_ # 0 => Fresh(Whole'))
    BY <1>6, WholeIs, WholeNext, WholeHas, Zenon DEF OwnInv, Mine, OwnSocket, Recorded, Fresh
  <1>9. Mine(Whole', phase')
    BY <1>0, <1>7, <1>8 DEF Mine
  <1> QED
    BY <1>9 DEF OwnInv

\* The functors are no events, and neither is what another thread posts.
LEMMA QueuesMine ==
    ASSUME Inv, OwnInv, Turn \/ \E call \in {"connect", "disconnect", "stop"} : Post(call)
    PROVE  OwnInv'
  <1>0. Running /\ Good(Whole)
    BY Zenon DEF Turn, Post, Inv
  <1>1. /\ state_' = state_ /\ sockfd_' = sockfd_ /\ channel_' = channel_ /\ armed' = armed
        /\ timeoutId_' = timeoutId_ /\ kern' = kern /\ made' = made /\ outcomes' = outcomes
    BY Zenon DEF Turn, Post, connectorVars
  <1>2. OwnSocket(Whole') /\ Recorded(Whole') /\ (Whole'.sockfd_ # 0 => Fresh(Whole'))
    BY <1>1, WholeIs, WholeNext, WholeHas DEF OwnInv, Mine, OwnSocket, Recorded, Fresh
  <1>3. OwnEntries(Whole', phase')
    <2>0. OwnEntries(Whole, phase) /\ Whole.kern = kern /\ Whole'.kern = kern
      BY <1>1, WholeHas DEF OwnInv, Mine
    <2>1. CASE Turn /\ phase = "events"
      <3>1. phase' = "functors" /\ todo' = pending /\ pending' = <<>>
        BY <2>1, Zenon DEF Turn
      <3>2. Entries(pending') = {}
        BY <3>1 DEF Entries
      <3> QED
        BY <2>0, <3>1, <3>2, WholeIs, WholeNext DEF OwnEntries, Handlers
    <2>2. CASE Turn /\ phase # "events"
      <3>1. phase' = "poll" /\ todo' = <<>> /\ todo = <<>> /\ pending' = pending
        BY <2>2, Zenon DEF Turn
      <3>2. Entries(todo') = {}
        BY <3>1 DEF Entries
      <3> QED
        BY <2>0, <3>1, <3>2, WholeIs, WholeNext DEF OwnEntries
    <2>3. ASSUME NEW call \in {"connect", "disconnect", "stop"}, Post(call)
          PROVE  OwnEntries(Whole', phase')
      <3>1. phase' = phase /\ pending' = Append(pending, <<call, 0>>) /\ todo' = todo
        BY <2>3, Zenon DEF Post
      <3>2. <<call, 0>> \in Work /\ pending \in Seq(Work)
        BY <1>0, QueuesAre, WholeIs, TcpClientAssumption DEF Good, Work, Names
      <3>3. Entries(pending') = Entries(pending) \cup {<<call, 0>>}
        BY <3>1, <3>2, EntriesAre, Zenon
      <3> QED
        <4>1. \A e \in Entries(pending) : e[1] \notin Handlers
          BY <2>0, WholeIs DEF OwnEntries
        <4>2. \A e \in Entries(pending') : e[1] \notin Handlers
          BY <3>3, <4>1 DEF Handlers
        <4>3. Whole'.pending = pending' /\ Whole'.todo = Whole.todo /\ Whole'.sockfd_ = Whole.sockfd_
          BY <1>1, <3>1, WholeIs, WholeNext
        <4> HIDE DEF Whole
        <4> QED
          BY <2>0, <3>1, <4>2, <4>3, Zenon DEF OwnEntries
    <2> QED
      BY <2>1, <2>2, <2>3
  <1>4. Mine(Whole', phase')
    BY <1>2, <1>3 DEF Mine
  <1> QED
    BY <1>4 DEF OwnInv

\* The application's calls from a callback, when connect() is not among them.
LEMMA UserMine ==
    ASSUME Inv, OwnInv, NEW call \in CallbackCalls, call # "connect", UserCalls(call)
    PROVE  OwnInv'
  <1>0. Running /\ Good(Whole) /\ phase' = phase
    BY Zenon DEF UserCalls, Inv
  <1>1. PICK how : Becomes(Call(Whole, call, how))
    BY Zenon DEF UserCalls
  <1>2. call \in {"disconnect", "stop", "destroy"}
    BY TcpClientAssumption
  <1>3. Mine(Call(Whole, call, how), phase)
    BY <1>0, <1>2, CallsMine DEF Call, OwnInv
  <1>4. Mine(Whole', phase')
    BY <1>0, <1>1, <1>3, BecomesMine
  <1> QED
    BY <1>4 DEF OwnInv

\* The network completes a handshake once.
LEMMA OtherMine ==
    ASSUME OwnInv,
           \/ \E s \in Sockets, answer \in {"up", "self", "refused", "fin"} : Answer(s, answer)
           \/ UNCHANGED vars
    PROVE  OwnInv'
  <1>1. CASE UNCHANGED vars
    <2>1. UNCHANGED <<connectorVars, outcomes, pending, todo>> /\ phase' = phase
      BY <1>1, Zenon DEF vars
    <2> QED
      BY <2>1, SameMine DEF OwnInv
  <1>2. ASSUME NEW s \in Sockets, NEW answer \in {"up", "self", "refused", "fin"}, Answer(s, answer)
        PROVE  OwnInv'
    <2>1. /\ state_' = state_ /\ sockfd_' = sockfd_ /\ channel_' = channel_ /\ armed' = armed
          /\ timeoutId_' = timeoutId_ /\ made' = made /\ outcomes' = outcomes
          /\ pending' = pending /\ todo' = todo /\ phase' = phase
          /\ kern' = [kern EXCEPT ![s] = answer]
      BY <1>2, Zenon DEF Answer
    <2>2. kern = [x \in Sockets |-> kern[x]] /\ OwnEntries(Whole, phase)
      BY WholeHas DEF OwnInv, Mine, OwnEntries
    <2>3. kern' = [x \in Sockets |-> kern'[x]]
      BY <2>1, <2>2
    <2>4. \A x \in Sockets : kern[x] # "syn" => kern'[x] # "syn"
      BY <2>1, <2>2
    <2>5. OwnEntries(Whole', phase')
      BY <2>1, <2>2, <2>3, <2>4, WholeIs, WholeNext, WholeHas, Zenon DEF OwnEntries
    <2>6. OwnSocket(Whole') /\ Recorded(Whole') /\ (Whole'.sockfd_ # 0 => Fresh(Whole'))
      BY <2>1, WholeIs, WholeNext, WholeHas DEF OwnInv, Mine, OwnSocket, Recorded, Fresh
    <2>7. Mine(Whole', phase')
      BY <2>5, <2>6 DEF Mine
    <2> QED
      BY <2>7 DEF OwnInv
  <1> QED
    BY <1>1, <1>2

\* At first nothing has been attempted.
LEMMA OwnInit == Init => OwnInv
  <1> SUFFICES ASSUME Init PROVE Mine(Whole, phase)
    BY DEF OwnInv
  <1>1. /\ sockfd_ = 0 /\ channel_ = 0 /\ armed = 0 /\ made = 0 /\ pending = <<>> /\ todo = <<>>
        /\ outcomes = {} /\ kern = [s \in Sockets |-> "syn"]
    BY Zenon DEF Init
  <1>2. Entries(pending) = {} /\ Entries(todo) = {} /\ kern = [s \in Sockets |-> kern[s]]
    BY <1>1 DEF Entries
  <1> QED
    BY <1>1, <1>2, WholeIs, WholeHas DEF Mine, Recorded, Fresh, OwnSocket, OwnEntries

(***************************************************************************)
(* An attempt has at most one outcome, which its own event, deadline or    *)
(* stop() decided, as long as no callback of the application calls         *)
(* connect(): run from the events of an iteration it begins an attempt     *)
(* that a handler left over from the last one may end.                     *)
(***************************************************************************)
THEOREM OutcomesAreOwn ==
    ASSUME "connect" \notin CallbackCalls
    PROVE  Spec => []OutcomeIsOwn
  <1>1. Inv /\ OwnInv /\ [Next]_vars => OwnInv'
    BY PollMine, QueuesMine, RunMine, UserMine, OtherMine, Zenon DEF Next
  <1>2. OwnInv => OutcomeIsOwn
    BY WholeHas DEF OwnInv, Mine, Recorded, OutcomeIsOwn
  <1> QED
    BY <1>1, <1>2, InvInit, InvStep, OwnInit, PTL DEF Spec

(***************************************************************************)
(* The failures.                                                           *)
(***************************************************************************)
\* What is left to do, now or in the next iteration.
Queued(w) == Entries(w.pending) \cup Entries(w.todo)

\* What may be left to do beside the event of a connection.
Timers == {e \in Work : e[1] = "handleTimeout" \/ e = <<"user", 0>>}
Lone(q) == \A i, j \in DOMAIN q : i # j /\ q[i][1] = "handleRead" => q[j] \in Timers

\* The record r of connection s, when the client has connection_ and the entries of Q are queued.
\* It is closed by what is queued, unless the client was destroyed while it was closing.
ConnFine(r, s, connection, exists, Q) ==
    /\ r.state \in {"kConnected", "kDisconnecting", "kDisconnected"}
    /\ r.removed \in BOOLEAN /\ r.closeCallback \in BOOLEAN
    /\ r.state = "kConnected" => connection = s
    /\ r.state = "kDisconnecting" => connection = s \/ <<"forceCloseInLoop", s>> \in Q
    /\ r.state = "kDisconnected" /\ r.removed = FALSE =>
           <<"closeCallback", s>> \in Q \/ <<"connectDestroyed", s>> \in Q \/ r.closeCallback = FALSE
    /\ r.closeCallback = FALSE => exists = FALSE
    /\ <<"closeCallback", s>> \in Q => r.state = "kDisconnected"
    /\ <<"connectDestroyed", s>> \in Q => r.state = "kDisconnected"
    /\ <<"forceCloseInLoop", s>> \in Q => r.state # "kConnected"

\* The Connector makes one connection at most: it remains kConnected.  A destroyed client has no
\* attempt and no call of connect() left; p says whether it existed at the last poll.
ConnsFine(w, Q) ==
    \A s \in Live(w.conn) :
        /\ w.state_ = "kConnected" /\ \A t \in Live(w.conn) : t = s
        /\ ConnFine(w.conn[s], s, w.connection_, w.client, Q)
Rest(w, p) ==
    /\ OwnSocket(w)
    /\ \A e \in Entries(w.pending) : e[1] \notin {"handleRead", "user", "closeCallback"} \cup Handlers
    /\ Lone(w.todo)
    /\ w.client \in BOOLEAN
    /\ w.client = FALSE => w.sockfd_ = 0 /\ \A e \in Queued(w) : e[1] # "connect"
    /\ \A e \in Entries(w.todo) : e[1] \in Handlers => p = TRUE
Fine(w, p, Q) == ConnsFine(w, Q) /\ Rest(w, p)

\* An event of a connection is found by it ...
Strong(w) == \A s \in Live(w.conn) : <<"handleRead", s>> \in Entries(w.todo) => Closable(w, s)
\* ... if nothing has just let go of it.
Weak(w) ==
    \A s \in Live(w.conn) : <<"handleRead", s>> \in Entries(w.todo) => Closable(w, s) \/ ~Held(w, s)

SafeInv ==
    /\ Running => Fine(Whole, polled, Queued(Whole)) /\ Strong(Whole) /\ (phase = "poll" => todo = <<>>)
    /\ OnlyKnownFailures

NoRead(q) == \A e \in Entries(q) : e[1] # "handleRead"
Posted == {e \in Work : e[1] \in {"doomed", "forceCloseInLoop", "connectDestroyed"}}
Closers == {"closeCallback", "connectDestroyed", "forceCloseInLoop"}

\* What is done next is no event of a connection.
LEMMA LonePrepend ==
    ASSUME NEW q \in Seq(Work), Lone(q), NEW e \in Work, e[1] # "handleRead",
           e \in Timers \/ NoRead(q)
    PROVE  Lone(<<e>> \o q)
  <1> DEFINE p == <<e>> \o q
  <1>1. Len(q) \in Nat /\ DOMAIN q = 1..Len(q) /\ DOMAIN p = 1..Len(q)+1
    OBVIOUS
  <1>2. p[1] = e /\ \A i \in 1..Len(q) : p[i+1] = q[i]
    OBVIOUS
  <1>3. \A i \in 2..Len(q)+1 : i - 1 \in 1..Len(q) /\ p[i] = q[i-1]
    BY <1>1, <1>2
  <1> HIDE DEF p
  <1> SUFFICES ASSUME NEW i \in DOMAIN p, NEW j \in DOMAIN p, i # j, p[i][1] = "handleRead"
               PROVE  p[j] \in Timers
    BY DEF Lone, p
  <1>4. i \in 2..Len(q)+1
    BY <1>1, <1>2
  <1>5. i - 1 \in DOMAIN q /\ q[i-1][1] = "handleRead" /\ ~NoRead(q)
    BY <1>1, <1>3, <1>4 DEF NoRead, Entries
  <1>6. CASE j = 1
    BY <1>2, <1>5, <1>6
  <1>7. CASE j # 1
    <2>1. j \in 2..Len(q)+1
      BY <1>1, <1>7
    <2>2. j - 1 \in DOMAIN q /\ p[j] = q[j-1] /\ j - 1 # i - 1
      BY <1>1, <1>3, <1>4, <2>1
    <2> QED
      BY <1>5, <2>2 DEF Lone
  <1> QED
    BY <1>6, <1>7

\* What is left after the first.
LEMMA LoneTail ==
    ASSUME NEW q \in Seq(Work), Lone(q), q # <<>>
    PROVE  /\ Lone(Tail(q))
           /\ Head(q)[1] = "handleRead" => NoRead(Tail(q))
           /\ Head(q) \notin Timers => NoRead(Tail(q))
  <1> DEFINE p == Tail(q)
  <1>1. Len(q) \in Nat \ {0} /\ DOMAIN q = 1..Len(q) /\ DOMAIN p = 1..Len(q)-1
    OBVIOUS
  <1>2. q[1] = Head(q) /\ \A i \in 1..Len(q)-1 : p[i] = q[i+1]
    OBVIOUS
  <1> HIDE DEF p
  <1>3. 1 \in DOMAIN q /\ \A i \in DOMAIN p : i + 1 \in DOMAIN q /\ p[i] = q[i+1] /\ i + 1 # 1
    BY <1>1, <1>2
  <1>4. Lone(p)
    <2> SUFFICES ASSUME NEW i \in DOMAIN p, NEW j \in DOMAIN p, i # j, p[i][1] = "handleRead"
                 PROVE  p[j] \in Timers
      BY DEF Lone
    <2>1. i + 1 # j + 1
      BY <1>1
    <2> QED
      BY <1>3, <2>1 DEF Lone
  <1>5. ASSUME Head(q)[1] = "handleRead" PROVE NoRead(p)
    <2>1. \A i \in DOMAIN p : p[i] \in Timers
      BY <1>2, <1>3, <1>5 DEF Lone
    <2>2. \A e \in Timers : e[1] # "handleRead"
      BY DEF Timers
    <2> QED
      BY <2>1, <2>2 DEF NoRead, Entries
  <1>6. ASSUME Head(q) \notin Timers PROVE NoRead(p)
    <2>1. \A i \in DOMAIN p : p[i][1] # "handleRead"
      BY <1>2, <1>3, <1>6 DEF Lone
    <2> QED
      BY <2>1 DEF NoRead, Entries
  <1> QED
    BY <1>4, <1>5, <1>6 DEF p

\* The rest of the invariant, when the client is not destroyed.
LEMMA RestKeeps ==
    ASSUME NEW w, NEW p, Rest(w, p), NEW v, OwnSocket(v), v.client = w.client,
           v.sockfd_ \in {0, w.sockfd_} \/ w.client = TRUE,
           Entries(v.pending) \subseteq Entries(w.pending) \cup Posted,
           Entries(v.todo) \subseteq Entries(w.todo) \cup Plain, Lone(v.todo)
    PROVE  Rest(v, p)
  <1>1. \A e \in Posted : e[1] \notin {"handleRead", "user", "closeCallback", "connect"} \cup Handlers
    BY DEF Posted, Handlers
  <1>2. \A e \in Plain : e[1] \notin {"connect"} \cup Handlers
    BY DEF Plain
  <1> QED
    BY <1>1, <1>2 DEF Rest, Queued

\* The connections, when none changes and nothing is queued or done that closes one.
LEMMA ConnsSame ==
    ASSUME NEW w, NEW Q, ConnsFine(w, Q), NEW v, NEW R, v.conn = w.conn,
           v.connection_ = w.connection_, v.client = w.client,
           w.state_ = "kConnected" => v.state_ = "kConnected",
           \A e : e[1] \in Closers => (e \in Q <=> e \in R)
    PROVE  ConnsFine(v, R)
  <1>1. ASSUME NEW s
        PROVE  /\ <<"closeCallback", s>> \in Q <=> <<"closeCallback", s>> \in R
               /\ <<"connectDestroyed", s>> \in Q <=> <<"connectDestroyed", s>> \in R
               /\ <<"forceCloseInLoop", s>> \in Q <=> <<"forceCloseInLoop", s>> \in R
    BY DEF Closers
  <1> QED
    BY <1>1, Zenon DEF ConnsFine, ConnFine

\* The connections, when the one there is changes.
LEMMA ConnsOne ==
    ASSUME NEW w, NEW Q, ConnsFine(w, Q), NEW s \in Live(w.conn), NEW v, NEW R,
           NEW x, NEW y, NEW z, ConnIs(v.conn, w.conn, s, x, y, z),
           v.state_ = w.state_, ConnFine(v.conn[s], s, v.connection_, v.client, R)
    PROVE  ConnsFine(v, R) /\ Live(v.conn) = {s}
  <1>1. Live(w.conn) = {s}
    BY DEF ConnsFine
  <1>2. Live(v.conn) = Live(w.conn)
    BY DEF Live, ConnIs
  <1> QED
    BY <1>1, <1>2 DEF ConnsFine

\* The same, its hypotheses under one name.
OneMoved(w, Q, s, v, R) ==
    /\ ConnsFine(w, Q) /\ s \in Live(w.conn) /\ v.state_ = w.state_
    /\ \E x, y, z : ConnIs(v.conn, w.conn, s, x, y, z)
    /\ ConnFine(v.conn[s], s, v.connection_, v.client, R)

\* The only connection moves.
LEMMA OneMovedIs ==
    ASSUME NEW w, NEW Q, NEW s, NEW v, NEW R, OneMoved(w, Q, s, v, R)
    PROVE  ConnsFine(v, R) /\ Live(v.conn) = {s}
  <1>1. PICK x, y, z : ConnIs(v.conn, w.conn, s, x, y, z)
    BY Zenon DEF OneMoved
  <1>2. /\ ConnsFine(w, Q) /\ s \in Live(w.conn) /\ v.state_ = w.state_
        /\ ConnFine(v.conn[s], s, v.connection_, v.client, R)
    BY Zenon DEF OneMoved
  <1>3. Live(w.conn) = {s} /\ Live(v.conn) = Live(w.conn)
    BY <1>1, <1>2 DEF ConnsFine, Live, ConnIs
  <1> QED
    BY <1>2, <1>3 DEF ConnsFine

\* What is queued and belongs to a connection that does not exist closes none.
LEMMA ClosersLive ==
    ASSUME NEW w, Good(w), NEW s, s \notin Live(w.conn), NEW f \in Closers
    PROVE  <<f, s>> \notin Queued(w)
  <1>1. w.pending \in Seq(Entry(Live(w.conn))) /\ w.todo \in Seq(Entry(Live(w.conn)))
    BY DEF Good, Owned
  <1>2. Queued(w) \subseteq Entry(Live(w.conn))
    BY <1>1 DEF Queued, Entries
  <1>3. <<f, s>> \notin Entry(Live(w.conn))
    BY DEF Entry, Closers, Holders
  <1> QED
    BY <1>2, <1>3

\* Before there is a connection.
LEMMA NoneYet ==
    ASSUME NEW w, NEW Q, ConnsFine(w, Q), w.state_ # "kConnected", NEW v, v.conn = w.conn, NEW R
    PROVE  ConnsFine(v, R) /\ Strong(v)
  <1>1. Live(v.conn) = {}
    BY DEF ConnsFine
  <1> QED
    BY <1>1 DEF ConnsFine, Strong

\* q is the queue r with a callback of the application about s.
Called(q, r, s) ==
    /\ Lone(q) /\ Entries(q) = Entries(r) \cup {<<"user", s>>}
    /\ Entries(q) \subseteq Entries(r) \cup Plain

\* A queue that grows by a callback of the application.
LEMMA UserNext ==
    ASSUME NEW w, Good(w), NEW p, Rest(w, p), NEW s \in 0..MaxAttempts, s = 0 \/ NoRead(w.todo),
           NEW q, q = <<<<"user", s>>>> \o w.todo
    PROVE  Called(q, w.todo, s)
  <1> DEFINE e == <<"user", s>>
  <1>1. e \in Work /\ e[1] # "handleRead" /\ (s = 0 => e \in Timers) /\ e \in Plain
    BY DEF Work, Names, Timers, Plain, Handlers
  <1> HIDE DEF e
  <1>2. w.todo \in Seq(Work) /\ Lone(w.todo)
    BY QueuesAre DEF Good, Rest
  <1>3. Lone(<<e>> \o w.todo)
    BY <1>1, <1>2, LonePrepend
  <1>4. Entries(<<e>> \o w.todo) = Entries(w.todo) \cup {e}
    BY <1>1, <1>2, EntriesAre
  <1>5. Entries(<<e>> \o w.todo) \subseteq Entries(w.todo) \cup Plain
    BY <1>1, <1>4, Zenon
  <1> QED
    BY <1>3, <1>4, <1>5, Zenon DEF e, Called

\* An attempt fails: there is no connection.
LEMMA FailFine ==
    ASSUME NEW w, Good(w), w.state_ = "kConnecting", NEW p, Fine(w, p, Queued(w)),
           NEW result, NEW cause, NEW v, v = fail(w, result, cause)
    PROVE  Fine(v, p, Queued(v)) /\ Strong(v)
  <1>1. Failed(v, w, result, cause)
    BY FailIs DEF Good
  <1>2. ConnsFine(v, Queued(v)) /\ Strong(v)
    BY <1>1, NoneYet DEF Fine, Failed
  <1>3. w.channel_ \in 0..MaxAttempts /\ 0 \in 0..MaxAttempts
    BY TcpClientAssumption DEF Good, Owned
  <1>4. <<"doomed", w.channel_>> \in Posted
    BY <1>3 DEF Posted, Work, Names
  <1>5. Rest(v, p)
    <2>1. OwnSocket(v) /\ v.sockfd_ = 0 /\ v.client = w.client
      BY <1>1 DEF Failed, OwnSocket, Fine, Rest
    <2>2. Entries(v.pending) \subseteq Entries(w.pending) \cup Posted
      BY <1>1, <1>4 DEF Failed
    <2>3. Entries(v.todo) \subseteq Entries(w.todo) \cup Plain /\ Lone(v.todo)
      <3>1. v.todo = <<<<"user", 0>>>> \o w.todo /\ Rest(w, p)
        BY <1>1, Zenon DEF Failed, Fine
      <3>2. Called(v.todo, w.todo, 0)
        BY <1>3, <3>1, UserNext, Zenon
      <3> QED
        BY <3>2, Zenon DEF Called
    <2> QED
      BY <2>1, <2>2, <2>3, RestKeeps, Zenon DEF Fine
  <1> QED
    BY <1>2, <1>5 DEF Fine

\* So there is none when an attempt begins.
LEMMA StartFine ==
    ASSUME NEW w, Good(w), w.made < MaxAttempts, NEW p, Fine(w, p, Queued(w)), Strong(w),
           w.client = TRUE,
           NEW how \in {"EMFILE", "ENETUNREACH", "EINPROGRESS"}, NEW v, v = startInLoop(w, how)
    PROVE  Fine(v, p, Queued(v)) /\ Strong(v)
  <1>1. \/ v = w
        \/ /\ w.sockfd_ = 0 /\ w.state_ \notin {"kConnecting", "kConnected"}
           /\ Begun(v, w) \/ BegunInVain(v, w, how)
    BY StartIs
  <1>2. ASSUME w.state_ # "kConnected", Begun(v, w) PROVE Fine(v, p, Queued(v)) /\ Strong(v)
    <2>1. ConnsFine(v, Queued(v)) /\ Strong(v)
      BY <1>2, NoneYet DEF Fine, Begun
    <2>2. OwnSocket(v) /\ v.client = w.client /\ v.pending = w.pending /\ v.todo = w.todo
      BY <1>2 DEF Begun, OwnSocket
    <2>3. Lone(v.todo)
      BY <2>2 DEF Fine, Rest
    <2>4. Rest(v, p)
      BY <2>2, <2>3, RestKeeps, Zenon DEF Fine
    <2> QED
      BY <2>1, <2>4 DEF Fine
  <1>3. ASSUME w.sockfd_ = 0, w.state_ # "kConnected", BegunInVain(v, w, how)
        PROVE  Fine(v, p, Queued(v)) /\ Strong(v)
    <2>1. ConnsFine(v, Queued(v)) /\ Strong(v)
      BY <1>3, NoneYet DEF Fine, BegunInVain
    <2>2. OwnSocket(v) /\ v.client = w.client /\ v.sockfd_ = 0
      BY <1>3 DEF BegunInVain, OwnSocket, Fine, Rest
    <2>3. Entries(v.todo) \subseteq Entries(w.todo) \cup Plain /\ Lone(v.todo)
      <3>1. 0 \in 0..MaxAttempts
        BY TcpClientAssumption
      <3>2. v.todo = <<<<"user", 0>>>> \o w.todo /\ Rest(w, p)
        BY <1>3, Zenon DEF BegunInVain, Fine
      <3>3. Called(v.todo, w.todo, 0)
        BY <3>1, <3>2, UserNext, Zenon
      <3> QED
        BY <3>3, Zenon DEF Called
    <2>4. PICK c : Entries(v.pending) \in {Entries(w.pending), Entries(w.pending) \cup {<<"doomed", c>>}}
      BY <1>3, Zenon DEF BegunInVain
    <2>5. Rest(v, p)
      <3>1. \A e \in Entries(v.pending) : e \in Entries(w.pending) \/ e[1] = "doomed"
        BY <2>4
      <3> QED
        BY <2>2, <2>3, <3>1 DEF Fine, Rest, Queued, Plain, Handlers
    <2> QED
      BY <2>1, <2>5 DEF Fine
  <1> QED
    BY <1>1, <1>2, <1>3

\* The Connector is stopped and the connection is left alone.
LEMMA StopFine ==
    ASSUME NEW w, Good(w), NEW p, Fine(w, p, Queued(w)), Strong(w), NEW v, v = stopInLoop(w)
    PROVE  /\ Fine(v, p, Queued(v)) /\ Strong(v)
           /\ \A e : e[1] # "doomed" => (e \in Queued(w) <=> e \in Queued(v))
  <1>1. Stopped(v, w)
    BY StopIs
  <1>2. w.channel_ \in 0..MaxAttempts
    BY DEF Good, Owned
  <1>3. <<"doomed", w.channel_>> \in Posted
    BY <1>2 DEF Posted, Work, Names
  <1>4. /\ Entries(v.pending) \in {Entries(w.pending), Entries(w.pending) \cup {<<"doomed", w.channel_>>}}
        /\ v.todo = w.todo
    BY <1>1 DEF Stopped
  <1>5. \A e : e[1] # "doomed" => (e \in Queued(w) <=> e \in Queued(v))
    <2>1. \A e : e[1] # "doomed" => e # <<"doomed", w.channel_>>
      OBVIOUS
    <2> QED
      BY <1>4, <2>1, Zenon DEF Queued
  <1>6. ConnsFine(v, Queued(v))
    <2>1. \A e : e[1] \in Closers => (e \in Queued(w) <=> e \in Queued(v))
      BY <1>5 DEF Closers
    <2> QED
      BY <1>1, <2>1, ConnsSame DEF Fine, Stopped
  <1>7. Rest(v, p)
    <2>1. OwnSocket(v) /\ v.sockfd_ = 0 /\ v.client = w.client
      BY <1>1 DEF Stopped, OwnSocket, Fine, Rest, Good
    <2>2. Entries(v.pending) \subseteq Entries(w.pending) \cup Posted /\ Lone(v.todo)
      BY <1>3, <1>4 DEF Fine, Rest
    <2> QED
      BY <1>4, <2>1, <2>2, RestKeeps, Zenon DEF Fine
  <1>8. Strong(v)
    BY <1>1 DEF Stopped, Strong, Closable
  <1> QED
    BY <1>5, <1>6, <1>7, <1>8 DEF Fine

\* The Connector's first success makes the one connection.
LEMMA FinishFine ==
    ASSUME NEW w, Good(w), w.state_ = "kConnecting", NEW p, Fine(w, p, Queued(w)), NoRead(w.todo),
           NEW cause, NEW v, v = finishConnect(w, cause)
    PROVE  Fine(v, p, Queued(v)) /\ Strong(v)
  <1> DEFINE s == w.sockfd_
             k == [state |-> "kConnected", removed |-> FALSE, closeCallback |-> TRUE]
  <1>1. Finished(v, w, cause)
    BY FinishIs
  <1>2. w.channel_ \in 0..MaxAttempts /\ s \in 0..MaxAttempts /\ s \in Sockets /\ s \notin Live(w.conn)
    BY TcpClientAssumption DEF Good, Owned, Sockets
  <1>3. Live(w.conn) = {} /\ Conns(w.conn)
    BY Zenon DEF Fine, ConnsFine, Good, Owned
  <1>4. k # NoConn /\ k.state = "kConnected" /\ k.removed = FALSE /\ k.closeCallback = TRUE
    BY DEF NoConn
  <1>5. Live(v.conn) = {s} /\ v.conn[s] = k
    <2>1. v.conn = [w.conn EXCEPT ![s] = k]
      BY <1>1 DEF Finished
    <2> HIDE DEF s, k
    <2> QED
      BY <1>2, <1>3, <1>4, <2>1 DEF Live, Conns
  <1>6. /\ Lone(v.todo) /\ Entries(v.todo) = Entries(w.todo) \cup {<<"user", s>>}
        /\ Entries(v.todo) \subseteq Entries(w.todo) \cup Plain
    <2>1. v.todo = <<<<"user", s>>>> \o w.todo /\ Rest(w, p)
      BY <1>1, Zenon DEF Finished, Fine
    <2> HIDE DEF s
    <2>2. Called(v.todo, w.todo, s)
      BY <1>2, <2>1, UserNext, Zenon
    <2> QED
      BY <2>2, Zenon DEF Called
  <1>7. <<"doomed", w.channel_>> \in Posted
    BY <1>2 DEF Posted, Work, Names
  <1>8. /\ Entries(v.pending) \in {Entries(w.pending), Entries(w.pending) \cup {<<"doomed", w.channel_>>}}
        /\ v.connection_ = s /\ v.state_ = "kConnected" /\ v.client = w.client /\ v.sockfd_ = 0
    BY <1>1 DEF Finished
  <1>9. \A f \in Closers : <<f, s>> \notin Queued(v)
    <2>1. \A f \in Closers : <<f, s>> \notin Queued(w)
      BY <1>2, ClosersLive
    <2> HIDE DEF s
    <2> QED
      BY <1>6, <1>8, <2>1 DEF Queued, Closers
  <1>10. ConnFine(k, s, v.connection_, v.client, Queued(v))
    <2> HIDE DEF s, k
    <2> QED
      BY <1>4, <1>8, <1>9, Zenon DEF ConnFine, Closers
  <1>11. ConnsFine(v, Queued(v))
    <2> HIDE DEF s, k
    <2> QED
      BY <1>5, <1>8, <1>10 DEF ConnsFine
  <1>12. Strong(v)
    <2> HIDE DEF s, k
    <2> QED
      BY <1>4, <1>5 DEF Strong, Closable
  <1>13. Rest(v, p)
    <2>1. OwnSocket(v)
      BY <1>1 DEF Finished, OwnSocket, Fine, Rest
    <2>2. Entries(v.pending) \subseteq Entries(w.pending) \cup Posted
      BY <1>7, <1>8
    <2> QED
      BY <1>6, <1>8, <2>1, <2>2, RestKeeps, Zenon DEF Fine
  <1> QED
    BY <1>11, <1>12, <1>13 DEF Fine

\* The Connector's handlers; only a write event makes a connection.
LEMMA HandlersFine ==
    ASSUME NEW w, Good(w), NEW p, Fine(w, p, Queued(w)), Strong(w), NEW s
    PROVE  /\ Fine(handleError(w, s), p, Queued(handleError(w, s))) /\ Strong(handleError(w, s))
           /\ Fine(handleTimeout(w, s), p, Queued(handleTimeout(w, s))) /\ Strong(handleTimeout(w, s))
           /\ NoRead(w.todo) => /\ Fine(handleWrite(w, s), p, Queued(handleWrite(w, s)))
                                /\ Strong(handleWrite(w, s))
  <1>1. CASE w.state_ # "kConnecting"
    BY <1>1 DEF handleError, handleTimeout, handleWrite
  <1>2. CASE w.state_ = "kConnecting"
    <2>1. ASSUME NEW result
          PROVE  Fine(fail(w, result, s), p, Queued(fail(w, result, s))) /\ Strong(fail(w, result, s))
      BY <1>2, FailFine
    <2>2. ASSUME NoRead(w.todo)
          PROVE  Fine(finishConnect(w, s), p, Queued(finishConnect(w, s))) /\ Strong(finishConnect(w, s))
      BY <1>2, <2>2, FinishFine
    <2> QED
      BY <1>2, <2>1, <2>2 DEF handleError, handleTimeout, handleWrite
  <1> QED
    BY <1>1, <1>2

\* The rest of the invariant, when the Connector is left alone.
LEMMA RestQuiet ==
    ASSUME NEW w, NEW p, Rest(w, p), NEW v, Quiet(v, w), v.client = w.client,
           Entries(v.pending) \subseteq Entries(w.pending) \cup Posted,
           Entries(v.todo) \subseteq Entries(w.todo) \cup Plain, Lone(v.todo)
    PROVE  Rest(v, p)
  <1>1. OwnSocket(v) /\ v.sockfd_ = w.sockfd_
    BY DEF Quiet, OwnSocket, Rest
  <1> QED
    BY <1>1, RestKeeps, Zenon

\* forceClose() queues what will close the connection.
LEMMA ForceCloseFine ==
    ASSUME NEW w, Good(w), NEW p, Fine(w, p, Queued(w)), Strong(w), NEW s \in Live(w.conn),
           NEW v, v = forceClose(w, s)
    PROVE  Fine(v, p, Queued(v)) /\ Strong(v)
  <1>1. \/ v = w
        \/ /\ Closable(w, s) /\ Quiet(v, w) /\ v.client = w.client
           /\ v.connection_ = w.connection_ /\ v.todo = w.todo
           /\ Entries(v.pending) = Entries(w.pending) \cup {<<"forceCloseInLoop", s>>}
           /\ ConnIs(v.conn, w.conn, s, "kDisconnecting", w.conn[s].removed, w.conn[s].closeCallback)
    <2>1. ForceClosed(forceClose(w, s), w, s)
      BY ForceClosedIs, Zenon
    <2> QED
      BY <2>1, Zenon DEF ForceClosed
  <1>2. CASE v = w
    BY <1>2
  <1>3. CASE v # w
    <2>0. ConnFine(w.conn[s], s, w.connection_, w.client, Queued(w)) /\ s \in Sockets
      BY DEF Fine, ConnsFine, Live
    <2>1. Queued(v) = Queued(w) \cup {<<"forceCloseInLoop", s>>}
      BY <1>1, <1>3 DEF Queued
    <2>2. ConnFine(v.conn[s], s, v.connection_, v.client, Queued(v))
      <3>1. /\ v.conn[s].state = "kDisconnecting" /\ v.conn[s].removed = w.conn[s].removed
            /\ v.conn[s].closeCallback = w.conn[s].closeCallback
            /\ w.conn[s].state \in {"kConnected", "kDisconnecting"}
        BY <1>1, <1>3 DEF ConnIs, Closable
      <3> QED
        BY <1>1, <1>3, <2>0, <2>1, <3>1 DEF ConnFine
    <2>3. ConnsFine(v, Queued(v)) /\ Live(v.conn) = {s}
      <3>1. /\ ConnsFine(w, Queued(w)) /\ v.state_ = w.state_
            /\ ConnIs(v.conn, w.conn, s, "kDisconnecting", w.conn[s].removed, w.conn[s].closeCallback)
        BY <1>1, <1>3, Zenon DEF Fine, Quiet
      <3>2. OneMoved(w, Queued(w), s, v, Queued(v))
        BY <2>2, <3>1, Zenon DEF OneMoved
      <3> QED
        BY <3>2, OneMovedIs, Zenon
    <2>4. <<"forceCloseInLoop", s>> \in Posted
      BY <2>0, TcpClientAssumption DEF Posted, Work, Names, Sockets
    <2>5. Rest(v, p)
      BY <1>1, <1>3, <2>4, RestQuiet, Zenon DEF Fine, Rest
    <2>6. Strong(v)
      BY <1>1, <1>3, <2>3 DEF Strong, ConnIs, Closable
    <2> QED
      BY <2>3, <2>5, <2>6 DEF Fine
  <1> QED
    BY <1>2, <1>3

\* handleClose() is the last event of a connection.
LEMMA HandleCloseFine ==
    ASSUME NEW w, Good(w), NEW p, NEW Q, Fine(w, p, Q), NoRead(w.todo), NEW s \in Live(w.conn),
           NEW v, v = handleClose(w, s)
    PROVE  Fine(v, p, Queued(v)) /\ Strong(v)
  <1> DEFINE c == <<"closeCallback", s>>
             u == <<"user", s>>
             q == <<c>> \o w.todo
  <1>1. /\ Quiet(v, w) /\ v.client = w.client /\ v.connection_ = w.connection_
        /\ v.pending = w.pending /\ v.todo = <<u>> \o q
        /\ ConnIs(v.conn, w.conn, s, "kDisconnected", w.conn[s].removed, w.conn[s].closeCallback)
    BY HandleCloseIs
  <1>2. s \in 0..MaxAttempts /\ ConnFine(w.conn[s], s, w.connection_, w.client, Q)
    BY TcpClientAssumption DEF Fine, ConnsFine, Live, Sockets
  <1>3. c \in Work /\ u \in Work /\ c[1] # "handleRead" /\ u[1] # "handleRead" /\ c \in Plain /\ u \in Plain
    BY <1>2 DEF Work, Names, Plain, Handlers
  <1>4. w.todo \in Seq(Work) /\ Lone(w.todo)
    BY QueuesAre DEF Good, Fine, Rest
  <1> HIDE DEF c, u
  <1>5. q \in Seq(Work) /\ Entries(q) = Entries(w.todo) \cup {c} /\ Lone(q)
    <2>1. Entries(<<c>> \o w.todo) = Entries(w.todo) \cup {c}
      BY <1>3, <1>4, EntriesAre, Zenon
    <2>2. <<c>> \o w.todo \in Seq(Work)
      BY <1>3, <1>4
    <2>3. Lone(<<c>> \o w.todo)
      BY <1>3, <1>4, LonePrepend, Zenon
    <2> QED
      BY <2>1, <2>2, <2>3
  <1>6. NoRead(q)
    BY <1>3, <1>5 DEF NoRead
  <1> HIDE DEF q
  <1>7. Entries(v.todo) = Entries(q) \cup {u} /\ Lone(v.todo)
    <2>1. Entries(<<u>> \o q) = Entries(q) \cup {u}
      BY <1>3, <1>5, EntriesAre, Zenon
    <2>2. Lone(<<u>> \o q)
      BY <1>3, <1>5, <1>6, LonePrepend, Zenon
    <2> QED
      BY <1>1, <2>1, <2>2, Zenon
  <1>8. NoRead(v.todo) /\ c \in Queued(v) /\ Entries(v.todo) \subseteq Entries(w.todo) \cup Plain
    BY <1>3, <1>5, <1>6, <1>7 DEF NoRead, Queued
  <1>9. ConnFine(v.conn[s], s, v.connection_, v.client, Queued(v))
    <2>1. /\ v.conn[s].state = "kDisconnected" /\ v.conn[s].removed = w.conn[s].removed
          /\ v.conn[s].closeCallback = w.conn[s].closeCallback
      BY <1>1 DEF ConnIs
    <2> QED
      BY <1>1, <1>2, <1>8, <2>1 DEF ConnFine, c
  <1>10. ConnsFine(v, Queued(v))
    BY <1>1, <1>9, ConnsOne, Zenon DEF Fine, Quiet
  <1>11. Rest(v, p)
    BY <1>1, <1>7, <1>8, RestQuiet, Zenon DEF Fine
  <1>12. Strong(v)
    BY <1>8 DEF Strong, NoRead
  <1> QED
    BY <1>10, <1>11, <1>12 DEF Fine

\* connectDestroyed() finds the connection closed and removes its channel.
LEMMA DestroyedFine ==
    ASSUME NEW w, Good(w), NEW s \in Live(w.conn), NEW p,
           Fine(w, p, Queued(w) \cup {<<"connectDestroyed", s>>}), NoRead(w.todo),
           NEW v, v = connectDestroyed(w, s)
    PROVE  Fine(v, p, Queued(v)) /\ Strong(v)
  <1> DEFINE Q == Queued(w) \cup {<<"connectDestroyed", s>>}
  <1>1. /\ Quiet(v, w) /\ v.client = w.client /\ v.connection_ = w.connection_
        /\ v.pending = w.pending /\ v.todo = w.todo
        /\ ConnIs(v.conn, w.conn, s,
                  IF w.conn[s].state = "kConnected" THEN "kDisconnected" ELSE w.conn[s].state,
                  TRUE, w.conn[s].closeCallback)
    BY DestroyedIs, Zenon DEF Good
  <1>2. ConnFine(w.conn[s], s, w.connection_, w.client, Q)
    BY DEF Fine, ConnsFine
  <1>3. w.conn[s].state = "kDisconnected"
    BY <1>2 DEF ConnFine
  <1>4. ConnFine(v.conn[s], s, v.connection_, v.client, Queued(v))
    <2>1. /\ v.conn[s].state = "kDisconnected" /\ v.conn[s].removed = TRUE
          /\ v.conn[s].closeCallback = w.conn[s].closeCallback
      BY <1>1, <1>3 DEF ConnIs
    <2> QED
      BY <1>1, <1>2, <2>1, Zenon DEF ConnFine
  <1>5. ConnsFine(v, Queued(v))
    <2> HIDE DEF Q
    <2>1. ConnsFine(w, Q)
      BY DEF Fine, Q
    <2> QED
      BY <1>1, <1>4, <2>1, ConnsOne, Zenon DEF Quiet
  <1>6. Rest(v, p)
    BY <1>1, RestQuiet, Zenon DEF Fine, Rest
  <1>7. Strong(v)
    BY <1>1 DEF Strong, NoRead
  <1> QED
    BY <1>5, <1>6, <1>7 DEF Fine

\* The close callback leaves the connection to connectDestroyed().
LEMMA RemoveFine ==
    ASSUME NEW w, Good(w), NEW s \in Live(w.conn), NEW p,
           Fine(w, p, Queued(w) \cup {<<"closeCallback", s>>}), NoRead(w.todo),
           NEW v, v = removeConnection(w, s)
    PROVE  Fine(v, p, Queued(v)) /\ Strong(v)
  <1> DEFINE Q == Queued(w) \cup {<<"closeCallback", s>>}
  <1>1. /\ Quiet(v, w) /\ v.client = w.client /\ v.conn = w.conn /\ v.todo = w.todo
        /\ Entries(v.pending) = Entries(w.pending) \cup {<<"connectDestroyed", s>>}
    BY RemoveConnectionIs
  <1>2. ConnFine(w.conn[s], s, w.connection_, w.client, Q) /\ s \in Sockets
    BY DEF Fine, ConnsFine, Live
  <1>3. w.conn[s].state = "kDisconnected"
    BY <1>2 DEF ConnFine
  <1>4. Queued(v) = Queued(w) \cup {<<"connectDestroyed", s>>}
    BY <1>1 DEF Queued
  <1>5. ConnFine(v.conn[s], s, v.connection_, v.client, Queued(v))
    BY <1>1, <1>2, <1>3, <1>4 DEF ConnFine
  <1>6. ConnsFine(v, Queued(v))
    <2>1. Live(w.conn) = {s} /\ w.state_ = "kConnected"
      BY DEF Fine, ConnsFine
    <2> QED
      BY <1>1, <1>5, <2>1 DEF ConnsFine, Quiet
  <1>7. <<"connectDestroyed", s>> \in Posted
    BY <1>2, TcpClientAssumption DEF Posted, Work, Names, Sockets
  <1>8. Rest(v, p)
    BY <1>1, <1>7, RestQuiet, Zenon DEF Fine, Rest
  <1>9. Strong(v)
    BY <1>1 DEF Strong, NoRead
  <1> QED
    BY <1>6, <1>8, <1>9 DEF Fine

\* What is done without a change closed no connection that is not closed.
LEMMA DropFine ==
    ASSUME NEW w, NEW p, NEW f, NEW s, Fine(w, p, Queued(w) \cup {<<f, s>>}),
           \/ f \notin Closers
           \/ s \in Live(w.conn) /\ f = "closeCallback" /\ w.conn[s].closeCallback = FALSE
           \/ s \in Live(w.conn) /\ f = "forceCloseInLoop" /\ ~Closable(w, s)
    PROVE  Fine(w, p, Queued(w))
  <1> DEFINE Q == Queued(w) \cup {<<f, s>>}
  <1>1. ASSUME NEW t \in Live(w.conn), ConnFine(w.conn[t], t, w.connection_, w.client, Q),
               \A u \in Live(w.conn) : u = t
        PROVE  ConnFine(w.conn[t], t, w.connection_, w.client, Queued(w))
    <2>1. CASE f \notin Closers
      <3>1. /\ <<"closeCallback", t>> \in Q <=> <<"closeCallback", t>> \in Queued(w)
            /\ <<"connectDestroyed", t>> \in Q <=> <<"connectDestroyed", t>> \in Queued(w)
            /\ <<"forceCloseInLoop", t>> \in Q <=> <<"forceCloseInLoop", t>> \in Queued(w)
        BY <2>1 DEF Closers
      <3> HIDE DEF Q
      <3> QED
        BY <1>1, <3>1 DEF ConnFine
    <2>2. CASE s \in Live(w.conn) /\ f = "closeCallback" /\ w.conn[s].closeCallback = FALSE
      <3>1. s = t
        BY <1>1, <2>2
      <3> QED
        BY <1>1, <2>2, <3>1 DEF ConnFine
    <2>3. CASE s \in Live(w.conn) /\ f = "forceCloseInLoop" /\ ~Closable(w, s)
      <3>1. s = t /\ w.conn[t].state \notin {"kConnected", "kDisconnecting"}
        BY <1>1, <2>3 DEF Closable
      <3>2. /\ <<"closeCallback", t>> \in Q <=> <<"closeCallback", t>> \in Queued(w)
            /\ <<"connectDestroyed", t>> \in Q <=> <<"connectDestroyed", t>> \in Queued(w)
        BY <2>3
      <3> QED
        BY <1>1, <3>1, <3>2 DEF ConnFine
    <2> QED
      BY <2>1, <2>2, <2>3, Zenon
  <1> QED
    BY <1>1, Zenon DEF Fine, ConnsFine

\* disconnect() leaves the connection to the client.
LEMMA DisconnectFine ==
    ASSUME NEW w, Good(w), NEW p, Fine(w, p, Queued(w)), Strong(w), NEW v, v = disconnect(w)
    PROVE  Fine(v, p, Queued(v)) /\ Strong(v)
  <1> DEFINE s == w.connection_
  <1>1. CASE s = 0
    <2>1. v = stopInLoop(w)
      BY <1>1 DEF disconnect
    <2> QED
      BY <2>1, StopFine
  <1>2. CASE s # 0
    <2>1. /\ Quiet(v, w) /\ v.client = w.client /\ v.connection_ = w.connection_
          /\ v.pending = w.pending /\ v.todo = w.todo
          /\ ConnIs(v.conn, w.conn, s,
                    IF w.conn[s].state = "kConnected" THEN "kDisconnecting" ELSE w.conn[s].state,
                    w.conn[s].removed, w.conn[s].closeCallback)
      BY <1>2, DisconnectIs
    <2>2. s \in Live(w.conn)
      BY <1>2 DEF Good, Owned
    <2>3. ConnFine(w.conn[s], s, w.connection_, w.client, Queued(w)) /\ Queued(v) = Queued(w)
      BY <2>1, <2>2 DEF Fine, ConnsFine, Queued
    <2>4. /\ v.conn[s].state = IF w.conn[s].state = "kConnected" THEN "kDisconnecting" ELSE w.conn[s].state
          /\ v.conn[s].removed = w.conn[s].removed
          /\ v.conn[s].closeCallback = w.conn[s].closeCallback
      BY <2>1 DEF ConnIs
    <2>5. ConnFine(v.conn[s], s, v.connection_, v.client, Queued(v))
      <3>1. v.connection_ = s
        BY <2>1
      <3> QED
        BY <2>1, <2>3, <2>4, <3>1 DEF ConnFine
    <2>6. ConnsFine(v, Queued(v)) /\ Live(v.conn) = {s}
      <3> DEFINE x == IF w.conn[s].state = "kConnected" THEN "kDisconnecting" ELSE w.conn[s].state
                 y == w.conn[s].removed
                 z == w.conn[s].closeCallback
      <3>1. ConnIs(v.conn, w.conn, s, x, y, z)
        BY <2>1
      <3>2. ConnsFine(w, Queued(w)) /\ v.state_ = w.state_
        BY <2>1 DEF Fine, Quiet
      <3> HIDE DEF x, y, z, s
      <3> QED
        BY <2>2, <2>5, <3>1, <3>2, ConnsOne, Zenon
    <2>7. Rest(v, p)
      BY <2>1, RestQuiet, Zenon DEF Fine, Rest
    <2>8. Strong(v)
      BY <2>1, <2>2, <2>4, <2>6 DEF Strong, Closable
    <2> QED
      BY <2>6, <2>7, <2>8 DEF Fine
  <1> QED
    BY <1>1, <1>2

\* stop() of the client queues what closes the connection.
LEMMA StopCallFine ==
    ASSUME NEW w, Good(w), NEW p, Fine(w, p, Queued(w)), Strong(w), NEW v, v = stop(w)
    PROVE  Fine(v, p, Queued(v)) /\ Strong(v)
  <1> DEFINE s == w.connection_
             u == stopInLoop(w)
  <1>1. Good(u) /\ u.conn = w.conn /\ Fine(u, p, Queued(u)) /\ Strong(u)
    BY StopKeeps, StopFine
  <1>2. s # 0 => s \in Live(w.conn)
    BY DEF Good, Owned
  <1>3. v = IF s = 0 THEN u ELSE forceClose(u, s)
    BY DEF stop
  <1> HIDE DEF u, s
  <1>4. CASE s = 0
    BY <1>1, <1>3, <1>4
  <1>5. CASE s # 0
    BY <1>1, <1>2, <1>3, <1>5, ForceCloseFine
  <1> QED
    BY <1>4, <1>5

\* ~TcpClient() closes the connection, queues what does, or leaves it closing with its callback muted.
LEMMA DestroyFine ==
    ASSUME NEW w, Good(w), NEW p, Fine(w, p, Queued(w)), Strong(w),
           \A e \in Queued(w) : e[1] # "connect", NEW v, v = destroy(w)
    PROVE  Fine(v, p, Queued(v)) /\ Weak(v)
  <1> DEFINE s == w.connection_
             u == stopInLoop(w)
  <1>1. Stopped(u, w) /\ TornDown(v, u, w, s)
    BY StopIs, DestroyIs
  <1>2. /\ Good(u) /\ Fine(u, p, Queued(u)) /\ Strong(u)
        /\ \A e : e[1] # "doomed" => (e \in Queued(w) <=> e \in Queued(u))
    BY StopKeeps, StopFine
  <1> HIDE DEF u, s
  <1>3. u.channel_ \in 0..MaxAttempts /\ (s # 0 => s \in Live(w.conn) /\ s \in 0..MaxAttempts /\ s \in Sockets)
    <2>1. u.channel_ \in 0..MaxAttempts
      BY <1>2 DEF Good, Owned
    <2>2. s # 0 => s \in Live(w.conn)
      BY <1>1 DEF TornDown
    <2>3. \A t \in Sockets : t \in 0..MaxAttempts
      BY TcpClientAssumption DEF Sockets
    <2> QED
      BY <2>1, <2>2, <2>3 DEF Live
  <1>4. /\ <<"doomed", u.channel_>> \in Posted
        /\ s # 0 => <<"forceCloseInLoop", s>> \in Posted
    BY <1>3 DEF Posted, Work, Names
  <1>5. Entries(v.pending) \subseteq Entries(u.pending) \cup Posted /\ v.todo = u.todo
    BY <1>1, <1>4, Zenon DEF TornDown, Stopped
  <1>6. Rest(v, p)
    <2>1. OwnSocket(v)
      BY <1>1, <1>2, Zenon DEF TornDown, Quiet, OwnSocket, Fine, Rest
    <2>2. v.client = FALSE /\ v.sockfd_ = 0
      BY <1>1 DEF TornDown
    <2>3. \A e \in Queued(v) : e[1] # "connect"
      BY <1>2, <1>5 DEF Queued, Posted
    <2>4. \A e \in Posted : e[1] \notin {"handleRead", "user", "closeCallback"} \cup Handlers
      BY DEF Posted, Handlers
    <2> QED
      BY <1>2, <1>5, <2>1, <2>2, <2>3, <2>4, Zenon DEF Fine, Rest
  <1>7. CASE s = 0
    <2>1. v.conn = w.conn /\ v.connection_ = u.connection_ /\ u.conn = w.conn /\ u.connection_ = 0
      BY <1>1, <1>7 DEF TornDown, Stopped, s
    <2>2. ASSUME NEW t \in Live(u.conn) PROVE ConnFine(u.conn[t], t, 0, FALSE, Queued(v))
      <3>1. \A f \in Closers : <<f, t>> \in Queued(v) <=> <<f, t>> \in Queued(u)
        BY <1>1, <1>7 DEF TornDown, Stopped, Queued, Closers
      <3>2. ConnFine(u.conn[t], t, 0, u.client, Queued(u))
        BY <1>2, <2>1 DEF Fine, ConnsFine
      <3> QED
        BY <3>1, <3>2 DEF ConnFine, Closers
    <2>3. ConnsFine(v, Queued(v))
      BY <1>1, <1>2, <2>1, <2>2, Zenon DEF ConnsFine, Fine, TornDown
    <2>4. Weak(v)
      BY <1>2, <1>5, <2>1 DEF Weak, Strong, Closable
    <2> QED
      BY <1>6, <2>3, <2>4 DEF Fine
  <1>8. CASE s # 0
    <2>0. /\ Quiet(v, u) /\ v.client = FALSE /\ v.connection_ = 0 /\ s \in Live(w.conn) /\ u.conn = w.conn
          /\ \/ /\ w.conn[s].state = "kConnected" /\ v.pending = u.pending
                /\ ConnIs(v.conn, w.conn, s, "kDisconnected", TRUE, FALSE)
             \/ /\ w.conn[s].state = "kDisconnecting"
                /\ Entries(v.pending) = Entries(u.pending) \cup {<<"forceCloseInLoop", s>>}
                /\ ConnIs(v.conn, w.conn, s, "kDisconnecting", w.conn[s].removed, FALSE)
             \/ /\ w.conn[s].state \notin {"kConnected", "kDisconnecting"}
                /\ v.pending = u.pending
                /\ ConnIs(v.conn, w.conn, s, w.conn[s].state, w.conn[s].removed, FALSE)
      BY <1>1, <1>8, Zenon DEF TornDown, Stopped
    <2>1. ConnFine(w.conn[s], s, u.connection_, u.client, Queued(u)) /\ ConnsFine(u, Queued(u))
      BY <1>2, <2>0 DEF Fine, ConnsFine
    <2>2. ASSUME NEW x, NEW y, ConnIs(v.conn, w.conn, s, x, y, FALSE),
                 ConnFine(v.conn[s], s, v.connection_, v.client, Queued(v))
          PROVE  ConnsFine(v, Queued(v)) /\ Live(v.conn) = {s}
      <3>1. ConnIs(v.conn, u.conn, s, x, y, FALSE) /\ s \in Live(u.conn) /\ v.state_ = u.state_
        BY <2>0, <2>2, Zenon DEF Quiet
      <3> QED
        BY <2>1, <2>2, <3>1, ConnsOne, Zenon
    <2>3. CASE /\ w.conn[s].state = "kConnected" /\ v.pending = u.pending
               /\ ConnIs(v.conn, w.conn, s, "kDisconnected", TRUE, FALSE)
      <3>1. Queued(v) = Queued(u)
        BY <1>5, <2>3 DEF Queued
      <3>2. ConnFine(v.conn[s], s, v.connection_, v.client, Queued(v))
        BY <2>0, <2>1, <2>3, <3>1, Zenon DEF ConnFine, ConnIs
      <3>3. ConnsFine(v, Queued(v)) /\ Live(v.conn) = {s}
        BY <2>2, <2>3, <3>2, Zenon
      <3>4. ASSUME <<"handleRead", s>> \in Entries(v.todo) PROVE ~Held(v, s)
        <4>1. \A f \in Closers : <<f, s>> \notin Queued(v)
          BY <2>1, <2>3, <3>1 DEF ConnFine, Closers
        <4>2. \A e \in Entries(v.pending) : e[1] # "user"
          BY <1>6 DEF Rest
        <4>3. PICK i \in DOMAIN v.todo : v.todo[i] = <<"handleRead", s>>
          BY <3>4 DEF Entries
        <4>4. ASSUME NEW j \in DOMAIN v.todo, v.todo[j][2] = s, v.todo[j][1] \in Holders PROVE FALSE
          <5>1. j # i
            BY <4>3, <4>4 DEF Holders
          <5>2. v.todo[j] \in Timers
            BY <1>6, <4>3, <5>1 DEF Rest, Lone
          <5> QED
            BY <1>8, <4>4, <5>2 DEF Timers, Holders
        <4>5. ASSUME NEW j \in DOMAIN v.pending, v.pending[j][2] = s, v.pending[j][1] \in Holders
              PROVE FALSE
          <5>1. v.pending[j] \in Entries(v.pending) /\ v.pending[j][1] # "user"
            BY <4>2 DEF Entries
          <5>2. v.pending \in Seq(Work)
            BY <1>2, <2>3, QueuesAre DEF Good
          <5>3. v.pending[j] = <<v.pending[j][1], v.pending[j][2]>>
            BY <5>2 DEF Work
          <5>4. v.pending[j][1] \in Closers
            BY <4>5, <5>1 DEF Holders, Closers
          <5> QED
            BY <4>1, <4>5, <5>1, <5>3, <5>4, Zenon DEF Queued
        <4> QED
          BY <1>8, <2>0, <4>4, <4>5 DEF Held
      <3> QED
        BY <1>6, <3>3, <3>4 DEF Fine, Weak
    <2>4. CASE /\ w.conn[s].state = "kDisconnecting"
               /\ Entries(v.pending) = Entries(u.pending) \cup {<<"forceCloseInLoop", s>>}
               /\ ConnIs(v.conn, w.conn, s, "kDisconnecting", w.conn[s].removed, FALSE)
      <3>1. Queued(v) = Queued(u) \cup {<<"forceCloseInLoop", s>>}
        BY <1>5, <2>4 DEF Queued
      <3>2. ConnFine(v.conn[s], s, v.connection_, v.client, Queued(v))
        BY <2>0, <2>1, <2>4, <3>1, Zenon DEF ConnFine, ConnIs
      <3>3. ConnsFine(v, Queued(v)) /\ Live(v.conn) = {s}
        BY <2>2, <2>4, <3>2, Zenon
      <3>4. Weak(v)
        BY <2>4, <3>3 DEF Weak, ConnIs, Closable
      <3> QED
        BY <1>6, <3>3, <3>4 DEF Fine
    <2>5. CASE /\ w.conn[s].state \notin {"kConnected", "kDisconnecting"}
               /\ v.pending = u.pending
               /\ ConnIs(v.conn, w.conn, s, w.conn[s].state, w.conn[s].removed, FALSE)
      <3>1. Queued(v) = Queued(u)
        BY <1>5, <2>5 DEF Queued
      <3>2. ConnFine(v.conn[s], s, v.connection_, v.client, Queued(v))
        BY <2>0, <2>1, <2>5, <3>1, Zenon DEF ConnFine, ConnIs
      <3>3. ConnsFine(v, Queued(v)) /\ Live(v.conn) = {s}
        BY <2>2, <2>5, <3>2, Zenon
      <3>4. Weak(v)
        BY <1>2, <1>5, <2>0, <2>5, <3>3 DEF Weak, Strong, Closable
      <3> QED
        BY <1>6, <3>3, <3>4 DEF Fine
    <2> QED
      BY <2>0, <2>3, <2>4, <2>5, Zenon
  <1> QED
    BY <1>7, <1>8

\* The connections nothing holds are closed, and removed from the loop but for the known case.
LEMMA BecomesFine ==
    ASSUME NEW w, Good(w), NEW p, Fine(w, p, Queued(w)), Weak(w), Becomes(w)
    PROVE  Fine(Whole', p, Queued(Whole')) /\ Strong(Whole') /\ OnlyKnownFailures'
  <1> DEFINE dead == {s \in Sockets : w.conn[s] # NoConn /\ ~Held(w, s)}
             c == [s \in Sockets |-> IF s \in dead THEN NoConn ELSE w.conn[s]]
             one == {s \in dead : w.conn[s].state # "kDisconnected"}
             two == {s \in dead : ~w.conn[s].removed}
  <1>1. /\ client' = w.client /\ state_' = w.state_ /\ sockfd_' = w.sockfd_
        /\ channel_' = w.channel_ /\ timeoutId_' = w.timeoutId_ /\ connection_' = w.connection_
        /\ kern' = w.kern /\ armed' = w.armed /\ made' = w.made
        /\ pending' = w.pending /\ todo' = w.todo /\ outcomes' = w.outcomes
        /\ conn' = c
    BY Zenon DEF Becomes
  <1>2. failures' = {[at |-> "~TcpConnection", muted |-> ~w.conn[s].closeCallback] : s \in one}
                    \cup {[at |-> "~Channel", muted |-> ~w.conn[s].closeCallback] : s \in two}
    BY Zenon DEF Becomes
  <1>3. /\ Quiet(Whole', w) /\ Whole'.client = w.client /\ Whole'.connection_ = w.connection_
        /\ Whole'.pending = w.pending /\ Whole'.todo = w.todo /\ Whole'.conn = c
    <2> HIDE DEF c
    <2> QED
      BY <1>1, WholeNext, WholeHas DEF Quiet
  <1>4. Live(c) = Live(w.conn) \ dead /\ \A s \in Live(c) : c[s] = w.conn[s] /\ Held(w, s)
    BY DEF Live
  <1>5. Queued(Whole') = Queued(w)
    BY <1>3 DEF Queued
  <1>6. ASSUME NEW s \in dead
        PROVE  /\ w.conn[s].state = "kDisconnected"
               /\ ~w.conn[s].removed => w.conn[s].closeCallback = FALSE /\ w.client = FALSE
    <2>1. s \in Live(w.conn) /\ ~Held(w, s)
      BY DEF Live
    <2>2. ConnFine(w.conn[s], s, w.connection_, w.client, Queued(w))
      BY <2>1 DEF Fine, ConnsFine
    <2>3. w.connection_ # s
      BY <2>1 DEF Held
    <2>4. \A f \in Closers : <<f, s>> \notin Queued(w)
      <3> SUFFICES ASSUME NEW f \in Closers, NEW q \in {w.pending, w.todo}, NEW i \in DOMAIN q, q[i] = <<f, s>>
                   PROVE  FALSE
        BY DEF Queued, Entries
      <3>1. q[i][1] \in Holders /\ q[i][2] = s
        BY DEF Closers, Holders
      <3> QED
        BY <2>1, <3>1, Zenon DEF Held
    <2> QED
      BY <2>2, <2>3, <2>4 DEF ConnFine, Closers
  <1> HIDE DEF c, dead
  <1>7. ConnsFine(Whole', Queued(Whole'))
    BY <1>3, <1>4, <1>5 DEF Fine, ConnsFine, Quiet
  <1>8. Rest(Whole', p)
    <2>1. Lone(Whole'.todo)
      BY <1>3 DEF Fine, Rest
    <2> QED
      BY <1>3, <2>1, RestQuiet DEF Fine
  <1>9. Strong(Whole')
    BY <1>3, <1>4 DEF Weak, Strong, Closable
  <1>10. OnlyKnownFailures'
    <2>1. one = {}
      BY <1>6, Zenon
    <2> SUFFICES ASSUME NEW f \in failures' PROVE f.at = "~Channel" /\ ~client' /\ f.muted
      BY DEF OnlyKnownFailures
    <2>2. PICK s \in two : f = [at |-> "~Channel", muted |-> ~w.conn[s].closeCallback]
      BY <1>2, <2>1
    <2>3. s \in dead /\ ~w.conn[s].removed
      OBVIOUS
    <2>4. w.conn[s].closeCallback = FALSE /\ w.client = FALSE
      BY <1>6, <2>3, Zenon
    <2> QED
      BY <1>1, <2>2, <2>4, Zenon
  <1> QED
    BY <1>7, <1>8, <1>9, <1>10 DEF Fine

\* The head of the queue and what is left behind it.
LEMMA HeadFine ==
    ASSUME Good(Whole), NEW p, Fine(Whole, p, Queued(Whole)), Strong(Whole), todo # <<>>
    PROVE  LET w == [Whole EXCEPT !.todo = Tail(@)]
               f == Head(todo)[1]
               s == Head(todo)[2]
           IN  /\ Fine(w, p, Queued(w) \cup {<<f, s>>}) /\ Strong(w)
               /\ f \notin {"handleTimeout", "user"} => NoRead(w.todo)
               /\ f \in Handlers => p = TRUE
               /\ f = "connect" => w.client = TRUE
               /\ f = "handleRead" /\ s \in Live(conn) => Closable(w, s)
               /\ w.client = client
  <1> DEFINE w == [Whole EXCEPT !.todo = Tail(@)]
             e == Head(todo)
  <1>1. todo \in Seq(Work) /\ Whole.todo = todo
    BY QueuesAre, WholeIs DEF Good
  <1>2. e \in Work /\ e = <<e[1], e[2]>>
    BY <1>1 DEF Work
  <1>3. Entries(todo) = Entries(Tail(todo)) \cup {e}
    BY <1>1, <1>2, EntriesAre, Zenon
  <1>4. Lone(todo)
    BY <1>1 DEF Fine, Rest
  <1>5. /\ Lone(Tail(todo)) /\ (e[1] = "handleRead" => NoRead(Tail(todo)))
        /\ (e \notin Timers => NoRead(Tail(todo)))
    BY <1>1, <1>4, LoneTail
  <1> HIDE DEF Whole
  <1>6. /\ Quiet(w, Whole) /\ w.pending = Whole.pending /\ w.todo = Tail(todo)
        /\ w.client = Whole.client /\ w.connection_ = Whole.connection_ /\ w.conn = Whole.conn
    BY <1>1 DEF Quiet, Good, Owned, Fields
  <1> HIDE DEF w, e
  <1>7. Queued(w) \cup {<<e[1], e[2]>>} = Queued(Whole)
    BY <1>1, <1>2, <1>3, <1>6 DEF Queued
  <1>8. Rest(w, p)
    BY <1>1, <1>3, <1>5, <1>6, RestQuiet, Zenon DEF Fine
  <1>9. ConnsFine(w, Queued(w) \cup {<<e[1], e[2]>>})
    BY <1>6, <1>7, Zenon DEF Fine, ConnsFine, Quiet
  <1>10. Strong(w)
    BY <1>1, <1>3, <1>6 DEF Strong, Closable
  <1>11. e[1] \notin {"handleTimeout", "user"} => NoRead(w.todo)
    <2>1. e[1] \notin {"handleTimeout", "user"} => e \notin Timers
      BY DEF Timers
    <2> QED
      BY <1>5, <1>6, <2>1
  <1>12. e \in Entries(Whole.todo)
    BY <1>1, <1>3
  <1>13. (e[1] \in Handlers => p = TRUE) /\ (e[1] = "connect" => w.client = TRUE)
    BY <1>6, <1>12 DEF Fine, Rest, Queued
  <1>14. e[1] = "handleRead" /\ e[2] \in Live(conn) => Closable(w, e[2])
    <2>1. Whole.conn = conn
      BY WholeIs
    <2> QED
      BY <1>2, <1>6, <1>12, <2>1 DEF Strong, Closable
  <1>15. w.client = client
    BY <1>6, WholeHas
  <1> QED
    BY <1>8, <1>9, <1>10, <1>11, <1>13, <1>14, <1>15 DEF Fine, w, e

\* An event that is found by its connection, strongly or weakly.
LEMMA StrongIsWeak ==
    ASSUME NEW w, Strong(w)
    PROVE  Weak(w)
  BY DEF Strong, Weak

\* A handler or a functor.
LEMMA RunFine ==
    ASSUME Inv, SafeInv, Run
    PROVE  SafeInv'
  <1> DEFINE f == Head(todo)[1]
             s == Head(todo)[2]
             w == [Whole EXCEPT !.todo = Tail(@)]
             Q == Queued(w)
  <1>0. /\ Running /\ Good(Whole) /\ todo # <<>> /\ phase' = phase /\ polled' = polled
        /\ Fine(Whole, polled, Queued(Whole)) /\ Strong(Whole) /\ phase # "poll"
    BY Zenon DEF Run, Inv, SafeInv
  <1>1. Head(todo) \in Entry(Live(conn)) /\ Good(w) /\ w.conn = conn /\ w.made = made
    BY <1>0, HeadAndTail
  <1>2. f \in Names /\ s \in 0..MaxAttempts /\ (f = "handleRead" => s \in Sockets)
        /\ (f \in Closers => s \in Live(conn))
    <2> HIDE DEF w
    <2> QED
      BY <1>1 DEF Entry, Holders, Closers
  <1>3. /\ Fine(w, polled, Queued(w) \cup {<<f, s>>}) /\ Strong(w)
        /\ f \notin {"handleTimeout", "user"} => NoRead(w.todo)
        /\ f \in Handlers => polled = TRUE
        /\ f = "connect" => w.client = TRUE
        /\ f = "handleRead" /\ s \in Live(conn) => Closable(w, s)
        /\ w.client = client
    BY <1>0, HeadFine, Zenon
  <1>4. ASSUME f \notin Closers PROVE Fine(w, polled, Queued(w))
    <2> HIDE DEF f, s, w
    <2> QED
      BY <1>3, <1>4, DropFine, Zenon
  <1>5. ASSUME NEW v, Good(v), Fine(v, polled, Queued(v)), Weak(v), Becomes(v) PROVE SafeInv'
    <2>1. Fine(Whole', polled, Queued(Whole')) /\ Strong(Whole') /\ OnlyKnownFailures'
      BY <1>5, BecomesFine
    <2> QED
      BY <1>0, <2>1 DEF SafeInv
  <1>6. ASSUME NEW v, Good(v), Fine(v, polled, Queued(v)), Strong(v), Becomes(v) PROVE SafeInv'
    BY <1>5, <1>6, StrongIsWeak
  <1>7. CASE f \in Handlers
    <2>1. \/ Crash(f) \/ Becomes(handleError(w, s)) \/ Becomes(handleTimeout(w, s))
          \/ f = "handleWrite" /\ Becomes(handleWrite(w, s))
      BY <1>7, Zenon DEF Run, Handlers
    <2>2. Fine(w, polled, Queued(w))
      BY <1>4, <1>7 DEF Handlers, Closers
    <2> HIDE DEF w, s
    <2>3. ASSUME Crash(f) PROVE SafeInv'
      <3>1. failures' = {[at |-> f, muted |-> FALSE]}
        BY <2>3, Zenon DEF Crash
      <3>2. ~Running'
        BY <3>1, Zenon DEF Running
      <3>3. OnlyKnownFailures'
        BY <1>0, <1>3, <1>7, <3>1 DEF OnlyKnownFailures, Handlers
      <3> QED
        BY <3>2, <3>3 DEF SafeInv
    <2> HIDE DEF f
    <2>4. Good(handleError(w, s)) /\ Good(handleWrite(w, s)) /\ Good(handleTimeout(w, s))
      BY <1>1, HandlersKeep
    <2>5. /\ Fine(handleError(w, s), polled, Queued(handleError(w, s))) /\ Strong(handleError(w, s))
          /\ Fine(handleTimeout(w, s), polled, Queued(handleTimeout(w, s))) /\ Strong(handleTimeout(w, s))
          /\ NoRead(w.todo) => /\ Fine(handleWrite(w, s), polled, Queued(handleWrite(w, s)))
                               /\ Strong(handleWrite(w, s))
      BY <1>1, <1>3, <2>2, HandlersFine
    <2> QED
      BY <1>3, <1>6, <2>1, <2>3, <2>4, <2>5
  <1>8. CASE f = "handleRead"
    <2>1. \/ conn[s] = NoConn /\ Becomes(w)
          \/ conn[s] # NoConn /\ ~Closable(w, s)
          \/ conn[s] # NoConn /\ Becomes(handleClose(w, s))
      BY <1>8, Zenon DEF Run
    <2>2. conn[s] # NoConn => s \in Live(w.conn) /\ s \in Live(conn)
      BY <1>1, <1>2, <1>8 DEF Live
    <2>3. Fine(w, polled, Queued(w))
      BY <1>4, <1>8 DEF Closers
    <2> HIDE DEF s, w
    <2>4. ASSUME conn[s] # NoConn
          PROVE  /\ Good(handleClose(w, s)) /\ Strong(handleClose(w, s))
                 /\ Fine(handleClose(w, s), polled, Queued(handleClose(w, s)))
      <3>1. NoRead(w.todo)
        BY <1>3, <1>8
      <3> QED
        BY <1>1, <2>2, <2>3, <2>4, <3>1, HandleCloseKeeps, HandleCloseFine
    <2> QED
      BY <1>1, <1>3, <1>6, <1>8, <2>1, <2>2, <2>3, <2>4
  <1>9. CASE f = "closeCallback"
    <2>1. \/ conn[s].closeCallback /\ Becomes(removeConnection(w, s))
          \/ ~conn[s].closeCallback /\ Becomes(w)
      BY <1>9, Zenon DEF Run
    <2>2. s \in Live(w.conn) /\ w.conn = conn
      BY <1>1, <1>2, <1>9 DEF Closers
    <2>3. NoRead(w.todo) /\ Fine(w, polled, Queued(w) \cup {<<"closeCallback", s>>})
      BY <1>3, <1>9, Zenon
    <2> HIDE DEF s, w
    <2>4. /\ Good(removeConnection(w, s)) /\ Strong(removeConnection(w, s))
          /\ Fine(removeConnection(w, s), polled, Queued(removeConnection(w, s)))
      BY <1>1, <2>2, <2>3, RemoveConnectionKeeps, RemoveFine
    <2>5. ASSUME ~conn[s].closeCallback PROVE Fine(w, polled, Queued(w))
      <3>1. conn[s].closeCallback \in BOOLEAN
        BY <2>2, <2>3, Zenon DEF Fine, ConnsFine, ConnFine
      <3>2. w.conn[s].closeCallback = FALSE
        BY <2>2, <2>5, <3>1
      <3> QED
        BY <2>2, <2>3, <3>2, DropFine, Zenon
    <2> QED
      BY <1>1, <1>3, <1>6, <2>1, <2>4, <2>5
  <1>10. CASE f = "forceCloseInLoop"
    <2>1. \/ Becomes(handleClose(w, s))
          \/ ~Closable(w, s) /\ Becomes(w)
      BY <1>10, Zenon DEF Run
    <2>2. s \in Live(w.conn)
      BY <1>1, <1>2, <1>10 DEF Closers
    <2>3. NoRead(w.todo) /\ Fine(w, polled, Queued(w) \cup {<<"forceCloseInLoop", s>>})
      BY <1>3, <1>10, Zenon
    <2> HIDE DEF s, w
    <2>4. /\ Good(handleClose(w, s)) /\ Strong(handleClose(w, s))
          /\ Fine(handleClose(w, s), polled, Queued(handleClose(w, s)))
      BY <1>1, <2>2, <2>3, HandleCloseKeeps, HandleCloseFine
    <2>5. ASSUME ~Closable(w, s) PROVE Fine(w, polled, Queued(w))
      BY <2>2, <2>3, <2>5, DropFine, Zenon
    <2> QED
      BY <1>1, <1>3, <1>6, <2>1, <2>4, <2>5
  <1>11. CASE f = "connectDestroyed"
    <2>1. Becomes(connectDestroyed(w, s))
      BY <1>11, Zenon DEF Run
    <2>2. s \in Live(w.conn)
      BY <1>1, <1>2, <1>11 DEF Closers
    <2>3. NoRead(w.todo) /\ Fine(w, polled, Queued(w) \cup {<<"connectDestroyed", s>>})
      BY <1>3, <1>11, Zenon
    <2> HIDE DEF s, w
    <2>4. /\ Good(connectDestroyed(w, s)) /\ Strong(connectDestroyed(w, s))
          /\ Fine(connectDestroyed(w, s), polled, Queued(connectDestroyed(w, s)))
      BY <1>1, <2>2, <2>3, DestroyedKeeps, DestroyedFine
    <2> QED
      BY <1>6, <2>1, <2>4
  <1>12. CASE f \in {"doomed", "user"}
    <2>1. Becomes(w)
      BY <1>12, Zenon DEF Run
    <2>2. Fine(w, polled, Queued(w))
      BY <1>4, <1>12 DEF Closers
    <2> HIDE DEF f, s, w
    <2> QED
      BY <1>1, <1>3, <1>6, <2>1, <2>2
  <1>13. CASE f \in {"disconnect", "stop"}
    <2>1. Becomes(disconnect(w)) \/ Becomes(stop(w))
      BY <1>13, Zenon DEF Run, Call
    <2>2. Fine(w, polled, Queued(w))
      BY <1>4, <1>13 DEF Closers
    <2> HIDE DEF f, s, w
    <2>3. Good(disconnect(w)) /\ Fine(disconnect(w), polled, Queued(disconnect(w))) /\ Strong(disconnect(w))
      BY <1>1, <1>3, <2>2, DisconnectKeeps, DisconnectFine
    <2>4. Good(stop(w)) /\ Fine(stop(w), polled, Queued(stop(w))) /\ Strong(stop(w))
      BY <1>1, <1>3, <2>2, StopCallKeeps, StopCallFine
    <2> QED
      BY <1>6, <2>1, <2>3, <2>4
  <1>14. CASE f = "connect"
    <2>1. Becomes(w) \/ \E how \in Hows : Becomes(startInLoop(w, how))
      BY <1>14, Zenon DEF Run, Call
    <2>2. Fine(w, polled, Queued(w)) /\ w.client = TRUE
      BY <1>3, <1>4, <1>14 DEF Closers
    <2> HIDE DEF s, w
    <2>3. ASSUME NEW how \in Hows
          PROVE  /\ Good(startInLoop(w, how)) /\ Strong(startInLoop(w, how))
                 /\ Fine(startInLoop(w, how), polled, Queued(startInLoop(w, how)))
      <3>1. made < MaxAttempts /\ how \in {"EMFILE", "ENETUNREACH", "EINPROGRESS"}
        BY <2>3 DEF Hows
      <3> QED
        BY <1>1, <1>3, <2>2, <3>1, StartKeeps, StartFine, Zenon
    <2> QED
      BY <1>1, <1>3, <1>6, <2>1, <2>2, <2>3
  <1> QED
    BY <1>2, <1>7, <1>8, <1>9, <1>10, <1>11, <1>12, <1>13, <1>14 DEF Names, Handlers

\* The event of a connection among timers.
LEMMA LoneRead ==
    ASSUME NEW q \in Seq(Timers), NEW e \in Work
    PROVE  Lone(<<e>> \o q) /\ Lone(q \o <<e>>)
  <1> DEFINE p == <<e>> \o q
             r == q \o <<e>>
  <1>1. Len(q) \in Nat /\ DOMAIN q = 1..Len(q) /\ DOMAIN p = 1..Len(q)+1 /\ DOMAIN r = 1..Len(q)+1
    OBVIOUS
  <1>2. p[1] = e /\ \A i \in 2..Len(q)+1 : p[i] \in Timers
    OBVIOUS
  <1>3. r[Len(q)+1] = e /\ \A i \in 1..Len(q) : r[i] \in Timers
    OBVIOUS
  <1>4. \A x \in Timers : x[1] # "handleRead"
    BY DEF Timers
  <1> HIDE DEF p, r
  <1>5. Lone(p)
    <2> SUFFICES ASSUME NEW i \in DOMAIN p, NEW j \in DOMAIN p, i # j, p[i][1] = "handleRead"
                 PROVE  p[j] \in Timers
      BY DEF Lone
    <2>1. i = 1
      BY <1>1, <1>2, <1>4
    <2> QED
      BY <1>1, <1>2, <2>1
  <1>6. Lone(r)
    <2> SUFFICES ASSUME NEW i \in DOMAIN r, NEW j \in DOMAIN r, i # j, r[i][1] = "handleRead"
                 PROVE  r[j] \in Timers
      BY DEF Lone
    <2>1. i = Len(q) + 1
      BY <1>1, <1>3, <1>4
    <2> QED
      BY <1>1, <1>3, <2>1
  <1> QED
    BY <1>5, <1>6 DEF p, r

\* A poll reports one channel at most, beside the timers.
LEMMA PollLone ==
    ASSUME Inv, Poll
    PROVE  Lone(todo')
  <1>1. /\ channel_ \in 0..MaxAttempts /\ armed \in 0..MaxAttempts /\ 0 \in 0..MaxAttempts
    <2>1. Good(Whole)
      BY Zenon DEF Poll, Inv
    <2> QED
      BY <2>1, WholeIs, TcpClientAssumption DEF Good, Owned
  <1>2. PICK io \in {<<>>} \cup ChannelEvents \cup ConnectionEvents,
             timers \in {<<>>} \cup TimerEvents :
            todo' \in {io \o timers, timers \o io}
    BY Zenon DEF Poll
  <1>3. timers \in Seq(Timers)
    <2>1. <<"user", 0>> \in Timers /\ <<"handleTimeout", armed>> \in Timers
      BY <1>1 DEF Timers, Work, Names
    <2> QED
      BY <2>1, TimersFind
  <1>4. CASE io \in ConnectionEvents
    <2>1. PICK s \in Sockets : io = <<<<"handleRead", s>>>>
      BY <1>4, Zenon DEF ConnectionEvents
    <2>2. <<"handleRead", s>> \in Work
      BY TcpClientAssumption DEF Work, Names, Sockets
    <2> QED
      BY <1>2, <1>3, <2>1, <2>2, LoneRead, Zenon
  <1>5. CASE io \notin ConnectionEvents
    <2> DEFINE N == {e \in Work : e[1] # "handleRead"}
    <2>1. /\ <<"user", 0>> \in N /\ <<"handleError", channel_>> \in N
          /\ <<"handleWrite", channel_>> \in N /\ <<"handleTimeout", armed>> \in N
      BY <1>1 DEF Work, Names
    <2>2. \A e \in N : e[1] # "handleRead"
      OBVIOUS
    <2> HIDE DEF N
    <2>3. timers \in Seq(N)
      BY <2>1, TimersFind
    <2>4. io \in Seq(N)
      <3>1. CASE io \in ChannelEvents
        BY <2>1, <3>1, ChannelFinds
      <3>2. CASE io = <<>>
        BY <3>2, SeqFacts, Zenon
      <3> QED
        BY <1>2, <1>5, <3>1, <3>2
    <2>5. todo' \in Seq(N)
      BY <1>2, <2>3, <2>4, SeqFacts, Zenon
    <2>6. \A i \in DOMAIN todo' : todo'[i][1] # "handleRead"
      BY <2>2, <2>5
    <2> QED
      BY <2>6 DEF Lone
  <1> QED
    BY <1>4, <1>5

\* The events a poll finds.
LEMMA PollFine ==
    ASSUME Inv, SafeInv, Poll
    PROVE  SafeInv'
  <1>0. /\ Running /\ Good(Whole) /\ phase' = "events" /\ phase = "poll" /\ polled' = client
        /\ Fine(Whole, polled, Queued(Whole)) /\ Strong(Whole) /\ todo = <<>>
    BY Zenon DEF Poll, Inv, SafeInv
  <1>1. /\ client' = client /\ state_' = state_ /\ sockfd_' = sockfd_ /\ channel_' = channel_
        /\ connection_' = connection_ /\ conn' = conn /\ failures' = failures
        /\ timeoutId_' = timeoutId_ /\ made' = made
        /\ pending' = pending /\ (armed' = 0 \/ armed' = armed)
    BY Zenon DEF Poll
  <1>2. /\ channel_ \in 0..MaxAttempts /\ armed \in 0..MaxAttempts /\ 0 \in 0..MaxAttempts
        /\ channel_ \in {0, sockfd_} /\ armed \in {0, sockfd_}
        /\ client \in BOOLEAN /\ (client = FALSE => sockfd_ = 0)
        /\ \A s \in Sockets : s \in 0..MaxAttempts
    BY <1>0, WholeIs, WholeHas, TcpClientAssumption DEF Good, Owned, Fine, Rest, OwnSocket, Sockets
  <1> DEFINE E == {e \in Work : /\ e[1] \in Handlers => client = TRUE
                                /\ e[1] = "handleRead" => Closable(Whole, e[2])
                                /\ e[1] \in {"user", "handleRead"} \cup Handlers}
  <1>3. /\ <<"user", 0>> \in E
        /\ channel_ # 0 => <<"handleError", channel_>> \in E /\ <<"handleWrite", channel_>> \in E
        /\ armed # 0 => <<"handleTimeout", armed>> \in E
        /\ \A s \in Sockets : Closable(Whole, s) => <<"handleRead", s>> \in E
    <2> HIDE DEF Closable, Whole
    <2> QED
      BY <1>2 DEF Handlers, Work, Names
  <1>4. /\ \A e \in E : e[1] \in Handlers => client = TRUE
        /\ \A s : <<"handleRead", s>> \in E => Closable(Whole, s)
        /\ \A e \in E : e[1] \notin {"connect"} \cup Closers
    BY DEF Handlers, Closers
  <1> HIDE DEF E
  <1>5. todo' \in Seq(E)
    BY <1>3, PollFinds
  <1>6. Entries(todo') \subseteq E
    BY <1>5 DEF Entries
  <1>7. Entries(todo) = {}
    BY <1>0 DEF Entries
  <1>8. Whole'.pending = pending /\ Whole'.todo = todo' /\ Whole'.conn = conn /\ Whole.conn = conn
        /\ Whole.pending = pending /\ Whole.todo = todo /\ Whole'.client = client /\ Whole.client = client
        /\ Whole'.state_ = Whole.state_ /\ Whole'.connection_ = Whole.connection_
        /\ Whole'.sockfd_ = Whole.sockfd_
    BY <1>1, WholeIs, WholeNext, WholeHas
  <1>9. OwnSocket(Whole')
    BY <1>0, <1>1, WholeIs, WholeNext, WholeHas DEF Fine, Rest, OwnSocket
  <1>10. Lone(todo')
    BY PollLone
  <1>11. \A s : Closable(Whole', s) <=> Closable(Whole, s)
    BY <1>8 DEF Closable
  <1> HIDE DEF Whole
  <1>12. Rest(Whole', client)
    BY <1>0, <1>4, <1>6, <1>7, <1>8, <1>9, <1>10 DEF Fine, Rest, Queued
  <1>13. \A f \in Closers, s \in Live(conn) : <<f, s>> \in Queued(Whole) <=> <<f, s>> \in Queued(Whole')
    <2>1. \A f \in Closers, s \in Live(conn) : <<f, s>> \notin Entries(todo')
      BY <1>4, <1>6
    <2> QED
      BY <1>7, <1>8, <2>1, Zenon DEF Queued
  <1>14. ConnsFine(Whole', Queued(Whole'))
    BY <1>0, <1>8, <1>13, Zenon DEF Fine, ConnsFine, ConnFine, Closers
  <1>15. Strong(Whole')
    BY <1>4, <1>6, <1>8, <1>11 DEF Strong
  <1>16. failures' = {} /\ OnlyKnownFailures'
    BY <1>0, <1>1 DEF OnlyKnownFailures, Running
  <1> QED
    BY <1>0, <1>12, <1>14, <1>15, <1>16 DEF SafeInv, Fine

\* Steps that leave the client, the Connector and the connections alone, and queue no event, no
\* callback and no closing of a connection.
LEMMA SafeSame ==
    ASSUME Running, Fine(Whole, polled, Queued(Whole)), Strong(Whole),
           UNCHANGED <<client, state_, sockfd_, channel_, timeoutId_, armed, made, connection_, conn,
                       polled, failures>>,
           \A e \in Entries(pending') : e \in Entries(pending) \/ e[1] \in {"connect", "disconnect", "stop"},
           \A e \in Entries(todo') : e \in Queued(Whole) /\ (e \in Entries(todo) \/ NoRead(todo')),
           \A e \in Queued(Whole') : e[1] = "connect" => e \in Queued(Whole) \/ client = TRUE,
           Queued(Whole) \subseteq Queued(Whole'), Lone(todo'), phase' = "poll" => todo' = <<>>
    PROVE  SafeInv'
  <1>1. /\ client' = client /\ state_' = state_ /\ sockfd_' = sockfd_ /\ channel_' = channel_
        /\ timeoutId_' = timeoutId_ /\ made' = made /\ armed' = armed
        /\ connection_' = connection_ /\ conn' = conn /\ failures' = failures /\ polled' = polled
    BY Zenon
  <1>2. /\ Whole'.pending = pending' /\ Whole'.todo = todo' /\ Whole'.conn = Whole.conn
        /\ Whole.pending = pending /\ Whole.todo = todo /\ Whole'.client = Whole.client
        /\ Whole'.state_ = Whole.state_ /\ Whole'.connection_ = Whole.connection_
        /\ Whole'.sockfd_ = Whole.sockfd_ /\ Whole.client = client
    BY <1>1, WholeIs, WholeNext, WholeHas
  <1>3. OwnSocket(Whole')
    BY <1>1, WholeIs, WholeNext, WholeHas DEF Fine, Rest, OwnSocket
  <1>4. \A s : Closable(Whole', s) <=> Closable(Whole, s)
    BY <1>2 DEF Closable
  <1> HIDE DEF Whole
  <1>5. Rest(Whole', polled)
    <2>1. \A e \in Entries(Whole'.pending) : e[1] \notin {"handleRead", "user", "closeCallback"} \cup Handlers
      BY <1>2 DEF Fine, Rest, Handlers
    <2>2. \A e \in Entries(Whole'.todo) : e[1] \in Handlers => polled = TRUE
      BY <1>2 DEF Fine, Rest, Queued
    <2>3. Whole'.client = FALSE => \A e \in Queued(Whole') : e[1] # "connect"
      BY <1>2 DEF Fine, Rest
    <2> QED
      BY <1>2, <1>3, <2>1, <2>2, <2>3 DEF Fine, Rest
  <1>6. \A f \in Closers, s \in Live(Whole.conn) : <<f, s>> \in Queued(Whole) <=> <<f, s>> \in Queued(Whole')
    BY <1>2 DEF Queued, Closers
  <1>7. ConnsFine(Whole', Queued(Whole'))
    BY <1>2, <1>6, Zenon DEF Fine, ConnsFine, ConnFine, Closers
  <1>8. Strong(Whole')
    BY <1>2, <1>4, Zenon DEF Strong, NoRead
  <1>9. failures' = {} /\ OnlyKnownFailures'
    BY <1>1 DEF OnlyKnownFailures, Running
  <1> QED
    BY <1>1, <1>5, <1>7, <1>8, <1>9 DEF SafeInv, Fine

\* The functors are swapped out, or another thread posts a call.
LEMMA QueuesFine ==
    ASSUME Inv, SafeInv, Turn \/ \E call \in {"connect", "disconnect", "stop"} : Post(call)
    PROVE  SafeInv'
  <1>0. /\ Running /\ Good(Whole) /\ Fine(Whole, polled, Queued(Whole)) /\ Strong(Whole)
        /\ phase = "poll" => todo = <<>>
    BY Zenon DEF Turn, Post, Inv, SafeInv
  <1>1. UNCHANGED <<client, state_, sockfd_, channel_, timeoutId_, armed, made, connection_, conn,
                    polled, failures>>
    BY Zenon DEF Turn, Post, connectorVars
  <1>2. /\ Queued(Whole) = Entries(pending) \cup Entries(todo)
        /\ Queued(Whole') = Entries(pending') \cup Entries(todo')
    BY WholeIs, WholeNext DEF Queued
  <1>3. /\ \A e \in Entries(pending) : e[1] # "handleRead"
        /\ Lone(todo)
    BY <1>0, WholeIs DEF Fine, Rest
  <1> HIDE DEF Whole
  <1>4. CASE Turn /\ phase = "events"
    <2>1. phase' = "functors" /\ todo' = pending /\ pending' = <<>> /\ todo = <<>>
      BY <1>4, Zenon DEF Turn
    <2>2. Entries(pending') = {} /\ Entries(todo) = {}
      BY <2>1 DEF Entries
    <2>3. NoRead(todo') /\ Lone(todo')
      BY <1>3, <2>1 DEF NoRead, Lone, Entries
    <2>4. Queued(Whole') = Queued(Whole)
      BY <1>2, <2>1, <2>2
    <2> QED
      BY <1>0, <1>1, <1>2, <2>1, <2>2, <2>3, <2>4, SafeSame, Zenon
  <1>5. CASE Turn /\ phase # "events"
    <2>1. phase' = "poll" /\ todo' = todo /\ todo = <<>> /\ pending' = pending
      BY <1>5, Zenon DEF Turn
    <2> QED
      BY <1>0, <1>1, <1>2, <1>3, <2>1, SafeSame, Zenon
  <1>6. ASSUME NEW call \in {"connect", "disconnect", "stop"}, Post(call)
        PROVE  SafeInv'
    <2>1. phase' = phase /\ pending' = Append(pending, <<call, 0>>) /\ todo' = todo /\ client = TRUE
      <3>1. phase' = phase /\ pending' = Append(pending, <<call, 0>>) /\ todo' = todo /\ client
        BY <1>6, Zenon DEF Post
      <3>2. client \in BOOLEAN
        BY <1>0, WholeHas DEF Fine, Rest
      <3> QED
        BY <3>1, <3>2
    <2>2. <<call, 0>> \in Work /\ pending \in Seq(Work)
      BY <1>0, QueuesAre, WholeIs, TcpClientAssumption DEF Good, Work, Names
    <2>3. Entries(pending') = Entries(pending) \cup {<<call, 0>>}
      BY <2>1, <2>2, EntriesAre, Zenon
    <2>4. \A e \in Entries(pending') : e \in Entries(pending) \/ e[1] \in {"connect", "disconnect", "stop"}
      BY <2>3
    <2>5. /\ \A e \in Entries(todo') : e \in Queued(Whole) /\ (e \in Entries(todo) \/ NoRead(todo'))
          /\ \A e \in Queued(Whole') : e[1] = "connect" => e \in Queued(Whole) \/ client = TRUE
          /\ Queued(Whole) \subseteq Queued(Whole') /\ Lone(todo') /\ (phase' = "poll" => todo' = <<>>)
      BY <1>0, <1>2, <1>3, <2>1, <2>3, Zenon
    <2> QED
      BY <1>0, <1>1, <2>4, <2>5, SafeSame, Zenon
  <1> QED
    BY <1>4, <1>5, <1>6

\* The application's calls from a callback.
LEMMA UserFine ==
    ASSUME Inv, SafeInv, NEW call \in CallbackCalls, UserCalls(call)
    PROVE  SafeInv'
  <1>0. /\ Running /\ Good(Whole) /\ Fine(Whole, polled, Queued(Whole)) /\ Strong(Whole)
        /\ phase' = phase /\ polled' = polled /\ phase # "poll" /\ client
    BY Zenon DEF UserCalls, Inv, SafeInv
  <1>1. PICK how \in (IF call = "connect" THEN Hows ELSE {"none"}) : Becomes(Call(Whole, call, how))
    BY Zenon DEF UserCalls
  <1>2. Whole.client = TRUE
    <2>1. client \in BOOLEAN
      BY <1>0, WholeHas DEF Fine, Rest
    <2> QED
      BY <1>0, <2>1, WholeHas
  <1>3. call \in {"connect", "disconnect", "stop", "destroy"} /\ Whole.made = made
    BY TcpClientAssumption, WholeIs
  <1>4. ASSUME NEW v, Good(v), Fine(v, polled, Queued(v)), Weak(v), Becomes(v) PROVE SafeInv'
    <2>1. Fine(Whole', polled, Queued(Whole')) /\ Strong(Whole') /\ OnlyKnownFailures'
      BY <1>4, BecomesFine
    <2> QED
      BY <1>0, <2>1 DEF SafeInv
  <1> HIDE DEF Whole
  <1>5. CASE call = "connect"
    <2>1. made < MaxAttempts /\ how \in {"EMFILE", "ENETUNREACH", "EINPROGRESS"}
      BY <1>1, <1>5 DEF Hows
    <2>2. /\ Good(startInLoop(Whole, how)) /\ Strong(startInLoop(Whole, how))
          /\ Fine(startInLoop(Whole, how), polled, Queued(startInLoop(Whole, how)))
      BY <1>0, <1>2, <1>3, <2>1, StartKeeps, StartFine, Zenon
    <2>3. Becomes(startInLoop(Whole, how))
      BY <1>1, <1>5 DEF Call
    <2> QED
      BY <1>4, <2>2, <2>3, StrongIsWeak
  <1>6. CASE call = "disconnect"
    <2>1. Becomes(disconnect(Whole))
      BY <1>1, <1>6 DEF Call
    <2>2. /\ Good(disconnect(Whole)) /\ Strong(disconnect(Whole))
          /\ Fine(disconnect(Whole), polled, Queued(disconnect(Whole)))
      BY <1>0, DisconnectKeeps, DisconnectFine
    <2> QED
      BY <1>4, <2>1, <2>2, StrongIsWeak
  <1>7. CASE call = "stop"
    <2>1. Becomes(stop(Whole))
      BY <1>1, <1>7 DEF Call
    <2>2. Good(stop(Whole)) /\ Strong(stop(Whole)) /\ Fine(stop(Whole), polled, Queued(stop(Whole)))
      BY <1>0, StopCallKeeps, StopCallFine
    <2> QED
      BY <1>4, <2>1, <2>2, StrongIsWeak
  <1>8. CASE call = "destroy"
    <2>1. Becomes(destroy(Whole))
      BY <1>1, <1>8 DEF Call
    <2>2. \A q \in {pending, todo} : \A i \in DOMAIN q : q[i][1] \notin {"connect", "disconnect", "stop"}
      BY <1>8, Zenon DEF UserCalls
    <2>3. \A e \in Queued(Whole) : e[1] # "connect"
      <3>1. Whole.pending = pending /\ Whole.todo = todo
        BY WholeIs
      <3> QED
        BY <2>2, <3>1 DEF Queued, Entries
    <2>4. Good(destroy(Whole)) /\ Fine(destroy(Whole), polled, Queued(destroy(Whole))) /\ Weak(destroy(Whole))
      BY <1>0, <2>3, DestroyKeeps, DestroyFine
    <2> QED
      BY <1>4, <2>1, <2>4
  <1> QED
    BY <1>3, <1>5, <1>6, <1>7, <1>8

\* The network answers, or nothing happens.
LEMMA OtherFine ==
    ASSUME SafeInv,
           \/ \E s \in Sockets, answer \in {"up", "self", "refused", "fin"} : Answer(s, answer)
           \/ UNCHANGED vars
    PROVE  SafeInv'
  <1>1. /\ UNCHANGED <<client, state_, sockfd_, channel_, timeoutId_, armed, made, connection_, conn,
                       polled, failures>>
        /\ pending' = pending /\ todo' = todo /\ phase' = phase
    BY Zenon DEF Answer, vars, connectorVars
  <1>2. CASE Running
    <2>1. /\ Fine(Whole, polled, Queued(Whole)) /\ Strong(Whole) /\ (phase = "poll" => todo = <<>>)
      BY <1>2 DEF SafeInv
    <2>2. /\ Queued(Whole) = Entries(pending) \cup Entries(todo)
          /\ Queued(Whole') = Entries(pending') \cup Entries(todo') /\ Whole.todo = todo
      BY WholeIs, WholeNext DEF Queued
    <2> HIDE DEF Whole
    <2>3. Lone(todo)
      BY <2>1, <2>2 DEF Fine, Rest
    <2> QED
      BY <1>1, <1>2, <2>1, <2>2, <2>3, SafeSame, Zenon
  <1>3. CASE ~Running
    <2>1. failures' = failures /\ client' = client /\ polled' = polled
      BY <1>1, Zenon
    <2> QED
      BY <1>3, <2>1 DEF SafeInv, Running, OnlyKnownFailures
  <1> QED
    BY <1>2, <1>3

\* At first there is no connection and nothing is queued.
LEMMA SafeInit == Init => SafeInv
  <1> SUFFICES ASSUME Init PROVE SafeInv
    OBVIOUS
  <1>1. /\ sockfd_ = 0 /\ channel_ = 0 /\ armed = 0 /\ made = 0 /\ pending = <<>> /\ todo = <<>>
        /\ conn = [s \in Sockets |-> NoConn] /\ failures = {} /\ client = TRUE
    BY Zenon DEF Init
  <1>2. Entries(pending) = {} /\ Entries(todo) = {} /\ Live(conn) = {} /\ Lone(todo)
    BY <1>1 DEF Entries, Live, Lone
  <1>3. Fine(Whole, polled, Queued(Whole)) /\ Strong(Whole)
    BY <1>1, <1>2, WholeIs, WholeHas, Zenon DEF Fine, ConnsFine, Rest, OwnSocket, Queued, Strong
  <1> QED
    BY <1>1, <1>3 DEF SafeInv, OnlyKnownFailures

(***************************************************************************)
(* Whatever the application calls and from where, the asserts of the       *)
(* client, the Connector and their connections fail, and the Connector is  *)
(* used after its destruction, in the known cases only: a handler of the   *)
(* Connector that the poll found before the client was destroyed, and the  *)
(* channel of a connection the client muted while it was closing.          *)
(***************************************************************************)
THEOREM FailuresAreKnown == Spec => []OnlyKnownFailures
  <1>1. Inv /\ SafeInv /\ [Next]_vars => SafeInv'
    BY PollFine, QueuesFine, RunFine, UserFine, OtherFine, Zenon DEF Next
  <1>2. SafeInv => OnlyKnownFailures
    BY DEF SafeInv
  <1> QED
    BY <1>1, <1>2, InvInit, InvStep, SafeInit, PTL DEF Spec

=============================================================================
