--------------------------- MODULE TcpServerProofs ---------------------------
(***************************************************************************)
(* Proof that running out of descriptors never costs the Acceptor its      *)
(* reserved one, for any number of peers, connections, sub-loops and free  *)
(* descriptors. Then the inductive invariant of a connection's life, and   *)
(* the steps that keep it whatever else waits in the loops; the others and *)
(* what follows from it are in TcpServerLifeProofs.                        *)
(***************************************************************************)
EXTENDS TcpServer, SequenceTheorems, FiniteSetTheorems, TLAPS

(***************************************************************************)
(* What a step does to the descriptors: the connections it lets go of give *)
(* theirs back, so their number must be finite.                            *)
(***************************************************************************)
Fields == {"conns", "map", "base", "loops"}

\* w is a record of the whole with n connections.
WholeOf(w, n) ==
    /\ w = [x \in Fields |-> w[x]]
    /\ w.conns = [c \in 1..n |-> w.conns[c]]

\* Connections that are destroyed only add descriptors.
LEMMA ReleaseEffect ==
    ASSUME NEW w, NEW n \in Nat, WholeOf(w, n), NEW fds \in 0..MaxSpare, Release(w, fds)
    PROVE  /\ spare' \in 0..MaxSpare /\ spare' >= fds
           /\ conns' = [c \in 1..n |-> conns'[c]]
  <1> DEFINE dead == {c \in DOMAIN w.conns : ~w.conns[c].freed /\ ~Held(w, c)}
  <1>1. /\ conns' = [c \in DOMAIN w.conns |-> [w.conns[c] EXCEPT !.freed = @ \/ c \in dead]]
        /\ spare' = Freed(fds, Cardinality(dead))
    BY Zenon DEF Release
  <1>2. DOMAIN w.conns = 1..n
    BY DEF WholeOf
  <1>3. Cardinality(dead) \in Nat
    <2>1. dead \subseteq 1..n
      BY <1>2
    <2> HIDE DEF dead
    <2>2. IsFiniteSet(1..n)
      BY FS_Interval
    <2>3. IsFiniteSet(dead)
      BY <2>1, <2>2, FS_Subset, Zenon
    <2> QED
      BY <2>3, FS_CardinalityType
  <1> HIDE DEF dead
  <1>4. conns' = [c \in 1..n |-> conns'[c]]
    BY <1>1, <1>2
  <1>5. spare' \in 0..MaxSpare /\ spare' >= fds
    BY <1>1, <1>3, TcpServerAssumption DEF Freed
  <1> QED
    BY <1>4, <1>5

\* Posting a functor makes and forgets no connection.
LEMMA QueueKeeps ==
    ASSUME NEW w, NEW n \in Nat, WholeOf(w, n), NEW name, NEW c
    PROVE  WholeOf(Queue(w, name, c), n)
  BY Zenon DEF Queue, WholeOf, Fields

\* A step of a sub-loop keeps the connections.
LEMMA LoopKeeps ==
    ASSUME NEW w, NEW n \in Nat, WholeOf(w, n), NEW l, NEW x
    PROVE  /\ WholeOf([w EXCEPT !.loops[l].batch = x], n)
           /\ WholeOf([w EXCEPT !.loops[l].next = x], n)
           /\ WholeOf([w EXCEPT !.loops[l].phase = x], n)
           /\ WholeOf([w EXCEPT !.loops[l].pending = x], n)
  BY Zenon DEF WholeOf, Fields

\* A functor makes and forgets none.
LEMMA RunKeeps ==
    ASSUME NEW w, NEW n \in Nat, WholeOf(w, n), NEW f
    PROVE  WholeOf(Run(w, f), n)
  <1>1. WholeOf(connectEstablished(w, f[2]), n)
    BY Zenon DEF connectEstablished, WholeOf, Fields
  <1>2. WholeOf(connectDestroyed(w, f[2]), n)
    <2> DEFINE c == f[2]
               state == IF w.conns[c].state = "kConnected" THEN "kDisconnected" ELSE w.conns[c].state
               v == [w EXCEPT !.conns[c].state = state]
    <2>1. WholeOf(v, n)
      BY Zenon DEF WholeOf, Fields
    <2> HIDE DEF v
    <2>2. \A k : WholeOf([v EXCEPT !.conns[c].removed = k], n)
      BY <2>1, Zenon DEF WholeOf, Fields
    <2>3. connectDestroyed(w, c) = [v EXCEPT !.conns[c].removed = w.conns[c].removed + 1]
      BY DEF connectDestroyed, v
    <2> QED
      BY <2>2, <2>3, Zenon
  <1>3. WholeOf([w EXCEPT !.map = Without(w.map, w.conns[f[2]].name)], n)
    BY DEF WholeOf, Fields
  <1>4. WholeOf(removeConnectionInLoop(w, f[2]), n)
    BY <1>3, QueueKeeps, Zenon DEF removeConnectionInLoop
  <1> QED
    BY <1>1, <1>2, <1>4, Zenon DEF Run

\* So does a functor, also one that fails an assert.
LEMMA ExecuteEffect ==
    ASSUME NEW w, NEW n \in Nat, WholeOf(w, n), NEW f, spare \in 0..MaxSpare,
           conns = [c \in 1..n |-> conns[c]], Execute(w, f)
    PROVE  /\ spare' \in 0..MaxSpare /\ spare' >= spare
           /\ conns' = [c \in 1..n |-> conns'[c]]
  <1>1. CASE Release(Run(w, f), spare)
    <2>1. WholeOf(Run(w, f), n)
      BY RunKeeps
    <2> QED
      BY <1>1, <2>1, ReleaseEffect
  <1>2. CASE UNCHANGED <<conns, connections_, base, loops, spare>>
    <2>1. conns' = conns /\ spare' = spare
      BY <1>2, Zenon
    <2> QED
      BY <2>1
  <1> QED
    BY <1>1, <1>2, Zenon DEF Execute

(***************************************************************************)
(* The invariant.                                                          *)
(***************************************************************************)
Sized == \E n \in Nat : conns = [c \in 1..n |-> conns[c]]
SpareOK == spare \in 0..MaxSpare

\* Unless another part of the process took it, the descriptor that handleRead() gave up is
\* free until the second accept(), and again once the accepted one is closed.
Reserve ==
    /\ acceptor \in {"idle", "closed", "taken", "reopen"}
    /\ ~stolen => /\ acceptor = "idle" => idleFd_
                  /\ acceptor \in {"closed", "reopen"} => spare > 0

Inv == Sized /\ SpareOK /\ Reserve

\* A step of the server that leaves the Acceptor alone takes no descriptor.
LEMMA ReserveKept ==
    ASSUME SpareOK, Reserve, UNCHANGED fdVars, spare' \in 0..MaxSpare, spare' >= spare
    PROVE  Reserve'
  <1>1. spare > 0 => spare' > 0
    BY DEF SpareOK
  <1>2. acceptor' = acceptor /\ idleFd_' = idleFd_ /\ stolen' = stolen
    BY Zenon DEF fdVars
  <1> QED
    BY <1>1, <1>2, Zenon DEF Reserve

\* The record of the whole, with a field assigned, is one.
LEMMA WholeIsOne ==
    ASSUME NEW n \in Nat, conns = [c \in 1..n |-> conns[c]]
    PROVE  /\ WholeOf(Whole, n)
           /\ \A v : WholeOf([Whole EXCEPT !.base = v], n)
           /\ \A v : WholeOf([Whole EXCEPT !.map = v], n)
           /\ \A v : WholeOf([Whole EXCEPT !.loops = v], n)
           /\ \A c, v : WholeOf([Whole EXCEPT !.conns[c].state = v], n)
           /\ \A c, v, u : WholeOf([[Whole EXCEPT !.conns[c].state = v] EXCEPT !.base = u], n)
  <1>1. WholeOf(Whole, n)
    BY DEF WholeOf, Whole, Fields
  <1>2. \A v : WholeOf([Whole EXCEPT !.base = v], n)
    BY Zenon DEF WholeOf, Whole, Fields
  <1>3. \A v : WholeOf([Whole EXCEPT !.map = v], n)
    BY Zenon DEF WholeOf, Whole, Fields
  <1>4. \A v : WholeOf([Whole EXCEPT !.loops = v], n)
    BY Zenon DEF WholeOf, Whole, Fields
  <1>5. ASSUME NEW c, NEW v, NEW u
        PROVE  /\ WholeOf([Whole EXCEPT !.conns[c].state = v], n)
               /\ WholeOf([[Whole EXCEPT !.conns[c].state = v] EXCEPT !.base = u], n)
    BY Zenon DEF WholeOf, Whole, Fields
  <1> QED
    BY <1>1, <1>2, <1>3, <1>4, <1>5, Zenon

(***************************************************************************)
(* The steps.                                                              *)
(***************************************************************************)

\* A step that neither opens nor closes a descriptor.
LEMMA NoDescriptor ==
    ASSUME Inv, UNCHANGED <<spare, fdVars>>, Sized'
    PROVE  Inv'
  <1>1. spare' = spare /\ UNCHANGED fdVars
    BY Zenon
  <1>2. spare' \in 0..MaxSpare /\ spare' >= spare
    BY <1>1 DEF Inv, SpareOK
  <1>3. Reserve'
    BY <1>1, <1>2, ReserveKept, Zenon DEF Inv
  <1> QED
    BY <1>2, <1>3, Zenon DEF Inv, SpareOK

\* A step that runs a functor, or lets go of connections otherwise.
LEMMA OnlyFrees ==
    ASSUME Inv, UNCHANGED fdVars, NEW w,
           \A n \in Nat : conns = [c \in 1..n |-> conns[c]] => WholeOf(w, n),
           Release(w, spare) \/ \E f : Execute(w, f)
    PROVE  Inv'
  <1>1. PICK n \in Nat : conns = [c \in 1..n |-> conns[c]]
    BY Zenon DEF Inv, Sized
  <1>2. WholeOf(w, n) /\ spare \in 0..MaxSpare
    BY <1>1, Zenon DEF Inv, SpareOK
  <1>3. /\ spare' \in 0..MaxSpare /\ spare' >= spare
        /\ conns' = [c \in 1..n |-> conns'[c]]
    <2>1. CASE Release(w, spare)
      BY <1>2, <2>1, ReleaseEffect
    <2>2. ASSUME NEW f, Execute(w, f)
          PROVE  /\ spare' \in 0..MaxSpare /\ spare' >= spare
                 /\ conns' = [c \in 1..n |-> conns'[c]]
      BY <1>1, <1>2, <2>2, ExecuteEffect
    <2> QED
      BY <2>1, <2>2, Zenon
  <1>4. Reserve'
    BY <1>3, ReserveKept, Zenon DEF Inv
  <1>5. Sized'
    BY <1>3, Zenon DEF Sized
  <1> QED
    BY <1>3, <1>4, <1>5, Zenon DEF Inv, SpareOK

\* newConnection() takes the descriptor that accept() found free.
LEMMA AcceptStep ==
    ASSUME Inv, Accept
    PROVE  Inv'
  <1>1. PICK n \in Nat : conns = [c \in 1..n |-> conns[c]]
    BY Zenon DEF Inv, Sized
  <1>2. /\ acceptor = "idle" /\ UNCHANGED fdVars /\ spare > 0
        /\ newConnection(Head(waiting))
    BY Zenon DEF Accept, BaseIdle, FdFree
  <1>3. \A x : WholeOf([Whole EXCEPT !.conns = Append(conns, x)], n + 1)
    <2> SUFFICES ASSUME NEW x PROVE WholeOf([Whole EXCEPT !.conns = Append(conns, x)], n + 1)
      BY Zenon
    <2> DEFINE S == {conns[c] : c \in 1..n} \cup {x}
    <2>1. conns \in Seq(S) /\ Len(conns) = n
      <3>1. conns \in [1..n -> S]
        BY <1>1
      <3> HIDE DEF S
      <3> QED
        BY <3>1, IsASeq, LenProperties
    <2>2. x \in S
      OBVIOUS
    <2> HIDE DEF S
    <2>3. Append(conns, x) \in Seq(S) /\ Len(Append(conns, x)) = n + 1
      BY <2>1, <2>2, AppendProperties
    <2>4. Append(conns, x) \in [1..(n + 1) -> S]
      BY <2>3, LenProperties, Zenon
    <2> DEFINE app == Append(conns, x)
    <2>5. app = [c \in 1..(n + 1) |-> app[c]]
      BY <2>4, Zenon
    <2> HIDE DEF app
    <2> QED
      BY <2>5, Zenon DEF WholeOf, Whole, Fields, app
  <1>4. \A x, m : WholeOf([[Whole EXCEPT !.conns = Append(conns, x)] EXCEPT !.map = m], n + 1)
    <2> SUFFICES ASSUME NEW x, NEW m
                 PROVE  WholeOf([[Whole EXCEPT !.conns = Append(conns, x)] EXCEPT !.map = m], n + 1)
      BY Zenon
    <2> DEFINE v == [Whole EXCEPT !.conns = Append(conns, x)]
    <2>1. WholeOf(v, n + 1)
      BY <1>3, Zenon
    <2> HIDE DEF v
    <2>2. WholeOf([v EXCEPT !.map = m], n + 1)
      BY <2>1 DEF WholeOf, Fields
    <2> QED
      BY <2>2 DEF v
  <1>5. PICK w : /\ WholeOf(w, n + 1)
                 /\ Release(w, spare - 1)
    <2>1. PICK v, c : /\ WholeOf(v, n + 1)
                      /\ \/ Release(connectEstablished(v, c), spare - 1)
                         \/ Release(Queue(v, "connectEstablished", c), spare - 1)
      <3> DEFINE peer == Head(waiting)
                 c == Len(conns) + 1
                 loop == IF threadNum_ > 0 THEN (nextConnId_ % threadNum_) + 1 ELSE Base
                 conn == [peer |-> peer, name |-> NextName(peer), loop |-> loop,
                          state |-> "kConnecting", output |-> FALSE, hup |-> "no", removed |-> 0,
                          freed |-> FALSE]
                 v == [Whole EXCEPT !.conns = Append(Whole.conns, conn),
                                    !.map = With(Whole.map, NextName(peer), c)]
      <3>1. Release(IF loop = Base THEN connectEstablished(v, c)
                    ELSE Queue(v, "connectEstablished", c), spare - 1)
        BY <1>2, Zenon DEF newConnection
      <3>2. Whole.conns = conns
        BY DEF Whole
      <3>3. WholeOf(v, n + 1)
        BY <1>4, <3>2, Zenon
      <3> HIDE DEF v, loop, c
      <3>4. CASE loop = Base
        <4>1. Release(connectEstablished(v, c), spare - 1)
          BY <3>1, <3>4, Zenon
        <4> QED
          BY <3>3, <4>1, Zenon
      <3>5. CASE loop # Base
        <4>1. Release(Queue(v, "connectEstablished", c), spare - 1)
          BY <3>1, <3>5, Zenon
        <4> QED
          BY <3>3, <4>1, Zenon
      <3> QED
        BY <3>4, <3>5
    <2>2. n + 1 \in Nat
      OBVIOUS
    <2>3. WholeOf(Queue(v, "connectEstablished", c), n + 1)
      BY <2>1, <2>2, QueueKeeps, Zenon
    <2>4. WholeOf(connectEstablished(v, c), n + 1)
      BY <2>1, Zenon DEF connectEstablished, WholeOf, Fields
    <2> QED
      BY <2>1, <2>3, <2>4, Zenon
  <1>6. /\ spare' \in 0..MaxSpare
        /\ conns' = [c \in 1..(n + 1) |-> conns'[c]]
    <2>1. spare - 1 \in 0..MaxSpare /\ n + 1 \in Nat
      BY <1>2, TcpServerAssumption DEF Inv, SpareOK
    <2> QED
      BY <1>5, <2>1, ReleaseEffect
  <1>7. Sized'
    <2>1. n + 1 \in Nat
      OBVIOUS
    <2> QED
      BY <1>6, <2>1, Zenon DEF Sized
  <1>8. Reserve'
    <2>1. acceptor' = acceptor /\ idleFd_' = idleFd_ /\ stolen' = stolen
      BY <1>2, Zenon DEF fdVars
    <2>2. acceptor \notin {"closed", "reopen"}
      BY <1>2
    <2> QED
      BY <2>1, <2>2, Zenon DEF Inv, Reserve
  <1> QED
    BY <1>6, <1>7, <1>8, Zenon DEF Inv, SpareOK

\* handleRead() of the Acceptor when accept() fails, and the rest of the process.
LEMMA ReserveStep ==
    ASSUME Inv, AcceptFails \/ AcceptAgain \/ TurnAway \/ Reopen \/ OpenOther \/ CloseOther
    PROVE  Inv'
  <1>1. spare \in Nat /\ spare <= MaxSpare /\ MaxSpare \in Nat /\ MaxSpare > 0
    BY TcpServerAssumption DEF Inv, SpareOK
  <1>2. Sized'
    <2>1. conns' = conns
      BY Zenon DEF AcceptFails, AcceptAgain, TurnAway, Reopen, OpenOther, CloseOther, serverVars
    <2> QED
      BY <2>1, Zenon DEF Inv, Sized
  <1>3. CASE AcceptFails
    <2>1. /\ acceptor = "idle" /\ acceptor' = "closed" /\ stolen' = stolen /\ spare = 0
          /\ spare' = IF idleFd_ THEN spare + 1 ELSE spare
      <3>1. ~FdFree /\ acceptor = "idle" /\ acceptor' = "closed" /\ stolen' = stolen
            /\ spare' = IF idleFd_ THEN spare + 1 ELSE spare
        BY <1>3, Zenon DEF AcceptFails, BaseIdle
      <3> QED
        BY <1>1, <3>1 DEF FdFree
    <2>2. spare' \in 0..MaxSpare /\ (idleFd_ => spare' > 0)
      BY <1>1, <2>1
    <2>3. ~stolen => idleFd_
      BY <2>1, Zenon DEF Inv, Reserve
    <2>4. acceptor' \in {"idle", "closed", "taken", "reopen"} /\ acceptor' # "idle"
      BY <2>1
    <2> QED
      BY <1>2, <2>1, <2>2, <2>3, <2>4, Zenon DEF Inv, SpareOK, Reserve
  <1>4. CASE AcceptAgain
    <2>1. /\ acceptor = "closed" /\ stolen' = stolen
          /\ \/ acceptor' = "taken" /\ spare > 0 /\ spare' = spare - 1
             \/ acceptor' = "reopen" /\ spare' = spare
      BY <1>4, Zenon DEF AcceptAgain, FdFree
    <2>2. spare' \in 0..MaxSpare
      BY <1>1, <2>1
    <2>3. ~stolen => spare > 0
      BY <2>1 DEF Inv, Reserve
    <2>4. /\ acceptor' \in {"idle", "closed", "taken", "reopen"} /\ acceptor' # "idle"
          /\ acceptor' \in {"closed", "reopen"} => spare' = spare
      BY <2>1
    <2> QED
      BY <1>2, <2>1, <2>2, <2>3, <2>4, Zenon DEF Inv, SpareOK, Reserve
  <1>5. CASE TurnAway
    <2>1. acceptor' = "reopen" /\ spare' = Freed(spare, 1) /\ stolen' = stolen
      BY <1>5, Zenon DEF TurnAway
    <2>2. spare' \in 0..MaxSpare /\ spare' > 0
      BY <1>1, <2>1 DEF Freed
    <2>3. acceptor' \in {"idle", "closed", "taken", "reopen"} /\ acceptor' # "idle"
      BY <2>1
    <2> QED
      BY <1>2, <2>2, <2>3, Zenon DEF Inv, SpareOK, Reserve
  <1>6. CASE Reopen
    <2>1. /\ acceptor = "reopen" /\ acceptor' = "idle" /\ stolen' = stolen
          /\ idleFd_' = (spare > 0)
          /\ spare' = IF spare > 0 THEN spare - 1 ELSE spare
      BY <1>6, Zenon DEF Reopen, FdFree
    <2>2. spare' \in 0..MaxSpare
      BY <1>1, <2>1
    <2>3. ~stolen => spare > 0
      BY <2>1 DEF Inv, Reserve
    <2>4. acceptor' \in {"idle", "closed", "taken", "reopen"} /\ acceptor' \notin {"closed", "reopen"}
      BY <2>1
    <2> QED
      BY <1>2, <2>1, <2>2, <2>3, <2>4, Zenon DEF Inv, SpareOK, Reserve
  <1>7. CASE OpenOther
    <2>1. /\ spare > 0 /\ spare' = spare - 1 /\ stolen' = (stolen \/ acceptor # "idle")
          /\ acceptor' = acceptor /\ idleFd_' = idleFd_
      BY <1>7, Zenon DEF OpenOther, FdFree
    <2>2. spare' \in 0..MaxSpare
      BY <1>1, <2>1
    <2>3. acceptor = "idle" => acceptor \notin {"closed", "reopen"}
      OBVIOUS
    <2> QED
      BY <1>2, <2>1, <2>2, <2>3, Zenon DEF Inv, SpareOK, Reserve
  <1>8. CASE CloseOther
    <2>1. spare < MaxSpare /\ spare' = spare + 1 /\ UNCHANGED fdVars
      BY <1>8, Zenon DEF CloseOther
    <2>2. spare' \in 0..MaxSpare /\ spare' >= spare
      BY <1>1, <2>1
    <2>3. Reserve'
      BY <2>1, <2>2, ReserveKept, Zenon DEF Inv
    <2> QED
      BY <1>2, <2>2, <2>3, Zenon DEF Inv, SpareOK
  <1> QED
    BY <1>3, <1>4, <1>5, <1>6, <1>7, <1>8, Zenon

\* Steps that only touch the state of a connection, of a loop or of the server.
LEMMA QuietStep ==
    ASSUME Inv,
           \/ \E n \in {0} \cup SubLoops : start(n)
           \/ \E c \in Ids : \/ Shutdown(c) \/ Send(c) \/ handleWrite(c) \/ HalfClosed(c)
                            \/ \E how \in {"fin", "rst"} : HangUp(c, how)
           \/ \E l \in SubLoops : Swap(l) \/ QuitLoop(l)
           \/ Destroy \/ Posted \/ Joined
           \/ \E p \in Peers : Connect(p)
           \/ \E i \in DOMAIN waiting : GiveUp(i)
           \/ UNCHANGED vars
    PROVE  Inv'
  <1>1. PICK n \in Nat : conns = [c \in 1..n |-> conns[c]]
    BY Zenon DEF Inv, Sized
  <1>2. /\ UNCHANGED <<spare, fdVars>>
        /\ \/ conns' = conns
           \/ \E c, x : conns' = [conns EXCEPT ![c].state = x]
           \/ \E c, x : conns' = [conns EXCEPT ![c].hup = x]
           \/ \E c, x : conns' = [conns EXCEPT ![c].output = x]
    <2>1. ASSUME NEW m, start(m) PROVE UNCHANGED <<spare, fdVars, conns>>
      BY <2>1, Zenon DEF start
    <2>2. ASSUME NEW c, Shutdown(c) \/ HalfClosed(c)
          PROVE  UNCHANGED <<spare, fdVars>> /\ conns' = [conns EXCEPT ![c].state = "kDisconnecting"]
      BY <2>2, Zenon DEF Shutdown, HalfClosed
    <2>3. ASSUME NEW c, NEW how, HangUp(c, how)
          PROVE  UNCHANGED <<spare, fdVars>> /\ conns' = [conns EXCEPT ![c].hup = how]
      BY <2>3, Zenon DEF HangUp
    <2>4. ASSUME NEW l, Swap(l) \/ QuitLoop(l) PROVE UNCHANGED <<spare, fdVars, conns>>
      BY <2>4, Zenon DEF Swap, QuitLoop
    <2>5. CASE Destroy \/ Posted \/ Joined
      BY <2>5, Zenon DEF Destroy, Posted, Joined
    <2>6. ASSUME NEW p, Connect(p) \/ GiveUp(p) PROVE UNCHANGED <<spare, fdVars, conns>>
      BY <2>6, Zenon DEF Connect, GiveUp, serverVars
    <2>7. CASE UNCHANGED vars
      BY <2>7, Zenon DEF vars, serverVars
    <2>8. ASSUME NEW c, Send(c) \/ handleWrite(c)
          PROVE  UNCHANGED <<spare, fdVars>> /\ \E x : conns' = [conns EXCEPT ![c].output = x]
      BY <2>8, Zenon DEF Send, handleWrite
    <2>9. ASSUME NEW c, \/ Shutdown(c) \/ Send(c) \/ handleWrite(c) \/ HalfClosed(c)
                        \/ \E how \in {"fin", "rst"} : HangUp(c, how)
          PROVE  /\ UNCHANGED <<spare, fdVars>>
                 /\ \/ \E d, x : conns' = [conns EXCEPT ![d].state = x]
                    \/ \E d, x : conns' = [conns EXCEPT ![d].hup = x]
                    \/ \E d, x : conns' = [conns EXCEPT ![d].output = x]
      <3>1. CASE Shutdown(c) \/ HalfClosed(c)
        BY <2>2, <3>1, Zenon
      <3>2. CASE Send(c) \/ handleWrite(c)
        BY <2>8, <3>2, Zenon
      <3>3. CASE \E how \in {"fin", "rst"} : HangUp(c, how)
        <4>1. PICK how : HangUp(c, how)
          BY <3>3, Zenon
        <4>2. UNCHANGED <<spare, fdVars>> /\ conns' = [conns EXCEPT ![c].hup = how]
          BY <2>3, <4>1, Zenon
        <4> QED
          BY <4>2, Zenon
      <3> QED
        BY <2>9, <3>1, <3>2, <3>3, Zenon
    <2> QED
      BY <2>1, <2>4, <2>5, <2>6, <2>7, <2>9, Zenon
  <1>3. conns' = [c \in 1..n |-> conns'[c]]
    BY <1>1, <1>2
  <1>4. Sized'
    BY <1>3, Zenon DEF Sized
  <1> QED
    BY <1>2, <1>4, NoDescriptor, Zenon

\* Steps that run functors or let go of them.
LEMMA FreeingStep ==
    ASSUME Inv,
           \/ \E c \in Ids : handleClose(c)
           \/ RunBase
           \/ \E l \in SubLoops : RunFunctor(l) \/ EndIteration(l)
           \/ \E name \in DOMAIN connections_ : Post(name)
    PROVE  Inv'
  <1>1. ASSUME NEW c, handleClose(c) PROVE Inv'
    <2> DEFINE w == [Whole EXCEPT !.conns[c].state = "kDisconnected"]
               v == [w EXCEPT !.base = Append(w.base, <<"remove", c>>)]
    <2>1. /\ UNCHANGED fdVars
          /\ Execute(w, <<"remove", c>>) \/ Release(v, spare)
      BY <1>1, Zenon DEF handleClose
    <2>2. \A n \in Nat : conns = [k \in 1..n |-> conns[k]] => WholeOf(w, n) /\ WholeOf(v, n)
      BY WholeIsOne, Zenon
    <2> HIDE DEF w, v
    <2>3. CASE Execute(w, <<"remove", c>>)
      BY <2>1, <2>2, <2>3, OnlyFrees, Zenon
    <2>4. CASE Release(v, spare)
      BY <2>1, <2>2, <2>4, OnlyFrees, Zenon
    <2> QED
      BY <2>1, <2>3, <2>4
  <1>2. CASE RunBase
    <2> DEFINE w == [Whole EXCEPT !.base = Tail(Whole.base)]
    <2>1. UNCHANGED fdVars /\ Execute(w, Head(base))
      BY <1>2, Zenon DEF RunBase
    <2>2. \A n \in Nat : conns = [k \in 1..n |-> conns[k]] => WholeOf(w, n)
      BY WholeIsOne, Zenon
    <2> HIDE DEF w
    <2> QED
      BY <2>1, <2>2, OnlyFrees, Zenon
  <1>3. ASSUME NEW l, RunFunctor(l) PROVE Inv'
    <2> DEFINE w == [Whole EXCEPT !.loops[l].next = Whole.loops[l].next + 1]
    <2>1. UNCHANGED fdVars /\ Execute(w, loops[l].batch[loops[l].next])
      BY <1>3, Zenon DEF RunFunctor
    <2>2. \A n \in Nat : conns = [k \in 1..n |-> conns[k]] => WholeOf(w, n)
      BY Zenon DEF WholeOf, Whole, Fields
    <2> HIDE DEF w
    <2> QED
      BY <2>1, <2>2, OnlyFrees, Zenon
  <1>4. ASSUME NEW l, EndIteration(l) PROVE Inv'
    <2>1. PICK p, q : /\ UNCHANGED fdVars
                      /\ Release([Whole EXCEPT !.loops[l].batch = <<>>, !.loops[l].next = 1,
                                               !.loops[l].phase = p, !.loops[l].pending = q], spare)
      BY <1>4, Zenon DEF EndIteration
    <2> DEFINE w == [Whole EXCEPT !.loops[l].batch = <<>>, !.loops[l].next = 1,
                                  !.loops[l].phase = p, !.loops[l].pending = q]
    <2>2. \A n \in Nat : conns = [k \in 1..n |-> conns[k]] => WholeOf(w, n)
      <3> SUFFICES ASSUME NEW n \in Nat, conns = [k \in 1..n |-> conns[k]] PROVE WholeOf(w, n)
        BY Zenon
      <3> DEFINE w1 == [Whole EXCEPT !.loops[l].batch = <<>>]
                 w2 == [w1 EXCEPT !.loops[l].next = 1]
                 w3 == [w2 EXCEPT !.loops[l].phase = p]
      <3>1. WholeOf(w1, n)
        BY WholeIsOne, LoopKeeps, Zenon
      <3> HIDE DEF w1
      <3>2. WholeOf(w2, n)
        BY <3>1, LoopKeeps, Zenon
      <3> HIDE DEF w2
      <3>3. WholeOf(w3, n)
        BY <3>2, LoopKeeps, Zenon
      <3> HIDE DEF w3
      <3>4. WholeOf([w3 EXCEPT !.loops[l].pending = q], n)
        BY <3>3, LoopKeeps, Zenon
      <3> QED
        BY <3>4, Zenon DEF w1, w2, w3
    <2>3. Release(w, spare)
      BY <2>1, Zenon
    <2> HIDE DEF w
    <2> QED
      BY <2>1, <2>2, <2>3, OnlyFrees, Zenon
  <1>5. ASSUME NEW name, Post(name) PROVE Inv'
    <2> DEFINE c == connections_[name]
               w == [Whole EXCEPT !.map = Without(Whole.map, name)]
               v == Queue(w, "connectDestroyed", c)
    <2>1. /\ UNCHANGED fdVars
          /\ Execute(w, <<"connectDestroyed", c>>) \/ Release(v, spare)
      BY <1>5, Zenon DEF Post
    <2>2. \A n \in Nat : conns = [k \in 1..n |-> conns[k]] => WholeOf(w, n)
      BY WholeIsOne, Zenon
    <2> HIDE DEF w
    <2>3. \A n \in Nat : conns = [k \in 1..n |-> conns[k]] => WholeOf(v, n)
      BY <2>2, QueueKeeps, Zenon
    <2> HIDE DEF v
    <2>4. CASE Execute(w, <<"connectDestroyed", c>>)
      BY <2>1, <2>2, <2>4, OnlyFrees, Zenon
    <2>5. CASE Release(v, spare)
      BY <2>1, <2>3, <2>5, OnlyFrees, Zenon
    <2> QED
      BY <2>1, <2>4, <2>5
  <1> QED
    BY <1>1, <1>2, <1>3, <1>4, <1>5, Zenon

\* Initially the reserved descriptor is open.
LEMMA InvInit == Init => Inv
  <1> SUFFICES ASSUME Init PROVE Inv
    OBVIOUS
  <1>1. conns = [c \in 1..0 |-> conns[c]]
    BY DEF Init
  <1>2. Sized
    <2>1. 0 \in Nat
      OBVIOUS
    <2> QED
      BY <1>1, <2>1, Zenon DEF Sized
  <1>3. spare \in 0..MaxSpare
    BY TcpServerAssumption DEF Init
  <1>4. Reserve
    <2>1. acceptor = "idle" /\ idleFd_ = TRUE
      BY Zenon DEF Init
    <2>2. acceptor \in {"idle", "closed", "taken", "reopen"} /\ acceptor \notin {"closed", "reopen"}
      BY <2>1
    <2> QED
      BY <2>1, <2>2, Zenon DEF Reserve
  <1> QED
    BY <1>2, <1>3, <1>4, Zenon DEF Inv, SpareOK

\* Running out of descriptors never costs the Acceptor its reserved one (Acceptor::handleRead):
\* it is open again when the handler returns, whatever connections are made, closed and
\* destroyed meanwhile on other threads and whether or not the waiting peer gave up, unless
\* another part of the process took a descriptor while it was closed.
THEOREM ReservedDescriptorKept == Spec => []IdleFdKept
  <1>1. Inv /\ [Next]_vars => Inv'
    BY AcceptStep, ReserveStep, QuietStep, FreeingStep, Zenon DEF Next
  <1>2. Inv => IdleFdKept
    BY Zenon DEF Inv, Reserve, IdleFdKept
  <1> QED
    BY <1>1, <1>2, InvInit, PTL DEF Spec

(***************************************************************************)
(* The life of a connection: the inductive invariant behind MapExact and   *)
(* OnlyKnownFailures.                                                      *)
(***************************************************************************)
States == {"kConnecting", "kConnected", "kDisconnecting", "kDisconnected"}
Conn == [peer : Peers, name : [peer : Peers, id : Nat], loop : {Base} \cup SubLoops, state : States,
         output : BOOLEAN, hup : {"no", "fin", "rst"}, removed : {0, 1}, freed : BOOLEAN]
Functor == {"connectEstablished", "connectDestroyed", "remove"} \X Nat

Established(c) == <<"connectEstablished", c>>
Destroyed(c) == <<"connectDestroyed", c>>
Remove(c) == <<"remove", c>>

\* Functor f is still to run, in sub-loop q; in the loop of connection c.
Waits(q, f) ==
    \/ \E i \in DOMAIN q.pending : q.pending[i] = f
    \/ \E i \in DOMAIN q.batch : i >= q.next /\ q.batch[i] = f
InBase(w, f) == \E i \in DOMAIN w.base : w.base[i] = f
Due(w, f, c) == IF w.conns[c].loop = Base THEN InBase(w, f) ELSE Waits(w.loops[w.conns[c].loop], f)

InMap(w, c) == w.conns[c].name \in DOMAIN w.map /\ w.map[w.conns[c].name] = c

\* connectDestroyed() of c waits behind its connectEstablished().
After(q, c) ==
    /\ \A i \in DOMAIN q.batch : i >= q.next /\ q.batch[i] = Destroyed(c) =>
           \E j \in DOMAIN q.batch : j >= q.next /\ j < i /\ q.batch[j] = Established(c)
    /\ \A i \in DOMAIN q.pending : q.pending[i] = Destroyed(c) =>
           \/ \E j \in DOMAIN q.batch : j >= q.next /\ q.batch[j] = Established(c)
           \/ \E j \in DOMAIN q.pending : j < i /\ q.pending[j] = Established(c)

\* A sub-loop, and that no functor waits in it twice.
LoopType(q) ==
    /\ q = [phase |-> q.phase, pending |-> q.pending, batch |-> q.batch, next |-> q.next, quit |-> q.quit]
    /\ q.pending \in Seq(Functor) /\ q.batch \in Seq(Functor)
    /\ q.next \in 1..(Len(q.batch) + 1) /\ q.quit \in BOOLEAN
    /\ q.phase \in {"none", "poll", "functors", "exited"}
    /\ q.phase # "functors" => q.batch = <<>>
Once(q) ==
    /\ \A i, j \in DOMAIN q.pending : q.pending[i] = q.pending[j] => i = j
    /\ \A i, j \in DOMAIN q.batch : i >= q.next /\ j >= q.next /\ q.batch[i] = q.batch[j] => i = j
    /\ \A i \in DOMAIN q.batch, j \in DOMAIN q.pending : i >= q.next => q.batch[i] # q.pending[j]

\* Functor f may be in the queue of the base loop, of sub-loop l.
OfBase(w, f) ==
    /\ f[2] \in DOMAIN w.conns
    /\ \/ f[1] = "remove" /\ w.conns[f[2]].loop # Base
       \/ f[1] = "connectDestroyed" /\ w.conns[f[2]].loop = Base
OfLoop(w, l, f) ==
    /\ f[2] \in DOMAIN w.conns /\ w.conns[f[2]].loop = l
    /\ f[1] \in {"connectEstablished", "connectDestroyed"}
OwnFunctors(w, l) ==
    /\ \A i \in DOMAIN w.loops[l].pending : OfLoop(w, l, w.loops[l].pending[i])
    /\ \A i \in DOMAIN w.loops[l].batch : OfLoop(w, l, w.loops[l].batch[i])

\* With sub-loops names differ; without them they are the peer's.
Named(c, k) == k.name = [peer |-> k.peer, id |-> IF k.loop = Base THEN 1 ELSE c + 1]

ConnsOK(w) == w.conns \in Seq(Conn) /\ \A c \in DOMAIN w.conns : Named(c, w.conns[c])
MapOK(w) == \A x \in DOMAIN w.map : w.map[x] \in DOMAIN w.conns /\ w.conns[w.map[x]].name = x
BaseOK(w) ==
    /\ w.base \in Seq(Functor)
    /\ \A i \in DOMAIN w.base : OfBase(w, w.base[i])
    /\ \A i, j \in DOMAIN w.base : w.base[i] = w.base[j] => i = j
LoopsOK(w) ==
    /\ w.loops = [l \in SubLoops |-> w.loops[l]]
    /\ \A l \in SubLoops : LoopType(w.loops[l]) /\ Once(w.loops[l]) /\ OwnFunctors(w, l)
Shape(w) == w = [x \in Fields |-> w[x]] /\ ConnsOK(w) /\ MapOK(w) /\ BaseOK(w) /\ LoopsOK(w)

\* Where connection c is in its life, when the server is in state s.
Up(s) == s \in {"new", "up"}
Life(w, s, c) ==
    LET k == w.conns[c] IN
    /\ k.loop = Base => k.state # "kConnecting"
    /\ k.loop # Base /\ k.state = "kConnecting" => After(w.loops[k.loop], c)
    /\ Due(w, Established(c), c) => k.state = "kConnecting"
    /\ k.state = "kConnecting" /\ InMap(w, c) => Due(w, Established(c), c)
    /\ Due(w, Destroyed(c), c) => ~InMap(w, c) /\ k.removed = 0
    /\ k.removed = 1 => k.state = "kDisconnected" /\ ~InMap(w, c)
    /\ k.freed = FALSE /\ k.state # "kDisconnected" => InMap(w, c) \/ Due(w, Destroyed(c), c)
    /\ InBase(w, Remove(c)) => k.state = "kDisconnected"
    /\ Up(s) => (InMap(w, c) <=> k.state # "kDisconnected" \/ InBase(w, Remove(c)))
    /\ k.freed = FALSE /\ k.state = "kDisconnected" /\ k.removed = 0 =>
           InMap(w, c) \/ Due(w, Destroyed(c), c) \/ InBase(w, Remove(c))
    /\ k.freed = TRUE => /\ ~InMap(w, c) /\ ~InBase(w, Remove(c))
                         /\ ~Due(w, Established(c), c) /\ ~Due(w, Destroyed(c), c)
    /\ Up(s) /\ k.freed = TRUE => k.state = "kDisconnected" /\ k.removed = 1

Good(w, s) == Shape(w) /\ \A c \in DOMAIN w.conns : Life(w, s, c)

\* How the server, in state s with n sub-loops ls, starts and ends.
LoopPhases(ls, n, s) ==
    \A l \in SubLoops :
        /\ l > n => ls[l].phase = "none" /\ ls[l].quit = FALSE
        /\ ls[l].quit = TRUE => s = "joining" \/ ls[l].phase = "exited"
        /\ s = "gone" => ls[l].phase \notin {"poll", "functors"}
Phases ==
    /\ server \in {"new", "up", "posting", "joining", "gone"} /\ threadNum_ \in 0..MaxSubLoops
    /\ nextConnId_ = IF threadNum_ > 0 THEN Len(conns) + 1 ELSE 1
    /\ server = "new" => conns = <<>> /\ threadNum_ = 0
    /\ server \in {"joining", "gone"} => DOMAIN connections_ = {}
    /\ LoopPhases(loops, threadNum_, server)

\* Who waits in the listen queue ps has no connection in cs that it has not reset.
Line(ps, cs) ==
    /\ ps \in Seq(Peers)
    /\ \A i, j \in DOMAIN ps : ps[i] = ps[j] => i = j
    /\ \A i \in DOMAIN ps : \A c \in DOMAIN cs : cs[c].peer = ps[i] => cs[c].freed = TRUE \/ cs[c].hup = "rst"

Fine == failures = {} /\ Good(Whole, server) /\ Phases /\ Line(waiting, conns)
Known == failures # {} /\ server # "new" /\ OnlyKnownFailures
LifeInv == Fine \/ Known

(***************************************************************************)
(* Queues.                                                                 *)
(***************************************************************************)
\* What queueInLoop() does to a queue.
LEMMA Appended ==
    ASSUME NEW s \in Seq(Functor), NEW f \in Functor
    PROVE  /\ Append(s, f) \in Seq(Functor) /\ Len(s) \in Nat /\ DOMAIN s = 1..Len(s)
           /\ DOMAIN Append(s, f) = 1..(Len(s) + 1)
           /\ \A i \in DOMAIN s : Append(s, f)[i] = s[i] /\ i < Len(s) + 1
           /\ Append(s, f)[Len(s) + 1] = f
           /\ \A i \in DOMAIN Append(s, f) : i \in DOMAIN s \/ i = Len(s) + 1
  <1>1. /\ Append(s, f) \in Seq(Functor) /\ Len(Append(s, f)) = Len(s) + 1 /\ Len(s) \in Nat
        /\ \A i \in 1..Len(s) : Append(s, f)[i] = s[i]
        /\ Append(s, f)[Len(s) + 1] = f
    BY AppendProperties, LenProperties
  <1>2. DOMAIN s = 1..Len(s) /\ DOMAIN Append(s, f) = 1..Len(Append(s, f))
    BY <1>1, LenProperties
  <1> QED
    BY <1>1, <1>2

\* What running the oldest functor does to a queue.
LEMMA Shortened ==
    ASSUME NEW s \in Seq(Functor), s # <<>>
    PROVE  /\ Tail(s) \in Seq(Functor) /\ Head(s) = s[1] /\ 1 \in DOMAIN s /\ Head(s) \in Functor
           /\ \A i \in DOMAIN Tail(s) : i + 1 \in DOMAIN s /\ i + 1 # 1 /\ Tail(s)[i] = s[i + 1]
           /\ \A i \in DOMAIN s : i # 1 => i - 1 \in DOMAIN Tail(s) /\ Tail(s)[i - 1] = s[i]
           /\ \A i, j \in DOMAIN Tail(s) : i + 1 = j + 1 => i = j
  <1>1. /\ Tail(s) \in Seq(Functor) /\ Head(s) = s[1] /\ Len(s) \in Nat /\ Len(s) # 0
        /\ Len(Tail(s)) = Len(s) - 1
        /\ \A i \in 1..Len(Tail(s)) : Tail(s)[i] = s[i + 1]
    BY HeadTailProperties, EmptySeq, LenProperties
  <1>2. DOMAIN s = 1..Len(s) /\ DOMAIN Tail(s) = 1..Len(Tail(s))
    BY <1>1, LenProperties
  <1>3. 1 \in DOMAIN s /\ s[1] \in Functor
    BY <1>1, <1>2, ElementOfSeq
  <1>4. \A i \in DOMAIN Tail(s) : i + 1 \in DOMAIN s /\ i + 1 # 1 /\ Tail(s)[i] = s[i + 1]
    BY <1>1, <1>2
  <1>5. ASSUME NEW i \in DOMAIN s, i # 1 PROVE i - 1 \in DOMAIN Tail(s) /\ Tail(s)[i - 1] = s[i]
    <2>1. i \in Nat /\ i - 1 \in 1..Len(Tail(s)) /\ (i - 1) + 1 = i
      BY <1>1, <1>2, <1>5
    <2> QED
      BY <1>1, <1>2, <2>1
  <1>6. \A i, j \in DOMAIN Tail(s) : i + 1 = j + 1 => i = j
    BY <1>2
  <1> QED
    BY <1>1, <1>3, <1>4, <1>5, <1>6

\* Posting a functor that does not wait yet to a sub-loop.
LEMMA PostedToLoop ==
    ASSUME NEW q, LoopType(q), Once(q), NEW f \in Functor, ~Waits(q, f), NEW r,
           r = [q EXCEPT !.pending = Append(q.pending, f)]
    PROVE  /\ LoopType(r) /\ Once(r) /\ r.batch = q.batch /\ r.next = q.next
           /\ r.phase = q.phase /\ r.quit = q.quit
           /\ \A i \in DOMAIN r.pending : r.pending[i] = f \/ \E j \in DOMAIN q.pending : r.pending[i] = q.pending[j]
           /\ \A g : Waits(r, g) <=> Waits(q, g) \/ g = f
           /\ \A c : After(q, c) /\ (f = Destroyed(c) => Waits(q, Established(c))) => After(r, c)
  <1>1. /\ r.pending = Append(q.pending, f) /\ r.batch = q.batch /\ r.next = q.next
        /\ r.phase = q.phase /\ r.quit = q.quit
        /\ r = [phase |-> r.phase, pending |-> r.pending, batch |-> r.batch, next |-> r.next, quit |-> r.quit]
    BY Zenon DEF LoopType
  <1> DEFINE s == q.pending  t == r.pending  n == Len(s) + 1
  <1>2. s \in Seq(Functor)
    BY DEF LoopType
  <1>3. /\ t \in Seq(Functor) /\ Len(s) \in Nat /\ DOMAIN s = 1..Len(s) /\ DOMAIN t = 1..n
        /\ \A i \in DOMAIN s : t[i] = s[i] /\ i < n
        /\ t[n] = f
        /\ \A i \in DOMAIN t : i \in DOMAIN s \/ i = n
    BY <1>1, <1>2, Appended
  <1>4. n \in DOMAIN t /\ \A i \in DOMAIN s : i \in DOMAIN t
    BY <1>3
  <1> HIDE DEF s, t, n
  <1>5. LoopType(r)
    BY <1>1, <1>3 DEF LoopType, t
  <1>6. \A i \in DOMAIN s : s[i] # f
    BY DEF Waits, s
  <1>7. \A i \in DOMAIN q.batch : i >= q.next => q.batch[i] # f
    BY DEF Waits
  <1>8. Once(r)
    <2>1. \A i, j \in DOMAIN s : s[i] = s[j] => i = j
      BY DEF Once, s
    <2>2. \A i, j \in DOMAIN t : t[i] = t[j] => i = j
      BY <1>3, <1>6, <2>1
    <2>3. \A i \in DOMAIN q.batch, j \in DOMAIN s : i >= q.next => q.batch[i] # s[j]
      BY DEF Once, s
    <2>4. \A i \in DOMAIN q.batch, j \in DOMAIN t : i >= q.next => q.batch[i] # t[j]
      BY <1>3, <1>7, <2>3
    <2> QED
      BY <1>1, <2>2, <2>4 DEF Once, t
  <1>9. \A g : (\E i \in DOMAIN t : t[i] = g) <=> (\E i \in DOMAIN s : s[i] = g) \/ g = f
    BY <1>3, <1>4
  <1>10. \A g : Waits(r, g) <=> Waits(q, g) \/ g = f
    BY <1>1, <1>9, Zenon DEF Waits, s, t
  <1>11. ASSUME NEW c, After(q, c), f = Destroyed(c) => Waits(q, Established(c)) PROVE After(r, c)
    <2>1. ASSUME NEW i \in DOMAIN t, t[i] = Destroyed(c)
          PROVE  \/ \E j \in DOMAIN q.batch : j >= q.next /\ q.batch[j] = Established(c)
                 \/ \E j \in DOMAIN t : j < i /\ t[j] = Established(c)
      <3>1. CASE i \in DOMAIN s
        <4>1. s[i] = Destroyed(c)
          BY <1>3, <2>1, <3>1
        <4>2. \/ \E j \in DOMAIN q.batch : j >= q.next /\ q.batch[j] = Established(c)
              \/ \E j \in DOMAIN s : j < i /\ s[j] = Established(c)
          BY <1>11, <3>1, <4>1, Zenon DEF After, s
        <4> QED
          BY <1>3, <1>4, <4>2
      <3>2. CASE i = n
        <4>1. f = Destroyed(c)
          BY <1>3, <2>1, <3>2
        <4>2. \/ \E j \in DOMAIN q.batch : j >= q.next /\ q.batch[j] = Established(c)
              \/ \E j \in DOMAIN s : s[j] = Established(c)
          BY <1>11, <4>1, Zenon DEF Waits, s
        <4> QED
          BY <1>3, <1>4, <3>2, <4>2
      <3> QED
        BY <1>3, <2>1, <3>1, <3>2
    <2> QED
      BY <1>1, <1>11, <2>1 DEF After, t
  <1> QED
    BY <1>1, <1>3, <1>5, <1>8, <1>10, <1>11, Zenon DEF s, t

\* Running the next functor of the batch of a sub-loop; connectDestroyed() of a connection that
\* is still connecting is never the next one.
LEMMA RanInLoop ==
    ASSUME NEW q, LoopType(q), Once(q), q.phase = "functors", q.next <= Len(q.batch), NEW r,
           r = [q EXCEPT !.next = q.next + 1]
    PROVE  /\ LoopType(r) /\ Once(r) /\ r.batch = q.batch /\ r.pending = q.pending
           /\ r.phase = q.phase /\ r.quit = q.quit
           /\ q.next \in DOMAIN q.batch /\ q.batch[q.next] \in Functor /\ Waits(q, q.batch[q.next])
           /\ \A g : Waits(r, g) <=> Waits(q, g) /\ g # q.batch[q.next]
           /\ \A c : After(q, c) /\ q.batch[q.next] # Established(c) => After(r, c)
           /\ \A c : After(q, c) => q.batch[q.next] # Destroyed(c)
  <1>1. /\ r.pending = q.pending /\ r.batch = q.batch /\ r.next = q.next + 1
        /\ r.phase = q.phase /\ r.quit = q.quit
        /\ r = [phase |-> r.phase, pending |-> r.pending, batch |-> r.batch, next |-> r.next, quit |-> r.quit]
    BY DEF LoopType
  <1>2. /\ q.batch \in Seq(Functor) /\ Len(q.batch) \in Nat /\ DOMAIN q.batch = 1..Len(q.batch)
        /\ q.next \in Nat /\ q.next \in DOMAIN q.batch
    BY LenProperties DEF LoopType
  <1>3. q.batch[q.next] \in Functor
    BY <1>2, ElementOfSeq
  <1>4. LoopType(r)
    BY <1>1, <1>2 DEF LoopType
  <1>5. \A i \in DOMAIN q.batch : i \in Nat /\ (i >= r.next <=> i >= q.next /\ i # q.next)
    BY <1>1, <1>2
  <1>6. Once(r)
    BY <1>1, <1>5 DEF Once
  <1>7. q.next >= q.next
    BY <1>2
  <1>8. ASSUME NEW g PROVE Waits(r, g) <=> Waits(q, g) /\ g # q.batch[q.next]
    BY <1>1, <1>2, <1>5, <1>7 DEF Waits, Once
  <1>9. ASSUME NEW c, After(q, c), q.batch[q.next] # Established(c) PROVE After(r, c)
    BY <1>1, <1>5, <1>9 DEF After
  <1>10. ASSUME NEW c, After(q, c), q.batch[q.next] = Destroyed(c) PROVE FALSE
    <2>1. PICK j \in DOMAIN q.batch : j >= q.next /\ j < q.next
      BY <1>2, <1>7, <1>10 DEF After
    <2> QED
      BY <1>2, <2>1
  <1>11. Waits(q, q.batch[q.next])
    BY <1>2, <1>7 DEF Waits
  <1> QED
    BY <1>1, <1>2, <1>3, <1>4, <1>6, <1>8, <1>9, <1>10, <1>11

\* Swapping out the functors of a sub-loop.
LEMMA SwappedInLoop ==
    ASSUME NEW q, LoopType(q), Once(q), q.phase # "functors", NEW r,
           r = [q EXCEPT !.phase = "functors", !.batch = q.pending, !.next = 1, !.pending = <<>>]
    PROVE  /\ LoopType(r) /\ Once(r) /\ r.quit = q.quit /\ r.phase = "functors"
           /\ r.batch = q.pending /\ r.pending = <<>>
           /\ \A g : Waits(r, g) <=> Waits(q, g)
           /\ \A c : After(q, c) => After(r, c)
  <1>1. /\ r.pending = <<>> /\ r.batch = q.pending /\ r.next = 1 /\ r.phase = "functors" /\ r.quit = q.quit
        /\ r = [phase |-> r.phase, pending |-> r.pending, batch |-> r.batch, next |-> r.next, quit |-> r.quit]
    BY Zenon DEF LoopType
  <1>2. /\ q.pending \in Seq(Functor) /\ Len(q.pending) \in Nat /\ DOMAIN q.pending = 1..Len(q.pending)
        /\ q.batch = <<>> /\ DOMAIN q.batch = {}
    BY LenProperties DEF LoopType
  <1>3. DOMAIN r.pending = {} /\ r.pending \in Seq(Functor) /\ \A i \in DOMAIN r.batch : i >= r.next
    BY <1>1, <1>2, EmptySeq
  <1>4. LoopType(r)
    BY <1>1, <1>2, <1>3 DEF LoopType
  <1>5. Once(r)
    BY <1>1, <1>2, <1>3 DEF Once
  <1>6. ASSUME NEW g PROVE Waits(r, g) <=> Waits(q, g)
    BY <1>1, <1>2, <1>3, Zenon DEF Waits
  <1>7. ASSUME NEW c, After(q, c) PROVE After(r, c)
    BY <1>1, <1>2, <1>3, <1>7 DEF After
  <1> QED
    BY <1>1, <1>4, <1>5, <1>6, <1>7

\* The record EndIteration() makes.
LEMMA EndedFields ==
    ASSUME NEW q, LoopType(q), NEW phase, NEW s, NEW r,
           r = [q EXCEPT !.batch = <<>>, !.next = 1, !.phase = phase, !.pending = s]
    PROVE  r = [phase |-> phase, pending |-> s, batch |-> <<>>, next |-> 1, quit |-> q.quit]
  <1>1. /\ r.phase = phase /\ r.pending = s /\ r.batch = <<>> /\ r.next = 1 /\ r.quit = q.quit
        /\ r = [phase |-> r.phase, pending |-> r.pending, batch |-> r.batch, next |-> r.next, quit |-> r.quit]
    BY Zenon DEF LoopType
  <1> QED
    BY <1>1, Zenon

\* The end of an iteration: a loop that quits loses what was posted meanwhile.
LEMMA EndedInLoop ==
    ASSUME NEW q, LoopType(q), Once(q), q.next > Len(q.batch), NEW phase, NEW s, NEW r,
           phase \in {"poll", "exited"}, s = q.pending \/ s = <<>>,
           r = [phase |-> phase, pending |-> s, batch |-> <<>>, next |-> 1, quit |-> q.quit]
    PROVE  /\ LoopType(r) /\ Once(r) /\ r.quit = q.quit /\ r.phase = phase
           /\ r.batch = <<>> /\ r.pending = s
           /\ \A g : Waits(r, g) <=> s = q.pending /\ Waits(q, g)
           /\ \A c : After(q, c) => After(r, c)
  <1>1. /\ r.pending = s /\ r.batch = <<>> /\ r.next = 1 /\ r.phase = phase /\ r.quit = q.quit
        /\ r = [phase |-> r.phase, pending |-> r.pending, batch |-> r.batch, next |-> r.next, quit |-> r.quit]
    BY DEF LoopType
  <1>2. /\ q.batch \in Seq(Functor) /\ Len(q.batch) \in Nat /\ DOMAIN q.batch = 1..Len(q.batch)
        /\ q.next \in Nat
    BY LenProperties DEF LoopType
  <1>3. \A i \in DOMAIN q.batch : ~(i >= q.next)
    BY <1>2
  <1>4. DOMAIN r.batch = {} /\ <<>> \in Seq(Functor) /\ Len(r.batch) = 0 /\ DOMAIN <<>> = {}
    BY <1>1, EmptySeq
  <1>5. LoopType(r)
    <2>1. r.pending \in Seq(Functor) /\ r.quit \in BOOLEAN
      BY <1>1, <1>4, Zenon DEF LoopType
    <2>2. r.batch \in Seq(Functor) /\ r.next \in 1..(Len(r.batch) + 1)
      BY <1>1, <1>4
    <2>3. r.phase \in {"none", "poll", "functors", "exited"}
      BY <1>1
    <2> QED
      BY <1>1, <2>1, <2>2, <2>3, Zenon DEF LoopType
  <1>6. Once(r)
    BY <1>1, <1>4 DEF Once
  <1>7. ASSUME NEW g PROVE Waits(r, g) <=> s = q.pending /\ Waits(q, g)
    <2>1. Waits(r, g) <=> \E i \in DOMAIN s : s[i] = g
      BY <1>1, <1>4, Zenon DEF Waits
    <2>2. Waits(q, g) <=> \E i \in DOMAIN q.pending : q.pending[i] = g
      BY <1>3, Zenon DEF Waits
    <2> QED
      BY <1>4, <2>1, <2>2, Zenon
  <1>8. ASSUME NEW c, After(q, c) PROVE After(r, c)
    <2>1. \A i \in DOMAIN q.pending : q.pending[i] = Destroyed(c) =>
              \E j \in DOMAIN q.pending : j < i /\ q.pending[j] = Established(c)
      BY <1>3, <1>8, Zenon DEF After
    <2>2. \A i \in DOMAIN s : s[i] = Destroyed(c) => \E j \in DOMAIN s : j < i /\ s[j] = Established(c)
      BY <1>4, <2>1, Zenon
    <2> QED
      BY <1>1, <1>4, <2>2 DEF After
  <1> QED
    BY <1>1, <1>5, <1>6, <1>7, <1>8

(***************************************************************************)
(* The parts of a step, each on a record of the whole: what becomes of the *)
(* connection it is about, and that the others do not notice it.           *)
(***************************************************************************)
\* Connection x is in v where it is in w.
Same(w, v, x) ==
    /\ v.conns[x] = w.conns[x]
    /\ InMap(v, x) <=> InMap(w, x)
    /\ InBase(v, Remove(x)) <=> InBase(w, Remove(x))
    /\ Due(v, Established(x), x) <=> Due(w, Established(x), x)
    /\ Due(v, Destroyed(x), x) <=> Due(w, Destroyed(x), x)
    /\ w.conns[x].loop # Base /\ After(w.loops[w.conns[x].loop], x) => After(v.loops[w.conns[x].loop], x)
Others(w, v, c) ==
    /\ Shape(v) /\ DOMAIN v.conns = DOMAIN w.conns
    /\ \A x \in DOMAIN w.conns : x # c => Same(w, v, x)

\* No sub-loop changes its phase, and no connection its peer.
Calm(w, v) ==
    /\ \A x \in DOMAIN w.conns : /\ v.conns[x].peer = w.conns[x].peer /\ v.conns[x].hup = w.conns[x].hup
                                 /\ v.conns[x].name = w.conns[x].name /\ v.conns[x].freed = w.conns[x].freed
    /\ \A l \in SubLoops : v.loops[l].phase = w.loops[l].phase /\ v.loops[l].quit = w.loops[l].quit

\* A connection that does not notice a step stays where it is.
LEMMA SameLife ==
    ASSUME NEW w, NEW v, NEW s, NEW x, Life(w, s, x), Same(w, v, x)
    PROVE  Life(v, s, x)
  BY Zenon DEF Life, Same

\* The parts of a step add up.
LEMMA OthersAdd ==
    ASSUME NEW w, NEW v, NEW u, NEW c, Others(w, v, c), Others(v, u, c)
    PROVE  Others(w, u, c)
  <1>1. ASSUME NEW x \in DOMAIN w.conns, x # c PROVE Same(w, u, x)
    <2>1. Same(w, v, x) /\ Same(v, u, x)
      BY <1>1, Zenon DEF Others
    <2> QED
      BY <2>1, Zenon DEF Same
  <1> QED
    BY <1>1, Zenon DEF Others

\* What decides where a connection is.
LEMMA SameParts ==
    ASSUME NEW w, NEW v, NEW x, v.conns[x].name = w.conns[x].name, v.conns[x].loop = w.conns[x].loop
    PROVE  /\ v.map = w.map => (InMap(v, x) <=> InMap(w, x))
           /\ v.base = w.base => \A g : InBase(v, g) <=> InBase(w, g)
           /\ v.base = w.base /\ v.loops = w.loops => \A g : Due(v, g, x) <=> Due(w, g, x)
           /\ w.conns[x].loop # Base /\ v.loops = w.loops => \A g : Due(v, g, x) <=> Due(w, g, x)
  BY Zenon DEF InMap, InBase, Due

\* Functors differ when the connections do.
LEMMA FunctorsDiffer ==
    /\ \A c, d : Established(c) # Destroyed(d) /\ Established(c) # Remove(d) /\ Destroyed(c) # Remove(d)
    /\ \A c, d : c # d => Established(c) # Established(d) /\ Destroyed(c) # Destroyed(d) /\ Remove(c) # Remove(d)
    /\ \A f \in Functor : f \in {Established(f[2]), Destroyed(f[2]), Remove(f[2])}
  BY DEF Established, Destroyed, Remove, Functor

\* The parts that a step leaves alone keep their shape when connections keep name and loop.
LEMMA Frame ==
    ASSUME NEW w, Shape(w), NEW v, DOMAIN w.conns \subseteq DOMAIN v.conns,
           \A x \in DOMAIN w.conns : v.conns[x].name = w.conns[x].name /\ v.conns[x].loop = w.conns[x].loop
    PROVE  /\ v.map = w.map => MapOK(v)
           /\ v.base = w.base => BaseOK(v)
           /\ v.loops = w.loops => LoopsOK(v)
           /\ \A f : OfBase(w, f) => OfBase(v, f)
           /\ \A l, f : OfLoop(w, l, f) => OfLoop(v, l, f)
  <1>1. v.map = w.map => MapOK(v)
    BY Zenon DEF Shape, MapOK
  <1>2. \A f : OfBase(w, f) => OfBase(v, f)
    BY Zenon DEF OfBase
  <1>3. \A l, f : OfLoop(w, l, f) => OfLoop(v, l, f)
    BY Zenon DEF OfLoop
  <1>4. v.base = w.base => BaseOK(v)
    BY <1>2, Zenon DEF Shape, BaseOK
  <1>5. v.loops = w.loops => \A l : OwnFunctors(w, l) => OwnFunctors(v, l)
    BY <1>3, Zenon DEF OwnFunctors
  <1>6. v.loops = w.loops => LoopsOK(v)
    BY <1>5, Zenon DEF Shape, LoopsOK
  <1> QED
    BY <1>1, <1>2, <1>3, <1>4, <1>6

\* A functor of connection c joins the queue of the base loop.
LEMMA BaseAppended ==
    ASSUME NEW w, Shape(w), NEW f \in Functor, OfBase(w, f), ~InBase(w, f), NEW v,
           v = [w EXCEPT !.base = Append(w.base, f)]
    PROVE  /\ Others(w, v, f[2])
           /\ v.conns = w.conns /\ v.map = w.map /\ v.loops = w.loops
           /\ \A g : InBase(v, g) <=> InBase(w, g) \/ g = f
  <1>1. /\ v = [x \in Fields |-> v[x]] /\ v.base = Append(w.base, f)
        /\ v.conns = w.conns /\ v.map = w.map /\ v.loops = w.loops
    BY DEF Shape, Fields
  <1> DEFINE s == w.base  t == v.base  n == Len(s) + 1
  <1>2. s \in Seq(Functor)
    BY DEF Shape, BaseOK
  <1>3. /\ t \in Seq(Functor) /\ Len(s) \in Nat /\ DOMAIN s = 1..Len(s) /\ DOMAIN t = 1..n
        /\ \A i \in DOMAIN s : t[i] = s[i] /\ i < n
        /\ t[n] = f
        /\ \A i \in DOMAIN t : i \in DOMAIN s \/ i = n
    BY <1>1, <1>2, Appended
  <1>4. n \in DOMAIN t /\ \A i \in DOMAIN s : i \in DOMAIN t
    BY <1>3
  <1> HIDE DEF s, t, n
  <1>5. \A g : (\E i \in DOMAIN t : t[i] = g) <=> (\E i \in DOMAIN s : s[i] = g) \/ g = f
    BY <1>3, <1>4
  <1>6. \A g : InBase(v, g) <=> InBase(w, g) \/ g = f
    BY <1>5, Zenon DEF InBase, s, t
  <1>7. BaseOK(v)
    <2>1. \A g : OfBase(v, g) <=> OfBase(w, g)
      BY <1>1, Zenon DEF OfBase
    <2>2. \A i \in DOMAIN s : OfBase(w, s[i]) /\ s[i] # f
      BY Zenon DEF Shape, BaseOK, InBase, s
    <2>3. \A i \in DOMAIN t : OfBase(v, t[i])
      BY <1>3, <2>1, <2>2, Zenon
    <2>4. \A i, j \in DOMAIN s : s[i] = s[j] => i = j
      BY Zenon DEF Shape, BaseOK, s
    <2>5. \A i, j \in DOMAIN t : t[i] = t[j] => i = j
      BY <1>3, <2>2, <2>4
    <2> QED
      BY <1>3, <2>3, <2>5, Zenon DEF BaseOK, t
  <1>8. ConnsOK(v) /\ MapOK(v) /\ LoopsOK(v)
    <2>1. ConnsOK(v)
      BY <1>1, Zenon DEF Shape, ConnsOK
    <2> QED
      BY <1>1, <2>1, Frame, Zenon
  <1>9. Shape(v)
    BY <1>1, <1>7, <1>8, Zenon DEF Shape
  <1>10. ASSUME NEW x \in DOMAIN w.conns, x # f[2] PROVE Same(w, v, x)
    <2>1. f \notin {Established(x), Destroyed(x), Remove(x)}
      BY <1>10, FunctorsDiffer
    <2>2. Due(v, Established(x), x) <=> Due(w, Established(x), x)
      BY <1>1, <1>6, <2>1, Zenon DEF Due
    <2>3. Due(v, Destroyed(x), x) <=> Due(w, Destroyed(x), x)
      BY <1>1, <1>6, <2>1, Zenon DEF Due
    <2> QED
      BY <1>1, <1>6, <2>1, <2>2, <2>3, Zenon DEF Same, InMap
  <1> QED
    BY <1>1, <1>6, <1>9, <1>10, Zenon DEF Others

\* The base loop takes its oldest functor.
LEMMA BaseTaken ==
    ASSUME NEW w, Shape(w), w.base # <<>>, NEW v, v = [w EXCEPT !.base = Tail(w.base)]
    PROVE  LET f == Head(w.base)
           IN  /\ Others(w, v, f[2]) /\ f \in Functor /\ OfBase(w, f) /\ InBase(w, f)
               /\ v.conns = w.conns /\ v.map = w.map /\ v.loops = w.loops
               /\ \A g : InBase(v, g) <=> InBase(w, g) /\ g # f
  <1> DEFINE f == Head(w.base)
  <1>1. /\ v = [x \in Fields |-> v[x]] /\ v.base = Tail(w.base)
        /\ v.conns = w.conns /\ v.map = w.map /\ v.loops = w.loops
    BY Zenon DEF Shape, Fields
  <1> DEFINE s == w.base  t == v.base
  <1>2. s \in Seq(Functor) /\ s # <<>>
    BY DEF Shape, BaseOK
  <1>3. /\ t \in Seq(Functor) /\ f = s[1] /\ 1 \in DOMAIN s /\ f \in Functor
        /\ \A i \in DOMAIN t : i + 1 \in DOMAIN s /\ i + 1 # 1 /\ t[i] = s[i + 1]
        /\ \A i \in DOMAIN s : i # 1 => i - 1 \in DOMAIN t /\ t[i - 1] = s[i]
        /\ \A i, j \in DOMAIN t : i + 1 = j + 1 => i = j
    BY <1>1, <1>2, Shortened
  <1>4. \A i, j \in DOMAIN s : s[i] = s[j] => i = j
    BY Zenon DEF Shape, BaseOK
  <1>5. \A i \in DOMAIN s : OfBase(w, s[i])
    BY Zenon DEF Shape, BaseOK
  <1> HIDE DEF s, t, f
  <1>6. \A g : (\E i \in DOMAIN t : t[i] = g) <=> (\E i \in DOMAIN s : s[i] = g) /\ g # f
    <2>1. ASSUME NEW i \in DOMAIN t PROVE (\E j \in DOMAIN s : s[j] = t[i]) /\ t[i] # f
      BY <1>3, <1>4
    <2>2. ASSUME NEW i \in DOMAIN s, s[i] # f PROVE \E j \in DOMAIN t : t[j] = s[i]
      BY <1>3, <2>2
    <2> QED
      BY <2>1, <2>2, Zenon
  <1>7. \A g : InBase(v, g) <=> InBase(w, g) /\ g # f
    BY <1>6, Zenon DEF InBase, s, t
  <1>8. ConnsOK(v) /\ MapOK(v) /\ LoopsOK(v)
    <2>1. ConnsOK(v)
      BY <1>1, Zenon DEF Shape, ConnsOK
    <2> QED
      BY <1>1, <2>1, Frame, Zenon
  <1>9. BaseOK(v)
    <2>1. \A i \in DOMAIN t : OfBase(v, t[i])
      <3>1. \A g : OfBase(w, g) => OfBase(v, g)
        BY <1>1, Zenon DEF OfBase
      <3> QED
        BY <1>3, <1>5, <3>1, Zenon
    <2>2. \A i, j \in DOMAIN t : t[i] = t[j] => i = j
      BY <1>3, <1>4
    <2> QED
      BY <1>3, <2>1, <2>2, Zenon DEF BaseOK, t
  <1>10. Shape(v)
    BY <1>1, <1>8, <1>9, Zenon DEF Shape
  <1>11. ASSUME NEW x \in DOMAIN w.conns, x # f[2] PROVE Same(w, v, x)
    <2>1. f \notin {Established(x), Destroyed(x), Remove(x)}
      BY <1>3, <1>11, FunctorsDiffer
    <2>2. Due(v, Established(x), x) <=> Due(w, Established(x), x)
      BY <1>1, <1>7, <2>1, Zenon DEF Due
    <2>3. Due(v, Destroyed(x), x) <=> Due(w, Destroyed(x), x)
      BY <1>1, <1>7, <2>1, Zenon DEF Due
    <2> QED
      BY <1>1, <1>7, <2>1, <2>2, <2>3, Zenon DEF Same, InMap
  <1>12. OfBase(w, f) /\ InBase(w, f)
    BY <1>3, <1>5 DEF InBase, s
  <1> QED
    BY <1>1, <1>3, <1>7, <1>10, <1>11, <1>12, Zenon DEF Others, f

\* A field of connection c is assigned that decides neither its name nor its loop.
LEMMA ConnAssigned ==
    ASSUME NEW w, Shape(w), NEW c \in DOMAIN w.conns, NEW k \in Conn, k.peer = w.conns[c].peer,
           k.name = w.conns[c].name, k.loop = w.conns[c].loop,
           NEW v, v = [x \in Fields |-> v[x]], v.conns = [w.conns EXCEPT ![c] = k],
           v.map = w.map, v.base = w.base, v.loops = w.loops
    PROVE  /\ Others(w, v, c)
           /\ k.hup = w.conns[c].hup /\ k.freed = w.conns[c].freed => Calm(w, v)
           /\ v.conns[c] = k
           /\ InMap(v, c) <=> InMap(w, c)
           /\ \A g : InBase(v, g) <=> InBase(w, g)
           /\ \A g : Due(v, g, c) <=> Due(w, g, c)
  <1>1. w.conns \in Seq(Conn) /\ \A x \in DOMAIN w.conns : Named(x, w.conns[x])
    BY Zenon DEF Shape, ConnsOK
  <1>3. /\ DOMAIN v.conns = DOMAIN w.conns /\ v.conns[c] = k
        /\ \A x \in DOMAIN w.conns : x # c => v.conns[x] = w.conns[x]
    BY <1>1
  <1>4. v.conns \in Seq(Conn)
    <2>1. Len(w.conns) \in Nat /\ w.conns \in [1..Len(w.conns) -> Conn] /\ DOMAIN w.conns = 1..Len(w.conns)
      BY <1>1, LenProperties
    <2>2. v.conns \in [1..Len(w.conns) -> Conn]
      BY <2>1
    <2> QED
      BY <2>1, <2>2, IsASeq
  <1>5. Named(c, k)
    BY <1>1, Zenon DEF Named
  <1>6. ConnsOK(v)
    BY <1>1, <1>3, <1>4, <1>5, Zenon DEF ConnsOK
  <1>7. \A x \in DOMAIN w.conns : v.conns[x].name = w.conns[x].name /\ v.conns[x].loop = w.conns[x].loop
    BY <1>3, Zenon
  <1>8. Shape(v)
    <2>1. MapOK(v) /\ BaseOK(v) /\ LoopsOK(v)
      BY <1>3, <1>7, Frame, Zenon
    <2> QED
      BY <1>6, <2>1, Zenon DEF Shape
  <1>9. ASSUME NEW x \in DOMAIN w.conns
        PROVE  /\ InMap(v, x) <=> InMap(w, x)
               /\ \A g : InBase(v, g) <=> InBase(w, g)
               /\ \A g : Due(v, g, x) <=> Due(w, g, x)
    <2>1. v.conns[x].name = w.conns[x].name /\ v.conns[x].loop = w.conns[x].loop
      BY <1>7
    <2> QED
      BY <2>1, SameParts, Zenon
  <1>10. ASSUME NEW x \in DOMAIN w.conns, x # c PROVE Same(w, v, x)
    BY <1>3, <1>9, <1>10, Zenon DEF Same
  <1>11. Others(w, v, c)
    BY <1>3, <1>8, <1>10, Zenon DEF Others
  <1>12. k.hup = w.conns[c].hup /\ k.freed = w.conns[c].freed => Calm(w, v)
    BY <1>3, Zenon DEF Calm
  <1> QED
    BY <1>3, <1>9, <1>11, <1>12, Zenon

\* The same, its hypotheses and its conclusion under one name each.
AssignsConn(w, c, k, v) ==
    /\ Shape(w) /\ c \in DOMAIN w.conns /\ k \in Conn /\ k.peer = w.conns[c].peer
    /\ k.name = w.conns[c].name /\ k.loop = w.conns[c].loop
    /\ v = [x \in Fields |-> v[x]] /\ v.conns = [w.conns EXCEPT ![c] = k]
    /\ v.map = w.map /\ v.base = w.base /\ v.loops = w.loops

ConnIsAssigned(w, c, k, v) ==
    /\ Others(w, v, c)
    /\ k.hup = w.conns[c].hup /\ k.freed = w.conns[c].freed => Calm(w, v)
    /\ v.conns[c] = k
    /\ InMap(v, c) <=> InMap(w, c)
    /\ \A g : InBase(v, g) <=> InBase(w, g)
    /\ \A g : Due(v, g, c) <=> Due(w, g, c)

\* The record of a connection is assigned.
LEMMA ConnIs ==
    ASSUME NEW w, NEW c, NEW k, NEW v, AssignsConn(w, c, k, v)
    PROVE  ConnIsAssigned(w, c, k, v)
  <1>1. /\ Shape(w) /\ c \in DOMAIN w.conns /\ k \in Conn /\ k.peer = w.conns[c].peer
        /\ k.name = w.conns[c].name /\ k.loop = w.conns[c].loop
        /\ v = [x \in Fields |-> v[x]] /\ v.conns = [w.conns EXCEPT ![c] = k]
        /\ v.map = w.map /\ v.base = w.base /\ v.loops = w.loops
    BY Zenon DEF AssignsConn
  <1>2. /\ Others(w, v, c)
        /\ k.hup = w.conns[c].hup /\ k.freed = w.conns[c].freed => Calm(w, v)
        /\ v.conns[c] = k
        /\ InMap(v, c) <=> InMap(w, c)
        /\ \A g : InBase(v, g) <=> InBase(w, g)
        /\ \A g : Due(v, g, c) <=> Due(w, g, c)
    BY <1>1, ConnAssigned
  <1> QED
    BY <1>2, Zenon DEF ConnIsAssigned

\* A name is erased from the map.
LEMMA MapErased ==
    ASSUME NEW w, Shape(w), NEW name, NEW v, v = [x \in Fields |-> v[x]],
           v.map = Without(w.map, name), v.conns = w.conns, v.base = w.base, v.loops = w.loops
    PROVE  /\ \A c : (name \in DOMAIN w.map => c = w.map[name]) => Others(w, v, c)
           /\ \A x : InMap(v, x) <=> InMap(w, x) /\ w.conns[x].name # name
           /\ \A g, x : Due(v, g, x) <=> Due(w, g, x)
           /\ \A g : InBase(v, g) <=> InBase(w, g)
  <1>1. DOMAIN v.map = DOMAIN w.map \ {name} /\ \A y \in DOMAIN v.map : v.map[y] = w.map[y]
    BY DEF Without
  <1>2. \A x : InMap(v, x) <=> InMap(w, x) /\ w.conns[x].name # name
    BY <1>1 DEF InMap
  <1>3. \A g : InBase(v, g) <=> InBase(w, g)
    BY Zenon DEF InBase
  <1>4. \A g, x : Due(v, g, x) <=> Due(w, g, x)
    BY <1>3, Zenon DEF Due
  <1>5. Shape(v)
    <2>1. ConnsOK(v)
      BY Zenon DEF Shape, ConnsOK
    <2>2. BaseOK(v) /\ LoopsOK(v)
      BY Frame, Zenon
    <2>3. MapOK(v)
      BY <1>1 DEF Shape, MapOK
    <2> QED
      BY <2>1, <2>2, <2>3, Zenon DEF Shape
  <1>6. ASSUME NEW c, name \in DOMAIN w.map => c = w.map[name], NEW x \in DOMAIN w.conns, x # c
        PROVE  Same(w, v, x)
    <2>1. ~(InMap(w, x) /\ w.conns[x].name = name)
      BY <1>6 DEF InMap
    <2> QED
      BY <1>2, <1>3, <1>4, <2>1, Zenon DEF Same
  <1> QED
    BY <1>2, <1>3, <1>4, <1>5, <1>6, Zenon DEF Others

\* A sub-loop changes: connections of other loops do not notice it.
LEMMA LoopPut ==
    ASSUME NEW w, Shape(w), NEW l \in SubLoops, NEW r, LoopType(r), Once(r),
           \A i \in DOMAIN r.pending : OfLoop(w, l, r.pending[i]),
           \A i \in DOMAIN r.batch : OfLoop(w, l, r.batch[i]),
           NEW v, v = [x \in Fields |-> v[x]], v.loops = [w.loops EXCEPT ![l] = r],
           v.conns = w.conns, v.map = w.map, v.base = w.base
    PROVE  /\ Shape(v) /\ v.loops[l] = r /\ (\A m \in SubLoops : m # l => v.loops[m] = w.loops[m])
           /\ \A x : InMap(v, x) <=> InMap(w, x)
           /\ \A g : InBase(v, g) <=> InBase(w, g)
           /\ \A x \in DOMAIN w.conns : w.conns[x].loop # l => Same(w, v, x)
           /\ \A x, g : w.conns[x].loop = l =>
                  (Due(v, g, x) <=> Waits(r, g)) /\ (Due(w, g, x) <=> Waits(w.loops[l], g))
  <1>1. /\ w.loops = [m \in SubLoops |-> w.loops[m]]
        /\ \A m \in SubLoops : LoopType(w.loops[m]) /\ Once(w.loops[m]) /\ OwnFunctors(w, m)
    BY Zenon DEF Shape, LoopsOK
  <1>2. v.loops[l] = r /\ (\A m \in SubLoops : m # l => v.loops[m] = w.loops[m])
    BY <1>1
  <1>3. v.loops = [m \in SubLoops |-> v.loops[m]]
    BY <1>1
  <1>4. LoopsOK(v)
    <2>1. ASSUME NEW m \in SubLoops PROVE LoopType(v.loops[m]) /\ Once(v.loops[m]) /\ OwnFunctors(v, m)
      <3>1. \A k, f : OfLoop(v, k, f) <=> OfLoop(w, k, f)
        BY Zenon DEF OfLoop
      <3>2. CASE m = l
        BY <1>2, <3>1, <3>2, Zenon DEF OwnFunctors
      <3>3. CASE m # l
        <4>1. v.loops[m] = w.loops[m]
          BY <1>2, <3>3
        <4>2. OwnFunctors(v, m)
          BY <1>1, <3>1, <4>1, Zenon DEF OwnFunctors
        <4> QED
          BY <1>1, <4>1, <4>2, Zenon
      <3> QED
        BY <3>2, <3>3
    <2> QED
      BY <1>3, <2>1, Zenon DEF LoopsOK
  <1>5. Shape(v)
    <2>1. ConnsOK(v)
      BY Zenon DEF Shape, ConnsOK
    <2>2. BaseOK(v) /\ MapOK(v)
      BY Frame, Zenon
    <2> QED
      BY <1>4, <2>1, <2>2, Zenon DEF Shape
  <1>6. \A g : InBase(v, g) <=> InBase(w, g)
    BY Zenon DEF InBase
  <1>7. l # Base
    BY TcpServerAssumption DEF SubLoops, Base
  <1>8. ASSUME NEW x \in DOMAIN w.conns, w.conns[x].loop # l
        PROVE  /\ \A g : Due(v, g, x) <=> Due(w, g, x)
               /\ w.conns[x].loop # Base => v.loops[w.conns[x].loop] = w.loops[w.conns[x].loop]
    <2>1. w.conns[x] \in Conn
      BY ElementOfSeq, LenProperties DEF Shape, ConnsOK
    <2>2. w.conns[x].loop # Base => w.conns[x].loop \in SubLoops
      BY <2>1 DEF Conn
    <2>3. w.conns[x].loop # Base => v.loops[w.conns[x].loop] = w.loops[w.conns[x].loop]
      BY <1>2, <1>8, <2>2
    <2> QED
      BY <1>6, <2>3, Zenon DEF Due
  <1>9. \A x, g : w.conns[x].loop = l => (Due(v, g, x) <=> Waits(r, g)) /\ (Due(w, g, x) <=> Waits(w.loops[l], g))
    BY <1>2, <1>7, Zenon DEF Due
  <1>10. ASSUME NEW x \in DOMAIN w.conns, w.conns[x].loop # l PROVE Same(w, v, x)
    BY <1>6, <1>8, <1>10, Zenon DEF Same, InMap
  <1>11. \A x : InMap(v, x) <=> InMap(w, x)
    BY Zenon DEF InMap
  <1> QED
    BY <1>2, <1>5, <1>6, <1>9, <1>10, <1>11, Zenon

\* The same, its hypotheses and its conclusion under one name each.
PutsLoop(w, l, r, v) ==
    /\ Shape(w) /\ l \in SubLoops /\ LoopType(r) /\ Once(r)
    /\ \A i \in DOMAIN r.pending : OfLoop(w, l, r.pending[i])
    /\ \A i \in DOMAIN r.batch : OfLoop(w, l, r.batch[i])
    /\ v = [x \in Fields |-> v[x]] /\ v.loops = [w.loops EXCEPT ![l] = r]
    /\ v.conns = w.conns /\ v.map = w.map /\ v.base = w.base

LoopIsPut(w, l, r, v) ==
    /\ Shape(v) /\ v.loops[l] = r /\ (\A m \in SubLoops : m # l => v.loops[m] = w.loops[m])
    /\ \A x : InMap(v, x) <=> InMap(w, x)
    /\ \A g : InBase(v, g) <=> InBase(w, g)
    /\ \A x \in DOMAIN w.conns : w.conns[x].loop # l => Same(w, v, x)
    /\ \A x, g : w.conns[x].loop = l =>
           (Due(v, g, x) <=> Waits(r, g)) /\ (Due(w, g, x) <=> Waits(w.loops[l], g))

\* A sub-loop is put in the place of another.
LEMMA LoopIs ==
    ASSUME NEW w, NEW l, NEW r, NEW v, PutsLoop(w, l, r, v)
    PROVE  LoopIsPut(w, l, r, v)
  <1>1. /\ Shape(w) /\ l \in SubLoops /\ LoopType(r) /\ Once(r)
        /\ \A i \in DOMAIN r.pending : OfLoop(w, l, r.pending[i])
        /\ \A i \in DOMAIN r.batch : OfLoop(w, l, r.batch[i])
        /\ v = [x \in Fields |-> v[x]] /\ v.loops = [w.loops EXCEPT ![l] = r]
        /\ v.conns = w.conns /\ v.map = w.map /\ v.base = w.base
    BY Zenon DEF PutsLoop
  <1>2. /\ Shape(v) /\ v.loops[l] = r /\ (\A m \in SubLoops : m # l => v.loops[m] = w.loops[m])
        /\ \A x : InMap(v, x) <=> InMap(w, x)
        /\ \A g : InBase(v, g) <=> InBase(w, g)
        /\ \A x \in DOMAIN w.conns : w.conns[x].loop # l => Same(w, v, x)
        /\ \A x, g : w.conns[x].loop = l =>
               (Due(v, g, x) <=> Waits(r, g)) /\ (Due(w, g, x) <=> Waits(w.loops[l], g))
    BY <1>1, LoopPut
  <1> QED
    BY <1>2, Zenon DEF LoopIsPut

\* A sub-loop changes, and only connection c notices it.
LEMMA LoopAssigned ==
    ASSUME NEW w, Shape(w), NEW l \in SubLoops, NEW r, LoopType(r), Once(r), NEW c,
           \A i \in DOMAIN r.pending : OfLoop(w, l, r.pending[i]),
           \A i \in DOMAIN r.batch : OfLoop(w, l, r.batch[i]),
           \A x : x # c => /\ Waits(r, Established(x)) <=> Waits(w.loops[l], Established(x))
                           /\ Waits(r, Destroyed(x)) <=> Waits(w.loops[l], Destroyed(x))
                           /\ After(w.loops[l], x) => After(r, x),
           NEW v, v = [x \in Fields |-> v[x]], v.loops = [w.loops EXCEPT ![l] = r],
           v.conns = w.conns, v.map = w.map, v.base = w.base
    PROVE  /\ Others(w, v, c)
           /\ r.phase = w.loops[l].phase /\ r.quit = w.loops[l].quit => Calm(w, v)
           /\ v.loops[l] = r
           /\ InMap(v, c) <=> InMap(w, c)
           /\ \A g : InBase(v, g) <=> InBase(w, g)
           /\ w.conns[c].loop = l => \A g : Due(v, g, c) <=> Waits(r, g)
  <1>1. /\ Shape(v) /\ v.loops[l] = r /\ (\A m \in SubLoops : m # l => v.loops[m] = w.loops[m])
        /\ \A x : InMap(v, x) <=> InMap(w, x)
        /\ \A g : InBase(v, g) <=> InBase(w, g)
        /\ \A x \in DOMAIN w.conns : w.conns[x].loop # l => Same(w, v, x)
        /\ \A x, g : w.conns[x].loop = l =>
               (Due(v, g, x) <=> Waits(r, g)) /\ (Due(w, g, x) <=> Waits(w.loops[l], g))
    <2>1. PutsLoop(w, l, r, v)
      BY Zenon DEF PutsLoop
    <2>2. LoopIsPut(w, l, r, v)
      BY <2>1, LoopIs, Zenon
    <2> QED
      BY <2>2, Zenon DEF LoopIsPut
  <1>2. ASSUME NEW x \in DOMAIN w.conns, x # c PROVE Same(w, v, x)
    <2>1. CASE w.conns[x].loop = l
      BY <1>1, <1>2, <2>1, Zenon DEF Same
    <2>2. CASE w.conns[x].loop # l
      BY <1>1, <2>2, Zenon
    <2> QED
      BY <2>1, <2>2
  <1>3. r.phase = w.loops[l].phase /\ r.quit = w.loops[l].quit => Calm(w, v)
    BY <1>1, Zenon DEF Calm
  <1> QED
    BY <1>1, <1>2, <1>3, Zenon DEF Others

\* The same, its hypotheses and its conclusion under one name each.
Assigns(w, l, r, c, v) ==
    /\ Shape(w) /\ l \in SubLoops /\ LoopType(r) /\ Once(r)
    /\ \A i \in DOMAIN r.pending : OfLoop(w, l, r.pending[i])
    /\ \A i \in DOMAIN r.batch : OfLoop(w, l, r.batch[i])
    /\ \A x : x # c => /\ Waits(r, Established(x)) <=> Waits(w.loops[l], Established(x))
                       /\ Waits(r, Destroyed(x)) <=> Waits(w.loops[l], Destroyed(x))
                       /\ After(w.loops[l], x) => After(r, x)
    /\ v = [x \in Fields |-> v[x]] /\ v.loops = [w.loops EXCEPT ![l] = r]
    /\ v.conns = w.conns /\ v.map = w.map /\ v.base = w.base

Assigned(w, l, r, c, v) ==
    /\ Others(w, v, c)
    /\ r.phase = w.loops[l].phase /\ r.quit = w.loops[l].quit => Calm(w, v)
    /\ v.loops[l] = r
    /\ InMap(v, c) <=> InMap(w, c)
    /\ \A g : InBase(v, g) <=> InBase(w, g)
    /\ w.conns[c].loop = l => \A g : Due(v, g, c) <=> Waits(r, g)

\* A loop of a sub-thread is replaced.
LEMMA AssignedIs ==
    ASSUME NEW w, NEW l, NEW r, NEW c, NEW v, Assigns(w, l, r, c, v)
    PROVE  Assigned(w, l, r, c, v)
  <1>1. /\ Shape(w) /\ l \in SubLoops /\ LoopType(r) /\ Once(r)
        /\ \A i \in DOMAIN r.pending : OfLoop(w, l, r.pending[i])
        /\ \A i \in DOMAIN r.batch : OfLoop(w, l, r.batch[i])
        /\ \A x : x # c => /\ Waits(r, Established(x)) <=> Waits(w.loops[l], Established(x))
                           /\ Waits(r, Destroyed(x)) <=> Waits(w.loops[l], Destroyed(x))
                           /\ After(w.loops[l], x) => After(r, x)
        /\ v = [x \in Fields |-> v[x]] /\ v.loops = [w.loops EXCEPT ![l] = r]
        /\ v.conns = w.conns /\ v.map = w.map /\ v.base = w.base
    BY Zenon DEF Assigns
  <1>2. /\ Others(w, v, c)
        /\ r.phase = w.loops[l].phase /\ r.quit = w.loops[l].quit => Calm(w, v)
        /\ v.loops[l] = r
        /\ InMap(v, c) <=> InMap(w, c)
        /\ \A g : InBase(v, g) <=> InBase(w, g)
        /\ w.conns[c].loop = l => \A g : Due(v, g, c) <=> Waits(r, g)
    BY <1>1, LoopAssigned
  <1> QED
    BY <1>2, Zenon DEF Assigned

\* The records of connections.
LEMMA ConnFacts ==
    ASSUME NEW w, Shape(w), NEW c \in DOMAIN w.conns
    PROVE  /\ w.conns[c] \in Conn /\ c \in Nat /\ Named(c, w.conns[c])
           /\ w.conns[c].loop # Base => w.conns[c].loop \in SubLoops
           /\ w.conns[c].state \in States /\ w.conns[c].removed \in {0, 1} /\ w.conns[c].freed \in BOOLEAN
           /\ Established(c) \in Functor /\ Destroyed(c) \in Functor /\ Remove(c) \in Functor
  <1>1. w.conns \in Seq(Conn) /\ Named(c, w.conns[c])
    BY Zenon DEF Shape, ConnsOK
  <1>2. DOMAIN w.conns = 1..Len(w.conns) /\ Len(w.conns) \in Nat
    BY <1>1, LenProperties
  <1>3. w.conns[c] \in Conn /\ c \in Nat
    BY <1>1, <1>2, ElementOfSeq
  <1> QED
    BY <1>1, <1>3 DEF Conn, Established, Destroyed, Remove, Functor

\* queueInLoop() of the loop of connection c.
LEMMA Queued ==
    ASSUME NEW w, Shape(w), NEW c \in DOMAIN w.conns, NEW name \in {"connectEstablished", "connectDestroyed"},
           w.conns[c].loop = Base => name = "connectDestroyed", ~Due(w, <<name, c>>, c),
           NEW v, v = Queue(w, name, c)
    PROVE  /\ Others(w, v, c) /\ Calm(w, v)
           /\ v.conns = w.conns /\ v.map = w.map
           /\ InMap(v, c) <=> InMap(w, c)
           /\ InBase(v, Remove(c)) <=> InBase(w, Remove(c))
           /\ \A g : Due(v, g, c) <=> Due(w, g, c) \/ g = <<name, c>>
           /\ /\ w.conns[c].loop # Base /\ After(w.loops[w.conns[c].loop], c)
              /\ name = "connectDestroyed" => Due(w, Established(c), c)
              => After(v.loops[w.conns[c].loop], c)
  <1> DEFINE f == <<name, c>>
             l == w.conns[c].loop
  <1>1. /\ c \in Nat /\ f \in Functor /\ f[2] = c /\ f[1] = name /\ f # Remove(c)
        /\ l # Base => l \in SubLoops
        /\ f = Destroyed(c) => name = "connectDestroyed"
    BY ConnFacts, Zenon DEF Functor, Remove, Destroyed
  <1>2. CASE l = Base
    <2>1. v = [w EXCEPT !.base = Append(w.base, f)]
      BY <1>2, Zenon DEF Queue
    <2>2. OfBase(w, f)
      BY <1>1, <1>2 DEF OfBase
    <2>3. ~InBase(w, f)
      BY <1>2, Zenon DEF Due
    <2> HIDE DEF f, l
    <2>4. /\ Others(w, v, f[2])
          /\ v.conns = w.conns /\ v.map = w.map /\ v.loops = w.loops
          /\ \A g : InBase(v, g) <=> InBase(w, g) \/ g = f
      BY <1>1, <2>1, <2>2, <2>3, BaseAppended, Zenon
    <2>5. \A g : Due(v, g, c) <=> Due(w, g, c) \/ g = f
      BY <1>2, <2>4, Zenon DEF Due, l
    <2>6. InMap(v, c) <=> InMap(w, c)
      BY <2>4, Zenon DEF InMap
    <2>7. Calm(w, v)
      BY <2>4, Zenon DEF Calm
    <2> QED
      BY <1>1, <1>2, <2>4, <2>5, <2>6, <2>7, Zenon DEF f, l
  <1>3. CASE l # Base
    <2> DEFINE q == w.loops[l]
               r == [q EXCEPT !.pending = Append(q.pending, f)]
    <2>1. w.loops = [m \in SubLoops |-> w.loops[m]] /\ LoopType(q) /\ Once(q) /\ OwnFunctors(w, l) /\ l \in SubLoops
      BY <1>1, <1>3, Zenon DEF Shape, LoopsOK
    <2>2. ~Waits(q, f)
      BY <1>3, Zenon DEF Due
    <2>3. /\ v = [x \in Fields |-> v[x]] /\ v.loops = [w.loops EXCEPT ![l] = r]
          /\ v.conns = w.conns /\ v.map = w.map /\ v.base = w.base
      <3>1. v = [w EXCEPT !.loops[w.conns[c].loop].pending = Append(@, <<name, c>>)]
        BY <1>3, Zenon DEF Queue
      <3> QED
        BY <3>1 DEF Shape, Fields
    <2>4. PICK rr : rr = r
      BY Zenon
    <2> HIDE DEF r
    <2>5. /\ LoopType(rr) /\ Once(rr) /\ rr.batch = q.batch /\ rr.phase = q.phase /\ rr.quit = q.quit
          /\ \A i \in DOMAIN rr.pending : rr.pending[i] = f \/ \E j \in DOMAIN q.pending : rr.pending[i] = q.pending[j]
          /\ \A g : Waits(rr, g) <=> Waits(q, g) \/ g = f
          /\ \A x : After(q, x) /\ (f = Destroyed(x) => Waits(q, Established(x))) => After(rr, x)
      <3>1. rr = [q EXCEPT !.pending = Append(q.pending, f)]
        BY <2>4, Zenon DEF r
      <3> HIDE DEF f, q
      <3> QED
        BY <1>1, <2>1, <2>2, <3>1, PostedToLoop
    <2>6. v.loops = [w.loops EXCEPT ![l] = rr]
      BY <2>3, <2>4
    <2>7. OfLoop(w, l, f)
      BY <1>1 DEF OfLoop
    <2> HIDE DEF f, l, q
    <2>8. /\ \A i \in DOMAIN rr.pending : OfLoop(w, l, rr.pending[i])
          /\ \A i \in DOMAIN rr.batch : OfLoop(w, l, rr.batch[i])
      BY <2>1, <2>5, <2>7, Zenon DEF OwnFunctors, q
    <2>9. \A x : x # c => f # Established(x) /\ f # Destroyed(x)
      BY <1>1 DEF Established, Destroyed
    <2>10. \A x : x # c => /\ Waits(rr, Established(x)) <=> Waits(w.loops[l], Established(x))
                           /\ Waits(rr, Destroyed(x)) <=> Waits(w.loops[l], Destroyed(x))
                           /\ After(w.loops[l], x) => After(rr, x)
      BY <2>5, <2>9, Zenon DEF q
    <2>11. /\ Others(w, v, c)
           /\ rr.phase = w.loops[l].phase /\ rr.quit = w.loops[l].quit => Calm(w, v)
           /\ v.loops[l] = rr
           /\ InMap(v, c) <=> InMap(w, c)
           /\ \A g : InBase(v, g) <=> InBase(w, g)
           /\ w.conns[c].loop = l => \A g : Due(v, g, c) <=> Waits(rr, g)
      <3>1. Assigns(w, l, rr, c, v)
        BY <2>1, <2>3, <2>5, <2>6, <2>8, <2>10, Zenon DEF Assigns
      <3>2. Assigned(w, l, rr, c, v)
        BY <3>1, AssignedIs, Zenon
      <3> QED
        BY <3>2, Zenon DEF Assigned
    <2>12. \A g : Due(w, g, c) <=> Waits(q, g)
      BY <1>3, Zenon DEF Due, q, l
    <2>13. \A g : Due(v, g, c) <=> Due(w, g, c) \/ g = f
      BY <2>5, <2>11, <2>12, Zenon DEF l
    <2>14. After(w.loops[l], c) /\ (name = "connectDestroyed" => Due(w, Established(c), c)) => After(v.loops[l], c)
      BY <1>1, <2>5, <2>11, <2>12, Zenon DEF q
    <2>15. Calm(w, v)
      BY <2>5, <2>11, Zenon DEF q
    <2> QED
      BY <2>3, <2>11, <2>13, <2>14, <2>15, Zenon DEF f, l
  <1> QED
    BY <1>2, <1>3

(***************************************************************************)
(* Destroying what nothing refers to.                                      *)
(***************************************************************************)
\* The fields of the record of the whole.
LEMMA WholeHas ==
    /\ Whole = [x \in Fields |-> Whole[x]] /\ Whole' = [x \in Fields |-> Whole'[x]]
    /\ Whole.conns = conns /\ Whole.map = connections_ /\ Whole.base = base /\ Whole.loops = loops
    /\ Whole'.conns = conns' /\ Whole'.map = connections_' /\ Whole'.base = base' /\ Whole'.loops = loops'
  BY DEF Whole, Fields

\* A connection that is in the map or has a functor waiting is referred to.
LEMMA Unheld ==
    ASSUME NEW w, Shape(w), NEW c \in DOMAIN w.conns, ~Held(w, c)
    PROVE  /\ ~InMap(w, c) /\ ~InBase(w, Remove(c))
           /\ ~Due(w, Established(c), c) /\ ~Due(w, Destroyed(c), c)
  <1>1. /\ Established(c)[2] = c /\ Destroyed(c)[2] = c /\ Remove(c)[2] = c
    BY DEF Established, Destroyed, Remove
  <1>2. ~InMap(w, c)
    BY DEF InMap, Held, Range
  <1>3. \A i \in DOMAIN w.base : w.base[i][2] # c
    BY Zenon DEF Held
  <1>4. ASSUME NEW l \in SubLoops PROVE /\ \A i \in DOMAIN w.loops[l].pending : w.loops[l].pending[i][2] # c
                                        /\ \A i \in DOMAIN w.loops[l].batch : w.loops[l].batch[i][2] # c
    <2> DEFINE qs == UNION {{w.loops[m].pending, w.loops[m].batch} : m \in SubLoops}
    <2>1. w.loops[l].pending \in qs /\ w.loops[l].batch \in qs
      OBVIOUS
    <2>2. \A q \in {w.base} \cup qs : \A i \in DOMAIN q : q[i][2] # c
      BY Zenon DEF Held
    <2> HIDE DEF qs
    <2> QED
      BY <2>1, <2>2
  <1>5. \A g : g[2] = c => ~InBase(w, g)
    BY <1>3, Zenon DEF InBase
  <1>6. \A g : g[2] = c => ~Due(w, g, c)
    <2>1. w.conns[c].loop # Base => w.conns[c].loop \in SubLoops
      BY ConnFacts
    <2>2. w.conns[c].loop # Base => \A g : g[2] = c => ~Waits(w.loops[w.conns[c].loop], g)
      BY <1>4, <2>1, Zenon DEF Waits
    <2> QED
      BY <1>5, <2>2, Zenon DEF Due
  <1> QED
    BY <1>1, <1>2, <1>5, <1>6, Zenon

\* The connections nothing refers to, and the asserts of their destructors that fail.
Lost(w) == {c \in DOMAIN w.conns : w.conns[c].freed = FALSE /\ ~Held(w, c)}
Open(w, c) == w.conns[c].state # "kDisconnected"
Left(w, c) == w.conns[c].state = "kDisconnected" /\ AddedToLoop(w.conns[c])
Failed(w) ==
    {[at |-> "~TcpConnection", conn |-> c] : c \in {c \in Lost(w) : Open(w, c)}}
    \cup {[at |-> "~Channel", conn |-> c] : c \in {c \in Lost(w) : Left(w, c)}}

\* A channel is left in its loop while nobody removed it.
LEMMA LeftIs ==
    ASSUME NEW w, NEW c
    PROVE  Left(w, c) <=> w.conns[c].state = "kDisconnected" /\ w.conns[c].removed = 0
  BY DEF Left, AddedToLoop

\* Which connection fails which assert.
LEMMA FailedIs ==
    ASSUME NEW w
    PROVE  /\ \A c \in Lost(w) : Open(w, c) => [at |-> "~TcpConnection", conn |-> c] \in Failed(w)
           /\ \A c \in Lost(w) : Left(w, c) => [at |-> "~Channel", conn |-> c] \in Failed(w)
           /\ \A f \in Failed(w) : /\ f.conn \in Lost(w)
                                   /\ \/ f.at = "~TcpConnection" /\ Open(w, f.conn)
                                      \/ f.at = "~Channel" /\ Left(w, f.conn)
           /\ (\A c \in Lost(w) : ~Open(w, c) /\ ~Left(w, c)) => Failed(w) = {}
  <1>1. ASSUME NEW c \in Lost(w), Open(w, c) PROVE [at |-> "~TcpConnection", conn |-> c] \in Failed(w)
    BY <1>1, Zenon DEF Failed
  <1>2. ASSUME NEW c \in Lost(w), Left(w, c) PROVE [at |-> "~Channel", conn |-> c] \in Failed(w)
    BY <1>2, Zenon DEF Failed
  <1>3. ASSUME NEW f \in Failed(w)
        PROVE  /\ f.conn \in Lost(w)
               /\ \/ f.at = "~TcpConnection" /\ Open(w, f.conn)
                  \/ f.at = "~Channel" /\ Left(w, f.conn)
    <2>1. PICK c \in Lost(w) : \/ f = [at |-> "~TcpConnection", conn |-> c] /\ Open(w, c)
                               \/ f = [at |-> "~Channel", conn |-> c] /\ Left(w, c)
      <3>1. \/ f \in {[at |-> "~TcpConnection", conn |-> c] : c \in {c \in Lost(w) : Open(w, c)}}
            \/ f \in {[at |-> "~Channel", conn |-> c] : c \in {c \in Lost(w) : Left(w, c)}}
        BY <1>3, Zenon DEF Failed
      <3>2. CASE f \in {[at |-> "~TcpConnection", conn |-> c] : c \in {c \in Lost(w) : Open(w, c)}}
        BY <3>2
      <3>3. CASE f \in {[at |-> "~Channel", conn |-> c] : c \in {c \in Lost(w) : Left(w, c)}}
        BY <3>3
      <3> QED
        BY <3>1, <3>2, <3>3, Zenon
    <2> QED
      BY <2>1
  <1>4. ASSUME \A c \in Lost(w) : ~Open(w, c) /\ ~Left(w, c) PROVE Failed(w) = {}
    <2>1. \A f : f \notin Failed(w)
      BY <1>3, <1>4, Zenon
    <2> QED
      BY <2>1, Zenon
  <1> QED
    BY <1>1, <1>2, <1>3, <1>4, Zenon

\* What ~TcpConnection() changes, whether the asserts hold or not.
LEMMA ReleaseFields ==
    ASSUME NEW w, Shape(w), NEW fds, Release(w, fds)
    PROVE  /\ connections_' = w.map /\ base' = w.base /\ loops' = w.loops
           /\ conns' \in Seq(Conn) /\ DOMAIN conns' = DOMAIN w.conns /\ Shape(Whole')
           /\ \A c \in DOMAIN w.conns :
                  /\ conns'[c] = [w.conns[c] EXCEPT !.freed = conns'[c].freed]
                  /\ conns'[c].peer = w.conns[c].peer /\ conns'[c].hup = w.conns[c].hup
                  /\ conns'[c].name = w.conns[c].name /\ conns'[c].loop = w.conns[c].loop
                  /\ conns'[c].state = w.conns[c].state /\ conns'[c].removed = w.conns[c].removed
                  /\ conns'[c].freed = TRUE <=> w.conns[c].freed = TRUE \/ ~Held(w, c)
           /\ failures' = Failed(w)
  <1> DEFINE dead == {c \in DOMAIN w.conns : ~w.conns[c].freed /\ ~Held(w, c)}
  <1>1. /\ conns' = [c \in DOMAIN w.conns |-> [w.conns[c] EXCEPT !.freed = w.conns[c].freed \/ c \in dead]]
        /\ connections_' = w.map /\ base' = w.base /\ loops' = w.loops
        /\ failures' =
               {[at |-> "~TcpConnection", conn |-> c] :
                    c \in {c \in dead : w.conns[c].state # "kDisconnected"}}
               \cup {[at |-> "~Channel", conn |-> c] :
                    c \in {c \in dead : w.conns[c].state = "kDisconnected" /\ AddedToLoop(w.conns[c])}}
    BY Zenon DEF Release
  <1>2. w.conns \in Seq(Conn) /\ \A c \in DOMAIN w.conns : Named(c, w.conns[c])
    BY Zenon DEF Shape, ConnsOK
  <1>3. DOMAIN w.conns = 1..Len(w.conns) /\ Len(w.conns) \in Nat /\ \A c \in DOMAIN w.conns : w.conns[c] \in Conn
    BY <1>2, LenProperties, ElementOfSeq
  <1>4. dead = {c \in DOMAIN w.conns : w.conns[c].freed = FALSE /\ ~Held(w, c)}
    <2>1. \A c \in DOMAIN w.conns : w.conns[c].freed \in BOOLEAN
      BY <1>3 DEF Conn
    <2> QED
      BY <2>1
  <1> HIDE DEF dead
  <1>9. failures' = Failed(w)
    <2>1. dead = Lost(w)
      BY <1>4, Zenon DEF Lost
    <2> QED
      BY <1>1, <2>1, Zenon DEF Failed, Open, Left
  <1>5. ASSUME NEW c \in DOMAIN w.conns
        PROVE  /\ conns'[c] \in Conn /\ conns'[c] = [w.conns[c] EXCEPT !.freed = conns'[c].freed]
               /\ conns'[c].peer = w.conns[c].peer /\ conns'[c].hup = w.conns[c].hup
               /\ conns'[c].name = w.conns[c].name /\ conns'[c].loop = w.conns[c].loop
               /\ conns'[c].state = w.conns[c].state /\ conns'[c].removed = w.conns[c].removed
               /\ conns'[c].freed = TRUE <=> w.conns[c].freed = TRUE \/ ~Held(w, c)
    <2>1. PICK b : b = (w.conns[c].freed \/ c \in dead)
      OBVIOUS
    <2>2. conns'[c] = [w.conns[c] EXCEPT !.freed = b]
      BY <1>1, <2>1
    <2>3. w.conns[c] \in Conn /\ w.conns[c].freed \in BOOLEAN
      BY <1>3 DEF Conn
    <2>4. b \in BOOLEAN /\ (b = TRUE <=> w.conns[c].freed = TRUE \/ c \in dead)
      BY <2>1, <2>3, Zenon
    <2>5. b = TRUE <=> w.conns[c].freed = TRUE \/ ~Held(w, c)
      BY <1>4, <2>3, <2>4, Zenon
    <2> QED
      BY <2>2, <2>3, <2>4, <2>5 DEF Conn
  <1>6. DOMAIN conns' = DOMAIN w.conns
    BY <1>1
  <1>7. conns' \in Seq(Conn)
    <2>1. conns' \in [1..Len(w.conns) -> Conn]
      BY <1>1, <1>3, <1>5, Zenon
    <2> QED
      BY <1>3, <2>1, IsASeq
  <1>8. Shape(Whole')
    <2>1. ConnsOK(Whole')
      <3>1. ASSUME NEW c \in DOMAIN conns' PROVE Named(c, conns'[c])
        <4>1. /\ conns'[c].peer = w.conns[c].peer /\ Named(c, w.conns[c])
              /\ conns'[c].name = w.conns[c].name /\ conns'[c].loop = w.conns[c].loop
          BY <1>2, <1>5, <1>6, Zenon
        <4> QED
          BY <4>1, Zenon DEF Named
      <3> QED
        BY <1>7, <3>1, WholeHas, Zenon DEF ConnsOK
    <2>2. MapOK(Whole') /\ BaseOK(Whole') /\ LoopsOK(Whole')
      <3>1. PICK v : v = Whole'
        OBVIOUS
      <3>2. /\ DOMAIN w.conns \subseteq DOMAIN v.conns /\ v.map = w.map /\ v.base = w.base /\ v.loops = w.loops
            /\ \A x \in DOMAIN w.conns : v.conns[x].name = w.conns[x].name /\ v.conns[x].loop = w.conns[x].loop
        <4>1. v.conns = conns' /\ v.map = connections_' /\ v.base = base' /\ v.loops = loops'
          BY <3>1, WholeHas, Zenon
        <4>2. \A x \in DOMAIN w.conns : /\ conns'[x].name = w.conns[x].name
                                        /\ conns'[x].loop = w.conns[x].loop
          BY <1>5, Zenon
        <4> QED
          BY <1>1, <1>6, <4>1, <4>2, Zenon
      <3>3. MapOK(v) /\ BaseOK(v) /\ LoopsOK(v)
        BY <3>2, Frame, Zenon
      <3> QED
        BY <3>1, <3>3, Zenon
    <2> QED
      BY <2>1, <2>2, WholeHas, Zenon DEF Shape
  <1> QED
    BY <1>1, <1>5, <1>6, <1>7, <1>8, <1>9, Zenon

\* The same under one name.
AfterRelease(w) ==
    /\ connections_' = w.map /\ base' = w.base /\ loops' = w.loops
    /\ conns' \in Seq(Conn) /\ DOMAIN conns' = DOMAIN w.conns /\ Shape(Whole')
    /\ \A c \in DOMAIN w.conns :
           /\ conns'[c] = [w.conns[c] EXCEPT !.freed = conns'[c].freed]
           /\ conns'[c].peer = w.conns[c].peer /\ conns'[c].hup = w.conns[c].hup
           /\ conns'[c].name = w.conns[c].name /\ conns'[c].loop = w.conns[c].loop
           /\ conns'[c].state = w.conns[c].state /\ conns'[c].removed = w.conns[c].removed
           /\ conns'[c].freed = TRUE <=> w.conns[c].freed = TRUE \/ ~Held(w, c)
    /\ failures' = Failed(w)

\* What the steps of Release() leave.
LEMMA AfterReleaseIs ==
    ASSUME NEW w, Shape(w), NEW fds, Release(w, fds)
    PROVE  AfterRelease(w)
  BY ReleaseFields, Zenon DEF AfterRelease

\* When every connection is where its life allows, those that are destroyed are disconnected
\* and out of their loop.
LEMMA Released ==
    ASSUME NEW w, Good(w, server), NEW fds, Release(w, fds)
    PROVE  failures' = {} /\ Good(Whole', server)
  <1>1. Shape(w) /\ \A c \in DOMAIN w.conns : Life(w, server, c)
    BY Zenon DEF Good
  <1>2. \A c \in DOMAIN w.conns : ~Held(w, c) =>
            /\ ~InMap(w, c) /\ ~InBase(w, Remove(c))
            /\ ~Due(w, Established(c), c) /\ ~Due(w, Destroyed(c), c)
    BY <1>1, Unheld, Zenon
  <1>3. \A c \in DOMAIN w.conns : w.conns[c].freed = FALSE /\ ~Held(w, c) => w.conns[c].state = "kDisconnected"
    BY <1>1, <1>2, Zenon DEF Life
  <1>4. failures' = {}
    <2>1. ASSUME NEW c \in Lost(w) PROVE ~Open(w, c) /\ ~Left(w, c)
      <3>1. c \in DOMAIN w.conns /\ w.conns[c].freed = FALSE /\ ~Held(w, c)
        BY <2>1 DEF Lost
      <3>2. w.conns[c].state = "kDisconnected"
        BY <1>3, <3>1, Zenon
      <3>3. w.conns[c].removed # 0
        BY <1>1, <1>2, <3>1, <3>2, Zenon DEF Life
      <3> QED
        BY <3>2, <3>3, LeftIs, Zenon DEF Open
    <2>2. failures' = Failed(w)
      BY <1>1, ReleaseFields, Zenon
    <2> QED
      BY <2>1, <2>2, FailedIs, Zenon
  <1>5. ASSUME NEW c \in DOMAIN w.conns PROVE Life(Whole', server, c)
    <2>1. PICK v : v = Whole'
      OBVIOUS
    <2>2. /\ v.map = w.map /\ v.base = w.base /\ v.loops = w.loops
          /\ v.conns[c].name = w.conns[c].name /\ v.conns[c].loop = w.conns[c].loop
          /\ v.conns[c].state = w.conns[c].state /\ v.conns[c].removed = w.conns[c].removed
          /\ v.conns[c].freed = TRUE <=> w.conns[c].freed = TRUE \/ ~Held(w, c)
      <3>1. /\ connections_' = w.map /\ base' = w.base /\ loops' = w.loops
            /\ conns'[c].name = w.conns[c].name /\ conns'[c].loop = w.conns[c].loop
            /\ conns'[c].state = w.conns[c].state /\ conns'[c].removed = w.conns[c].removed
            /\ conns'[c].freed = TRUE <=> w.conns[c].freed = TRUE \/ ~Held(w, c)
        <4>1. /\ connections_' = w.map /\ base' = w.base /\ loops' = w.loops
              /\ \A d \in DOMAIN w.conns :
                     /\ conns'[d] = [w.conns[d] EXCEPT !.freed = conns'[d].freed]
                     /\ conns'[d].peer = w.conns[d].peer /\ conns'[d].hup = w.conns[d].hup
                     /\ conns'[d].name = w.conns[d].name /\ conns'[d].loop = w.conns[d].loop
                     /\ conns'[d].state = w.conns[d].state /\ conns'[d].removed = w.conns[d].removed
                     /\ conns'[d].freed = TRUE <=> w.conns[d].freed = TRUE \/ ~Held(w, d)
          BY <1>1, ReleaseFields, Zenon
        <4> QED
          BY <4>1, Zenon
      <3>2. v.conns = conns' /\ v.map = connections_' /\ v.base = base' /\ v.loops = loops'
        BY <2>1, WholeHas, Zenon
      <3> QED
        BY <3>1, <3>2, Zenon
    <2>3. /\ InMap(v, c) <=> InMap(w, c)
          /\ \A g : InBase(v, g) <=> InBase(w, g)
          /\ \A g : Due(v, g, c) <=> Due(w, g, c)
      BY <2>2, SameParts, Zenon
    <2>4. /\ w.conns[c].removed \in {0, 1} /\ w.conns[c].freed \in BOOLEAN
      BY <1>1, ConnFacts
    <2>5. Life(w, server, c)
      BY <1>1
    <2>6. w.conns[c].freed = FALSE \/ w.conns[c].freed = TRUE
      BY <2>4
    <2>7. v.conns[c].freed = FALSE => w.conns[c].freed = FALSE
      BY <2>2, <2>6, Zenon
    <2>8. v.conns[c].freed = TRUE =>
              /\ ~InMap(v, c) /\ ~InBase(v, Remove(c))
              /\ ~Due(v, Established(c), c) /\ ~Due(v, Destroyed(c), c)
      BY <1>2, <2>2, <2>3, <2>5, Zenon DEF Life
    <2>9. Up(server) /\ v.conns[c].freed = TRUE => v.conns[c].state = "kDisconnected" /\ v.conns[c].removed = 1
      <3>1. CASE w.conns[c].freed = TRUE
        BY <2>2, <2>5, <3>1, Zenon DEF Life
      <3>2. CASE w.conns[c].freed = FALSE
        <4> SUFFICES ASSUME Up(server), ~Held(w, c)
                     PROVE  v.conns[c].state = "kDisconnected" /\ v.conns[c].removed = 1
          BY <2>2, <3>2
        <4>1. v.conns[c].state = "kDisconnected"
          BY <1>3, <2>2, <3>2
        <4>2. v.conns[c].removed # 0
          BY <1>2, <2>2, <2>5, <3>2, <4>1, Zenon DEF Life
        <4> QED
          BY <2>2, <2>4, <4>1, <4>2
      <3> QED
        BY <2>6, <3>1, <3>2, Zenon
    <2>10. Life(v, server, c)
      BY <2>2, <2>3, <2>5, <2>7, <2>8, <2>9, Zenon DEF Life
    <2> QED
      BY <2>1, <2>10
  <1> QED
    BY <1>1, <1>4, <1>5, ReleaseFields, WholeHas, Zenon DEF Good

(***************************************************************************)
(* Where a step takes the connection it is about.                          *)
(***************************************************************************)
\* connectEstablished() ran.
LEMMA LifeEstablished ==
    ASSUME NEW w, NEW v, NEW s, NEW c, Life(w, s, c), Due(w, Established(c), c),
           v.conns[c].state = "kConnected", v.conns[c].loop = w.conns[c].loop,
           v.conns[c].removed = w.conns[c].removed, v.conns[c].freed = w.conns[c].freed,
           InMap(v, c) <=> InMap(w, c), InBase(v, Remove(c)) <=> InBase(w, Remove(c)),
           ~Due(v, Established(c), c), Due(v, Destroyed(c), c) <=> Due(w, Destroyed(c), c)
    PROVE  Life(v, s, c)
  BY DEF Life

\* connectDestroyed() ran.
LEMMA LifeDestroyed ==
    ASSUME NEW w, NEW v, NEW s, NEW c, Life(w, s, c), w.conns[c].state \in {"kConnected", "kDisconnected"},
           v.conns[c].state = "kDisconnected", v.conns[c].loop = w.conns[c].loop,
           v.conns[c].removed = 1, v.conns[c].freed = FALSE,
           ~InMap(v, c), Up(s) => ~InBase(v, Remove(c)),
           Due(v, Established(c), c) => Due(w, Established(c), c), ~Due(v, Destroyed(c), c)
    PROVE  Life(v, s, c)
  BY DEF Life

\* removeConnectionInLoop() ran.
LEMMA LifeRemoved ==
    ASSUME NEW w, NEW v, NEW s, NEW c, Life(w, s, c), w.conns[c].state # "kConnecting",
           v.conns[c].state = "kDisconnected", v.conns[c].loop = w.conns[c].loop,
           v.conns[c].removed = 0, v.conns[c].freed = FALSE,
           ~InMap(v, c), ~InBase(v, Remove(c)),
           Due(v, Established(c), c) => Due(w, Established(c), c), Due(v, Destroyed(c), c)
    PROVE  Life(v, s, c)
  BY DEF Life

\* handleClose() ran in a sub-loop.
LEMMA LifeClosed ==
    ASSUME NEW w, NEW v, NEW s, NEW c, Life(w, s, c), w.conns[c].freed = FALSE,
           w.conns[c].state \in {"kConnected", "kDisconnecting"},
           v.conns[c].state = "kDisconnected", v.conns[c].loop = w.conns[c].loop,
           v.conns[c].removed = w.conns[c].removed, v.conns[c].freed = w.conns[c].freed,
           InMap(v, c) <=> InMap(w, c), InBase(v, Remove(c)),
           Due(v, Established(c), c) => Due(w, Established(c), c),
           Due(v, Destroyed(c), c) <=> Due(w, Destroyed(c), c)
    PROVE  Life(v, s, c)
  BY DEF Life

\* When the others do not notice, only that connection matters.
LEMMA GoodFrom ==
    ASSUME NEW w, NEW v, NEW s, NEW c, Good(w, s), Others(w, v, c), c \in DOMAIN w.conns => Life(v, s, c)
    PROVE  Good(v, s)
  <1>1. ASSUME NEW x \in DOMAIN w.conns, x # c PROVE Life(v, s, x)
    BY <1>1, SameLife, Zenon DEF Good, Others
  <1> QED
    BY <1>1, Zenon DEF Good, Others

(***************************************************************************)
(* What a step that ends well leaves behind.                               *)
(***************************************************************************)
\* A step that ends by destroying what nothing refers to, and fails no assert.
LEMMA FineRelease ==
    ASSUME Fine, NEW w, Good(w, server), DOMAIN w.conns = DOMAIN conns, DOMAIN w.map \subseteq DOMAIN connections_,
           \A c \in DOMAIN conns : /\ w.conns[c].peer = conns[c].peer /\ w.conns[c].hup = conns[c].hup
                                   /\ w.conns[c].freed = conns[c].freed,
           LoopPhases(w.loops, threadNum_, server), NEW fds, Release(w, fds),
           threadNum_' = threadNum_, nextConnId_' = nextConnId_, server' = server, waiting' = waiting
    PROVE  Fine'
  <1>1. failures' = {} /\ Good(Whole', server')
    BY Released, Zenon
  <1>2. Shape(w) /\ Shape(Whole)
    BY Zenon DEF Good, Fine
  <1>3. /\ connections_' = w.map /\ loops' = w.loops /\ conns' \in Seq(Conn) /\ DOMAIN conns' = DOMAIN w.conns
        /\ \A c \in DOMAIN w.conns :
               /\ conns'[c].peer = w.conns[c].peer /\ conns'[c].hup = w.conns[c].hup
               /\ w.conns[c].freed = TRUE => conns'[c].freed = TRUE
    <2>1. /\ connections_' = w.map /\ loops' = w.loops /\ conns' \in Seq(Conn) /\ DOMAIN conns' = DOMAIN w.conns
          /\ \A c \in DOMAIN w.conns :
                 /\ conns'[c] = [w.conns[c] EXCEPT !.freed = conns'[c].freed]
                 /\ conns'[c].peer = w.conns[c].peer /\ conns'[c].hup = w.conns[c].hup
                 /\ conns'[c].name = w.conns[c].name /\ conns'[c].loop = w.conns[c].loop
                 /\ conns'[c].state = w.conns[c].state /\ conns'[c].removed = w.conns[c].removed
                 /\ conns'[c].freed = TRUE <=> w.conns[c].freed = TRUE \/ ~Held(w, c)
      BY <1>2, ReleaseFields, Zenon
    <2> QED
      BY <2>1, Zenon
  <1>4. Len(conns') = Len(conns) /\ (conns = <<>> => conns' = <<>>)
    <2>1. conns \in Seq(Conn)
      BY <1>2, WholeHas, Zenon DEF Shape, ConnsOK
    <2>2. DOMAIN conns = 1..Len(conns) /\ DOMAIN conns' = 1..Len(conns') /\ Len(conns) \in Nat /\ Len(conns') \in Nat
      BY <1>3, <2>1, LenProperties
    <2>3. Len(conns') = Len(conns)
      BY <1>3, <2>2
    <2> QED
      BY <1>3, <2>1, <2>3, EmptySeq
  <1>5. Phases'
    <2>1. LoopPhases(loops', threadNum_', server')
      BY <1>3, Zenon
    <2>2. server' \in {"joining", "gone"} => DOMAIN connections_' = {}
      BY <1>3 DEF Fine, Phases
    <2>3. /\ server' \in {"new", "up", "posting", "joining", "gone"} /\ threadNum_' \in 0..MaxSubLoops
          /\ nextConnId_' = IF threadNum_' > 0 THEN Len(conns') + 1 ELSE 1
          /\ server' = "new" => conns' = <<>> /\ threadNum_' = 0
      BY <1>4, Zenon DEF Fine, Phases
    <2> QED
      BY <2>1, <2>2, <2>3, Zenon DEF Phases
  <1>6. Line(waiting', conns')
    <2>1. Line(waiting, conns)
      BY Zenon DEF Fine
    <2>2. \A c \in DOMAIN conns' : /\ c \in DOMAIN conns /\ conns'[c].peer = conns[c].peer
                                   /\ conns'[c].hup = conns[c].hup
                                   /\ conns[c].freed = TRUE => conns'[c].freed = TRUE
      BY <1>3
    <2> QED
      BY <2>1, <2>2 DEF Line
  <1> QED
    BY <1>1, <1>5, <1>6, Zenon DEF Fine

\* What Calm gives of that.
LEMMA CalmGives ==
    ASSUME Fine, NEW w, Calm(Whole, w)
    PROVE  /\ \A c \in DOMAIN conns : /\ w.conns[c].peer = conns[c].peer /\ w.conns[c].hup = conns[c].hup
                                      /\ w.conns[c].freed = conns[c].freed
           /\ LoopPhases(w.loops, threadNum_, server)
  <1>1. LoopPhases(loops, threadNum_, server)
    BY Zenon DEF Fine, Phases
  <1>2. \A l \in SubLoops : w.loops[l].phase = loops[l].phase /\ w.loops[l].quit = loops[l].quit
    BY WholeHas, Zenon DEF Calm
  <1>3. \A c \in DOMAIN conns : /\ w.conns[c].peer = conns[c].peer /\ w.conns[c].hup = conns[c].hup
                                /\ w.conns[c].freed = conns[c].freed
    BY WholeHas, Zenon DEF Calm
  <1>4. LoopPhases(w.loops, threadNum_, server)
    BY <1>1, <1>2, Zenon DEF LoopPhases
  <1> QED
    BY <1>3, <1>4

\* The parts of a step add up.
LEMMA CalmAdd ==
    ASSUME NEW w, NEW v, NEW u, Calm(w, v), Calm(v, u), DOMAIN v.conns = DOMAIN w.conns
    PROVE  Calm(w, u)
  BY Zenon DEF Calm

\* A step that fails an assert leaves everything as it is.
LEMMA KnownMisuse ==
    ASSUME Fine, NEW w, NEW f, Misuse(w, f) # {}, server # "new",
           failures' = Misuse(w, f), UNCHANGED <<conns, connections_, base, loops, spare>>, server' = server,
           \A m \in Misuse(w, f) :
               /\ m.at = "Channel::remove" => server # "up" /\ conns[m.conn].state = "kDisconnecting"
               /\ m.at = "server" => conns[m.conn].loop # Base
               /\ m.at \in {"Channel::remove", "server"}
    PROVE  Known'
  <1>1. conns' = conns
    BY Zenon
  <1>2. ASSUME NEW m \in failures'
        PROVE  /\ m.at = "Channel::remove" => server' # "up" /\ conns'[m.conn].state = "kDisconnecting"
               /\ m.at = "server" => conns'[m.conn].loop # Base
               /\ m.at \in {"Channel::remove", "server"}
    BY <1>1, <1>2, Zenon
  <1>3. OnlyKnownFailures'
    BY <1>2 DEF OnlyKnownFailures
  <1> QED
    BY <1>3, Zenon DEF Known

(***************************************************************************)
(* The steps on the listen queue, the descriptors and the phases.          *)
(***************************************************************************)
\* A step that leaves the server alone only has to keep the listen queue in order.
LEMMA LineStep ==
    ASSUME Fine, UNCHANGED serverVars, Line(waiting', conns)
    PROVE  Fine'
  <1>1. /\ failures' = failures /\ server' = server /\ threadNum_' = threadNum_ /\ nextConnId_' = nextConnId_
        /\ conns' = conns /\ connections_' = connections_ /\ base' = base /\ loops' = loops
    BY Zenon DEF serverVars
  <1>2. Whole' = Whole
    BY <1>1, Zenon DEF Whole
  <1>3. Good(Whole', server') /\ Line(waiting', conns')
    BY <1>1, <1>2, Zenon DEF Fine
  <1>4. Phases'
    BY <1>1, Zenon DEF Fine, Phases
  <1> QED
    BY <1>1, <1>3, <1>4, Zenon DEF Fine

\* Connect(): the peer's earlier connections are reset or destroyed.
LEMMA ConnectStep ==
    ASSUME Fine, NEW p \in Peers, Connect(p)
    PROVE  Fine'
  <1>1. /\ p \notin Range(waiting) /\ waiting' = Append(waiting, p) /\ UNCHANGED serverVars
        /\ \A c \in Ids : conns[c].peer = p => conns[c].freed \/ conns[c].hup = "rst"
    BY Zenon DEF Connect
  <1>2. Line(waiting, conns) /\ Shape(Whole)
    BY Zenon DEF Fine, Good
  <1>3. \A c \in DOMAIN conns : conns[c].peer = p => conns[c].freed = TRUE \/ conns[c].hup = "rst"
    <2>1. ASSUME NEW c \in DOMAIN conns PROVE conns[c].freed \in BOOLEAN /\ c \in Ids
      <3>1. conns[c].freed \in BOOLEAN
        BY <1>2, ConnFacts, WholeHas, Zenon
      <3>2. conns \in Seq(Conn)
        BY <1>2, WholeHas, Zenon DEF Shape, ConnsOK
      <3> QED
        BY <3>1, <3>2, LenProperties DEF Ids
    <2> QED
      BY <1>1, <2>1
  <1>4. /\ waiting' \in Seq(Peers) /\ DOMAIN waiting' = 1..(Len(waiting) + 1) /\ Len(waiting) \in Nat
        /\ DOMAIN waiting = 1..Len(waiting)
        /\ \A i \in DOMAIN waiting : waiting'[i] = waiting[i]
        /\ waiting'[Len(waiting) + 1] = p
    BY <1>1, <1>2, AppendProperties, LenProperties DEF Line
  <1>5. \A i \in DOMAIN waiting : waiting[i] # p
    BY <1>1 DEF Range
  <1>6. \A i \in DOMAIN waiting' : i \in DOMAIN waiting \/ i = Len(waiting) + 1
    BY <1>4
  <1>7. Line(waiting', conns)
    BY <1>2, <1>3, <1>4, <1>5, <1>6 DEF Line
  <1> QED
    BY <1>1, <1>7, LineStep, Zenon

\* GiveUp(), and accept(): who comes later keeps its place.
LEMMA FewerWait ==
    ASSUME NEW ps, NEW cs, Line(ps, cs), NEW qs \in Seq(Peers),
           \A i \in DOMAIN qs : \E j \in DOMAIN ps : qs[i] = ps[j],
           \A i, j \in DOMAIN qs : qs[i] = qs[j] => i = j
    PROVE  Line(qs, cs)
  BY DEF Line

\* The queue without the peer that gave up.
LEMMA GiveUpStep ==
    ASSUME Fine, NEW n \in DOMAIN waiting, GiveUp(n)
    PROVE  Fine'
  <1>1. /\ waiting' = [j \in 1..(Len(waiting) - 1) |-> IF j < n THEN waiting[j] ELSE waiting[j + 1]]
        /\ UNCHANGED serverVars
    BY Zenon DEF GiveUp
  <1>2. Line(waiting, conns)
    BY Zenon DEF Fine
  <1>3. /\ waiting \in Seq(Peers) /\ Len(waiting) \in Nat /\ DOMAIN waiting = 1..Len(waiting)
        /\ \A i \in 1..Len(waiting) : waiting[i] \in Peers
        /\ \A i, j \in 1..Len(waiting) : waiting[i] = waiting[j] => i = j
    BY <1>2, LenProperties, ElementOfSeq DEF Line
  <1> DEFINE qs == waiting'  At(i) == IF i < n THEN i ELSE i + 1
  <1>4. /\ DOMAIN qs = 1..(Len(waiting) - 1)
        /\ \A i \in DOMAIN qs : At(i) \in 1..Len(waiting) /\ qs[i] = waiting[At(i)]
        /\ \A i, j \in DOMAIN qs : At(i) = At(j) => i = j
    BY <1>1, <1>3
  <1>5. Len(waiting) - 1 \in Nat /\ waiting' = [j \in 1..(Len(waiting) - 1) |-> waiting'[j]]
    BY <1>1, <1>3
  <1> HIDE DEF At
  <1>6. \A i \in DOMAIN qs : qs[i] \in Peers /\ \E j \in DOMAIN waiting : qs[i] = waiting[j]
    BY <1>3, <1>4
  <1>7. \A i, j \in DOMAIN qs : qs[i] = qs[j] => i = j
    BY <1>3, <1>4
  <1>8. qs \in Seq(Peers)
    <2>1. PICK n1 \in Nat : n1 = Len(waiting) - 1
      BY <1>5
    <2>2. qs \in [1..n1 -> Peers]
      BY <1>4, <1>5, <1>6, <2>1
    <2> HIDE DEF qs
    <2> QED
      BY <2>1, <2>2, SeqDef
  <1>9. Line(waiting', conns)
    <2>1. \A i \in DOMAIN qs : \E j \in DOMAIN waiting : qs[i] = waiting[j]
      BY <1>6
    <2> QED
      BY <1>2, <1>7, <1>8, <2>1, FewerWait
  <1> QED
    BY <1>1, <1>9, LineStep, Zenon

\* What a Tail() leaves of the listen queue.
LEMMA TailWaits ==
    ASSUME NEW ps, NEW cs, Line(ps, cs), ps # <<>>
    PROVE  /\ Line(Tail(ps), cs) /\ Head(ps) \in Peers
           /\ \A i \in DOMAIN Tail(ps) : Tail(ps)[i] # Head(ps)
           /\ \A c \in DOMAIN cs : cs[c].peer = Head(ps) => cs[c].freed = TRUE \/ cs[c].hup = "rst"
  <1>1. /\ Tail(ps) \in Seq(Peers) /\ Head(ps) = ps[1] /\ Len(ps) \in Nat /\ Len(ps) # 0
        /\ Len(Tail(ps)) = Len(ps) - 1
        /\ \A i \in 1..Len(Tail(ps)) : Tail(ps)[i] = ps[i + 1]
    BY HeadTailProperties, EmptySeq, LenProperties DEF Line
  <1>2. DOMAIN ps = 1..Len(ps) /\ DOMAIN Tail(ps) = 1..Len(Tail(ps)) /\ ps[1] \in Peers
    BY <1>1, LenProperties, ElementOfSeq DEF Line
  <1>3. \A i \in DOMAIN Tail(ps) : i + 1 \in DOMAIN ps /\ i + 1 # 1 /\ Tail(ps)[i] = ps[i + 1]
    BY <1>1, <1>2
  <1>4. \A i, j \in DOMAIN ps : ps[i] = ps[j] => i = j
    BY DEF Line
  <1>5. 1 \in DOMAIN ps
    BY <1>1, <1>2
  <1>6. \A i, j \in DOMAIN Tail(ps) : Tail(ps)[i] = Tail(ps)[j] => i = j
    BY <1>2, <1>3, <1>4
  <1>7. Line(Tail(ps), cs)
    <2>1. \A i \in DOMAIN Tail(ps) : \E j \in DOMAIN ps : Tail(ps)[i] = ps[j]
      BY <1>3
    <2> QED
      BY <1>1, <1>6, <2>1, FewerWait, Zenon
  <1> QED
    BY <1>1, <1>2, <1>3, <1>4, <1>5, <1>7 DEF Line

\* The steps of the Acceptor that find no descriptor, and those of the rest of the process.
LEMMA AcceptorStep ==
    ASSUME Fine, AcceptFails \/ AcceptAgain \/ TurnAway \/ Reopen \/ OpenOther \/ CloseOther \/ UNCHANGED vars
    PROVE  Fine'
  <1>1. Line(waiting, conns)
    BY Zenon DEF Fine
  <1>2. UNCHANGED serverVars /\ (waiting' = waiting \/ (waiting # <<>> /\ waiting' = Tail(waiting)))
    <2>1. CASE AcceptAgain
      BY <2>1, Zenon DEF AcceptAgain
    <2>2. CASE AcceptFails \/ TurnAway \/ Reopen \/ OpenOther \/ CloseOther
      BY <2>2, Zenon DEF AcceptFails, TurnAway, Reopen, OpenOther, CloseOther
    <2>3. CASE UNCHANGED vars
      BY <2>3, Zenon DEF vars
    <2> QED
      BY <2>1, <2>2, <2>3, Zenon
  <1>3. Line(waiting', conns)
    BY <1>1, <1>2, TailWaits, Zenon
  <1> QED
    BY <1>2, <1>3, LineStep, Zenon

\* When the server goes down less is asked of a connection.
LEMMA LifeDown ==
    ASSUME NEW w, NEW s, NEW t, Good(w, s), Up(t) => Up(s)
    PROVE  Good(w, t)
  BY Zenon DEF Good, Life

\* The steps of ~TcpServer() that touch neither a connection nor a queue.
LEMMA PhaseStep ==
    ASSUME Fine, Destroy \/ Posted \/ Joined
    PROVE  Fine'
  <1>1. /\ failures' = failures /\ threadNum_' = threadNum_ /\ nextConnId_' = nextConnId_
        /\ conns' = conns /\ connections_' = connections_ /\ base' = base /\ loops' = loops
        /\ waiting' = waiting
    BY Zenon DEF Destroy, Posted, Joined
  <1>2. Whole' = Whole
    BY <1>1, Zenon DEF Whole
  <1>3. server' \in {"posting", "joining", "gone"}
    BY Zenon DEF Destroy, Posted, Joined
  <1>4. ~Up(server')
    BY <1>3 DEF Up
  <1>5. Good(Whole', server') /\ Line(waiting', conns')
    BY <1>1, <1>2, <1>4, LifeDown, Zenon DEF Fine
  <1>6. Phases /\ Shape(Whole)
    BY Zenon DEF Fine, Good
  <1>7. LoopPhases(loops, threadNum_, server')
    <2>1. LoopPhases(loops, threadNum_, server)
      BY <1>6 DEF Phases
    <2>2. CASE Destroy \/ Posted
      <3>1. server # "joining" /\ server' # "gone"
        BY <2>2 DEF Destroy, Posted
      <3> QED
        BY <2>1, <3>1 DEF LoopPhases
    <2>3. CASE Joined
      <3>1. server' = "gone" /\ \A l \in 1..threadNum_ : loops[l].phase = "exited"
        BY <2>3 DEF Joined
      <3>2. \A l \in SubLoops : l \in 1..threadNum_ \/ l > threadNum_
        BY <1>6, TcpServerAssumption DEF Phases, SubLoops
      <3>3. \A l \in SubLoops : loops[l].phase \in {"none", "exited"}
        BY <2>1, <3>1, <3>2 DEF LoopPhases
      <3>4. \A l \in SubLoops : loops[l].quit = TRUE => loops[l].phase = "exited"
        <4> TAKE l \in SubLoops
        <4>1. CASE l \in 1..threadNum_
          BY <3>1, <4>1
        <4>2. CASE l > threadNum_
          <5>1. server = "joining"
            BY <2>3 DEF Joined
          <5> QED
            BY <2>1, <4>2, <5>1 DEF LoopPhases
        <4> QED
          BY <3>2, <4>1, <4>2, Zenon
      <3> QED
        BY <2>1, <3>1, <3>3, <3>4 DEF LoopPhases
    <2> QED
      BY <2>2, <2>3
  <1>8. server' \in {"joining", "gone"} => DOMAIN connections_ = {}
    <2>1. CASE Destroy
      BY <2>1 DEF Destroy
    <2>2. CASE Posted
      BY <2>2 DEF Posted
    <2>3. CASE Joined
      BY <1>6, <2>3 DEF Joined, Phases
    <2> QED
      BY <2>1, <2>2, <2>3
  <1>9. Phases'
    BY <1>1, <1>3, <1>6, <1>7, <1>8 DEF Phases
  <1> QED
    BY <1>1, <1>5, <1>9, Zenon DEF Fine

\* A step that touches connections and sub-loops but not the map, and fails no assert.
LEMMA Touched ==
    ASSUME Fine, Good(Whole', server), DOMAIN conns' = DOMAIN conns, connections_' = connections_,
           \A c \in DOMAIN conns : /\ conns'[c].peer = conns[c].peer /\ conns'[c].freed = conns[c].freed
                                   /\ conns[c].hup = "rst" => conns'[c].hup = "rst",
           LoopPhases(loops', threadNum_, server), failures' = failures,
           threadNum_' = threadNum_, nextConnId_' = nextConnId_, server' = server, waiting' = waiting
    PROVE  Fine'
  <1>1. Phases /\ Line(waiting, conns) /\ failures = {} /\ Shape(Whole) /\ Shape(Whole')
    BY Zenon DEF Fine, Good
  <1>2. Len(conns') = Len(conns) /\ (conns = <<>> => conns' = <<>>)
    <2>1. conns \in Seq(Conn) /\ conns' \in Seq(Conn)
      BY <1>1, WholeHas, Zenon DEF Shape, ConnsOK
    <2>2. DOMAIN conns = 1..Len(conns) /\ DOMAIN conns' = 1..Len(conns') /\ Len(conns) \in Nat /\ Len(conns') \in Nat
      BY <2>1, LenProperties
    <2>3. Len(conns') = Len(conns)
      BY <2>2
    <2> QED
      BY <2>1, <2>3, EmptySeq
  <1>3. Phases'
    <2>1. LoopPhases(loops', threadNum_', server')
      BY Zenon
    <2> QED
      BY <1>1, <1>2, <2>1 DEF Phases
  <1>4. Line(waiting', conns')
    BY <1>1 DEF Line
  <1>5. Good(Whole', server')
    BY Zenon
  <1> QED
    BY <1>1, <1>3, <1>4, <1>5, Zenon DEF Fine

\* shutdown() of a connection, and what its peer does, leave it at the same point of its life.
LEMMA LifeMoved ==
    ASSUME NEW w, NEW v, NEW s, NEW c, Life(w, s, c),
           \/ v.conns[c].state = w.conns[c].state
           \/ w.conns[c].state = "kConnected" /\ v.conns[c].state = "kDisconnecting",
           v.conns[c].loop = w.conns[c].loop, v.conns[c].removed = w.conns[c].removed,
           v.conns[c].freed = w.conns[c].freed, v.loops = w.loops,
           InMap(v, c) <=> InMap(w, c), InBase(v, Remove(c)) <=> InBase(w, Remove(c)),
           Due(v, Established(c), c) <=> Due(w, Established(c), c),
           Due(v, Destroyed(c), c) <=> Due(w, Destroyed(c), c)
    PROVE  Life(v, s, c)
  <1>1. CASE v.conns[c].state = w.conns[c].state
    BY <1>1, Zenon DEF Life
  <1>2. CASE w.conns[c].state = "kConnected" /\ v.conns[c].state = "kDisconnecting"
    BY <1>2 DEF Life
  <1> QED
    BY <1>1, <1>2

\* One connection changes its state or hears its peer hang up, nothing else happens.
LEMMA ConnStep ==
    ASSUME Fine, NEW c \in DOMAIN conns, NEW k, k \in Conn, k.peer = conns[c].peer, k.name = conns[c].name,
           k.loop = conns[c].loop, k.removed = conns[c].removed, k.freed = conns[c].freed,
           \/ k.state = conns[c].state
           \/ conns[c].state = "kConnected" /\ k.state = "kDisconnecting",
           conns[c].hup = "rst" => k.hup = "rst",
           conns' = [conns EXCEPT ![c] = k],
           UNCHANGED <<threadNum_, nextConnId_, connections_, base, loops, server, failures, waiting>>
    PROVE  Fine'
  <1>1. Good(Whole, server) /\ Phases /\ Shape(Whole)
    BY Zenon DEF Fine, Good
  <1>2. /\ Others(Whole, Whole', c) /\ Whole'.conns[c] = k
        /\ InMap(Whole', c) <=> InMap(Whole, c)
        /\ \A g : InBase(Whole', g) <=> InBase(Whole, g)
        /\ \A g : Due(Whole', g, c) <=> Due(Whole, g, c)
    <2> DEFINE w == Whole  v == Whole'
    <2>1. /\ c \in DOMAIN w.conns /\ k.peer = w.conns[c].peer /\ k.name = w.conns[c].name
          /\ k.loop = w.conns[c].loop /\ v = [x \in Fields |-> v[x]] /\ v.conns = [w.conns EXCEPT ![c] = k]
          /\ v.map = w.map /\ v.base = w.base /\ v.loops = w.loops /\ Shape(w)
      BY <1>1, WholeHas, Zenon
    <2> HIDE DEF w, v
    <2>2. /\ Others(w, v, c)
          /\ k.hup = w.conns[c].hup /\ k.freed = w.conns[c].freed => Calm(w, v)
          /\ v.conns[c] = k
          /\ InMap(v, c) <=> InMap(w, c)
          /\ \A g : InBase(v, g) <=> InBase(w, g)
          /\ \A g : Due(v, g, c) <=> Due(w, g, c)
      <3>1. AssignsConn(w, c, k, v)
        BY <2>1, Zenon DEF AssignsConn
      <3>2. ConnIsAssigned(w, c, k, v)
        BY <3>1, ConnIs, Zenon
      <3> QED
        BY <3>2, Zenon DEF ConnIsAssigned
    <2> QED
      BY <2>2, Zenon DEF w, v
  <1>3. Life(Whole', server, c)
    <2>1. Life(Whole, server, c) /\ Whole'.loops = Whole.loops /\ Whole.conns = conns
      BY <1>1, WholeHas, Zenon DEF Good
    <2> QED
      BY <1>2, <2>1, LifeMoved, Zenon
  <1>4. Good(Whole', server)
    BY <1>1, <1>2, <1>3, GoodFrom, Zenon
  <1>5. /\ DOMAIN conns' = DOMAIN conns
        /\ \A x \in DOMAIN conns : /\ conns'[x].peer = conns[x].peer /\ conns'[x].freed = conns[x].freed
                                   /\ conns[x].hup = "rst" => conns'[x].hup = "rst"
    <2>1. DOMAIN conns' = DOMAIN conns /\ conns'[c] = k /\ \A x \in DOMAIN conns : x # c => conns'[x] = conns[x]
      OBVIOUS
    <2> QED
      BY <2>1, Zenon
  <1>6. LoopPhases(loops', threadNum_, server)
    BY <1>1, Zenon DEF Phases
  <1> QED
    BY <1>4, <1>5, <1>6, Touched, Zenon

\* The parts of Fine that the steps use.
LEMMA IdsAre ==
    ASSUME Fine
    PROVE  /\ Ids = DOMAIN conns /\ conns \in Seq(Conn) /\ \A c \in DOMAIN conns : conns[c] \in Conn /\ c \in Nat
           /\ Shape(Whole) /\ failures = {}
           /\ \A c \in DOMAIN conns : Life(Whole, server, c)
           /\ \A l \in SubLoops : LoopType(loops[l]) /\ Once(loops[l]) /\ OwnFunctors(Whole, l)
           /\ loops = [l \in SubLoops |-> loops[l]]
  <1>1. Shape(Whole) /\ failures = {} /\ \A c \in DOMAIN conns : Life(Whole, server, c)
    BY WholeHas, Zenon DEF Fine, Good
  <1>2. conns \in Seq(Conn)
    BY <1>1, WholeHas, Zenon DEF Shape, ConnsOK
  <1>3. Ids = DOMAIN conns /\ \A c \in DOMAIN conns : conns[c] \in Conn /\ c \in Nat
    BY <1>2, LenProperties, ElementOfSeq DEF Ids
  <1>4. /\ \A l \in SubLoops : LoopType(loops[l]) /\ Once(loops[l]) /\ OwnFunctors(Whole, l)
        /\ loops = [l \in SubLoops |-> loops[l]]
    BY <1>1, WholeHas, Zenon DEF Shape, LoopsOK
  <1> QED
    BY <1>1, <1>2, <1>3, <1>4, Zenon

\* shutdown(), output, the end of the stream before it is sent, and a peer that hangs up.
LEMMA MovedStep ==
    ASSUME Fine, NEW c \in Ids,
           \/ Shutdown(c) \/ HalfClosed(c) \/ Send(c) \/ handleWrite(c)
           \/ \E how \in {"fin", "rst"} : HangUp(c, how)
    PROVE  Fine'
  <1>1. c \in DOMAIN conns /\ conns[c] \in Conn
    BY IdsAre, Zenon
  <1>2. CASE Shutdown(c) \/ HalfClosed(c)
    <2> DEFINE k == [conns[c] EXCEPT !.state = "kDisconnecting"]
    <2>1. /\ conns[c].state = "kConnected" /\ conns' = [conns EXCEPT ![c].state = "kDisconnecting"]
          /\ UNCHANGED <<threadNum_, nextConnId_, connections_, base, loops, server, failures, waiting>>
      BY <1>2, Zenon DEF Shutdown, HalfClosed
    <2>2. conns' = [conns EXCEPT ![c] = k]
      BY <2>1
    <2>3. /\ k \in Conn /\ k.peer = conns[c].peer /\ k.name = conns[c].name /\ k.loop = conns[c].loop
          /\ k.removed = conns[c].removed /\ k.freed = conns[c].freed /\ k.hup = conns[c].hup
          /\ k.state = "kDisconnecting"
      BY <1>1 DEF Conn, States
    <2> HIDE DEF k
    <2>4. /\ conns[c].hup = "rst" => k.hup = "rst"
          /\ conns[c].state = "kConnected" /\ k.state = "kDisconnecting"
          /\ UNCHANGED <<threadNum_, nextConnId_, connections_, base, loops, server, failures, waiting>>
      BY <2>1, <2>3
    <2> QED
      BY <1>1, <2>2, <2>3, <2>4, ConnStep, Zenon
  <1>3. ASSUME NEW how \in {"fin", "rst"}, HangUp(c, how) PROVE Fine'
    <2> DEFINE k == [conns[c] EXCEPT !.hup = how]
    <2>1. /\ conns[c].hup = "no" \/ (conns[c].hup = "fin" /\ how = "rst")
          /\ conns' = [conns EXCEPT ![c].hup = how]
          /\ UNCHANGED <<threadNum_, nextConnId_, connections_, base, loops, server, failures, waiting>>
      BY <1>3, Zenon DEF HangUp
    <2>2. conns' = [conns EXCEPT ![c] = k]
      BY <2>1
    <2>3. /\ k \in Conn /\ k.peer = conns[c].peer /\ k.name = conns[c].name /\ k.loop = conns[c].loop
          /\ k.removed = conns[c].removed /\ k.freed = conns[c].freed /\ k.state = conns[c].state
      BY <1>1, <1>3 DEF Conn, States
    <2>4. conns[c].hup # "rst"
      BY <2>1
    <2> HIDE DEF k
    <2> QED
      BY <1>1, <2>1, <2>2, <2>3, <2>4, ConnStep, Zenon
  <1>4. CASE Send(c) \/ handleWrite(c)
    <2>1. PICK b \in BOOLEAN :
              /\ conns' = [conns EXCEPT ![c].output = b]
              /\ UNCHANGED <<threadNum_, nextConnId_, connections_, base, loops, server, failures, waiting>>
      BY <1>4, Zenon DEF Send, handleWrite
    <2> DEFINE k == [conns[c] EXCEPT !.output = b]
    <2>2. conns' = [conns EXCEPT ![c] = k]
      BY <2>1
    <2>3. /\ k \in Conn /\ k.peer = conns[c].peer /\ k.name = conns[c].name /\ k.loop = conns[c].loop
          /\ k.removed = conns[c].removed /\ k.freed = conns[c].freed /\ k.state = conns[c].state
          /\ k.hup = conns[c].hup
      BY <1>1 DEF Conn, States
    <2> HIDE DEF k
    <2> QED
      BY <1>1, <2>1, <2>2, <2>3, ConnStep, Zenon
  <1> QED
    BY <1>2, <1>3, <1>4

\* A step of sub-loop l that takes nothing out of its queue and puts nothing in.
LEMMA LoopStep ==
    ASSUME Fine, NEW l \in SubLoops, NEW r, LoopType(r), Once(r),
           \A i \in DOMAIN r.pending : OfLoop(Whole, l, r.pending[i]),
           \A i \in DOMAIN r.batch : OfLoop(Whole, l, r.batch[i]),
           \A g : Waits(r, g) <=> Waits(loops[l], g), \A x : After(loops[l], x) => After(r, x),
           loops' = [loops EXCEPT ![l] = r],
           l > threadNum_ => r.phase = "none" /\ r.quit = FALSE,
           r.quit = TRUE => server = "joining" \/ r.phase = "exited",
           server = "gone" => r.phase \notin {"poll", "functors"},
           UNCHANGED <<threadNum_, nextConnId_, connections_, conns, base, server, failures, waiting>>
    PROVE  Fine'
  <1>1. Good(Whole, server) /\ Phases /\ Shape(Whole)
    BY Zenon DEF Fine, Good
  <1> DEFINE w == Whole  v == Whole'
  <1>2. PICK c : c \notin DOMAIN conns
    <2>1. DOMAIN conns \subseteq Nat
      BY IdsAre
    <2> QED
      BY <2>1
  <1>3. /\ v = [x \in Fields |-> v[x]] /\ v.loops = [w.loops EXCEPT ![l] = r]
        /\ v.conns = w.conns /\ v.map = w.map /\ v.base = w.base /\ Shape(w)
        /\ w.conns = conns /\ w.loops = loops
    BY <1>1, WholeHas, Zenon
  <1>4. /\ \A i \in DOMAIN r.pending : OfLoop(w, l, r.pending[i])
        /\ \A i \in DOMAIN r.batch : OfLoop(w, l, r.batch[i])
    BY Zenon
  <1> HIDE DEF w, v
  <1>5. \A x : x # c => /\ Waits(r, Established(x)) <=> Waits(w.loops[l], Established(x))
                        /\ Waits(r, Destroyed(x)) <=> Waits(w.loops[l], Destroyed(x))
                        /\ After(w.loops[l], x) => After(r, x)
    BY <1>3, Zenon
  <1>6. /\ Others(w, v, c)
        /\ r.phase = w.loops[l].phase /\ r.quit = w.loops[l].quit => Calm(w, v)
        /\ v.loops[l] = r
        /\ InMap(v, c) <=> InMap(w, c)
        /\ \A g : InBase(v, g) <=> InBase(w, g)
        /\ w.conns[c].loop = l => \A g : Due(v, g, c) <=> Waits(r, g)
    BY <1>3, <1>4, <1>5, LoopAssigned, Zenon
  <1>7. Good(Whole', server)
    <2>1. Good(w, server) /\ c \notin DOMAIN w.conns
      BY <1>1, <1>2, <1>3, Zenon DEF w
    <2>2. Good(v, server)
      BY <1>6, <2>1, GoodFrom, Zenon
    <2> QED
      BY <2>2 DEF v
  <1>8. LoopPhases(loops', threadNum_, server)
    <2>1. LoopPhases(loops, threadNum_, server)
      BY <1>1, Zenon DEF Phases
    <2>2. \A m \in SubLoops : loops'[m] = IF m = l THEN r ELSE loops[m]
      BY IdsAre
    <2> QED
      BY <2>1, <2>2 DEF LoopPhases
  <1>9. /\ DOMAIN conns' = DOMAIN conns
        /\ \A x \in DOMAIN conns : /\ conns'[x].peer = conns[x].peer /\ conns'[x].freed = conns[x].freed
                                   /\ conns[x].hup = "rst" => conns'[x].hup = "rst"
    BY Zenon
  <1> QED
    BY <1>7, <1>8, <1>9, Touched, Zenon

\* What OwnFunctors and LoopPhases say of one sub-loop.
LEMMA LoopHas ==
    ASSUME Fine, NEW l \in SubLoops
    PROVE  /\ \A i \in DOMAIN loops[l].pending : OfLoop(Whole, l, loops[l].pending[i])
           /\ \A i \in DOMAIN loops[l].batch : OfLoop(Whole, l, loops[l].batch[i])
           /\ l > threadNum_ => loops[l].phase = "none" /\ loops[l].quit = FALSE
           /\ loops[l].quit = TRUE => server = "joining" \/ loops[l].phase = "exited"
           /\ server = "gone" => loops[l].phase \notin {"poll", "functors"}
  <1>1. OwnFunctors(Whole, l) /\ Whole.loops = loops
    BY IdsAre, WholeHas, Zenon
  <1>2. LoopPhases(loops, threadNum_, server)
    BY Zenon DEF Fine, Phases
  <1>3. /\ \A i \in DOMAIN loops[l].pending : OfLoop(Whole, l, loops[l].pending[i])
        /\ \A i \in DOMAIN loops[l].batch : OfLoop(Whole, l, loops[l].batch[i])
    BY <1>1, Zenon DEF OwnFunctors
  <1> QED
    BY <1>2, <1>3, Zenon DEF LoopPhases

\* A sub-loop swaps out its functors.
LEMMA SwapStep ==
    ASSUME Fine, NEW l \in SubLoops, Swap(l)
    PROVE  Fine'
  <1> DEFINE q == loops[l]
             r == [q EXCEPT !.phase = "functors", !.batch = q.pending, !.next = 1, !.pending = <<>>]
  <1>1. /\ q.phase = "poll"
        /\ loops' = [loops EXCEPT ![l].phase = "functors", ![l].batch = loops[l].pending,
                                  ![l].next = 1, ![l].pending = <<>>]
        /\ UNCHANGED <<threadNum_, nextConnId_, connections_, conns, base, server, failures, waiting>>
    BY Zenon DEF Swap
  <1>2. LoopType(q) /\ Once(q) /\ loops = [m \in SubLoops |-> loops[m]]
    BY IdsAre, Zenon
  <1>3. loops' = [loops EXCEPT ![l] = r]
    BY <1>1, <1>2, Zenon
  <1>4. UNCHANGED <<threadNum_, nextConnId_, connections_, conns, base, server, failures, waiting>>
    BY <1>1, Zenon
  <1>5. /\ \A i \in DOMAIN q.pending : OfLoop(Whole, l, q.pending[i])
        /\ l > threadNum_ => q.phase = "none" /\ q.quit = FALSE
        /\ q.quit = TRUE => server = "joining" \/ q.phase = "exited"
        /\ server = "gone" => q.phase \notin {"poll", "functors"}
    BY LoopHas, Zenon
  <1>6. q.phase # "functors"
    BY <1>1
  <1>7. /\ LoopType(r) /\ Once(r) /\ r.quit = q.quit /\ r.phase = "functors"
        /\ r.batch = q.pending /\ r.pending = <<>>
        /\ \A g : Waits(r, g) <=> Waits(q, g)
        /\ \A c : After(q, c) => After(r, c)
    BY <1>2, <1>6, SwappedInLoop, Zenon
  <1> HIDE DEF r
  <1>8. /\ \A i \in DOMAIN r.pending : OfLoop(Whole, l, r.pending[i])
        /\ \A i \in DOMAIN r.batch : OfLoop(Whole, l, r.batch[i])
    <2>1. DOMAIN r.pending = {}
      BY <1>7
    <2> QED
      BY <1>5, <1>7, <2>1, Zenon
  <1>9. /\ l > threadNum_ => r.phase = "none" /\ r.quit = FALSE
        /\ r.quit = TRUE => server = "joining" \/ r.phase = "exited"
        /\ server = "gone" => r.phase \notin {"poll", "functors"}
    BY <1>1, <1>5, <1>7
  <1> QED
    BY <1>3, <1>4, <1>7, <1>8, <1>9, LoopStep, Zenon

\* ~EventLoopThread() tells a sub-loop to quit.
LEMMA QuitStep ==
    ASSUME Fine, NEW l \in SubLoops, QuitLoop(l)
    PROVE  Fine'
  <1> DEFINE q == loops[l]  r == [q EXCEPT !.quit = TRUE]
  <1>1. /\ server = "joining" /\ l <= threadNum_ /\ loops' = [loops EXCEPT ![l].quit = TRUE]
        /\ UNCHANGED <<threadNum_, nextConnId_, connections_, conns, base, server, failures, waiting>>
    BY Zenon DEF QuitLoop
  <1>2. LoopType(q) /\ Once(q)
    BY IdsAre, Zenon
  <1>3. loops' = [loops EXCEPT ![l] = r]
    BY <1>1
  <1>4. UNCHANGED <<threadNum_, nextConnId_, connections_, conns, base, server, failures, waiting>>
    BY <1>1, Zenon
  <1>5. /\ \A i \in DOMAIN q.pending : OfLoop(Whole, l, q.pending[i])
        /\ \A i \in DOMAIN q.batch : OfLoop(Whole, l, q.batch[i])
    BY LoopHas, Zenon
  <1>6. /\ r.pending = q.pending /\ r.batch = q.batch /\ r.next = q.next /\ r.phase = q.phase /\ r.quit = TRUE
        /\ r = [phase |-> r.phase, pending |-> r.pending, batch |-> r.batch, next |-> r.next, quit |-> r.quit]
    <2>1. q = [phase |-> q.phase, pending |-> q.pending, batch |-> q.batch, next |-> q.next, quit |-> q.quit]
      BY <1>2 DEF LoopType
    <2> HIDE DEF q
    <2>2. r = [phase |-> q.phase, pending |-> q.pending, batch |-> q.batch, next |-> q.next, quit |-> TRUE]
      <3>1. \A b : [q EXCEPT !.quit = b]
                      = [phase |-> q.phase, pending |-> q.pending, batch |-> q.batch, next |-> q.next, quit |-> b]
        BY <2>1
      <3> QED
        BY <3>1, Zenon
    <2> HIDE DEF r
    <2> QED
      BY <2>2
  <1> HIDE DEF r
  <1>7. LoopType(r)
    BY <1>2, <1>6, Zenon DEF LoopType
  <1>8. Once(r) /\ (\A g : Waits(r, g) <=> Waits(q, g)) /\ (\A c : After(q, c) => After(r, c))
    <2> HIDE DEF q
    <2>1. Once(r)
      BY <1>2, <1>6 DEF Once
    <2>2. \A g : Waits(r, g) <=> Waits(q, g)
      BY <1>6 DEF Waits
    <2>3. \A c : After(q, c) => After(r, c)
      BY <1>6 DEF After
    <2> QED
      BY <2>1, <2>2, <2>3
  <1>9. /\ \A i \in DOMAIN r.pending : OfLoop(Whole, l, r.pending[i])
        /\ \A i \in DOMAIN r.batch : OfLoop(Whole, l, r.batch[i])
    BY <1>5, <1>6, Zenon
  <1>10. ~(l > threadNum_)
    <2>1. threadNum_ \in Nat /\ l \in Nat
      BY TcpServerAssumption DEF Fine, Phases, SubLoops
    <2> QED
      BY <1>1, <2>1
  <1>11. server # "gone"
    BY <1>1
  <1> QED
    BY <1>1, <1>3, <1>4, <1>7, <1>8, <1>9, <1>10, <1>11, LoopStep, Zenon

\* start(): nobody is connected yet, and the sub-loops begin empty.
LEMMA StartStep ==
    ASSUME Fine, NEW n \in {0} \cup SubLoops, start(n)
    PROVE  Fine'
  <1>1. /\ server = "new" /\ server' = "up" /\ threadNum_' = n
        /\ loops' = [l \in SubLoops |-> IF l <= n THEN NewLoop ELSE loops[l]]
        /\ UNCHANGED <<nextConnId_, connections_, conns, base, failures, waiting>>
    BY Zenon DEF start
  <1>2. Phases /\ Shape(Whole) /\ Line(waiting, conns) /\ failures = {}
    BY Zenon DEF Fine, Good
  <1>3. conns = <<>> /\ threadNum_ = 0 /\ nextConnId_ = 1
    BY <1>1, <1>2 DEF Phases
  <1>4. DOMAIN conns = {} /\ Len(conns) = 0
    BY <1>3
  <1>5. \A l \in SubLoops : loops'[l] = NewLoop \/ loops'[l] = loops[l]
    BY <1>1
  <1>6. LoopType(NewLoop) /\ Once(NewLoop) /\ DOMAIN NewLoop.pending = {} /\ DOMAIN NewLoop.batch = {}
    <2>1. /\ NewLoop.phase = "poll" /\ NewLoop.pending = <<>> /\ NewLoop.batch = <<>> /\ NewLoop.next = 1
          /\ NewLoop.quit = FALSE
          /\ NewLoop = [phase |-> NewLoop.phase, pending |-> NewLoop.pending, batch |-> NewLoop.batch,
                        next |-> NewLoop.next, quit |-> NewLoop.quit]
      BY DEF NewLoop
    <2>2. <<>> \in Seq(Functor) /\ Len(<<>>) = 0
      BY EmptySeq
    <2> HIDE DEF NewLoop
    <2>3. NewLoop.next \in 1..(Len(NewLoop.batch) + 1) /\ DOMAIN NewLoop.pending = {} /\ DOMAIN NewLoop.batch = {}
      BY <2>1, <2>2
    <2>4. LoopType(NewLoop)
      BY <2>1, <2>2, <2>3, Zenon DEF LoopType
    <2>5. Once(NewLoop)
      BY <2>3, Zenon DEF Once
    <2> QED
      BY <2>3, <2>4, <2>5
  <1> HIDE DEF NewLoop
  <1>7. Shape(Whole')
    <2> DEFINE w == Whole  v == Whole'
    <2>1. /\ v = [x \in Fields |-> v[x]] /\ v.loops = loops' /\ w.loops = loops /\ w.conns = conns
          /\ v.conns = w.conns /\ v.map = w.map /\ v.base = w.base /\ Shape(w)
      BY <1>1, <1>2, WholeHas, Zenon
    <2> HIDE DEF w, v
    <2>2. /\ v.map = w.map => MapOK(v)
          /\ v.base = w.base => BaseOK(v)
          /\ \A l, f : OfLoop(w, l, f) => OfLoop(v, l, f)
      BY <2>1, Frame, Zenon
    <2>3. MapOK(v) /\ BaseOK(v) /\ ConnsOK(v)
      BY <2>1, <2>2, Zenon DEF Shape, ConnsOK
    <2>4. LoopsOK(v)
      <3>1. v.loops = [l \in SubLoops |-> v.loops[l]]
        BY <1>1, <2>1
      <3>2. ASSUME NEW l \in SubLoops PROVE LoopType(v.loops[l]) /\ Once(v.loops[l]) /\ OwnFunctors(v, l)
        <4>1. CASE v.loops[l] = NewLoop
          BY <1>6, <4>1, Zenon DEF OwnFunctors
        <4>2. CASE v.loops[l] = w.loops[l]
          <5>1. LoopType(w.loops[l]) /\ Once(w.loops[l]) /\ OwnFunctors(w, l)
            BY <2>1, Zenon DEF Shape, LoopsOK
          <5> QED
            BY <2>2, <4>2, <5>1, Zenon DEF OwnFunctors
        <4> QED
          BY <1>5, <2>1, <4>1, <4>2, Zenon
      <3> QED
        BY <3>1, <3>2, Zenon DEF LoopsOK
    <2>5. Shape(v)
      BY <2>1, <2>3, <2>4, Zenon DEF Shape
    <2> QED
      BY <2>5 DEF v
  <1>8. Good(Whole', server')
    <2>1. DOMAIN Whole'.conns = {}
      BY <1>1, <1>4, WholeHas, Zenon
    <2> QED
      BY <1>7, <2>1, Zenon DEF Good
  <1>9. LoopPhases(loops', threadNum_', server')
    <2>1. \A l \in SubLoops : loops[l].phase = "none" /\ loops[l].quit = FALSE
      <3>1. \A l \in SubLoops : l > threadNum_
        BY <1>3 DEF SubLoops
      <3> QED
        BY <3>1, LoopHas, Zenon
    <2>2. NewLoop.quit = FALSE
      BY DEF NewLoop
    <2>3. ASSUME NEW l \in SubLoops
          PROVE  /\ l > n => loops'[l].phase = "none" /\ loops'[l].quit = FALSE
                 /\ loops'[l].quit = FALSE
      <3>1. l \in Nat /\ n \in Nat
        BY TcpServerAssumption DEF SubLoops
      <3>2. l > n => loops'[l] = loops[l]
        BY <1>1, <3>1
      <3>3. loops'[l].quit = FALSE
        BY <1>5, <2>1, <2>2, Zenon
      <3> QED
        BY <2>1, <3>2, <3>3, Zenon
    <2>4. server' # "gone"
      BY <1>1
    <2>5. ASSUME NEW l \in SubLoops PROVE loops'[l].quit # TRUE
      <3>1. loops'[l].quit = FALSE
        BY <2>3, Zenon
      <3> QED
        BY <3>1, Zenon
    <2> QED
      BY <1>1, <2>3, <2>4, <2>5, Zenon DEF LoopPhases
  <1>10. Phases'
    <2>1. n \in 0..MaxSubLoops
      BY TcpServerAssumption DEF SubLoops
    <2> QED
      BY <1>1, <1>3, <1>4, <1>9, <2>1 DEF Phases
  <1>11. failures' = {} /\ Line(waiting', conns')
    BY <1>1, <1>2, Zenon
  <1> QED
    BY <1>8, <1>10, <1>11, Zenon DEF Fine

(***************************************************************************)
(* What the functors do to a record of the whole.                          *)
(***************************************************************************)
\* removeConnectionInLoop(), and what ~TcpServer() does with a connection of a sub-loop.
LEMMA RemoveRun ==
    ASSUME NEW w, Shape(w), NEW c \in DOMAIN w.conns, InMap(w, c), ~Due(w, Destroyed(c), c),
           NEW v, v = removeConnectionInLoop(w, c)
    PROVE  /\ Others(w, v, c) /\ Calm(w, v) /\ v.conns = w.conns /\ DOMAIN v.map \subseteq DOMAIN w.map
           /\ ~InMap(v, c)
           /\ InBase(v, Remove(c)) <=> InBase(w, Remove(c))
           /\ \A g : Due(v, g, c) <=> Due(w, g, c) \/ g = Destroyed(c)
           /\ w.conns[c].loop # Base /\ After(w.loops[w.conns[c].loop], c) /\ Due(w, Established(c), c)
              => After(v.loops[w.conns[c].loop], c)
  <1> DEFINE name == w.conns[c].name
             u == [w EXCEPT !.map = Without(w.map, name)]
  <1>1. v = Queue(u, "connectDestroyed", c)
    BY Zenon DEF removeConnectionInLoop
  <1>2. w = [x \in Fields |-> w[x]]
    BY Zenon DEF Shape
  <1>3. /\ u = [x \in Fields |-> u[x]] /\ u.map = Without(w.map, name)
        /\ u.conns = w.conns /\ u.base = w.base /\ u.loops = w.loops
    BY <1>2 DEF Fields
  <1> HIDE DEF u
  <1>4. /\ \A d : (name \in DOMAIN w.map => d = w.map[name]) => Others(w, u, d)
        /\ \A x : InMap(u, x) <=> InMap(w, x) /\ w.conns[x].name # name
        /\ \A g, x : Due(u, g, x) <=> Due(w, g, x)
        /\ \A g : InBase(u, g) <=> InBase(w, g)
    BY <1>3, MapErased, Zenon
  <1>5. Others(w, u, c)
    BY <1>4, Zenon DEF InMap
  <1>6. Shape(u) /\ c \in DOMAIN u.conns /\ ~Due(u, <<"connectDestroyed", c>>, c)
    BY <1>3, <1>4, <1>5, Zenon DEF Others, Destroyed
  <1>7. "connectDestroyed" \in {"connectEstablished", "connectDestroyed"}
    OBVIOUS
  <1>8. /\ Others(u, v, c) /\ Calm(u, v)
        /\ v.conns = u.conns /\ v.map = u.map
        /\ InMap(v, c) <=> InMap(u, c)
        /\ InBase(v, Remove(c)) <=> InBase(u, Remove(c))
        /\ \A g : Due(v, g, c) <=> Due(u, g, c) \/ g = <<"connectDestroyed", c>>
        /\ /\ u.conns[c].loop # Base /\ After(u.loops[u.conns[c].loop], c)
           /\ "connectDestroyed" = "connectDestroyed" => Due(u, Established(c), c)
           => After(v.loops[u.conns[c].loop], c)
    BY <1>1, <1>6, <1>7, Queued, Zenon
  <1>9. Others(w, v, c)
    BY <1>5, <1>8, OthersAdd, Zenon
  <1>10. Calm(w, u) /\ DOMAIN u.conns = DOMAIN w.conns
    BY <1>3, Zenon DEF Calm
  <1>11. Calm(w, v)
    BY <1>8, <1>10, CalmAdd, Zenon
  <1>12. DOMAIN v.map \subseteq DOMAIN w.map
    <2>1. DOMAIN Without(w.map, name) \subseteq DOMAIN w.map
      BY DEF Without
    <2> QED
      BY <1>3, <1>8, <2>1, Zenon
  <1>13. /\ ~InMap(v, c)
         /\ InBase(v, Remove(c)) <=> InBase(w, Remove(c))
         /\ \A g : Due(v, g, c) <=> Due(w, g, c) \/ g = Destroyed(c)
    BY <1>4, <1>8, Zenon DEF Destroyed
  <1>14. w.conns[c].loop # Base /\ After(w.loops[w.conns[c].loop], c) /\ Due(w, Established(c), c)
         => After(v.loops[w.conns[c].loop], c)
    BY <1>3, <1>4, <1>8, Zenon
  <1>15. v.conns = w.conns
    BY <1>3, <1>8, Zenon
  <1> QED
    BY <1>9, <1>11, <1>12, <1>13, <1>14, <1>15, Zenon

\* The connections after c got a state and a count of its removals.
ConnsWith(w, c, state, n) == [w.conns EXCEPT ![c] = [w.conns[c] EXCEPT !.state = state, !.removed = n]]

\* From w to v only the state and the removals of c change.
Changed(w, v, c, state, n) ==
    /\ Others(w, v, c) /\ Calm(w, v) /\ v.map = w.map
    /\ v.conns[c].state = state /\ v.conns[c].removed = n /\ v.conns[c].loop = w.conns[c].loop
    /\ v.conns[c].freed = w.conns[c].freed /\ v.conns[c].name = w.conns[c].name
    /\ InMap(v, c) <=> InMap(w, c)
    /\ \A g : InBase(v, g) <=> InBase(w, g)
    /\ \A g : Due(v, g, c) <=> Due(w, g, c)

\* connectEstablished(), connectDestroyed() and handleClose() change the state of one connection.
LEMMA StateRun ==
    ASSUME NEW w, Shape(w), NEW c \in DOMAIN w.conns, NEW state \in States, NEW n \in {0, 1},
           NEW v, v = [x \in Fields |-> v[x]],
           v.conns = ConnsWith(w, c, state, n), v.map = w.map, v.base = w.base, v.loops = w.loops
    PROVE  Changed(w, v, c, state, n)
  <1> DEFINE k == [w.conns[c] EXCEPT !.state = state, !.removed = n]
  <1>1. w.conns[c] \in Conn
    BY ConnFacts, Zenon
  <1>2. /\ k \in Conn /\ k.peer = w.conns[c].peer /\ k.name = w.conns[c].name /\ k.loop = w.conns[c].loop
        /\ k.hup = w.conns[c].hup /\ k.freed = w.conns[c].freed /\ k.state = state /\ k.removed = n
    BY <1>1, Zenon DEF Conn
  <1>3. v.conns = [w.conns EXCEPT ![c] = k]
    BY DEF ConnsWith
  <1> HIDE DEF k
  <1>4. /\ Others(w, v, c)
        /\ k.hup = w.conns[c].hup /\ k.freed = w.conns[c].freed => Calm(w, v)
        /\ v.conns[c] = k
        /\ InMap(v, c) <=> InMap(w, c)
        /\ \A g : InBase(v, g) <=> InBase(w, g)
        /\ \A g : Due(v, g, c) <=> Due(w, g, c)
    <2>1. AssignsConn(w, c, k, v)
      BY <1>2, <1>3, Zenon DEF AssignsConn
    <2>2. ConnIsAssigned(w, c, k, v)
      BY <2>1, ConnIs, Zenon
    <2> QED
      BY <2>2, Zenon DEF ConnIsAssigned
  <1> QED
    BY <1>2, <1>4, Zenon DEF Changed

\* connectEstablished().
LEMMA EstablishRun ==
    ASSUME NEW w, Shape(w), NEW c \in DOMAIN w.conns, NEW v, v = connectEstablished(w, c)
    PROVE  Changed(w, v, c, "kConnected", w.conns[c].removed)
  <1>1. w = [x \in Fields |-> w[x]]
    BY Zenon DEF Shape
  <1>2. w.conns[c] \in Conn /\ w.conns[c].removed \in {0, 1}
    BY ConnFacts, Zenon
  <1>3. v = [w EXCEPT !.conns = [w.conns EXCEPT ![c] = [w.conns[c] EXCEPT !.state = "kConnected", !.removed = w.conns[c].removed]]]
    <2>1. [w.conns[c] EXCEPT !.state = "kConnected"]
             = [w.conns[c] EXCEPT !.state = "kConnected", !.removed = w.conns[c].removed]
      BY <1>2, Zenon DEF Conn
    <2> QED
      BY <1>1, <2>1 DEF connectEstablished, Fields
  <1>4. /\ v = [x \in Fields |-> v[x]] /\ v.map = w.map /\ v.base = w.base /\ v.loops = w.loops
        /\ v.conns = ConnsWith(w, c, "kConnected", w.conns[c].removed)
    BY <1>1, <1>3 DEF Fields, ConnsWith
  <1>5. "kConnected" \in States /\ w.conns[c].removed \in {0, 1}
    BY <1>2 DEF States
  <1> QED
    BY <1>4, <1>5, StateRun

\* handleClose(), up to the callback.
Closed(w, c) == [w EXCEPT !.conns[c].state = "kDisconnected"]

\* It changes nothing but the state.
LEMMA CloseRun ==
    ASSUME NEW w, Shape(w), NEW c \in DOMAIN w.conns, NEW v, v = Closed(w, c)
    PROVE  Changed(w, v, c, "kDisconnected", w.conns[c].removed)
  <1>1. w = [x \in Fields |-> w[x]]
    BY Zenon DEF Shape
  <1>2. w.conns[c] \in Conn /\ w.conns[c].removed \in {0, 1}
    BY ConnFacts, Zenon
  <1>3. v = [w EXCEPT !.conns = [w.conns EXCEPT ![c] = [w.conns[c] EXCEPT !.state = "kDisconnected", !.removed = w.conns[c].removed]]]
    <2>1. [w.conns[c] EXCEPT !.state = "kDisconnected"]
             = [w.conns[c] EXCEPT !.state = "kDisconnected", !.removed = w.conns[c].removed]
      BY <1>2, Zenon DEF Conn
    <2> QED
      BY <1>1, <2>1 DEF Closed, Fields
  <1>4. /\ v = [x \in Fields |-> v[x]] /\ v.map = w.map /\ v.base = w.base /\ v.loops = w.loops
        /\ v.conns = ConnsWith(w, c, "kDisconnected", w.conns[c].removed)
    BY <1>1, <1>3 DEF Fields, ConnsWith
  <1>5. "kDisconnected" \in States /\ w.conns[c].removed \in {0, 1}
    BY <1>2 DEF States
  <1> QED
    BY <1>4, <1>5, StateRun

\* connectDestroyed() where it asserts nothing.
LEMMA DestroyRun ==
    ASSUME NEW w, Shape(w), NEW c \in DOMAIN w.conns, w.conns[c].state \in {"kConnected", "kDisconnected"},
           w.conns[c].removed = 0, NEW v, v = connectDestroyed(w, c)
    PROVE  Changed(w, v, c, "kDisconnected", 1)
  <1>1. w = [x \in Fields |-> w[x]]
    BY Zenon DEF Shape
  <1>2. w.conns[c] \in Conn /\ w.conns[c].removed \in {0, 1}
    BY ConnFacts, Zenon
  <1>3. v = [w EXCEPT !.conns = [w.conns EXCEPT ![c] = [w.conns[c] EXCEPT !.state = "kDisconnected", !.removed = 1]]]
    <2> DEFINE k == w.conns[c]
               st == IF k.state = "kConnected" THEN "kDisconnected" ELSE k.state
               n == k.removed + 1
    <2>1. st = "kDisconnected" /\ n = 1
      OBVIOUS
    <2>2. v = [w EXCEPT !.conns = [w.conns EXCEPT ![c] = [[k EXCEPT !.state = st] EXCEPT !.removed = n]]]
      <3>1. c \in DOMAIN w.conns /\ "conns" \in DOMAIN w /\ DOMAIN w = Fields
        BY <1>1 DEF Fields
      <3>2. [k EXCEPT !.state = st].removed = k.removed
        BY <1>2 DEF Conn
      <3> QED
        BY <3>1, <3>2, Zenon DEF connectDestroyed
    <2>3. [[k EXCEPT !.state = st] EXCEPT !.removed = n] = [k EXCEPT !.state = "kDisconnected", !.removed = 1]
      BY <1>2, <2>1, Zenon DEF Conn
    <2> HIDE DEF k, st, n
    <2> QED
      BY <2>2, <2>3 DEF k
  <1>4. /\ v = [x \in Fields |-> v[x]] /\ v.map = w.map /\ v.base = w.base /\ v.loops = w.loops
        /\ v.conns = ConnsWith(w, c, "kDisconnected", 1)
    BY <1>1, <1>3 DEF Fields, ConnsWith
  <1>5. "kDisconnected" \in States /\ 1 \in {0, 1}
    BY <1>2 DEF States
  <1> QED
    BY <1>4, <1>5, StateRun

\* A step on connection c that ends well.
LEMMA Finish ==
    ASSUME Fine, NEW c, NEW w, Others(Whole, w, c), c \in DOMAIN conns => Life(w, server, c), Calm(Whole, w),
           DOMAIN w.map \subseteq DOMAIN connections_, NEW fds, Release(w, fds),
           UNCHANGED <<threadNum_, nextConnId_, server, waiting>>
    PROVE  Fine'
  <1>1. Good(Whole, server) /\ Whole.conns = conns
    BY WholeHas, Zenon DEF Fine
  <1>2. Good(w, server) /\ DOMAIN w.conns = DOMAIN conns
    BY <1>1, GoodFrom, Zenon DEF Others
  <1>3. /\ \A x \in DOMAIN conns : /\ w.conns[x].peer = conns[x].peer /\ w.conns[x].hup = conns[x].hup
                                   /\ w.conns[x].freed = conns[x].freed
        /\ LoopPhases(w.loops, threadNum_, server)
    BY CalmGives, Zenon
  <1>4. threadNum_' = threadNum_ /\ nextConnId_' = nextConnId_ /\ server' = server /\ waiting' = waiting
    BY Zenon
  <1> QED
    BY <1>2, <1>3, <1>4, FineRelease, Zenon

\* What a functor runs.
LEMMA RunIs ==
    ASSUME NEW w, NEW c
    PROVE  /\ Run(w, Established(c)) = connectEstablished(w, c)
           /\ Run(w, Destroyed(c)) = connectDestroyed(w, c)
           /\ Run(w, Remove(c)) = removeConnectionInLoop(w, c)
  BY DEF Run, Established, Destroyed, Remove

\* Which assert of a functor fails.
LEMMA MisuseIs ==
    ASSUME NEW w, NEW c
    PROVE  /\ w.conns[c].state = "kConnecting" => Misuse(w, Established(c)) = {}
           /\ w.conns[c].state \in {"kConnected", "kDisconnected"} => Misuse(w, Destroyed(c)) = {}
           /\ w.conns[c].state \notin {"kConnected", "kDisconnected"} =>
                  Misuse(w, Destroyed(c)) = {[at |-> "Channel::remove", conn |-> c]}
           /\ server # "gone" /\ InMap(w, c) => Misuse(w, Remove(c)) = {}
           /\ server = "gone" => Misuse(w, Remove(c)) = {[at |-> "server", conn |-> c]}
  <1> DEFINE Ats == {"connectEstablished", "Channel::remove", "erase", "server"}
             Bad(f, at) == CASE at = "connectEstablished" -> f[1] = at /\ w.conns[f[2]].state # "kConnecting"
                             [] at = "Channel::remove" ->
                                  f[1] = "connectDestroyed" /\ w.conns[f[2]].state \notin {"kConnected", "kDisconnected"}
                             [] at = "erase" ->
                                  f[1] = "remove" /\ server # "gone" /\ w.conns[f[2]].name \notin DOMAIN w.map
                             [] at = "server" -> f[1] = "remove" /\ server = "gone"
  <1>1. \A f : Misuse(w, f) = {[at |-> at, conn |-> f[2]] : at \in {at \in Ats : Bad(f, at)}}
    BY DEF Misuse
  <1>2. \A f : /\ Bad(f, "connectEstablished") <=> (f[1] = "connectEstablished" /\ w.conns[f[2]].state # "kConnecting")
               /\ Bad(f, "Channel::remove") <=>
                      (f[1] = "connectDestroyed" /\ w.conns[f[2]].state \notin {"kConnected", "kDisconnected"})
               /\ Bad(f, "erase") <=> (f[1] = "remove" /\ server # "gone" /\ w.conns[f[2]].name \notin DOMAIN w.map)
               /\ Bad(f, "server") <=> (f[1] = "remove" /\ server = "gone")
    OBVIOUS
  <1> HIDE DEF Bad
  <1>3. /\ Established(c)[1] = "connectEstablished" /\ Destroyed(c)[1] = "connectDestroyed" /\ Remove(c)[1] = "remove"
        /\ Established(c)[2] = c /\ Destroyed(c)[2] = c /\ Remove(c)[2] = c
    BY DEF Established, Destroyed, Remove
  <1>4. ASSUME w.conns[c].state = "kConnecting" PROVE Misuse(w, Established(c)) = {}
    <2>1. {at \in Ats : Bad(Established(c), at)} = {}
      BY <1>2, <1>3, <1>4
    <2> QED
      BY <1>1, <2>1
  <1>5. ASSUME w.conns[c].state \in {"kConnected", "kDisconnected"} PROVE Misuse(w, Destroyed(c)) = {}
    <2>1. {at \in Ats : Bad(Destroyed(c), at)} = {}
      BY <1>2, <1>3, <1>5
    <2> QED
      BY <1>1, <2>1
  <1>6. ASSUME w.conns[c].state \notin {"kConnected", "kDisconnected"}
        PROVE  Misuse(w, Destroyed(c)) = {[at |-> "Channel::remove", conn |-> c]}
    <2>1. {at \in Ats : Bad(Destroyed(c), at)} = {"Channel::remove"}
      BY <1>2, <1>3, <1>6
    <2> QED
      BY <1>1, <1>3, <2>1
  <1>7. ASSUME server # "gone", InMap(w, c) PROVE Misuse(w, Remove(c)) = {}
    <2>1. {at \in Ats : Bad(Remove(c), at)} = {}
      BY <1>2, <1>3, <1>7 DEF InMap
    <2> QED
      BY <1>1, <2>1
  <1>8. ASSUME server = "gone" PROVE Misuse(w, Remove(c)) = {[at |-> "server", conn |-> c]}
    <2>1. {at \in Ats : Bad(Remove(c), at)} = {"server"}
      BY <1>2, <1>3, <1>8
    <2> QED
      BY <1>1, <1>3, <2>1
  <1> QED
    BY <1>4, <1>5, <1>6, <1>7, <1>8

\* connectDestroyed() meets a connection in kDisconnecting: ~TcpServer() is under way.
LEMMA DestroyMisused ==
    ASSUME Fine, NEW w, NEW c, w.conns[c].state = conns[c].state, conns[c].state = "kDisconnecting",
           ~Up(server), Execute(w, Destroyed(c)), server' = server
    PROVE  Known'
  <1>1. w.conns[c].state \notin {"kConnected", "kDisconnected"}
    OBVIOUS
  <1>2. Misuse(w, Destroyed(c)) = {[at |-> "Channel::remove", conn |-> c]}
    BY <1>1, MisuseIs, Zenon
  <1>3. Misuse(w, Destroyed(c)) # {}
    BY <1>2, Zenon
  <1>4. failures' = Misuse(w, Destroyed(c)) /\ UNCHANGED <<conns, connections_, base, loops, spare>>
    BY <1>3, Zenon DEF Execute
  <1>5. server # "new" /\ server # "up"
    BY DEF Up
  <1>6. \A m \in Misuse(w, Destroyed(c)) :
               /\ m.at = "Channel::remove" => server # "up" /\ conns[m.conn].state = "kDisconnecting"
               /\ m.at = "server" => conns[m.conn].loop # Base
               /\ m.at \in {"Channel::remove", "server"}
    BY <1>2, <1>5
  <1> QED
    BY <1>3, <1>4, <1>5, <1>6, KnownMisuse, Zenon

\* connectDestroyed() of c, when its functor or its map entry has been taken: w is what is left.
LEMMA DestroyStep ==
    ASSUME Fine, NEW c \in DOMAIN conns, NEW w, Others(Whole, w, c), Calm(Whole, w), w.conns = conns,
           DOMAIN w.map \subseteq DOMAIN connections_,
           conns[c].state # "kConnecting", conns[c].removed = 0, conns[c].freed = FALSE,
           Up(server) => conns[c].state = "kDisconnected" /\ ~InBase(w, Remove(c)),
           ~InMap(w, c), ~Due(w, Destroyed(c), c), Due(w, Established(c), c) => Due(Whole, Established(c), c),
           Execute(w, Destroyed(c)), UNCHANGED <<threadNum_, nextConnId_, server, waiting>>
    PROVE  Fine' \/ Known'
  <1>1. conns[c].state \in States /\ Shape(w) /\ c \in DOMAIN w.conns /\ Life(Whole, server, c) /\ Whole.conns = conns
    <2>1. Shape(Whole) /\ Whole.conns = conns /\ Life(Whole, server, c)
      BY IdsAre, WholeHas, Zenon
    <2> QED
      BY <2>1, ConnFacts, Zenon DEF Others
  <1>2. CASE conns[c].state = "kDisconnecting"
    <2>1. ~Up(server)
      BY <1>2
    <2>2. w.conns[c].state = conns[c].state /\ server' = server
      BY Zenon
    <2> QED
      BY <1>2, <2>1, <2>2, DestroyMisused, Zenon
  <1>3. CASE conns[c].state # "kDisconnecting"
    <2>1. w.conns[c].state \in {"kConnected", "kDisconnected"}
      BY <1>1, <1>3 DEF States
    <2>2. Misuse(w, Destroyed(c)) = {}
      BY <2>1, MisuseIs, Zenon
    <2>3. PICK v : v = connectDestroyed(w, c)
      OBVIOUS
    <2>4. Release(v, spare)
      <3>1. Run(w, Destroyed(c)) = v
        BY <2>3, RunIs
      <3> QED
        BY <2>2, <3>1, Zenon DEF Execute
    <2>5. Changed(w, v, c, "kDisconnected", 1)
      <3>1. w.conns[c].removed = 0
        BY Zenon
      <3> QED
        BY <1>1, <2>1, <2>3, <3>1, DestroyRun, Zenon
    <2>6. /\ Others(w, v, c) /\ Calm(w, v) /\ v.map = w.map
          /\ v.conns[c].state = "kDisconnected" /\ v.conns[c].removed = 1 /\ v.conns[c].loop = w.conns[c].loop
          /\ v.conns[c].freed = w.conns[c].freed /\ v.conns[c].name = w.conns[c].name
          /\ InMap(v, c) <=> InMap(w, c)
          /\ \A g : InBase(v, g) <=> InBase(w, g)
          /\ \A g : Due(v, g, c) <=> Due(w, g, c)
      BY <2>5, Zenon DEF Changed
    <2>7. Others(Whole, v, c)
      BY <2>6, OthersAdd, Zenon
    <2>8. Calm(Whole, v)
      BY <1>1, <2>6, CalmAdd, Zenon
    <2>9. Life(v, server, c)
      <3>1. /\ Whole.conns[c].state \in {"kConnected", "kDisconnected"}
            /\ v.conns[c].loop = Whole.conns[c].loop /\ v.conns[c].freed = FALSE
        BY <1>1, <2>1, <2>6, Zenon
      <3> QED
        BY <1>1, <2>6, <3>1, LifeDestroyed, Zenon
    <2>10. DOMAIN v.map \subseteq DOMAIN connections_
      BY <2>6, Zenon
    <2> QED
      BY <2>4, <2>7, <2>8, <2>9, <2>10, Finish, Zenon
  <1> QED
    BY <1>2, <1>3

\* removeConnectionInLoop() of a closed connection that is in the map of a living server.
LEMMA RemoveStep ==
    ASSUME Fine, NEW c \in DOMAIN conns, NEW w, Others(Whole, w, c), Calm(Whole, w),
           DOMAIN w.map \subseteq DOMAIN connections_,
           conns[c].state # "kConnecting", w.conns[c].state = "kDisconnected", w.conns[c].removed = 0,
           w.conns[c].freed = FALSE, w.conns[c].loop = conns[c].loop, server # "gone",
           InMap(w, c), ~InBase(w, Remove(c)), ~Due(w, Destroyed(c), c),
           Due(w, Established(c), c) => Due(Whole, Established(c), c),
           Execute(w, Remove(c)), UNCHANGED <<threadNum_, nextConnId_, server, waiting>>
    PROVE  Fine'
  <1>1. Shape(w) /\ c \in DOMAIN w.conns /\ Life(Whole, server, c) /\ Whole.conns = conns
    BY IdsAre, WholeHas, Zenon DEF Others
  <1>2. Misuse(w, Remove(c)) = {}
    BY MisuseIs, Zenon
  <1>3. PICK v : v = removeConnectionInLoop(w, c)
    OBVIOUS
  <1>4. Release(v, spare)
    <2>1. Run(w, Remove(c)) = v
      BY <1>3, RunIs
    <2> QED
      BY <1>2, <2>1, Zenon DEF Execute
  <1>5. /\ Others(w, v, c) /\ Calm(w, v) /\ v.conns = w.conns /\ DOMAIN v.map \subseteq DOMAIN w.map
        /\ ~InMap(v, c)
        /\ InBase(v, Remove(c)) <=> InBase(w, Remove(c))
        /\ \A g : Due(v, g, c) <=> Due(w, g, c) \/ g = Destroyed(c)
    BY <1>1, <1>3, RemoveRun, Zenon
  <1>6. Others(Whole, v, c) /\ Calm(Whole, v)
    <2>1. DOMAIN w.conns = DOMAIN Whole.conns
      BY Zenon DEF Others
    <2>2. Others(Whole, v, c)
      BY <1>5, OthersAdd, Zenon
    <2> QED
      BY <1>5, <2>1, <2>2, CalmAdd, Zenon
  <1>7. DOMAIN v.map \subseteq DOMAIN connections_
    BY <1>5
  <1>8. Life(v, server, c)
    <2>1. Established(c) # Destroyed(c)
      BY FunctorsDiffer
    <2>2. /\ Whole.conns[c].state # "kConnecting"
          /\ v.conns[c].state = "kDisconnected" /\ v.conns[c].loop = Whole.conns[c].loop
          /\ v.conns[c].removed = 0 /\ v.conns[c].freed = FALSE
          /\ ~InMap(v, c) /\ ~InBase(v, Remove(c))
          /\ Due(v, Established(c), c) => Due(Whole, Established(c), c)
          /\ Due(v, Destroyed(c), c)
      BY <1>1, <1>5, <2>1, Zenon
    <2> QED
      BY <1>1, <2>2, LifeRemoved, Zenon
  <1> QED
    BY <1>4, <1>6, <1>7, <1>8, Finish, Zenon

\* What Life says of an open connection, and of one whose functors wait.
LEMMA LifeSays ==
    ASSUME Fine, NEW c \in DOMAIN conns
    PROVE  /\ conns[c].freed = FALSE /\ conns[c].state \in {"kConnected", "kDisconnecting"} =>
                  /\ conns[c].removed = 0 /\ ~InBase(Whole, Remove(c)) /\ ~Due(Whole, Established(c), c)
                  /\ Up(server) => InMap(Whole, c) /\ ~Due(Whole, Destroyed(c), c)
           /\ InBase(Whole, Remove(c)) /\ Up(server) =>
                  /\ conns[c].state = "kDisconnected" /\ conns[c].removed = 0 /\ conns[c].freed = FALSE
                  /\ InMap(Whole, c) /\ ~Due(Whole, Destroyed(c), c)
           /\ Due(Whole, Destroyed(c), c) =>
                  /\ conns[c].removed = 0 /\ conns[c].freed = FALSE /\ ~InMap(Whole, c)
                  /\ Up(server) => conns[c].state = "kDisconnected" /\ ~InBase(Whole, Remove(c))
           /\ Due(Whole, Established(c), c) => conns[c].state = "kConnecting" /\ conns[c].freed = FALSE
           /\ InMap(Whole, c) => conns[c].removed = 0 /\ conns[c].freed = FALSE /\ ~Due(Whole, Destroyed(c), c)
           /\ conns[c].loop = Base => conns[c].state # "kConnecting"
           /\ conns[c].loop # Base /\ conns[c].state = "kConnecting" => After(loops[conns[c].loop], c)
  <1>1. /\ Life(Whole, server, c) /\ Whole.conns = conns /\ Whole.loops = loops
        /\ conns[c].removed \in {0, 1} /\ conns[c].freed \in BOOLEAN
    BY IdsAre, WholeHas, ConnFacts, Zenon
  <1> QED
    BY <1>1 DEF Life

\* handleClose().
LEMMA CloseStep ==
    ASSUME Fine, NEW c \in Ids, handleClose(c)
    PROVE  Fine'
  <1> DEFINE w == Closed(Whole, c)
  <1>1. /\ Polling(c) /\ conns[c].state \in {"kConnected", "kDisconnecting"}
        /\ conns[c].loop = Base => Execute(w, Remove(c))
        /\ conns[c].loop # Base => Release([w EXCEPT !.base = Append(w.base, Remove(c))], spare)
        /\ UNCHANGED <<threadNum_, nextConnId_, server, waiting>>
    BY Zenon DEF handleClose, Closed, Remove
  <1>2. /\ c \in DOMAIN conns /\ Shape(Whole) /\ Whole.conns = conns /\ Whole.map = connections_
        /\ Life(Whole, server, c) /\ conns[c].freed \in BOOLEAN /\ c \in Nat
    BY IdsAre, WholeHas, ConnFacts, Zenon
  <1>3. conns[c].freed = FALSE /\ (conns[c].loop = Base => server = "up")
    BY <1>1, <1>2, Zenon DEF Polling
  <1>4. Changed(Whole, w, c, "kDisconnected", conns[c].removed)
    BY <1>2, CloseRun, Zenon
  <1> HIDE DEF w
  <1>5. /\ Others(Whole, w, c) /\ Calm(Whole, w) /\ w.map = connections_
        /\ w.conns[c].state = "kDisconnected" /\ w.conns[c].removed = conns[c].removed
        /\ w.conns[c].loop = conns[c].loop
        /\ w.conns[c].freed = conns[c].freed /\ w.conns[c].name = conns[c].name
        /\ InMap(w, c) <=> InMap(Whole, c)
        /\ \A g : InBase(w, g) <=> InBase(Whole, g)
        /\ \A g : Due(w, g, c) <=> Due(Whole, g, c)
    BY <1>2, <1>4, Zenon DEF Changed
  <1>6. /\ conns[c].removed = 0 /\ ~InBase(Whole, Remove(c)) /\ ~Due(Whole, Established(c), c)
        /\ Up(server) => InMap(Whole, c) /\ ~Due(Whole, Destroyed(c), c)
    BY <1>1, <1>2, <1>3, LifeSays, Zenon
  <1>7. conns[c].state # "kConnecting"
    BY <1>1
  <1>8. CASE conns[c].loop = Base
    <2>1. server # "gone" /\ Up(server)
      BY <1>3, <1>8 DEF Up
    <2>2. /\ w.conns[c].removed = 0 /\ w.conns[c].freed = FALSE /\ InMap(w, c) /\ ~InBase(w, Remove(c))
          /\ ~Due(w, Destroyed(c), c) /\ (Due(w, Established(c), c) => Due(Whole, Established(c), c))
          /\ DOMAIN w.map \subseteq DOMAIN connections_
      BY <1>3, <1>5, <1>6, <2>1, Zenon
    <2> QED
      BY <1>1, <1>2, <1>5, <1>7, <1>8, <2>1, <2>2, RemoveStep, Zenon
  <1>9. CASE conns[c].loop # Base
    <2>1. PICK v : v = [w EXCEPT !.base = Append(w.base, Remove(c))]
      BY Zenon
    <2>2. Release(v, spare)
      BY <1>1, <1>9, <2>1, Zenon
    <2>3. /\ Remove(c) \in Functor /\ OfBase(w, Remove(c)) /\ ~InBase(w, Remove(c)) /\ Shape(w)
          /\ Remove(c)[2] = c
      <3>1. Remove(c) \in Functor /\ Remove(c)[1] = "remove" /\ Remove(c)[2] = c
        BY <1>2 DEF Remove, Functor
      <3>2. c \in DOMAIN w.conns /\ Shape(w)
        BY <1>2, <1>5, Zenon DEF Others
      <3> QED
        BY <1>5, <1>6, <1>9, <3>1, <3>2, Zenon DEF OfBase
    <2>4. /\ Others(w, v, Remove(c)[2])
          /\ v.conns = w.conns /\ v.map = w.map /\ v.loops = w.loops
          /\ \A g : InBase(v, g) <=> InBase(w, g) \/ g = Remove(c)
      BY <2>1, <2>3, BaseAppended
    <2>5. \A g : Due(v, g, c) <=> Due(w, g, c)
      BY <1>5, <1>9, <2>4, Zenon DEF Due
    <2>6. Others(Whole, v, c)
      BY <1>5, <2>3, <2>4, OthersAdd, Zenon
    <2>7. Calm(Whole, v)
      BY <1>5, <2>4, Zenon DEF Calm
    <2>8. Life(v, server, c)
      <3>1. /\ Whole.conns[c].freed = FALSE
            /\ v.conns[c].state = "kDisconnected" /\ v.conns[c].loop = Whole.conns[c].loop
            /\ v.conns[c].removed = Whole.conns[c].removed /\ v.conns[c].freed = Whole.conns[c].freed
            /\ InMap(v, c) <=> InMap(Whole, c)
            /\ InBase(v, Remove(c))
            /\ Due(v, Established(c), c) => Due(Whole, Established(c), c)
            /\ Due(v, Destroyed(c), c) <=> Due(Whole, Destroyed(c), c)
        BY <1>2, <1>3, <1>5, <2>4, <2>5, Zenon DEF InMap
      <3>2. Whole.conns[c].state \in {"kConnected", "kDisconnecting"}
        BY <1>1, <1>2
      <3> QED
        BY <1>2, <3>1, <3>2, LifeClosed, Zenon
    <2>9. DOMAIN v.map \subseteq DOMAIN connections_
      BY <1>5, <2>4, Zenon
    <2> QED
      BY <1>1, <2>2, <2>6, <2>7, <2>8, <2>9, Finish, Zenon
  <1> QED
    BY <1>8, <1>9
=============================================================================
