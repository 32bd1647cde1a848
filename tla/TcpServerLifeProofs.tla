------------------------- MODULE TcpServerLifeProofs -------------------------
(***************************************************************************)
(* Proof that connections_ is exact while the server runs, and that its    *)
(* asserts fail only in the known ways, for any number of peers,           *)
(* connections and sub-loops. Both follow from LifeInv: where every        *)
(* connection is in its life, which functors wait for it in which loop and *)
(* in which order. This module has the steps that can end in a failed      *)
(* assert.                                                                 *)
(***************************************************************************)
EXTENDS TcpServerProofs

\* The base loop runs its oldest functor.
LEMMA RunBaseStep ==
    ASSUME Fine, RunBase
    PROVE  Fine' \/ Known'
  <1> DEFINE f == Head(base)  c == f[2]
  <1>1. /\ server \in {"up", "gone"} /\ base # <<>> /\ Execute([Whole EXCEPT !.base = Tail(Whole.base)], f)
        /\ UNCHANGED <<threadNum_, nextConnId_, server, waiting>>
    BY Zenon DEF RunBase
  <1>2. /\ Shape(Whole) /\ Whole.conns = conns /\ Whole.map = connections_ /\ Whole.base = base
        /\ Whole.loops = loops
    BY IdsAre, WholeHas, Zenon
  <1>3. PICK w : w = [Whole EXCEPT !.base = Tail(Whole.base)]
    BY Zenon
  <1>4. Execute(w, f)
    BY <1>1, <1>3, Zenon
  <1>5. /\ Others(Whole, w, c) /\ f \in Functor /\ OfBase(Whole, f) /\ InBase(Whole, f)
        /\ w.conns = Whole.conns /\ w.map = Whole.map /\ w.loops = Whole.loops
        /\ \A g : InBase(w, g) <=> InBase(Whole, g) /\ g # f
    <2>1. Whole.base # <<>> /\ f = Head(Whole.base)
      BY <1>1, <1>2
    <2> HIDE DEF f
    <2> QED
      BY <1>2, <1>3, <2>1, BaseTaken
  <1> HIDE DEF f
  <1>6. /\ c \in DOMAIN conns /\ f \in {Established(c), Destroyed(c), Remove(c)}
        /\ \/ f[1] = "remove" /\ conns[c].loop # Base
           \/ f[1] = "connectDestroyed" /\ conns[c].loop = Base
    BY <1>2, <1>5, FunctorsDiffer, Zenon DEF OfBase
  <1> HIDE DEF c
  <1>7. Calm(Whole, w) /\ DOMAIN w.map \subseteq DOMAIN connections_
    BY <1>2, <1>5, Zenon DEF Calm
  <1>8. Established(c)[1] = "connectEstablished" /\ Destroyed(c)[1] = "connectDestroyed" /\ Remove(c)[1] = "remove"
    BY DEF Established, Destroyed, Remove
  <1>9. CASE f = Remove(c) /\ conns[c].loop # Base
    <2>1. CASE server = "gone"
      <3>1. Misuse(w, Remove(c)) = {[at |-> "server", conn |-> c]}
        BY <2>1, MisuseIs, Zenon
      <3>2. Misuse(w, Remove(c)) # {} /\ server # "new"
        BY <2>1, <3>1
      <3>3. failures' = Misuse(w, Remove(c)) /\ UNCHANGED <<conns, connections_, base, loops, spare>>
        BY <1>4, <1>9, <3>2, Zenon DEF Execute
      <3>4. \A m \in Misuse(w, Remove(c)) :
                 /\ m.at = "Channel::remove" => server # "up" /\ conns[m.conn].state = "kDisconnecting"
                 /\ m.at = "server" => conns[m.conn].loop # Base
                 /\ m.at \in {"Channel::remove", "server"}
        BY <1>9, <3>1
      <3> QED
        BY <1>1, <3>2, <3>3, <3>4, KnownMisuse, Zenon
    <2>2. CASE server # "gone"
      <3>1. Up(server)
        BY <1>1, <2>2 DEF Up
      <3>2. /\ conns[c].state = "kDisconnected" /\ conns[c].removed = 0 /\ conns[c].freed = FALSE
            /\ InMap(Whole, c) /\ ~Due(Whole, Destroyed(c), c)
        BY <1>5, <1>6, <1>9, <3>1, LifeSays, Zenon
      <3>3. \A g : Due(w, g, c) <=> Due(Whole, g, c)
        BY <1>2, <1>5, <1>9, Zenon DEF Due
      <3>4. InMap(w, c) /\ ~InBase(w, Remove(c)) /\ ~Due(w, Destroyed(c), c)
        BY <1>2, <1>5, <1>9, <3>2, <3>3, Zenon DEF InMap
      <3>5. /\ conns[c].state # "kConnecting" /\ w.conns[c].state = "kDisconnected" /\ w.conns[c].removed = 0
            /\ w.conns[c].freed = FALSE /\ w.conns[c].loop = conns[c].loop
        BY <1>2, <1>5, <3>2
      <3> QED
        BY <1>1, <1>4, <1>5, <1>6, <1>7, <1>9, <2>2, <3>3, <3>4, <3>5, RemoveStep, Zenon
    <2> QED
      BY <2>1, <2>2
  <1>10. CASE f = Destroyed(c) /\ conns[c].loop = Base
    <2>1. Due(Whole, Destroyed(c), c) /\ \A g : Due(w, g, c) <=> InBase(w, g)
      BY <1>2, <1>5, <1>10, Zenon DEF Due
    <2>2. /\ conns[c].removed = 0 /\ conns[c].freed = FALSE /\ ~InMap(Whole, c)
          /\ Up(server) => conns[c].state = "kDisconnected" /\ ~InBase(Whole, Remove(c))
          /\ conns[c].state # "kConnecting"
      BY <1>6, <1>10, <2>1, LifeSays, Zenon
    <2>3. ~InMap(w, c) /\ ~Due(w, Destroyed(c), c) /\ (Up(server) => ~InBase(w, Remove(c)))
      BY <1>5, <1>10, <2>1, <2>2, Zenon DEF InMap
    <2>4. Due(w, Established(c), c) => Due(Whole, Established(c), c)
      BY <1>2, <1>5, <1>10, <2>1, Zenon DEF Due
    <2>5. w.conns = conns
      BY <1>2, <1>5
    <2> QED
      BY <1>1, <1>4, <1>5, <1>6, <1>7, <1>10, <2>2, <2>3, <2>4, <2>5, DestroyStep, Zenon
  <1> QED
    BY <1>6, <1>8, <1>9, <1>10

\* ~TcpServer() takes a connection out of the map.
LEMMA PostStep ==
    ASSUME Fine, NEW name \in DOMAIN connections_, Post(name)
    PROVE  Fine' \/ Known'
  <1> DEFINE c == connections_[name]
  <1>1. /\ server = "posting" /\ UNCHANGED <<threadNum_, nextConnId_, server, waiting>>
        /\ conns[c].loop = Base => Execute([Whole EXCEPT !.map = Without(Whole.map, name)], Destroyed(c))
        /\ conns[c].loop # Base =>
               Release(Queue([Whole EXCEPT !.map = Without(Whole.map, name)], "connectDestroyed", c), spare)
    BY Zenon DEF Post, Destroyed
  <1>2. /\ Shape(Whole) /\ Whole.conns = conns /\ Whole.map = connections_ /\ Whole.base = base
        /\ Whole.loops = loops
    BY IdsAre, WholeHas, Zenon
  <1>3. c \in DOMAIN conns /\ conns[c].name = name /\ InMap(Whole, c)
    BY <1>2, Zenon DEF Shape, MapOK, InMap
  <1> HIDE DEF c
  <1>4. ~Up(server)
    BY <1>1 DEF Up
  <1>5. conns[c].removed = 0 /\ conns[c].freed = FALSE /\ ~Due(Whole, Destroyed(c), c)
    BY <1>3, LifeSays, Zenon
  <1>6. CASE conns[c].loop = Base
    <2>1. PICK w : w = [Whole EXCEPT !.map = Without(Whole.map, name)]
      BY Zenon
    <2>2. Execute(w, Destroyed(c))
      BY <1>1, <1>6, <2>1, Zenon
    <2>3. /\ w = [x \in Fields |-> w[x]] /\ w.map = Without(Whole.map, name)
          /\ w.conns = Whole.conns /\ w.base = Whole.base /\ w.loops = Whole.loops
      <3>1. Whole = [x \in Fields |-> Whole[x]]
        BY WholeHas, Zenon
      <3> HIDE DEF Whole
      <3> QED
        BY <2>1, <3>1 DEF Fields
    <2>4. /\ \A d : (name \in DOMAIN Whole.map => d = Whole.map[name]) => Others(Whole, w, d)
          /\ \A x : InMap(w, x) <=> InMap(Whole, x) /\ Whole.conns[x].name # name
          /\ \A g, x : Due(w, g, x) <=> Due(Whole, g, x)
          /\ \A g : InBase(w, g) <=> InBase(Whole, g)
      BY <1>2, <2>3, MapErased, Zenon
    <2>5. Others(Whole, w, c) /\ w.conns = conns
      BY <1>2, <2>3, <2>4, Zenon DEF c
    <2>6. Calm(Whole, w)
      BY <2>3, Zenon DEF Calm
    <2>7. DOMAIN w.map \subseteq DOMAIN connections_
      BY <1>2, <2>3 DEF Without
    <2>8. /\ conns[c].state # "kConnecting"
          /\ ~InMap(w, c) /\ ~Due(w, Destroyed(c), c) /\ (Due(w, Established(c), c) => Due(Whole, Established(c), c))
      <3>1. conns[c].state # "kConnecting"
        BY <1>3, <1>6, LifeSays, Zenon
      <3> QED
        BY <1>2, <1>3, <1>5, <2>4, <3>1, Zenon
    <2> QED
      BY <1>1, <1>3, <1>4, <1>5, <2>2, <2>5, <2>6, <2>7, <2>8, DestroyStep, Zenon
  <1>7. CASE conns[c].loop # Base
    <2>1. PICK v : v = removeConnectionInLoop(Whole, c)
      OBVIOUS
    <2>2. Release(v, spare)
      <3>1. Whole.conns[c].name = name
        BY <1>2, <1>3
      <3> QED
        BY <1>1, <1>7, <2>1, <3>1, Zenon DEF removeConnectionInLoop
    <2>3. c \in DOMAIN Whole.conns
      BY <1>2, <1>3
    <2>4. /\ Others(Whole, v, c) /\ Calm(Whole, v) /\ v.conns = Whole.conns /\ DOMAIN v.map \subseteq DOMAIN Whole.map
          /\ ~InMap(v, c)
          /\ InBase(v, Remove(c)) <=> InBase(Whole, Remove(c))
          /\ \A g : Due(v, g, c) <=> Due(Whole, g, c) \/ g = Destroyed(c)
          /\ Whole.conns[c].loop # Base /\ After(Whole.loops[Whole.conns[c].loop], c) /\ Due(Whole, Established(c), c)
             => After(v.loops[Whole.conns[c].loop], c)
      BY <1>2, <1>3, <1>5, <2>1, <2>3, RemoveRun, Zenon
    <2>5. Life(v, server, c)
      <3>1. Life(Whole, server, c) /\ Established(c) # Destroyed(c)
        BY <1>3, IdsAre, FunctorsDiffer, Zenon
      <3> QED
        BY <1>2, <1>3, <1>4, <1>5, <1>7, <2>4, <3>1, Zenon DEF Life
    <2>6. DOMAIN v.map \subseteq DOMAIN connections_
      BY <1>2, <2>4, Zenon
    <2> QED
      BY <1>1, <2>2, <2>4, <2>5, <2>6, Finish, Zenon
  <1> QED
    BY <1>6, <1>7

\* A sub-loop runs the next functor of its batch.
LEMMA RunFunctorStep ==
    ASSUME Fine, NEW l \in SubLoops, RunFunctor(l)
    PROVE  Fine' \/ Known'
  <1> DEFINE q == loops[l]
             r == [q EXCEPT !.next = q.next + 1]
             f == q.batch[q.next]
             c == f[2]
  <1>1. /\ q.phase = "functors" /\ q.next <= Len(q.batch)
        /\ Execute([Whole EXCEPT !.loops[l].next = Whole.loops[l].next + 1], f)
        /\ UNCHANGED <<threadNum_, nextConnId_, server, waiting>>
    BY Zenon DEF RunFunctor
  <1>2. /\ Shape(Whole) /\ Whole.conns = conns /\ Whole.map = connections_ /\ Whole.base = base
        /\ Whole.loops = loops /\ Whole = [x \in Fields |-> Whole[x]]
        /\ loops = [m \in SubLoops |-> loops[m]]
    BY IdsAre, WholeHas, Zenon
  <1>3. LoopType(q) /\ Once(q)
    BY IdsAre, Zenon
  <1>4. PICK w : w = [Whole EXCEPT !.loops[l].next = Whole.loops[l].next + 1]
    BY Zenon
  <1>5. /\ w = [x \in Fields |-> w[x]] /\ w.loops = [Whole.loops EXCEPT ![l] = r]
        /\ w.conns = Whole.conns /\ w.map = Whole.map /\ w.base = Whole.base
    <2> HIDE DEF Whole
    <2> QED
      BY <1>2, <1>4 DEF Fields
  <1>6. Execute(w, f)
    BY <1>1, <1>4, Zenon
  <1>7. /\ LoopType(r) /\ Once(r) /\ r.batch = q.batch /\ r.pending = q.pending
        /\ r.phase = q.phase /\ r.quit = q.quit
        /\ q.next \in DOMAIN q.batch /\ f \in Functor /\ Waits(q, f)
        /\ \A g : Waits(r, g) <=> Waits(q, g) /\ g # f
        /\ \A x : After(q, x) /\ f # Established(x) => After(r, x)
        /\ \A x : After(q, x) => f # Destroyed(x)
    BY <1>1, <1>3, RanInLoop, Zenon
  <1>8. /\ \A i \in DOMAIN q.pending : OfLoop(Whole, l, q.pending[i])
        /\ \A i \in DOMAIN q.batch : OfLoop(Whole, l, q.batch[i])
    BY LoopHas, Zenon
  <1>9. /\ c \in DOMAIN conns /\ conns[c].loop = l /\ f[1] \in {"connectEstablished", "connectDestroyed"}
        /\ f \in {Established(c), Destroyed(c), Remove(c)}
    BY <1>2, <1>7, <1>8, FunctorsDiffer, Zenon DEF OfLoop
  <1> HIDE DEF r, f, c
  <1>10. f = Established(c) \/ f = Destroyed(c)
    <2>1. Remove(c)[1] = "remove"
      BY DEF Remove
    <2> QED
      BY <1>9, <2>1
  <1>11. \A x : x # c => f # Established(x) /\ f # Destroyed(x)
    BY <1>10, FunctorsDiffer, Zenon
  <1>12. l # Base /\ Due(Whole, f, c)
    <2>1. l # Base
      BY DEF SubLoops, Base
    <2> QED
      BY <1>2, <1>7, <1>9, <2>1, Zenon DEF Due
  <1>13. /\ Others(Whole, w, c)
         /\ r.phase = Whole.loops[l].phase /\ r.quit = Whole.loops[l].quit => Calm(Whole, w)
         /\ w.loops[l] = r
         /\ InMap(w, c) <=> InMap(Whole, c)
         /\ \A g : InBase(w, g) <=> InBase(Whole, g)
         /\ Whole.conns[c].loop = l => \A g : Due(w, g, c) <=> Waits(r, g)
    <2>1. \A x : x # c => /\ Waits(r, Established(x)) <=> Waits(Whole.loops[l], Established(x))
                          /\ Waits(r, Destroyed(x)) <=> Waits(Whole.loops[l], Destroyed(x))
                          /\ After(Whole.loops[l], x) => After(r, x)
      BY <1>2, <1>7, <1>11
    <2>2. /\ \A i \in DOMAIN r.pending : OfLoop(Whole, l, r.pending[i])
          /\ \A i \in DOMAIN r.batch : OfLoop(Whole, l, r.batch[i])
      BY <1>7, <1>8, Zenon
    <2> QED
      <3>1. Assigns(Whole, l, r, c, w)
        BY <1>2, <1>5, <1>7, <2>1, <2>2, Zenon DEF Assigns
      <3>2. Assigned(Whole, l, r, c, w)
        BY <3>1, AssignedIs, Zenon
      <3> QED
        BY <3>2, Zenon DEF Assigned
  <1>14. Calm(Whole, w) /\ DOMAIN w.map \subseteq DOMAIN connections_ /\ w.conns = conns
    BY <1>2, <1>5, <1>7, <1>13, Zenon
  <1>15. \A g : Due(w, g, c) <=> Due(Whole, g, c) /\ g # f
    BY <1>2, <1>7, <1>9, <1>12, <1>13, Zenon DEF Due
  <1>16. CASE f = Established(c)
    <2>1. conns[c].state = "kConnecting" /\ conns[c].freed = FALSE
      BY <1>9, <1>12, <1>16, LifeSays, Zenon
    <2>2. Misuse(w, Established(c)) = {}
      BY <1>14, <2>1, MisuseIs, Zenon
    <2>3. PICK v : v = connectEstablished(w, c)
      OBVIOUS
    <2>4. Release(v, spare)
      <3>1. Run(w, Established(c)) = v
        BY <2>3, RunIs
      <3> QED
        BY <1>6, <1>16, <2>2, <3>1, Zenon DEF Execute
    <2>5. Shape(w) /\ c \in DOMAIN w.conns
      BY <1>9, <1>13, <1>14, Zenon DEF Others
    <2>6. Changed(w, v, c, "kConnected", w.conns[c].removed)
      BY <2>3, <2>5, EstablishRun, Zenon
    <2>7. /\ Others(w, v, c) /\ Calm(w, v) /\ v.map = w.map
          /\ v.conns[c].state = "kConnected" /\ v.conns[c].removed = w.conns[c].removed
          /\ v.conns[c].loop = w.conns[c].loop /\ v.conns[c].freed = w.conns[c].freed
          /\ InMap(v, c) <=> InMap(w, c)
          /\ \A g : InBase(v, g) <=> InBase(w, g)
          /\ \A g : Due(v, g, c) <=> Due(w, g, c)
      BY <2>6, Zenon DEF Changed
    <2>8. Others(Whole, v, c)
      BY <1>13, <2>7, OthersAdd, Zenon
    <2>9. Calm(Whole, v)
      BY <1>2, <1>14, <2>7, CalmAdd, Zenon
    <2>10. Life(v, server, c)
      <3>1. Life(Whole, server, c) /\ Established(c) # Destroyed(c)
        BY <1>9, IdsAre, FunctorsDiffer, Zenon
      <3>2. /\ Due(Whole, Established(c), c)
            /\ v.conns[c].loop = Whole.conns[c].loop
            /\ v.conns[c].removed = Whole.conns[c].removed /\ v.conns[c].freed = Whole.conns[c].freed
            /\ InMap(v, c) <=> InMap(Whole, c)
            /\ InBase(v, Remove(c)) <=> InBase(Whole, Remove(c))
            /\ ~Due(v, Established(c), c)
            /\ Due(v, Destroyed(c), c) <=> Due(Whole, Destroyed(c), c)
        BY <1>2, <1>12, <1>13, <1>14, <1>15, <1>16, <2>7, <3>1, Zenon
      <3> QED
        BY <2>7, <3>1, <3>2, LifeEstablished, Zenon
    <2>11. DOMAIN v.map \subseteq DOMAIN connections_
      BY <1>14, <2>7, Zenon
    <2> QED
      BY <1>1, <2>4, <2>8, <2>9, <2>10, <2>11, Finish, Zenon
  <1>17. CASE f = Destroyed(c)
    <2>1. /\ conns[c].removed = 0 /\ conns[c].freed = FALSE /\ ~InMap(Whole, c)
          /\ Up(server) => conns[c].state = "kDisconnected" /\ ~InBase(Whole, Remove(c))
      BY <1>9, <1>12, <1>17, LifeSays, Zenon
    <2>2. conns[c].state # "kConnecting"
      <3>1. ~After(q, c)
        BY <1>7, <1>17, Zenon
      <3> QED
        BY <1>9, <1>12, <3>1, LifeSays, Zenon
    <2>3. /\ ~InMap(w, c) /\ ~Due(w, Destroyed(c), c) /\ (Up(server) => ~InBase(w, Remove(c)))
          /\ Due(w, Established(c), c) => Due(Whole, Established(c), c)
      BY <1>13, <1>15, <1>17, <2>1, Zenon
    <2> QED
      BY <1>1, <1>6, <1>9, <1>13, <1>14, <1>17, <2>1, <2>2, <2>3, DestroyStep, Zenon
  <1> QED
    BY <1>10, <1>16, <1>17

\* Who nothing holds when a sub-loop has quit with functors in its queue; w is what is left.
LEMMA QuitUnheld ==
    ASSUME NEW w, Shape(w), DOMAIN w.map = {}, NEW l \in SubLoops, w.loops[l].pending = <<>>,
           w.loops[l].batch = <<>>, NEW c \in DOMAIN w.conns, w.conns[c].loop = l, ~InBase(w, Remove(c))
    PROVE  ~Held(w, c)
  <1> SUFFICES ASSUME Held(w, c) PROVE FALSE
    OBVIOUS
  <1>1. /\ w.base \in Seq(Functor)
        /\ \A i \in DOMAIN w.base : OfBase(w, w.base[i])
        /\ \A m \in SubLoops : OwnFunctors(w, m)
    BY Zenon DEF Shape, BaseOK, LoopsOK
  <1>2. c \notin Range(w.map)
    BY DEF Range
  <1>3. l # Base
    BY DEF SubLoops, Base
  <1>4. ASSUME NEW i \in DOMAIN w.base, w.base[i][2] = c PROVE FALSE
    <2>1. w.base[i] \in Functor
      BY <1>1, ElementOfSeq, LenProperties
    <2>2. w.base[i][1] = "remove"
      BY <1>1, <1>3, <1>4, Zenon DEF OfBase
    <2>3. w.base[i] = Remove(c)
      BY <1>4, <2>1, <2>2 DEF Functor, Remove
    <2> QED
      BY <2>3, Zenon DEF InBase
  <1>5. ASSUME NEW m \in SubLoops, NEW q \in {w.loops[m].pending, w.loops[m].batch},
               NEW i \in DOMAIN q, q[i][2] = c
        PROVE  FALSE
    <2>1. OfLoop(w, m, q[i])
      BY <1>1, <1>5, Zenon DEF OwnFunctors
    <2>2. m = l
      BY <1>5, <2>1, Zenon DEF OfLoop
    <2>3. q = <<>>
      BY <1>5, <2>2
    <2> QED
      BY <1>5, <2>3
  <1>6. PICK q \in {w.base} \cup UNION {{w.loops[m].pending, w.loops[m].batch} : m \in SubLoops} :
            \E i \in DOMAIN q : q[i][2] = c
    BY <1>2, Zenon DEF Held
  <1>7. CASE q = w.base
    BY <1>4, <1>6, <1>7, Zenon
  <1>8. ASSUME NEW m \in SubLoops, q \in {w.loops[m].pending, w.loops[m].batch} PROVE FALSE
    BY <1>5, <1>6, <1>8, Zenon
  <1> QED
    BY <1>6, <1>7, <1>8, Zenon

\* A sub-loop that quits: functors that wait in it are dropped, and so are their connections.
LEMMA QuitsStep ==
    ASSUME Fine, NEW l \in SubLoops, loops[l].phase = "functors", server = "joining", NEW w, Shape(w),
           w.loops[l].pending = <<>>, w.loops[l].batch = <<>>, w.loops[l].phase = "exited",
           \A m \in SubLoops : m # l => w.loops[m] = loops[m],
           w.conns = conns, w.map = connections_, w.base = base,
           \A x \in DOMAIN conns : conns[x].loop # l => Same(Whole, w, x),
           Release(w, spare), UNCHANGED <<threadNum_, nextConnId_, server, waiting>>
    PROVE  Fine' \/ Known'
  <1>1. /\ Shape(Whole) /\ Whole.conns = conns /\ Whole.map = connections_ /\ Whole.base = base
        /\ Whole.loops = loops
    BY IdsAre, WholeHas, Zenon
  <1>2. DOMAIN connections_ = {} /\ Phases
    BY DEF Fine, Phases
  <1>3. /\ \A x : ~InMap(w, x) /\ ~InMap(Whole, x)
        /\ \A g : InBase(w, g) <=> InBase(Whole, g)
    BY <1>1, <1>2, Zenon DEF InMap, InBase
  <1>4. \A g : ~Waits(w.loops[l], g)
    BY DEF Waits
  <1>5. l # Base
    BY DEF SubLoops, Base
  <1>6. \A x \in DOMAIN conns : conns[x].loop = l => \A g : ~Due(w, g, x)
    BY <1>4, <1>5, Zenon DEF Due
  <1>7. CASE \A x \in DOMAIN conns : conns[x].loop = l /\ conns[x].freed = FALSE =>
                conns[x].state = "kDisconnected" /\ (conns[x].removed # 0 \/ InBase(w, Remove(x)))
    <2>1. ASSUME NEW x \in DOMAIN conns PROVE Life(w, server, x)
      <3>1. Life(Whole, server, x)
        BY IdsAre, Zenon
      <3>2. CASE conns[x].loop # l
        BY <3>1, <3>2, SameLife, Zenon
      <3>3. CASE conns[x].loop = l
        <4>1. After(w.loops[l], x)
          BY DEF After
        <4>2. ~Up(server)
          BY DEF Up
        <4> QED
          BY <1>1, <1>3, <1>5, <1>6, <1>7, <3>1, <3>3, <4>1, <4>2, Zenon DEF Life
      <3> QED
        BY <3>2, <3>3
    <2>2. Good(w, server)
      BY <2>1, Zenon DEF Good
    <2>3. LoopPhases(w.loops, threadNum_, server)
      <3>1. LoopPhases(loops, threadNum_, server) /\ server # "gone"
        BY <1>2 DEF Phases
      <3>2. ~(l > threadNum_)
        BY <3>1 DEF LoopPhases
      <3>3. ASSUME NEW m \in SubLoops
            PROVE  /\ m > threadNum_ => w.loops[m].phase = "none" /\ w.loops[m].quit = FALSE
                   /\ w.loops[m].quit = TRUE => server = "joining" \/ w.loops[m].phase = "exited"
                   /\ server = "gone" => w.loops[m].phase \notin {"poll", "functors"}
        <4>1. CASE m = l
          BY <3>1, <3>2, <4>1, Zenon
        <4>2. CASE m # l
          BY <3>1, <4>2, Zenon DEF LoopPhases
        <4> QED
          BY <4>1, <4>2, Zenon
      <3> QED
        BY <3>3, Zenon DEF LoopPhases
    <2>4. /\ DOMAIN w.conns = DOMAIN conns /\ DOMAIN w.map \subseteq DOMAIN connections_
          /\ \A x \in DOMAIN conns : /\ w.conns[x].peer = conns[x].peer /\ w.conns[x].hup = conns[x].hup
                                     /\ w.conns[x].freed = conns[x].freed
          /\ threadNum_' = threadNum_ /\ nextConnId_' = nextConnId_ /\ server' = server /\ waiting' = waiting
      BY Zenon
    <2> QED
      BY <2>2, <2>3, <2>4, FineRelease, Zenon
  <1>8. ASSUME NEW x \in DOMAIN conns, conns[x].loop = l, conns[x].freed = FALSE,
               conns[x].state # "kDisconnected" \/ (conns[x].removed = 0 /\ ~InBase(w, Remove(x)))
        PROVE  Known'
    <2>1. AfterRelease(w)
      BY AfterReleaseIs, Zenon
    <2>2. /\ \A c \in DOMAIN conns : conns'[c].loop = conns[c].loop /\ conns'[c].removed = conns[c].removed
          /\ failures' = Failed(w)
      BY <2>1, Zenon DEF AfterRelease
    <2>3. failures' # {}
      <3>1. ~InBase(w, Remove(x))
        <4>1. Life(Whole, server, x)
          BY IdsAre, Zenon
        <4> QED
          BY <1>1, <1>3, <1>8, <4>1, Zenon DEF Life
      <3>2. ~Held(w, x)
        BY <1>2, <1>8, <3>1, QuitUnheld
      <3>3. x \in Lost(w)
        BY <1>8, <3>2, Zenon DEF Lost
      <3>4. Open(w, x) \/ Left(w, x)
        BY <1>8, LeftIs, Zenon DEF Open
      <3> QED
        BY <2>2, <3>3, <3>4, FailedIs, Zenon
    <2>4. ASSUME NEW c \in DOMAIN conns, conns[c].freed = FALSE, ~Held(w, c),
                 conns[c].state # "kDisconnected" \/ conns[c].removed = 0
          PROVE  conns[c].loop # Base /\ conns[c].removed = 0
      <3>1. Life(Whole, server, c) /\ conns[c].removed \in {0, 1}
        BY <1>1, <2>4, IdsAre, ConnFacts, Zenon
      <3>2. conns[c].removed = 0
        BY <1>1, <2>4, <3>1 DEF Life
      <3>3. ~Due(w, Destroyed(c), c) /\ ~InBase(Whole, Remove(c))
        BY <1>3, <2>4, Unheld, Zenon
      <3>4. Due(Whole, Destroyed(c), c)
        BY <1>1, <1>3, <2>4, <3>1, <3>2, <3>3, Zenon DEF Life
      <3>5. conns[c].loop # Base
        BY <1>1, <1>3, <3>3, <3>4, Zenon DEF Due
      <3> QED
        BY <3>2, <3>5
    <2>5. ASSUME NEW f \in failures'
          PROVE  /\ f.at \in {"~TcpConnection", "~Channel"}
                 /\ conns'[f.conn].loop # Base /\ conns'[f.conn].removed = 0
      <3>1. /\ f.conn \in Lost(w)
            /\ \/ f.at = "~TcpConnection" /\ Open(w, f.conn)
               \/ f.at = "~Channel" /\ Left(w, f.conn)
        BY <2>2, <2>5, FailedIs, Zenon
      <3>2. PICK c : c = f.conn
        OBVIOUS
      <3>3. c \in DOMAIN conns /\ conns[c].freed = FALSE /\ ~Held(w, c)
        BY <3>1, <3>2 DEF Lost
      <3>4. conns[c].state # "kDisconnected" \/ conns[c].removed = 0
        BY <3>1, <3>2, LeftIs, Zenon DEF Open
      <3>5. conns[c].loop # Base /\ conns[c].removed = 0
        BY <2>4, <3>3, <3>4, Zenon
      <3>6. conns'[c].loop = conns[c].loop /\ conns'[c].removed = conns[c].removed
        BY <2>2, <3>3, Zenon
      <3>7. f.at \in {"~TcpConnection", "~Channel"}
        BY <3>1
      <3> QED
        BY <3>2, <3>5, <3>6, <3>7, Zenon
    <2>6. server' = "joining"
      OBVIOUS
    <2>7. OnlyKnownFailures'
      BY <2>5, <2>6 DEF OnlyKnownFailures
    <2>8. server' # "new"
      BY <2>6
    <2> QED
      BY <2>3, <2>7, <2>8, Zenon DEF Known
  <1> QED
    BY <1>7, <1>8, Zenon

\* A sub-loop that has run its batch polls again, or quits.
LEMMA EndIterationStep ==
    ASSUME Fine, NEW l \in SubLoops, EndIteration(l)
    PROVE  Fine' \/ Known'
  <1> DEFINE q == loops[l]
             phase == IF q.quit THEN "exited" ELSE "poll"
             s == IF q.quit THEN <<>> ELSE q.pending
             r == [q EXCEPT !.batch = <<>>, !.next = 1, !.phase = phase, !.pending = s]
  <1>1. /\ q.phase = "functors" /\ q.next > Len(q.batch)
        /\ Release([Whole EXCEPT !.loops[l].batch = <<>>, !.loops[l].next = 1,
                                 !.loops[l].phase = IF loops[l].quit THEN "exited" ELSE "poll",
                                 !.loops[l].pending = IF loops[l].quit THEN <<>> ELSE @], spare)
        /\ UNCHANGED <<threadNum_, nextConnId_, server, waiting>>
    BY Zenon DEF EndIteration
  <1>2. /\ Shape(Whole) /\ Whole.conns = conns /\ Whole.map = connections_ /\ Whole.base = base
        /\ Whole.loops = loops /\ Whole = [x \in Fields |-> Whole[x]]
        /\ loops = [m \in SubLoops |-> loops[m]]
    BY IdsAre, WholeHas, Zenon
  <1>3. LoopType(q) /\ Once(q)
    BY IdsAre, Zenon
  <1>4. PICK w : w = [Whole EXCEPT !.loops[l].batch = <<>>, !.loops[l].next = 1,
                                   !.loops[l].phase = IF loops[l].quit THEN "exited" ELSE "poll",
                                   !.loops[l].pending = IF loops[l].quit THEN <<>> ELSE @]
    OBVIOUS
  <1>5. Release(w, spare)
    BY <1>1, <1>4, Zenon
  <1>6. /\ w = [x \in Fields |-> w[x]] /\ w.loops = [Whole.loops EXCEPT ![l] = r]
        /\ w.conns = Whole.conns /\ w.map = Whole.map /\ w.base = Whole.base
    <2> HIDE DEF Whole
    <2> QED
      BY <1>2, <1>4, Zenon DEF Fields
  <1>7. q.quit = TRUE \/ q.quit = FALSE
    BY <1>3 DEF LoopType
  <1>8. /\ phase \in {"poll", "exited"} /\ (s = q.pending \/ s = <<>>)
        /\ q.quit = TRUE => phase = "exited" /\ s = <<>>
        /\ q.quit = FALSE => phase = "poll" /\ s = q.pending
    BY <1>7, Zenon
  <1> HIDE DEF phase, s
  <1>9. /\ LoopType(r) /\ Once(r) /\ r.quit = q.quit /\ r.phase = phase
        /\ r.batch = <<>> /\ r.pending = s
        /\ \A g : Waits(r, g) <=> s = q.pending /\ Waits(q, g)
        /\ \A c : After(q, c) => After(r, c)
    <2>1. r = [q EXCEPT !.batch = <<>>, !.next = 1, !.phase = phase, !.pending = s]
      BY Zenon
    <2> HIDE DEF q, r
    <2>2. r = [phase |-> phase, pending |-> s, batch |-> <<>>, next |-> 1, quit |-> q.quit]
      BY <1>3, <2>1, EndedFields, Zenon
    <2> QED
      BY <1>1, <1>3, <1>8, <2>2, EndedInLoop
  <1> HIDE DEF r
  <1>10. /\ \A i \in DOMAIN q.pending : OfLoop(Whole, l, q.pending[i])
         /\ l > threadNum_ => q.phase = "none" /\ q.quit = FALSE
         /\ q.quit = TRUE => server = "joining" \/ q.phase = "exited"
         /\ server = "gone" => q.phase \notin {"poll", "functors"}
    BY LoopHas, Zenon
  <1>11. /\ \A i \in DOMAIN r.pending : OfLoop(Whole, l, r.pending[i])
         /\ \A i \in DOMAIN r.batch : OfLoop(Whole, l, r.batch[i])
    <2>1. DOMAIN r.batch = {} /\ (r.pending = q.pending \/ DOMAIN r.pending = {})
      BY <1>8, <1>9
    <2> QED
      BY <1>10, <2>1, Zenon
  <1>12. /\ Shape(w) /\ w.loops[l] = r /\ (\A m \in SubLoops : m # l => w.loops[m] = Whole.loops[m])
         /\ \A x : InMap(w, x) <=> InMap(Whole, x)
         /\ \A g : InBase(w, g) <=> InBase(Whole, g)
         /\ \A x \in DOMAIN Whole.conns : Whole.conns[x].loop # l => Same(Whole, w, x)
         /\ \A x, g : Whole.conns[x].loop = l =>
                (Due(w, g, x) <=> Waits(r, g)) /\ (Due(Whole, g, x) <=> Waits(Whole.loops[l], g))
    <2>1. PutsLoop(Whole, l, r, w)
      BY <1>2, <1>6, <1>9, <1>11, Zenon DEF PutsLoop
    <2>2. LoopIsPut(Whole, l, r, w)
      BY <2>1, LoopIs, Zenon
    <2> QED
      BY <2>2, Zenon DEF LoopIsPut
  <1>13. CASE q.quit = TRUE
    <2>1. server = "joining"
      BY <1>1, <1>10, <1>13
    <2>2. w.loops[l].pending = <<>> /\ w.loops[l].batch = <<>> /\ w.loops[l].phase = "exited"
      BY <1>8, <1>9, <1>12, <1>13, Zenon
    <2>3. /\ \A m \in SubLoops : m # l => w.loops[m] = loops[m]
          /\ w.conns = conns /\ w.map = connections_ /\ w.base = base
          /\ \A x \in DOMAIN conns : conns[x].loop # l => Same(Whole, w, x)
      BY <1>2, <1>6, <1>12, Zenon
    <2> QED
      BY <1>1, <1>5, <1>12, <2>1, <2>2, <2>3, QuitsStep, Zenon
  <1>14. CASE q.quit = FALSE
    <2>1. \A g : Waits(r, g) <=> Waits(Whole.loops[l], g)
      BY <1>2, <1>8, <1>9, <1>14, Zenon
    <2>2. ASSUME NEW x \in DOMAIN Whole.conns PROVE Same(Whole, w, x)
      <3>1. CASE Whole.conns[x].loop # l
        BY <1>12, <3>1, Zenon
      <3>2. CASE Whole.conns[x].loop = l
        BY <1>2, <1>6, <1>9, <1>12, <2>1, <3>2, Zenon DEF Same
      <3> QED
        BY <3>1, <3>2
    <2>3. Good(w, server)
      <3>1. ASSUME NEW x \in DOMAIN Whole.conns PROVE Life(w, server, x)
        <4>1. Life(Whole, server, x)
          BY <1>2, IdsAre, Zenon
        <4> QED
          BY <2>2, <4>1, SameLife, Zenon
      <3> QED
        BY <1>6, <1>12, <3>1, Zenon DEF Good
    <2>4. LoopPhases(w.loops, threadNum_, server)
      <3>1. LoopPhases(loops, threadNum_, server)
        BY Zenon DEF Fine, Phases
      <3>2. ~(l > threadNum_) /\ server # "gone" /\ r.quit # TRUE
        BY <1>1, <1>9, <1>10, <1>14, Zenon
      <3>3. ASSUME NEW m \in SubLoops
            PROVE  /\ m > threadNum_ => w.loops[m].phase = "none" /\ w.loops[m].quit = FALSE
                   /\ w.loops[m].quit = TRUE => server = "joining" \/ w.loops[m].phase = "exited"
                   /\ server = "gone" => w.loops[m].phase \notin {"poll", "functors"}
        <4>1. CASE m = l
          BY <1>12, <3>2, <4>1, Zenon
        <4>2. CASE m # l
          BY <1>2, <1>12, <3>1, <4>2, Zenon DEF LoopPhases
        <4> QED
          BY <4>1, <4>2, Zenon
      <3> QED
        BY <3>3, Zenon DEF LoopPhases
    <2>5. /\ DOMAIN w.conns = DOMAIN conns /\ DOMAIN w.map \subseteq DOMAIN connections_
          /\ \A x \in DOMAIN conns : /\ w.conns[x].peer = conns[x].peer /\ w.conns[x].hup = conns[x].hup
                                     /\ w.conns[x].freed = conns[x].freed
          /\ threadNum_' = threadNum_ /\ nextConnId_' = nextConnId_ /\ server' = server /\ waiting' = waiting
      BY <1>1, <1>2, <1>6, Zenon
    <2> QED
      BY <1>5, <2>3, <2>4, <2>5, FineRelease, Zenon
  <1> QED
    BY <1>7, <1>13, <1>14, Zenon

\* The connections with one more.
LEMMA OneMore ==
    ASSUME NEW s \in Seq(Conn), NEW k \in Conn
    PROVE  /\ Append(s, k) \in Seq(Conn) /\ Len(s) \in Nat /\ DOMAIN s = 1..Len(s)
           /\ DOMAIN Append(s, k) = 1..(Len(s) + 1) /\ Append(s, k)[Len(s) + 1] = k
           /\ \A x \in DOMAIN s : /\ Append(s, k)[x] = s[x] /\ x # Len(s) + 1
                                  /\ x \in DOMAIN Append(s, k)
           /\ Len(s) + 1 \in DOMAIN Append(s, k) /\ Len(s) + 1 \notin DOMAIN s
           /\ \A x \in DOMAIN Append(s, k) : x \in DOMAIN s \/ x = Len(s) + 1
  <1>1. /\ Append(s, k) \in Seq(Conn) /\ Len(Append(s, k)) = Len(s) + 1 /\ Len(s) \in Nat
        /\ \A x \in 1..Len(s) : Append(s, k)[x] = s[x]
        /\ Append(s, k)[Len(s) + 1] = k
    BY AppendProperties, LenProperties
  <1>2. DOMAIN s = 1..Len(s) /\ DOMAIN Append(s, k) = 1..(Len(s) + 1)
    BY <1>1, LenProperties
  <1>3. Len(s) + 1 \in 1..(Len(s) + 1) /\ Len(s) + 1 \notin 1..Len(s)
    BY <1>1
  <1>4. \A x \in 1..(Len(s) + 1) : x \in 1..Len(s) \/ x = Len(s) + 1
    BY <1>1
  <1>5. \A x \in 1..Len(s) : x \in 1..(Len(s) + 1) /\ x # Len(s) + 1
    BY <1>1
  <1> QED
    BY <1>1, <1>2, <1>3, <1>4, <1>5, Zenon

\* v is w with a new connection c, whose record is k and whose name is its own in the map.
Added(w, v, k, c) ==
    /\ Shape(v) /\ DOMAIN w.conns = 1..Len(w.conns) /\ Len(w.conns) \in Nat
    /\ DOMAIN v.conns = 1..(Len(w.conns) + 1) /\ v.conns[c] = k
    /\ \A x \in DOMAIN w.conns : v.conns[x] = w.conns[x] /\ x # c
    /\ \A x \in DOMAIN w.conns : ~(InMap(w, x) /\ w.conns[x].name = k.name) => Same(w, v, x)
    /\ InMap(v, c) /\ ~InBase(v, Remove(c)) /\ ~Due(v, Established(c), c) /\ ~Due(v, Destroyed(c), c)
    /\ k.loop # Base => After(v.loops[k.loop], c)

\* newConnection() makes connection c, whose record is k, and enters it in the map.
LEMMA ConnAdded ==
    ASSUME NEW w, Shape(w), NEW k \in Conn, NEW c, c = Len(w.conns) + 1, Named(c, k),
           NEW v, v = [x \in Fields |-> v[x]], v.conns = Append(w.conns, k),
           v.map = With(w.map, k.name, c), v.base = w.base, v.loops = w.loops
    PROVE  Added(w, v, k, c)
  <1>1. w.conns \in Seq(Conn) /\ (\A x \in DOMAIN w.conns : Named(x, w.conns[x])) /\ MapOK(w)
    BY Zenon DEF Shape, ConnsOK
  <1>2. /\ Append(w.conns, k) \in Seq(Conn) /\ Len(w.conns) \in Nat /\ DOMAIN w.conns = 1..Len(w.conns)
        /\ DOMAIN Append(w.conns, k) = 1..(Len(w.conns) + 1) /\ Append(w.conns, k)[Len(w.conns) + 1] = k
        /\ \A x \in DOMAIN w.conns : /\ Append(w.conns, k)[x] = w.conns[x] /\ x # Len(w.conns) + 1
                                     /\ x \in DOMAIN Append(w.conns, k)
        /\ Len(w.conns) + 1 \in DOMAIN Append(w.conns, k) /\ Len(w.conns) + 1 \notin DOMAIN w.conns
        /\ \A x \in DOMAIN Append(w.conns, k) : x \in DOMAIN w.conns \/ x = Len(w.conns) + 1
    BY <1>1, OneMore
  <1>3. /\ \A x \in DOMAIN w.conns : v.conns[x] = w.conns[x] /\ x # c /\ x \in DOMAIN v.conns
        /\ c \in DOMAIN v.conns /\ c \notin DOMAIN w.conns /\ v.conns[c] = k
        /\ \A x \in DOMAIN v.conns : x \in DOMAIN w.conns \/ x = c
        /\ Len(w.conns) \in Nat /\ DOMAIN w.conns = 1..Len(w.conns)
        /\ v.conns \in Seq(Conn) /\ DOMAIN v.conns = 1..(Len(w.conns) + 1)
    BY <1>2, Zenon
  <1>4. ConnsOK(v)
    BY <1>1, <1>2, <1>3, Zenon DEF ConnsOK
  <1>5. /\ DOMAIN v.map = DOMAIN w.map \cup {k.name} /\ v.map[k.name] = c
        /\ \A y \in DOMAIN w.map : y # k.name => v.map[y] = w.map[y]
    BY DEF With
  <1>6. MapOK(v)
    <2>1. ASSUME NEW y \in DOMAIN v.map PROVE v.map[y] \in DOMAIN v.conns /\ v.conns[v.map[y]].name = y
      <3>1. CASE y = k.name
        BY <1>3, <1>5, <3>1
      <3>2. CASE y # k.name
        <4>1. y \in DOMAIN w.map /\ v.map[y] = w.map[y]
          BY <1>5, <2>1, <3>2
        <4>2. w.map[y] \in DOMAIN w.conns /\ w.conns[w.map[y]].name = y
          BY <1>1, <4>1, Zenon DEF MapOK
        <4> QED
          BY <1>3, <4>1, <4>2, Zenon
      <3> QED
        BY <3>1, <3>2
    <2> QED
      BY <2>1 DEF MapOK
  <1>7. /\ DOMAIN w.conns \subseteq DOMAIN v.conns
        /\ \A x \in DOMAIN w.conns : v.conns[x].name = w.conns[x].name /\ v.conns[x].loop = w.conns[x].loop
    BY <1>3, Zenon
  <1>8. BaseOK(v) /\ LoopsOK(v)
    BY <1>7, Frame, Zenon
  <1>9. Shape(v)
    BY <1>4, <1>6, <1>8, Zenon DEF Shape
  <1>10. ASSUME NEW x \in DOMAIN w.conns, ~(InMap(w, x) /\ w.conns[x].name = k.name) PROVE Same(w, v, x)
    <2>1. v.conns[x] = w.conns[x] /\ x # c
      BY <1>3, Zenon
    <2>2. InMap(v, x) <=> InMap(w, x)
      <3>1. CASE w.conns[x].name = k.name
        BY <1>5, <1>10, <2>1, <3>1 DEF InMap
      <3>2. CASE w.conns[x].name # k.name
        BY <1>5, <2>1, <3>2, Zenon DEF InMap
      <3> QED
        BY <3>1, <3>2
    <2> QED
      BY <2>1, <2>2, Zenon DEF Same, InBase, Due
  <1>11. InMap(v, c)
    BY <1>3, <1>5, Zenon DEF InMap
  <1>12. \A f : f[2] = c => ~OfBase(w, f) /\ \A l : ~OfLoop(w, l, f)
    BY <1>3, Zenon DEF OfBase, OfLoop
  <1>13. Established(c)[2] = c /\ Destroyed(c)[2] = c /\ Remove(c)[2] = c
    BY DEF Established, Destroyed, Remove
  <1>14. ~InBase(v, Established(c)) /\ ~InBase(v, Destroyed(c)) /\ ~InBase(v, Remove(c))
    <2>1. \A i \in DOMAIN w.base : OfBase(w, w.base[i])
      BY Zenon DEF Shape, BaseOK
    <2> QED
      BY <1>12, <1>13, <2>1, Zenon DEF InBase
  <1>15. ASSUME NEW l \in SubLoops
         PROVE  /\ ~Waits(v.loops[l], Established(c)) /\ ~Waits(v.loops[l], Destroyed(c))
                /\ After(v.loops[l], c)
    <2>1. /\ \A i \in DOMAIN v.loops[l].pending : v.loops[l].pending[i][2] # c
          /\ \A i \in DOMAIN v.loops[l].batch : v.loops[l].batch[i][2] # c
      <3>1. OwnFunctors(w, l)
        BY Zenon DEF Shape, LoopsOK
      <3> QED
        BY <1>12, <3>1, Zenon DEF OwnFunctors
    <2> QED
      BY <1>13, <2>1, Zenon DEF Waits, After
  <1>16. ~Due(v, Established(c), c) /\ ~Due(v, Destroyed(c), c) /\ (k.loop # Base => After(v.loops[k.loop], c))
    <2>1. k.loop = Base \/ k.loop \in SubLoops
      BY DEF Conn
    <2> QED
      BY <1>3, <1>14, <1>15, <2>1, Zenon DEF Due
  <1> QED
    BY <1>2, <1>3, <1>9, <1>10, <1>11, <1>14, <1>16, Zenon DEF Added

\* A connection is accepted and no assert fails.
LEMMA AcceptEnds ==
    ASSUME Fine, server = "up", waiting # <<>>, NEW u, Good(u, server),
           DOMAIN u.conns = 1..(Len(conns) + 1), u.conns[Len(conns) + 1].peer = Head(waiting),
           \A x \in DOMAIN conns : /\ u.conns[x].peer = conns[x].peer /\ u.conns[x].hup = conns[x].hup
                                   /\ u.conns[x].freed = conns[x].freed,
           LoopPhases(u.loops, threadNum_, server), NEW fds, Release(u, fds), waiting' = Tail(waiting),
           nextConnId_' = IF threadNum_ > 0 THEN nextConnId_ + 1 ELSE nextConnId_,
           threadNum_' = threadNum_, server' = server
    PROVE  Fine'
  <1>1. failures' = {} /\ Good(Whole', server')
    BY Released, Zenon
  <1>2. Shape(u) /\ Phases /\ Line(waiting, conns)
    BY Zenon DEF Good, Fine
  <1>3. /\ loops' = u.loops /\ conns' \in Seq(Conn) /\ DOMAIN conns' = DOMAIN u.conns
        /\ \A c \in DOMAIN u.conns :
               /\ conns'[c].peer = u.conns[c].peer /\ conns'[c].hup = u.conns[c].hup
               /\ u.conns[c].freed = TRUE => conns'[c].freed = TRUE
    <2>1. /\ loops' = u.loops /\ conns' \in Seq(Conn) /\ DOMAIN conns' = DOMAIN u.conns
          /\ \A c \in DOMAIN u.conns :
                 /\ conns'[c] = [u.conns[c] EXCEPT !.freed = conns'[c].freed]
                 /\ conns'[c].peer = u.conns[c].peer /\ conns'[c].hup = u.conns[c].hup
                 /\ conns'[c].name = u.conns[c].name /\ conns'[c].loop = u.conns[c].loop
                 /\ conns'[c].state = u.conns[c].state /\ conns'[c].removed = u.conns[c].removed
                 /\ conns'[c].freed = TRUE <=> u.conns[c].freed = TRUE \/ ~Held(u, c)
      BY <1>2, ReleaseFields, Zenon
    <2> QED
      BY <2>1, Zenon
  <1>4. conns \in Seq(Conn)
    BY IdsAre, Zenon
  <1>5. Len(conns) \in Nat /\ DOMAIN conns = 1..Len(conns) /\ Len(conns') = Len(conns) + 1
    <2>1. Len(conns) \in Nat /\ DOMAIN conns = 1..Len(conns) /\ DOMAIN conns' = 1..Len(conns') /\ Len(conns') \in Nat
      BY <1>3, <1>4, LenProperties
    <2> QED
      BY <1>3, <2>1
  <1>6. Phases'
    <2>1. LoopPhases(loops', threadNum_', server')
      BY <1>3, Zenon
    <2>2. /\ server' \in {"new", "up", "posting", "joining", "gone"} /\ threadNum_' \in 0..MaxSubLoops
          /\ nextConnId_' = IF threadNum_' > 0 THEN Len(conns') + 1 ELSE 1
      BY <1>2, <1>5 DEF Phases
    <2> QED
      BY <2>1, <2>2 DEF Phases
  <1>7. Line(waiting', conns')
    <2>1. /\ Line(Tail(waiting), conns)
          /\ \A i \in DOMAIN Tail(waiting) : Tail(waiting)[i] # Head(waiting)
      BY <1>2, TailWaits, Zenon
    <2>2. \A c \in DOMAIN conns' : c \in DOMAIN conns \/ c = Len(conns) + 1
      BY <1>3, <1>5
    <2>3. \A c \in DOMAIN conns : /\ conns'[c].peer = conns[c].peer /\ conns'[c].hup = conns[c].hup
                                  /\ conns[c].freed = TRUE => conns'[c].freed = TRUE
      <3>1. DOMAIN conns \subseteq DOMAIN u.conns
        BY <1>5
      <3> QED
        BY <1>3, <3>1, Zenon
    <2>4. conns'[Len(conns) + 1].peer = Head(waiting)
      BY <1>3, <1>5
    <2>5. ASSUME NEW i \in DOMAIN waiting', NEW c \in DOMAIN conns', conns'[c].peer = waiting'[i]
          PROVE  conns'[c].freed = TRUE \/ conns'[c].hup = "rst"
      <3>1. c \in DOMAIN conns
        BY <2>1, <2>2, <2>4, <2>5
      <3> QED
        BY <2>1, <2>3, <2>5, <3>1 DEF Line
    <2> QED
      BY <2>1, <2>5, Zenon DEF Line
  <1> QED
    BY <1>1, <1>6, <1>7, Zenon DEF Fine

\* The record of a new connection.
NewConn(peer, name, loop) ==
    [peer |-> peer, name |-> name, loop |-> loop, state |-> "kConnecting",
     output |-> FALSE, hup |-> "no", removed |-> 0, freed |-> FALSE]

\* The whole with it.
Entered(w, k, c) == [w EXCEPT !.conns = Append(w.conns, k), !.map = With(w.map, k.name, c)]

\* What newConnection() enters, while connection x keeps its entry: everything but x's.
LEMMA EnteredIs ==
    ASSUME Fine, NEW k \in Conn, NEW c, c = Len(conns) + 1, Named(c, k), NEW v, v = Entered(Whole, k, c)
    PROVE  Added(Whole, v, k, c) /\ v.loops = loops /\ v.base = base
  <1>1. /\ Shape(Whole) /\ Whole.conns = conns /\ Whole.map = connections_ /\ Whole.base = base
        /\ Whole.loops = loops /\ Whole = [x \in Fields |-> Whole[x]]
    BY IdsAre, WholeHas, Zenon
  <1>2. PICK w : w = Whole
    OBVIOUS
  <1>3. w = [x \in Fields |-> w[x]] /\ v = Entered(w, k, c) /\ Shape(w)
    BY <1>1, <1>2, Zenon
  <1>4. /\ v = [x \in Fields |-> v[x]] /\ v.conns = Append(w.conns, k)
        /\ v.map = With(w.map, k.name, c) /\ v.base = w.base /\ v.loops = w.loops
    BY <1>3, Zenon DEF Entered, Fields
  <1>5. c = Len(w.conns) + 1
    BY <1>1, <1>2
  <1>6. Added(w, v, k, c)
    BY <1>3, <1>4, <1>5, ConnAdded, Zenon
  <1> QED
    BY <1>1, <1>2, <1>4, <1>6, Zenon

\* connectEstablished() of a new connection is queued in its sub-loop.
LEMMA EstablishQueued ==
    ASSUME NEW w, Shape(w), NEW c \in DOMAIN w.conns, w.conns[c].loop # Base, ~Due(w, Established(c), c),
           After(w.loops[w.conns[c].loop], c), NEW v, v = Queue(w, "connectEstablished", c)
    PROVE  /\ Others(w, v, c) /\ Calm(w, v)
           /\ v.conns = w.conns /\ v.map = w.map
           /\ InMap(v, c) <=> InMap(w, c)
           /\ InBase(v, Remove(c)) <=> InBase(w, Remove(c))
           /\ \A g : Due(v, g, c) <=> Due(w, g, c) \/ g = Established(c)
           /\ After(v.loops[w.conns[c].loop], c)
  <1>1. PICK name : name = "connectEstablished"
    OBVIOUS
  <1>2. /\ name \in {"connectEstablished", "connectDestroyed"} /\ name # "connectDestroyed"
        /\ <<name, c>> = Established(c) /\ v = Queue(w, name, c)
    BY <1>1 DEF Established
  <1>3. /\ Others(w, v, c) /\ Calm(w, v)
        /\ v.conns = w.conns /\ v.map = w.map
        /\ InMap(v, c) <=> InMap(w, c)
        /\ InBase(v, Remove(c)) <=> InBase(w, Remove(c))
        /\ \A g : Due(v, g, c) <=> Due(w, g, c) \/ g = <<name, c>>
        /\ /\ w.conns[c].loop # Base /\ After(w.loops[w.conns[c].loop], c)
           /\ name = "connectDestroyed" => Due(w, Established(c), c)
           => After(v.loops[w.conns[c].loop], c)
    BY <1>2, Queued, Zenon
  <1> QED
    BY <1>2, <1>3, Zenon

\* The life of a connection that waits for connectEstablished() in its sub-loop.
LEMMA LifeQueued ==
    ASSUME NEW w, NEW s, NEW c, w.conns[c].state = "kConnecting", w.conns[c].removed = 0,
           w.conns[c].freed = FALSE, w.conns[c].loop # Base, After(w.loops[w.conns[c].loop], c),
           InMap(w, c), ~InBase(w, Remove(c)), Due(w, Established(c), c), ~Due(w, Destroyed(c), c)
    PROVE  Life(w, s, c)
  <1>1. w.conns[c].state # "kDisconnected" /\ w.conns[c].removed # 1
    OBVIOUS
  <1>2. w.conns[c].freed # TRUE
    BY Zenon
  <1> QED
    BY <1>1, <1>2, Zenon DEF Life

\* v has the new connection c, whose record is k, before connectEstablished().
Fresh(v, k, c) ==
    /\ k \in Conn /\ c = Len(conns) + 1 /\ Named(c, k)
    /\ k.state = "kConnecting" /\ k.removed = 0 /\ k.freed = FALSE
    /\ Added(Whole, v, k, c) /\ v.loops = loops /\ v.base = base

\* u has it afterwards, and everything is in order.
Joins(u, k, c) ==
    /\ Good(u, server) /\ DOMAIN u.conns = 1..(Len(conns) + 1) /\ u.conns[c].peer = k.peer
    /\ \A x \in DOMAIN conns : /\ u.conns[x].peer = conns[x].peer /\ u.conns[x].hup = conns[x].hup
                               /\ u.conns[x].freed = conns[x].freed
    /\ LoopPhases(u.loops, threadNum_, server)

\* newConnection() with sub-loops: connectEstablished() is queued there.
LEMMA AcceptToLoop ==
    ASSUME Fine, NEW k, NEW c, NEW v, Fresh(v, k, c), k.loop # Base,
           NEW u, u = Queue(v, "connectEstablished", c)
    PROVE  Joins(u, k, c)
  <1>0. /\ k \in Conn /\ c = Len(conns) + 1 /\ Named(c, k)
        /\ k.state = "kConnecting" /\ k.removed = 0 /\ k.freed = FALSE
        /\ Added(Whole, v, k, c) /\ v.loops = loops
    BY Zenon DEF Fresh
  <1> USE <1>0
  <1>1. /\ Shape(v) /\ DOMAIN conns = 1..Len(conns) /\ Len(conns) \in Nat
        /\ DOMAIN v.conns = 1..(Len(conns) + 1) /\ v.conns[c] = k
        /\ \A x \in DOMAIN conns : v.conns[x] = conns[x] /\ x # c
        /\ \A x \in DOMAIN conns : ~(InMap(Whole, x) /\ conns[x].name = k.name) => Same(Whole, v, x)
        /\ InMap(v, c) /\ ~InBase(v, Remove(c)) /\ ~Due(v, Established(c), c) /\ ~Due(v, Destroyed(c), c)
        /\ After(v.loops[k.loop], c)
    BY WholeHas, Zenon DEF Added
  <1>2. c \in DOMAIN v.conns /\ c \in Nat /\ \A x \in DOMAIN v.conns : x \in DOMAIN conns \/ x = c
    <2>1. \A n \in Nat : /\ n + 1 \in 1..(n + 1) /\ n + 1 \in Nat
                         /\ \A x \in 1..(n + 1) : x \in 1..n \/ x = n + 1
      OBVIOUS
    <2> QED
      BY <1>1, <2>1, Zenon
  <1>3. ASSUME NEW x \in DOMAIN conns PROVE Same(Whole, v, x) /\ Life(Whole, server, x)
    <2>0. Shape(Whole) /\ x \in DOMAIN Whole.conns /\ Whole.conns = conns
      BY IdsAre, WholeHas, Zenon
    <2>1. Named(x, conns[x]) /\ x \in Nat /\ x # c
      BY <1>1, <2>0, ConnFacts, Zenon
    <2>2. conns[x].name.id # c + 1 /\ k.name.id = c + 1
      BY <1>2, <2>1 DEF Named
    <2> QED
      BY <1>1, <2>2, IdsAre, Zenon
  <1>4. /\ Others(v, u, c) /\ Calm(v, u)
        /\ u.conns = v.conns /\ u.map = v.map
        /\ InMap(u, c) <=> InMap(v, c)
        /\ InBase(u, Remove(c)) <=> InBase(v, Remove(c))
        /\ \A g : Due(u, g, c) <=> Due(v, g, c) \/ g = Established(c)
        /\ After(u.loops[v.conns[c].loop], c)
    <2>1. /\ Shape(v) /\ c \in DOMAIN v.conns /\ v.conns[c].loop # Base /\ ~Due(v, Established(c), c)
          /\ After(v.loops[v.conns[c].loop], c)
      BY <1>1, <1>2, Zenon
    <2> QED
      BY <2>1, EstablishQueued
  <1>5. ASSUME NEW x \in DOMAIN conns PROVE Life(u, server, x)
    <2>0. x \in DOMAIN v.conns /\ x # c
      BY <1>1
    <2>1. Same(v, u, x)
      BY <1>4, <2>0, Zenon DEF Others
    <2>2. Life(v, server, x)
      BY <1>3, SameLife, Zenon
    <2> QED
      BY <2>1, <2>2, SameLife, Zenon
  <1>6. Life(u, server, c)
    <2>1. Established(c) # Destroyed(c)
      BY FunctorsDiffer
    <2>2. /\ u.conns[c].state = "kConnecting" /\ u.conns[c].removed = 0 /\ u.conns[c].freed = FALSE
          /\ u.conns[c].loop # Base /\ After(u.loops[u.conns[c].loop], c)
          /\ InMap(u, c) /\ ~InBase(u, Remove(c)) /\ Due(u, Established(c), c) /\ ~Due(u, Destroyed(c), c)
      BY <1>1, <1>4, <2>1, Zenon
    <2> QED
      BY <2>2, LifeQueued, Zenon
  <1>7. Good(u, server)
    BY <1>2, <1>4, <1>5, <1>6, Zenon DEF Good, Others
  <1>8. LoopPhases(u.loops, threadNum_, server)
    <2>1. LoopPhases(loops, threadNum_, server)
      BY Zenon DEF Phases, Fine
    <2>2. \A m \in SubLoops : u.loops[m].phase = loops[m].phase /\ u.loops[m].quit = loops[m].quit
      BY <1>4, Zenon DEF Calm
    <2> QED
      BY <2>1, <2>2, Zenon DEF LoopPhases
  <1> QED
    BY <1>1, <1>4, <1>7, <1>8, Zenon DEF Joins

\* A connection of the base loop that has left the map is held only by its connectDestroyed().
LEMMA BaseUnheld ==
    ASSUME NEW w, Shape(w), NEW c \in DOMAIN w.conns, w.conns[c].loop = Base, ~InMap(w, c),
           ~Due(w, Destroyed(c), c)
    PROVE  ~Held(w, c)
  <1> SUFFICES ASSUME Held(w, c) PROVE FALSE
    OBVIOUS
  <1>1. /\ w.base \in Seq(Functor) /\ MapOK(w)
        /\ \A i \in DOMAIN w.base : OfBase(w, w.base[i])
        /\ \A m \in SubLoops : OwnFunctors(w, m)
    BY Zenon DEF Shape, BaseOK, LoopsOK
  <1>2. c \notin Range(w.map)
    BY <1>1 DEF Range, MapOK, InMap
  <1>3. Base \notin SubLoops
    BY DEF SubLoops, Base
  <1>4. ASSUME NEW i \in DOMAIN w.base, w.base[i][2] = c PROVE FALSE
    <2>1. w.base[i] \in Functor
      BY <1>1, ElementOfSeq, LenProperties
    <2>2. w.base[i][1] = "connectDestroyed"
      BY <1>1, <1>4, Zenon DEF OfBase
    <2>3. w.base[i] = Destroyed(c)
      BY <1>4, <2>1, <2>2 DEF Functor, Destroyed
    <2> QED
      BY <2>3, Zenon DEF InBase, Due
  <1>5. ASSUME NEW m \in SubLoops, NEW q \in {w.loops[m].pending, w.loops[m].batch},
               NEW i \in DOMAIN q, q[i][2] = c
        PROVE  FALSE
    <2>1. OfLoop(w, m, q[i])
      BY <1>1, <1>5, Zenon DEF OwnFunctors
    <2> QED
      BY <1>3, <1>5, <2>1, Zenon DEF OfLoop
  <1>6. PICK q \in {w.base} \cup UNION {{w.loops[m].pending, w.loops[m].batch} : m \in SubLoops} :
            \E i \in DOMAIN q : q[i][2] = c
    BY <1>2, Zenon DEF Held
  <1>7. CASE q = w.base
    BY <1>4, <1>6, <1>7, Zenon
  <1>8. ASSUME NEW m \in SubLoops, q \in {w.loops[m].pending, w.loops[m].batch} PROVE FALSE
    BY <1>5, <1>6, <1>8, Zenon
  <1> QED
    BY <1>6, <1>7, <1>8, Zenon

\* The life of a connection of the base loop that is up.
LEMMA LifeUp ==
    ASSUME NEW w, NEW s, NEW c, w.conns[c].state = "kConnected", w.conns[c].removed = 0,
           w.conns[c].freed = FALSE, w.conns[c].loop = Base,
           InMap(w, c), ~InBase(w, Remove(c)), ~Due(w, Established(c), c), ~Due(w, Destroyed(c), c)
    PROVE  Life(w, s, c)
  <1>1. w.conns[c].state # "kDisconnected" /\ w.conns[c].state # "kConnecting" /\ w.conns[c].removed # 1
    OBVIOUS
  <1>2. w.conns[c].freed # TRUE
    BY Zenon
  <1> QED
    BY <1>1, <1>2, Zenon DEF Life

\* The same in the base loop: whoever had the name loses its entry and its last reference.
Enters(u, k, c) ==
    /\ Shape(u) /\ DOMAIN u.conns = 1..(Len(conns) + 1) /\ u.conns[c].peer = k.peer
    /\ u.conns[c].name = k.name
    /\ \A x \in DOMAIN conns : u.conns[x] = conns[x]
    /\ LoopPhases(u.loops, threadNum_, server)
    /\ Life(u, server, c)
    /\ \A x \in DOMAIN conns : ~(InMap(Whole, x) /\ conns[x].name = k.name) => Life(u, server, x)
    /\ \A x \in DOMAIN conns : InMap(Whole, x) /\ conns[x].name = k.name =>
           conns[x].freed = FALSE /\ conns[x].state # "kDisconnected" /\ ~Held(u, x)

\* newConnection() without sub-loops runs connectEstablished().
LEMMA AcceptToBase ==
    ASSUME Fine, server = "up", NEW k, NEW c, NEW v, Fresh(v, k, c), k.loop = Base,
           NEW u, u = connectEstablished(v, c)
    PROVE  Enters(u, k, c)
  <1>0. /\ k \in Conn /\ c = Len(conns) + 1 /\ Named(c, k)
        /\ k.state = "kConnecting" /\ k.removed = 0 /\ k.freed = FALSE
        /\ Added(Whole, v, k, c) /\ v.loops = loops /\ v.base = base
    BY Zenon DEF Fresh
  <1> USE <1>0
  <1>1. /\ Shape(v) /\ DOMAIN conns = 1..Len(conns) /\ Len(conns) \in Nat
        /\ DOMAIN v.conns = 1..(Len(conns) + 1) /\ v.conns[c] = k
        /\ \A x \in DOMAIN conns : v.conns[x] = conns[x] /\ x # c
        /\ \A x \in DOMAIN conns : ~(InMap(Whole, x) /\ conns[x].name = k.name) => Same(Whole, v, x)
        /\ InMap(v, c) /\ ~InBase(v, Remove(c)) /\ ~Due(v, Established(c), c) /\ ~Due(v, Destroyed(c), c)
    BY WholeHas, Zenon DEF Added
  <1>2. c \in DOMAIN v.conns /\ c \in Nat /\ \A x \in DOMAIN conns : x \in DOMAIN v.conns
    <2>1. \A n \in Nat : n + 1 \in 1..(n + 1) /\ n + 1 \in Nat /\ \A x \in 1..n : x \in 1..(n + 1)
      OBVIOUS
    <2> QED
      BY <1>1, <2>1, Zenon
  <1>3. Changed(v, u, c, "kConnected", v.conns[c].removed)
    BY <1>1, <1>2, EstablishRun, Zenon
  <1>4. /\ Shape(u) /\ DOMAIN u.conns = DOMAIN v.conns /\ Calm(v, u)
        /\ \A x \in DOMAIN conns : Same(v, u, x) /\ u.conns[x] = conns[x]
    <2>1. Others(v, u, c) /\ Calm(v, u)
      BY <1>3, Zenon DEF Changed
    <2>2. Shape(u) /\ DOMAIN u.conns = DOMAIN v.conns /\ \A x \in DOMAIN v.conns : x # c => Same(v, u, x)
      BY <2>1, Zenon DEF Others
    <2> QED
      BY <1>1, <1>2, <2>1, <2>2, Zenon DEF Same
  <1>5. Life(u, server, c)
    <2>1. /\ u.conns[c].state = "kConnected" /\ u.conns[c].removed = 0 /\ u.conns[c].freed = FALSE
          /\ u.conns[c].loop = Base
          /\ InMap(u, c) /\ ~InBase(u, Remove(c)) /\ ~Due(u, Established(c), c) /\ ~Due(u, Destroyed(c), c)
      BY <1>1, <1>3, Zenon DEF Changed
    <2> QED
      BY <2>1, LifeUp, Zenon
  <1>6. u.conns[c].peer = k.peer /\ u.conns[c].name = k.name
    <2>1. v.conns[c] = k /\ c \in DOMAIN v.conns /\ Calm(v, u)
      BY <1>1, <1>2, <1>4, Zenon
    <2>2. u.conns[c].peer = v.conns[c].peer /\ u.conns[c].name = v.conns[c].name
      BY <2>1, Zenon DEF Calm
    <2> QED
      BY <2>1, <2>2, Zenon
  <1>7. ASSUME NEW x \in DOMAIN conns, ~(InMap(Whole, x) /\ conns[x].name = k.name) PROVE Life(u, server, x)
    <2>1. Life(Whole, server, x) /\ Same(Whole, v, x) /\ Same(v, u, x)
      BY <1>1, <1>4, <1>7, IdsAre, Zenon
    <2>2. Life(v, server, x)
      BY <2>1, SameLife, Zenon
    <2> QED
      BY <2>1, <2>2, SameLife, Zenon
  <1>8. ASSUME NEW x \in DOMAIN conns, InMap(Whole, x), conns[x].name = k.name
        PROVE  conns[x].freed = FALSE /\ conns[x].state # "kDisconnected" /\ ~Held(u, x)
    <2>1. /\ Shape(Whole) /\ Whole.conns = conns /\ Life(Whole, server, x) /\ x \in DOMAIN Whole.conns
          /\ Whole.base = base
      BY IdsAre, WholeHas, Zenon
    <2>2. Named(x, conns[x]) /\ x \in Nat \ {0} /\ conns[x].freed \in BOOLEAN
      <3>1. Named(x, conns[x]) /\ conns[x].freed \in BOOLEAN
        BY <2>1, ConnFacts, Zenon
      <3> QED
        BY <1>1, <3>1
    <2>3. conns[x].loop = Base
      <3>1. k.name.id = 1 /\ conns[x].name.id = IF conns[x].loop = Base THEN 1 ELSE x + 1
        BY <2>2 DEF Named
      <3> QED
        BY <1>8, <2>2, <3>1
    <2>4. ~InBase(Whole, Remove(x))
      <3>1. \A i \in DOMAIN base : OfBase(Whole, base[i])
        BY <2>1, Zenon DEF Shape, BaseOK
      <3>2. Remove(x)[1] = "remove" /\ Remove(x)[2] = x
        BY DEF Remove
      <3>3. ~OfBase(Whole, Remove(x))
        BY <2>1, <2>3, <3>2 DEF OfBase
      <3> QED
        BY <2>1, <3>1, <3>3, Zenon DEF InBase
    <2>5. Up(server)
      BY DEF Up
    <2>6. conns[x].freed = FALSE /\ conns[x].state # "kDisconnected" /\ ~Due(Whole, Destroyed(x), x)
      <3>1. conns[x].freed # TRUE /\ conns[x].state # "kDisconnected" /\ ~Due(Whole, Destroyed(x), x)
        BY <1>8, <2>1, <2>4, <2>5, Zenon DEF Life
      <3> QED
        BY <2>2, <3>1, Zenon
    <2>7. ~InMap(v, x) /\ ~Due(v, Destroyed(x), x)
      <3>1. ~InMap(v, x)
        <4>1. v.conns[x] = conns[x] /\ x # c /\ v.conns[c] = k /\ InMap(v, c)
          BY <1>1, Zenon
        <4>2. v.map[k.name] = c
          BY <4>1, Zenon DEF InMap
        <4>3. v.conns[x].name = k.name
          BY <1>8, <4>1, Zenon
        <4> QED
          BY <4>1, <4>2, <4>3, Zenon DEF InMap
      <3>2. ~Due(v, Destroyed(x), x)
        <4>1. v.conns[x] = conns[x] /\ v.base = Whole.base /\ Whole.conns = conns
          BY <1>1, <2>1, Zenon
        <4>2. ~InBase(Whole, Destroyed(x))
          BY <2>3, <2>6, <4>1, Zenon DEF Due
        <4>3. ~InBase(v, Destroyed(x)) /\ v.conns[x].loop = Base
          BY <2>3, <4>1, <4>2, Zenon DEF InBase
        <4> QED
          BY <4>3, Zenon DEF Due
      <3> QED
        BY <3>1, <3>2
    <2>8. ~InMap(u, x) /\ ~Due(u, Destroyed(x), x) /\ x \in DOMAIN u.conns /\ u.conns[x].loop = Base
      BY <1>2, <1>4, <2>3, <2>7, Zenon DEF Same
    <2> QED
      BY <1>4, <2>6, <2>8, BaseUnheld, Zenon
  <1>9. LoopPhases(u.loops, threadNum_, server)
    <2>1. LoopPhases(loops, threadNum_, server)
      BY Zenon DEF Phases, Fine
    <2>2. \A m \in SubLoops : u.loops[m].phase = loops[m].phase /\ u.loops[m].quit = loops[m].quit
      BY <1>4, Zenon DEF Calm
    <2> QED
      BY <2>1, <2>2, Zenon DEF LoopPhases
  <1> QED
    BY <1>1, <1>4, <1>5, <1>6, <1>7, <1>8, <1>9, Zenon DEF Enters

\* A client that reset its connection d comes back under its name: the entry of d is overwritten.
LEMMA Overwritten ==
    ASSUME Fine, server = "up", threadNum_ = 0, waiting # <<>>, NEW c, c = Len(conns) + 1, NEW u, Shape(u),
           DOMAIN u.conns = 1..(Len(conns) + 1), NEW name, name.peer = Head(waiting), u.conns[c].name = name,
           \A x \in DOMAIN conns : u.conns[x] = conns[x],
           Life(u, server, c),
           \A x \in DOMAIN conns : ~(InMap(Whole, x) /\ conns[x].name = name) => Life(u, server, x),
           \A x \in DOMAIN conns : InMap(Whole, x) /\ conns[x].name = name =>
               conns[x].freed = FALSE /\ conns[x].state # "kDisconnected" /\ ~Held(u, x),
           NEW d \in DOMAIN conns, InMap(Whole, d), conns[d].name = name,
           NEW fds, Release(u, fds), threadNum_' = threadNum_, server' = server
    PROVE  Known'
  <1>1. /\ conns \in Seq(Conn) /\ Shape(Whole) /\ Whole.conns = conns /\ Line(waiting, conns)
    BY IdsAre, WholeHas, Zenon DEF Fine
  <1>2. Len(conns) \in Nat /\ DOMAIN conns = 1..Len(conns)
    BY <1>1, LenProperties
  <1>3. /\ \A x \in DOMAIN conns : x \in DOMAIN u.conns /\ c > x
        /\ \A x \in DOMAIN u.conns : x \in DOMAIN conns \/ x = c
        /\ c \in DOMAIN u.conns
    BY <1>2
  <1>4. /\ conns' \in Seq(Conn) /\ DOMAIN conns' = DOMAIN u.conns
        /\ \A x \in DOMAIN u.conns :
               /\ conns'[x] = [u.conns[x] EXCEPT !.freed = conns'[x].freed]
               /\ conns'[x].peer = u.conns[x].peer /\ conns'[x].hup = u.conns[x].hup
               /\ conns'[x].name = u.conns[x].name /\ conns'[x].loop = u.conns[x].loop
               /\ conns'[x].state = u.conns[x].state /\ conns'[x].removed = u.conns[x].removed
               /\ conns'[x].freed = TRUE <=> u.conns[x].freed = TRUE \/ ~Held(u, x)
        /\ failures' = Failed(u)
    <2>1. AfterRelease(u)
      BY AfterReleaseIs, Zenon
    <2> QED
      BY <2>1, Zenon DEF AfterRelease
  <1>5. failures' # {}
    <2>1. d \in DOMAIN u.conns /\ u.conns[d].freed = FALSE /\ ~Held(u, d) /\ u.conns[d].state # "kDisconnected"
      BY <1>3, Zenon
    <2>2. d \in Lost(u) /\ Open(u, d)
      BY <2>1, Zenon DEF Lost, Open
    <2> QED
      BY <1>4, <2>2, FailedIs, Zenon
  <1>6. ASSUME NEW x \in DOMAIN u.conns, u.conns[x].freed = FALSE, ~Held(u, x), Open(u, x) \/ Left(u, x)
        PROVE  x \in DOMAIN conns /\ InMap(Whole, x) /\ conns[x].name = name
    <2>1. ~Life(u, server, x)
      <3>1. ~InMap(u, x) /\ ~Due(u, Destroyed(x), x) /\ ~InBase(u, Remove(x))
        BY <1>6, Unheld, Zenon
      <3>2. \/ u.conns[x].state # "kDisconnected"
            \/ u.conns[x].state = "kDisconnected" /\ u.conns[x].removed = 0
        BY <1>6, LeftIs, Zenon DEF Open
      <3> QED
        BY <1>6, <3>1, <3>2, Zenon DEF Life
    <2> QED
      BY <1>3, <2>1, Zenon
  <1>7. ASSUME NEW f \in failures'
        PROVE  /\ f.at = "~TcpConnection" /\ conns'[f.conn].hup = "rst"
               /\ c \in Ids' /\ c > f.conn /\ conns'[c].name = conns'[f.conn].name
    <2>1. PICK x : /\ x = f.conn /\ x \in Lost(u)
                   /\ \/ f.at = "~TcpConnection" /\ Open(u, x)
                      \/ f.at = "~Channel" /\ Left(u, x)
      BY <1>4, <1>7, FailedIs, Zenon
    <2>3. x \in DOMAIN conns /\ InMap(Whole, x) /\ conns[x].name = name
      <3>1. x \in DOMAIN u.conns /\ u.conns[x].freed = FALSE /\ ~Held(u, x)
        BY <2>1 DEF Lost
      <3> QED
        BY <1>6, <2>1, <3>1, Zenon
    <2>2. f.at = "~TcpConnection" /\ f.conn = x
      <3>1. u.conns[x].state # "kDisconnected"
        BY <2>3, Zenon
      <3>2. ~Left(u, x)
        BY <3>1, LeftIs, Zenon
      <3> QED
        BY <2>1, <3>2, Zenon
    <2>4. conns[x].peer = Head(waiting)
      <3>1. Named(x, conns[x])
        BY <1>1, <2>3, ConnFacts, Zenon
      <3> QED
        BY <2>3, <3>1 DEF Named
    <2>5. conns[x].freed = TRUE \/ conns[x].hup = "rst"
      BY <1>1, <2>3, <2>4, TailWaits, Zenon
    <2>6. conns[x].freed # TRUE
      <3>1. conns[x].freed = FALSE
        BY <2>3, Zenon
      <3> QED
        BY <3>1, Zenon
    <2>7. conns'[x].hup = "rst" /\ conns'[x].name = name /\ conns'[c].name = name
      BY <1>3, <1>4, <2>3, <2>5, <2>6, Zenon
    <2>8. c \in Ids'
      <3>1. DOMAIN conns' = 1..Len(conns')
        BY <1>4, LenProperties
      <3> QED
        BY <1>3, <1>4, <3>1 DEF Ids
    <2> QED
      BY <1>3, <2>2, <2>3, <2>7, <2>8, Zenon
  <1>8. OnlyKnownFailures'
    <2>1. threadNum_' = 0
      OBVIOUS
    <2>2. ASSUME NEW f \in failures'
          PROVE  /\ f.at = "~TcpConnection" /\ threadNum_' = 0 /\ conns'[f.conn].hup = "rst"
                 /\ \E e \in Ids' : e > f.conn /\ conns'[e].name = conns'[f.conn].name
      BY <1>7, <2>1, Zenon
    <2> QED
      BY <2>2 DEF OnlyKnownFailures
  <1>9. server' # "new"
    OBVIOUS
  <1> QED
    BY <1>5, <1>8, <1>9, Zenon DEF Known

\* handleRead(): what the new connection is.
LEMMA AcceptIs ==
    ASSUME Fine, Accept
    PROVE  /\ server = "up" /\ waiting # <<>> /\ waiting' = Tail(waiting)
           /\ threadNum_' = threadNum_ /\ server' = server
           /\ nextConnId_' = IF threadNum_ > 0 THEN nextConnId_ + 1 ELSE nextConnId_
           /\ \E k, v, u, c :
                  /\ Fresh(v, k, c) /\ k.peer = Head(waiting)
                  /\ k.loop = Base <=> threadNum_ = 0
                  /\ u = IF k.loop = Base THEN connectEstablished(v, c) ELSE Queue(v, "connectEstablished", c)
                  /\ Release(u, spare - 1)
  <1> DEFINE peer == Head(waiting)
             loop == IF threadNum_ > 0 THEN (nextConnId_ % threadNum_) + 1 ELSE Base
  <1>1. /\ server = "up" /\ waiting # <<>> /\ waiting' = Tail(waiting)
        /\ threadNum_' = threadNum_ /\ server' = server
        /\ newConnection(peer)
    BY Zenon DEF Accept
  <1>2. PICK c : c = Len(conns) + 1
    OBVIOUS
  <1>3. PICK k : k = NewConn(peer, NextName(peer), loop)
    OBVIOUS
  <1>4. PICK v : v = Entered(Whole, k, c)
    OBVIOUS
  <1>5. PICK u : u = IF loop = Base THEN connectEstablished(v, c) ELSE Queue(v, "connectEstablished", c)
    OBVIOUS
  <1>6. k.name = NextName(peer)
    BY <1>3, Zenon DEF NewConn
  <1>7. /\ nextConnId_' = IF threadNum_ > 0 THEN nextConnId_ + 1 ELSE nextConnId_
        /\ Release(u, spare - 1)
    <2>1. v = [Whole EXCEPT !.conns = Append(@, k), !.map = With(@, NextName(peer), c)]
      BY <1>4, <1>6 DEF Entered
    <2> QED
      BY <1>1, <1>2, <1>3, <1>5, <2>1, Zenon DEF newConnection, NewConn
  <1>8. Phases /\ Line(waiting, conns) /\ conns \in Seq(Conn) /\ Len(conns) \in Nat
    BY IdsAre, LenProperties DEF Fine
  <1>9. peer \in Peers
    BY <1>1, <1>8, TailWaits, Zenon
  <1>10. threadNum_ \in 0..MaxSubLoops /\ MaxSubLoops \in Nat /\ nextConnId_ = IF threadNum_ > 0 THEN c ELSE 1
    BY <1>2, <1>8, TcpServerAssumption, Zenon DEF Phases
  <1>11. c \in Nat \ {0}
    BY <1>2, <1>8
  <1>12. loop \in {Base} \cup SubLoops /\ (loop = Base <=> threadNum_ = 0)
    <2>1. CASE threadNum_ = 0
      BY <2>1
    <2>2. CASE threadNum_ > 0
      <3>1. nextConnId_ \in Nat /\ threadNum_ \in Nat \ {0} /\ threadNum_ <= MaxSubLoops
        BY <1>10, <1>11, <2>2
      <3>2. nextConnId_ % threadNum_ \in 0..(threadNum_ - 1)
        BY <3>1
      <3> QED
        BY <1>10, <2>2, <3>1, <3>2 DEF SubLoops, Base
    <2> QED
      BY <1>10, <2>1, <2>2
  <1>13. /\ NextName(peer) = [peer |-> peer, id |-> IF loop = Base THEN 1 ELSE c + 1]
         /\ NextName(peer) \in [peer : Peers, id : Nat]
    <2>1. (IF threadNum_ > 0 THEN nextConnId_ + 1 ELSE nextConnId_) = IF loop = Base THEN 1 ELSE c + 1
      <3> HIDE DEF loop
      <3> QED
        BY <1>10, <1>11, <1>12
    <2>2. (IF loop = Base THEN 1 ELSE c + 1) \in Nat
      BY <1>11
    <2> HIDE DEF loop, peer
    <2> QED
      BY <1>9, <2>1, <2>2 DEF NextName
  <1> HIDE DEF loop, peer
  <1>14. /\ k \in Conn /\ k.peer = peer /\ k.name = NextName(peer) /\ k.loop = loop /\ k.state = "kConnecting"
         /\ k.removed = 0 /\ k.freed = FALSE
    <2>1. /\ peer \in Peers /\ NextName(peer) \in [peer : Peers, id : Nat]
          /\ loop \in {Base} \cup SubLoops /\ k = NewConn(peer, NextName(peer), loop)
      BY <1>3, <1>9, <1>12, <1>13, Zenon
    <2>2. PICK n, p, l : n = NextName(peer) /\ p = peer /\ l = loop
      OBVIOUS
    <2>3. /\ k \in Conn /\ k.peer = p /\ k.name = n /\ k.loop = l /\ k.state = "kConnecting"
          /\ k.removed = 0 /\ k.freed = FALSE
      <3>1. p \in Peers /\ n \in [peer : Peers, id : Nat] /\ l \in {Base} \cup SubLoops /\ k = NewConn(p, n, l)
        BY <2>1, <2>2, Zenon
      <3>2. k \in Conn
        BY <3>1 DEF NewConn, Conn, States
      <3> QED
        BY <3>1, <3>2 DEF NewConn
    <2> QED
      BY <2>2, <2>3, Zenon
  <1>15. Named(c, k)
    BY <1>13, <1>14, Zenon DEF Named
  <1>16. Added(Whole, v, k, c) /\ v.loops = loops /\ v.base = base
    BY <1>2, <1>4, <1>14, <1>15, EnteredIs, Zenon
  <1>17. /\ Fresh(v, k, c) /\ k.peer = Head(waiting)
         /\ k.loop = Base <=> threadNum_ = 0
         /\ u = IF k.loop = Base THEN connectEstablished(v, c) ELSE Queue(v, "connectEstablished", c)
         /\ Release(u, spare - 1)
    BY <1>2, <1>5, <1>7, <1>12, <1>14, <1>15, <1>16, Zenon DEF peer, Fresh
  <1> QED
    BY <1>1, <1>7, <1>14, <1>17, Zenon

\* handleRead() and newConnection().
LEMMA AcceptedStep ==
    ASSUME Fine, Accept
    PROVE  Fine' \/ Known'
  <1>1. /\ server = "up" /\ waiting # <<>> /\ waiting' = Tail(waiting)
        /\ threadNum_' = threadNum_ /\ server' = server
        /\ nextConnId_' = IF threadNum_ > 0 THEN nextConnId_ + 1 ELSE nextConnId_
    BY AcceptIs, Zenon
  <1>2. PICK k, v, u, c :
            /\ Fresh(v, k, c) /\ k.peer = Head(waiting)
            /\ k.loop = Base <=> threadNum_ = 0
            /\ u = IF k.loop = Base THEN connectEstablished(v, c) ELSE Queue(v, "connectEstablished", c)
            /\ Release(u, spare - 1)
    BY AcceptIs, Zenon
  <1>0. c = Len(conns) + 1 /\ Named(c, k)
    BY <1>2, Zenon DEF Fresh
  <1>3. CASE k.loop # Base
    <2>1. u = Queue(v, "connectEstablished", c)
      BY <1>2, <1>3, Zenon
    <2>2. Joins(u, k, c)
      BY <1>2, <1>3, <2>1, AcceptToLoop, Zenon
    <2> QED
      BY <1>0, <1>1, <1>2, <2>2, AcceptEnds, Zenon DEF Joins
  <1>4. CASE k.loop = Base
    <2>1. u = connectEstablished(v, c)
      BY <1>2, <1>4, Zenon
    <2>0. Enters(u, k, c)
      BY <1>1, <1>2, <1>4, <2>1, AcceptToBase, Zenon
    <2>2. /\ Shape(u) /\ DOMAIN u.conns = 1..(Len(conns) + 1) /\ u.conns[c].peer = k.peer
          /\ u.conns[c].name = k.name
          /\ \A x \in DOMAIN conns : u.conns[x] = conns[x]
          /\ LoopPhases(u.loops, threadNum_, server)
          /\ Life(u, server, c)
          /\ \A x \in DOMAIN conns : ~(InMap(Whole, x) /\ conns[x].name = k.name) => Life(u, server, x)
          /\ \A x \in DOMAIN conns : InMap(Whole, x) /\ conns[x].name = k.name =>
                 conns[x].freed = FALSE /\ conns[x].state # "kDisconnected" /\ ~Held(u, x)
      BY <2>0, Zenon DEF Enters
    <2>3. CASE \E d \in DOMAIN conns : InMap(Whole, d) /\ conns[d].name = k.name
      <3>1. PICK d \in DOMAIN conns : InMap(Whole, d) /\ conns[d].name = k.name
        BY <2>3, Zenon
      <3>2. k.name.peer = Head(waiting) /\ threadNum_ = 0
        BY <1>0, <1>2, <1>4 DEF Named
      <3>3. PICK name : name = k.name
        OBVIOUS
      <3> QED
        BY <1>0, <1>1, <1>2, <2>2, <3>1, <3>2, <3>3, Overwritten, Zenon
    <2>4. CASE \A d \in DOMAIN conns : ~(InMap(Whole, d) /\ conns[d].name = k.name)
      <3>1. Good(u, server)
        <4>1. \A x \in DOMAIN u.conns : x \in DOMAIN conns \/ x = c
          <5>1. Len(conns) \in Nat /\ DOMAIN conns = 1..Len(conns)
            BY IdsAre, LenProperties
          <5> QED
            BY <1>0, <2>2, <5>1
        <4> QED
          BY <2>2, <2>4, <4>1, Zenon DEF Good
      <3>2. /\ u.conns[Len(conns) + 1].peer = Head(waiting)
            /\ \A x \in DOMAIN conns : /\ u.conns[x].peer = conns[x].peer /\ u.conns[x].hup = conns[x].hup
                                       /\ u.conns[x].freed = conns[x].freed
        BY <1>0, <1>2, <2>2, Zenon
      <3> QED
        BY <1>1, <1>2, <2>2, <3>1, <3>2, AcceptEnds, Zenon
    <2> QED
      BY <2>3, <2>4, Zenon
  <1> QED
    BY <1>3, <1>4

\* Initially there is no connection and nothing is queued.
LEMMA LifeInvInit == Init => Fine
  <1> SUFFICES ASSUME Init PROVE Fine
    OBVIOUS
  <1>1. /\ threadNum_ = 0 /\ nextConnId_ = 1 /\ connections_ = <<>> /\ conns = <<>> /\ base = <<>>
        /\ server = "new" /\ waiting = <<>> /\ failures = {}
        /\ loops = [l \in SubLoops |-> [NewLoop EXCEPT !.phase = "none"]]
    BY Zenon DEF Init
  <1>2. /\ DOMAIN conns = {} /\ DOMAIN connections_ = {} /\ DOMAIN base = {} /\ DOMAIN waiting = {}
        /\ conns \in Seq(Conn) /\ base \in Seq(Functor) /\ waiting \in Seq(Peers) /\ Len(conns) = 0
    BY <1>1
  <1>3. /\ loops = [l \in SubLoops |-> loops[l]]
        /\ \A l \in SubLoops :
               loops[l] = [phase |-> "none", pending |-> <<>>, batch |-> <<>>, next |-> 1, quit |-> FALSE]
    BY <1>1, Zenon DEF NewLoop
  <1>4. ASSUME NEW l \in SubLoops PROVE LoopType(loops[l]) /\ Once(loops[l]) /\ OwnFunctors(Whole, l)
    <2>1. PICK q : q = loops[l]
      OBVIOUS
    <2>2. q = [phase |-> "none", pending |-> <<>>, batch |-> <<>>, next |-> 1, quit |-> FALSE]
      BY <1>3, <2>1
    <2>3. /\ q.phase = "none" /\ q.pending = <<>> /\ q.batch = <<>> /\ q.next = 1 /\ q.quit = FALSE
      BY <2>2
    <2>4. q.quit \in BOOLEAN
      BY <2>3, Zenon
    <2>5. /\ q = [phase |-> q.phase, pending |-> q.pending, batch |-> q.batch, next |-> q.next, quit |-> q.quit]
      BY <2>2, <2>3, Zenon
    <2>6. /\ q.pending \in Seq(Functor) /\ q.batch \in Seq(Functor) /\ q.next \in 1..(Len(q.batch) + 1)
          /\ q.phase \in {"none", "poll", "functors", "exited"} 
          /\ q.phase # "functors" => q.batch = <<>>
          /\ DOMAIN q.pending = {} /\ DOMAIN q.batch = {}
      <3>1. /\ <<>> \in Seq(Functor) /\ DOMAIN <<>> = {} /\ 1 \in 1..(Len(<<>>) + 1)
            /\ "none" \in {"none", "poll", "functors", "exited"}
        OBVIOUS
      <3> QED
        BY <2>3, <3>1, Zenon
    <2>7. LoopType(q) /\ Once(q)
      BY <2>4, <2>5, <2>6, Zenon DEF LoopType, Once
    <2>8. OwnFunctors(Whole, l)
      BY <2>1, <2>6, WholeHas, Zenon DEF OwnFunctors
    <2> QED
      BY <2>1, <2>7, <2>8, Zenon
  <1>5. Shape(Whole)
    <2>1. ConnsOK(Whole) /\ MapOK(Whole) /\ BaseOK(Whole)
      BY <1>2, WholeHas, Zenon DEF ConnsOK, MapOK, BaseOK
    <2>2. LoopsOK(Whole)
      BY <1>3, <1>4, WholeHas, Zenon DEF LoopsOK
    <2> QED
      BY <2>1, <2>2, WholeHas, Zenon DEF Shape
  <1>6. Good(Whole, server)
    BY <1>2, <1>5, WholeHas, Zenon DEF Good
  <1>7. LoopPhases(loops, threadNum_, server)
    <2>1. \A l \in SubLoops : loops[l].phase = "none" /\ loops[l].quit = FALSE
      BY <1>3
    <2>2. \A b : b = FALSE => b # TRUE
      BY Zenon
    <2>3. "none" \notin {"poll", "functors"}
      OBVIOUS
    <2> QED
      BY <2>1, <2>2, <2>3, Zenon DEF LoopPhases
  <1>8. Phases
    <2>1. /\ server \in {"new", "up", "posting", "joining", "gone"} /\ threadNum_ \in 0..MaxSubLoops
          /\ nextConnId_ = IF threadNum_ > 0 THEN Len(conns) + 1 ELSE 1
      BY <1>1, <1>2, TcpServerAssumption
    <2> QED
      BY <1>1, <1>2, <1>7, <2>1, Zenon DEF Phases
  <1>9. Line(waiting, conns)
    BY <1>2, Zenon DEF Line
  <1> QED
    BY <1>1, <1>6, <1>8, <1>9, Zenon DEF Fine

\* A process whose assert failed has ended.
LEMMA KnownStays ==
    ASSUME Known, [Next]_vars
    PROVE  Known'
  <1>1. failures # {} /\ server # "new" /\ OnlyKnownFailures
    BY Zenon DEF Known
  <1>2. UNCHANGED vars
    <2>1. \A n : ~start(n)
      BY <1>1, Zenon DEF start
    <2>2. ~Accept /\ ~AcceptFails /\ ~AcceptAgain /\ ~TurnAway /\ ~Reopen /\ ~RunBase
      BY <1>1, Zenon DEF Accept, AcceptFails, AcceptAgain, TurnAway, Reopen, RunBase, BaseIdle
    <2>3. \A c : /\ ~Shutdown(c) /\ ~Send(c) /\ ~handleWrite(c) /\ ~HalfClosed(c) /\ ~handleClose(c)
                 /\ \A how : ~HangUp(c, how)
      BY <1>1, Zenon DEF Shutdown, Send, handleWrite, HalfClosed, handleClose, HangUp, Polling
    <2>4. \A l : ~Swap(l) /\ ~RunFunctor(l) /\ ~EndIteration(l) /\ ~QuitLoop(l)
      BY <1>1, Zenon DEF Swap, RunFunctor, EndIteration, QuitLoop
    <2>5. ~Destroy /\ ~Posted /\ ~Joined /\ \A name : ~Post(name)
      BY <1>1, Zenon DEF Destroy, Posted, Joined, Post, BaseIdle
    <2>6. (\A p : ~Connect(p)) /\ (\A i : ~GiveUp(i)) /\ ~OpenOther /\ ~CloseOther
      BY <1>1, Zenon DEF Connect, GiveUp, OpenOther, CloseOther
    <2> QED
      BY <2>1, <2>2, <2>3, <2>4, <2>5, <2>6, Zenon DEF Next
  <1>3. failures' = failures /\ server' = server /\ conns' = conns /\ threadNum_' = threadNum_
    BY <1>2, Zenon DEF vars, serverVars
  <1>4. OnlyKnownFailures'
    BY <1>1, <1>3 DEF OnlyKnownFailures, Ids
  <1> QED
    BY <1>1, <1>3, <1>4, Zenon DEF Known

\* Every step keeps the lives of the connections in order, or ends in a known failure.
LEMMA LifeInvStep ==
    ASSUME Fine, [Next]_vars
    PROVE  Fine' \/ Known'
  <1>1. ASSUME NEW n \in {0} \cup SubLoops, start(n) PROVE Fine'
    BY <1>1, StartStep, Zenon
  <1>2. CASE Accept
    BY <1>2, AcceptedStep, Zenon
  <1>3. CASE AcceptFails \/ AcceptAgain \/ TurnAway \/ Reopen \/ OpenOther \/ CloseOther \/ UNCHANGED vars
    BY <1>3, AcceptorStep, Zenon
  <1>4. ASSUME NEW c \in Ids,
               \/ Shutdown(c) \/ Send(c) \/ handleWrite(c) \/ HalfClosed(c) \/ handleClose(c)
               \/ \E how \in {"fin", "rst"} : HangUp(c, how)
        PROVE  Fine'
    BY <1>4, MovedStep, CloseStep, Zenon
  <1>5. CASE RunBase
    BY <1>5, RunBaseStep, Zenon
  <1>6. ASSUME NEW l \in SubLoops, Swap(l) \/ RunFunctor(l) \/ EndIteration(l) \/ QuitLoop(l)
        PROVE  Fine' \/ Known'
    BY <1>6, SwapStep, RunFunctorStep, EndIterationStep, QuitStep, Zenon
  <1>7. CASE Destroy \/ Posted \/ Joined
    BY <1>7, PhaseStep, Zenon
  <1>8. ASSUME NEW name \in DOMAIN connections_, Post(name) PROVE Fine' \/ Known'
    BY <1>8, PostStep, Zenon
  <1>9. ASSUME NEW p \in Peers, Connect(p) PROVE Fine'
    BY <1>9, ConnectStep, Zenon
  <1>10. ASSUME NEW i \in DOMAIN waiting, GiveUp(i) PROVE Fine'
    BY <1>10, GiveUpStep, Zenon
  <1> QED
    BY <1>1, <1>2, <1>3, <1>4, <1>5, <1>6, <1>7, <1>8, <1>9, <1>10, Zenon DEF Next

\* The invariant says what the map holds.
LEMMA FineMap ==
    ASSUME Fine
    PROVE  MapExact
  <1> SUFFICES ASSUME server = "up", NEW c \in Ids
               PROVE  /\ Mapped(c) <=> (conns[c].state # "kDisconnected" \/ <<"remove", c>> \in Range(base))
                      /\ conns[c].freed => conns[c].state = "kDisconnected" /\ conns[c].removed = 1
    BY Zenon DEF MapExact
  <1>1. /\ c \in DOMAIN conns /\ Shape(Whole) /\ Life(Whole, server, c)
        /\ Whole.conns = conns /\ Whole.map = connections_ /\ Whole.base = base
    BY IdsAre, WholeHas, Zenon
  <1>2. conns[c].freed \in BOOLEAN
    BY <1>1, ConnFacts, Zenon
  <1>3. Mapped(c) <=> InMap(Whole, c)
    BY <1>1, Zenon DEF Mapped, InMap
  <1>4. <<"remove", c>> \in Range(base) <=> InBase(Whole, Remove(c))
    BY <1>1 DEF Range, InBase, Remove
  <1>5. Up(server)
    BY DEF Up
  <1>6. InMap(Whole, c) <=> conns[c].state # "kDisconnected" \/ InBase(Whole, Remove(c))
    BY <1>1, <1>5, Zenon DEF Life
  <1>7. conns[c].freed = TRUE => conns[c].state = "kDisconnected" /\ conns[c].removed = 1
    BY <1>1, <1>5, Zenon DEF Life
  <1> QED
    BY <1>2, <1>3, <1>4, <1>6, <1>7, Zenon

\* connections_ is exact while the server runs (TcpServer::newConnection,
\* removeConnectionInLoop): in every interleaving of the base loop and any number of sub-loops
\* it holds exactly the connections that are not closed or whose removal is still queued, each
\* under its own name, and a destroyed connection was closed and its channel removed once.
THEOREM MapIsExact == Spec => []MapExact
  <1>1. Init => LifeInv
    BY LifeInvInit, Zenon DEF LifeInv
  <1>2. LifeInv /\ [Next]_vars => LifeInv'
    BY LifeInvStep, KnownStays, Zenon DEF LifeInv
  <1>3. LifeInv => MapExact
    <2>1. Known => MapExact
      BY Zenon DEF Known, MapExact
    <2> QED
      BY <2>1, FineMap, Zenon DEF LifeInv
  <1> QED
    BY <1>1, <1>2, <1>3, PTL DEF Spec

\* The asserts of connectEstablished(), removeConnectionInLoop(), Channel::remove(), ~Channel()
\* and ~TcpConnection() fail, and a destroyed server is used, only in the five ways
\* OnlyKnownFailures lists, for any number of peers, connections and sub-loops: no interleaving
\* of accept, send, close, removal and ~TcpServer() adds a sixth.
THEOREM ServerFailuresAreKnown == Spec => []OnlyKnownFailures
  <1>1. Init => LifeInv
    BY LifeInvInit, Zenon DEF LifeInv
  <1>2. LifeInv /\ [Next]_vars => LifeInv'
    BY LifeInvStep, KnownStays, Zenon DEF LifeInv
  <1>3. LifeInv => OnlyKnownFailures
    <2>1. Fine => OnlyKnownFailures
      BY Zenon DEF Fine, OnlyKnownFailures
    <2> QED
      BY <2>1, Zenon DEF LifeInv, Known
  <1> QED
    BY <1>1, <1>2, <1>3, PTL DEF Spec
=============================================================================
