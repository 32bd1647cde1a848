-------------------------- MODULE TimerQueueProofs --------------------------
(***************************************************************************)
(* Proofs that every Timer has one owner, that no cancellation is          *)
(* forgotten and that a one-shot timer runs once at most, for any number   *)
(* of threads, addresses, timers, delays and posts.                        *)
(***************************************************************************)
EXTENDS TimerQueue, SequenceTheorems, FiniteSetTheorems, WellFoundedInduction, TLAPS

(***************************************************************************)
(* The posts, as one sequence: what is being executed, then what waits.    *)
(***************************************************************************)
Posts == functors \o pendingFunctors_

Inserts(s) == {i \in DOMAIN s : s[i].op = "insert"}
InsertedBy(s) == {s[i].addr : i \in Inserts(s)}
InsertedOnce(s) == \A i, j \in Inserts(s) : s[i].addr = s[j].addr => i = j

\* Posted insertions are the insertions of that sequence.
LEMMA PostedAsSequence ==
    /\ IsInjective(PostedInserts) <=> InsertedOnce(Posts)
    /\ Range(PostedInserts) = InsertedBy(Posts)
  <1>1. PostedInserts = [i \in Inserts(Posts) |-> Posts[i].addr]
    BY Zenon DEF PostedInserts, Posts, Inserts
  <1> QED
    BY <1>1 DEF IsInjective, Range, InsertedOnce, InsertedBy

\* A post goes behind the others.
LEMMA PostAdded ==
    ASSUME NEW s \in Seq(Functor), NEW x \in Functor
    PROVE  /\ Append(s, x) \in Seq(Functor)
           /\ InsertedBy(Append(s, x)) =
                  IF x.op = "insert" THEN InsertedBy(s) \cup {x.addr} ELSE InsertedBy(s)
           /\ InsertedOnce(s) /\ (x.op = "insert" => x.addr \notin InsertedBy(s))
                  => InsertedOnce(Append(s, x))
  <1> DEFINE t == Append(s, x)
  <1>1. /\ Len(t) = Len(s) + 1 /\ t \in Seq(Functor)
        /\ \A i \in 1..Len(s) : t[i] = s[i]
        /\ t[Len(s) + 1] = x
        /\ DOMAIN t = 1..(Len(s) + 1) /\ DOMAIN s = 1..Len(s) /\ Len(s) \in Nat
    BY AppendProperties, LenProperties
  <1> HIDE DEF t
  <1>2. Inserts(t) = IF x.op = "insert" THEN Inserts(s) \cup {Len(s) + 1} ELSE Inserts(s)
    BY <1>1 DEF Inserts
  <1>3. Inserts(s) \subseteq 1..Len(s)
    BY <1>1 DEF Inserts
  <1>4. InsertedBy(t) = IF x.op = "insert" THEN InsertedBy(s) \cup {x.addr} ELSE InsertedBy(s)
    BY <1>1, <1>2, <1>3 DEF InsertedBy
  <1>5. InsertedOnce(s) /\ (x.op = "insert" => x.addr \notin InsertedBy(s)) => InsertedOnce(t)
    BY <1>1, <1>2, <1>3 DEF InsertedBy, InsertedOnce
  <1> QED
    BY <1>1, <1>4, <1>5 DEF t

\* The loop takes the first post.
LEMMA PostTaken ==
    ASSUME NEW s \in Seq(Functor), s # <<>>, InsertedOnce(s)
    PROVE  /\ Tail(s) \in Seq(Functor) /\ Head(s) \in Functor
           /\ InsertedOnce(Tail(s))
           /\ Head(s).op = "insert" => /\ Head(s).addr \in InsertedBy(s)
                                       /\ InsertedBy(Tail(s)) = InsertedBy(s) \ {Head(s).addr}
           /\ Head(s).op # "insert" => InsertedBy(Tail(s)) = InsertedBy(s)
  <1> DEFINE t == Tail(s)
  <1>1. /\ t \in Seq(Functor) /\ Head(s) \in Functor /\ Head(s) = s[1]
        /\ Len(s) \in Nat /\ Len(s) > 0
        /\ DOMAIN s = 1..Len(s) /\ DOMAIN t = 1..(Len(s) - 1)
        /\ \A i \in 1..(Len(s) - 1) : t[i] = s[i + 1]
    BY HeadTailProperties, LenProperties, EmptySeq
  <1> HIDE DEF t
  <1>2. \A i \in Inserts(t) : i + 1 \in Inserts(s) /\ t[i] = s[i + 1] /\ i \in Nat \ {0}
    BY <1>1 DEF Inserts
  <1>3. \A i \in Inserts(s) : i # 1 => (i - 1) \in Inserts(t) /\ t[i - 1] = s[i]
    BY <1>1 DEF Inserts
  <1>4. InsertedOnce(t)
    BY <1>2 DEF InsertedOnce
  <1>5. ASSUME Head(s).op = "insert"
        PROVE  Head(s).addr \in InsertedBy(s) /\ InsertedBy(t) = InsertedBy(s) \ {Head(s).addr}
    <2>1. 1 \in Inserts(s)
      BY <1>1, <1>5 DEF Inserts
    <2>2. \A i \in Inserts(t) : s[i + 1].addr # s[1].addr
      BY <1>2, <2>1 DEF InsertedOnce
    <2> QED
      BY <1>1, <1>2, <1>3, <2>1, <2>2 DEF InsertedBy
  <1>6. ASSUME Head(s).op # "insert" PROVE InsertedBy(t) = InsertedBy(s)
    <2>1. 1 \notin Inserts(s)
      BY <1>1, <1>6 DEF Inserts
    <2> QED
      BY <1>2, <1>3, <2>1 DEF InsertedBy
  <1> QED
    BY <1>1, <1>4, <1>5, <1>6 DEF t

\* A post to the second queue is behind both.
LEMMA BehindPosts ==
    ASSUME NEW f \in Seq(Functor), NEW p \in Seq(Functor), NEW x \in Functor
    PROVE  f \o Append(p, x) = Append(f \o p, x)
  BY AppendIsConcat, ConcatAssociative, ConcatProperties

\* How the two queues make up the sequence.
LEMMA PostsSteps ==
    ASSUME NEW f \in Seq(Functor), NEW p \in Seq(Functor)
    PROVE  /\ f \o p \in Seq(Functor)
           /\ f # <<>> => Head(f \o p) = Head(f) /\ Tail(f \o p) = Tail(f) \o p /\ f \o p # <<>>
           /\ f \o <<>> = f /\ <<>> \o p = p
  <1>1. f \o p \in Seq(Functor) /\ f \o <<>> = f /\ <<>> \o p = p
    BY ConcatProperties, ConcatEmptySeq
  <1>3. ASSUME f # <<>> PROVE Head(f \o p) = Head(f) /\ Tail(f \o p) = Tail(f) \o p /\ f \o p # <<>>
    <2> DEFINE q == f \o p
    <2>1. /\ q \in Seq(Functor) /\ Len(q) = Len(f) + Len(p) /\ Len(f) \in Nat /\ Len(f) > 0
          /\ Len(p) \in Nat
          /\ \A i \in 1..Len(q) : q[i] = IF i <= Len(f) THEN f[i] ELSE p[i - Len(f)]
      BY <1>1, <1>3, ConcatProperties, LenProperties, EmptySeq
    <2>2. /\ Tail(f) \in Seq(Functor) /\ Head(f) = f[1] /\ Len(Tail(f)) = Len(f) - 1
          /\ \A i \in 1..(Len(f) - 1) : Tail(f)[i] = f[i + 1]
      BY <1>3, HeadTailProperties
    <2> HIDE DEF q
    <2>3. q # <<>>
      BY <2>1, EmptySeq
    <2>4. /\ Tail(q) \in Seq(Functor) /\ Head(q) = q[1] /\ Len(Tail(q)) = Len(q) - 1
          /\ \A i \in 1..(Len(q) - 1) : Tail(q)[i] = q[i + 1]
      BY <2>1, <2>3, HeadTailProperties
    <2> DEFINE r == Tail(f) \o p
    <2>5. /\ r \in Seq(Functor) /\ Len(r) = Len(f) - 1 + Len(p)
          /\ \A i \in 1..Len(r) : r[i] = IF i <= Len(f) - 1 THEN Tail(f)[i] ELSE p[i - (Len(f) - 1)]
      BY <2>1, <2>2, ConcatProperties
    <2> HIDE DEF r
    <2>6. Len(Tail(q)) = Len(r) /\ \A i \in 1..Len(r) : Tail(q)[i] = r[i]
      <3>1. Len(Tail(q)) = Len(r) /\ Len(r) = Len(q) - 1
        BY <2>1, <2>4, <2>5
      <3> SUFFICES ASSUME NEW i \in 1..Len(r) PROVE Tail(q)[i] = r[i]
        BY <3>1
      <3>2. i + 1 \in 1..Len(q) /\ i \in 1..(Len(q) - 1)
        BY <2>1, <3>1
      <3>3. Tail(q)[i] = IF i + 1 <= Len(f) THEN f[i + 1] ELSE p[(i + 1) - Len(f)]
        BY <2>1, <2>4, <3>2
      <3>4. CASE i + 1 <= Len(f)
        <4>1. i \in 1..(Len(f) - 1) /\ i <= Len(f) - 1
          BY <2>1, <3>1, <3>4
        <4> QED
          BY <2>2, <2>5, <3>3, <3>4, <4>1, Zenon
      <3>5. CASE ~(i + 1 <= Len(f))
        <4>1. ~(i <= Len(f) - 1) /\ (i + 1) - Len(f) = i - (Len(f) - 1)
          BY <2>1, <3>1, <3>5
        <4> QED
          BY <2>5, <3>3, <3>5, <4>1, Zenon
      <3> QED
        BY <3>4, <3>5, Zenon
    <2>7. Tail(q) = r
      BY <2>4, <2>5, <2>6, SeqEqual
    <2>8. Head(q) = Head(f)
      BY <2>1, <2>2, <2>4
    <2> QED
      BY <2>3, <2>7, <2>8 DEF q, r
  <1> QED
    BY <1>1, <1>3

(***************************************************************************)
(* Finite sets.                                                            *)
(***************************************************************************)

\* getExpired() returns each due timer once, in some order.
LEMMA BatchOfDue ==
    ASSUME NEW S, IsFiniteSet(S), NEW f \in Bijection(1..Cardinality(S), S)
    PROVE  f \in Seq(S) /\ Range(f) = S /\ IsInjective(f)
  <1> DEFINE n == Cardinality(S)
  <1>1. /\ n \in Nat /\ f \in [1..n -> S] /\ IsInjective(f)
        /\ \A y \in S : \E i \in 1..n : f[i] = y
    BY FS_CardinalityType DEF Bijection, Injection, Surjection
  <1> HIDE DEF n
  <1>2. f \in Seq(S) /\ DOMAIN f = 1..n
    BY <1>1, IsASeq
  <1> QED
    BY <1>1, <1>2 DEF Range

\* The timerfd is set for the earliest timer, or for one tick from now.
LEMMA EarliestOf ==
    ASSUME NEW T, T \subseteq Nat, T # {}
    PROVE  Min(T) \in T
  <1> DEFINE R == {ss \in Nat \X Nat : ss[1] < ss[2]}
  <1>1. IsWellFoundedOn(R, Nat)
    BY NatLessThanWellFounded, Zenon DEF OpToRel
  <1>2. PICK n \in T : \A m \in T : ~(<<m, n>> \in R)
    BY <1>1, WFMin, Zenon
  <1>3. \A m \in T : n <= m
    <2> SUFFICES ASSUME NEW m \in T PROVE n <= m
      OBVIOUS
    <2>1. m \in Nat /\ n \in Nat /\ <<m, n>> \notin R
      BY <1>2, Zenon
    <2> QED
      BY <2>1
  <1> QED
    BY <1>3, Zenon DEF Min

\* resetTimerfd() sets a time in range.
LEMMA TimerfdInRange ==
    ASSUME NEW when \in 0..MaxDelay
    PROVE  resetTimerfd(when) \in 0..Off
  <1>1. PICK x \in {when, 1} : \A y \in {when, 1} : x >= y
    OBVIOUS
  <1>2. Max({when, 1}) \in {when, 1}
    BY <1>1, Zenon DEF Max
  <1> QED
    BY <1>2, TimerAssumption DEF resetTimerfd, Off

(***************************************************************************)
(* The invariant.                                                          *)
(***************************************************************************)
Batch == Range(expired)

\* The types that the owners do not depend on.
TypesOK ==
    /\ DOMAIN creating \subseteq Creators
    /\ \A t \in DOMAIN creating : creating[t] \in [addr : Addrs, count : Nat]
    /\ handles \subseteq Handle
    /\ expiredTimers_ \subseteq Addrs \X Nat
    /\ cancelingTimers_ \subseteq Addrs \X Nat
    /\ elapsed \in 0..MaxDelay
    /\ timerfd_ \in 0..Off
    /\ pc \in {"poll", "events", "batch", "functors", "destroyed"}
    /\ cancelled \subseteq 1..MaxTimers
    /\ runs \in [1..MaxTimers -> 0..2]

FlagOK == timerActive \in BOOLEAN

\* addTimer() is called MaxTimers times at most, and no number drawn exceeds its calls.
CountsOK ==
    /\ IsFiniteSet(handles) /\ IsFiniteSet(DOMAIN creating)
    /\ Cardinality(handles) + Cardinality(DOMAIN creating) <= MaxTimers
    /\ \A h \in handles : h.uid <= Cardinality(handles)
    /\ s_numCreated_ \in 0..Cardinality(handles)
    /\ \A t \in DOMAIN creating : creating[t].count <= Cardinality(handles)

\* The timers and the queues.
StoreOK ==
    /\ DOMAIN obj \subseteq Addrs
    /\ \A a \in DOMAIN obj : obj[a] \in Timer
    /\ expired \in Seq(Addrs) /\ IsInjective(expired)
    /\ next \in 0..Len(expired)
    /\ functors \in Seq(Functor) /\ pendingFunctors_ \in Seq(Functor)
    /\ pc # "batch" => expired = <<>>
    /\ pc # "functors" => functors = <<>>

\* One owner each: the heap, the batch or a posted insertion; and an address handed out to
\* a constructor belongs to no Timer and to no other constructor.
OwnersOK ==
    /\ InsertedOnce(Posts)
    /\ timers_ \cap Batch = {}
    /\ timers_ \cap InsertedBy(Posts) = {}
    /\ Batch \cap InsertedBy(Posts) = {}
    /\ DOMAIN obj = timers_ \cup Batch \cup InsertedBy(Posts)
    /\ activeTimers_ = {Id(a) : a \in timers_}
    /\ \A t \in DOMAIN creating : creating[t].addr \notin DOMAIN obj
    /\ \A t, u \in DOMAIN creating : creating[t].addr = creating[u].addr => t = u

Inv == FlagOK /\ TypesOK /\ CountsOK /\ StoreOK /\ OwnersOK

\* The invariant is the property and more.
LEMMA InvImplies == Inv => OneOwner
  <1> SUFFICES ASSUME Inv PROVE OneOwner
    OBVIOUS
  <1>1. Range(obj) \subseteq Timer /\ Range(creating) \subseteq [addr : Addrs, count : Nat]
    BY DEF Inv, TypesOK, StoreOK, Range
  <1>2. s_numCreated_ \in 0..MaxTimers
    <2>1. Cardinality(handles) \in Nat /\ Cardinality(DOMAIN creating) \in Nat
      BY FS_CardinalityType DEF Inv, CountsOK
    <2> QED
      BY <2>1, TimerAssumption DEF Inv, CountsOK
  <1>3. timers_ \subseteq DOMAIN obj
    BY DEF Inv, OwnersOK
  <1>4. activeTimers_ \subseteq Addrs \X Nat
    BY <1>3 DEF Inv, OwnersOK, StoreOK, Id, Timer
  <1>5. TypeOK
    <2>1. timers_ \subseteq Addrs /\ DOMAIN obj \subseteq Addrs
      BY <1>3 DEF Inv, StoreOK
    <2> QED
      BY <1>1, <1>2, <1>4, <2>1, Zenon DEF Inv, FlagOK, TypesOK, StoreOK, TypeOK
  <1> QED
    BY <1>5, PostedAsSequence, Zenon DEF Inv, StoreOK, OwnersOK, Batch, OneOwner

\* It holds for the empty queue.
LEMMA InvInit == Init => Inv
  <1> SUFFICES ASSUME Init PROVE Inv
    OBVIOUS
  <1>0. /\ DOMAIN <<>> = {} /\ Len(<<>>) = 0 /\ Range(<<>>) = {} /\ IsInjective(<<>>)
        /\ \A S : <<>> \in Seq(S)
    BY DEF Range, IsInjective
  <1>1. Posts = <<>> /\ Inserts(Posts) = {}
    BY <1>0, ConcatEmptySeq DEF Init, Posts, Inserts
  <1>2. TypesOK
    BY <1>0, TimerAssumption DEF Init, TypesOK, Off
  <1>6. FlagOK
    BY Zenon DEF Init, FlagOK
  <1>3. CountsOK
    BY <1>0, FS_EmptySet, TimerAssumption DEF Init, CountsOK
  <1>4. StoreOK
    BY <1>0 DEF Init, StoreOK
  <1>5. OwnersOK
    BY <1>0, <1>1 DEF Init, OwnersOK, Batch, InsertedOnce, InsertedBy
  <1> QED
    BY <1>2, <1>3, <1>4, <1>5, <1>6, Zenon DEF Inv

(***************************************************************************)
(* What the operations do.                                                 *)
(***************************************************************************)

\* The sequence of posts after a post or none.
LEMMA PostsFacts ==
    ASSUME StoreOK
    PROVE  /\ Posts \in Seq(Functor)
           /\ UNCHANGED <<functors, pendingFunctors_>> => Posts' = Posts
           /\ \A x \in Functor : pendingFunctors_' = Append(pendingFunctors_, x) /\ functors' = functors
                  => Posts' = Append(Posts, x)
           /\ functors # <<>> /\ functors' = Tail(functors) =>
                  /\ Posts # <<>> /\ Head(Posts) = Head(functors)
                  /\ pendingFunctors_' = pendingFunctors_ => Posts' = Tail(Posts)
                  /\ \A x \in Functor : pendingFunctors_' = Append(pendingFunctors_, x)
                         => Posts' = Append(Tail(Posts), x)
  <1>1. functors \in Seq(Functor) /\ pendingFunctors_ \in Seq(Functor)
    BY DEF StoreOK
  <1>2. functors # <<>> => Tail(functors) \in Seq(Functor)
    BY <1>1, HeadTailProperties
  <1>3. /\ Posts \in Seq(Functor)
        /\ functors # <<>> => /\ Posts # <<>> /\ Head(Posts) = Head(functors)
                              /\ Tail(Posts) = Tail(functors) \o pendingFunctors_
    BY <1>1, PostsSteps, Zenon DEF Posts
  <1>4. \A x \in Functor :
            /\ functors \o Append(pendingFunctors_, x) = Append(Posts, x)
            /\ functors # <<>> => Tail(functors) \o Append(pendingFunctors_, x)
                                      = Append(Tail(functors) \o pendingFunctors_, x)
    <2> SUFFICES ASSUME NEW x \in Functor
                 PROVE  /\ functors \o Append(pendingFunctors_, x) = Append(Posts, x)
                        /\ functors # <<>> => Tail(functors) \o Append(pendingFunctors_, x)
                                                 = Append(Tail(functors) \o pendingFunctors_, x)
      BY Zenon
    <2>1. functors \o Append(pendingFunctors_, x) = Append(functors \o pendingFunctors_, x)
      BY <1>1, BehindPosts, Zenon
    <2>2. functors # <<>> => Tail(functors) \o Append(pendingFunctors_, x)
                                 = Append(Tail(functors) \o pendingFunctors_, x)
      BY <1>1, <1>2, BehindPosts, Zenon
    <2> QED
      BY <2>1, <2>2, Zenon DEF Posts
  <1> QED
    BY <1>3, <1>4, Zenon DEF Posts

\* A posted cancellation owns nothing.
LEMMA CancelPosted ==
    ASSUME NEW s \in Seq(Functor), InsertedOnce(s), NEW h \in Handle, NEW b \in BOOLEAN
    PROVE  LET x == [op |-> "cancel", id |-> h, retry |-> b]
           IN  /\ x \in Functor
               /\ InsertedBy(Append(s, x)) = InsertedBy(s) /\ InsertedOnce(Append(s, x))
  <1> DEFINE x == [op |-> "cancel", id |-> h, retry |-> b]
  <1>1. x \in Functor
    BY Zenon DEF Functor
  <1>2. x.op # "insert"
    OBVIOUS
  <1> HIDE DEF x
  <1>3. InsertedBy(Append(s, x)) = InsertedBy(s) /\ InsertedOnce(Append(s, x))
    BY <1>1, <1>2, PostAdded
  <1> QED
    BY <1>1, <1>3 DEF x

\* The owners do not change with the order or number of other posts.
LEMMA OwnersKept ==
    ASSUME OwnersOK, UNCHANGED <<obj, timers_, activeTimers_, expired, creating>>,
           InsertedBy(Posts)' = InsertedBy(Posts), InsertedOnce(Posts)'
    PROVE  OwnersOK'
  BY Zenon DEF OwnersOK, Batch, Id

\* cancelInLoop(): the Timer of a handle found in activeTimers_ leaves the heap and is
\* deleted; otherwise no Timer changes hands.
LEMMA CancelEffect ==
    ASSUME StoreOK, OwnersOK, NEW h \in Handle, NEW b \in BOOLEAN, cancelInLoop(h, b),
           UNCHANGED <<expired, creating>>,
           InsertedBy(Posts)' = InsertedBy(Posts), InsertedOnce(Posts)'
    PROVE  /\ OwnersOK' /\ DOMAIN obj' \subseteq Addrs /\ \A a \in DOMAIN obj' : obj'[a] \in Timer
           /\ UNCHANGED timerfd_
           /\ cancelingTimers_' \in {cancelingTimers_, cancelingTimers_ \cup {<<h.addr, h.seq>>}}
  <1> DEFINE id == <<h.addr, h.seq>>
  <1>1. CASE /\ id \in activeTimers_
             /\ activeTimers_' = activeTimers_ \ {id}
             /\ timers_' = timers_ \ {h.addr}
             /\ Delete({h.addr})
             /\ UNCHANGED <<timerfd_, cancelingTimers_>>
    <2>1. h.addr \in timers_ /\ id = Id(h.addr)
      BY <1>1 DEF OwnersOK, Id
    <2>2. DOMAIN obj' = DOMAIN obj \ {h.addr} /\ \A a \in DOMAIN obj' : obj'[a] = obj[a]
      BY <1>1 DEF Delete, Restrict
    <2>3. timers_ \subseteq DOMAIN obj
      BY DEF OwnersOK
    <2>4. \A a \in timers_' : Id(a)' = Id(a)
      BY <1>1, <2>2, <2>3 DEF Id
    <2>5. activeTimers_' = {Id(a)' : a \in timers_'}
      <3>1. activeTimers_ = {Id(a) : a \in timers_}
        BY DEF OwnersOK
      <3>2. \A a \in timers_ : Id(a) = id <=> a = h.addr
        BY <2>1 DEF Id
      <3> QED
        BY <1>1, <2>1, <2>4, <3>1, <3>2
    <2>6. Batch' = Batch
      BY Zenon DEF Batch
    <2>7. DOMAIN obj' = timers_' \cup Batch' \cup InsertedBy(Posts)'
      BY <1>1, <2>1, <2>2, <2>6 DEF OwnersOK
    <2>8. timers_' \subseteq timers_ /\ DOMAIN obj' \subseteq DOMAIN obj
      BY <1>1, <2>2
    <2>9. OwnersOK'
      BY <2>5, <2>6, <2>7, <2>8, Zenon DEF OwnersOK
    <2> QED
      BY <1>1, <2>2, <2>9 DEF StoreOK
  <1>2. CASE /\ cancelingTimers_' = cancelingTimers_ \cup {id}
             /\ UNCHANGED <<obj, heapVars>>
    <2>1. OwnersOK'
      BY <1>2, OwnersKept, Zenon DEF heapVars
    <2> QED
      BY <1>2, <2>1, Zenon DEF heapVars, StoreOK
  <1>3. CASE UNCHANGED <<obj, heapVars, cancelingTimers_>>
    <2>1. OwnersOK'
      BY <1>3, OwnersKept, Zenon DEF heapVars
    <2> QED
      BY <1>3, <2>1, Zenon DEF heapVars, StoreOK
  <1> QED
    BY <1>1, <1>2, <1>3, Zenon DEF cancelInLoop

\* insert(): the heap has one more timer, and the timerfd a time in range.
LEMMA InsertEffect ==
    ASSUME NEW o, NEW a, insert(o, a), o[a].when \in 0..MaxDelay, timerfd_ \in 0..Off
    PROVE  /\ timers_' = timers_ \cup {a}
           /\ activeTimers_' = activeTimers_ \cup {<<a, o[a].seq>>}
           /\ timerfd_' \in 0..Off
  BY TimerfdInRange DEF insert

\* What is posted has a Timer, which insert() can look at.
LEMMA PostedExists ==
    ASSUME StoreOK, OwnersOK, functors # <<>>, Head(functors).op = "insert"
    PROVE  Head(functors).addr \in DOMAIN obj /\ obj[Head(functors).addr].when \in 0..MaxDelay
  <1>1. Posts # <<>> /\ Head(Posts) = Head(functors) /\ Posts \in Seq(Functor)
    <2>1. functors \in Seq(Functor) /\ pendingFunctors_ \in Seq(Functor)
      BY DEF StoreOK
    <2> QED
      BY <2>1, PostsSteps, Zenon DEF Posts
  <1>2. Head(functors).addr \in InsertedBy(Posts)
    BY <1>1, PostTaken DEF OwnersOK
  <1> QED
    BY <1>2 DEF OwnersOK, StoreOK, Timer

(***************************************************************************)
(* Every step keeps the types and the counts.                              *)
(***************************************************************************)
LEMMA FlagStep == FlagOK /\ [Next]_vars => FlagOK'
  <1> SUFFICES ASSUME FlagOK, [Next]_vars PROVE FlagOK'
    OBVIOUS
  <1> USE DEF FlagOK, loopVars
  <1>1. ASSUME NEW t \in Creators, AddTimer(t) \/ AddTimerEnd(t) \/ Cancel(t) PROVE FlagOK'
    BY <1>1, Zenon DEF AddTimer, AddTimerEnd, Cancel
  <1>2. CASE Poll
    BY <1>2, Zenon DEF Poll
  <1>3. CASE HandleRead \/ RunTimer \/ Reset
    BY <1>3, Zenon DEF HandleRead, RunTimer, Reset
  <1>4. CASE SwapPending \/ RunFunctor \/ EndFunctors
    BY <1>4, Zenon DEF SwapPending, RunFunctor, EndFunctors
  <1>5. CASE Destroy \/ Tick
    BY <1>5, Zenon DEF Destroy, Tick
  <1>6. CASE UNCHANGED vars
    BY <1>6, Zenon DEF vars
  <1> QED
    BY <1>1, <1>2, <1>3, <1>4, <1>5, <1>6, Zenon DEF Next, LoopStep

\* The calls of addTimer() are counted exactly.
LEMMA CountsStep == TypesOK /\ CountsOK /\ [Next]_vars => CountsOK'
  <1> SUFFICES ASSUME TypesOK, CountsOK, [Next]_vars PROVE CountsOK'
    OBVIOUS
  <1> USE DEF createVars
  <1>n. Cardinality(handles) \in Nat /\ Cardinality(DOMAIN creating) \in Nat
    BY FS_CardinalityType DEF CountsOK
  <1>s. ASSUME UNCHANGED createVars PROVE CountsOK'
    BY <1>s, Zenon DEF CountsOK
  <1>1. ASSUME NEW t \in Creators, AddTimer(t) PROVE CountsOK'
    <2>1. PICK a : /\ creating' = With(creating, t, [addr |-> a, count |-> s_numCreated_])
                   /\ t \notin DOMAIN creating
                   /\ Cardinality(handles) + Cardinality(DOMAIN creating) < MaxTimers
                   /\ UNCHANGED <<s_numCreated_, handles>>
      BY <1>1, Zenon DEF AddTimer, MayCall
    <2>2. /\ DOMAIN creating' = DOMAIN creating \cup {t}
          /\ \A u \in DOMAIN creating : creating'[u] = creating[u]
          /\ creating'[t].count = s_numCreated_
      BY <2>1 DEF With
    <2>3. /\ IsFiniteSet(DOMAIN creating')
          /\ Cardinality(DOMAIN creating') = Cardinality(DOMAIN creating) + 1
      BY <2>1, <2>2, FS_AddElement DEF CountsOK
    <2> QED
      BY <1>n, <2>1, <2>2, <2>3, TimerAssumption DEF CountsOK
  <1>2. ASSUME NEW t \in Creators, AddTimerEnd(t) PROVE CountsOK'
    <2> DEFINE h == [addr |-> creating[t].addr, seq |-> creating[t].count + 1,
                     uid |-> Cardinality(handles) + 1]
    <2>1. /\ t \in DOMAIN creating /\ s_numCreated_' = creating[t].count + 1
          /\ handles' = handles \cup {h}
          /\ creating' = Restrict(creating, DOMAIN creating \ {t})
      BY <1>2, Zenon DEF AddTimerEnd
    <2>2. /\ DOMAIN creating' = DOMAIN creating \ {t}
          /\ \A u \in DOMAIN creating' : creating'[u] = creating[u]
      BY <2>1 DEF Restrict
    <2>3. /\ IsFiniteSet(DOMAIN creating')
          /\ Cardinality(DOMAIN creating') = Cardinality(DOMAIN creating) - 1
      BY <2>1, <2>2, FS_RemoveElement DEF CountsOK
    <2>4. h.uid = Cardinality(handles) + 1
      OBVIOUS
    <2> HIDE DEF h
    <2>5. h \notin handles
      BY <1>n, <2>4 DEF CountsOK
    <2>6. IsFiniteSet(handles') /\ Cardinality(handles') = Cardinality(handles) + 1
      BY <2>1, <2>5, FS_AddElement DEF CountsOK
    <2>7. creating[t].count \in Nat /\ creating[t].count <= Cardinality(handles)
      BY <2>1 DEF TypesOK, CountsOK
    <2>8. \A g \in handles' : g.uid <= Cardinality(handles')
      <3>1. \A g \in handles : g.uid \in Nat /\ g.uid <= Cardinality(handles)
        BY DEF TypesOK, CountsOK, Handle
      <3> QED
        BY <1>n, <2>1, <2>4, <2>6, <3>1
    <2>9. s_numCreated_' \in 0..Cardinality(handles')
      BY <1>n, <2>1, <2>6, <2>7
    <2>10. \A u \in DOMAIN creating' : creating'[u].count <= Cardinality(handles')
      <3>1. \A u \in DOMAIN creating :
                creating[u].count \in Nat /\ creating[u].count <= Cardinality(handles)
        BY DEF TypesOK, CountsOK
      <3> QED
        BY <1>n, <2>2, <2>6, <3>1
    <2>11. Cardinality(handles') + Cardinality(DOMAIN creating') <= MaxTimers
      BY <1>n, <2>3, <2>6, TimerAssumption DEF CountsOK
    <2> QED
      BY <2>3, <2>6, <2>8, <2>9, <2>10, <2>11, Zenon DEF CountsOK
  <1>3. ASSUME NEW t \in Creators, Cancel(t) PROVE CountsOK'
    BY <1>3, <1>s, Zenon DEF Cancel
  <1>4. CASE LoopStep
    BY <1>4, <1>s, Zenon DEF LoopStep, Poll, HandleRead, RunTimer, Reset, SwapPending, RunFunctor,
                             EndFunctors
  <1>5. CASE Destroy \/ Tick
    BY <1>5, <1>s, Zenon DEF Destroy, Tick
  <1>6. CASE UNCHANGED vars
    BY <1>6, <1>s, Zenon DEF vars
  <1> QED
    BY <1>1, <1>2, <1>3, <1>4, <1>5, <1>6, Zenon DEF Next

(***************************************************************************)
(* Every step keeps the owners: first the calls of any thread.             *)
(***************************************************************************)

\* A step that leaves the posts alone keeps what they own.
LEMMA SamePosts ==
    ASSUME OwnersOK, Posts' = Posts
    PROVE  InsertedBy(Posts)' = InsertedBy(Posts) /\ InsertedOnce(Posts)'
  <1>1. InsertedOnce(Posts)
    BY Zenon DEF OwnersOK
  <1>2. InsertedBy(Posts)' = InsertedBy(Posts)
    BY Zenon DEF InsertedBy, Inserts
  <1>3. InsertedOnce(Posts)'
    BY <1>1 DEF InsertedOnce, Inserts
  <1> QED
    BY <1>2, <1>3

\* So does one that touches neither the Timers nor the queues.
LEMMA StoreUnchanged ==
    ASSUME StoreOK, OwnersOK, UNCHANGED <<obj, timers_, activeTimers_, expired, next, functors,
                                          pendingFunctors_, pc, creating>>
    PROVE  StoreOK' /\ OwnersOK'
  <1>1. Posts' = Posts /\ Batch' = Batch /\ \A a : Id(a)' = Id(a)
    BY Zenon DEF Posts, Batch, Id
  <1>2. InsertedBy(Posts)' = InsertedBy(Posts) /\ InsertedOnce(Posts)'
    BY <1>1, SamePosts, Zenon
  <1>3. OwnersOK'
    BY <1>2, OwnersKept, Zenon
  <1>4. StoreOK'
    BY Zenon DEF StoreOK
  <1> QED
    BY <1>3, <1>4

\* A constructor gets an address that belongs to nobody.
LEMMA AddTimerStep ==
    ASSUME TypesOK, CountsOK, StoreOK, OwnersOK, NEW t \in Creators, AddTimer(t)
    PROVE  TypesOK' /\ StoreOK' /\ OwnersOK'
  <1>1. PICK a \in Addrs \ (DOMAIN obj \cup {creating[u].addr : u \in DOMAIN creating}) :
            creating' = With(creating, t, [addr |-> a, count |-> s_numCreated_])
    BY Zenon DEF AddTimer
  <1>u. /\ UNCHANGED <<obj, timers_, activeTimers_, timerfd_, expired, next, expiredTimers_, elapsed>>
        /\ UNCHANGED <<handles, cancelingTimers_, pc, functors, pendingFunctors_, cancelled, runs>>
    BY Zenon DEF AddTimer, heapVars, batchVars, loopVars
  <1>n. s_numCreated_ \in Nat
    BY DEF CountsOK
  <1>2. /\ DOMAIN creating' = DOMAIN creating \cup {t}
        /\ \A u \in DOMAIN creating : u # t => creating'[u] = creating[u]
        /\ creating'[t] = [addr |-> a, count |-> s_numCreated_]
    BY <1>1 DEF With
  <1>3. /\ DOMAIN creating' \subseteq Creators
        /\ \A u \in DOMAIN creating' : creating'[u] \in [addr : Addrs, count : Nat]
    BY <1>1, <1>2, <1>n DEF TypesOK
  <1>4. TypesOK'
    BY <1>u, <1>3, Zenon DEF TypesOK
  <1>5. StoreOK'
    BY <1>u, Zenon DEF StoreOK
  <1>6. /\ \A u \in DOMAIN creating' : creating'[u].addr \notin DOMAIN obj'
        /\ \A u, v \in DOMAIN creating' : creating'[u].addr = creating'[v].addr => u = v
    BY <1>1, <1>2, <1>u DEF OwnersOK
  <1>7. Posts' = Posts /\ Batch' = Batch /\ \A b : Id(b)' = Id(b)
    BY <1>u, Zenon DEF Posts, Batch, Id
  <1>8. InsertedBy(Posts)' = InsertedBy(Posts) /\ InsertedOnce(Posts)'
    BY <1>7, SamePosts, Zenon
  <1>9. OwnersOK'
    BY <1>u, <1>6, <1>7, <1>8, Zenon DEF OwnersOK
  <1> QED
    BY <1>4, <1>5, <1>9

\* The constructed Timer belongs to the heap or to its posted insertion.
LEMMA AddTimerEndStep ==
    ASSUME TypesOK, CountsOK, StoreOK, OwnersOK, NEW t \in Creators, AddTimerEnd(t)
    PROVE  TypesOK' /\ StoreOK' /\ OwnersOK'
  <1> DEFINE a == creating[t].addr
             seq == creating[t].count + 1
             uid == Cardinality(handles) + 1
             x == [op |-> "insert", addr |-> a]
  <1>1. PICK when \in 0..MaxDelay, repeat \in BOOLEAN :
            LET v == [seq |-> seq, uid |-> uid, when |-> when, repeat |-> repeat]
            IN  /\ obj' = With(obj, a, v)
                /\ handles' = handles \cup {[addr |-> a, seq |-> seq, uid |-> uid]}
                /\ IF t = Loop
                   THEN insert(With(obj, a, v), a) /\ UNCHANGED pendingFunctors_
                   ELSE pendingFunctors_' = Append(pendingFunctors_, x) /\ UNCHANGED heapVars
    BY Zenon DEF AddTimerEnd
  <1> DEFINE v == [seq |-> seq, uid |-> uid, when |-> when, repeat |-> repeat]
             o == With(obj, a, v)
  <1>u. /\ UNCHANGED <<expired, next, expiredTimers_, elapsed, cancelingTimers_>>
        /\ UNCHANGED <<pc, functors, cancelled, runs>>
        /\ t \in DOMAIN creating
        /\ creating' = Restrict(creating, DOMAIN creating \ {t})
    BY Zenon DEF AddTimerEnd, batchVars, loopVars
  <1>2. a \in Addrs /\ a \notin DOMAIN obj /\ creating[t].count \in Nat
    BY <1>u DEF TypesOK, OwnersOK
  <1>3. uid \in 1..MaxTimers
    <2>1. Cardinality(handles) \in Nat /\ Cardinality(DOMAIN creating) \in Nat
      BY FS_CardinalityType DEF CountsOK
    <2>2. Cardinality(DOMAIN creating) # 0
      BY <1>u, FS_EmptySet DEF CountsOK
    <2> QED
      BY <2>1, <2>2, TimerAssumption DEF CountsOK
  <1>4. /\ v \in Timer /\ v.seq = seq /\ v.when = when
        /\ [addr |-> a, seq |-> seq, uid |-> uid] \in Handle
    <2>1. seq \in Nat
      BY <1>2
    <2> HIDE DEF seq, uid, a
    <2> QED
      BY <1>2, <1>3, <2>1 DEF Timer, Handle
  <1>5. x \in Functor /\ x.op = "insert" /\ x.addr = a
    <2> HIDE DEF a
    <2> QED
      BY <1>2, Zenon DEF Functor
  <1> HIDE DEF v, x, a
  <1>6. DOMAIN o = DOMAIN obj \cup {a} /\ o[a] = v /\ \A b \in DOMAIN obj : o[b] = obj[b]
    BY <1>2 DEF With
  <1>7. /\ DOMAIN creating' = DOMAIN creating \ {t}
        /\ \A u \in DOMAIN creating' : creating'[u] = creating[u]
    BY <1>u DEF Restrict
  <1>8. obj' = o
    BY <1>1 DEF v
  <1> HIDE DEF o
  <1>9. DOMAIN obj' \subseteq Addrs /\ \A b \in DOMAIN obj' : obj'[b] \in Timer
    BY <1>2, <1>4, <1>6, <1>8 DEF StoreOK
  <1>10. \A b \in DOMAIN obj : Id(b)' = Id(b)
    BY <1>6, <1>8 DEF Id
  <1>11. \A b : b = a => Id(b)' = <<b, seq>>
    BY <1>4, <1>6, <1>8 DEF Id
  <1>12. /\ \A u \in DOMAIN creating' : creating'[u].addr \notin DOMAIN obj'
         /\ \A u, w \in DOMAIN creating' : creating'[u].addr = creating'[w].addr => u = w
    BY <1>6, <1>7, <1>8, <1>u, Zenon DEF OwnersOK, a
  <1>13. /\ DOMAIN creating' \subseteq Creators
         /\ \A u \in DOMAIN creating' : creating'[u] \in [addr : Addrs, count : Nat]
         /\ handles' \subseteq Handle
    <2>1. handles' \subseteq Handle
      BY <1>1, <1>4 DEF TypesOK
    <2> QED
      BY <1>7, <2>1 DEF TypesOK
  <1>14. timers_ \subseteq DOMAIN obj /\ Batch' = Batch
    BY <1>u, Zenon DEF OwnersOK, Batch
  <1>15. CASE t = Loop
    <2>1. insert(o, a) /\ UNCHANGED pendingFunctors_
      BY <1>1, <1>15, Zenon DEF o, v
    <2>2. o[a].when \in 0..MaxDelay /\ o[a].seq = seq
      BY <1>4, <1>6
    <2>3. /\ timers_' = timers_ \cup {a} /\ timerfd_' \in 0..Off
          /\ activeTimers_' = activeTimers_ \cup {<<a, seq>>}
      BY <2>1, <2>2, InsertEffect DEF TypesOK
    <2>4. TypesOK'
      BY <1>u, <1>13, <2>3, Zenon DEF TypesOK
    <2>5. StoreOK'
      BY <1>u, <1>9, <2>1, Zenon DEF StoreOK
    <2>6. Posts' = Posts
      BY <1>u, <2>1, Zenon DEF Posts
    <2>7. InsertedBy(Posts)' = InsertedBy(Posts) /\ InsertedOnce(Posts)'
      BY <2>6, SamePosts, Zenon
    <2>8. activeTimers_' = {Id(b)' : b \in timers_'}
      BY <1>10, <1>11, <1>14, <2>3 DEF OwnersOK
    <2>9. /\ timers_' \cap Batch' = {}
          /\ timers_' \cap InsertedBy(Posts)' = {}
          /\ Batch' \cap InsertedBy(Posts)' = {}
          /\ DOMAIN obj' = timers_' \cup Batch' \cup InsertedBy(Posts)'
      BY <1>2, <1>6, <1>8, <1>14, <2>3, <2>7 DEF OwnersOK
    <2>10. OwnersOK'
      BY <1>12, <2>7, <2>8, <2>9, Zenon DEF OwnersOK
    <2> QED
      BY <2>4, <2>5, <2>10
  <1>16. CASE t # Loop
    <2>1. /\ pendingFunctors_' = Append(pendingFunctors_, x)
          /\ UNCHANGED <<timers_, activeTimers_, timerfd_>>
      BY <1>1, <1>16, Zenon DEF heapVars, x
    <2>2. pendingFunctors_' \in Seq(Functor)
      BY <1>5, <2>1, PostAdded, Zenon DEF StoreOK
    <2>4. TypesOK'
      BY <1>u, <1>13, <2>1, Zenon DEF TypesOK
    <2>5. StoreOK'
      BY <1>u, <1>9, <2>2, Zenon DEF StoreOK
    <2>6. Posts \in Seq(Functor) /\ Posts' = Append(Posts, x)
      BY <1>5, <1>u, <2>1, PostsFacts, Zenon
    <2>a. a \notin InsertedBy(Posts)
      BY <1>2 DEF OwnersOK
    <2>7. InsertedBy(Posts)' = InsertedBy(Posts) \cup {a} /\ InsertedOnce(Posts)'
      <3>1. /\ InsertedBy(Append(Posts, x)) = InsertedBy(Posts) \cup {a}
            /\ InsertedOnce(Append(Posts, x))
        BY <1>5, <2>6, <2>a, PostAdded DEF OwnersOK
      <3> QED
        BY <2>6, <3>1, Zenon DEF InsertedBy, InsertedOnce, Inserts
    <2>8. activeTimers_' = {Id(b)' : b \in timers_'}
      BY <1>10, <1>14, <2>1 DEF OwnersOK
    <2>9. /\ timers_' \cap Batch' = {}
          /\ timers_' \cap InsertedBy(Posts)' = {}
          /\ Batch' \cap InsertedBy(Posts)' = {}
          /\ DOMAIN obj' = timers_' \cup Batch' \cup InsertedBy(Posts)'
      BY <1>2, <1>6, <1>8, <1>14, <2>1, <2>7 DEF OwnersOK
    <2>10. OwnersOK'
      BY <1>12, <2>7, <2>8, <2>9, Zenon DEF OwnersOK
    <2> QED
      BY <2>4, <2>5, <2>10
  <1> QED
    BY <1>15, <1>16

\* A cancellation deletes its Timer from the heap, or owns nothing while it is posted.
LEMMA CancelStep ==
    ASSUME TypesOK, StoreOK, OwnersOK, NEW t \in Creators, Cancel(t)
    PROVE  TypesOK' /\ StoreOK' /\ OwnersOK'
  <1>1. PICK h \in handles :
            /\ cancelled' = cancelled \cup {h.uid}
            /\ IF t = Loop
               THEN cancelInLoop(h, TRUE)
               ELSE /\ pendingFunctors_' = Append(pendingFunctors_,
                                                  [op |-> "cancel", id |-> h, retry |-> TRUE])
                    /\ UNCHANGED <<obj, heapVars, cancelingTimers_>>
    BY Zenon DEF Cancel
  <1>u. /\ UNCHANGED <<creating, handles, expired, next, expiredTimers_, elapsed>>
        /\ UNCHANGED <<pc, functors, runs>>
    BY Zenon DEF Cancel, createVars, batchVars, loopVars
  <1>2. h \in Handle /\ h.uid \in 1..MaxTimers /\ <<h.addr, h.seq>> \in Addrs \X Nat
    BY <1>1 DEF TypesOK, Handle
  <1>3. cancelled' \subseteq 1..MaxTimers
    BY <1>1, <1>2, Zenon DEF TypesOK
  <1>4. Posts \in Seq(Functor) /\ InsertedOnce(Posts) /\ pendingFunctors_ \in Seq(Functor)
    BY PostsFacts, Zenon DEF StoreOK, OwnersOK
  <1>p. ASSUME NEW b \in BOOLEAN,
               pendingFunctors_' = Append(pendingFunctors_, [op |-> "cancel", id |-> h, retry |-> b])
        PROVE  /\ pendingFunctors_' \in Seq(Functor)
               /\ InsertedBy(Posts)' = InsertedBy(Posts) /\ InsertedOnce(Posts)'
    <2> DEFINE x == [op |-> "cancel", id |-> h, retry |-> b]
    <2>1. /\ x \in Functor
          /\ InsertedBy(Append(Posts, x)) = InsertedBy(Posts) /\ InsertedOnce(Append(Posts, x))
      BY <1>2, <1>4, CancelPosted, Zenon
    <2>2. pendingFunctors_' = Append(pendingFunctors_, x)
      BY <1>p
    <2> HIDE DEF x
    <2>3. Posts' = Append(Posts, x)
      BY <1>u, <2>1, <2>2, PostsFacts, Zenon
    <2>4. pendingFunctors_' \in Seq(Functor)
      BY <1>4, <2>1, <2>2, PostAdded, Zenon
    <2>5. InsertedBy(Posts)' = InsertedBy(Posts)
      BY <2>1, <2>3, Zenon DEF InsertedBy, Inserts
    <2>6. InsertedOnce(Posts)'
      BY <2>1, <2>3 DEF InsertedOnce, Inserts
    <2> QED
      BY <2>4, <2>5, <2>6
  <1>5. /\ pendingFunctors_' \in Seq(Functor)
        /\ InsertedBy(Posts)' = InsertedBy(Posts) /\ InsertedOnce(Posts)'
    <2>1. CASE UNCHANGED pendingFunctors_
      <3>1. Posts' = Posts
        BY <1>u, <2>1, Zenon DEF Posts
      <3> QED
        BY <1>4, <2>1, <3>1, SamePosts, Zenon
    <2>2. CASE ~UNCHANGED pendingFunctors_
      <3>1. \/ pendingFunctors_' = Append(pendingFunctors_, [op |-> "cancel", id |-> h, retry |-> TRUE])
            \/ pendingFunctors_' = Append(pendingFunctors_, [op |-> "cancel", id |-> h, retry |-> FALSE])
        BY <1>1, <2>2, Zenon DEF cancelInLoop, Retried
      <3> QED
        BY <1>p, <3>1, Zenon
    <2> QED
      BY <2>1, <2>2
  <1>6. /\ OwnersOK' /\ DOMAIN obj' \subseteq Addrs /\ \A a \in DOMAIN obj' : obj'[a] \in Timer
        /\ UNCHANGED timerfd_
        /\ cancelingTimers_' \in {cancelingTimers_, cancelingTimers_ \cup {<<h.addr, h.seq>>}}
    <2>1. CASE t = Loop
      <3>1. cancelInLoop(h, TRUE)
        BY <1>1, <2>1, Zenon
      <3> QED
        BY <1>2, <1>5, <1>u, <3>1, CancelEffect, Zenon
    <2>2. CASE t # Loop
      <3>1. UNCHANGED <<obj, heapVars, cancelingTimers_>>
        BY <1>1, <2>2, Zenon
      <3>2. OwnersOK'
        BY <1>5, <1>u, <3>1, OwnersKept, Zenon DEF heapVars
      <3> QED
        BY <3>1, <3>2, Zenon DEF heapVars, StoreOK
    <2> QED
      BY <2>1, <2>2
  <1>7. cancelingTimers_' \subseteq Addrs \X Nat
    BY <1>2, <1>6 DEF TypesOK
  <1>8. TypesOK'
    BY <1>3, <1>6, <1>7, <1>u, Zenon DEF TypesOK
  <1>9. StoreOK'
    BY <1>5, <1>6, <1>u, Zenon DEF StoreOK
  <1> QED
    BY <1>6, <1>8, <1>9

(***************************************************************************)
(* The steps of the loop.                                                  *)
(***************************************************************************)

\* The due timers change hands from the heap to the batch.
LEMMA HandleReadStep ==
    ASSUME TypesOK, StoreOK, OwnersOK, HandleRead
    PROVE  TypesOK' /\ StoreOK' /\ OwnersOK'
  <1>1. /\ expired' \in Bijection(1..Cardinality(getExpired), getExpired)
        /\ timers_' = timers_ \ getExpired
        /\ activeTimers_' = activeTimers_ \ ExpiredIds(getExpired)
        /\ expiredTimers_' = ExpiredIds(getExpired)
        /\ next' = 0 /\ elapsed' = 0 /\ pc = "events" /\ pc' = "batch"
        /\ timerfd_' \in {timerfd_, Off}
    BY Zenon DEF HandleRead, ExpiredIds
  <1>u. /\ UNCHANGED <<obj, creating, handles, cancelingTimers_>>
        /\ UNCHANGED <<functors, pendingFunctors_, cancelled, runs>>
    BY Zenon DEF HandleRead, createVars
  <1> DEFINE due == getExpired
  <1>2. due \subseteq timers_ /\ timers_ \subseteq DOMAIN obj /\ DOMAIN obj \subseteq Addrs
    BY DEF getExpired, OwnersOK, StoreOK
  <1>3. IsFiniteSet(due)
    BY <1>2, FS_Subset, TimerAssumption
  <1> HIDE DEF due
  <1>4. expired' \in Seq(due) /\ Batch' = due /\ IsInjective(expired')
    <2>1. expired' \in Bijection(1..Cardinality(due), due)
      BY <1>1 DEF due
    <2>2. expired' \in Seq(due) /\ Range(expired') = due /\ IsInjective(expired')
      BY <1>3, <2>1, BatchOfDue
    <2> QED
      BY <2>2 DEF Batch
  <1>5. expired' \in Seq(Addrs) /\ Len(expired') \in Nat
    BY <1>2, <1>4, LenProperties
  <1>6. ExpiredIds(due) \subseteq Addrs \X Nat
    BY <1>2 DEF ExpiredIds, Id, StoreOK, Timer
  <1>7. TypesOK'
    <2>1. expiredTimers_' \subseteq Addrs \X Nat /\ elapsed' \in 0..MaxDelay /\ timerfd_' \in 0..Off
      BY <1>1, <1>6, TimerAssumption DEF due, Off, TypesOK
    <2> QED
      BY <1>1, <1>u, <2>1, Zenon DEF TypesOK
  <1>8. StoreOK'
    <2>1. next' \in 0..Len(expired') /\ functors' = <<>>
      BY <1>1, <1>5, <1>u DEF StoreOK
    <2>2. IsInjective(expired)'
      BY <1>4 DEF IsInjective
    <2> QED
      BY <1>1, <1>5, <1>u, <2>1, <2>2, Zenon DEF StoreOK
  <1>9. Batch = {}
    BY <1>1 DEF StoreOK, Batch, Range
  <1>10. Posts' = Posts /\ \A b : Id(b)' = Id(b)
    BY <1>u, Zenon DEF Posts, Id
  <1>11. InsertedBy(Posts)' = InsertedBy(Posts) /\ InsertedOnce(Posts)'
    BY <1>10, SamePosts, Zenon
  <1>12. activeTimers_' = {Id(b)' : b \in timers_'}
    <2>1. activeTimers_ = {Id(b) : b \in timers_}
      BY DEF OwnersOK
    <2>2. \A b, c : Id(b) = Id(c) => b = c
      BY DEF Id
    <2> QED
      BY <1>1, <1>10, <2>1, <2>2, Zenon DEF ExpiredIds
  <1>13. /\ timers_' \cap Batch' = {}
         /\ timers_' \cap InsertedBy(Posts)' = {}
         /\ Batch' \cap InsertedBy(Posts)' = {}
         /\ DOMAIN obj' = timers_' \cup Batch' \cup InsertedBy(Posts)'
    <2>1. timers_' = timers_ \ due
      BY <1>1 DEF due
    <2> QED
      BY <1>2, <1>4, <1>9, <1>11, <1>u, <2>1 DEF OwnersOK
  <1>14. OwnersOK'
    BY <1>11, <1>12, <1>13, <1>u, Zenon DEF OwnersOK
  <1> QED
    BY <1>7, <1>8, <1>14

\* A callback only counts.
LEMMA RunTimerStep ==
    ASSUME TypesOK, StoreOK, OwnersOK, RunTimer
    PROVE  TypesOK' /\ StoreOK' /\ OwnersOK'
  <1> DEFINE u == obj[expired[next + 1]].uid
  <1>1. /\ next < Len(expired) /\ next' = next + 1 /\ pc = "batch"
        /\ runs' = [runs EXCEPT ![u] = Min({runs[u] + 1, 2})]
    BY Zenon DEF RunTimer
  <1>u. /\ UNCHANGED <<obj, creating, handles, timers_, activeTimers_, timerfd_, expired>>
        /\ UNCHANGED <<expiredTimers_, elapsed, cancelingTimers_>>
        /\ UNCHANGED <<pc, functors, pendingFunctors_, cancelled>>
    BY Zenon DEF RunTimer, createVars, heapVars, loopVars
  <1>2. u \in 1..MaxTimers
    <2>1. next + 1 \in DOMAIN expired
      BY <1>1, LenProperties DEF StoreOK
    <2>2. expired[next + 1] \in DOMAIN obj
      BY <2>1 DEF OwnersOK, Batch, Range
    <2> QED
      BY <2>2 DEF StoreOK, Timer
  <1> HIDE DEF u
  <1>3. Min({runs[u] + 1, 2}) \in 0..2
    <2>1. runs[u] \in 0..2
      BY <1>2 DEF TypesOK
    <2>2. {runs[u] + 1, 2} \subseteq Nat /\ {runs[u] + 1, 2} # {}
      BY <2>1
    <2>3. Min({runs[u] + 1, 2}) \in {runs[u] + 1, 2}
      BY <2>2, EarliestOf
    <2>4. runs[u] + 1 = 3 => Min({runs[u] + 1, 2}) = 2
      <3>1. ASSUME runs[u] + 1 = 3 PROVE Min({3, 2}) = 2
        BY DEF Min
      <3> QED
        BY <3>1
    <2> QED
      BY <2>1, <2>3, <2>4
  <1>4. runs' \in [1..MaxTimers -> 0..2]
    BY <1>1, <1>2, <1>3 DEF TypesOK
  <1>5. TypesOK'
    BY <1>4, <1>u, Zenon DEF TypesOK
  <1>6. next' \in 0..Len(expired')
    BY <1>1, <1>u, LenProperties DEF StoreOK
  <1>7. StoreOK'
    BY <1>6, <1>u, Zenon DEF StoreOK
  <1>8. Posts' = Posts
    BY <1>u, Zenon DEF Posts
  <1>9. InsertedBy(Posts)' = InsertedBy(Posts) /\ InsertedOnce(Posts)'
    BY <1>8, SamePosts, Zenon
  <1>10. OwnersOK'
    BY <1>9, <1>u, OwnersKept, Zenon
  <1> QED
    BY <1>5, <1>7, <1>10

\* The batch goes back to the heap or is deleted.
LEMMA ResetStep ==
    ASSUME TypesOK, StoreOK, OwnersOK, Reset
    PROVE  TypesOK' /\ StoreOK' /\ OwnersOK'
  <1> DEFINE gone == Range(expired) \ Restarted
             when == IF elapsed < Interval THEN Interval - elapsed ELSE 0
             o == [a \in DOMAIN obj \ gone |->
                       IF a \in Restarted THEN [obj[a] EXCEPT !.when = when] ELSE obj[a]]
  <1>1. /\ obj' = o /\ timers_' = timers_ \cup Restarted
        /\ activeTimers_' = activeTimers_ \cup {Id(a) : a \in Restarted}
        /\ timerfd_' = ResetTimerfd(o, timers_ \cup Restarted)
        /\ cancelingTimers_' = Unerased /\ expiredTimers_' = {} /\ expired' = <<>>
        /\ next' = 0 /\ elapsed' = 0 /\ pc = "batch" /\ pc' = "events"
    BY Zenon DEF Reset
  <1>u. UNCHANGED <<creating, handles, functors, pendingFunctors_, cancelled, runs>>
    BY Zenon DEF Reset, createVars
  <1>2. Restarted \subseteq Batch /\ gone = Batch \ Restarted
    BY DEF Restarted, Batch
  <1>3. when \in 0..MaxDelay
    BY TimerAssumption DEF TypesOK
  <1> HIDE DEF when
  <1>4. /\ DOMAIN o = DOMAIN obj \ gone
        /\ \A a \in DOMAIN o : o[a] \in Timer /\ o[a].seq = obj[a].seq
    <2>1. \A a \in DOMAIN obj : [obj[a] EXCEPT !.when = when] \in Timer
                                /\ [obj[a] EXCEPT !.when = when].seq = obj[a].seq
      BY <1>3, Zenon DEF StoreOK, Timer
    <2> QED
      BY <2>1 DEF StoreOK
  <1> HIDE DEF o, gone
  <1>5. timers_' \subseteq DOMAIN o /\ timers_ \cap Batch = {} /\ Batch \subseteq DOMAIN obj
    BY <1>1, <1>2, <1>4 DEF OwnersOK
  <1>6. timerfd_' \in 0..Off
    <2>1. CASE timers_ \cup Restarted = {}
      BY <1>1, <2>1 DEF ResetTimerfd, TypesOK
    <2>2. CASE timers_ \cup Restarted # {}
      <3> DEFINE W == Whens(o, timers_ \cup Restarted)
      <3>1. W \subseteq 0..MaxDelay /\ W # {}
        BY <1>1, <1>4, <1>5, <2>2 DEF Whens, Timer
      <3> HIDE DEF W
      <3>2. W \subseteq Nat
        BY <3>1
      <3>3. Min(W) \in 0..MaxDelay
        BY <3>1, <3>2, EarliestOf, Zenon
      <3>4. timerfd_' = resetTimerfd(Min(W))
        BY <1>1, <2>2 DEF ResetTimerfd, W
      <3> QED
        BY <3>3, <3>4, TimerfdInRange
    <2> QED
      BY <2>1, <2>2
  <1>7. TypesOK'
    <2>1. cancelingTimers_' \subseteq Addrs \X Nat /\ elapsed' \in 0..MaxDelay
          /\ expiredTimers_' \subseteq Addrs \X Nat
      BY <1>1, TimerAssumption DEF Unerased, TypesOK
    <2> QED
      BY <1>1, <1>6, <1>u, <2>1, Zenon DEF TypesOK
  <1>e. Range(<<>>) = {} /\ IsInjective(<<>>) /\ <<>> \in Seq(Addrs) /\ Len(<<>>) = 0
    BY DEF Range, IsInjective
  <1>8. StoreOK'
    <2>1. DOMAIN obj' \subseteq Addrs /\ \A a \in DOMAIN obj' : obj'[a] \in Timer
      BY <1>1, <1>4 DEF StoreOK
    <2>2. next' \in 0..Len(expired') /\ functors' = <<>>
      BY <1>1, <1>e, <1>u DEF StoreOK
    <2> QED
      BY <1>1, <1>e, <1>u, <2>1, <2>2, Zenon DEF StoreOK
  <1>9. Batch' = {}
    BY <1>1, <1>e, Zenon DEF Batch
  <1>10. Posts' = Posts
    BY <1>u, Zenon DEF Posts
  <1>11. InsertedBy(Posts)' = InsertedBy(Posts) /\ InsertedOnce(Posts)'
    BY <1>10, SamePosts, Zenon
  <1>12. \A b \in timers_' : Id(b)' = Id(b)
    BY <1>1, <1>4, <1>5 DEF Id
  <1>13. activeTimers_' = {Id(b)' : b \in timers_'}
    BY <1>1, <1>12 DEF OwnersOK
  <1>14. /\ timers_' \cap Batch' = {}
         /\ timers_' \cap InsertedBy(Posts)' = {}
         /\ Batch' \cap InsertedBy(Posts)' = {}
         /\ DOMAIN obj' = timers_' \cup Batch' \cup InsertedBy(Posts)'
         /\ DOMAIN obj' \subseteq DOMAIN obj
    BY <1>1, <1>2, <1>4, <1>9, <1>11 DEF OwnersOK
  <1>15. OwnersOK'
    BY <1>11, <1>13, <1>14, <1>u, Zenon DEF OwnersOK
  <1> QED
    BY <1>7, <1>8, <1>15

\* doPendingFunctors() swaps the posts out in the order they have.
LEMMA SwapPendingStep ==
    ASSUME TypesOK, StoreOK, OwnersOK, SwapPending
    PROVE  TypesOK' /\ StoreOK' /\ OwnersOK'
  <1>1. /\ pc = "events" /\ pc' = "functors"
        /\ functors' = pendingFunctors_ /\ pendingFunctors_' = <<>>
        /\ UNCHANGED <<obj, creating, handles, timers_, activeTimers_, timerfd_, expired>>
        /\ UNCHANGED <<next, expiredTimers_, elapsed, cancelingTimers_, cancelled, runs>>
    BY Zenon DEF SwapPending, createVars, heapVars, batchVars
  <1>2. /\ functors = <<>> /\ expired = <<>>
        /\ pendingFunctors_ \in Seq(Functor) /\ <<>> \in Seq(Functor)
    BY <1>1 DEF StoreOK
  <1>3. Posts' = Posts
    BY <1>1, <1>2, PostsSteps, Zenon DEF Posts
  <1>4. InsertedBy(Posts)' = InsertedBy(Posts) /\ InsertedOnce(Posts)'
    BY <1>3, SamePosts, Zenon
  <1>5. OwnersOK'
    BY <1>1, <1>4, OwnersKept, Zenon
  <1>6. StoreOK'
    BY <1>1, <1>2, Zenon DEF StoreOK
  <1>7. TypesOK'
    BY <1>1, Zenon DEF TypesOK
  <1> QED
    BY <1>5, <1>6, <1>7

\* A posted insertion hands its Timer to the heap.
LEMMA RunInsertStep ==
    ASSUME TypesOK, StoreOK, OwnersOK, RunFunctor, Head(functors).op = "insert"
    PROVE  TypesOK' /\ StoreOK' /\ OwnersOK'
  <1>1. /\ insert(obj, Head(functors).addr) /\ UNCHANGED <<obj, cancelingTimers_, pendingFunctors_>>
        /\ functors # <<>> /\ functors' = Tail(functors) /\ pc = "functors"
    BY DEF RunFunctor
  <1>u. UNCHANGED <<creating, handles, expired, next, expiredTimers_, elapsed, pc, cancelled, runs>>
    BY Zenon DEF RunFunctor, createVars, batchVars
  <1>2. PICK a : a = Head(functors).addr
    OBVIOUS
  <1>3. a \in DOMAIN obj /\ obj[a].when \in 0..MaxDelay
    BY <1>1, <1>2, PostedExists
  <1>4. /\ timers_' = timers_ \cup {a} /\ timerfd_' \in 0..Off
        /\ activeTimers_' = activeTimers_ \cup {Id(a)}
    BY <1>1, <1>2, <1>3, InsertEffect DEF TypesOK, Id
  <1>5. /\ Posts \in Seq(Functor) /\ Posts # <<>> /\ Head(Posts) = Head(functors)
        /\ Posts' = Tail(Posts)
    BY <1>1, PostsFacts, Zenon
  <1>6. /\ a \in InsertedBy(Posts) /\ InsertedBy(Posts)' = InsertedBy(Posts) \ {a}
        /\ InsertedOnce(Posts)'
    <2>1. /\ a \in InsertedBy(Posts) /\ InsertedBy(Tail(Posts)) = InsertedBy(Posts) \ {a}
          /\ InsertedOnce(Tail(Posts))
      BY <1>2, <1>5, PostTaken DEF OwnersOK
    <2>2. InsertedBy(Posts)' = InsertedBy(Tail(Posts))
      BY <1>5, Zenon DEF InsertedBy, Inserts
    <2>3. InsertedOnce(Posts)'
      BY <1>5, <2>1 DEF InsertedOnce, Inserts
    <2> QED
      BY <2>1, <2>2, <2>3
  <1>7. TypesOK'
    BY <1>1, <1>4, <1>u, Zenon DEF TypesOK
  <1>8. StoreOK'
    <2>1. functors' \in Seq(Functor)
      BY <1>1, HeadTailProperties DEF StoreOK
    <2> QED
      BY <1>1, <1>u, <2>1, Zenon DEF StoreOK
  <1>9. Batch' = Batch /\ \A b : Id(b)' = Id(b)
    BY <1>1, <1>u, Zenon DEF Batch, Id
  <1>10. activeTimers_' = {Id(b)' : b \in timers_'}
    BY <1>4, <1>9 DEF OwnersOK
  <1>11. /\ timers_' \cap Batch' = {}
         /\ timers_' \cap InsertedBy(Posts)' = {}
         /\ Batch' \cap InsertedBy(Posts)' = {}
         /\ DOMAIN obj' = timers_' \cup Batch' \cup InsertedBy(Posts)'
    BY <1>1, <1>4, <1>6, <1>9 DEF OwnersOK
  <1>12. OwnersOK'
    BY <1>1, <1>6, <1>10, <1>11, <1>u, Zenon DEF OwnersOK
  <1> QED
    BY <1>7, <1>8, <1>12

\* A posted cancellation finds its Timer, or is posted once more.
LEMMA RunCancelStep ==
    ASSUME TypesOK, StoreOK, OwnersOK, RunFunctor, Head(functors).op # "insert"
    PROVE  TypesOK' /\ StoreOK' /\ OwnersOK'
  <1> DEFINE f == Head(functors)
             h == f.id
             x == [op |-> "cancel", id |-> h, retry |-> FALSE]
  <1>1. /\ f.op = "cancel" /\ cancelInLoop(h, f.retry)
        /\ functors # <<>> /\ functors' = Tail(functors) /\ pc = "functors"
    BY DEF RunFunctor
  <1>u. UNCHANGED <<creating, handles, expired, next, expiredTimers_, elapsed, pc, cancelled, runs>>
    BY Zenon DEF RunFunctor, createVars, batchVars
  <1>2. functors \in Seq(Functor) /\ pendingFunctors_ \in Seq(Functor) /\ InsertedOnce(Posts)
    BY DEF StoreOK, OwnersOK
  <1>3. f \in Functor /\ Tail(functors) \in Seq(Functor)
    BY <1>1, <1>2, HeadTailProperties
  <1>4. h \in Handle /\ f.retry \in BOOLEAN
    <2> HIDE DEF f
    <2>1. \/ f \in [op : {"insert"}, addr : Addrs]
          \/ f \in [op : {"cancel"}, id : Handle, retry : BOOLEAN]
      BY <1>3, Zenon DEF Functor
    <2>2. f \notin [op : {"insert"}, addr : Addrs]
      BY <1>1
    <2> QED
      BY <2>1, <2>2, Zenon
  <1>5. /\ Posts \in Seq(Functor) /\ Posts # <<>> /\ Head(Posts) = f
        /\ UNCHANGED pendingFunctors_ => Posts' = Tail(Posts)
        /\ \A y \in Functor : pendingFunctors_' = Append(pendingFunctors_, y)
               => Posts' = Append(Tail(Posts), y)
    BY <1>1, PostsFacts, Zenon
  <1>6. /\ Tail(Posts) \in Seq(Functor) /\ InsertedOnce(Tail(Posts))
        /\ InsertedBy(Tail(Posts)) = InsertedBy(Posts)
    BY <1>2, <1>5, PostTaken
  <1>7. /\ x \in Functor /\ InsertedBy(Append(Tail(Posts), x)) = InsertedBy(Posts)
        /\ InsertedOnce(Append(Tail(Posts), x))
    BY <1>4, <1>6, CancelPosted, Zenon
  <1>8. pendingFunctors_' \in {pendingFunctors_, Append(pendingFunctors_, x)}
    BY <1>1, Zenon DEF cancelInLoop, Retried
  <1> HIDE DEF x
  <1>9. pendingFunctors_' \in Seq(Functor)
    BY <1>2, <1>7, <1>8, PostAdded, Zenon
  <1>10. Posts' \in {Tail(Posts), Append(Tail(Posts), x)}
    BY <1>5, <1>7, <1>8, Zenon
  <1>11. InsertedBy(Posts') = InsertedBy(Posts) /\ InsertedOnce(Posts')
    BY <1>6, <1>7, <1>10, Zenon
  <1>12. InsertedBy(Posts)' = InsertedBy(Posts) /\ InsertedOnce(Posts)'
    BY <1>11 DEF InsertedBy, InsertedOnce, Inserts
  <1>13. PICK g \in Handle, b \in BOOLEAN : g = h /\ b = f.retry
    BY <1>4, Zenon
  <1>14. cancelInLoop(g, b)
    BY <1>1, <1>13, Zenon
  <1>15. /\ OwnersOK' /\ DOMAIN obj' \subseteq Addrs /\ \A a \in DOMAIN obj' : obj'[a] \in Timer
         /\ UNCHANGED timerfd_
         /\ cancelingTimers_' \in {cancelingTimers_, cancelingTimers_ \cup {<<g.addr, g.seq>>}}
    BY <1>12, <1>14, <1>u, CancelEffect, Zenon
  <1>16. cancelingTimers_' \subseteq Addrs \X Nat
    BY <1>15 DEF TypesOK, Handle
  <1>17. TypesOK'
    BY <1>15, <1>16, <1>u, Zenon DEF TypesOK
  <1>18. StoreOK'
    BY <1>1, <1>3, <1>9, <1>15, <1>u, Zenon DEF StoreOK
  <1> QED
    BY <1>15, <1>17, <1>18

\* Between the phases of an iteration nothing changes hands.
LEMMA PhaseStep ==
    ASSUME TypesOK, StoreOK, OwnersOK, Poll \/ EndFunctors
    PROVE  TypesOK' /\ StoreOK' /\ OwnersOK'
  <1>1. /\ pc' \in {"poll", "events"} /\ pc # "batch" /\ functors = <<>>
        /\ UNCHANGED <<obj, creating, handles, timers_, activeTimers_, timerfd_, expired, next>>
        /\ UNCHANGED <<expiredTimers_, elapsed, cancelingTimers_, functors, pendingFunctors_>>
        /\ UNCHANGED <<cancelled, runs>>
    <2>1. CASE Poll
      BY <2>1, Zenon DEF Poll, createVars, heapVars, batchVars, StoreOK
    <2>2. CASE EndFunctors
      BY <2>2, Zenon DEF EndFunctors, createVars, heapVars, batchVars
    <2> QED
      BY <2>1, <2>2
  <1>2. Posts' = Posts
    BY <1>1, Zenon DEF Posts
  <1>3. InsertedBy(Posts)' = InsertedBy(Posts) /\ InsertedOnce(Posts)'
    BY <1>2, SamePosts, Zenon
  <1>4. OwnersOK'
    BY <1>1, <1>3, OwnersKept, Zenon
  <1>5. /\ pc' \in {"poll", "events", "batch", "functors", "destroyed"}
        /\ pc' # "batch" /\ pc' # "functors"
    BY <1>1
  <1>6. TypesOK' /\ StoreOK'
    BY <1>1, <1>5, Zenon DEF TypesOK, StoreOK
  <1> QED
    BY <1>4, <1>6

\* ~TimerQueue() deletes what the heap owns.
LEMMA DestroyStep ==
    ASSUME TypesOK, StoreOK, OwnersOK, Destroy
    PROVE  TypesOK' /\ StoreOK' /\ OwnersOK'
  <1>1. /\ pc = "poll" /\ pc' = "destroyed" /\ Delete(timers_)
        /\ timers_' = {} /\ activeTimers_' = {} /\ timerfd_' = Off
        /\ UNCHANGED <<creating, handles, expired, next, expiredTimers_, elapsed, cancelingTimers_>>
        /\ UNCHANGED <<functors, pendingFunctors_, cancelled, runs>>
    BY Zenon DEF Destroy, createVars, batchVars
  <1>2. DOMAIN obj' = DOMAIN obj \ timers_ /\ \A a \in DOMAIN obj' : obj'[a] = obj[a]
    BY <1>1 DEF Delete, Restrict
  <1>3. Posts' = Posts /\ Batch' = Batch
    BY <1>1, Zenon DEF Posts, Batch
  <1>4. InsertedBy(Posts)' = InsertedBy(Posts) /\ InsertedOnce(Posts)'
    BY <1>3, SamePosts, Zenon
  <1>5. activeTimers_' = {Id(b)' : b \in timers_'}
    BY <1>1
  <1>6. /\ timers_' \cap Batch' = {}
        /\ timers_' \cap InsertedBy(Posts)' = {}
        /\ Batch' \cap InsertedBy(Posts)' = {}
        /\ DOMAIN obj' = timers_' \cup Batch' \cup InsertedBy(Posts)'
        /\ DOMAIN obj' \subseteq DOMAIN obj
    BY <1>1, <1>2, <1>3, <1>4 DEF OwnersOK
  <1>7. OwnersOK'
    BY <1>1, <1>4, <1>5, <1>6, Zenon DEF OwnersOK
  <1>8. TypesOK'
    <2>1. timerfd_' \in 0..Off
      BY <1>1, TimerAssumption DEF Off
    <2> QED
      BY <1>1, <2>1, Zenon DEF TypesOK
  <1>9. StoreOK'
    <2>1. DOMAIN obj' \subseteq Addrs /\ \A a \in DOMAIN obj' : obj'[a] \in Timer
      BY <1>2 DEF StoreOK
    <2>2. expired = <<>> /\ functors = <<>>
      BY <1>1 DEF StoreOK
    <2> QED
      BY <1>1, <2>1, <2>2, Zenon DEF StoreOK
  <1> QED
    BY <1>7, <1>8, <1>9

\* Time changes no owner and no handle.
LEMMA TickStep ==
    ASSUME TypesOK, StoreOK, OwnersOK, Tick
    PROVE  TypesOK' /\ StoreOK' /\ OwnersOK'
  <1>1. /\ obj' = [a \in DOMAIN obj |-> [obj[a] EXCEPT !.when = IF @ = 0 THEN 0 ELSE @ - 1]]
        /\ timerfd_' = IF timerfd_ \in {0, Off} THEN timerfd_ ELSE timerfd_ - 1
        /\ elapsed' = IF pc = "batch" /\ elapsed < Interval THEN elapsed + 1 ELSE elapsed
        /\ UNCHANGED <<creating, handles, timers_, activeTimers_, expired, next, expiredTimers_>>
        /\ UNCHANGED <<cancelingTimers_, pc, functors, pendingFunctors_, cancelled, runs>>
    BY Zenon DEF Tick, createVars, loopVars
  <1>2. /\ DOMAIN obj' = DOMAIN obj
        /\ \A a \in DOMAIN obj : obj'[a] \in Timer /\ obj'[a].seq = obj[a].seq
    <2>1. DOMAIN obj' = DOMAIN obj
      BY <1>1, Zenon
    <2> SUFFICES ASSUME NEW a \in DOMAIN obj
                 PROVE  obj'[a] \in Timer /\ obj'[a].seq = obj[a].seq
      BY <2>1
    <2> DEFINE w == IF obj[a].when = 0 THEN 0 ELSE obj[a].when - 1
    <2>2. obj[a] \in Timer
      BY DEF StoreOK
    <2>3. w \in 0..MaxDelay
      BY <2>2, TimerAssumption DEF Timer
    <2>4. obj'[a] = [obj[a] EXCEPT !.when = w]
      BY <1>1
    <2> HIDE DEF w
    <2> QED
      BY <2>2, <2>3, <2>4 DEF Timer
  <1>3. timerfd_' \in 0..Off /\ elapsed' \in 0..MaxDelay
    BY <1>1, TimerAssumption DEF TypesOK, Off
  <1>4. TypesOK'
    BY <1>1, <1>3, Zenon DEF TypesOK
  <1>5. StoreOK'
    BY <1>1, <1>2, Zenon DEF StoreOK
  <1>6. Posts' = Posts /\ Batch' = Batch
    BY <1>1, Zenon DEF Posts, Batch
  <1>7. InsertedBy(Posts)' = InsertedBy(Posts) /\ InsertedOnce(Posts)'
    BY <1>6, SamePosts, Zenon
  <1>8. activeTimers_' = {Id(b)' : b \in timers_'}
    <2>1. \A b \in timers_ : Id(b)' = Id(b)
      BY <1>2 DEF Id, OwnersOK
    <2> QED
      BY <1>1, <2>1 DEF OwnersOK
  <1>9. OwnersOK'
    BY <1>1, <1>2, <1>6, <1>7, <1>8, Zenon DEF OwnersOK
  <1> QED
    BY <1>4, <1>5, <1>9

(***************************************************************************)
(* Every behaviour keeps the invariant.                                    *)
(***************************************************************************)
LEMMA OwnersStep == Inv /\ [Next]_vars => TypesOK' /\ StoreOK' /\ OwnersOK'
  <1> SUFFICES ASSUME Inv, [Next]_vars PROVE TypesOK' /\ StoreOK' /\ OwnersOK'
    OBVIOUS
  <1>0. TypesOK /\ CountsOK /\ StoreOK /\ OwnersOK
    BY Zenon DEF Inv
  <1>1. ASSUME NEW t \in Creators, AddTimer(t) PROVE TypesOK' /\ StoreOK' /\ OwnersOK'
    BY <1>0, <1>1, AddTimerStep, Zenon
  <1>2. ASSUME NEW t \in Creators, AddTimerEnd(t) PROVE TypesOK' /\ StoreOK' /\ OwnersOK'
    BY <1>0, <1>2, AddTimerEndStep, Zenon
  <1>3. ASSUME NEW t \in Creators, Cancel(t) PROVE TypesOK' /\ StoreOK' /\ OwnersOK'
    BY <1>0, <1>3, CancelStep, Zenon
  <1>4. CASE Poll \/ EndFunctors
    BY <1>0, <1>4, PhaseStep, Zenon
  <1>5. CASE HandleRead
    BY <1>0, <1>5, HandleReadStep, Zenon
  <1>6. CASE RunTimer
    BY <1>0, <1>6, RunTimerStep, Zenon
  <1>7. CASE Reset
    BY <1>0, <1>7, ResetStep, Zenon
  <1>8. CASE SwapPending
    BY <1>0, <1>8, SwapPendingStep, Zenon
  <1>9. CASE RunFunctor
    BY <1>0, <1>9, RunInsertStep, RunCancelStep, Zenon
  <1>10. CASE Destroy
    BY <1>0, <1>10, DestroyStep, Zenon
  <1>11. CASE Tick
    BY <1>0, <1>11, TickStep, Zenon
  <1>12. CASE UNCHANGED vars
    <2>1. StoreOK' /\ OwnersOK'
      BY <1>0, <1>12, StoreUnchanged, Zenon DEF vars, createVars, heapVars, batchVars, loopVars
    <2>2. TypesOK'
      BY <1>0, <1>12, Zenon DEF TypesOK, vars, createVars, heapVars, batchVars, loopVars
    <2> QED
      BY <2>1, <2>2
  <1> QED
    BY <1>1, <1>2, <1>3, <1>4, <1>5, <1>6, <1>7, <1>8, <1>9, <1>10, <1>11, <1>12, Zenon
       DEF Next, LoopStep

\* Every Timer has one owner, in every behaviour: no callback, heap comparison or delete
\* touches a freed Timer, none is deleted twice and none leaks while the queue lives,
\* however addTimer() and cancel() of any number of threads race the loop (TimerQueue.cpp,
\* addTimer, cancelInLoop, handleRead, reset), and although racing constructors draw the
\* same sequence number.
THEOREM TimersHaveOneOwner == Spec => []OneOwner
  <1>1. Inv /\ [Next]_vars => Inv'
    BY FlagStep, CountsStep, OwnersStep, Zenon DEF Inv
  <1> QED
    BY <1>1, InvInit, InvImplies, PTL DEF Spec

(***************************************************************************)
(* Cancellations and runs.  CancelNotForgotten and OneShotRunsOnce are not *)
(* inductive: CancelInv adds to them that a handle is told from the others *)
(* by its timer's number, that what is marked belongs to the batch, and    *)
(* how often a timer that is not in the batch has run.                     *)
(***************************************************************************)
\* A cancellation of timer u is posted, behind any insertion of address a.
Behind(s, u, a) ==
    \E i \in DOMAIN s :
        /\ s[i].op = "cancel" /\ s[i].id.uid = u
        /\ \A j \in Inserts(s) : s[j].addr = a => j < i

HandleOf(a) == [addr |-> a, seq |-> obj[a].seq, uid |-> obj[a].uid]

\* Every Timer has a handle, and a handle is told from all others by the timer's number.
HandlesOK ==
    /\ \A a \in DOMAIN obj : HandleOf(a) \in handles
    /\ \A g, h \in handles : g.uid = h.uid => g = h
    /\ \A u \in cancelled : u <= Cardinality(handles)
    /\ \A i \in DOMAIN Posts : Posts[i].op = "cancel" => Posts[i].id \in handles

\* The marks are of the batch.
MarksOK == expiredTimers_ = {Id(a) : a \in Batch} /\ cancelingTimers_ \subseteq expiredTimers_

\* A cancelled timer that exists is marked, or its cancellation is posted.
CancelsOK ==
    \A a \in DOMAIN obj :
        obj[a].uid \in cancelled => Id(a) \in cancelingTimers_ \/ Behind(Posts, obj[a].uid, a)

\* How often a one-shot timer has run.
Called == {expired[i] : i \in 1..next}
RunsOK ==
    /\ \A u \in 1..MaxTimers : u > Cardinality(handles) => runs[u] = 0
    /\ \A a \in DOMAIN obj :
           obj[a].repeat = FALSE => runs[obj[a].uid] = IF a \in Called THEN 1 ELSE 0

CancelInv == HandlesOK /\ MarksOK /\ CancelsOK /\ RunsOK

\* A cancellation stays behind the insertion it is behind, and one just posted is behind them all.
LEMMA BehindAppended ==
    ASSUME NEW s \in Seq(Functor), NEW x \in Functor, NEW u, NEW a
    PROVE  /\ Behind(s, u, a) /\ (x.op = "insert" => x.addr # a) => Behind(Append(s, x), u, a)
           /\ x.op = "cancel" /\ x.id.uid = u => Behind(Append(s, x), u, a)
  <1> DEFINE t == Append(s, x)
  <1>1. /\ Len(s) \in Nat /\ DOMAIN s = 1..Len(s) /\ DOMAIN t = 1..(Len(s) + 1)
        /\ \A i \in 1..Len(s) : t[i] = s[i]
        /\ t[Len(s) + 1] = x
    BY AppendProperties, LenProperties
  <1> HIDE DEF t
  <1>2. \A j \in Inserts(t) : j # Len(s) + 1 => j \in Inserts(s) /\ t[j] = s[j]
    BY <1>1 DEF Inserts
  <1>3. ASSUME Behind(s, u, a), x.op = "insert" => x.addr # a PROVE Behind(t, u, a)
    <2>1. PICK i \in DOMAIN s : /\ s[i].op = "cancel" /\ s[i].id.uid = u
                                /\ \A j \in Inserts(s) : s[j].addr = a => j < i
      BY <1>3 DEF Behind
    <2>2. i \in DOMAIN t /\ t[i] = s[i]
      BY <1>1
    <2>3. ASSUME NEW j \in Inserts(t), t[j].addr = a PROVE j < i
      <3>1. j # Len(s) + 1
        BY <1>1, <1>3, <2>3 DEF Inserts
      <3> QED
        BY <1>2, <2>1, <2>3, <3>1
    <2> QED
      BY <2>1, <2>2, <2>3 DEF Behind
  <1>4. ASSUME x.op = "cancel", x.id.uid = u PROVE Behind(t, u, a)
    <2>1. \A j \in Inserts(t) : j < Len(s) + 1
      BY <1>1, <1>4 DEF Inserts
    <2>2. Len(s) + 1 \in DOMAIN t
      BY <1>1
    <2> QED
      BY <1>1, <1>4, <2>1, <2>2 DEF Behind
  <1> QED
    BY <1>3, <1>4 DEF t

\* It stays posted when the first post is taken, unless it is the first itself and finds the
\* timer inserted.
LEMMA BehindTaken ==
    ASSUME NEW s \in Seq(Functor), s # <<>>, NEW u, NEW a, Behind(s, u, a),
           \/ Head(s).op # "cancel" \/ Head(s).id.uid # u
           \/ a \in InsertedBy(s)
    PROVE  Behind(Tail(s), u, a)
  <1> DEFINE t == Tail(s)
  <1>1. /\ Head(s) = s[1] /\ Len(s) \in Nat /\ Len(s) > 0
        /\ DOMAIN s = 1..Len(s) /\ DOMAIN t = 1..(Len(s) - 1)
        /\ \A i \in 1..(Len(s) - 1) : t[i] = s[i + 1]
    BY HeadTailProperties, LenProperties, EmptySeq
  <1> HIDE DEF t
  <1>2. PICK i \in DOMAIN s : /\ s[i].op = "cancel" /\ s[i].id.uid = u
                              /\ \A j \in Inserts(s) : s[j].addr = a => j < i
    BY DEF Behind
  <1>3. i # 1
    <2>1. ASSUME i = 1, a \in InsertedBy(s) PROVE FALSE
      <3>1. PICK j \in Inserts(s) : s[j].addr = a
        BY <2>1 DEF InsertedBy
      <3>2. j < 1 /\ j \in 1..Len(s)
        BY <1>1, <1>2, <2>1, <3>1 DEF Inserts
      <3> QED
        BY <1>1, <3>2
    <2> QED
      BY <1>1, <1>2, <2>1
  <1>4. i - 1 \in DOMAIN t /\ t[i - 1] = s[i]
    BY <1>1, <1>2, <1>3
  <1>5. ASSUME NEW j \in Inserts(t), t[j].addr = a PROVE j < i - 1
    <2>1. j + 1 \in Inserts(s) /\ s[j + 1].addr = a /\ j \in Nat
      BY <1>1, <1>5 DEF Inserts
    <2> QED
      BY <1>1, <1>2, <2>1
  <1> QED
    BY <1>2, <1>4, <1>5, Zenon DEF Behind, t

(***************************************************************************)
(* A step that only deletes Timers, or moves them about.                   *)
(***************************************************************************)
Kept ==
    /\ DOMAIN obj' \subseteq DOMAIN obj
    /\ \A a \in DOMAIN obj' :
           obj'[a].seq = obj[a].seq /\ obj'[a].uid = obj[a].uid /\ obj'[a].repeat = obj[a].repeat

\* The handles.
LEMMA HandlesKept ==
    ASSUME HandlesOK, Kept, handles' = handles,
           \A u \in cancelled' : u \in cancelled \/ u <= Cardinality(handles),
           \A i \in DOMAIN Posts' : Posts'[i].op = "cancel" => Posts'[i].id \in handles
    PROVE  HandlesOK'
  <1>1. \A a \in DOMAIN obj' : HandleOf(a)' = HandleOf(a) /\ a \in DOMAIN obj
    BY DEF Kept, HandleOf
  <1> QED
    BY <1>1 DEF HandlesOK

\* The marks.
LEMMA MarksKept ==
    ASSUME MarksOK, Kept, OwnersOK', expired' = expired, expiredTimers_' = expiredTimers_,
           cancelingTimers_' \subseteq expiredTimers_
    PROVE  MarksOK'
  <1>1. Batch' = Batch /\ Batch' \subseteq DOMAIN obj'
    BY DEF Batch, OwnersOK
  <1>2. \A a \in Batch : Id(a)' = Id(a)
    BY <1>1 DEF Kept, Id
  <1> QED
    BY <1>1, <1>2 DEF MarksOK

\* The cancellations on their way.
LEMMA CancelsKept ==
    ASSUME CancelsOK, Kept, cancelingTimers_ \subseteq cancelingTimers_', cancelled' = cancelled,
           \A a \in DOMAIN obj' : Behind(Posts, obj[a].uid, a) => Behind(Posts', obj[a].uid, a)
    PROVE  CancelsOK'
  <1> SUFFICES ASSUME NEW a \in DOMAIN obj', obj'[a].uid \in cancelled
               PROVE  Id(a)' \in cancelingTimers_' \/ Behind(Posts', obj'[a].uid, a)
    BY DEF CancelsOK, Behind, Inserts
  <1>1. a \in DOMAIN obj /\ obj'[a].uid = obj[a].uid /\ Id(a)' = Id(a)
    BY DEF Kept, Id
  <1> QED
    BY <1>1 DEF CancelsOK

\* The calls.
LEMMA RunsKept ==
    ASSUME RunsOK, Kept, handles' = handles, runs' = runs, Called' = Called
    PROVE  RunsOK'
  BY DEF RunsOK, Kept

\* All of them, when nothing is posted or taken and no batch begins or ends.
LEMMA QuietStep ==
    ASSUME CancelInv, OwnersOK', Kept, Posts' = Posts,
           UNCHANGED <<handles, cancelled, expired, next, expiredTimers_, cancelingTimers_, runs>>
    PROVE  CancelInv'
  <1>1. /\ handles' = handles /\ cancelled' = cancelled /\ expired' = expired /\ next' = next
        /\ expiredTimers_' = expiredTimers_ /\ cancelingTimers_' = cancelingTimers_ /\ runs' = runs
    BY Zenon
  <1>2. HandlesOK'
    <2>1. HandlesOK
      BY Zenon DEF CancelInv
    <2> QED
      BY <1>1, <2>1, HandlesKept DEF HandlesOK
  <1>3. MarksOK'
    BY <1>1, MarksKept, Zenon DEF CancelInv, MarksOK
  <1>4. CancelsOK'
    BY <1>1, CancelsKept, Zenon DEF CancelInv
  <1>5. Called' = Called
    BY <1>1, Zenon DEF Called
  <1>6. RunsOK'
    BY <1>1, <1>5, RunsKept, Zenon DEF CancelInv
  <1> QED
    BY <1>2, <1>3, <1>4, <1>6, Zenon DEF CancelInv

(***************************************************************************)
(* The calls of cancel().                                                  *)
(***************************************************************************)
Retry(h) == [op |-> "cancel", id |-> h, retry |-> FALSE]

\* cancelInLoop() deletes the timer of the handle, or marks it, or the timer is not inserted yet
\* and the cancellation may be posted again.
LEMMA CancelFinds ==
    ASSUME Inv, CancelInv, NEW h \in handles, NEW b, cancelInLoop(h, b)
    PROVE  /\ Kept
           /\ cancelingTimers_ \subseteq cancelingTimers_' /\ cancelingTimers_' \subseteq expiredTimers_
           /\ pendingFunctors_' \in {pendingFunctors_, Append(pendingFunctors_, Retry(h))}
           /\ \A a \in DOMAIN obj' : obj[a].uid = h.uid =>
                  \/ Id(a) \in cancelingTimers_'
                  \/ a \in InsertedBy(Posts) /\ pendingFunctors_' = Retried(h, b)
  <1> DEFINE id == <<h.addr, h.seq>>
  <1>0. HandlesOK /\ MarksOK /\ OwnersOK /\ StoreOK
    BY Zenon DEF Inv, CancelInv
  <1>1. ASSUME NEW a \in DOMAIN obj, obj[a].uid = h.uid PROVE h.addr = a /\ Id(a) = id
    <2>1. HandleOf(a) \in handles /\ HandleOf(a).uid = h.uid
      BY <1>0, <1>1 DEF HandlesOK, HandleOf
    <2>2. h = HandleOf(a)
      BY <1>0, <2>1, Zenon DEF HandlesOK
    <2> QED
      BY <2>2 DEF HandleOf, Id
  <1>2. CASE /\ id \in activeTimers_ /\ Delete({h.addr})
             /\ UNCHANGED <<cancelingTimers_, pendingFunctors_>>
    <2>1. DOMAIN obj' = DOMAIN obj \ {h.addr} /\ \A a \in DOMAIN obj' : obj'[a] = obj[a]
      BY <1>2 DEF Delete, Restrict
    <2>2. Kept
      BY <2>1 DEF Kept
    <2>3. \A a \in DOMAIN obj' : obj[a].uid # h.uid
      BY <1>1, <2>1
    <2> QED
      BY <1>0, <1>2, <2>2, <2>3 DEF MarksOK
  <1>3. CASE /\ InBatch(id) /\ cancelingTimers_' = cancelingTimers_ \cup {id}
             /\ UNCHANGED <<obj, pendingFunctors_>>
    <2>1. Kept
      BY <1>3 DEF Kept
    <2>2. id \in expiredTimers_
      BY <1>3 DEF InBatch
    <2>3. \A a \in DOMAIN obj' : obj[a].uid = h.uid => Id(a) \in cancelingTimers_'
      <3>1. obj' = obj
        BY <1>3
      <3> QED
        BY <1>1, <1>3, <3>1
    <2> QED
      BY <1>0, <1>3, <2>1, <2>2, <2>3 DEF MarksOK
  <1>4. CASE /\ id \notin activeTimers_ /\ ~InBatch(id) /\ pendingFunctors_' = Retried(h, b)
             /\ UNCHANGED <<obj, cancelingTimers_>>
    <2>1. Kept /\ obj' = obj
      BY <1>4 DEF Kept
    <2>2. ASSUME NEW a \in DOMAIN obj, obj[a].uid = h.uid PROVE a \in InsertedBy(Posts)
      <3>1. Id(a) = id
        BY <1>1, <2>2
      <3>2. a \notin timers_
        BY <1>0, <1>4, <3>1 DEF OwnersOK
      <3>3. a \notin Batch
        <4>1. a \in Batch => pc = "batch"
          BY <1>0 DEF StoreOK, Batch, Range
        <4>2. a \in Batch => Id(a) \in expiredTimers_
          BY <1>0 DEF MarksOK
        <4> QED
          BY <1>4, <3>1, <4>1, <4>2, Zenon DEF InBatch, callingExpiredTimers_
      <3> QED
        BY <1>0, <3>2, <3>3 DEF OwnersOK
    <2>3. pendingFunctors_' \in {pendingFunctors_, Append(pendingFunctors_, Retry(h))}
      BY <1>4, Zenon DEF Retried, Retry
    <2> QED
      BY <1>0, <1>4, <2>1, <2>2, <2>3 DEF MarksOK
  <1> QED
    BY <1>2, <1>3, <1>4, Zenon DEF cancelInLoop, heapVars

\* A post behind the others.
LEMMA PostedBehind ==
    ASSUME StoreOK, HandlesOK, TypesOK, NEW h \in handles, NEW b \in BOOLEAN, functors' = functors,
           pendingFunctors_' = Append(pendingFunctors_, [op |-> "cancel", id |-> h, retry |-> b])
    PROVE  /\ \A u, a : Behind(Posts, u, a) => Behind(Posts', u, a)
           /\ \A a : Behind(Posts', h.uid, a)
           /\ \A i \in DOMAIN Posts' : Posts'[i].op = "cancel" => Posts'[i].id \in handles
  <1> DEFINE x == [op |-> "cancel", id |-> h, retry |-> b]
  <1>1. x \in Functor /\ x.op = "cancel" /\ x.id = h
    BY DEF TypesOK, Functor
  <1> HIDE DEF x
  <1>2. pendingFunctors_' = Append(pendingFunctors_, x)
    BY DEF x
  <1>3. Posts \in Seq(Functor) /\ Posts' = Append(Posts, x)
    BY <1>1, <1>2, PostsFacts, Zenon
  <1>4. \A u, a : Behind(Posts, u, a) => Behind(Posts', u, a)
    BY <1>1, <1>3, BehindAppended
  <1>5. \A a : Behind(Posts', h.uid, a)
    BY <1>1, <1>3, BehindAppended
  <1>6. \A i \in DOMAIN Posts' : Posts'[i].op = "cancel" => Posts'[i].id \in handles
    BY <1>1, <1>3, AppendProperties, LenProperties DEF HandlesOK
  <1> QED
    BY <1>4, <1>5, <1>6

\* cancel().
LEMMA CancelKeeps ==
    ASSUME Inv, OwnersOK', CancelInv, NEW t \in Creators, Cancel(t)
    PROVE  CancelInv'
  <1>0. /\ HandlesOK /\ MarksOK /\ CancelsOK /\ RunsOK /\ StoreOK /\ TypesOK /\ CountsOK
    BY Zenon DEF Inv, CancelInv
  <1>1. PICK h \in handles :
            /\ cancelled' = cancelled \cup {h.uid}
            /\ IF t = Loop
               THEN cancelInLoop(h, TRUE)
               ELSE /\ pendingFunctors_' = Append(pendingFunctors_,
                                                  [op |-> "cancel", id |-> h, retry |-> TRUE])
                    /\ UNCHANGED <<obj, heapVars, cancelingTimers_>>
    BY Zenon DEF Cancel
  <1>u. /\ handles' = handles /\ expired' = expired /\ next' = next /\ expiredTimers_' = expiredTimers_
        /\ functors' = functors /\ runs' = runs
    BY Zenon DEF Cancel, createVars, batchVars, loopVars
  <1>2. /\ Kept /\ cancelingTimers_ \subseteq cancelingTimers_' /\ cancelingTimers_' \subseteq expiredTimers_
        /\ \/ pendingFunctors_' = pendingFunctors_
           \/ \E b \in BOOLEAN : pendingFunctors_' = Append(pendingFunctors_,
                                                            [op |-> "cancel", id |-> h, retry |-> b])
        /\ \A a \in DOMAIN obj' : obj[a].uid = h.uid =>
               \/ Id(a) \in cancelingTimers_'
               \/ \E b \in BOOLEAN : pendingFunctors_' = Append(pendingFunctors_,
                                                                [op |-> "cancel", id |-> h, retry |-> b])
    <2>1. CASE t = Loop
      <3>1. cancelInLoop(h, TRUE)
        BY <1>1, <2>1, Zenon
      <3>2. Retried(h, TRUE) = Append(pendingFunctors_, [op |-> "cancel", id |-> h, retry |-> FALSE])
        BY DEF Retried
      <3> QED
        BY <3>1, <3>2, CancelFinds, Zenon DEF Retry
    <2>2. CASE t # Loop
      <3>1. /\ pendingFunctors_' = Append(pendingFunctors_, [op |-> "cancel", id |-> h, retry |-> TRUE])
            /\ obj' = obj /\ cancelingTimers_' = cancelingTimers_
        BY <1>1, <2>2, Zenon
      <3>2. Kept
        BY <3>1 DEF Kept
      <3> QED
        BY <1>0, <3>1, <3>2, Zenon DEF MarksOK
    <2> QED
      BY <2>1, <2>2, Zenon
  <1>3. /\ \A u, a : Behind(Posts, u, a) => Behind(Posts', u, a)
        /\ \A i \in DOMAIN Posts' : Posts'[i].op = "cancel" => Posts'[i].id \in handles
        /\ \A a \in DOMAIN obj' : obj[a].uid = h.uid =>
               Id(a) \in cancelingTimers_' \/ Behind(Posts', h.uid, a)
    <2>1. CASE pendingFunctors_' = pendingFunctors_
               /\ ~\E b \in BOOLEAN : pendingFunctors_' = Append(pendingFunctors_,
                                                             [op |-> "cancel", id |-> h, retry |-> b])
      <3>1. Posts' = Posts
        BY <1>u, <2>1, Zenon DEF Posts
      <3> QED
        BY <1>0, <1>2, <2>1, <3>1, Zenon DEF HandlesOK
    <2>2. ASSUME NEW b \in BOOLEAN,
                 pendingFunctors_' = Append(pendingFunctors_, [op |-> "cancel", id |-> h, retry |-> b])
          PROVE  <1>3!1 /\ <1>3!2 /\ <1>3!3
      BY <1>0, <1>u, <2>2, PostedBehind, Zenon
    <2> QED
      BY <1>2, <2>1, <2>2, Zenon
  <1>4. HandlesOK'
    <2>1. h.uid <= Cardinality(handles)
      BY <1>0 DEF CountsOK
    <2> QED
      BY <1>0, <1>1, <1>2, <1>3, <1>u, <2>1, HandlesKept
  <1>5. MarksOK'
    BY <1>0, <1>2, <1>u, MarksKept, Zenon
  <1>6. CancelsOK'
    <2> SUFFICES ASSUME NEW a \in DOMAIN obj', obj'[a].uid \in cancelled'
                 PROVE  Id(a)' \in cancelingTimers_' \/ Behind(Posts', obj'[a].uid, a)
      BY DEF CancelsOK, Behind, Inserts
    <2>1. a \in DOMAIN obj /\ obj'[a].uid = obj[a].uid /\ Id(a)' = Id(a)
      BY <1>2 DEF Kept, Id
    <2> QED
      BY <1>0, <1>1, <1>2, <1>3, <2>1, Zenon DEF CancelsOK
  <1>7. RunsOK'
    <2>1. Called' = Called
      BY <1>u, Zenon DEF Called
    <2> QED
      BY <1>0, <1>2, <1>u, <2>1, RunsKept, Zenon
  <1> QED
    BY <1>4, <1>5, <1>6, <1>7, Zenon DEF CancelInv

\* A posted cancellation.
LEMMA RunCancelKeeps ==
    ASSUME Inv, OwnersOK', CancelInv, RunFunctor, Head(functors).op # "insert"
    PROVE  CancelInv'
  <1> DEFINE f == Head(functors)
             h == f.id
             b == f.retry
             x == Retry(h)
  <1>0. /\ HandlesOK /\ MarksOK /\ CancelsOK /\ RunsOK /\ StoreOK /\ TypesOK /\ OwnersOK
    BY Zenon DEF Inv, CancelInv
  <1>1. /\ f.op = "cancel" /\ cancelInLoop(h, b)
        /\ functors # <<>> /\ functors' = Tail(functors) /\ pc = "functors"
    BY DEF RunFunctor
  <1>u. /\ handles' = handles /\ expired' = expired /\ next' = next /\ expiredTimers_' = expiredTimers_
        /\ cancelled' = cancelled /\ runs' = runs
    BY Zenon DEF RunFunctor, createVars, batchVars
  <1>2. /\ Posts \in Seq(Functor) /\ Posts # <<>> /\ Head(Posts) = f
        /\ UNCHANGED pendingFunctors_ => Posts' = Tail(Posts)
        /\ \A y \in Functor : pendingFunctors_' = Append(pendingFunctors_, y)
               => Posts' = Append(Tail(Posts), y)
    BY <1>0, <1>1, PostsFacts, Zenon
  <1>3. /\ Tail(Posts) \in Seq(Functor) /\ 1 \in DOMAIN Posts /\ Posts[1] = f
        /\ \A i \in DOMAIN Tail(Posts) : i + 1 \in DOMAIN Posts /\ Tail(Posts)[i] = Posts[i + 1]
    BY <1>2, HeadTailProperties, LenProperties, EmptySeq
  <1>4. h \in handles
    BY <1>0, <1>1, <1>3 DEF HandlesOK
  <1>5. x \in Functor /\ x.op = "cancel" /\ x.id = h
    <2> HIDE DEF f
    <2> QED
      BY <1>0, <1>4 DEF TypesOK, Functor, Retry
  <1> HIDE DEF f, h, b, x
  <1>6. /\ Kept /\ cancelingTimers_ \subseteq cancelingTimers_' /\ cancelingTimers_' \subseteq expiredTimers_
        /\ pendingFunctors_' \in {pendingFunctors_, Append(pendingFunctors_, x)}
        /\ \A a \in DOMAIN obj' : obj[a].uid = h.uid => Id(a) \in cancelingTimers_' \/ a \in InsertedBy(Posts)
    BY <1>1, <1>4, CancelFinds, Zenon DEF x
  <1>7. Posts' = Tail(Posts) \/ Posts' = Append(Tail(Posts), x)
    BY <1>2, <1>5, <1>6, Zenon
  <1>8. \A u, a : Behind(Tail(Posts), u, a) => Behind(Posts', u, a)
    BY <1>3, <1>5, <1>7, BehindAppended, Zenon
  <1>9. \A i \in DOMAIN Posts' : Posts'[i].op = "cancel" => Posts'[i].id \in handles
    <2>1. \A i \in DOMAIN Tail(Posts) : Tail(Posts)[i].op = "cancel" => Tail(Posts)[i].id \in handles
      BY <1>0, <1>3 DEF HandlesOK
    <2> QED
      BY <1>3, <1>4, <1>5, <1>7, <2>1, AppendProperties, LenProperties
  <1>10. HandlesOK'
    BY <1>0, <1>6, <1>9, <1>u, HandlesKept
  <1>11. MarksOK'
    BY <1>0, <1>6, <1>u, MarksKept, Zenon
  <1>12. CancelsOK'
    <2> SUFFICES ASSUME NEW a \in DOMAIN obj', obj'[a].uid \in cancelled'
                 PROVE  Id(a)' \in cancelingTimers_' \/ Behind(Posts', obj'[a].uid, a)
      BY DEF CancelsOK, Behind, Inserts
    <2>1. a \in DOMAIN obj /\ obj'[a].uid = obj[a].uid /\ Id(a)' = Id(a)
      BY <1>6 DEF Kept, Id
    <2>2. Id(a) \in cancelingTimers_ \/ Behind(Posts, obj[a].uid, a)
      BY <1>0, <1>u, <2>1 DEF CancelsOK
    <2>3. ASSUME Behind(Posts, obj[a].uid, a), h.uid # obj[a].uid \/ a \in InsertedBy(Posts)
          PROVE  Behind(Tail(Posts), obj[a].uid, a)
      BY <1>2, <2>3, BehindTaken DEF h
    <2> QED
      BY <1>6, <1>8, <2>1, <2>2, <2>3
  <1>13. RunsOK'
    <2>1. Called' = Called
      BY <1>u, Zenon DEF Called
    <2> QED
      BY <1>0, <1>6, <1>u, <2>1, RunsKept, Zenon
  <1> QED
    BY <1>10, <1>11, <1>12, <1>13, Zenon DEF CancelInv

(***************************************************************************)
(* The other steps.                                                        *)
(***************************************************************************)
\* A posted insertion: the cancellation that was behind it is next.
LEMMA RunInsertKeeps ==
    ASSUME Inv, OwnersOK', CancelInv, RunFunctor, Head(functors).op = "insert"
    PROVE  CancelInv'
  <1>0. /\ HandlesOK /\ MarksOK /\ CancelsOK /\ RunsOK /\ StoreOK
    BY Zenon DEF Inv, CancelInv
  <1>1. /\ obj' = obj /\ cancelingTimers_' = cancelingTimers_ /\ pendingFunctors_' = pendingFunctors_
        /\ functors # <<>> /\ functors' = Tail(functors)
    BY DEF RunFunctor
  <1>u. /\ handles' = handles /\ expired' = expired /\ next' = next /\ expiredTimers_' = expiredTimers_
        /\ cancelled' = cancelled /\ runs' = runs
    BY Zenon DEF RunFunctor, createVars, batchVars
  <1>2. /\ Posts \in Seq(Functor) /\ Posts # <<>> /\ Head(Posts) = Head(functors) /\ Posts' = Tail(Posts)
    BY <1>0, <1>1, PostsFacts, Zenon
  <1>3. \A i \in DOMAIN Tail(Posts) : i + 1 \in DOMAIN Posts /\ Tail(Posts)[i] = Posts[i + 1]
    BY <1>2, HeadTailProperties, LenProperties, EmptySeq
  <1>4. Kept
    BY <1>1 DEF Kept
  <1>5. HandlesOK'
    <2>1. \A i \in DOMAIN Posts' : Posts'[i].op = "cancel" => Posts'[i].id \in handles
      BY <1>0, <1>2, <1>3 DEF HandlesOK
    <2> QED
      BY <1>0, <1>4, <1>u, <2>1, HandlesKept
  <1>6. MarksOK'
    BY <1>0, <1>1, <1>4, <1>u, MarksKept, Zenon DEF MarksOK
  <1>7. CancelsOK'
    <2>1. \A a \in DOMAIN obj' : Behind(Posts, obj[a].uid, a) => Behind(Posts', obj[a].uid, a)
      BY <1>2, BehindTaken
    <2> QED
      BY <1>0, <1>1, <1>4, <1>u, <2>1, CancelsKept
  <1>8. RunsOK'
    <2>1. Called' = Called
      BY <1>u, Zenon DEF Called
    <2> QED
      BY <1>0, <1>4, <1>u, <2>1, RunsKept, Zenon
  <1> QED
    BY <1>5, <1>6, <1>7, <1>8, Zenon DEF CancelInv

\* A batch begins without a mark and without a call.
LEMMA HandleReadKeeps ==
    ASSUME Inv, OwnersOK', StoreOK', CancelInv, HandleRead
    PROVE  CancelInv'
  <1>0. /\ HandlesOK /\ MarksOK /\ CancelsOK /\ RunsOK /\ StoreOK /\ OwnersOK
    BY Zenon DEF Inv, CancelInv
  <1>1. /\ expired' \in Bijection(1..Cardinality(getExpired), getExpired)
        /\ expiredTimers_' = {Id(a) : a \in getExpired}
        /\ next' = 0 /\ pc = "events"
    BY Zenon DEF HandleRead
  <1>u. /\ obj' = obj /\ handles' = handles /\ cancelingTimers_' = cancelingTimers_
        /\ functors' = functors /\ pendingFunctors_' = pendingFunctors_
        /\ cancelled' = cancelled /\ runs' = runs
    BY Zenon DEF HandleRead, createVars
  <1>2. Kept /\ Posts' = Posts
    BY <1>u DEF Kept, Posts
  <1>3. expired = <<>> /\ Batch = {} /\ cancelingTimers_ = {} /\ next = 0
    BY <1>0, <1>1 DEF StoreOK, Batch, Range, MarksOK
  <1>4. Batch' = getExpired
    <2>1. getExpired \subseteq Addrs
      BY <1>0 DEF getExpired, OwnersOK, StoreOK
    <2>2. IsFiniteSet(getExpired)
      BY <2>1, FS_Subset, TimerAssumption
    <2> QED
      BY <1>1, <2>2, BatchOfDue DEF Batch
  <1>5. MarksOK'
    <2>1. \A a : Id(a)' = Id(a)
      BY <1>u DEF Id
    <2> QED
      BY <1>1, <1>3, <1>4, <1>u, <2>1 DEF MarksOK
  <1>6. HandlesOK'
    BY <1>0, <1>2, <1>u, HandlesKept DEF HandlesOK
  <1>7. CancelsOK'
    BY <1>0, <1>2, <1>u, CancelsKept, Zenon
  <1>8. Called = {} /\ Called' = {}
    BY <1>1, <1>3 DEF Called
  <1>9. RunsOK'
    BY <1>0, <1>2, <1>8, <1>u, RunsKept, Zenon
  <1> QED
    BY <1>5, <1>6, <1>7, <1>9, Zenon DEF CancelInv

\* A callback is called: no other timer has its number.
LEMMA RunTimerKeeps ==
    ASSUME Inv, OwnersOK', CancelInv, RunTimer
    PROVE  CancelInv'
  <1>0. /\ HandlesOK /\ MarksOK /\ CancelsOK /\ RunsOK /\ StoreOK /\ OwnersOK /\ TypesOK /\ CountsOK
    BY Zenon DEF Inv, CancelInv
  <1> DEFINE b == expired[next + 1]
             u == obj[b].uid
  <1>1. /\ next < Len(expired) /\ next' = next + 1
        /\ runs' = [runs EXCEPT ![u] = Min({runs[u] + 1, 2})]
    BY Zenon DEF RunTimer
  <1>u. /\ obj' = obj /\ handles' = handles /\ cancelingTimers_' = cancelingTimers_
        /\ functors' = functors /\ pendingFunctors_' = pendingFunctors_ /\ expired' = expired
        /\ cancelled' = cancelled /\ expiredTimers_' = expiredTimers_
    BY Zenon DEF RunTimer, createVars, loopVars
  <1>2. Kept /\ Posts' = Posts
    BY <1>u DEF Kept, Posts
  <1>3. HandlesOK'
    BY <1>0, <1>2, <1>u, HandlesKept DEF HandlesOK
  <1>4. MarksOK'
    BY <1>0, <1>2, <1>u, MarksKept, Zenon DEF MarksOK
  <1>5. CancelsOK'
    BY <1>0, <1>2, <1>u, CancelsKept, Zenon
  <1>6. /\ next \in Nat /\ next + 1 \in DOMAIN expired /\ DOMAIN expired = 1..Len(expired)
    BY <1>0, <1>1, LenProperties DEF StoreOK
  <1>7. b \in DOMAIN obj /\ b \notin Called
    <2>1. b \in Batch
      BY <1>6 DEF Batch, Range
    <2>2. \A i \in 1..next : i \in DOMAIN expired /\ i # next + 1
      BY <1>6
    <2> QED
      BY <1>0, <1>6, <2>1, <2>2 DEF OwnersOK, StoreOK, IsInjective, Called
  <1>8. Called' = Called \cup {b}
    BY <1>1, <1>6, <1>u DEF Called
  <1>9. u \in 1..MaxTimers /\ u <= Cardinality(handles)
    <2>1. HandleOf(b) \in handles /\ HandleOf(b).uid = u
      BY <1>0, <1>7 DEF HandlesOK, HandleOf
    <2> QED
      BY <1>0, <2>1, <1>7 DEF CountsOK, StoreOK, Timer
  <1>10. \A a \in DOMAIN obj : obj[a].uid = u => a = b
    <2> SUFFICES ASSUME NEW a \in DOMAIN obj, obj[a].uid = u PROVE a = b
      OBVIOUS
    <2>1. HandleOf(a) \in handles /\ HandleOf(b) \in handles
      BY <1>0, <1>7, Zenon DEF HandlesOK
    <2>2. HandleOf(a).uid = HandleOf(b).uid /\ HandleOf(a).addr = a /\ HandleOf(b).addr = b
      BY DEF HandleOf
    <2>3. HandleOf(a) = HandleOf(b)
      BY <1>0, <2>1, <2>2, Zenon DEF HandlesOK
    <2> QED
      BY <2>2, <2>3
  <1> HIDE DEF b, u
  <1>11. /\ runs'[u] = Min({runs[u] + 1, 2})
         /\ \A v \in 1..MaxTimers : v # u => runs'[v] = runs[v]
    BY <1>0, <1>1, <1>9 DEF TypesOK
  <1>12. runs[u] = 0 => runs'[u] = 1
    <2>1. Min({0 + 1, 2}) = 1
      BY DEF Min
    <2> QED
      BY <1>11, <2>1
  <1>13. RunsOK'
    <2>1. \A v \in 1..MaxTimers : v > Cardinality(handles') => runs'[v] = 0
      <3>1. Cardinality(handles) \in Nat
        BY <1>0, FS_CardinalityType DEF CountsOK
      <3> QED
        BY <1>0, <1>9, <1>11, <1>u, <3>1 DEF RunsOK
    <2>2. ASSUME NEW a \in DOMAIN obj', obj'[a].repeat = FALSE
          PROVE  runs'[obj'[a].uid] = IF a \in Called' THEN 1 ELSE 0
      <3>1. a \in DOMAIN obj /\ obj[a].repeat = FALSE /\ obj'[a].uid = obj[a].uid
            /\ obj[a].uid \in 1..MaxTimers
        BY <1>0, <1>u, <2>2 DEF StoreOK, Timer
      <3>2. CASE a = b
        <4>1. runs[u] = 0 /\ obj[a].uid = u
          BY <1>0, <1>7, <3>1, <3>2 DEF RunsOK, u
        <4> QED
          BY <1>8, <1>12, <3>1, <3>2, <4>1
      <3>3. CASE a # b
        <4>1. runs'[obj[a].uid] = runs[obj[a].uid] /\ (a \in Called' <=> a \in Called)
          BY <1>8, <1>10, <1>11, <3>1, <3>3
        <4> QED
          BY <1>0, <3>1, <4>1 DEF RunsOK
      <3> QED
        BY <3>2, <3>3
    <2> QED
      BY <2>1, <2>2, Zenon DEF RunsOK
  <1> QED
    BY <1>3, <1>4, <1>5, <1>13, Zenon DEF CancelInv

\* The batch ends: what was marked, and every one-shot timer, is deleted.
LEMMA ResetKeeps ==
    ASSUME Inv, OwnersOK', CancelInv, Reset
    PROVE  CancelInv'
  <1>0. /\ HandlesOK /\ MarksOK /\ CancelsOK /\ RunsOK /\ StoreOK /\ OwnersOK
    BY Zenon DEF Inv, CancelInv
  <1> DEFINE gone == Range(expired) \ Restarted
             when == IF elapsed < Interval THEN Interval - elapsed ELSE 0
  <1>1. /\ obj' = [a \in DOMAIN obj \ gone |->
                       IF a \in Restarted THEN [obj[a] EXCEPT !.when = when] ELSE obj[a]]
        /\ cancelingTimers_' = Unerased /\ expiredTimers_' = {} /\ expired' = <<>> /\ next' = 0
    BY Zenon DEF Reset
  <1>u. /\ handles' = handles /\ functors' = functors /\ pendingFunctors_' = pendingFunctors_
        /\ cancelled' = cancelled /\ runs' = runs
    BY Zenon DEF Reset, createVars
  <1> HIDE DEF when
  <1>2. Kept
    <2>1. \A a \in DOMAIN obj : /\ [obj[a] EXCEPT !.when = when].seq = obj[a].seq
                                /\ [obj[a] EXCEPT !.when = when].uid = obj[a].uid
                                /\ [obj[a] EXCEPT !.when = when].repeat = obj[a].repeat
      BY <1>0 DEF StoreOK, Timer
    <2> HIDE DEF gone
    <2> QED
      BY <1>1, <2>1 DEF Kept
  <1>3. Posts' = Posts
    BY <1>u, Zenon DEF Posts
  <1>4. \A a \in DOMAIN obj' : a \notin gone /\ (a \in Batch => a \in Restarted)
    BY <1>1 DEF Batch
  <1> HIDE DEF gone
  <1>5. HandlesOK'
    BY <1>0, <1>2, <1>3, <1>u, HandlesKept DEF HandlesOK
  <1>6. MarksOK'
    <2>1. Batch' = {}
      BY <1>1 DEF Batch, Range
    <2>2. Unerased = {}
      BY <1>0 DEF MarksOK, Unerased, Batch
    <2> QED
      BY <1>1, <2>1, <2>2 DEF MarksOK
  <1>7. CancelsOK'
    <2> SUFFICES ASSUME NEW a \in DOMAIN obj', obj'[a].uid \in cancelled'
                 PROVE  Behind(Posts', obj'[a].uid, a)
      BY DEF CancelsOK, Behind, Inserts
    <2>1. a \in DOMAIN obj /\ obj'[a].uid = obj[a].uid
      BY <1>2 DEF Kept
    <2>2. Id(a) \notin cancelingTimers_
      <3>1. ASSUME Id(a) \in cancelingTimers_ PROVE FALSE
        <4>1. Id(a) \in {Id(c) : c \in Batch}
          BY <1>0, <3>1 DEF MarksOK
        <4>2. a \in Batch
          BY <4>1 DEF Id
        <4> QED
          BY <1>4, <3>1, <4>2 DEF Restarted
      <3> QED
        BY <3>1
    <2> QED
      BY <1>0, <1>3, <1>u, <2>1, <2>2 DEF CancelsOK
  <1>8. RunsOK'
    <2>1. Called' = {}
      BY <1>1 DEF Called
    <2>2. Called \subseteq Batch
      <3>1. \A i \in 1..next : i \in DOMAIN expired
        BY <1>0, LenProperties DEF StoreOK
      <3> QED
        BY <3>1 DEF Called, Batch, Range
    <2>3. ASSUME NEW a \in DOMAIN obj', obj'[a].repeat = FALSE
          PROVE  runs'[obj'[a].uid] = 0
      <3>1. a \in DOMAIN obj /\ obj[a].repeat = FALSE /\ obj'[a].uid = obj[a].uid
        BY <1>2, <2>3 DEF Kept
      <3>2. a \notin Restarted
        BY <3>1 DEF Restarted
      <3> QED
        BY <1>0, <1>4, <1>u, <2>2, <3>1, <3>2 DEF RunsOK
    <2> QED
      BY <1>0, <1>u, <2>1, <2>3, Zenon DEF RunsOK
  <1> QED
    BY <1>5, <1>6, <1>7, <1>8, Zenon DEF CancelInv

\* A new timer has a number of its own, which nobody has cancelled and which has not run.
LEMMA AddTimerEndKeeps ==
    ASSUME Inv, OwnersOK', StoreOK', CancelInv, NEW t \in Creators, AddTimerEnd(t)
    PROVE  CancelInv'
  <1>0. /\ HandlesOK /\ MarksOK /\ CancelsOK /\ RunsOK /\ StoreOK /\ OwnersOK /\ TypesOK /\ CountsOK
    BY Zenon DEF Inv, CancelInv
  <1> DEFINE a == creating[t].addr
             seq == creating[t].count + 1
             uid == Cardinality(handles) + 1
             x == [op |-> "insert", addr |-> a]
             h == [addr |-> a, seq |-> seq, uid |-> uid]
  <1>1. PICK when \in 0..MaxDelay, repeat \in BOOLEAN :
            LET v == [seq |-> seq, uid |-> uid, when |-> when, repeat |-> repeat]
            IN  /\ obj' = With(obj, a, v)
                /\ handles' = handles \cup {h}
                /\ IF t = Loop
                   THEN insert(With(obj, a, v), a) /\ UNCHANGED pendingFunctors_
                   ELSE pendingFunctors_' = Append(pendingFunctors_, x) /\ UNCHANGED heapVars
    BY Zenon DEF AddTimerEnd
  <1> DEFINE v == [seq |-> seq, uid |-> uid, when |-> when, repeat |-> repeat]
  <1>u. /\ expired' = expired /\ next' = next /\ expiredTimers_' = expiredTimers_
        /\ cancelingTimers_' = cancelingTimers_ /\ functors' = functors
        /\ cancelled' = cancelled /\ runs' = runs /\ t \in DOMAIN creating
        /\ obj' = With(obj, a, v) /\ handles' = handles \cup {h}
        /\ pendingFunctors_' = pendingFunctors_ \/ pendingFunctors_' = Append(pendingFunctors_, x)
    BY <1>1, Zenon DEF AddTimerEnd, batchVars, loopVars
  <1>2. a \in Addrs /\ a \notin DOMAIN obj
    BY <1>0, <1>u, Zenon DEF TypesOK, OwnersOK
  <1>3. /\ v.seq = seq /\ v.uid = uid /\ v.repeat = repeat
        /\ h.addr = a /\ h.seq = seq /\ h.uid = uid
    OBVIOUS
  <1>4. x \in Functor /\ x.op = "insert" /\ x.addr = a
    <2> HIDE DEF a
    <2> QED
      BY <1>2, Zenon DEF Functor
  <1>5. /\ \A g \in handles : g.uid <= Cardinality(handles) /\ g.uid \in Nat
        /\ Cardinality(handles) \in Nat /\ Cardinality(handles') = uid
    <2>1. Cardinality(handles) \in Nat
      BY <1>0, FS_CardinalityType DEF CountsOK
    <2>2. \A g \in handles : g.uid <= Cardinality(handles) /\ g.uid \in Nat
      BY <1>0 DEF CountsOK, TypesOK, Handle
    <2> HIDE DEF h
    <2>3. h \notin handles
      BY <1>3, <2>1, <2>2
    <2> QED
      BY <1>0, <1>u, <2>1, <2>2, <2>3, FS_AddElement, Zenon DEF CountsOK
  <1> HIDE DEF v, x, h, seq
  <1>6. /\ DOMAIN obj' = DOMAIN obj \cup {a} /\ obj'[a] = v
        /\ \A b \in DOMAIN obj : obj'[b] = obj[b] /\ b # a
    BY <1>2, <1>u DEF With
  <1>7. \A b \in DOMAIN obj : Id(b)' = Id(b) /\ HandleOf(b)' = HandleOf(b)
    BY <1>6 DEF Id, HandleOf
  <1>8. \A b : b = a => HandleOf(b)' = h /\ obj'[b].uid = uid /\ obj'[b].repeat = repeat
    BY <1>3, <1>6 DEF HandleOf, h
  <1>9. Posts \in Seq(Functor) /\ (Posts' = Posts \/ Posts' = Append(Posts, x))
    <2>1. Posts \in Seq(Functor)
      BY <1>0, PostsFacts, Zenon
    <2>2. pendingFunctors_' = pendingFunctors_ => Posts' = Posts
      BY <1>u, Zenon DEF Posts
    <2>3. pendingFunctors_' = Append(pendingFunctors_, x) => Posts' = Append(Posts, x)
      BY <1>0, <1>4, <1>u, PostsFacts, Zenon
    <2> QED
      BY <1>u, <2>1, <2>2, <2>3, Zenon
  <1>10. HandlesOK'
    <2>1. \A b \in DOMAIN obj' : HandleOf(b)' \in handles'
      BY <1>0, <1>6, <1>7, <1>8, <1>u DEF HandlesOK
    <2>2. \A g, k \in handles' : g.uid = k.uid => g = k
      <3>1. \A g, k \in handles : g.uid = k.uid => g = k
        BY <1>0, Zenon DEF HandlesOK
      <3>2. \A g \in handles : g.uid # h.uid
        <4> HIDE DEF uid
        <4>1. \A n \in Nat : n <= Cardinality(handles) => n # uid
          BY <1>5 DEF uid
        <4> QED
          BY <1>3, <1>5, <4>1, Zenon
      <3>3. handles' = handles \cup {h}
        BY <1>u, Zenon
      <3> QED
        BY <3>1, <3>2, <3>3, Zenon
    <2>3. \A w \in cancelled' : w <= Cardinality(handles')
      <3>1. \A w \in cancelled : w \in Nat /\ w <= Cardinality(handles)
        BY <1>0 DEF HandlesOK, TypesOK
      <3> QED
        BY <1>5, <1>u, <3>1
    <2>4. \A i \in DOMAIN Posts' : Posts'[i].op = "cancel" => Posts'[i].id \in handles'
      <3>1. \A i \in DOMAIN Posts : Posts[i].op = "cancel" => Posts[i].id \in handles'
        BY <1>0, <1>u, Zenon DEF HandlesOK
      <3>2. CASE Posts' = Posts
        BY <3>1, <3>2, Zenon
      <3>3. CASE Posts' = Append(Posts, x)
        <4>1. ASSUME NEW i \in DOMAIN Posts' PROVE (i \in DOMAIN Posts /\ Posts'[i] = Posts[i]) \/ Posts'[i] = x
          BY <1>4, <1>9, <3>3, AppendProperties, LenProperties
        <4> QED
          BY <1>4, <3>1, <4>1, Zenon
      <3> QED
        BY <1>9, <3>2, <3>3
    <2> QED
      BY <2>1, <2>2, <2>3, <2>4 DEF HandlesOK
  <1>11. MarksOK'
    <2>1. Batch' = Batch /\ Batch \subseteq DOMAIN obj
      BY <1>0, <1>u, Zenon DEF Batch, OwnersOK
    <2> QED
      BY <1>0, <1>7, <1>u, <2>1 DEF MarksOK
  <1>12. CancelsOK'
    <2> SUFFICES ASSUME NEW b \in DOMAIN obj', obj'[b].uid \in cancelled'
                 PROVE  Id(b)' \in cancelingTimers_' \/ Behind(Posts', obj'[b].uid, b)
      BY DEF CancelsOK, Behind, Inserts
    <2>1. b # a
      <3>1. uid \notin cancelled
        BY <1>0, <1>5 DEF HandlesOK
      <3> QED
        BY <1>8, <1>u, <3>1
    <2>2. b \in DOMAIN obj /\ obj'[b] = obj[b] /\ Id(b)' = Id(b)
      BY <1>6, <1>7, <2>1
    <2>3. Behind(Posts, obj[b].uid, b) => Behind(Posts', obj[b].uid, b)
      BY <1>4, <1>9, <2>1, BehindAppended, Zenon
    <2> QED
      BY <1>0, <1>u, <2>2, <2>3 DEF CancelsOK
  <1>13. RunsOK'
    <2>1. Called' = Called /\ Called \subseteq Batch
      <3>1. \A i \in 1..next : i \in DOMAIN expired
        BY <1>0, LenProperties DEF StoreOK
      <3> QED
        BY <1>u, <3>1 DEF Called, Batch, Range
    <2>2. a \notin Called
      BY <1>0, <1>2, <2>1 DEF OwnersOK
    <2>3. \A w \in 1..MaxTimers : w > Cardinality(handles') => runs'[w] = 0
      <3>1. \A w \in 1..MaxTimers : w > Cardinality(handles) => runs[w] = 0
        BY <1>0, Zenon DEF RunsOK
      <3>2. \A w \in 1..MaxTimers : w > Cardinality(handles') => w > Cardinality(handles)
        BY <1>5
      <3> QED
        BY <1>u, <3>1, <3>2, Zenon
    <2>4. uid \in 1..MaxTimers
      <3>1. \A b : b = a => b \in DOMAIN obj' /\ obj'[b].uid = uid
        BY <1>6, <1>8
      <3> QED
        BY <3>1 DEF StoreOK, Timer
    <2>5. runs[uid] = 0
      BY <1>0, <1>5, <2>4 DEF RunsOK
    <2>6. \A b \in DOMAIN obj' :
              obj'[b].repeat = FALSE => runs'[obj'[b].uid] = IF b \in Called' THEN 1 ELSE 0
      BY <1>0, <1>6, <1>8, <1>u, <2>1, <2>2, <2>5 DEF RunsOK
    <2> QED
      BY <2>3, <2>6 DEF RunsOK
  <1> QED
    BY <1>10, <1>11, <1>12, <1>13, Zenon DEF CancelInv

\* The steps that neither post nor take a functor, create or cancel a timer, or touch the batch.
LEMMA OtherStepKeeps ==
    ASSUME Inv, OwnersOK', CancelInv,
           \/ \E t \in Creators : AddTimer(t)
           \/ Poll \/ SwapPending \/ EndFunctors \/ Destroy \/ Tick
           \/ UNCHANGED vars
    PROVE  CancelInv'
  <1>u. UNCHANGED <<handles, cancelled, expired, next, expiredTimers_, cancelingTimers_, runs>>
    BY Zenon DEF AddTimer, Poll, SwapPending, EndFunctors, Destroy, Tick, vars, createVars, batchVars
  <1>1. Posts' = Posts
    <2>1. CASE SwapPending
      <3>1. functors' = pendingFunctors_ /\ pendingFunctors_' = <<>> /\ pc = "events"
        BY <2>1, Zenon DEF SwapPending
      <3>2. functors = <<>> /\ pendingFunctors_ \in Seq(Functor)
        BY <3>1 DEF Inv, StoreOK
      <3> QED
        BY <3>1, <3>2, PostsSteps, Zenon DEF Posts
    <2>2. CASE ~SwapPending
      BY <2>2, Zenon DEF AddTimer, Poll, EndFunctors, Destroy, Tick, vars, loopVars, Posts
    <2> QED
      BY <2>1, <2>2
  <1>2. Kept
    <2>1. CASE Tick
      <3>1. obj' = [a \in DOMAIN obj |-> [obj[a] EXCEPT !.when = IF @ = 0 THEN 0 ELSE @ - 1]]
        BY <2>1, Zenon DEF Tick
      <3>2. \A a \in DOMAIN obj : obj[a] \in Timer
        BY DEF Inv, StoreOK
      <3>3. \A a \in DOMAIN obj : \A w :
                 /\ [obj[a] EXCEPT !.when = w].seq = obj[a].seq
                 /\ [obj[a] EXCEPT !.when = w].uid = obj[a].uid
                 /\ [obj[a] EXCEPT !.when = w].repeat = obj[a].repeat
        BY <3>2 DEF Timer
      <3>4. DOMAIN obj' = DOMAIN obj
        BY <3>1
      <3>5. ASSUME NEW a \in DOMAIN obj'
            PROVE  /\ obj'[a].seq = obj[a].seq /\ obj'[a].uid = obj[a].uid
                   /\ obj'[a].repeat = obj[a].repeat
        <4>1. PICK w : obj'[a] = [obj[a] EXCEPT !.when = w]
          BY <3>1, <3>4, Zenon
        <4> QED
          BY <3>3, <3>4, <4>1
      <3> QED
        BY <3>4, <3>5, Zenon DEF Kept
    <2>2. CASE Destroy
      <3>1. Delete(timers_)
        BY <2>2, Zenon DEF Destroy
      <3> QED
        BY <3>1 DEF Delete, Restrict, Kept
    <2>3. CASE ~Tick /\ ~Destroy
      <3>1. obj' = obj
        BY <2>3, Zenon DEF AddTimer, Poll, SwapPending, EndFunctors, vars
      <3> QED
        BY <3>1 DEF Kept
    <2> QED
      BY <2>1, <2>2, <2>3
  <1> QED
    BY <1>1, <1>2, <1>u, QuietStep, Zenon

\* Every step keeps both invariants.
LEMMA CancelInvStep == Inv /\ CancelInv /\ [Next]_vars => Inv' /\ CancelInv'
  <1> SUFFICES ASSUME Inv, CancelInv, [Next]_vars PROVE Inv' /\ CancelInv'
    OBVIOUS
  <1>1. Inv'
    BY FlagStep, CountsStep, OwnersStep, Zenon DEF Inv
  <1>2. OwnersOK' /\ StoreOK'
    BY <1>1, Zenon DEF Inv
  <1>3. RunFunctor => CancelInv'
    BY <1>2, RunInsertKeeps, RunCancelKeeps, Zenon
  <1>4. CancelInv'
    BY <1>2, <1>3, AddTimerEndKeeps, CancelKeeps, HandleReadKeeps, RunTimerKeeps, ResetKeeps,
       OtherStepKeeps, Zenon DEF Next, LoopStep
  <1> QED
    BY <1>1, <1>4

\* At first there is no timer.
LEMMA CancelInvInit == Init => CancelInv
  <1> SUFFICES ASSUME Init PROVE CancelInv
    OBVIOUS
  <1>1. /\ obj = <<>> /\ handles = {} /\ expired = <<>> /\ next = 0 /\ expiredTimers_ = {}
        /\ cancelingTimers_ = {} /\ functors = <<>> /\ pendingFunctors_ = <<>> /\ cancelled = {}
        /\ runs = [u \in 1..MaxTimers |-> 0]
    BY Zenon DEF Init
  <1>2. Posts = <<>> /\ DOMAIN Posts = {} /\ Batch = {} /\ DOMAIN obj = {}
    BY <1>1, ConcatEmptySeq DEF Posts, Batch, Range
  <1> QED
    BY <1>1, <1>2 DEF CancelInv, HandlesOK, MarksOK, CancelsOK, RunsOK

\* No cancellation is forgotten, in every behaviour: whoever calls cancel(), from whichever thread
\* and wherever the timer is just then, a timer that still exists afterwards is marked for reset()
\* or has a cancellation posted behind its insertion (TimerQueue.cpp, cancel, cancelInLoop, reset).
THEOREM NoCancellationIsForgotten == Spec => []CancelNotForgotten
  <1>1. CancelInv => CancelNotForgotten
    <2> SUFFICES ASSUME MarksOK, CancelsOK PROVE CancelNotForgotten
      BY Zenon DEF CancelInv
    <2>1. PostedInserts = [i \in Inserts(Posts) |-> Posts[i].addr]
      BY Zenon DEF PostedInserts, Posts, Inserts
    <2>2. DOMAIN PostedInserts = Inserts(Posts) /\ \A i \in Inserts(Posts) : PostedInserts[i] = Posts[i].addr
      BY <2>1
    <2> QED
      BY <2>2, Zenon DEF MarksOK, CancelsOK, Behind, CancelNotForgotten, Posts
  <1> QED
    BY <1>1, InvInit, CancelInvInit, CancelInvStep, PTL DEF Spec

\* A one-shot timer runs once at most, in every behaviour, although its own callback or another
\* of the batch may cancel it, and although the numbers handles are told by may repeat.
THEOREM OneShotsRunOnce == Spec => []OneShotRunsOnce
  <1>1. Inv /\ CancelInv => OneShotRunsOnce
    <2> SUFFICES ASSUME StoreOK, RunsOK, NEW a \in DOMAIN obj, ~obj[a].repeat
                 PROVE  \/ runs[obj[a].uid] = 0
                        \/ runs[obj[a].uid] = 1 /\ a \in {expired[i] : i \in 1..next}
      BY Zenon DEF Inv, CancelInv, OneShotRunsOnce
    <2>1. obj[a].repeat = FALSE
      BY DEF StoreOK, Timer
    <2> QED
      BY <2>1 DEF RunsOK, Called
  <1> QED
    BY <1>1, InvInit, CancelInvInit, CancelInvStep, PTL DEF Spec
====
