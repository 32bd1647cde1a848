--------------------------- MODULE RpcClientProofs ---------------------------
(***************************************************************************)
(* Proofs about RpcClient, for any set of calls, any range of ids, any     *)
(* memory of timeouts and any server.                                      *)
(***************************************************************************)
EXTENDS RpcClient, SequenceTheorems, FiniteSetTheorems, WellFoundedInduction, TLAPS

(***************************************************************************)
(* Tables and sequences.                                                   *)
(***************************************************************************)

\* Erasing an entry of an injective table takes its call out, and no other.
LEMMA EraseEntry ==
    ASSUME NEW f, IsInjective(f), NEW id \in DOMAIN f
    PROVE  LET g == Restrict(f, DOMAIN f \ {id})
           IN  /\ DOMAIN g = DOMAIN f \ {id}
               /\ \A x \in DOMAIN f \ {id} : g[x] = f[x]
               /\ IsInjective(g)
               /\ Range(g) = Range(f) \ {f[id]}
  BY DEF Restrict, Range, IsInjective

\* Appending to a queue.
LEMMA AppendElements ==
    ASSUME NEW S, NEW s \in Seq(S), NEW x \in S
    PROVE  ToSet(Append(s, x)) = ToSet(s) \cup {x}
  <1>1. /\ Len(Append(s, x)) = Len(s) + 1
        /\ \A i \in 1..Len(s) : Append(s, x)[i] = s[i]
        /\ Append(s, x)[Len(s) + 1] = x
        /\ DOMAIN Append(s, x) = 1..(Len(s) + 1) /\ DOMAIN s = 1..Len(s)
    BY AppendProperties, LenProperties
  <1> QED
    BY <1>1, LenProperties DEF ToSet

\* The first id that allocateRequestId() comes to is usable, if there is one.
LEMMA AllocatedIdIsUsable ==
    ASSUME nextRequestId_ \in Ids, \E id \in Ids : Usable(id)
    PROVE  /\ AllocatedId \in Ids /\ Usable(AllocatedId)
           /\ \A other \in Ids : Usable(other) => Passed(AllocatedId) <= Passed(other)
  <1> DEFINE R == {ss \in Nat \X Nat : ss[1] < ss[2]}
  <1> DEFINE T == {Passed(id) : id \in {i \in Ids : Usable(i)}}
  <1>1. T \subseteq Nat /\ T # {}
    BY ClientAssumption DEF Passed, Ids
  <1>2. PICK n \in T : \A m \in T : ~(<<m, n>> \in R)
    <2> HIDE DEF T
    <2>1. IsWellFoundedOn(R, Nat)
      BY NatLessThanWellFounded, Zenon DEF OpToRel
    <2> QED
      BY <1>1, <2>1, WFMin, Zenon
  <1>3. \A m \in T : n <= m
    <2> HIDE DEF T
    <2> SUFFICES ASSUME NEW m \in T PROVE n <= m
      OBVIOUS
    <2>1. m \in Nat /\ n \in Nat /\ <<m, n>> \notin R
      BY <1>1, <1>2, Zenon
    <2> QED
      BY <2>1
  <1>4. PICK id \in Ids : Usable(id) /\ Passed(id) = n
    BY <1>2
  <1>5. \A other \in Ids : Usable(other) => Passed(id) <= Passed(other)
    BY <1>3, <1>4
  <1> QED
    BY <1>4, <1>5, Zenon DEF AllocatedId

(***************************************************************************)
(* The invariant, in parts.                                                *)
(***************************************************************************)
Outcomes == {New, Waiting} \cup Abstract!Failures \cup {Reply(c) : c \in Calls}

Frames == {Bad} \cup (Ids \X Calls)

\* The types of the table and of the sequences.
TypesOK ==
    /\ outcome \in [Calls -> Outcomes]
    /\ deadline \subseteq Calls
    /\ nextRequestId_ \in Ids
    /\ DOMAIN pendings_ \subseteq Ids /\ PendingCalls \subseteq Calls
    /\ timers \subseteq Ids
    /\ timedOutIds_ \in Seq(Ids)
    /\ posts \in Seq(Posts)
    /\ failing \subseteq Calls
    /\ cause \in {"none", "violation", "down", "destroyed"}
    /\ requests \subseteq Ids \X Calls
    /\ replies \in Seq(Frames)

FlagsOK ==
    /\ connected_ \in BOOLEAN
    /\ connection \in {"none", "up", "closing", "down"}
    /\ connecting \in {"no", "waiting", "returned"}
    /\ connector \in {"kDisconnected", "kConnecting", "kConnected", "kFailed"}
    /\ alive \in BOOLEAN /\ dangling \in BOOLEAN

\* The memory of timed-out ids.
FifoOK ==
    /\ timedOutIdSet_ = ToSet(timedOutIds_)
    /\ IsInjective(timedOutIds_)
    /\ Len(timedOutIds_) <= kMaxRememberedTimeouts

\* The table and its timers.
TableOK ==
    /\ timers = {id \in DOMAIN pendings_ : pendings_[id] \in deadline}
    /\ IsInjective(pendings_)
    /\ \A id \in DOMAIN pendings_ : id # 0 /\ id \notin timedOutIdSet_

\* No call is posted twice.
Unique(s) == \A i, j \in DOMAIN s : s[i] = s[j] /\ s[i][1] = "call" => i = j

Posted(c) == <<"call", c>> \in ToSet(posts)

\* Where a waiting call is: posted once, in the table, or being failed, and nowhere twice;
\* nothing is failed between handlers, and a client whose destructor runs has no calls
\* left to start or to answer.
PlacesOK ==
    /\ \A c \in Calls : outcome[c] = Waiting <=> Posted(c) \/ c \in PendingCalls \cup failing
    /\ \A c \in Calls : Posted(c) => c \notin PendingCalls \cup failing
    /\ PendingCalls \cap failing = {}
    /\ Unique(posts)
    /\ cause = "none" => failing = {}
    /\ (cause = "destroyed" \/ ~alive) => PendingCalls = {} /\ \A c \in Calls : ~Posted(c)
    /\ ~connected_ => PendingCalls = {}

Inv == TypesOK /\ FlagsOK /\ FifoOK /\ TableOK /\ PlacesOK

\* The invariant is the property and more.
LEMMA InvImplies == Inv => TableConsistent
  <1> SUFFICES ASSUME Inv PROVE TableConsistent
    OBVIOUS
  <1>1. timedOutIdSet_ \subseteq Ids
    BY DEF Inv, TypesOK, FifoOK, ToSet
  <1>2. \A r \in ToSet(replies) : r = Bad \/ r \in Ids \X Calls
    BY DEF Inv, TypesOK, Frames, ToSet
  <1>3. TypeOK
    BY <1>1, <1>2, Zenon DEF Inv, TypesOK, FlagsOK, TypeOK, Outcomes
  <1> QED
    BY <1>3, Zenon DEF Inv, FifoOK, TableOK, PlacesOK, Posted, TableConsistent

\* It holds before the first call.
LEMMA InvInit == Init => Inv
  <1> SUFFICES ASSUME Init PROVE Inv
    OBVIOUS
  <1>0. /\ DOMAIN <<>> = {} /\ Len(<<>>) = 0 /\ ToSet(<<>>) = {} /\ Range(<<>>) = {}
        /\ IsInjective(<<>>) /\ \A S : <<>> \in Seq(S)
    BY DEF ToSet, Range, IsInjective
  <1>1. TypesOK
    BY <1>0 DEF Init, TypesOK, Outcomes, PendingCalls, New
  <1>2. FlagsOK
    BY Zenon DEF Init, FlagsOK
  <1>3. FifoOK /\ TableOK
    BY <1>0, ClientAssumption DEF Init, FifoOK, TableOK
  <1>4. PlacesOK
    <2>1. PendingCalls = {} /\ \A c \in Calls : outcome[c] # Waiting /\ ~Posted(c)
      BY <1>0 DEF Init, PendingCalls, New, Waiting, Posted, Abstract!New, Abstract!Waiting
    <2> QED
      BY <1>0, <2>1 DEF Init, PlacesOK, Unique
  <1> QED
    BY <1>1, <1>2, <1>3, <1>4 DEF Inv

(***************************************************************************)
(* What the operations do to the table and to the queue of posts.          *)
(***************************************************************************)
\* A post goes to the end of the queue.
LEMMA PostAdded ==
    ASSUME NEW s \in Seq(Posts), Unique(s), NEW x \in Posts, x[1] = "call" => x \notin ToSet(s)
    PROVE  /\ Append(s, x) \in Seq(Posts)
           /\ ToSet(Append(s, x)) = ToSet(s) \cup {x}
           /\ Unique(Append(s, x))
  <1>1. /\ Len(Append(s, x)) = Len(s) + 1 /\ Append(s, x) \in Seq(Posts)
        /\ \A i \in 1..Len(s) : Append(s, x)[i] = s[i]
        /\ Append(s, x)[Len(s) + 1] = x
        /\ DOMAIN Append(s, x) = 1..(Len(s) + 1) /\ DOMAIN s = 1..Len(s) /\ Len(s) \in Nat
    BY AppendProperties, LenProperties
  <1>2. ToSet(Append(s, x)) = ToSet(s) \cup {x}
    BY AppendElements
  <1>3. \A i \in 1..Len(s) : x[1] = "call" => s[i] # x
    BY <1>1 DEF ToSet
  <1> QED
    BY <1>1, <1>2, <1>3 DEF Unique

\* The loop takes the post at the head; a call is posted once, so it is in the queue no more.
LEMMA PostTaken ==
    ASSUME NEW s \in Seq(Posts), Unique(s), s # <<>>
    PROVE  /\ Tail(s) \in Seq(Posts)
           /\ Head(s) \in Posts
           /\ ToSet(s) = ToSet(Tail(s)) \cup {Head(s)}
           /\ Head(s)[1] = "call" => Head(s) \notin ToSet(Tail(s))
           /\ Unique(Tail(s))
  <1>1. /\ Tail(s) \in Seq(Posts) /\ Head(s) \in Posts /\ Head(s) = s[1]
        /\ Len(s) \in Nat /\ Len(s) > 0
        /\ DOMAIN s = 1..Len(s) /\ DOMAIN Tail(s) = 1..(Len(s) - 1)
        /\ \A i \in 1..(Len(s) - 1) : Tail(s)[i] = s[i + 1]
    BY HeadTailProperties, LenProperties, EmptySeq
  <1>2. ToSet(s) \subseteq ToSet(Tail(s)) \cup {Head(s)}
    <2> SUFFICES ASSUME NEW i \in 1..Len(s) PROVE s[i] \in ToSet(Tail(s)) \cup {Head(s)}
      BY <1>1 DEF ToSet
    <2>1. CASE i = 1
      BY <1>1, <2>1
    <2>2. CASE i > 1
      <3>1. i - 1 \in 1..(Len(s) - 1) /\ (i - 1) + 1 = i
        BY <1>1, <2>2
      <3> QED
        BY <1>1, <3>1, Zenon DEF ToSet
    <2> QED
      BY <2>1, <2>2
  <1>3. ToSet(Tail(s)) \cup {Head(s)} \subseteq ToSet(s)
    BY <1>1 DEF ToSet
  <1>4. Head(s)[1] = "call" => Head(s) \notin ToSet(Tail(s))
    BY <1>1 DEF ToSet, Unique
  <1>5. Unique(Tail(s))
    BY <1>1 DEF Unique
  <1> QED
    BY <1>1, <1>2, <1>3, <1>4, <1>5

\* The parts of the invariant about the table.
Table ==
    /\ nextRequestId_ \in Ids /\ DOMAIN pendings_ \subseteq Ids /\ PendingCalls \subseteq Calls
    /\ timers \subseteq Ids /\ TableOK

\* startCallInLoop(): the call is refused, or it is in the table and waits.
LEMMA StartEffect ==
    ASSUME Table, outcome \in [Calls -> Outcomes], requests \subseteq Ids \X Calls,
           NEW c \in Calls, c \notin PendingCalls, startCallInLoop(c),
           deadline' \in {deadline, deadline \cup {c}}, UNCHANGED timedOutIdSet_
    PROVE  /\ Table' /\ outcome' \in [Calls -> Outcomes] /\ requests' \subseteq Ids \X Calls
           /\ \A d \in Calls \ {c} : outcome'[d] = outcome[d]
           /\ \/ PendingCalls' = PendingCalls /\ outcome'[c] # Waiting
              \/ connected_ /\ PendingCalls' = PendingCalls \cup {c} /\ outcome'[c] = Waiting
  <1>0. \A id \in DOMAIN pendings_ : pendings_[id] \in PendingCalls
    BY DEF PendingCalls, Range
  <1>1. CASE /\ UNCHANGED <<tableVars, requests>>
             /\ \/ Completed(c, <<"kConnectionClosed">>)
                \/ Completed(c, <<"kBadRequest">>)
    <2>1. /\ outcome' \in [Calls -> Outcomes] /\ outcome'[c] # Waiting
          /\ \A d \in Calls \ {c} : outcome'[d] = outcome[d]
      BY <1>1 DEF Completed, Outcomes, Waiting, Abstract!Waiting, Abstract!Failures
    <2>2. \A id \in DOMAIN pendings_ : pendings_[id] \in deadline' <=> pendings_[id] \in deadline
      BY <1>0
    <2>3. UNCHANGED <<nextRequestId_, pendings_, timers>> /\ PendingCalls' = PendingCalls
      BY <1>1, Zenon DEF tableVars, PendingCalls
    <2>4. TableOK'
      BY <2>2, <2>3 DEF Table, TableOK
    <2> QED
      BY <1>1, <2>1, <2>3, <2>4, Zenon DEF Table
  <1>2. CASE /\ connected_ /\ \E id \in Ids : Usable(id)
             /\ nextRequestId_' = (AllocatedId + 1) % IdRange
             /\ pendings_' = With(pendings_, AllocatedId, c)
             /\ timers' = ArmedTimers(AllocatedId, c)
             /\ requests' = IF connection = "up" THEN requests \cup {<<AllocatedId, c>>} ELSE requests
             /\ outcome' = [outcome EXCEPT ![c] = Waiting]
    <2> DEFINE id == AllocatedId
    <2>1. id \in Ids /\ id # 0 /\ id \notin DOMAIN pendings_ /\ id \notin timedOutIdSet_
      BY <1>2, AllocatedIdIsUsable DEF Table, Usable
    <2> HIDE DEF id
    <2>2. /\ DOMAIN pendings_' = DOMAIN pendings_ \cup {id}
          /\ \A x \in DOMAIN pendings_ : pendings_'[x] = pendings_[x]
          /\ pendings_'[id] = c
          /\ PendingCalls' = PendingCalls \cup {c}
      <3>1. pendings_' = With(pendings_, id, c)
        BY <1>2 DEF id
      <3>2. /\ DOMAIN pendings_' = DOMAIN pendings_ \cup {id}
            /\ \A x \in DOMAIN pendings_ : pendings_'[x] = pendings_[x]
            /\ pendings_'[id] = c
        BY <2>1, <3>1 DEF With
      <3>3. PendingCalls' = PendingCalls \cup {c}
        BY <3>2 DEF PendingCalls, Range
      <3> QED
        BY <3>2, <3>3
    <2>3. nextRequestId_' \in Ids
      BY <1>2, <2>1, ClientAssumption DEF Ids, id
    <2>4. timers' = {x \in DOMAIN pendings_' : pendings_'[x] \in deadline'}
      <3>1. timers' = IF c \in deadline' THEN timers \cup {id} ELSE timers
        BY <1>2 DEF ArmedTimers, id
      <3> QED
        BY <1>0, <2>1, <2>2, <3>1 DEF Table, TableOK
    <2>5. IsInjective(pendings_')
      BY <1>0, <2>1, <2>2 DEF Table, TableOK, IsInjective
    <2>6. Table'
      BY <2>1, <2>2, <2>3, <2>4, <2>5 DEF Table, TableOK
    <2>7. outcome' \in [Calls -> Outcomes] /\ outcome'[c] = Waiting
          /\ \A d \in Calls \ {c} : outcome'[d] = outcome[d]
      BY <1>2 DEF Outcomes
    <2>8. requests' \subseteq Ids \X Calls
      BY <1>2, <2>1 DEF id
    <2> QED
      BY <1>2, <2>2, <2>6, <2>7, <2>8
  <1> QED
    BY <1>1, <1>2, Zenon DEF startCallInLoop

\* failAllPending(): the table is empty, and its calls are to be failed.
LEMMA FailEffect ==
    ASSUME Table, NEW why, failAllPending(why)
    PROVE  Table' /\ PendingCalls' = {} /\ failing' = PendingCalls /\ cause' = why
  <1>1. DOMAIN pendings_' = {} /\ PendingCalls' = {} /\ IsInjective(pendings_')
    BY DEF failAllPending, PendingCalls, Range, IsInjective
  <1> QED
    BY <1>1 DEF failAllPending, MovedOut, Table, TableOK

\* One answered or timed-out call leaves the table, and its timer with it.
LEMMA EraseEffect ==
    ASSUME Table, NEW id \in DOMAIN pendings_, timers' = timers \ {id}, UNCHANGED <<nextRequestId_, deadline>>,
           pendings_' = Restrict(pendings_, DOMAIN pendings_ \ {id}),
           timedOutIdSet_' \subseteq timedOutIdSet_ \cup {id}
    PROVE  Table' /\ PendingCalls' = PendingCalls \ {pendings_[id]} /\ pendings_[id] \in PendingCalls
  <1>1. /\ DOMAIN pendings_' = DOMAIN pendings_ \ {id}
        /\ \A x \in DOMAIN pendings_ \ {id} : pendings_'[x] = pendings_[x]
        /\ IsInjective(pendings_')
        /\ PendingCalls' = PendingCalls \ {pendings_[id]}
    BY EraseEntry DEF Table, TableOK, PendingCalls
  <1>2. pendings_[id] \in PendingCalls
    BY DEF PendingCalls, Range
  <1> QED
    BY <1>1, <1>2 DEF Table, TableOK

(***************************************************************************)
(* Every step keeps the types.                                             *)
(***************************************************************************)
LEMMA FlagsStep == FlagsOK /\ [Next]_vars => FlagsOK'
  <1> SUFFICES ASSUME FlagsOK, [Next]_vars PROVE FlagsOK'
    OBVIOUS
  <1> USE DEF FlagsOK, connVars, lifeVars, connectVars, Resolved, Stopped
  <1>f. ASSUME forceClose PROVE connection' \in {"none", "up", "closing", "down"}
    BY <1>f, Zenon DEF forceClose
  <1>h. ASSUME handleClose, UNCHANGED <<alive, connector>> PROVE FlagsOK'
    BY <1>h, Zenon DEF handleClose
  <1>d. ASSUME disconnectInLoop PROVE FlagsOK'
    BY <1>d, Zenon DEF disconnectInLoop
  <1>1. ASSUME NEW c \in Calls, CompleteFailing(c) \/ AsyncCall(c) \/ AsyncCallOnLoop(c)
        PROVE  FlagsOK'
    BY <1>1, Zenon DEF CompleteFailing, AsyncCall, AsyncCallOnLoop
  <1>2. CASE EndFailing
    BY <1>2, <1>f, Zenon DEF EndFailing
  <1>3. CASE EndDestroy
    BY <1>3, <1>f, Zenon DEF EndDestroy
  <1>4. CASE StartCall \/ StartInLoop
    BY <1>4, Zenon DEF StartCall, StartInLoop
  <1>5. CASE DisconnectInLoop \/ DisconnectOnLoop
    BY <1>5, <1>d, Zenon DEF DisconnectInLoop, DisconnectOnLoop
  <1>6. CASE ForceCloseInLoop
    BY <1>6, <1>h, Zenon DEF ForceCloseInLoop
  <1>7. ASSUME NEW id \in Ids, OnTimeout(id) PROVE FlagsOK'
    BY <1>7, Zenon DEF OnTimeout
  <1>8. CASE OnMessage
    BY <1>8, Zenon DEF OnMessage
  <1>9. CASE AttemptEnds
    BY <1>9, Zenon DEF AttemptEnds, AttemptSucceeds, AttemptFails
  <1>10. CASE Connect \/ Disconnect \/ Destroy
    BY <1>10, Zenon DEF Connect, Disconnect, Destroy
  <1>11. CASE PeerCloses
    BY <1>11, <1>h, Zenon DEF PeerCloses
  <1>12. CASE PeerClosesEarly \/ ServerMisbehaves \/ \E r \in requests : ServerAnswers(r)
    BY <1>12, Zenon DEF PeerClosesEarly, ServerMisbehaves, ServerAnswers
  <1>13. CASE UNCHANGED vars
    BY <1>13, Zenon DEF vars
  <1> QED
    BY <1>1, <1>2, <1>3, <1>4, <1>5, <1>6, <1>7, <1>8, <1>9, <1>10, <1>11, <1>12, <1>13, Zenon
       DEF Next, LoopStep, UserStep, ServerStep

\* Taking the oldest of a sequence of distinct ids.
LEMMA OldestEvicted ==
    ASSUME NEW s \in Seq(Ids), s # <<>>, IsInjective(s)
    PROVE  /\ Tail(s) \in Seq(Ids) /\ IsInjective(Tail(s)) /\ Len(Tail(s)) = Len(s) - 1
           /\ ToSet(Tail(s)) = ToSet(s) \ {Head(s)}
  <1>1. /\ Tail(s) \in Seq(Ids) /\ Head(s) = s[1] /\ Len(Tail(s)) = Len(s) - 1
        /\ Len(s) \in Nat /\ Len(s) > 0
        /\ DOMAIN s = 1..Len(s) /\ DOMAIN Tail(s) = 1..(Len(s) - 1)
        /\ \A i \in 1..(Len(s) - 1) : Tail(s)[i] = s[i + 1]
    BY HeadTailProperties, LenProperties, EmptySeq
  <1>2. ToSet(s) \ {Head(s)} \subseteq ToSet(Tail(s))
    <2> SUFFICES ASSUME NEW i \in 1..Len(s), s[i] # s[1] PROVE s[i] \in ToSet(Tail(s))
      BY <1>1 DEF ToSet
    <2>1. i - 1 \in 1..(Len(s) - 1) /\ (i - 1) + 1 = i
      BY <1>1
    <2> QED
      BY <1>1, <2>1, Zenon DEF ToSet
  <1>3. ToSet(Tail(s)) \subseteq ToSet(s) \ {Head(s)}
    BY <1>1 DEF ToSet, IsInjective
  <1>4. IsInjective(Tail(s))
    BY <1>1 DEF IsInjective
  <1> QED
    BY <1>1, <1>2, <1>3, <1>4

\* Adding an id that is not there yet.
LEMMA IdAdded ==
    ASSUME NEW s \in Seq(Ids), NEW id \in Ids, id \notin ToSet(s), IsInjective(s)
    PROVE  /\ Append(s, id) \in Seq(Ids) /\ Len(Append(s, id)) = Len(s) + 1
           /\ IsInjective(Append(s, id)) /\ ToSet(Append(s, id)) = ToSet(s) \cup {id}
  <1>1. /\ Len(Append(s, id)) = Len(s) + 1 /\ Append(s, id) \in Seq(Ids)
        /\ \A i \in 1..Len(s) : Append(s, id)[i] = s[i]
        /\ Append(s, id)[Len(s) + 1] = id
        /\ DOMAIN Append(s, id) = 1..(Len(s) + 1) /\ DOMAIN s = 1..Len(s) /\ Len(s) \in Nat
    BY AppendProperties, LenProperties
  <1>2. ToSet(Append(s, id)) = ToSet(s) \cup {id}
    BY AppendElements
  <1>3. \A i \in 1..Len(s) : s[i] # id
    BY <1>1 DEF ToSet
  <1>4. IsInjective(Append(s, id))
    BY <1>1, <1>3 DEF IsInjective
  <1> QED
    BY <1>1, <1>2, <1>4

\* The memory of timed-out ids: rememberTimedOut() evicts the oldest of a full one.
LEMMA Remember ==
    ASSUME timedOutIds_ \in Seq(Ids), FifoOK, NEW id \in Ids, id \notin timedOutIdSet_,
           timedOutIds_' = RememberedSeq(id), timedOutIdSet_' = RememberedSet(id)
    PROVE  /\ timedOutIds_' \in Seq(Ids) /\ FifoOK'
           /\ timedOutIdSet_' \subseteq timedOutIdSet_ \cup {id}
  <1> DEFINE s == timedOutIds_
  <1> DEFINE t == IF Full THEN Tail(s) ELSE s
  <1>1. /\ s \in Seq(Ids) /\ DOMAIN s = 1..Len(s) /\ Len(s) \in Nat
        /\ \A i, j \in 1..Len(s) : s[i] = s[j] => i = j
    BY LenProperties DEF FifoOK, IsInjective
  <1>2. IsFiniteSet(timedOutIdSet_) /\ Cardinality(timedOutIdSet_) = Len(s)
    <2>1. s \in Bijection(1..Len(s), timedOutIdSet_)
      BY <1>1 DEF FifoOK, ToSet, Bijection, Injection, Surjection, IsInjective
    <2>2. ExistsBijection(1..Len(s), timedOutIdSet_)
      BY <2>1, Zenon DEF ExistsBijection
    <2> QED
      BY <1>1, <2>2, FS_CountingElements, FS_NatBijection
  <1>3. /\ t \in Seq(Ids) /\ IsInjective(t) /\ Len(t) < kMaxRememberedTimeouts
        /\ ToSet(t) = IF Full THEN timedOutIdSet_ \ {Head(s)} ELSE timedOutIdSet_
    <2>1. CASE Full
      <3>1. s # <<>>
        BY <1>1, <1>2, <2>1, ClientAssumption DEF Full
      <3>2. /\ Tail(s) \in Seq(Ids) /\ IsInjective(Tail(s)) /\ Len(Tail(s)) = Len(s) - 1
            /\ ToSet(Tail(s)) = ToSet(s) \ {Head(s)}
        BY <3>1, OldestEvicted DEF FifoOK
      <3> QED
        BY <1>1, <2>1, <3>2, ClientAssumption DEF FifoOK
    <2>2. CASE ~Full
      BY <1>1, <1>2, <2>2, ClientAssumption DEF FifoOK, Full
    <2> QED
      BY <2>1, <2>2
  <1> HIDE DEF t
  <1>4. timedOutIds_' = Append(t, id) /\ timedOutIdSet_' = ToSet(t) \cup {id} /\ id \notin ToSet(t)
    BY <1>3 DEF RememberedSeq, RememberedSet, t
  <1>5. /\ Append(t, id) \in Seq(Ids) /\ Len(Append(t, id)) = Len(t) + 1
        /\ IsInjective(Append(t, id)) /\ ToSet(Append(t, id)) = ToSet(t) \cup {id}
    BY <1>3, <1>4, IdAdded
  <1>6. timedOutIdSet_' \subseteq timedOutIdSet_ \cup {id}
    BY <1>3, <1>4
  <1>7. Len(Append(t, id)) <= kMaxRememberedTimeouts
    BY <1>3, <1>5, ClientAssumption
  <1> QED
    BY <1>4, <1>5, <1>6, <1>7, Zenon DEF FifoOK

(***************************************************************************)
(* Every step keeps the invariant.                                         *)
(***************************************************************************)
Core == TypesOK /\ FifoOK /\ TableOK /\ PlacesOK

\* The same calls are posted after the step.
SameCalls ==
    /\ posts' \in Seq(Posts) /\ Unique(posts')
    /\ \A c \in Calls : Posted(c)' <=> Posted(c)

\* Posts other than calls, and their execution.
LEMMA OtherPosts ==
    ASSUME Core
    PROVE  /\ UNCHANGED posts => SameCalls
           /\ \A x \in {<<"start">>, <<"disconnect">>, <<"forceClose">>} :
                  posts' = Append(posts, x) => SameCalls
           /\ forceClose => SameCalls
           /\ \A op \in {"start", "disconnect", "forceClose"} : Runs(op) => SameCalls
  <1>1. posts \in Seq(Posts) /\ Unique(posts)
    BY DEF Core, TypesOK, PlacesOK
  <1>2. UNCHANGED posts => SameCalls
    BY <1>1, Zenon DEF SameCalls, Posted
  <1>3. ASSUME NEW x \in {<<"start">>, <<"disconnect">>, <<"forceClose">>}, posts' = Append(posts, x)
        PROVE  SameCalls
    <2>1. x \in Posts /\ x[1] # "call" /\ \A c \in Calls : x # <<"call", c>>
      BY DEF Posts
    <2>2. posts' \in Seq(Posts) /\ Unique(posts') /\ ToSet(posts') = ToSet(posts) \cup {x}
      BY <1>1, <1>3, <2>1, PostAdded
    <2> QED
      BY <2>1, <2>2, Zenon DEF SameCalls, Posted
  <1>4. forceClose => SameCalls
    BY <1>2, <1>3, Zenon DEF forceClose
  <1>5. ASSUME NEW op \in {"start", "disconnect", "forceClose"}, Runs(op) PROVE SameCalls
    <2>1. posts # <<>> /\ Head(posts)[1] # "call" /\ posts' = Tail(posts)
      BY <1>5 DEF Runs
    <2>2. posts' \in Seq(Posts) /\ Unique(posts') /\ ToSet(posts) = ToSet(posts') \cup {Head(posts)}
      BY <1>1, <2>1, PostTaken
    <2>3. \A c \in Calls : Head(posts) # <<"call", c>>
      BY <2>1
    <2> QED
      BY <2>2, <2>3, Zenon DEF SameCalls, Posted
  <1> QED
    BY <1>2, <1>3, <1>4, <1>5, Zenon

\* A step that leaves the calls where they are.
LEMMA CallsStay ==
    ASSUME Core, SameCalls,
           UNCHANGED <<outcome, deadline, nextRequestId_, pendings_, timers, timedOutIds_,
                       timedOutIdSet_, failing>>,
           cause' \in {"none", "violation", "down", "destroyed"},
           cause' = "none" => failing = {},
           (cause' = "destroyed" \/ ~alive') => (cause = "destroyed" \/ ~alive),
           ~connected_' => (~connected_ \/ cause = "destroyed" \/ ~alive),
           requests' \subseteq Ids \X Calls, replies' \in Seq(Frames)
    PROVE  Core'
  <1>1. PendingCalls' = PendingCalls
    BY Zenon DEF PendingCalls
  <1>2. TypesOK'
    BY <1>1, Zenon DEF Core, TypesOK, SameCalls
  <1>3. FifoOK' /\ TableOK'
    BY Zenon DEF Core, FifoOK, TableOK
  <1>4. PlacesOK'
    BY <1>1, Zenon DEF Core, PlacesOK, SameCalls
  <1> QED
    BY <1>2, <1>3, <1>4, Zenon DEF Core

\* The steps of failAllPending(), from any of its callers.
LEMMA CallsFail ==
    ASSUME Core, SameCalls, NEW why \in {"violation", "down", "destroyed"}, failAllPending(why),
           cause = "none", UNCHANGED <<outcome, deadline, timedOutIds_, timedOutIdSet_, alive>>,
           why = "destroyed" => \A c \in Calls : ~Posted(c),
           requests' \subseteq Ids \X Calls, replies' \in Seq(Frames)
    PROVE  Core'
  <1>1. Table
    BY Zenon DEF Core, TypesOK, Table
  <1>2. Table' /\ PendingCalls' = {} /\ failing' = PendingCalls /\ cause' = why /\ failing = {}
    BY <1>1, FailEffect DEF Core, PlacesOK
  <1>3. TypesOK'
    BY <1>2 DEF Core, TypesOK, SameCalls, Table
  <1>4. FifoOK' /\ TableOK'
    BY <1>2, Zenon DEF Core, FifoOK, Table
  <1>5. cause' # "none" /\ (cause' = "destroyed" => why = "destroyed")
    BY <1>2
  <1>6. PlacesOK'
    BY <1>2, <1>5, Zenon DEF Core, PlacesOK, SameCalls
  <1> QED
    BY <1>3, <1>4, <1>6, Zenon DEF Core

\* A call that was neither posted, in the table nor being failed is started.
LEMMA CallStarts ==
    ASSUME Core, NEW c \in Calls, startCallInLoop(c), deadline' \in {deadline, deadline \cup {c}},
           c \notin PendingCalls \cup failing, alive, cause # "destroyed",
           posts' \in Seq(Posts), Unique(posts'),
           \A d \in Calls : Posted(d)' <=> Posted(d) /\ d # c,
           UNCHANGED <<timedOutIds_, timedOutIdSet_, failing, cause, alive, connected_, replies>>
    PROVE  Core'
  <1>1. Table
    BY Zenon DEF Core, TypesOK, Table
  <1>2. /\ Table' /\ outcome' \in [Calls -> Outcomes] /\ requests' \subseteq Ids \X Calls
        /\ \A d \in Calls \ {c} : outcome'[d] = outcome[d]
        /\ \/ PendingCalls' = PendingCalls /\ outcome'[c] # Waiting
           \/ connected_ /\ PendingCalls' = PendingCalls \cup {c} /\ outcome'[c] = Waiting
    BY <1>1, StartEffect DEF Core, TypesOK
  <1>3. deadline' \subseteq Calls
    BY DEF Core, TypesOK
  <1>4. TypesOK'
    BY <1>2, <1>3, Zenon DEF Core, TypesOK, Table
  <1>5. FifoOK' /\ TableOK'
    BY <1>2, Zenon DEF Core, FifoOK, Table
  <1>6. \A d \in Calls : outcome'[d] = Waiting <=> Posted(d)' \/ d \in PendingCalls' \cup failing'
    <2> SUFFICES ASSUME NEW d \in Calls
                 PROVE  outcome'[d] = Waiting <=> Posted(d)' \/ d \in PendingCalls' \cup failing'
      OBVIOUS
    <2>1. CASE d = c
      BY <1>2, <2>1, Zenon
    <2>2. CASE d # c
      BY <1>2, <2>2, Zenon DEF Core, PlacesOK
    <2> QED
      BY <2>1, <2>2
  <1>7. \A d \in Calls : Posted(d)' => d \notin PendingCalls' \cup failing'
    BY <1>2, Zenon DEF Core, PlacesOK
  <1>8. PendingCalls' \cap failing' = {}
    BY <1>2, Zenon DEF Core, PlacesOK
  <1>9. ~connected_' => PendingCalls' = {}
    BY <1>2, Zenon DEF Core, PlacesOK
  <1>10. PlacesOK'
    BY <1>6, <1>7, <1>8, <1>9, Zenon DEF Core, PlacesOK
  <1> QED
    BY <1>4, <1>5, <1>10, Zenon DEF Core

\* A call of the table is answered, with any response.
LEMMA CallEnds ==
    ASSUME Core, SameCalls, NEW id \in DOMAIN pendings_, timers' = timers \ {id},
           pendings_' = Restrict(pendings_, DOMAIN pendings_ \ {id}),
           NEW r \in Outcomes, r # Waiting, Completed(pendings_[id], r),
           timedOutIdSet_' \subseteq timedOutIdSet_ \cup {id}, FifoOK', timedOutIds_' \in Seq(Ids),
           UNCHANGED <<deadline, nextRequestId_, failing, cause, alive, connected_, requests>>,
           replies' \in Seq(Frames)
    PROVE  Core'
  <1> DEFINE c == pendings_[id]
  <1>1. Table
    BY Zenon DEF Core, TypesOK, Table
  <1>2. Table' /\ PendingCalls' = PendingCalls \ {c} /\ c \in PendingCalls
    BY <1>1, EraseEffect
  <1>3. c \in Calls /\ ~Posted(c) /\ c \notin failing
    BY <1>2, Zenon DEF Core, TypesOK, PlacesOK
  <1>4. /\ outcome' \in [Calls -> Outcomes] /\ outcome'[c] = r
        /\ \A d \in Calls \ {c} : outcome'[d] = outcome[d]
    BY <1>3 DEF Completed, Core, TypesOK
  <1> HIDE DEF c
  <1>5. TypesOK'
    BY <1>2, <1>4, Zenon DEF Core, TypesOK, SameCalls, Table
  <1>6. TableOK'
    BY <1>2, Zenon DEF Table
  <1>7. \A d \in Calls : outcome'[d] = Waiting <=> Posted(d)' \/ d \in PendingCalls' \cup failing'
    <2> SUFFICES ASSUME NEW d \in Calls
                 PROVE  outcome'[d] = Waiting <=> Posted(d)' \/ d \in PendingCalls' \cup failing'
      OBVIOUS
    <2>1. CASE d = c
      BY <1>2, <1>3, <1>4, <2>1, Zenon DEF SameCalls
    <2>2. CASE d # c
      <3>1. outcome'[d] = outcome[d] /\ (d \in PendingCalls' <=> d \in PendingCalls)
        BY <1>2, <1>4, <2>2, Zenon
      <3> QED
        BY <3>1, Zenon DEF Core, PlacesOK, SameCalls
    <2> QED
      BY <2>1, <2>2
  <1>8. PendingCalls' \subseteq PendingCalls
    BY <1>2
  <1>9. PlacesOK'
    BY <1>7, <1>8, Zenon DEF Core, PlacesOK, SameCalls
  <1> QED
    BY <1>5, <1>6, <1>9, Zenon DEF Core

\* handleClose(), from the peer or from forceCloseInLoop().
LEMMA CloseStep ==
    ASSUME Core, SameCalls, handleClose, cause = "none",
           UNCHANGED <<outcome, deadline, timedOutIds_, timedOutIdSet_, alive>>
    PROVE  Core'
  <1>1. requests' \subseteq Ids \X Calls /\ replies' \in Seq(Frames)
    BY DEF handleClose
  <1>2. CASE alive
    <2>1. failAllPending("down") /\ "down" # "destroyed"
      BY <1>2, Zenon DEF handleClose
    <2> QED
      BY <1>1, <2>1, CallsFail
  <1>3. CASE ~alive
    BY <1>1, <1>3, CallsStay, Zenon DEF handleClose, tableVars, Core, TypesOK, PlacesOK
  <1> QED
    BY <1>2, <1>3

\* Every step keeps the calls, the table, its timers and the queue consistent.
LEMMA CoreStep == Core /\ [Next]_vars => Core'
  <1> SUFFICES ASSUME Core, [Next]_vars PROVE Core'
    OBVIOUS
  <1> USE DEF tableVars, timeoutVars, connVars, lifeVars, wireVars, connectVars
  <1>t. /\ requests \subseteq Ids \X Calls /\ replies \in Seq(Frames)
        /\ cause \in {"none", "violation", "down", "destroyed"}
        /\ cause = "none" => failing = {}
    BY Zenon DEF Core, TypesOK, PlacesOK
  <1>d. ASSUME disconnectInLoop, SameCalls PROVE Core'
    BY <1>d, <1>t, CallsStay, Zenon DEF disconnectInLoop
  <1>1. ASSUME NEW c \in Calls, CompleteFailing(c) PROVE Core'
    <2>1. c \in failing /\ failing' = failing \ {c} /\ SameCalls
      BY <1>1, OtherPosts, Zenon DEF CompleteFailing
    <2>2. PendingCalls' = PendingCalls /\ c \notin PendingCalls /\ ~Posted(c)
      BY <1>1, <2>1, Zenon DEF CompleteFailing, PendingCalls, Core, PlacesOK
    <2>3. /\ outcome' \in [Calls -> Outcomes] /\ outcome'[c] # Waiting
          /\ \A d \in Calls \ {c} : outcome'[d] = outcome[d]
      BY <1>1 DEF CompleteFailing, Completed, Outcomes, Waiting, Abstract!Waiting, Abstract!Failures,
                  Core, TypesOK
    <2>4. TypesOK'
      BY <1>1, <2>1, <2>2, <2>3, Zenon DEF CompleteFailing, Core, TypesOK, SameCalls
    <2>5. FifoOK' /\ TableOK'
      BY <1>1, Zenon DEF CompleteFailing, Core, FifoOK, TableOK
    <2>6. \A d \in Calls : outcome'[d] = Waiting <=> Posted(d)' \/ d \in PendingCalls' \cup failing'
      <3> SUFFICES ASSUME NEW d \in Calls
                   PROVE  outcome'[d] = Waiting <=> Posted(d)' \/ d \in PendingCalls' \cup failing'
        OBVIOUS
      <3>1. CASE d = c
        BY <2>1, <2>2, <2>3, <3>1, Zenon DEF SameCalls
      <3>2. CASE d # c
        <4>1. outcome'[d] = outcome[d] /\ (d \in failing' <=> d \in failing)
          BY <2>1, <2>3, <3>2, Zenon
        <4> QED
          BY <2>1, <2>2, <4>1, Zenon DEF Core, PlacesOK, SameCalls
      <3> QED
        BY <3>1, <3>2
    <2>7. PlacesOK'
      BY <1>1, <2>1, <2>2, <2>6, Zenon DEF CompleteFailing, Core, PlacesOK, SameCalls
    <2> QED
      BY <2>4, <2>5, <2>7, Zenon DEF Core
  <1>2. ASSUME NEW c \in Calls, AsyncCall(c) PROVE Core'
    <2>1. outcome[c] # Waiting
      BY <1>2 DEF AsyncCall, New, Waiting, Abstract!New, Abstract!Waiting
    <2>2. ~Posted(c) /\ c \notin PendingCalls /\ c \notin failing
      BY <2>1, Zenon DEF Core, PlacesOK
    <2>3. <<"call", c>> \in Posts
      BY DEF Posts
    <2>4. posts' \in Seq(Posts) /\ Unique(posts') /\ ToSet(posts') = ToSet(posts) \cup {<<"call", c>>}
      <3>1. posts \in Seq(Posts) /\ Unique(posts) /\ posts' = Append(posts, <<"call", c>>)
        BY <1>2, Zenon DEF AsyncCall, Core, TypesOK, PlacesOK
      <3>2. <<"call", c>> \notin ToSet(posts)
        BY <2>2, Zenon DEF Posted
      <3> QED
        BY <2>3, <3>1, <3>2, PostAdded
    <2>5. \A d \in Calls : Posted(d)' <=> Posted(d) \/ d = c
      BY <2>4 DEF Posted
    <2>6. /\ outcome' \in [Calls -> Outcomes] /\ outcome'[c] = Waiting
          /\ \A d \in Calls \ {c} : outcome'[d] = outcome[d]
      BY <1>2 DEF AsyncCall, Outcomes, Core, TypesOK
    <2>7. deadline' \subseteq Calls /\ PendingCalls' = PendingCalls
      BY <1>2 DEF AsyncCall, Core, TypesOK, PendingCalls
    <2>8. TypesOK'
      BY <1>2, <2>4, <2>6, <2>7, Zenon DEF AsyncCall, Core, TypesOK
    <2>9. FifoOK'
      BY <1>2, Zenon DEF AsyncCall, Core, FifoOK
    <2>10. TableOK'
      <3>1. \A id \in DOMAIN pendings_ : pendings_[id] \in PendingCalls
        BY DEF PendingCalls, Range
      <3>2. \A id \in DOMAIN pendings_ : pendings_[id] \in deadline' <=> pendings_[id] \in deadline
        BY <1>2, <2>2, <3>1 DEF AsyncCall
      <3> QED
        BY <1>2, <3>2 DEF AsyncCall, Core, TableOK
    <2>11. \A d \in Calls : outcome'[d] = Waiting <=> Posted(d)' \/ d \in PendingCalls' \cup failing'
      <3> SUFFICES ASSUME NEW d \in Calls
                   PROVE  outcome'[d] = Waiting <=> Posted(d)' \/ d \in PendingCalls' \cup failing'
        OBVIOUS
      <3>1. CASE d = c
        BY <2>5, <2>6, <3>1, Zenon
      <3>2. CASE d # c
        BY <1>2, <2>5, <2>6, <2>7, <3>2, Zenon DEF AsyncCall, Core, PlacesOK
      <3> QED
        BY <3>1, <3>2
    <2>12. PlacesOK'
      BY <1>2, <2>2, <2>4, <2>5, <2>7, <2>11, Zenon DEF AsyncCall, Callable, Core, PlacesOK
    <2> QED
      BY <2>8, <2>9, <2>10, <2>12, Zenon DEF Core
  <1>3. ASSUME NEW c \in Calls, AsyncCallOnLoop(c) PROVE Core'
    <2>1. outcome[c] # Waiting
      BY <1>3 DEF AsyncCallOnLoop, New, Waiting, Abstract!New, Abstract!Waiting
    <2>2. ~Posted(c) /\ c \notin PendingCalls \cup failing
      BY <2>1, Zenon DEF Core, PlacesOK
    <2>3. SameCalls
      BY <1>3, OtherPosts, Zenon DEF AsyncCallOnLoop
    <2>4. \A d \in Calls : Posted(d)' <=> Posted(d) /\ d # c
      BY <2>2, <2>3, Zenon DEF SameCalls
    <2> QED
      BY <1>3, <2>2, <2>3, <2>4, CallStarts, Zenon DEF AsyncCallOnLoop, Callable, SameCalls
  <1>4. CASE StartCall
    <2>1. posts \in Seq(Posts) /\ Unique(posts) /\ posts # <<>> /\ Head(posts)[1] = "call"
          /\ posts' = Tail(posts) /\ cause = "none"
      BY <1>4, Zenon DEF StartCall, Runs, LoopIdle, Core, TypesOK, PlacesOK
    <2>2. /\ posts' \in Seq(Posts) /\ Unique(posts') /\ Head(posts) \in Posts
          /\ ToSet(posts) = ToSet(posts') \cup {Head(posts)} /\ Head(posts) \notin ToSet(posts')
      BY <2>1, PostTaken
    <2>3. PICK c \in Calls : Head(posts) = <<"call", c>>
      BY <2>1, <2>2 DEF Posts
    <2>4. Posted(c) /\ Head(posts)[2] = c
      BY <2>2, <2>3 DEF Posted
    <2>5. c \notin PendingCalls \cup failing /\ alive /\ cause # "destroyed"
      BY <2>1, <2>4, Zenon DEF Core, PlacesOK
    <2>6. \A d \in Calls : Posted(d)' <=> Posted(d) /\ d # c
      BY <2>2, <2>3 DEF Posted
    <2>7. startCallInLoop(c) /\ deadline' = deadline
      BY <1>4, <2>4, Zenon DEF StartCall
    <2> QED
      BY <1>4, <2>2, <2>5, <2>6, <2>7, CallStarts, Zenon DEF StartCall
  <1>5. CASE EndFailing
    <2>1. SameCalls
      BY <1>5, OtherPosts, Zenon DEF EndFailing
    <2>2. cause' # "destroyed"
      BY <1>5 DEF EndFailing
    <2> QED
      BY <1>5, <1>t, <2>1, <2>2, CallsStay, Zenon DEF EndFailing
  <1>6. CASE EndDestroy
    <2>1. SameCalls
      BY <1>6, OtherPosts, Zenon DEF EndDestroy
    <2>2. requests' \subseteq Ids \X Calls /\ replies' \in Seq(Frames)
      BY <1>6 DEF EndDestroy
    <2> QED
      BY <1>6, <2>1, <2>2, CallsStay, Zenon DEF EndDestroy
  <1>7. CASE StartInLoop
    BY <1>7, <1>t, OtherPosts, CallsStay, Zenon DEF StartInLoop
  <1>8. CASE DisconnectInLoop \/ DisconnectOnLoop
    BY <1>8, <1>d, OtherPosts, Zenon DEF DisconnectInLoop, DisconnectOnLoop
  <1>9. CASE ForceCloseInLoop
    <2>1. SameCalls /\ cause = "none"
      BY <1>9, OtherPosts, Zenon DEF ForceCloseInLoop, Runs, LoopIdle
    <2>2. CASE handleClose
      BY <1>9, <2>1, <2>2, CloseStep, Zenon DEF ForceCloseInLoop
    <2>3. CASE UNCHANGED <<connVars, wireVars, tableVars, failing, cause, dangling, connecting>>
      BY <1>9, <1>t, <2>1, <2>3, CallsStay, Zenon DEF ForceCloseInLoop
    <2> QED
      BY <1>9, <2>2, <2>3, Zenon DEF ForceCloseInLoop
  <1>10. ASSUME NEW id \in Ids, OnTimeout(id) PROVE Core'
    <2>1. id \in DOMAIN pendings_ /\ id \notin timedOutIdSet_
      BY <1>10 DEF OnTimeout, Core, TableOK
    <2>2. /\ timedOutIds_' \in Seq(Ids) /\ FifoOK'
          /\ timedOutIdSet_' \subseteq timedOutIdSet_ \cup {id}
      BY <1>10, <2>1, Remember DEF OnTimeout, Core, TypesOK
    <2>3. <<"kTimeout">> \in Outcomes /\ <<"kTimeout">> # Waiting
      BY DEF Outcomes, Waiting, Abstract!Waiting, Abstract!Failures
    <2>4. SameCalls
      BY <1>10, OtherPosts, Zenon DEF OnTimeout
    <2> QED
      BY <1>10, <1>t, <2>1, <2>2, <2>3, <2>4, CallEnds, Zenon DEF OnTimeout
  <1>11. CASE OnMessage
    <2> DEFINE frame == Head(replies)
    <2> DEFINE id == frame[1]
    <2>1. replies # <<>> /\ replies' = Tail(replies) /\ cause = "none"
      BY <1>11, Zenon DEF OnMessage, Polled, LoopIdle
    <2>2. replies' \in Seq(Frames) /\ frame \in Frames
      BY <1>t, <2>1, HeadTailProperties
    <2>3. SameCalls
      BY <1>11, OtherPosts, Zenon DEF OnMessage
    <2>4. CASE frame # Bad /\ id \in DOMAIN pendings_
      <3>1. Reply(frame[2]) \in Outcomes /\ Reply(frame[2]) # Waiting
        BY <2>2, <2>4 DEF Frames, Outcomes, Reply, Waiting, Abstract!Reply, Abstract!Waiting
      <3>2. /\ pendings_' = Restrict(pendings_, DOMAIN pendings_ \ {id})
            /\ timers' = timers \ {id}
            /\ Completed(pendings_[id], Reply(frame[2]))
            /\ UNCHANGED <<nextRequestId_, failing, cause, deadline, timedOutIds_, timedOutIdSet_,
                           connected_, alive, requests>>
        BY <1>11, <2>4, Zenon DEF OnMessage, CancelledTimer
      <3>3. timedOutIdSet_' \subseteq timedOutIdSet_ \cup {id} /\ FifoOK' /\ timedOutIds_' \in Seq(Ids)
        BY <3>2, Zenon DEF Core, FifoOK, TypesOK
      <3> HIDE DEF frame, id
      <3> QED
        BY <2>2, <2>3, <2>4, <3>1, <3>2, <3>3, CallEnds, Zenon
    <2>5. CASE ~(frame # Bad /\ id \in DOMAIN pendings_) /\ frame # Bad /\ id \in timedOutIdSet_
      BY <1>11, <1>t, <2>2, <2>3, <2>5, CallsStay, Zenon DEF OnMessage
    <2>6. CASE ~(frame # Bad /\ id \in DOMAIN pendings_) /\ ~(frame # Bad /\ id \in timedOutIdSet_)
      <3>1. failAllPending("violation") /\ UNCHANGED outcome
        BY <1>11, <2>6, Zenon DEF OnMessage
      <3>2. "violation" \in {"violation", "down", "destroyed"} /\ "violation" # "destroyed"
        OBVIOUS
      <3> QED
        BY <1>11, <1>t, <2>1, <2>2, <2>3, <3>1, <3>2, CallsFail, Zenon DEF OnMessage
    <2> QED
      BY <2>4, <2>5, <2>6, Zenon
  <1>12. CASE AttemptSucceeds
    BY <1>12, <1>t, OtherPosts, CallsStay, Zenon DEF AttemptSucceeds
  <1>13. CASE AttemptFails
    BY <1>13, <1>t, OtherPosts, CallsStay, Zenon DEF AttemptFails
  <1>14. CASE Connect
    <2>1. SameCalls
      BY <1>14, OtherPosts, Zenon DEF Connect
    <2> QED
      BY <1>14, <1>t, <2>1, CallsStay, Zenon DEF Connect
  <1>20. CASE Disconnect
    <2>1. SameCalls
      BY <1>20, OtherPosts, Zenon DEF Disconnect
    <2> QED
      BY <1>20, <1>t, <2>1, CallsStay, Zenon DEF Disconnect
  <1>15. CASE Destroy
    <2>1. SameCalls /\ cause = "none"
      BY <1>15, OtherPosts, Zenon DEF Destroy, LoopIdle
    <2>2. \A c \in Calls : ~Posted(c)
      BY <1>15 DEF Destroy, Posted
    <2>3. "destroyed" \in {"violation", "down", "destroyed"}
      OBVIOUS
    <2> QED
      BY <1>15, <1>t, <2>1, <2>2, <2>3, CallsFail, Zenon DEF Destroy
  <1>16. CASE PeerCloses
    <2>1. SameCalls /\ cause = "none"
      BY <1>16, OtherPosts, Zenon DEF PeerCloses, Polled, LoopIdle
    <2> QED
      BY <1>16, <2>1, CloseStep, Zenon DEF PeerCloses
  <1>17. CASE PeerClosesEarly
    BY <1>17, <1>t, OtherPosts, CallsStay, Zenon DEF PeerClosesEarly
  <1>18. CASE ServerMisbehaves \/ \E r \in requests : ServerAnswers(r)
    <2>1. requests' \subseteq Ids \X Calls
      BY <1>18, <1>t DEF ServerMisbehaves, ServerAnswers
    <2>2. PICK f \in Frames : replies' = Append(replies, f)
      BY <1>18, <1>t DEF ServerMisbehaves, ServerAnswers, Frames
    <2>3. replies' \in Seq(Frames)
      BY <1>t, <2>2, AppendProperties
    <2>4. UNCHANGED <<outcome, deadline, tableVars, timeoutVars, connVars, posts, failing, cause,
                      lifeVars>>
      BY <1>18, Zenon DEF ServerMisbehaves, ServerAnswers
    <2>5. SameCalls
      BY <2>4, OtherPosts, Zenon
    <2> QED
      BY <1>t, <2>1, <2>3, <2>4, <2>5, CallsStay, Zenon
  <1>19. CASE UNCHANGED vars
    BY <1>19, <1>t, OtherPosts, CallsStay, Zenon DEF vars
  <1> QED
    BY <1>1, <1>2, <1>3, <1>4, <1>5, <1>6, <1>7, <1>8, <1>9, <1>10, <1>11, <1>12, <1>13, <1>14,
       <1>15, <1>16, <1>17, <1>18, <1>19, <1>20, Zenon
       DEF Next, LoopStep, UserStep, ServerStep, AttemptEnds

\* The invariant holds for ever.
LEMMA InvHolds == Spec => []Inv
  <1>1. Inv /\ [Next]_vars => Inv'
    BY FlagsStep, CoreStep, Zenon DEF Inv, Core
  <1> QED
    BY <1>1, InvInit, PTL DEF Spec

\* The table of pending calls, the deadline timers, the memory of timeouts and the
\* queue of posts agree, so a waiting call is in exactly one place from which it will
\* be answered (startCallInLoop, onMessage, onTimeout, failAllPending).
THEOREM TableStaysConsistent == Spec => []TableConsistent
  BY InvHolds, InvImplies, PTL

\* A completion runs once: no response, deadline, close or destructor answers a call
\* that has been answered (onMessage, onTimeout, failAllPending).
AnswersAreFinal ==
    [][\A c \in Calls : outcome[c] \notin {New, Waiting} => outcome'[c] = outcome[c]]_outcome

\* One step.
LEMMA AnswerStep ==
    ASSUME Inv, [Next]_vars
    PROVE  \A c \in Calls : outcome[c] \notin {New, Waiting} => outcome'[c] = outcome[c]
  <1>s. ASSUME UNCHANGED outcome
        PROVE  \A c \in Calls : outcome[c] \notin {New, Waiting} => outcome'[c] = outcome[c]
    BY <1>s, Zenon
  <1>o. ASSUME NEW c \in Calls, outcome[c] \in {New, Waiting}, NEW v, outcome' = [outcome EXCEPT ![c] = v]
        PROVE  \A d \in Calls : outcome[d] \notin {New, Waiting} => outcome'[d] = outcome[d]
    BY <1>o DEF Inv, TypesOK
  <1>w. \A c \in Calls : Posted(c) \/ c \in PendingCalls \/ c \in failing => outcome[c] \in {New, Waiting}
    BY Zenon DEF Inv, PlacesOK
  <1>p. \A id \in DOMAIN pendings_ : pendings_[id] \in Calls /\ outcome[pendings_[id]] \in {New, Waiting}
    BY <1>w DEF Inv, TypesOK, PendingCalls, Range
  <1>c. \A c \in Calls : startCallInLoop(c) => \E v : outcome' = [outcome EXCEPT ![c] = v]
    BY Zenon DEF startCallInLoop, Completed
  <1>1. ASSUME NEW c \in Calls, CompleteFailing(c) \/ AsyncCall(c) \/ AsyncCallOnLoop(c)
        PROVE  \A d \in Calls : outcome[d] \notin {New, Waiting} => outcome'[d] = outcome[d]
    <2>1. outcome[c] \in {New, Waiting}
      BY <1>1, <1>w, Zenon DEF CompleteFailing, AsyncCall, AsyncCallOnLoop
    <2>2. \E v : outcome' = [outcome EXCEPT ![c] = v]
      BY <1>1, <1>c, Zenon DEF CompleteFailing, Completed, AsyncCall, AsyncCallOnLoop
    <2> QED
      BY <1>o, <2>1, <2>2, Zenon
  <1>2. CASE StartCall
    <2>1. posts \in Seq(Posts) /\ posts # <<>> /\ Head(posts)[1] = "call" /\ Unique(posts)
      BY <1>2, Zenon DEF StartCall, Runs, Inv, TypesOK, PlacesOK
    <2>2. Head(posts) \in Posts /\ Head(posts) \in ToSet(posts)
      BY <2>1, PostTaken
    <2>3. PICK c \in Calls : Head(posts) = <<"call", c>>
      BY <2>1, <2>2 DEF Posts
    <2>4. Posted(c) /\ Head(posts)[2] = c
      BY <2>2, <2>3 DEF Posted
    <2> QED
      BY <1>2, <1>w, <1>c, <1>o, <2>4, Zenon DEF StartCall
  <1>3. ASSUME NEW id \in Ids, OnTimeout(id)
        PROVE  \A d \in Calls : outcome[d] \notin {New, Waiting} => outcome'[d] = outcome[d]
    BY <1>3, <1>o, <1>p, <1>s, Zenon DEF OnTimeout, Completed
  <1>4. CASE OnMessage
    BY <1>4, <1>o, <1>p, <1>s, Zenon DEF OnMessage, Completed
  <1>5. CASE EndFailing \/ EndDestroy \/ StartInLoop \/ ForceCloseInLoop \/ PeerCloses
    BY <1>5, <1>s, Zenon DEF EndFailing, EndDestroy, StartInLoop, ForceCloseInLoop, PeerCloses
  <1>6. CASE DisconnectInLoop \/ DisconnectOnLoop \/ AttemptEnds \/ Connect \/ Disconnect \/ Destroy
    BY <1>6, <1>s, Zenon DEF DisconnectInLoop, DisconnectOnLoop, disconnectInLoop, AttemptEnds,
       AttemptSucceeds, AttemptFails, Connect, Disconnect, Destroy
  <1>7. CASE PeerClosesEarly \/ ServerMisbehaves \/ \E r \in requests : ServerAnswers(r)
    BY <1>7, <1>s, Zenon DEF PeerClosesEarly, ServerMisbehaves, ServerAnswers
  <1>8. CASE UNCHANGED vars
    BY <1>8, <1>s, Zenon DEF vars
  <1> QED
    BY <1>1, <1>2, <1>3, <1>4, <1>5, <1>6, <1>7, <1>8, Zenon
       DEF Next, LoopStep, UserStep, ServerStep

\* No completion runs twice, for any number of ids, timeouts and calls, also where the
\* reply may be that of another call.
THEOREM CompletionsRunOnce == Spec => AnswersAreFinal
  <1>1. Inv /\ [Next]_vars =>
            [\A c \in Calls : outcome[c] \notin {New, Waiting} => outcome'[c] = outcome[c]]_outcome
    BY AnswerStep, Zenon
  <1> QED
    BY <1>1, InvHolds, PTL DEF Spec, AnswersAreFinal

(***************************************************************************)
(* Replies.                                                                *)
(*                                                                         *)
(* With fewer calls than ids the ids are handed out one after the other    *)
(* and none comes round again: they are those from s, where the counter    *)
(* stood at first, to the n-th behind it.                                  *)
(***************************************************************************)
FewCalls == IsFiniteSet(Calls) /\ Cardinality(Calls) < IdRange

\* The n-th id behind s, and how far id is behind s, counting round.
At(s, n) == IF s + n < IdRange THEN s + n ELSE s + n - IdRange
Behind(s, id) == IF id >= s THEN id - s ELSE id + IdRange - s

\* The frames on their way, and the ids the client or a frame on its way knows of.
Wire == requests \cup (ToSet(replies) \ {Bad})
Known == DOMAIN pendings_ \cup timedOutIdSet_ \cup {f[1] : f \in Wire}

\* The calls that have come to startCallInLoop().
Started == {c \in Calls : outcome[c] # New /\ ~Posted(c)}

\* n ids behind s have been counted through, one for every call started and one for 0.
Counted(s, n) ==
    /\ nextRequestId_ = At(s, n)
    /\ \A id \in Known : Behind(s, id) < n
    /\ n <= Cardinality(Started) + 1
    /\ n = Cardinality(Started) + 1 => Behind(s, 0) < n

\* A reply with the id of a pending call is the reply to that call.
RepliesMatch == \A f \in Wire : f[1] \in DOMAIN pendings_ => pendings_[f[1]] = f[2]

IdsInv == RepliesMatch /\ \E s \in Ids, n \in Nat : Counted(s, n)

\* The counter counts modulo IdRange.
LEMMA Successor ==
    ASSUME NEW s \in Ids, NEW n \in Nat, n < IdRange
    PROVE  /\ At(s, n) \in Ids /\ Behind(s, At(s, n)) = n
           /\ (At(s, n) + 1) % IdRange = At(s, n + 1)
  <1>1. PICK K \in Nat : K = IdRange /\ K >= 2
    BY ClientAssumption
  <1>2. s \in Nat /\ s < K /\ n < K
    BY <1>1 DEF Ids
  <1>3. \A i \in Nat : i < K => i % K = i
    BY <1>1
  <1>4. K % K = 0
    BY <1>1
  <1>5. At(s, n) \in 0..K - 1 /\ Behind(s, At(s, n)) = n
    BY <1>1, <1>2 DEF At, Behind
  <1>6. (At(s, n) + 1) % K = At(s, n + 1)
    <2>1. PICK i \in Nat : i = At(s, n) + 1
      BY <1>5
    <2>2. CASE i = K
      <3>1. At(s, n + 1) = 0
        BY <1>1, <1>2, <2>1, <2>2 DEF At
      <3> QED
        BY <1>4, <2>1, <2>2, <3>1, Zenon
    <2>3. CASE i # K
      <3>1. At(s, n + 1) = i /\ i < K
        BY <1>1, <1>2, <2>1, <2>3 DEF At
      <3> QED
        BY <1>3, <2>1, <3>1, Zenon
    <2> QED
      BY <2>2, <2>3
  <1> QED
    BY <1>1, <1>5, <1>6 DEF Ids

\* The ids allocateRequestId() comes to first.
LEMMA PassedIs ==
    ASSUME NEW id \in Ids, nextRequestId_ \in Ids
    PROVE  /\ Passed(id) \in Nat
           /\ Passed(id) = 0 <=> id = nextRequestId_
           /\ nextRequestId_ = 0 => Passed(id) = id
  BY ClientAssumption DEF Passed, Ids

\* The first usable id is the one allocated.
LEMMA FirstUsable ==
    ASSUME nextRequestId_ \in Ids, NEW k \in Ids, Usable(k),
           \A x \in Ids : Usable(x) => x = k \/ Passed(k) < Passed(x)
    PROVE  AllocatedId = k
  <1>1. PICK a : a = AllocatedId
    OBVIOUS
  <1>2. a \in Ids /\ Usable(a) /\ Passed(a) <= Passed(k)
    BY <1>1, AllocatedIdIsUsable, Zenon
  <1>3. Passed(a) \in Nat /\ Passed(k) \in Nat
    BY <1>2, PassedIs, Zenon
  <1>4. ~(Passed(k) < Passed(a))
    BY <1>2, <1>3
  <1> QED
    BY <1>1, <1>2, <1>4, Zenon

\* m ids have been counted through when a call gets id a; t calls were started before.
Fresh(s, n, m, a, t) ==
    /\ m \in Nat /\ a \in Ids /\ Behind(s, a) >= n /\ Behind(s, a) < m /\ m > n
    /\ (a + 1) % IdRange = At(s, m)
    /\ m <= t + 2 /\ (m = t + 2 => Behind(s, 0) < m)

\* allocateRequestId() comes to an id that no frame and no call knows of.
LEMMA Allocates ==
    ASSUME NEW s \in Ids, NEW n \in Nat, NEW t \in Nat, t + 2 <= IdRange,
           nextRequestId_ = At(s, n), \A id \in Known : Behind(s, id) < n,
           n <= t + 1, n = t + 1 => Behind(s, 0) < n
    PROVE  \E m : Fresh(s, n, m, AllocatedId, t)
  <1>1. IdRange \in Nat /\ IdRange >= 2 /\ s \in Nat /\ s < IdRange /\ n < IdRange
    BY ClientAssumption DEF Ids
  <1>2. At(s, n) \in Ids /\ Behind(s, At(s, n)) = n /\ (At(s, n) + 1) % IdRange = At(s, n + 1)
    BY <1>1, Successor
  <1>3. nextRequestId_ \in Ids
    BY <1>2
  <1>4. \A id \in Ids : id # 0 /\ ~(Behind(s, id) < n) => Usable(id)
    BY Zenon DEF Usable, Known
  <1>5. CASE At(s, n) # 0
    <2>1. ~(Behind(s, At(s, n)) < n)
      BY <1>2
    <2>2. Usable(At(s, n))
      BY <1>2, <1>4, <1>5, <2>1, Zenon
    <2>3. \A x \in Ids : Usable(x) => x = At(s, n) \/ Passed(At(s, n)) < Passed(x)
      BY <1>2, <1>3, PassedIs
    <2>4. AllocatedId = At(s, n)
      BY <1>2, <1>3, <2>2, <2>3, FirstUsable, Zenon
    <2>5. PICK a : a = At(s, n)
      OBVIOUS
    <2>6. a \in Ids /\ Behind(s, a) = n /\ (a + 1) % IdRange = At(s, n + 1)
      BY <1>2, <2>5, Zenon
    <2>7. /\ n + 1 \in Nat /\ n >= n /\ n < n + 1 /\ n + 1 > n /\ n + 1 <= t + 2
          /\ (n + 1 = t + 2 => Behind(s, 0) < n + 1)
      <3>1. Behind(s, 0) \in Nat
        BY <1>1 DEF Behind
      <3> QED
        BY <3>1
    <2>8. Fresh(s, n, n + 1, a, t)
      BY <2>6, <2>7, Zenon DEF Fresh
    <2> QED
      BY <2>4, <2>5, <2>8, Zenon
  <1>6. CASE At(s, n) = 0
    <2>1. Behind(s, 0) = n /\ n <= t /\ n + 1 < IdRange /\ nextRequestId_ = 0
      BY <1>1, <1>2, <1>6
    <2>2. At(s, n + 1) = 1
      BY <1>1, <1>6, <2>1 DEF At
    <2>3. At(s, n + 1) \in Ids /\ Behind(s, At(s, n + 1)) = n + 1
          /\ (At(s, n + 1) + 1) % IdRange = At(s, (n + 1) + 1)
      <3>1. n + 1 \in Nat
        OBVIOUS
      <3> QED
        BY <2>1, <3>1, Successor
    <2>4. 1 \in Ids /\ Behind(s, 1) = n + 1 /\ (1 + 1) % IdRange = At(s, n + 2)
      <3>1. (n + 1) + 1 = n + 2
        OBVIOUS
      <3> QED
        BY <2>2, <2>3, <3>1, Zenon
    <2>5. Usable(1)
      <3>1. 1 # 0 /\ ~(Behind(s, 1) < n)
        BY <2>4
      <3> QED
        BY <1>4, <2>4, <3>1, Zenon
    <2>6. \A x \in Ids : Usable(x) => x = 1 \/ Passed(1) < Passed(x)
      <3> SUFFICES ASSUME NEW x \in Ids, Usable(x) PROVE x = 1 \/ Passed(1) < Passed(x)
        OBVIOUS
      <3>1. x # 0
        BY Zenon DEF Usable
      <3>2. Passed(x) = x /\ Passed(1) = 1
        BY <1>3, <2>1, <2>4, PassedIs
      <3> QED
        BY <3>1, <3>2 DEF Ids
    <2>7. AllocatedId = 1
      BY <1>3, <2>4, <2>5, <2>6, FirstUsable, Zenon
    <2>8. /\ n + 2 \in Nat /\ n + 1 >= n /\ n + 1 < n + 2 /\ n + 2 > n /\ n + 2 <= t + 2
          /\ Behind(s, 0) < n + 2
      BY <2>1
    <2>9. Fresh(s, n, n + 2, 1, t)
      BY <2>4, <2>8, Zenon DEF Fresh
    <2> QED
      BY <2>7, <2>9, Zenon
  <1> QED
    BY <1>5, <1>6

\* The frames on their way are requests of this client.
LEMMA WireIs ==
    ASSUME Inv
    PROVE  /\ Wire \subseteq Ids \X Calls /\ Known \subseteq Ids
           /\ ToSet(replies) \subseteq Wire \cup {Bad} /\ requests \subseteq Wire
  <1>1. requests \subseteq Ids \X Calls /\ replies \in Seq(Frames) /\ DOMAIN pendings_ \subseteq Ids
    BY Zenon DEF Inv, TypesOK
  <1>2. ToSet(replies) \subseteq Frames
    BY <1>1 DEF ToSet
  <1>3. Wire \subseteq Ids \X Calls
    BY <1>1, <1>2, Zenon DEF Wire, Frames
  <1>4. timedOutIdSet_ \subseteq Ids
    BY DEF Inv, TypesOK, FifoOK, ToSet
  <1>5. \A f \in Wire : f[1] \in Ids
    BY <1>3
  <1> QED
    BY <1>1, <1>3, <1>4, <1>5, Zenon DEF Wire, Known

\* A step that starts no call and sends nothing.
Quiet ==
    /\ nextRequestId_' = nextRequestId_ /\ Started' = Started /\ Wire' \subseteq Wire
    /\ DOMAIN pendings_' \subseteq DOMAIN pendings_
    /\ \A id \in DOMAIN pendings_' : pendings_'[id] = pendings_[id]
    /\ timedOutIdSet_' \subseteq timedOutIdSet_ \cup DOMAIN pendings_

\* The ids stay apart when nothing is sent and no call is added.
LEMMA QuietStep ==
    ASSUME IdsInv, Quiet
    PROVE  IdsInv'
  <1>1. PICK s \in Ids, n \in Nat : Counted(s, n)
    BY Zenon DEF IdsInv
  <1>2. Known' \subseteq Known
    BY Zenon DEF Quiet, Known
  <1>3. Counted(s, n)'
    BY <1>1, <1>2, Zenon DEF Counted, Quiet
  <1>4. RepliesMatch'
    BY Zenon DEF IdsInv, RepliesMatch, Quiet
  <1> QED
    BY <1>1, <1>3, <1>4, Zenon DEF IdsInv

\* The calls started: a completion, and a post other than a call, starts none.
LEMMA StartedStays ==
    ASSUME SameCalls, \A c \in Calls : outcome'[c] = New <=> outcome[c] = New
    PROVE  Started' = Started
  BY Zenon DEF SameCalls, Started

\* The table and the wire as they were.
LEMMA Untouched ==
    ASSUME SameCalls, UNCHANGED <<outcome, nextRequestId_, pendings_, timedOutIdSet_, requests, replies>>
    PROVE  Quiet
  <1>1. Started' = Started
    BY StartedStays, Zenon
  <1> QED
    BY <1>1, Zenon DEF Quiet, Wire

\* The numbers of a call more.
LEMMA OneMore ==
    ASSUME FewCalls, NEW c \in Calls \ Started
    PROVE  /\ Cardinality(Started) \in Nat /\ Cardinality(Started) + 2 <= IdRange
           /\ Cardinality(Started \cup {c}) = Cardinality(Started) + 1
  <1>1. IsFiniteSet(Calls) /\ Started \subseteq Calls /\ Started \cup {c} \subseteq Calls /\ c \notin Started
    BY DEF FewCalls, Started
  <1>2. IsFiniteSet(Started)
    BY <1>1, FS_Subset
  <1>3. Cardinality(Started \cup {c}) = Cardinality(Started) + 1
    BY <1>1, <1>2, FS_AddElement
  <1>4. Cardinality(Started \cup {c}) <= Cardinality(Calls)
    BY <1>1, FS_Subset
  <1>5. Cardinality(Started) \in Nat /\ Cardinality(Calls) \in Nat
    BY <1>1, <1>2, FS_CardinalityType
  <1>6. Cardinality(Calls) < IdRange /\ IdRange \in Nat
    BY ClientAssumption DEF FewCalls
  <1> QED
    BY <1>3, <1>4, <1>5, <1>6

\* startCallInLoop(): the id of the call is a new one.
LEMMA StartIds ==
    ASSUME FewCalls, Inv, IdsInv, NEW c \in Calls \ Started, startCallInLoop(c),
           Started' = Started \cup {c}, UNCHANGED <<timedOutIdSet_, replies>>
    PROVE  IdsInv'
  <1>1. PICK s \in Ids, n \in Nat : Counted(s, n)
    BY Zenon DEF IdsInv
  <1>2. PICK t \in Nat : t = Cardinality(Started) /\ t + 2 <= IdRange /\ Cardinality(Started') = t + 1
    BY OneMore, Zenon
  <1>3. /\ nextRequestId_ = At(s, n) /\ \A id \in Known : Behind(s, id) < n
        /\ n <= t + 1 /\ (n = t + 1 => Behind(s, 0) < n)
    BY <1>1, <1>2, Zenon DEF Counted
  <1>4. CASE UNCHANGED <<tableVars, requests>>
    <2>1. /\ nextRequestId_' = nextRequestId_ /\ pendings_' = pendings_ /\ Wire' = Wire /\ Known' = Known
      BY <1>4, Zenon DEF tableVars, Wire, Known
    <2>2. n <= (t + 1) + 1 /\ n # (t + 1) + 1
      BY <1>3
    <2>3. Counted(s, n)'
      BY <1>2, <1>3, <2>1, <2>2, Zenon DEF Counted
    <2>4. RepliesMatch'
      BY <2>1, Zenon DEF IdsInv, RepliesMatch
    <2> QED
      BY <1>1, <2>3, <2>4, Zenon DEF IdsInv
  <1>5. CASE /\ \E id \in Ids : Usable(id)
             /\ nextRequestId_' = (AllocatedId + 1) % IdRange
             /\ pendings_' = With(pendings_, AllocatedId, c)
             /\ requests' = IF connection = "up" THEN requests \cup {<<AllocatedId, c>>} ELSE requests
    <2>1. PICK a : a = AllocatedId
      OBVIOUS
    <2>2. /\ nextRequestId_' = (a + 1) % IdRange /\ pendings_' = With(pendings_, a, c)
          /\ requests' \subseteq requests \cup {<<a, c>>}
      <3>1. requests' = IF connection = "up" THEN requests \cup {<<a, c>>} ELSE requests
        BY <1>5, <2>1, Zenon
      <3> QED
        BY <1>5, <2>1, <3>1, Zenon
    <2>3. PICK m : Fresh(s, n, m, a, t)
      BY <1>2, <1>3, <2>1, Allocates, Zenon
    <2>4. /\ DOMAIN pendings_' = DOMAIN pendings_ \cup {a} /\ pendings_'[a] = c
          /\ \A id \in DOMAIN pendings_ : id # a => pendings_'[id] = pendings_[id]
      BY <2>2 DEF With
    <2>5. Wire' \subseteq Wire \cup {<<a, c>>}
      BY <2>2, Zenon DEF Wire
    <2>6. <<a, c>>[1] = a /\ <<a, c>>[2] = c
      OBVIOUS
    <2>7. Known' \subseteq Known \cup {a}
      <3>1. \A f \in Wire' : f[1] \in {g[1] : g \in Wire} \cup {a}
        <4> SUFFICES ASSUME NEW f \in Wire' PROVE f[1] \in {g[1] : g \in Wire} \cup {a}
          OBVIOUS
        <4>1. CASE f \in Wire
          BY <4>1, Zenon
        <4>2. CASE f = <<a, c>>
          BY <2>6, <4>2, Zenon
        <4> QED
          BY <2>5, <4>1, <4>2, Zenon
      <3>2. {f[1] : f \in Wire'} \subseteq {g[1] : g \in Wire} \cup {a}
        BY <3>1, Zenon
      <3>3. Known' = DOMAIN pendings_' \cup timedOutIdSet_' \cup {f[1] : f \in Wire'}
        BY Zenon DEF Known
      <3> QED
        BY <2>4, <3>2, <3>3, Zenon DEF Known
    <2>8. \A id \in Known : id \in Ids /\ Behind(s, id) \in Int /\ Behind(s, id) < m /\ id # a
      <3> SUFFICES ASSUME NEW id \in Known
                   PROVE  id \in Ids /\ Behind(s, id) \in Int /\ Behind(s, id) < m /\ id # a
        OBVIOUS
      <3>1. id \in Ids /\ Behind(s, id) < n
        BY <1>3, WireIs, Zenon
      <3>2. Behind(s, id) \in Int /\ Behind(s, a) \in Int
        BY <2>3, <3>1, ClientAssumption DEF Behind, Fresh, Ids
      <3>3. Behind(s, a) >= n /\ n < m /\ m \in Nat
        BY <2>3 DEF Fresh
      <3>4. Behind(s, id) < m /\ Behind(s, id) # Behind(s, a)
        BY <3>1, <3>2, <3>3
      <3> QED
        BY <3>1, <3>2, <3>4, Zenon
    <2>9. Counted(s, m)'
      <3>1. \A id \in Known' : Behind(s, id) < m
        BY <2>3, <2>7, <2>8, Zenon DEF Fresh
      <3>2. nextRequestId_' = At(s, m)
        BY <2>2, <2>3, Zenon DEF Fresh
      <3>3. m <= (t + 1) + 1 /\ (m = (t + 1) + 1 => Behind(s, 0) < m)
        BY <2>3 DEF Fresh
      <3> QED
        BY <1>2, <3>1, <3>2, <3>3, Zenon DEF Counted
    <2>10. RepliesMatch'
      <3> SUFFICES ASSUME NEW f \in Wire', f[1] \in DOMAIN pendings_'
                   PROVE  pendings_'[f[1]] = f[2]
        BY Zenon DEF RepliesMatch
      <3>1. CASE f = <<a, c>>
        BY <2>4, <2>6, <3>1, Zenon
      <3>2. CASE f \in Wire
        <4>1. f[1] \in Known
          BY <3>2, Zenon DEF Known
        <4>2. f[1] # a
          BY <2>8, <4>1, Zenon
        <4>3. f[1] \in DOMAIN pendings_
          BY <2>4, <4>2, Zenon
        <4> QED
          BY <2>4, <3>2, <4>2, <4>3, Zenon DEF IdsInv, RepliesMatch
      <3> QED
        BY <2>5, <3>1, <3>2, Zenon
    <2>11. m \in Nat
      BY <2>3, Zenon DEF Fresh
    <2> QED
      BY <1>1, <2>9, <2>10, <2>11, Zenon DEF IdsInv
  <1> QED
    BY <1>4, <1>5, Zenon DEF startCallInLoop

\* Who waits is not new.
LEMMA NewIs ==
    /\ New # Waiting /\ New \notin Abstract!Failures /\ Waiting \notin Abstract!Failures
    /\ \A c : Reply(c) # New /\ Reply(c) # Waiting
  BY DEF New, Waiting, Reply, Abstract!New, Abstract!Waiting, Abstract!Reply, Abstract!Failures

\* A waiting call is answered.
LEMMA AnsweredStarts ==
    ASSUME Inv, SameCalls, NEW c \in Calls, outcome[c] = Waiting, NEW r, r # New, Completed(c, r)
    PROVE  Started' = Started
  <1>1. outcome'[c] = r /\ \A d \in Calls \ {c} : outcome'[d] = outcome[d]
    BY DEF Inv, TypesOK, Completed
  <1>2. \A d \in Calls : outcome'[d] = New <=> outcome[d] = New
    <2> SUFFICES ASSUME NEW d \in Calls PROVE outcome'[d] = New <=> outcome[d] = New
      OBVIOUS
    <2>1. CASE d = c
      BY <1>1, <2>1, NewIs, Zenon
    <2>2. CASE d # c
      BY <1>1, <2>2, Zenon
    <2> QED
      BY <2>1, <2>2
  <1> QED
    BY <1>2, StartedStays, Zenon

\* The calls of the table wait.
LEMMA TableWaits ==
    ASSUME Inv, NEW id \in DOMAIN pendings_
    PROVE  pendings_[id] \in Calls /\ outcome[pendings_[id]] = Waiting
  <1>1. pendings_[id] \in PendingCalls
    BY DEF PendingCalls, Range
  <1> QED
    BY <1>1, Zenon DEF Inv, TypesOK, PlacesOK

\* A call leaves the table.
LEMMA ErasedIs ==
    ASSUME Inv, NEW id \in DOMAIN pendings_, pendings_' = Restrict(pendings_, DOMAIN pendings_ \ {id})
    PROVE  /\ DOMAIN pendings_' \subseteq DOMAIN pendings_
           /\ \A x \in DOMAIN pendings_' : pendings_'[x] = pendings_[x]
  BY DEF Restrict

\* The wire after the connection's end, a reply taken and a frame sent by the server.
LEMMA WireAfter ==
    ASSUME Inv
    PROVE  /\ requests' = {} /\ replies' = <<>> => Wire' \subseteq Wire
           /\ requests' = requests /\ replies # <<>> /\ replies' = Tail(replies) =>
                  /\ Wire' \subseteq Wire
                  /\ Head(replies) # Bad => Head(replies) \in Wire
           /\ requests' = requests /\ replies' = Append(replies, Bad) => Wire' \subseteq Wire
           /\ \A r \in requests :
                  requests' = requests \ {r} /\ replies' = Append(replies, r) => Wire' \subseteq Wire
  <1>1. replies \in Seq(Frames) /\ Bad \in Frames /\ requests \subseteq Frames
    BY DEF Inv, TypesOK, Frames
  <1>2. requests' = {} /\ replies' = <<>> => Wire' \subseteq Wire
    BY DEF Wire, ToSet
  <1>3. ASSUME requests' = requests, replies # <<>>, replies' = Tail(replies)
        PROVE  Wire' \subseteq Wire /\ (Head(replies) # Bad => Head(replies) \in Wire)
    <2>1. ToSet(Tail(replies)) \subseteq ToSet(replies) /\ Head(replies) \in ToSet(replies)
      <3>1. /\ Len(replies) \in Nat /\ Len(replies) > 0 /\ Head(replies) = replies[1]
            /\ DOMAIN replies = 1..Len(replies) /\ DOMAIN Tail(replies) = 1..(Len(replies) - 1)
            /\ \A i \in 1..(Len(replies) - 1) : Tail(replies)[i] = replies[i + 1]
        BY <1>1, <1>3, HeadTailProperties, LenProperties, EmptySeq
      <3> QED
        BY <3>1 DEF ToSet
    <2> QED
      BY <1>3, <2>1, Zenon DEF Wire
  <1>4. ASSUME requests' = requests, replies' = Append(replies, Bad)
        PROVE  Wire' \subseteq Wire
    <2>1. ToSet(Append(replies, Bad)) = ToSet(replies) \cup {Bad}
      BY <1>1, AppendElements
    <2> QED
      BY <1>4, <2>1, Zenon DEF Wire
  <1>5. ASSUME NEW r \in requests, requests' = requests \ {r}, replies' = Append(replies, r)
        PROVE  Wire' \subseteq Wire
    <2>0. r \in Frames
      BY <1>1
    <2>1. ToSet(Append(replies, r)) = ToSet(replies) \cup {r}
      BY <1>1, <2>0, AppendElements
    <2> QED
      BY <1>5, <2>1, Zenon DEF Wire
  <1> QED
    BY <1>2, <1>3, <1>4, <1>5, Zenon

\* The table is emptied, or left alone, and nothing is sent.
LEMMA EmptiedIs ==
    ASSUME Inv, SameCalls, UNCHANGED <<outcome, nextRequestId_, timedOutIdSet_>>,
           pendings_' = pendings_ \/ pendings_' = <<>>, Wire' \subseteq Wire
    PROVE  Quiet
  <1>1. Started' = Started
    BY StartedStays, Zenon
  <1>2. DOMAIN <<>> = {}
    OBVIOUS
  <1> QED
    BY <1>1, <1>2, Zenon DEF Quiet

\* handleClose().
LEMMA CloseIds ==
    ASSUME Inv, SameCalls, handleClose, UNCHANGED <<outcome, timedOutIdSet_>>
    PROVE  Quiet
  <1>1. requests' = {} /\ replies' = <<>>
    BY Zenon DEF handleClose
  <1>2. nextRequestId_' = nextRequestId_ /\ (pendings_' = pendings_ \/ pendings_' = <<>>)
    BY Zenon DEF handleClose, failAllPending, tableVars
  <1>3. Wire' \subseteq Wire
    BY <1>1, WireAfter, Zenon
  <1> QED
    BY <1>2, <1>3, EmptiedIs, Zenon

\* Every step keeps the ids apart.
LEMMA IdsStep ==
    ASSUME FewCalls, Inv, IdsInv, [Next]_vars
    PROVE  IdsInv'
  <1> USE DEF tableVars, timeoutVars, connVars, lifeVars, wireVars, connectVars
  <1>c. Core
    BY Zenon DEF Inv, Core
  <1>u. ASSUME SameCalls, UNCHANGED <<outcome, tableVars, timeoutVars, wireVars>>
        PROVE  IdsInv'
    BY <1>u, Untouched, QuietStep, Zenon
  <1>d. ASSUME disconnectInLoop, SameCalls PROVE IdsInv'
    BY <1>d, <1>u, Zenon DEF disconnectInLoop
  <1>1. ASSUME NEW c \in Calls, CompleteFailing(c) PROVE IdsInv'
    <2>1. /\ SameCalls /\ outcome[c] = Waiting /\ Completed(c, <<"kConnectionClosed">>)
          /\ UNCHANGED <<tableVars, timeoutVars, wireVars>>
      BY <1>1, <1>c, OtherPosts, Zenon DEF CompleteFailing, Inv, PlacesOK
    <2>2. <<"kConnectionClosed">> # New
      BY DEF New, Abstract!New
    <2>3. Started' = Started
      BY <2>1, <2>2, AnsweredStarts, Zenon
    <2>4. Quiet
      BY <2>1, <2>3, Zenon DEF Quiet, Wire
    <2> QED
      BY <2>4, QuietStep, Zenon
  <1>2. ASSUME NEW c \in Calls, AsyncCall(c) PROVE IdsInv'
    <2>1. /\ outcome[c] = New /\ outcome' = [outcome EXCEPT ![c] = Waiting]
          /\ posts' = Append(posts, <<"call", c>>) /\ UNCHANGED <<tableVars, timeoutVars, wireVars>>
      BY <1>2, Zenon DEF AsyncCall
    <2>2. posts \in Seq(Posts) /\ <<"call", c>> \in Posts
      BY DEF Inv, TypesOK, Posts
    <2>3. ToSet(posts') = ToSet(posts) \cup {<<"call", c>>}
      BY <2>1, <2>2, AppendElements
    <2>4. \A d \in Calls : Posted(d)' <=> Posted(d) \/ d = c
      BY <2>3 DEF Posted
    <2>5. \A d \in Calls \ {c} : outcome'[d] = outcome[d]
      BY <2>1 DEF Inv, TypesOK
    <2>6. Started' = Started
      BY <2>1, <2>4, <2>5, Zenon DEF Started
    <2>7. Quiet
      BY <2>1, <2>6, Zenon DEF Quiet, Wire
    <2> QED
      BY <2>7, QuietStep, Zenon
  <1>s. ASSUME NEW c \in Calls, startCallInLoop(c), outcome[c] = New \/ Posted(c),
               \A d \in Calls : Posted(d)' <=> Posted(d) /\ d # c,
               UNCHANGED <<timedOutIdSet_, replies>>
        PROVE  IdsInv'
    <2>1. c \notin Started
      BY <1>s, Zenon DEF Started
    <2>2. PICK r : r # New /\ outcome' = [outcome EXCEPT ![c] = r]
      <3>1. <<"kConnectionClosed">> # New /\ <<"kBadRequest">> # New /\ Waiting # New
        BY DEF New, Waiting, Abstract!New, Abstract!Waiting
      <3> QED
        BY <1>s, <3>1, Zenon DEF startCallInLoop, Completed
    <2>3. outcome'[c] = r /\ \A d \in Calls \ {c} : outcome'[d] = outcome[d]
      BY <2>2 DEF Inv, TypesOK
    <2>4. Started' = Started \cup {c}
      BY <1>s, <2>2, <2>3, Zenon DEF Started
    <2> QED
      BY <1>s, <2>1, <2>4, StartIds, Zenon
  <1>3. ASSUME NEW c \in Calls, AsyncCallOnLoop(c) PROVE IdsInv'
    <2>1. outcome[c] = New /\ startCallInLoop(c) /\ SameCalls /\ UNCHANGED <<timedOutIdSet_, replies>>
      BY <1>3, <1>c, OtherPosts, Zenon DEF AsyncCallOnLoop
    <2>2. ~Posted(c)
      BY <2>1, NewIs, Zenon DEF Inv, PlacesOK
    <2>3. \A d \in Calls : Posted(d)' <=> Posted(d) /\ d # c
      BY <2>1, <2>2, Zenon DEF SameCalls
    <2> QED
      BY <1>s, <2>1, <2>3, Zenon
  <1>4. CASE StartCall
    <2>1. posts \in Seq(Posts) /\ Unique(posts) /\ posts # <<>> /\ Head(posts)[1] = "call"
          /\ posts' = Tail(posts) /\ UNCHANGED <<timedOutIdSet_, replies>>
          /\ startCallInLoop(Head(posts)[2])
      BY <1>4, Zenon DEF StartCall, Runs, Inv, TypesOK, PlacesOK
    <2>2. /\ Head(posts) \in Posts
          /\ ToSet(posts) = ToSet(posts') \cup {Head(posts)} /\ Head(posts) \notin ToSet(posts')
      BY <2>1, PostTaken
    <2>3. PICK c \in Calls : Head(posts) = <<"call", c>>
      BY <2>1, <2>2 DEF Posts
    <2>4. Posted(c) /\ Head(posts)[2] = c
      BY <2>2, <2>3 DEF Posted
    <2>5. \A d \in Calls : Posted(d)' <=> Posted(d) /\ d # c
      BY <2>2, <2>3 DEF Posted
    <2> QED
      BY <1>s, <2>1, <2>4, <2>5, Zenon
  <1>5. CASE EndFailing \/ StartInLoop \/ AttemptSucceeds \/ AttemptFails \/ PeerClosesEarly
    <2>1. SameCalls
      BY <1>5, <1>c, OtherPosts, Zenon
         DEF EndFailing, StartInLoop, AttemptSucceeds, AttemptFails, PeerClosesEarly
    <2> QED
      BY <1>5, <1>u, <2>1, Zenon
         DEF EndFailing, StartInLoop, AttemptSucceeds, AttemptFails, PeerClosesEarly
  <1>6. CASE Connect \/ Disconnect
    <2>1. SameCalls
      BY <1>6, <1>c, OtherPosts, Zenon DEF Connect, Disconnect
    <2> QED
      BY <1>6, <1>u, <2>1, Zenon DEF Connect, Disconnect
  <1>7. CASE DisconnectInLoop \/ DisconnectOnLoop
    BY <1>7, <1>c, <1>d, OtherPosts, Zenon DEF DisconnectInLoop, DisconnectOnLoop
  <1>8. CASE EndDestroy
    <2>1. /\ SameCalls /\ requests' = {} /\ replies' = <<>>
          /\ UNCHANGED <<outcome, tableVars, timeoutVars>>
      BY <1>8, <1>c, OtherPosts, Zenon DEF EndDestroy
    <2>2. Wire' \subseteq Wire
      BY <2>1, WireAfter, Zenon
    <2>3. Quiet
      BY <2>1, <2>2, EmptiedIs, Zenon
    <2> QED
      BY <2>3, QuietStep, Zenon
  <1>9. CASE ForceCloseInLoop
    <2>1. SameCalls /\ UNCHANGED <<outcome, timeoutVars>>
      BY <1>9, <1>c, OtherPosts, Zenon DEF ForceCloseInLoop
    <2>2. CASE handleClose
      BY <2>1, <2>2, CloseIds, QuietStep, Zenon
    <2>3. CASE UNCHANGED <<wireVars, tableVars>>
      BY <1>u, <2>1, <2>3, Zenon
    <2> QED
      BY <1>9, <2>2, <2>3, Zenon DEF ForceCloseInLoop
  <1>10. CASE PeerCloses
    <2>1. SameCalls /\ handleClose /\ UNCHANGED <<outcome, timeoutVars>>
      BY <1>10, <1>c, OtherPosts, Zenon DEF PeerCloses
    <2> QED
      BY <2>1, CloseIds, QuietStep, Zenon
  <1>11. CASE Destroy
    <2>1. /\ SameCalls /\ failAllPending("destroyed")
          /\ UNCHANGED <<outcome, timeoutVars, wireVars>>
      BY <1>11, <1>c, OtherPosts, Zenon DEF Destroy
    <2>2. pendings_' = <<>> /\ nextRequestId_' = nextRequestId_ /\ Wire' \subseteq Wire
      BY <2>1, Zenon DEF failAllPending, Wire
    <2>3. Quiet
      BY <2>1, <2>2, EmptiedIs, Zenon
    <2> QED
      BY <2>3, QuietStep, Zenon
  <1>12. ASSUME NEW id \in Ids, OnTimeout(id) PROVE IdsInv'
    <2>1. SameCalls /\ UNCHANGED <<nextRequestId_, wireVars>>
      BY <1>12, <1>c, OtherPosts, Zenon DEF OnTimeout
    <2>2. CASE id \in DOMAIN pendings_
      <3>1. /\ pendings_' = Restrict(pendings_, DOMAIN pendings_ \ {id})
            /\ timedOutIdSet_' = RememberedSet(id)
            /\ Completed(pendings_[id], <<"kTimeout">>)
        BY <1>12, <2>2, Zenon DEF OnTimeout
      <3>2. <<"kTimeout">> # New
        BY DEF New, Abstract!New
      <3>3. pendings_[id] \in Calls /\ outcome[pendings_[id]] = Waiting
        BY <2>2, TableWaits, Zenon
      <3>4. Started' = Started
        BY <2>1, <3>1, <3>2, <3>3, AnsweredStarts, Zenon
      <3>5. timedOutIdSet_' \subseteq timedOutIdSet_ \cup DOMAIN pendings_
        BY <2>2, <3>1, Zenon DEF RememberedSet
      <3>6. /\ DOMAIN pendings_' \subseteq DOMAIN pendings_
            /\ \A x \in DOMAIN pendings_' : pendings_'[x] = pendings_[x]
        BY <2>2, <3>1, ErasedIs, Zenon
      <3>7. Quiet
        BY <2>1, <3>4, <3>5, <3>6, Zenon DEF Quiet, Wire
      <3> QED
        BY <3>7, QuietStep, Zenon
    <2>3. CASE id \notin DOMAIN pendings_
      <3>1. UNCHANGED <<outcome, nextRequestId_, pendings_, timedOutIdSet_, requests, replies>>
        BY <1>12, <2>1, <2>3, Zenon DEF OnTimeout
      <3> QED
        BY <2>1, <3>1, Untouched, QuietStep, Zenon
    <2> QED
      BY <2>2, <2>3
  <1>13. CASE OnMessage
    <2>1. /\ SameCalls /\ replies # <<>> /\ replies' = Tail(replies) /\ requests' = requests
          /\ timedOutIdSet_' = timedOutIdSet_
      BY <1>13, <1>c, OtherPosts, Zenon DEF OnMessage
    <2>2. Wire' \subseteq Wire
      BY <2>1, WireAfter, Zenon
    <2>3. PICK frame, id : frame = Head(replies) /\ id = frame[1]
      OBVIOUS
    <2>4. CASE frame # Bad /\ id \in DOMAIN pendings_
      <3>1. /\ pendings_' = Restrict(pendings_, DOMAIN pendings_ \ {id})
            /\ Completed(pendings_[id], Reply(frame[2]))
            /\ nextRequestId_' = nextRequestId_
        BY <1>13, <2>3, <2>4, Zenon DEF OnMessage
      <3>2. pendings_[id] \in Calls /\ outcome[pendings_[id]] = Waiting /\ Reply(frame[2]) # New
        BY <2>4, TableWaits, NewIs, Zenon
      <3>3. Started' = Started
        BY <2>1, <3>1, <3>2, AnsweredStarts, Zenon
      <3>4. /\ DOMAIN pendings_' \subseteq DOMAIN pendings_
            /\ \A x \in DOMAIN pendings_' : pendings_'[x] = pendings_[x]
        BY <2>4, <3>1, ErasedIs, Zenon
      <3>5. Quiet
        BY <2>1, <2>2, <3>1, <3>3, <3>4, Zenon DEF Quiet
      <3> QED
        BY <3>5, QuietStep, Zenon
    <2>5. CASE ~(frame # Bad /\ id \in DOMAIN pendings_)
      <3>1. /\ outcome' = outcome /\ nextRequestId_' = nextRequestId_
            /\ pendings_' = pendings_ \/ pendings_' = <<>>
        BY <1>13, <2>3, <2>5, Zenon DEF OnMessage, failAllPending
      <3>2. Quiet
        BY <2>1, <2>2, <3>1, EmptiedIs, Zenon
      <3> QED
        BY <3>2, QuietStep, Zenon
    <2> QED
      BY <2>4, <2>5
  <1>14. CASE ServerMisbehaves \/ \E r \in requests : ServerAnswers(r)
    <2>1. SameCalls /\ UNCHANGED <<outcome, tableVars, timeoutVars>>
      BY <1>14, <1>c, OtherPosts, Zenon DEF ServerMisbehaves, ServerAnswers
    <2>2. Wire' \subseteq Wire
      BY <1>14, WireAfter, Zenon DEF ServerMisbehaves, ServerAnswers
    <2>3. Quiet
      BY <2>1, <2>2, EmptiedIs, Zenon
    <2> QED
      BY <2>3, QuietStep, Zenon
  <1>15. CASE UNCHANGED vars
    BY <1>15, <1>c, <1>u, OtherPosts, Zenon DEF vars
  <1> QED
    BY <1>1, <1>2, <1>3, <1>4, <1>5, <1>6, <1>7, <1>8, <1>9, <1>10, <1>11, <1>12, <1>13, <1>14,
       <1>15, Zenon
       DEF Next, LoopStep, UserStep, ServerStep, AttemptEnds

\* The ids are apart at first.
LEMMA IdsInit == Init => IdsInv
  <1> SUFFICES ASSUME Init PROVE IdsInv
    OBVIOUS
  <1>1. /\ outcome = [c \in Calls |-> New] /\ pendings_ = <<>> /\ timedOutIdSet_ = {}
        /\ requests = {} /\ replies = <<>> /\ nextRequestId_ \in Ids
    BY InvInit, Zenon DEF Init, Inv, TypesOK
  <1>2. Wire = {} /\ DOMAIN pendings_ = {}
    BY <1>1 DEF Wire, ToSet
  <1>3. Known = {} /\ RepliesMatch
    BY <1>1, <1>2 DEF Known, RepliesMatch
  <1>4. \A c \in Calls : outcome[c] = New
    BY <1>1
  <1>5. Started = {}
    BY <1>4, Zenon DEF Started
  <1>6. Cardinality(Started) = 0
    BY <1>5, FS_EmptySet
  <1>7. At(nextRequestId_, 0) = nextRequestId_
    BY <1>1, ClientAssumption DEF At, Ids
  <1>8. Counted(nextRequestId_, 0)
    BY <1>3, <1>6, <1>7 DEF Counted
  <1> QED
    BY <1>1, <1>3, <1>8 DEF IdsInv

\* A step of the client is a step of its promise, or leaves the calls alone.
LEMMA RefineStep ==
    ASSUME Inv, IdsInv, [Next]_vars
    PROVE  [Abstract!CallsNext]_outcome
  <1>s. ASSUME UNCHANGED outcome PROVE [Abstract!CallsNext]_outcome
    BY <1>s, Zenon
  <1>i. ASSUME NEW c \in Calls, outcome[c] = New,
               \E r \in Abstract!Failures \cup {Waiting} : outcome' = [outcome EXCEPT ![c] = r]
        PROVE  [Abstract!CallsNext]_outcome
    <2>1. Abstract!Issue(c) \/ Abstract!IssueRefused(c)
      BY <1>i, Zenon DEF Abstract!Issue, Abstract!IssueRefused, New, Waiting
    <2> QED
      BY <2>1, Zenon DEF Abstract!CallsNext
  <1>w. ASSUME NEW c \in Calls, outcome[c] = Waiting,
               NEW r \in Abstract!Failures \cup {Reply(c)}, Completed(c, r)
        PROVE  [Abstract!CallsNext]_outcome
    <2>1. Abstract!Complete(c)
      BY <1>w, Zenon DEF Abstract!Complete, Completed, Waiting, Reply
    <2> QED
      BY <2>1, Zenon DEF Abstract!CallsNext
  <1>f. <<"kTimeout">> \in Abstract!Failures /\ <<"kConnectionClosed">> \in Abstract!Failures
        /\ <<"kBadRequest">> \in Abstract!Failures
    BY DEF Abstract!Failures
  <1>c. \A c \in Calls : startCallInLoop(c) =>
            \E r \in Abstract!Failures \cup {Waiting} : outcome' = [outcome EXCEPT ![c] = r]
    BY <1>f, Zenon DEF startCallInLoop, Completed
  <1>1. ASSUME NEW c \in Calls, CompleteFailing(c) PROVE [Abstract!CallsNext]_outcome
    <2>1. outcome[c] = Waiting /\ Completed(c, <<"kConnectionClosed">>)
      BY <1>1, Zenon DEF CompleteFailing, Inv, PlacesOK
    <2> QED
      BY <1>f, <1>w, <2>1, Zenon
  <1>2. ASSUME NEW c \in Calls, AsyncCall(c) \/ AsyncCallOnLoop(c)
        PROVE  [Abstract!CallsNext]_outcome
    BY <1>2, <1>c, <1>i, Zenon DEF AsyncCall, AsyncCallOnLoop
  <1>3. CASE StartCall
    <2>1. posts \in Seq(Posts) /\ posts # <<>> /\ Head(posts)[1] = "call" /\ Unique(posts)
      BY <1>3, Zenon DEF StartCall, Runs, Inv, TypesOK, PlacesOK
    <2>2. Head(posts) \in Posts /\ Head(posts) \in ToSet(posts)
      BY <2>1, PostTaken
    <2>3. PICK c \in Calls : Head(posts) = <<"call", c>>
      BY <2>1, <2>2 DEF Posts
    <2>4. Posted(c) /\ Head(posts)[2] = c
      BY <2>2, <2>3 DEF Posted
    <2>5. outcome[c] = Waiting /\ startCallInLoop(c)
      BY <1>3, <2>4, Zenon DEF StartCall, Inv, PlacesOK
    <2>6. PICK r \in Abstract!Failures \cup {Waiting} : outcome' = [outcome EXCEPT ![c] = r]
      BY <1>c, <2>5, Zenon
    <2>7. CASE r = Waiting
      <3>1. outcome' = outcome
        BY <2>5, <2>6, <2>7 DEF Inv, TypesOK
      <3> QED
        BY <1>s, <3>1, Zenon
    <2>8. CASE r # Waiting
      <3>1. r \in Abstract!Failures /\ Completed(c, r)
        BY <2>6, <2>8, Zenon DEF Completed
      <3> QED
        BY <1>w, <2>5, <3>1, Zenon
    <2> QED
      BY <2>7, <2>8
  <1>4. ASSUME NEW id \in Ids, OnTimeout(id) PROVE [Abstract!CallsNext]_outcome
    <2>1. CASE id \in DOMAIN pendings_
      <3>1. Completed(pendings_[id], <<"kTimeout">>)
        BY <1>4, <2>1, Zenon DEF OnTimeout
      <3>2. pendings_[id] \in Calls /\ outcome[pendings_[id]] = Waiting
        BY <2>1, TableWaits, Zenon
      <3> QED
        BY <1>f, <1>w, <3>1, <3>2, Zenon
    <2>2. CASE id \notin DOMAIN pendings_
      BY <1>4, <1>s, <2>2, Zenon DEF OnTimeout
    <2> QED
      BY <2>1, <2>2
  <1>5. CASE OnMessage
    <2>1. PICK frame, id : frame = Head(replies) /\ id = frame[1]
      OBVIOUS
    <2>2. CASE frame # Bad /\ id \in DOMAIN pendings_
      <3>1. /\ Completed(pendings_[id], Reply(frame[2])) /\ replies # <<>>
            /\ replies' = Tail(replies) /\ requests' = requests
        BY <1>5, <2>1, <2>2, Zenon DEF OnMessage, wireVars
      <3>2. frame \in Wire
        BY <2>1, <2>2, <3>1, WireAfter, Zenon
      <3>3. pendings_[id] = frame[2]
        BY <2>1, <2>2, <3>2, Zenon DEF IdsInv, RepliesMatch
      <3>4. pendings_[id] \in Calls /\ outcome[pendings_[id]] = Waiting
        BY <2>2, TableWaits, Zenon
      <3> QED
        BY <1>w, <3>1, <3>3, <3>4, Zenon
    <2>3. CASE ~(frame # Bad /\ id \in DOMAIN pendings_)
      BY <1>5, <1>s, <2>1, <2>3, Zenon DEF OnMessage
    <2> QED
      BY <2>2, <2>3
  <1>6. CASE EndFailing \/ EndDestroy \/ StartInLoop \/ ForceCloseInLoop \/ PeerCloses
    BY <1>6, <1>s, Zenon DEF EndFailing, EndDestroy, StartInLoop, ForceCloseInLoop, PeerCloses
  <1>7. CASE DisconnectInLoop \/ DisconnectOnLoop \/ AttemptEnds \/ Connect \/ Disconnect \/ Destroy
    BY <1>7, <1>s, Zenon DEF DisconnectInLoop, DisconnectOnLoop, disconnectInLoop, AttemptEnds,
       AttemptSucceeds, AttemptFails, Connect, Disconnect, Destroy
  <1>8. CASE PeerClosesEarly \/ ServerMisbehaves \/ \E r \in requests : ServerAnswers(r)
    BY <1>8, <1>s, Zenon DEF PeerClosesEarly, ServerMisbehaves, ServerAnswers
  <1>9. CASE UNCHANGED vars
    BY <1>9, <1>s, Zenon DEF vars
  <1> QED
    BY <1>1, <1>2, <1>3, <1>4, <1>5, <1>6, <1>7, <1>8, <1>9, Zenon
       DEF Next, LoopStep, UserStep, ServerStep

\* A client that makes fewer calls than there are ids (2^32 in the code, 0 left out)
\* keeps the promise of RpcCalls: every call is answered at most once, by its own reply
\* or by a failure, in whatever order startCallInLoop(), onMessage(), onTimeout() and
\* failAllPending() come, and whatever the memory of timeouts has forgotten.
THEOREM ImplementsCalls == ASSUME FewCalls PROVE Spec => AnsweredOnce
  <1>1. Init => Abstract!CallsInit
    BY Zenon DEF Init, Abstract!CallsInit, New
  <1>2. Inv /\ IdsInv /\ [Next]_vars => IdsInv'
    BY IdsStep, Zenon
  <1>3. Inv /\ IdsInv /\ [Next]_vars => [Abstract!CallsNext]_outcome
    BY RefineStep, Zenon
  <1> QED
    BY <1>1, <1>2, <1>3, IdsInit, InvHolds, PTL DEF Spec, AnsweredOnce, Abstract!CallsSpec
==============================================================================
