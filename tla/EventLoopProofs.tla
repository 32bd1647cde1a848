--------------------------- MODULE EventLoopProofs ---------------------------
(***************************************************************************)
(* Proofs about EventLoop and EventLoopThread, for any set of threads and  *)
(* any number of posts. An EventLoopThread drives its loop only in ways    *)
(* module EventLoop allows, so the theorems about the loop carry over, and *)
(* its destructor never touches a destroyed loop.                          *)
(***************************************************************************)
EXTENDS EventLoopThread, SequenceTheorems, TLAPS

(***************************************************************************)
(* Facts about sequences.                                                  *)
(***************************************************************************)

\* Pushing behind a queue is pushing behind everything in front of it too.
LEMMA PushBehind ==
    ASSUME NEW a \in Seq(Nat), NEW b \in Seq(Nat), NEW c \in Seq(Nat), NEW x \in Nat
    PROVE  a \o b \o Append(c, x) = Append(a \o b \o c, x)
  <1> DEFINE l == a \o b \o Append(c, x)
             r == Append(a \o b \o c, x)
  <1>1. /\ a \o b \in Seq(Nat)
        /\ a \o b \o c \in Seq(Nat)
    BY ConcatProperties
  <1>2. /\ l \in Seq(Nat)
        /\ r \in Seq(Nat)
        /\ Len(l) = Len(r)
    BY <1>1, ConcatProperties
  <1>3. \A i \in 1..Len(l) : l[i] = r[i]
    BY <1>1, <1>2, ConcatProperties
  <1> QED
    BY <1>2, <1>3, SeqEqual

\* Moving the head of one sequence to the end of another keeps their concatenation.
LEMMA MoveHead ==
    ASSUME NEW a \in Seq(Nat), NEW b \in Seq(Nat), b # <<>>
    PROVE  Append(a, Head(b)) \o Tail(b) = a \o b
  <1> DEFINE l == Append(a, Head(b)) \o Tail(b)
  <1>1. /\ Append(a, Head(b)) \in Seq(Nat)
        /\ Len(Append(a, Head(b))) = Len(a) + 1
        /\ Tail(b) \in Seq(Nat)
        /\ Len(Tail(b)) = Len(b) - 1
        /\ \A i \in 1..Len(Tail(b)) : Tail(b)[i] = b[i + 1]
    BY HeadTailProperties
  <1>2. /\ l \in Seq(Nat)
        /\ a \o b \in Seq(Nat)
        /\ Len(l) = Len(a \o b)
    BY <1>1, ConcatProperties
  <1>3. \A i \in 1..Len(l) : l[i] = (a \o b)[i]
    <2> TAKE i \in 1..Len(l)
    <2>1. l[i] = IF i <= Len(a) + 1 THEN Append(a, Head(b))[i]
                                    ELSE Tail(b)[i - (Len(a) + 1)]
      BY <1>1, <1>2, ConcatProperties
    <2>2. (a \o b)[i] = IF i <= Len(a) THEN a[i] ELSE b[i - Len(a)]
      BY <1>2, ConcatProperties
    <2> QED
      BY <1>1, <1>2, <2>1, <2>2
  <1> QED
    BY <1>2, <1>3, SeqEqual

\* The numbers 1..n followed by n + 1 are the numbers 1..n + 1.
LEMMA CountUp ==
    ASSUME NEW n \in Nat
    PROVE  Append([i \in 1..n |-> i], n + 1) = [i \in 1..n + 1 |-> i]
  OBVIOUS

(***************************************************************************)
(* Type correctness, in two halves: the flags and the rest.                *)
(***************************************************************************)
FlagsOK ==
    /\ quit_ \in BOOLEAN
    /\ wakeupFd_ \in BOOLEAN
    /\ callingPendingFunctors_ \in BOOLEAN
    /\ current \in BOOLEAN

DataOK ==
    /\ pc \in LoopStates
    /\ activeChannels_ \in SUBSET {"wakeup", "io"}
    /\ pendingFunctors_ \in Seq(Nat)
    /\ functors \in Seq(Nat)
    /\ caller \in [Threads -> CallerStates]
    /\ posted \in Nat
    /\ early \in SUBSET Nat
    /\ ran \in Seq(Nat)

\* A step of the loop, of user code on its thread, or of a caller leaves every
\* flag a Boolean.
LEMMA FlagsStep == FlagsOK /\ [Next]_vars => FlagsOK'
  <1> SUFFICES ASSUME FlagsOK, [Next]_vars PROVE FlagsOK'
    OBVIOUS
  <1> USE DEF FlagsOK, batchVars, postVars
  <1>1. CASE QueueInLoopOnLoop
    BY <1>1, Zenon DEF QueueInLoopOnLoop, WakesOwnLoop
  <1>2. CASE QuitOnLoop
    BY <1>2, Zenon DEF QuitOnLoop
  <1>3. ASSUME NEW t \in Threads, CallerStep(t) PROVE FlagsOK'
    BY <1>3, Zenon DEF CallerStep, QueueInLoop, Quit, Wakeup
  <1>4. CASE EnterLoop \/ TestQuit \/ Poll \/ HandleWakeup \/ HandleIo
    BY <1>4, Zenon DEF EnterLoop, TestQuit, Poll, PollReturns, HandleWakeup, HandleIo
  <1>5. CASE SwapPending \/ RunFunctor \/ FunctorReturns \/ EndPending
    BY <1>5, Zenon DEF SwapPending, RunFunctor, FunctorReturns, EndPending
  <1>6. CASE UNCHANGED vars
    BY <1>6, Zenon DEF vars
  <1> QED
    BY <1>1, <1>2, <1>3, <1>4, <1>5, <1>6 DEF Next, UserStep, LoopStep

\* The same for the program counters, the queues and the counters.
LEMMA DataStep == DataOK /\ [Next]_vars => DataOK'
  <1> SUFFICES ASSUME DataOK, [Next]_vars PROVE DataOK'
    OBVIOUS
  <1> USE DEF DataOK, LoopStates, CallerStates, batchVars, postVars
  <1>0. Push => /\ posted + 1 \in Nat
                /\ posted' \in Nat
                /\ pendingFunctors_' \in Seq(Nat)
    BY AppendProperties DEF Push
  <1>1. CASE UserStep
    <2>1. CASE QueueInLoopOnLoop
      BY <1>0, <2>1 DEF QueueInLoopOnLoop
    <2>2. CASE QuitOnLoop
      BY <2>2 DEF QuitOnLoop
    <2> QED
      BY <1>1, <2>1, <2>2 DEF UserStep
  <1>2. ASSUME NEW t \in Threads, CallerStep(t) PROVE DataOK'
    <2>1. CASE QueueInLoop(t)
      BY <1>0, <2>1 DEF QueueInLoop
    <2>2. CASE Quit(t) \/ Wakeup(t)
      BY <2>2 DEF Quit, Wakeup
    <2> QED
      BY <1>2, <2>1, <2>2 DEF CallerStep
  <1>3. CASE EnterLoop \/ TestQuit \/ HandleWakeup \/ HandleIo
    BY <1>3 DEF EnterLoop, TestQuit, HandleWakeup, HandleIo
  <1>4. CASE Poll
    BY <1>4 DEF Poll, PollReturns
  <1>5. CASE SwapPending
    BY <1>5 DEF SwapPending, SwappedIn
  <1>6. CASE RunFunctor
    <2>1. /\ Append(ran, Head(functors)) \in Seq(Nat)
          /\ Tail(functors) \in Seq(Nat)
      BY <1>6, HeadTailProperties DEF RunFunctor
    <2> QED
      BY <1>6, <2>1 DEF RunFunctor
  <1>7. CASE FunctorReturns \/ EndPending
    BY <1>7 DEF FunctorReturns, EndPending
  <1>8. CASE UNCHANGED vars
    BY <1>8 DEF vars
  <1> QED
    BY <1>1, <1>2, <1>3, <1>4, <1>5, <1>6, <1>7, <1>8 DEF Next, LoopStep

\* Every variable of the loop keeps its type, whatever the threads do.
THEOREM TypeCorrect == Spec => []TypeOK
  <1>1. Init => FlagsOK
    BY Zenon DEF Init, FlagsOK
  <1>2. Init => DataOK
    BY DEF Init, DataOK, LoopStates, CallerStates
  <1>3. FlagsOK /\ DataOK => TypeOK
    BY Zenon DEF FlagsOK, DataOK, TypeOK
  <1> QED
    BY <1>1, <1>2, <1>3, FlagsStep, DataStep, PTL DEF Spec
(***************************************************************************)
(* Push order                                                              *)
(***************************************************************************)

\* Outside doPendingFunctors() no batch is left over.
NoBatch == pc # "run" => functors = <<>>

\* Only the swap starts a batch, and the loop leaves it when it is used up.
LEMMA NoBatchStep == NoBatch /\ [Next]_vars => NoBatch'
  <1> SUFFICES ASSUME NoBatch, [Next]_vars PROVE NoBatch'
    OBVIOUS
  <1> USE DEF NoBatch, batchVars
  <1>1. CASE UserStep
    BY <1>1 DEF UserStep, QueueInLoopOnLoop, QuitOnLoop
  <1>2. ASSUME NEW t \in Threads, CallerStep(t) PROVE NoBatch'
    BY <1>2 DEF CallerStep, QueueInLoop, Quit, Wakeup
  <1>3. CASE LoopStep
    BY <1>3 DEF LoopStep, EnterLoop, TestQuit, Poll, PollReturns, HandleWakeup,
                HandleIo, SwapPending, RunFunctor, FunctorReturns, EndPending
  <1>4. CASE UNCHANGED vars
    BY <1>4 DEF vars
  <1> QED
    BY <1>1, <1>2, <1>3, <1>4 DEF Next

\* Only a push, the swap and the execution of a functor touch the queues; each
\* keeps them the functors pushed, in push order.
LEMMA PushOrderStep == DataOK /\ NoBatch /\ PushOrder /\ [Next]_vars => PushOrder'
  <1> SUFFICES ASSUME DataOK, NoBatch, PushOrder, [Next]_vars PROVE PushOrder'
    OBVIOUS
  <1> USE DEF PushOrder, DataOK, batchVars, postVars
  <1>1. ASSUME Push, UNCHANGED <<ran, functors>> PROVE PushOrder'
    <2>0. PICK n \in Nat : n = posted + 1
      OBVIOUS
    <2>1. ran \o functors \o Append(pendingFunctors_, n)
            = Append(ran \o functors \o pendingFunctors_, n)
      <3> HIDE DEF PushOrder
      <3> QED
        BY PushBehind
    <2>2. Append([i \in 1..posted |-> i], posted + 1) = [i \in 1..posted + 1 |-> i]
      BY CountUp
    <2> QED
      BY <1>1, <2>0, <2>1, <2>2 DEF Push
  <1>2. CASE UserStep
    BY <1>1, <1>2 DEF UserStep, QueueInLoopOnLoop, QuitOnLoop
  <1>3. ASSUME NEW t \in Threads, CallerStep(t) PROVE PushOrder'
    BY <1>1, <1>3 DEF CallerStep, QueueInLoop, Quit, Wakeup
  <1>4. CASE SwapPending
    <2>1. /\ functors = <<>>
          /\ functors' = pendingFunctors_
          /\ pendingFunctors_' = <<>>
          /\ UNCHANGED <<ran, posted>>
      BY <1>4 DEF SwapPending, SwappedIn, NoBatch
    <2>2. ran \o pendingFunctors_ \in Seq(Nat)
      BY ConcatProperties
    <2>3. /\ ran \o <<>> = ran
          /\ (ran \o pendingFunctors_) \o <<>> = ran \o pendingFunctors_
      BY <2>2, ConcatEmptySeq
    <2> QED
      BY <2>1, <2>3
  <1>5. CASE RunFunctor
    <2>1. Append(ran, Head(functors)) \o Tail(functors) = ran \o functors
      BY <1>5, MoveHead DEF RunFunctor
    <2> QED
      BY <1>5, <2>1 DEF RunFunctor
  <1>6. CASE EnterLoop \/ TestQuit \/ Poll \/ HandleWakeup \/ HandleIo
             \/ FunctorReturns \/ EndPending
    BY <1>6 DEF EnterLoop, TestQuit, Poll, PollReturns, HandleWakeup, HandleIo,
                FunctorReturns, EndPending
  <1>7. CASE UNCHANGED vars
    BY <1>7 DEF vars
  <1> QED
    BY <1>2, <1>3, <1>4, <1>5, <1>6, <1>7 DEF Next, LoopStep

\* queueInLoop() and doPendingFunctors() lose, repeat and reorder no functor, for
\* any number of threads, pushes and loop iterations.
THEOREM FunctorsRunInPushOrder == Spec => []PushOrder
  <1>1. Init => DataOK
    BY DEF Init, DataOK, LoopStates, CallerStates
  <1>2. Init => NoBatch
    BY DEF Init, NoBatch
  <1>3. Init => PushOrder
    BY ConcatEmptySeq DEF Init, PushOrder
  <1> QED
    BY <1>1, <1>2, <1>3, DataStep, NoBatchStep, PushOrderStep, PTL DEF Spec
(***************************************************************************)
(* Wakeups                                                                 *)
(***************************************************************************)

\* Appending adds one element to a sequence's range.
LEMMA RangeOfAppend ==
    ASSUME NEW s \in Seq(Nat), NEW x \in Nat
    PROVE  RangeOf(Append(s, x)) = RangeOf(s) \cup {x}
  BY AppendProperties DEF RangeOf

\* The empty sequence has none.
LEMMA RangeOfEmpty == RangeOf(<<>>) = {}
  BY DEF RangeOf

\* The inductive strengthening of NoLostWakeup: what it says of a poll holds
\* wherever the loop thread is on its way to one without passing through the swap,
\* and callingPendingFunctors_ is set exactly while functors run.
RunFlag == pc = "run" <=> callingPendingFunctors_
Announced ==
    pc \in {"constructed", "test", "poll", "run"} =>
        RangeOf(pendingFunctors_) \subseteq early \/ WakeupComing
QuitAnnounced == (pc = "poll" /\ quit_) => WakeupComing

\* doPendingFunctors() keeps its flag in step with the loop's progress.
LEMMA RunFlagStep == RunFlag /\ [Next]_vars => RunFlag'
  <1> SUFFICES ASSUME RunFlag, [Next]_vars PROVE RunFlag'
    OBVIOUS
  <1> USE DEF RunFlag, batchVars
  <1>1. CASE UserStep
    BY <1>1, Zenon DEF UserStep, QueueInLoopOnLoop, QuitOnLoop
  <1>2. ASSUME NEW t \in Threads, CallerStep(t) PROVE RunFlag'
    BY <1>2, Zenon DEF CallerStep, QueueInLoop, Quit, Wakeup
  <1>3. CASE EnterLoop \/ TestQuit \/ Poll \/ HandleWakeup \/ HandleIo
    BY <1>3, Zenon DEF EnterLoop, TestQuit, Poll, PollReturns, HandleWakeup, HandleIo
  <1>4. CASE SwapPending \/ RunFunctor \/ FunctorReturns \/ EndPending
    BY <1>4, Zenon DEF SwapPending, RunFunctor, FunctorReturns, EndPending
  <1>5. CASE UNCHANGED vars
    BY <1>5, Zenon DEF vars
  <1> QED
    BY <1>1, <1>2, <1>3, <1>4, <1>5 DEF Next, LoopStep

\* A push by another thread is followed by that thread's wakeup; a push by the
\* loop thread is either early, or woken because functors are running, or made
\* where the swap still comes before the next poll.
LEMMA AnnouncedStep == DataOK /\ RunFlag /\ Announced /\ [Next]_vars => Announced'
  <1> SUFFICES ASSUME DataOK, RunFlag, Announced, [Next]_vars PROVE Announced'
    OBVIOUS
  <1> USE DEF Announced, batchVars, postVars
  <1>1. CASE QueueInLoopOnLoop
    <2>1. CASE pc = "constructed"
      <3>1. RangeOf(pendingFunctors_') = RangeOf(pendingFunctors_) \cup {posted + 1}
        BY <1>1, RangeOfAppend DEF QueueInLoopOnLoop, Push, DataOK
      <3>2. early' = early \cup {posted + 1} /\ caller' = caller
        BY <1>1, <2>1 DEF QueueInLoopOnLoop
      <3>3. WakeupComing => WakeupComing'
        BY <1>1, Zenon DEF QueueInLoopOnLoop, WakeupComing
      <3> QED
        BY <2>1, <3>1, <3>2, <3>3, Zenon
    <2>2. CASE pc = "run"
      BY <1>1, <2>2, Zenon DEF QueueInLoopOnLoop, WakesOwnLoop, RunFlag, WakeupComing
    <2>3. CASE pc = "events"
      BY <1>1, <2>3 DEF QueueInLoopOnLoop
    <2> QED
      BY <1>1, <2>1, <2>2, <2>3, Zenon DEF QueueInLoopOnLoop, InUserCode
  <1>2. CASE QuitOnLoop
    BY <1>2, Zenon DEF QuitOnLoop, WakeupComing
  <1>3. ASSUME NEW t \in Threads, CallerStep(t) PROVE Announced'
    <2>1. CASE QueueInLoop(t)
      <3>1. caller'[t] = "pushed"
        BY <2>1 DEF QueueInLoop, DataOK
      <3> QED
        BY <3>1, Zenon DEF WakeupComing
    <2>2. CASE Quit(t)
      <3>1. caller'[t] = "quitSet"
        BY <2>2 DEF Quit, DataOK
      <3> QED
        BY <3>1, Zenon DEF WakeupComing
    <2>3. CASE Wakeup(t)
      BY <2>3, Zenon DEF Wakeup, WakeupComing
    <2> QED
      BY <1>3, <2>1, <2>2, <2>3 DEF CallerStep
  <1>4. CASE EnterLoop \/ TestQuit \/ Poll \/ FunctorReturns
    BY <1>4, Zenon DEF EnterLoop, TestQuit, Poll, PollReturns, FunctorReturns, WakeupComing
  <1>5. CASE HandleWakeup \/ HandleIo
    BY <1>5, Zenon DEF HandleWakeup, HandleIo
  <1>6. CASE SwapPending
    BY <1>6, RangeOfEmpty, Zenon DEF SwapPending, SwappedIn
  <1>7. CASE RunFunctor \/ EndPending
    BY <1>7, Zenon DEF RunFunctor, EndPending, WakeupComing
  <1>8. CASE UNCHANGED vars
    BY <1>8, Zenon DEF vars, WakeupComing
  <1> QED
    BY <1>1, <1>2, <1>3, <1>4, <1>5, <1>6, <1>7, <1>8 DEF Next, UserStep, LoopStep

\* The loop enters poll() with quit_ clear, and whoever raises it meanwhile wakes.
LEMMA QuitAnnouncedStep == DataOK /\ QuitAnnounced /\ [Next]_vars => QuitAnnounced'
  <1> SUFFICES ASSUME DataOK, QuitAnnounced, [Next]_vars PROVE QuitAnnounced'
    OBVIOUS
  <1> USE DEF QuitAnnounced, batchVars, postVars
  <1>1. CASE UserStep
    BY <1>1, Zenon DEF UserStep, QueueInLoopOnLoop, QuitOnLoop, InUserCode, WakeupComing
  <1>2. ASSUME NEW t \in Threads, CallerStep(t) PROVE QuitAnnounced'
    <2>1. CASE QueueInLoop(t) \/ Quit(t)
      <3>1. caller'[t] # "idle"
        BY <2>1 DEF QueueInLoop, Quit, DataOK
      <3> QED
        BY <3>1, Zenon DEF WakeupComing
    <2>2. CASE Wakeup(t)
      BY <2>2, Zenon DEF Wakeup, WakeupComing
    <2> QED
      BY <1>2, <2>1, <2>2 DEF CallerStep
  <1>3. CASE LoopStep
    BY <1>3, Zenon DEF LoopStep, EnterLoop, TestQuit, Poll, PollReturns, HandleWakeup,
                HandleIo, SwapPending, RunFunctor, FunctorReturns, EndPending
  <1>4. CASE UNCHANGED vars
    BY <1>4, Zenon DEF vars, WakeupComing
  <1> QED
    BY <1>1, <1>2, <1>3, <1>4 DEF Next

\* The loop never blocks in poll() with queued work or a quit request that nobody
\* is going to wake it for, for any number of threads and pushes.
THEOREM WakeupsAreNotLost == Spec => []NoLostWakeup
  <1>1. Init => DataOK
    BY DEF Init, DataOK, LoopStates, CallerStates
  <1>2. Init => RunFlag /\ QuitAnnounced
    BY Zenon DEF Init, RunFlag, QuitAnnounced
  <1>3. Init => Announced
    BY RangeOfEmpty, Zenon DEF Init, Announced
  <1>4. Announced /\ QuitAnnounced => NoLostWakeup
    BY Zenon DEF Announced, QuitAnnounced, NoLostWakeup
  <1> QED
    BY <1>1, <1>2, <1>3, <1>4, DataStep, RunFlagStep, AnnouncedStep,
       QuitAnnouncedStep, PTL DEF Spec

(***************************************************************************)
(* The loop inside an EventLoopThread is an EventLoop.                     *)
(***************************************************************************)

\* A step of the owner, of threadFunc() or of a caller is a step of the loop or leaves
\* it alone.
LEMMA ThreadStep == [ThreadNext]_allVars => [Next]_vars
  <1> SUFFICES ASSUME [ThreadNext]_allVars PROVE [Next]_vars
    OBVIOUS
  <1>1. CASE StartLoop \/ StartLoopReturns \/ ThreadPublishes \/ ThreadClears
    BY <1>1 DEF StartLoop, StartLoopReturns, ThreadPublishes, ThreadClears
  <1>2. CASE DtorLocks \/ DtorUnlocks \/ DtorJoins
    BY <1>2 DEF DtorLocks, DtorUnlocks, DtorJoins
  <1>3. CASE DtorQuits
    <2>1. Quit(Owner) \/ UNCHANGED vars
      BY <1>3 DEF DtorQuits
    <2> QED
      BY <2>1, OwnerAssumption DEF Next, CallerStep
  <1>4. CASE OwnerWakes
    BY <1>4, OwnerAssumption DEF OwnerWakes, Next, CallerStep
  <1>5. CASE LoopRuns
    BY <1>5 DEF LoopRuns, Next
  <1>6. CASE OthersQueue
    BY <1>6 DEF OthersQueue, Next, CallerStep
  <1>7. CASE UNCHANGED allVars
    BY <1>7 DEF allVars
  <1> QED
    BY <1>1, <1>2, <1>3, <1>4, <1>5, <1>6, <1>7 DEF ThreadNext

\* EventLoopThread implements the specification of EventLoop: what startLoop(),
\* threadFunc() and the destructor do to the loop is among the calls and steps that
\* module EventLoop describes.
THEOREM ThreadImplementsLoop == ThreadSpec => Spec
  <1>1. ThreadInit => Init
    BY DEF ThreadInit
  <1> QED
    BY <1>1, ThreadStep, PTL DEF ThreadSpec, Spec

\* No wakeup of the loop in an EventLoopThread is lost, the one of the destructor's quit()
\* included, and its functors run once and in push order.
THEOREM ThreadLosesNothing == ThreadSpec => [](NoLostWakeup /\ PushOrder)
  BY ThreadImplementsLoop, WakeupsAreNotLost, FunctorsRunInPushOrder, PTL

(***************************************************************************)
(* The destructor.  mutex_ is held from its first look at loop_ until its  *)
(* quit() is over, and threadFunc() needs mutex_ to destroy the loop.      *)
(***************************************************************************)
DtorInv ==
    /\ owner \in {"locked", "quitting"} => mutex_
    /\ owner = "locked" => caller[Owner] = "idle"
    /\ loop_ => alive
    /\ QuitOnLiveLoop

\* Every step of the owner, of threadFunc() and of the callers keeps the lock discipline.
LEMMA DtorStep == TypeOK /\ DtorInv /\ [ThreadNext]_allVars => DtorInv'
  <1> SUFFICES ASSUME TypeOK, DtorInv, [ThreadNext]_allVars PROVE DtorInv'
    OBVIOUS
  <1> USE DEF DtorInv, QuitOnLiveLoop
  <1>0. UNCHANGED vars => UNCHANGED caller
    BY DEF vars
  <1>1. CASE StartLoop
    BY <1>0, <1>1, Zenon DEF StartLoop
  <1>2. CASE StartLoopReturns
    BY <1>0, <1>2, Zenon DEF StartLoopReturns
  <1>3. CASE ThreadPublishes
    BY <1>0, <1>3, Zenon DEF ThreadPublishes
  <1>4. CASE ThreadClears
    BY <1>0, <1>4, Zenon DEF ThreadClears
  <1>5. CASE DtorLocks
    BY <1>0, <1>5, Zenon DEF DtorLocks
  <1>6. CASE DtorQuits
    BY <1>0, <1>6, Zenon DEF DtorQuits
  <1>7. CASE OwnerWakes
    <2>1. caller'[Owner] = "idle"
      BY <1>7, OwnerAssumption DEF OwnerWakes, Wakeup, TypeOK
    <2> QED
      BY <1>7, <2>1, Zenon DEF OwnerWakes, threadVars
  <1>8. CASE DtorUnlocks
    BY <1>0, <1>8, Zenon DEF DtorUnlocks
  <1>9. CASE DtorJoins
    BY <1>0, <1>9, Zenon DEF DtorJoins
  <1>10. CASE LoopRuns
    <2>1. UNCHANGED caller
      BY <1>10 DEF LoopRuns, UserStep, QueueInLoopOnLoop, QuitOnLoop, LoopStep, EnterLoop,
                  TestQuit, Poll, PollReturns, HandleWakeup, HandleIo, SwapPending,
                  RunFunctor, FunctorReturns, EndPending
    <2> QED
      BY <1>10, <2>1, Zenon DEF LoopRuns, threadVars
  <1>11. CASE OthersQueue
    <2>1. owner # "started" => caller'[Owner] = caller[Owner]
      BY <1>11, OwnerAssumption DEF OthersQueue, Wakeup, TypeOK
    <2> QED
      BY <1>11, <2>1, Zenon DEF OthersQueue, threadVars
  <1>12. CASE UNCHANGED allVars
    BY <1>0, <1>12, Zenon DEF allVars, threadVars
  <1> QED
    BY <1>1, <1>2, <1>3, <1>4, <1>5, <1>6, <1>7, <1>8, <1>9, <1>10, <1>11, <1>12
       DEF ThreadNext

\* The quit() of ~EventLoopThread() sets the flag and writes the eventfd of a loop that
\* still exists, whatever threadFunc() and the other threads do meanwhile.
THEOREM DtorQuitsLiveLoop == ThreadSpec => []QuitOnLiveLoop
  <1>1. ThreadInit => DtorInv
    BY Zenon DEF ThreadInit, DtorInv, QuitOnLiveLoop
  <1>2. DtorInv => QuitOnLiveLoop
    BY DEF DtorInv
  <1> QED
    BY <1>1, <1>2, DtorStep, ThreadImplementsLoop, TypeCorrect, PTL DEF ThreadSpec
==============================================================================
