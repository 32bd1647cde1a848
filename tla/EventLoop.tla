------------------------------ MODULE EventLoop ------------------------------
(***************************************************************************)
(* The reactor's EventLoop: one loop thread that polls, handles the active *)
(* channels and runs the functors other threads queued for it.             *)
(*                                                                         *)
(* A functor is named by the order in which it was pushed under mutex_     *)
(* (1, 2, ...).  The eventfd counter is abstracted to "readable or not":   *)
(* the loop never looks at its value.  activeChannels_ is abstracted to    *)
(* whether the wakeup channel, some other channel ("io"), or both are      *)
(* active; what an io handler does is queue work or quit the loop.         *)
(***************************************************************************)
EXTENDS Naturals, Sequences

CONSTANTS Threads,   \* threads other than the loop thread
          MaxPosts   \* bound on the number of queueInLoop() calls

ASSUME MaxPostsAssumption == MaxPosts \in Nat

VARIABLES
    pc,                      \* where the loop thread is
    quit_,                   \* the atomic flag quit() sets
    wakeupFd_,               \* TRUE when the eventfd is readable
    activeChannels_,         \* what the last poll() reported and is unhandled
    pendingFunctors_,        \* the queue guarded by mutex_
    callingPendingFunctors_, \* loop-thread flag
    functors,                \* the batch doPendingFunctors() swapped out
    current,                 \* TRUE while a functor of the batch is executing
    caller,                  \* where each other thread is in quit()/queueInLoop()
    posted,                  \* how many functors were ever pushed
    early,                   \* those pushed by the loop thread before loop()
    ran                      \* the functors executed so far, in order

batchVars == <<callingPendingFunctors_, functors, current, ran>>
postVars == <<posted, early>>
vars == <<pc, quit_, wakeupFd_, activeChannels_, pendingFunctors_, caller,
          batchVars, postVars>>

LoopStates == {"constructed", "test", "poll", "events", "run", "returned"}
CallerStates == {"idle", "pushed", "quitSet"}

TypeOK ==
    /\ pc \in LoopStates
    /\ quit_ \in BOOLEAN
    /\ wakeupFd_ \in BOOLEAN
    /\ activeChannels_ \in SUBSET {"wakeup", "io"}
    /\ pendingFunctors_ \in Seq(Nat)
    /\ callingPendingFunctors_ \in BOOLEAN
    /\ functors \in Seq(Nat)
    /\ current \in BOOLEAN
    /\ caller \in [Threads -> CallerStates]
    /\ posted \in Nat
    /\ early \in SUBSET Nat
    /\ ran \in Seq(Nat)

Init ==
    /\ pc = "constructed"
    /\ quit_ = FALSE
    /\ wakeupFd_ = FALSE
    /\ activeChannels_ = {}
    /\ pendingFunctors_ = <<>>
    /\ callingPendingFunctors_ = FALSE
    /\ functors = <<>>
    /\ current = FALSE
    /\ caller = [t \in Threads |-> "idle"]
    /\ posted = 0
    /\ early = {}
    /\ ran = <<>>

(***************************************************************************)
(* Mutated forms of definitions below: each is a bug this code could have, *)
(* and shows that some property notices it.                                *)
(***************************************************************************)

\* queueInLoop() on the loop thread never wakes the loop.
NeverWakes == FALSE

\* doPendingFunctors() copies the queue instead of swapping it out.
SwapKeepsQueue == pendingFunctors_

\* The eventfd write is forgotten.
WakeupForgotten(t) ==
    /\ caller[t] \in {"pushed", "quitSet"}
    /\ caller' = [caller EXCEPT ![t] = "idle"]
    /\ UNCHANGED <<pc, quit_, wakeupFd_, activeChannels_, pendingFunctors_,
                   batchVars, postVars>>

\* quit() forgets to wake the loop.
QuitWithoutWakeup(t) ==
    /\ caller[t] = "idle"
    /\ quit_' = TRUE
    /\ UNCHANGED <<pc, wakeupFd_, activeChannels_, pendingFunctors_, caller,
                   batchVars, postVars>>

(***************************************************************************)
(* Calls from the other threads.                                           *)
(***************************************************************************)

\* The critical section of queueInLoop(): pendingFunctors_.push_back().
Push ==
    /\ posted < MaxPosts
    /\ posted' = posted + 1
    /\ pendingFunctors_' = Append(pendingFunctors_, posted + 1)

\* runInLoop() from another thread is queueInLoop(): push, then wake the loop.
QueueInLoop(t) ==
    /\ caller[t] = "idle"
    /\ Push
    /\ caller' = [caller EXCEPT ![t] = "pushed"]
    /\ UNCHANGED <<pc, quit_, wakeupFd_, activeChannels_, batchVars, early>>

\* quit(): raise the flag, then wake the loop.
Quit(t) ==
    /\ caller[t] = "idle"
    /\ quit_' = TRUE
    /\ caller' = [caller EXCEPT ![t] = "quitSet"]
    /\ UNCHANGED <<pc, wakeupFd_, activeChannels_, pendingFunctors_,
                   batchVars, postVars>>

\* wakeup(): the eventfd write both calls end with.
Wakeup(t) ==
    /\ caller[t] \in {"pushed", "quitSet"}
    /\ wakeupFd_' = TRUE
    /\ caller' = [caller EXCEPT ![t] = "idle"]
    /\ UNCHANGED <<pc, quit_, activeChannels_, pendingFunctors_, batchVars,
                   postVars>>

(***************************************************************************)
(* Calls made on the loop thread: before loop(), from an io handler, or    *)
(* from a running functor.                                                 *)
(***************************************************************************)
InUserCode == \/ pc = "constructed"
              \/ pc = "events" /\ "io" \in activeChannels_
              \/ pc = "run" /\ current

\* queueInLoop() on the loop thread wakes the loop only while functors run.
WakesOwnLoop == callingPendingFunctors_

QueueInLoopOnLoop ==
    /\ InUserCode
    /\ Push
    /\ wakeupFd_' = (wakeupFd_ \/ WakesOwnLoop)
    /\ early' = IF pc = "constructed" THEN early \cup {posted + 1} ELSE early
    /\ UNCHANGED <<pc, quit_, activeChannels_, caller, batchVars>>

\* quit() on the loop thread writes no wakeup: the loop tests quit_ itself.
QuitOnLoop ==
    /\ InUserCode
    /\ quit_' = TRUE
    /\ UNCHANGED <<pc, wakeupFd_, activeChannels_, pendingFunctors_, caller,
                   batchVars, postVars>>

(***************************************************************************)
(* loop()                                                                  *)
(***************************************************************************)

\* Entering loop() clears quit_, whatever was requested before.
EnterLoop ==
    /\ pc = "constructed"
    /\ pc' = "test"
    /\ quit_' = FALSE
    /\ UNCHANGED <<wakeupFd_, activeChannels_, pendingFunctors_, caller,
                   batchVars, postVars>>

TestQuit ==
    /\ pc = "test"
    /\ pc' = IF quit_ THEN "returned" ELSE "poll"
    /\ UNCHANGED <<quit_, wakeupFd_, activeChannels_, pendingFunctors_,
                   caller, batchVars, postVars>>

\* poll() reports a subset of the ready channels (the event array may be too
\* short for all of them); none at all when the 10 s timeout expires
\* or a signal interrupts it.
PollReturns(active) ==
    /\ pc = "poll"
    /\ "wakeup" \in active => wakeupFd_
    /\ activeChannels_' = active
    /\ pc' = "events"
    /\ UNCHANGED <<quit_, wakeupFd_, pendingFunctors_, caller, batchVars,
                   postVars>>

Poll == \E active \in SUBSET {"wakeup", "io"} : PollReturns(active)

\* handleWakeup(): the read that drains the eventfd.
HandleWakeup ==
    /\ pc = "events"
    /\ "wakeup" \in activeChannels_
    /\ wakeupFd_' = FALSE
    /\ activeChannels_' = activeChannels_ \ {"wakeup"}
    /\ UNCHANGED <<pc, quit_, pendingFunctors_, caller, batchVars, postVars>>

\* The remaining handlers return.
HandleIo ==
    /\ pc = "events"
    /\ "io" \in activeChannels_
    /\ activeChannels_' = activeChannels_ \ {"io"}
    /\ UNCHANGED <<pc, quit_, wakeupFd_, pendingFunctors_, caller, batchVars,
                   postVars>>

\* What the swap leaves in pendingFunctors_: the empty local vector.
SwappedIn == <<>>

\* doPendingFunctors(): flag, then swap the queue out under mutex_.  The flag is
\* only read on this thread, so the two assignments are one step.
SwapPending ==
    /\ pc = "events"
    /\ activeChannels_ = {}
    /\ callingPendingFunctors_' = TRUE
    /\ functors' = pendingFunctors_
    /\ pendingFunctors_' = SwappedIn
    /\ pc' = "run"
    /\ UNCHANGED <<quit_, wakeupFd_, activeChannels_, caller, current, ran,
                   postVars>>

RunFunctor ==
    /\ pc = "run"
    /\ ~current
    /\ functors # <<>>
    /\ ran' = Append(ran, Head(functors))
    /\ functors' = Tail(functors)
    /\ current' = TRUE
    /\ UNCHANGED <<pc, quit_, wakeupFd_, activeChannels_, pendingFunctors_,
                   caller, callingPendingFunctors_, postVars>>

FunctorReturns ==
    /\ pc = "run"
    /\ current
    /\ current' = FALSE
    /\ UNCHANGED <<pc, quit_, wakeupFd_, activeChannels_, pendingFunctors_,
                   caller, callingPendingFunctors_, functors, ran, postVars>>

EndPending ==
    /\ pc = "run"
    /\ ~current
    /\ functors = <<>>
    /\ callingPendingFunctors_' = FALSE
    /\ pc' = "test"
    /\ UNCHANGED <<quit_, wakeupFd_, activeChannels_, pendingFunctors_,
                   caller, functors, current, ran, postVars>>

CallerStep(t) == QueueInLoop(t) \/ Quit(t) \/ Wakeup(t)
UserStep == QueueInLoopOnLoop \/ QuitOnLoop
LoopStep ==
    \/ EnterLoop \/ TestQuit \/ Poll \/ HandleWakeup \/ HandleIo
    \/ SwapPending \/ RunFunctor \/ FunctorReturns \/ EndPending

Next == UserStep \/ LoopStep \/ \E t \in Threads : CallerStep(t)

Spec == Init /\ [][Next]_vars

(***************************************************************************)
(* Fairness.  A thread inside a call finishes it.  The loop thread keeps   *)
(* running, but a poll is only sure to return when the eventfd is          *)
(* readable: neither io nor the 10 s timeout is relied on.                 *)
(***************************************************************************)
PollWoken == wakeupFd_ /\ Poll

Progress ==
    \/ EnterLoop \/ TestQuit \/ PollWoken \/ HandleWakeup \/ HandleIo
    \/ SwapPending \/ RunFunctor \/ FunctorReturns \/ EndPending

Fairness == WF_vars(Progress) /\ \A t \in Threads : WF_vars(Wakeup(t))

FairSpec == Spec /\ Fairness

(***************************************************************************)
(* Properties                                                              *)
(***************************************************************************)
RangeOf(s) == {s[i] : i \in 1..Len(s)}

\* No wakeup is lost: while the loop is in, or about to enter, a blocking poll,
\* work queued for it (other than by its own thread before loop()) and a request
\* to quit leave the eventfd readable, or a thread that is about to write it.
\* This is what the order "push, then wake" in queueInLoop(), "flag, then wake" in
\* quit() and "drain, then swap" in loop() is for.
WakeupComing == wakeupFd_ \/ \E t \in Threads : caller[t] # "idle"

NoLostWakeup ==
    pc = "poll" =>
        /\ RangeOf(pendingFunctors_) \subseteq early \/ WakeupComing
        /\ quit_ => WakeupComing

\* The functors executed, then the rest of the batch being executed, then the
\* queue, are exactly the functors pushed, in push order: queueInLoop() and
\* doPendingFunctors() neither lose, repeat nor reorder a functor, whoever pushes
\* while a batch runs.
PushOrder == ran \o functors \o pendingFunctors_ = [i \in 1..posted |-> i]

\* A functor queued for the loop is run, or the loop has been quit, without the
\* help of io events or of the poll timeout.
EventuallyRuns ==
    \A n \in 1..MaxPosts :
        (n <= posted /\ n \notin early) ~> (n \in RangeOf(ran) \/ pc = "returned")

\* A quit() that arrives after loop() was entered ends the loop, even one that is
\* blocked in poll().
QuitEndsLoop == (quit_ /\ pc # "constructed") ~> pc = "returned"
==============================================================================
