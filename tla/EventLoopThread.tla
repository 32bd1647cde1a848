--------------------------- MODULE EventLoopThread ---------------------------
(***************************************************************************)
(* EventLoopThread: an owner starts a thread that constructs, publishes,   *)
(* runs and destroys an EventLoop, and later destroys the EventLoopThread, *)
(* which quits the loop and joins the thread.                              *)
(*                                                                         *)
(* The loop is the one of module EventLoop; the owner is one of its        *)
(* Threads, so the quit() in the destructor is that module's Quit followed *)
(* by Wakeup.                                                              *)
(***************************************************************************)
EXTENDS EventLoop

CONSTANT Owner
ASSUME OwnerAssumption == Owner \in Threads

VARIABLES
    owner,   \* where the owner is in startLoop() and ~EventLoopThread()
    thread,  \* where threadFunc() is
    loop_,   \* TRUE when the published pointer is not null
    alive,   \* TRUE while the EventLoop object exists
    mutex_   \* TRUE while the destructor holds mutex_

threadVars == <<owner, thread, loop_, alive, mutex_>>
allVars == <<vars, threadVars>>

ThreadInit ==
    /\ Init
    /\ owner = "new"
    /\ thread = "none"
    /\ loop_ = FALSE
    /\ alive = FALSE
    /\ mutex_ = FALSE

\* Mutated form of ThreadClears: the loop is destroyed without taking mutex_.
ThreadClearsUnlocked ==
    /\ thread = "loop"
    /\ pc = "returned"
    /\ loop_' = FALSE
    /\ alive' = FALSE
    /\ thread' = "exited"
    /\ UNCHANGED <<vars, owner, mutex_>>

\* Mutated form of DtorUnlocks: the destructor joins while it holds mutex_.
JoinsUnderLock ==
    /\ owner = "quitting"
    /\ caller[Owner] = "idle"
    /\ owner' = "joining"
    /\ UNCHANGED <<vars, thread, loop_, alive, mutex_>>

\* startLoop(): spawn the thread, then wait on cond_ for loop_ != nullptr.
StartLoop ==
    /\ owner = "new"
    /\ owner' = "waiting"
    /\ thread' = "spawned"
    /\ UNCHANGED <<vars, loop_, alive, mutex_>>

StartLoopReturns ==
    /\ owner = "waiting"
    /\ loop_
    /\ owner' = "started"
    /\ UNCHANGED <<vars, thread, loop_, alive, mutex_>>

\* threadFunc(): construct the loop, publish it under mutex_, enter loop().
ThreadPublishes ==
    /\ thread = "spawned"
    /\ ~mutex_
    /\ alive' = TRUE
    /\ loop_' = TRUE
    /\ thread' = "loop"
    /\ UNCHANGED <<vars, owner, mutex_>>

\* threadFunc() after loop(): null the pointer and destroy the loop under mutex_.
ThreadClears ==
    /\ thread = "loop"
    /\ pc = "returned"
    /\ ~mutex_
    /\ loop_' = FALSE
    /\ alive' = FALSE
    /\ thread' = "exited"
    /\ UNCHANGED <<vars, owner, mutex_>>

\* ~EventLoopThread(): take mutex_ ...
DtorLocks ==
    /\ owner \in {"new", "started"}
    /\ caller[Owner] = "idle"
    /\ ~mutex_
    /\ mutex_' = TRUE
    /\ owner' = "locked"
    /\ UNCHANGED <<vars, thread, loop_, alive>>

\* ... quit the loop if there is one (the flag now, the eventfd in OwnerWakes) ...
DtorQuits ==
    /\ owner = "locked"
    /\ owner' = "quitting"
    /\ IF loop_ THEN Quit(Owner) ELSE UNCHANGED vars
    /\ UNCHANGED <<thread, loop_, alive, mutex_>>

OwnerWakes == Wakeup(Owner) /\ UNCHANGED threadVars

\* ... release mutex_ ...
DtorUnlocks ==
    /\ owner = "quitting"
    /\ caller[Owner] = "idle"
    /\ mutex_' = FALSE
    /\ owner' = "joining"
    /\ UNCHANGED <<vars, thread, loop_, alive>>

\* ... and join the thread, if one was started.
DtorJoins ==
    /\ owner = "joining"
    /\ thread \in {"none", "exited"}
    /\ owner' = "joined"
    /\ UNCHANGED <<vars, thread, loop_, alive, mutex_>>

\* The loop's own steps.  Nobody can give this loop user code to run before
\* startLoop() has returned the pointer.
LoopRuns ==
    /\ thread = "loop"
    /\ LoopStep \/ (owner \notin {"new", "waiting"} /\ pc # "constructed" /\ UserStep)
    /\ UNCHANGED threadVars

\* Whoever got the pointer from startLoop() queues work while the loop exists.
OthersQueue ==
    /\ alive
    /\ \E t \in Threads :
           \/ owner = "started" /\ QueueInLoop(t)
           \/ t # Owner /\ Wakeup(t)
    /\ UNCHANGED threadVars

ThreadNext ==
    \/ StartLoop \/ StartLoopReturns \/ ThreadPublishes \/ ThreadClears
    \/ DtorLocks \/ DtorQuits \/ OwnerWakes \/ DtorUnlocks \/ DtorJoins
    \/ LoopRuns \/ OthersQueue

ThreadSpec == ThreadInit /\ [][ThreadNext]_allVars

\* Both threads keep running; the poll is only sure to return when woken.
ThreadFairness ==
    /\ WF_allVars(thread = "loop" /\ Progress /\ UNCHANGED threadVars)
    /\ WF_allVars(ThreadPublishes)
    /\ WF_allVars(ThreadClears)
    /\ WF_allVars(StartLoopReturns)
    /\ WF_allVars(DtorQuits)
    /\ WF_allVars(OwnerWakes)
    /\ WF_allVars(DtorUnlocks)
    /\ WF_allVars(DtorJoins)

FairThreadSpec == ThreadSpec /\ ThreadFairness

(***************************************************************************)
(* Properties                                                              *)
(***************************************************************************)

\* quit() in the destructor sets quit_ and writes wakeupFd_ of a loop that still
\* exists: threadFunc() cannot reach ~EventLoop() between the two.
QuitOnLiveLoop == (owner = "quitting" /\ caller[Owner] # "idle") => alive

\* Once the destructor's quit() reached a loop that had entered loop(), the
\* destructor's join() returns and the loop is gone.
DtorEndsRunningLoop ==
    (owner = "quitting" /\ quit_ /\ pc # "constructed")
        ~> (owner = "joined" /\ ~alive)

\* What ~EventLoopThread() needs of quit(), which "signals the loop to stop after
\* the current iteration": a destructor that has asked the loop to quit returns.
\* It fails when quit() lands between startLoop()'s return and loop()'s opening
\* quit_ = false.
DtorReturns == owner = "joining" ~> owner = "joined"
==============================================================================
