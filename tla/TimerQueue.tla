----------------------------- MODULE TimerQueue -----------------------------
(***************************************************************************)
(* TimerQueue of one EventLoop: the heap of Timers behind one timerfd, the *)
(* batch of expired timers whose callbacks run, and the insertions and     *)
(* cancellations other threads post to the loop.                           *)
(*                                                                         *)
(* Timers live at addresses that the allocator reuses.  Time is relative:  *)
(* an expiration and the timerfd count down with every tick (one tick is   *)
(* the 100 us howMuchTimeFromNow() rounds up to) and stay at 0 once due,   *)
(* so the order of overdue timers is left open.  The vector heap is a set  *)
(* of which the code only looks at a minimal element.                      *)
(***************************************************************************)
EXTENDS Naturals, Sequences, FiniteSets, Functions, FiniteSetsExt

CONSTANTS Threads,     \* threads other than the loop thread
          Loop,        \* the loop thread
          Addrs,       \* addresses the allocator can return
          MaxTimers,   \* bound on the number of addTimer() calls
          MaxDelay,    \* longest delay asked for, in ticks
          Interval,    \* interval of repeating timers, in ticks
          MaxPending   \* bound on the posts user code has outstanding

ASSUME TimerAssumption ==
    /\ Loop \notin Threads
    /\ IsFiniteSet(Addrs)
    /\ MaxTimers \in Nat /\ MaxDelay \in Nat /\ MaxPending \in Nat
    /\ Interval \in 0..MaxDelay

Creators == Threads \cup {Loop}
Off == MaxDelay + 2   \* the timerfd is disarmed

VARIABLES
    obj,              \* the constructed Timers, by address
    s_numCreated_,    \* the counter sequence numbers come from
    creating,         \* threads between the read and the write of that counter
    handles,          \* the TimerIds addTimer() returned so far
    timers_,          \* addresses in the heap
    activeTimers_,    \* the set of <<address, sequence>> used by cancel()
    expired,          \* the batch of handleRead(), by address
    next,             \* how many callbacks of the batch have been called
    expiredTimers_,   \* the batch, by handle
    cancelingTimers_, \* handles cancelled from inside the batch
    elapsed,          \* ticks since handleRead() read the clock
    timerfd_,         \* ticks until the timerfd is readable, or Off
    pc,               \* where the loop thread is
    timerActive,      \* the poll reported the timerfd, not yet handled
    pendingFunctors_, \* posts to the loop
    functors,         \* the posts being executed
    cancelled,        \* timers cancel() was called for
    runs              \* how often each timer ran: 0, 1, or 2 for more

heapVars == <<timers_, activeTimers_, timerfd_>>
batchVars == <<expired, next, expiredTimers_, elapsed>>
createVars == <<s_numCreated_, creating, handles>>
loopVars == <<pc, timerActive, functors>>
vars == <<obj, createVars, heapVars, batchVars, cancelingTimers_, loopVars,
          pendingFunctors_, cancelled, runs>>

Timer == [seq : Nat, uid : 1..MaxTimers, when : 0..MaxDelay, repeat : BOOLEAN]
Handle == [addr : Addrs, seq : Nat, uid : 1..MaxTimers]
Functor == [op : {"insert"}, addr : Addrs]
              \cup [op : {"cancel"}, id : Handle, retry : BOOLEAN]

Id(a) == <<a, obj[a].seq>>
callingExpiredTimers_ == pc = "batch"

TypeOK ==
    /\ DOMAIN obj \subseteq Addrs /\ Range(obj) \subseteq Timer
    /\ s_numCreated_ \in 0..MaxTimers
    /\ DOMAIN creating \subseteq Creators
    /\ Range(creating) \subseteq [addr : Addrs, count : Nat]
    /\ handles \subseteq Handle
    /\ timers_ \subseteq Addrs
    /\ activeTimers_ \subseteq Addrs \X Nat
    /\ expired \in Seq(Addrs)
    /\ next \in 0..Len(expired)
    /\ expiredTimers_ \subseteq Addrs \X Nat
    /\ cancelingTimers_ \subseteq Addrs \X Nat
    /\ elapsed \in 0..MaxDelay
    /\ timerfd_ \in 0..Off
    /\ pc \in {"poll", "events", "batch", "functors", "destroyed"}
    /\ timerActive \in BOOLEAN
    /\ pendingFunctors_ \in Seq(Functor)
    /\ functors \in Seq(Functor)
    /\ cancelled \subseteq 1..MaxTimers
    /\ runs \in [1..MaxTimers -> 0..2]

Init ==
    /\ obj = <<>>
    /\ s_numCreated_ = 0
    /\ creating = <<>>
    /\ handles = {}
    /\ timers_ = {}
    /\ activeTimers_ = {}
    /\ expired = <<>>
    /\ next = 0
    /\ expiredTimers_ = {}
    /\ cancelingTimers_ = {}
    /\ elapsed = 0
    /\ timerfd_ = Off
    /\ pc = "events"
    /\ timerActive = FALSE
    /\ pendingFunctors_ = <<>>
    /\ functors = <<>>
    /\ cancelled = {}
    /\ runs = [u \in 1..MaxTimers |-> 0]

(***************************************************************************)
(* Mutated forms of definitions below: bugs this code could have.          *)
(***************************************************************************)

\* getExpired() leaves the batch in activeTimers_.
EraseForgotten(due) == {}

\* cancelInLoop() gives up on a timer that is not inserted yet.
NeverRetries(h, allowRetry) == pendingFunctors_

\* reset() restarts one-shot timers too.
RestartsOneShots == {a \in Range(expired) : <<a, obj[a].seq>> \notin cancelingTimers_}

\* reset() does not set the timerfd for the earliest remaining timer.
TimerfdForgotten(o, addrs) == timerfd_

(***************************************************************************)
(* The heap and the timerfd.                                               *)
(***************************************************************************)
Whens(o, addrs) == {o[a].when : a \in addrs}

\* howMuchTimeFromNow() and resetTimerfd(): never sooner than one tick from now.
resetTimerfd(when) == Max({when, 1})

\* insert(): the timerfd is set again when the new timer is the earliest.  Two
\* overdue timers may be in either order.
insert(o, a) ==
    /\ timers_' = timers_ \cup {a}
    /\ activeTimers_' = activeTimers_ \cup {<<a, o[a].seq>>}
    /\ LET when == o[a].when
           earlier == \A b \in timers_ : when < o[b].when
           overdue == when = 0 /\ \E b \in timers_ : o[b].when = 0
       IN  \/ (earlier \/ overdue) /\ timerfd_' = resetTimerfd(when)
           \/ ~earlier /\ UNCHANGED timerfd_

(***************************************************************************)
(* addTimer(), on any thread.                                              *)
(***************************************************************************)

\* User code runs on the loop thread inside handlers, timer callbacks and functors.
InUserCode == \/ pc \in {"events", "functors"}
              \/ pc = "batch" /\ next > 0

\* A thread in user code, not already inside addTimer().
MayCall(t) ==
    /\ t \notin DOMAIN creating
    /\ pc # "destroyed"
    /\ t = Loop => InUserCode

\* The loop thread does nothing else while it is inside addTimer().
LoopMayStep == Loop \notin DOMAIN creating

\* The function with one more entry.
With(f, x, y) == [z \in DOMAIN f \cup {x} |-> IF z = x THEN y ELSE f[z]]

\* new Timer(): the allocation, and the read half of ++s_numCreated_.
AddTimer(t) ==
    /\ MayCall(t)
    /\ Cardinality(handles) + Cardinality(DOMAIN creating) < MaxTimers
    /\ \E a \in Addrs \ (DOMAIN obj \cup {creating[u].addr : u \in DOMAIN creating}) :
           creating' = With(creating, t, [addr |-> a, count |-> s_numCreated_])
    /\ UNCHANGED <<obj, s_numCreated_, handles, heapVars, batchVars,
                   cancelingTimers_, loopVars, pendingFunctors_, cancelled, runs>>

\* The write half, the rest of the constructor, and runInLoop(insert): inline on
\* the loop thread, a post from any other.
AddTimerEnd(t) ==
    /\ t \in DOMAIN creating
    /\ pc # "destroyed"
    /\ t # Loop => Len(functors) + Len(pendingFunctors_) < MaxPending
    /\ \E when \in 0..MaxDelay, repeat \in BOOLEAN :
           LET a   == creating[t].addr
               seq == creating[t].count + 1
               uid == Cardinality(handles) + 1
               o   == With(obj, a, [seq |-> seq, uid |-> uid, when |-> when,
                                    repeat |-> repeat])
           IN  /\ s_numCreated_' = seq
               /\ obj' = o
               /\ handles' = handles \cup {[addr |-> a, seq |-> seq, uid |-> uid]}
               /\ IF t = Loop
                  THEN insert(o, a) /\ UNCHANGED pendingFunctors_
                  ELSE /\ pendingFunctors_' =
                              Append(pendingFunctors_, [op |-> "insert", addr |-> a])
                       /\ UNCHANGED heapVars
    /\ creating' = Restrict(creating, DOMAIN creating \ {t})
    /\ UNCHANGED <<batchVars, cancelingTimers_, loopVars, cancelled, runs>>

(***************************************************************************)
(* cancel()                                                                *)
(***************************************************************************)
\* The timer is in the batch whose callbacks are being called.
InBatch(id) == callingExpiredTimers_ /\ id \in expiredTimers_

\* delete of a set of Timers.
Delete(addrs) == obj' = Restrict(obj, DOMAIN obj \ addrs)

\* The retry of a cancellation that may have overtaken the insertion.
Retried(h, allowRetry) ==
    IF allowRetry
    THEN Append(pendingFunctors_, [op |-> "cancel", id |-> h, retry |-> FALSE])
    ELSE pendingFunctors_

\* cancelInLoop(): delete a timer of the heap, mark one of the running batch, and
\* otherwise try once more behind the work already posted.
cancelInLoop(h, allowRetry) ==
    LET id == <<h.addr, h.seq>>
    IN  \/ /\ id \in activeTimers_
           /\ activeTimers_' = activeTimers_ \ {id}
           /\ timers_' = timers_ \ {h.addr}
           /\ Delete({h.addr})
           /\ UNCHANGED <<timerfd_, cancelingTimers_, pendingFunctors_>>
        \/ /\ id \notin activeTimers_
           /\ InBatch(id)
           /\ cancelingTimers_' = cancelingTimers_ \cup {id}
           /\ UNCHANGED <<obj, heapVars, pendingFunctors_>>
        \/ /\ id \notin activeTimers_
           /\ ~InBatch(id)
           /\ pendingFunctors_' = Retried(h, allowRetry)
           /\ UNCHANGED <<obj, heapVars, cancelingTimers_>>

\* cancel(): inline on the loop thread, a post from any other.  The handle may be
\* of a timer that is pending, running, done or already cancelled.
Cancel(t) ==
    /\ MayCall(t)
    /\ Len(functors) + Len(pendingFunctors_) < MaxPending
    /\ \E h \in handles :
           /\ cancelled' = cancelled \cup {h.uid}
           /\ IF t = Loop
              THEN cancelInLoop(h, TRUE)
              ELSE /\ pendingFunctors_' =
                          Append(pendingFunctors_,
                                 [op |-> "cancel", id |-> h, retry |-> TRUE])
                   /\ UNCHANGED <<obj, heapVars, cancelingTimers_>>
    /\ UNCHANGED <<createVars, batchVars, loopVars, runs>>

(***************************************************************************)
(* The loop.                                                               *)
(***************************************************************************)

\* The poll reports the timerfd when it is readable; handlers of other channels
\* may run before and after handleRead().
Poll ==
    /\ pc = "poll"
    /\ pc' = "events"
    /\ timerActive' = (timerfd_ = 0)
    /\ UNCHANGED <<obj, createVars, heapVars, batchVars, cancelingTimers_,
                   functors, pendingFunctors_, cancelled, runs>>

\* getExpired(): the timers of the heap that are due.
getExpired == {a \in timers_ : obj[a].when = 0}

\* What getExpired() takes out of activeTimers_.
ExpiredIds(due) == {Id(a) : a \in due}

\* handleRead() up to the callbacks: read the timerfd (which leaves one that was
\* set again since the poll alone), and take the due timers out of the heap.
HandleRead ==
    /\ pc = "events"
    /\ LoopMayStep
    /\ timerActive
    /\ timerfd_' = IF timerfd_ = 0 THEN Off ELSE timerfd_
    /\ expired' \in Bijection(1..Cardinality(getExpired), getExpired)
    /\ timers_' = timers_ \ getExpired
    /\ activeTimers_' = activeTimers_ \ ExpiredIds(getExpired)
    /\ expiredTimers_' = {Id(a) : a \in getExpired}
    /\ next' = 0
    /\ elapsed' = 0
    /\ pc' = "batch"
    /\ timerActive' = FALSE
    /\ UNCHANGED <<obj, createVars, cancelingTimers_, functors,
                   pendingFunctors_, cancelled, runs>>

\* timer->run(), for the next timer of the batch.
RunTimer ==
    /\ pc = "batch"
    /\ LoopMayStep
    /\ next < Len(expired)
    /\ next' = next + 1
    /\ runs' = [runs EXCEPT ![obj[expired[next + 1]].uid] = Min({@ + 1, 2})]
    /\ UNCHANGED <<obj, createVars, heapVars, expired, expiredTimers_, elapsed,
                   cancelingTimers_, loopVars, pendingFunctors_, cancelled>>

\* Which timers of the batch reset() restarts.
Restarted == {a \in Range(expired) : obj[a].repeat /\ Id(a) \notin cancelingTimers_}

\* The marks reset() leaves: erase() is its membership test.
Unerased == cancelingTimers_ \ {Id(a) : a \in Range(expired)}

\* The timerfd after reset(): set for the earliest timer, left alone without one.
ResetTimerfd(o, addrs) ==
    IF addrs = {} THEN timerfd_ ELSE resetTimerfd(Min(Whens(o, addrs)))

\* reset(): restart() counts from the time handleRead() started, every other timer
\* of the batch is deleted, and the timerfd is set for the earliest one.
Reset ==
    /\ pc = "batch"
    /\ LoopMayStep
    /\ next = Len(expired)
    /\ LET gone == Range(expired) \ Restarted
           when == IF elapsed < Interval THEN Interval - elapsed ELSE 0
           o    == [a \in DOMAIN obj \ gone |->
                        IF a \in Restarted THEN [obj[a] EXCEPT !.when = when] ELSE obj[a]]
       IN  /\ obj' = o
           /\ timers_' = timers_ \cup Restarted
           /\ activeTimers_' = activeTimers_ \cup {Id(a) : a \in Restarted}
           /\ timerfd_' = ResetTimerfd(o, timers_ \cup Restarted)
    /\ cancelingTimers_' = Unerased
    /\ expiredTimers_' = {}
    /\ expired' = <<>>
    /\ next' = 0
    /\ elapsed' = 0
    /\ pc' = "events"
    /\ UNCHANGED <<createVars, timerActive, functors, pendingFunctors_, cancelled,
                   runs>>

\* doPendingFunctors(): swap the posts out, execute them in order, poll again.
SwapPending ==
    /\ pc = "events"
    /\ LoopMayStep
    /\ ~timerActive
    /\ pc' = "functors"
    /\ functors' = pendingFunctors_
    /\ pendingFunctors_' = <<>>
    /\ UNCHANGED <<obj, createVars, heapVars, batchVars, cancelingTimers_,
                   timerActive, cancelled, runs>>

RunFunctor ==
    /\ pc = "functors"
    /\ LoopMayStep
    /\ functors # <<>>
    /\ LET f == Head(functors)
       IN  \/ /\ f.op = "insert"
              /\ insert(obj, f.addr)
              /\ UNCHANGED <<obj, cancelingTimers_, pendingFunctors_>>
           \/ /\ f.op = "cancel"
              /\ cancelInLoop(f.id, f.retry)
    /\ functors' = Tail(functors)
    /\ UNCHANGED <<createVars, batchVars, pc, timerActive, cancelled, runs>>

EndFunctors ==
    /\ pc = "functors"
    /\ LoopMayStep
    /\ functors = <<>>
    /\ pc' = "poll"
    /\ UNCHANGED <<obj, createVars, heapVars, batchVars, cancelingTimers_,
                   timerActive, functors, pendingFunctors_, cancelled, runs>>

\* ~TimerQueue(), after loop() returned: delete the timers of the heap.
Destroy ==
    /\ pc = "poll"
    /\ pc' = "destroyed"
    /\ Delete(timers_)
    /\ timers_' = {}
    /\ activeTimers_' = {}
    /\ timerfd_' = Off
    /\ UNCHANGED <<createVars, batchVars, cancelingTimers_, timerActive,
                   functors, pendingFunctors_, cancelled, runs>>

\* Time passes, in any state.
Tick ==
    /\ pc # "destroyed"
    /\ \/ \E a \in DOMAIN obj : obj[a].when > 0
       \/ timerfd_ \notin {0, Off}
       \/ pc = "batch" /\ elapsed < Interval
    /\ obj' = [a \in DOMAIN obj |->
                   [obj[a] EXCEPT !.when = IF @ = 0 THEN 0 ELSE @ - 1]]
    /\ timerfd_' = IF timerfd_ \in {0, Off} THEN timerfd_ ELSE timerfd_ - 1
    /\ elapsed' = IF pc = "batch" /\ elapsed < Interval THEN elapsed + 1 ELSE elapsed
    /\ UNCHANGED <<createVars, timers_, activeTimers_, expired, next,
                   expiredTimers_, cancelingTimers_, loopVars,
                   pendingFunctors_, cancelled, runs>>

LoopStep ==
    \/ Poll \/ HandleRead \/ RunTimer \/ Reset
    \/ SwapPending \/ RunFunctor \/ EndFunctors

Next ==
    \/ \E t \in Creators : AddTimer(t) \/ AddTimerEnd(t) \/ Cancel(t)
    \/ LoopStep \/ Destroy \/ Tick

Spec == Init /\ [][Next]_vars

\* Time passes, addTimer() on the loop thread returns, and the loop runs; it
\* polls for ever only with nothing posted and the timerfd not readable.
Progress ==
    \/ Poll /\ (timerfd_ = 0 \/ pendingFunctors_ # <<>>)
    \/ HandleRead \/ RunTimer \/ Reset \/ SwapPending \/ RunFunctor \/ EndFunctors
    \/ AddTimerEnd(Loop)

Fairness == WF_vars(Tick) /\ WF_vars(Progress)

FairSpec == Spec /\ Fairness

(***************************************************************************)
(* Properties                                                              *)
(***************************************************************************)
PostedInserts ==
    LET posts == functors \o pendingFunctors_
    IN  [i \in {j \in DOMAIN posts : posts[j].op = "insert"} |-> posts[i].addr]

\* Every Timer has exactly one owner: the heap, the expired batch or an insertion
\* that is still posted, and each of these refers only to Timers that exist; the set
\* cancel() searches holds exactly the handles of the heap.  So no callback, heap
\* comparison or delete touches a freed Timer, none is deleted twice, and none leaks
\* while the queue lives, whatever is cancelled from wherever, even with the duplicate
\* sequence numbers that racing constructors produce.
OneOwner ==
    /\ TypeOK
    /\ IsInjective(expired) /\ IsInjective(PostedInserts)
    /\ timers_ \cap Range(expired) = {}
    /\ timers_ \cap Range(PostedInserts) = {}
    /\ Range(expired) \cap Range(PostedInserts) = {}
    /\ DOMAIN obj = timers_ \cup Range(expired) \cup Range(PostedInserts)
    /\ activeTimers_ = {Id(a) : a \in timers_}

\* A cancelled timer that still exists has a cancellation on its way: marked in the
\* batch for reset(), or posted behind the insertion it overtook; and a mark concerns
\* the running batch only, so none survives reset() to hit a later Timer.
CancelNotForgotten ==
    /\ cancelingTimers_ \subseteq expiredTimers_
    /\ \A a \in DOMAIN obj :
           obj[a].uid \in cancelled =>
               \/ Id(a) \in cancelingTimers_
               \/ LET posts == functors \o pendingFunctors_
                  IN  \E i \in DOMAIN posts :
                          /\ posts[i].op = "cancel" /\ posts[i].id.uid = obj[a].uid
                          /\ \A j \in DOMAIN PostedInserts : PostedInserts[j] = a => j < i

\* A one-shot timer runs at most once, even when it is cancelled by its own
\* callback or by a batch-mate.
OneShotRunsOnce ==
    \A a \in DOMAIN obj : ~obj[a].repeat =>
        \/ runs[obj[a].uid] = 0
        \/ runs[obj[a].uid] = 1 /\ a \in {expired[i] : i \in 1..next}

\* cancel() was called with the handle of timer u, or with another timer's that has the
\* same address and sequence number: cancelInLoop() cannot tell the two apart.
CancelReaches(u) ==
    \E h, k \in handles :
        h.uid = u /\ k.uid \in cancelled /\ <<k.addr, k.seq>> = <<h.addr, h.seq>>

\* Every timer that addTimer() returned runs, unless the queue is destroyed or cancel() was
\* called for it, or for an earlier timer whose handle repeats: the counter that numbers
\* timers is not synchronised, so a stale handle can match a new timer (StaleHandleHarmless).
TimersFire ==
    \A u \in 1..MaxTimers :
        (u \in {h.uid : h \in handles}) ~>
            (runs[u] > 0 \/ CancelReaches(u) \/ pc = "destroyed")

\* "a stale handle can therefore never match a different Timer that happens to be
\* allocated at the same address": a handle with the address and the sequence
\* number of an existing Timer is a handle of that Timer (Timer.h:120).  It does not
\* hold: racing constructors draw the same number, or an earlier one again.
StaleHandleHarmless ==
    \A h \in handles : \A a \in DOMAIN obj :
        (h.addr = a /\ h.seq = obj[a].seq) => h.uid = obj[a].uid
==============================================================================
