----------------------------- MODULE TimerQueue -----------------------------
(***************************************************************************)
(* The TimerQueue of one EventLoop (Timer/TimerQueue.cc): the ordered set  *)
(* of timers, the timerfd armed for the first of them, the handler of its  *)
(* channel, and the threads that add timers.                               *)
(*                                                                         *)
(* Times are kept relative to now, so that no clock has to be bounded: a   *)
(* Tick moves both clocks by one unit of 100 microseconds or more, every   *)
(* expiration comes one unit closer, and the timerfd counts down.  The     *)
(* expirations are on the wall clock (gettimeofday), the countdown is on   *)
(* CLOCK_MONOTONIC: a wall clock that is set moves the expirations only.   *)
(*                                                                         *)
(* The loop is what module TaskExecutor promises: a functor queued by      *)
(* another thread is called once, in order, by the loop's own thread.      *)
(***************************************************************************)
EXTENDS Integers, Sequences, Functions

CONSTANTS
    Timer,       \* the addresses of the Timer objects
    Second,      \* units in a second
    Moments,     \* the times RunAt is called with, relative to now
    Waits,       \* the times RunAfter and RunEvery are called with
    MaxLate,     \* an expiration longer ago than this counts as this
    MaxSettings  \* how often the wall clock is set

ASSUME TimerAssumption == Timer \subseteq Nat \ {0}

ASSUME TimeAssumption ==
    /\ Second \in Nat \ {0}
    /\ Moments \subseteq Int
    /\ Waits \subseteq Nat
    /\ MaxLate \in Nat
    /\ MaxSettings \in Nat

VARIABLES
    pc,            \* "loop", "dispatch", "run" or "gone"
    heap,          \* the Timer objects that are allocated
    left,          \* expiration_ minus now
    interval,      \* interval_ , 0 for a timer that does not repeat
    timers_,
    activeTimers_, \* the timers HandleRead has taken out
    toRun,         \* those of them whose callback has not run yet
    current,       \* the timer whose callback is running, or 0
    functors,      \* the AddTimerInloop functors queued by other threads
    armed,         \* the countdown of the timerfd, 0 when disarmed
    expired,       \* the timerfd has an expiration to read
    settings,      \* how often the wall clock was set
    ahead,         \* history: how far it was set ahead since the fd was armed
    ran            \* history: the timers that have run since they were made

timerVars == <<heap, left, interval>>
queueVars == <<timers_, activeTimers_, toRun, current>>
fdVars == <<armed, expired, ahead>>
vars == <<pc, timerVars, queueVars, functors, fdVars, settings, ran>>

MinWait == 1

\* static_cast<int64_t> drops the fraction before the seconds are scaled.
AddTime(t, seconds) == t + (seconds \div Second) * Second

\* What RunAt, RunAfter and RunEvery pass to AddTimer.
Requests ==
    [left : Moments, interval : {0}]
      \union {[left |-> AddTime(0, w), interval |-> 0] : w \in Waits}
      \union {[left |-> AddTime(0, w), interval |-> w] : w \in Waits}

Init ==
    /\ pc = "loop"
    /\ heap = {}
    /\ left = [t \in Timer |-> 0]
    /\ interval = [t \in Timer |-> 0]
    /\ timers_ = {}
    /\ activeTimers_ = {}
    /\ toRun = {}
    /\ current = 0
    /\ functors = <<>>
    /\ armed = 0
    /\ expired = FALSE
    /\ settings = 0
    /\ ahead = 0
    /\ ran = {}

-----------------------------------------------------------------------------
(* The operations of the queue.                                            *)

\* The order of timers_: by expiration, then by address.
Precedes(t, u) == left[t] < left[u] \/ (left[t] = left[u] /\ t <= u)

IsFirst(t, S) == t \in S /\ \A u \in S : Precedes(t, u)

Longer(a, b) == IF a < b THEN b ELSE a

\* Mutant: no lower bound on the wait.
ArmExactly(wait) ==
    /\ armed' = wait
    /\ expired' = FALSE
    /\ ahead' = 0

\* timerfd_settime also forgets the expirations not read yet.
ResetTimer(wait) ==
    /\ armed' = Longer(wait, MinWait)
    /\ expired' = FALSE
    /\ ahead' = 0

\* Mutant: only the first timer of an empty queue arms the timerfd.
InsertsIntoEmpty(wait) == timers_ = {}

InsertsFirst(wait) == \A u \in timers_ : wait < left[u]

AddTimerInloop(t, wait) ==
    /\ timers_' = timers_ \union {t}
    /\ IF InsertsFirst(wait) THEN ResetTimer(wait) ELSE UNCHANGED fdVars

\* The loop's own thread adds a timer from a callback or before loop().
InLoopThread == pc = "loop" \/ pc = "dispatch" \/ current # 0

\* The constructor of Timer; one with an interval repeats.
NewTimer(t, request) ==
    /\ heap' = heap \union {t}
    /\ left' = [left EXCEPT ![t] = request.left]
    /\ interval' = [interval EXCEPT ![t] = request.interval]

AddTimer(request) ==
    /\ pc # "gone"
    /\ \E t \in Timer \ heap :
          /\ NewTimer(t, request)
          /\ \/ /\ InLoopThread
                /\ AddTimerInloop(t, request.left)
                /\ UNCHANGED functors
             \/ /\ functors' = Append(functors, t)
                /\ UNCHANGED <<timers_, fdVars>>
    /\ UNCHANGED <<pc, activeTimers_, toRun, current, settings, ran>>

RunFunctor ==
    /\ pc = "loop"
    /\ functors # <<>>
    /\ AddTimerInloop(Head(functors), left[Head(functors)])
    /\ functors' = Tail(functors)
    /\ UNCHANGED <<pc, timerVars, activeTimers_, toRun, current, settings, ran>>

\* The poll reports the timerfd.  Handlers of other channels may come first.
Poll ==
    /\ pc = "loop"
    /\ expired
    /\ pc' = "dispatch"
    /\ UNCHANGED <<timerVars, queueVars, functors, fdVars, settings, ran>>

Expired == {t \in timers_ : left[t] <= 0}

\* Mutant: the expired timers stay in timers_ while their callbacks run.
HandleReadKeeps ==
    /\ pc = "dispatch"
    /\ expired' = FALSE
    /\ activeTimers_' = Expired
    /\ toRun' = Expired
    /\ pc' = "run"
    /\ UNCHANGED <<timerVars, timers_, current, functors, armed, ahead, settings, ran>>

HandleRead ==
    /\ pc = "dispatch"
    /\ expired' = FALSE
    /\ activeTimers_' = Expired
    /\ toRun' = Expired
    /\ timers_' = timers_ \ Expired
    /\ pc' = "run"
    /\ UNCHANGED <<timerVars, current, functors, armed, ahead, settings, ran>>

RunTimer ==
    /\ pc = "run"
    /\ current = 0
    /\ \E t \in toRun :
          /\ IsFirst(t, toRun)
          /\ current' = t
          /\ toRun' = toRun \ {t}
          /\ ran' = ran \union {t}
    /\ UNCHANGED <<pc, timerVars, timers_, activeTimers_, functors, fdVars, settings>>

CallbackReturns ==
    /\ current # 0
    /\ current' = 0
    /\ UNCHANGED <<pc, timerVars, timers_, activeTimers_, toRun, functors, fdVars,
                   settings, ran>>

Repeat == {t \in activeTimers_ : interval[t] > 0}

AfterCallbacks == pc = "run" /\ current = 0 /\ toRun = {}

\* Mutant: the timerfd is armed only when a timer has run.
RearmIfRun ==
    IF timers_' = {} \/ activeTimers_ = {}
    THEN UNCHANGED fdVars
    ELSE \E t \in timers_' : (\A u \in timers_' : left'[t] <= left'[u]) /\ ResetTimer(left'[t])

\* Sets the timerfd for the timer that is now the first.
Rearm ==
    IF timers_' = {}
    THEN UNCHANGED fdVars
    ELSE \E t \in timers_' : (\A u \in timers_' : left'[t] <= left'[u]) /\ ResetTimer(left'[t])

\* Restart of the repeating timers, delete of the others (the model forgets
\* the times of a deleted one).  The clock readings of one call are one.
ResetTimers ==
    /\ AfterCallbacks
    /\ heap' = heap \ (activeTimers_ \ Repeat)
    /\ left' = [t \in Timer |-> IF t \in Repeat THEN AddTime(0, interval[t])
                              ELSE IF t \in activeTimers_ THEN 0 ELSE left[t]]
    /\ interval' = [t \in Timer |-> IF t \in heap' THEN interval[t] ELSE 0]
    /\ ran' = ran \intersect heap'
    /\ timers_' = timers_ \union Repeat
    /\ Rearm
    /\ activeTimers_' = {}
    /\ pc' = "loop"
    /\ UNCHANGED <<toRun, current, functors, settings>>

\* Mutant: the destructor leaves the timers to nobody.
DestroyQueue ==
    /\ pc = "loop"
    /\ armed' = 0
    /\ expired' = FALSE
    /\ timers_' = {}
    /\ pc' = "gone"
    /\ UNCHANGED <<timerVars, activeTimers_, toRun, current, functors, ahead, settings, ran>>

\* ~TimerQueue, with the loop.
Destroy ==
    /\ pc = "loop"
    /\ heap' = heap \ timers_
    /\ timers_' = {}
    /\ armed' = 0
    /\ expired' = FALSE
    /\ pc' = "gone"
    /\ UNCHANGED <<left, interval, activeTimers_, toRun, current, functors, ahead,
                   settings, ran>>

-----------------------------------------------------------------------------
(* The clocks.                                                             *)

MoveWallClock(d) ==
    left' = [t \in Timer |-> IF t \in heap THEN Longer(left[t] - d, -MaxLate) ELSE left[t]]

Tick ==
    /\ pc # "gone"
    /\ MoveWallClock(1)
    /\ armed' = Longer(armed - 1, 0)
    /\ expired' = (expired \/ armed = 1)
    /\ UNCHANGED <<pc, heap, interval, queueVars, functors, ahead, settings, ran>>

SetWallClock ==
    /\ pc # "gone"
    /\ settings < MaxSettings
    /\ settings' = settings + 1
    /\ \E d \in {-1, 1} :
          /\ MoveWallClock(d)
          /\ ahead' = ahead + Longer(d, 0)
    /\ UNCHANGED <<pc, heap, interval, queueVars, functors, armed, expired, ran>>

Next ==
    \/ \E request \in Requests : AddTimer(request)
    \/ RunFunctor \/ Poll \/ HandleRead \/ RunTimer \/ CallbackReturns \/ ResetTimers
    \/ Destroy \/ Tick \/ SetWallClock

\* Time passes and the loop's thread is scheduled.  Each pass of the loop ends
\* with its functors, so that timer events cannot keep RunFunctor out for ever.
Fairness ==
    /\ WF_vars(Tick)
    /\ WF_vars(Poll) /\ WF_vars(HandleRead) /\ WF_vars(RunTimer)
    /\ WF_vars(CallbackReturns) /\ WF_vars(ResetTimers)
    /\ SF_vars(RunFunctor)

Spec == Init /\ [][Next]_vars /\ Fairness

-----------------------------------------------------------------------------
(* Properties.                                                             *)

\* The fields keep their types.
TypeOK ==
    /\ pc \in {"loop", "dispatch", "run", "gone"}
    /\ heap \subseteq Timer
    /\ left \in [Timer -> Int]
    /\ interval \in [Timer -> Nat]
    /\ timers_ \subseteq Timer
    /\ toRun \subseteq activeTimers_
    /\ activeTimers_ \subseteq Timer
    /\ current \in Timer \union {0}
    /\ functors \in Seq(Timer)
    /\ armed \in Nat
    /\ expired \in BOOLEAN
    /\ settings \in 0..MaxSettings
    /\ ahead \in Nat
    /\ ran \subseteq Timer

\* While the loop waits or handles other channels, a timer in the queue means
\* a timerfd that has expired or will, no later than the first timer does and
\* at the earliest possible moment when that is past.  Only a wall clock set
\* ahead can make it later (TimerQueue.cc:45, :77).
ArmedInTime ==
    pc \in {"loop", "dispatch"} /\ timers_ # {} =>
        \/ expired
        \/ armed > 0 /\ \A t \in timers_ : armed <= Longer(left[t], MinWait) + ahead

\* Every allocated Timer is owned by exactly one of the queue, the batch being
\* handled and a functor on its way, and no pointer in them dangles: nothing
\* is deleted twice and nothing is lost, except the timers of functors that a
\* destroyed loop never calls (TimerQueue.cc:64, :30).
OwnedOnce ==
    /\ heap = timers_ \union activeTimers_ \union Range(functors)
    /\ timers_ \intersect activeTimers_ = {}
    /\ Range(functors) \intersect (timers_ \union activeTimers_) = {}
    /\ IsInjective(functors)

\* A timer is called only while it is allocated, and one without an interval
\* only once, whatever its callback, the others of the batch and other threads
\* add meanwhile (TimerQueue.cc:113-124).
CallsLiveTimerOnce ==
    [][\A t \in Timer : current # t /\ current' = t =>
            t \in heap /\ (interval[t] > 0 \/ t \notin ran)]_vars

\* Every timer given to AddTimer, by whichever thread, is called as long as the
\* loop lives, and a repeating one again and again, although timers that are
\* due at once keep coming and the wall clock may be set back.
EveryTimerRuns ==
    \A t \in Timer :
        (t \in timers_ \/ t \in Range(functors)) ~> (current = t \/ pc = "gone")
=============================================================================
