-------------------------- MODULE TimerQueueProofs --------------------------
(***************************************************************************)
(* Proofs about TimerQueue for any timers, requests and clocks: its type   *)
(* invariant, that every Timer has one owner, that a timer is called only  *)
(* while it is allocated and a one-shot timer once, and that the timerfd   *)
(* is armed in time for the first timer.                                   *)
(***************************************************************************)
EXTENDS TimerQueue, SequenceTheorems, TLAPS

(***************************************************************************)
(* What RunAt, RunAfter and RunEvery ask for is a time and an interval     *)
(* that is not negative.                                                   *)
(***************************************************************************)
LEMMA RequestType ==
    ASSUME NEW request \in Requests
    PROVE  request.left \in Int /\ request.interval \in Nat
<1>1. \A w \in Waits : AddTime(0, w) \in Int /\ w \in Nat
  BY TimeAssumption DEF AddTime
<1>2. Moments \subseteq Int
  BY TimeAssumption
<1>3. CASE request \in [left : Moments, interval : {0}]
  <2>1. request.left \in Moments /\ request.interval = 0
    BY <1>3
  <2>2. request.left \in Int
    BY <1>2, <2>1
  <2>3. QED
    BY <2>1, <2>2
<1>4. CASE \E w \in Waits : request = [left |-> AddTime(0, w), interval |-> 0]
  BY <1>1, <1>4
<1>5. CASE \E w \in Waits : request = [left |-> AddTime(0, w), interval |-> w]
  BY <1>1, <1>5
<1>6. QED
  BY <1>3, <1>4, <1>5 DEF Requests

(***************************************************************************)
(* What arming the timerfd leaves: a positive countdown that covers the    *)
(* wait (TimerQueue.cc:40-62).                                             *)
(***************************************************************************)
LEMMA ResetTimerArms ==
    ASSUME NEW wait \in Int, ResetTimer(wait)
    PROVE  /\ armed' \in Nat /\ armed' > 0 /\ armed' = Longer(wait, MinWait)
           /\ expired' \in BOOLEAN /\ ~expired'
           /\ ahead' = 0
<1>1. /\ armed' \in Nat /\ armed' > 0 /\ armed' = Longer(wait, MinWait)
      /\ ahead' = 0
  BY DEF ResetTimer, Longer, MinWait
<1>2. expired' \in BOOLEAN /\ ~expired'
  BY Zenon DEF ResetTimer
<1>3. QED
  BY <1>1, <1>2

(***************************************************************************)
(* Adding a timer in the loop keeps the types of what it changes.          *)
(***************************************************************************)
LEMMA AddTimerInloopType ==
    ASSUME TypeOK, NEW t \in Timer, NEW wait \in Int, AddTimerInloop(t, wait)
    PROVE  /\ timers_' \subseteq Timer
           /\ armed' \in Nat
           /\ expired' \in BOOLEAN
           /\ ahead' \in Nat
<1>1. CASE ResetTimer(wait)
  BY <1>1, ResetTimerArms DEF AddTimerInloop, TypeOK
<1>2. CASE UNCHANGED fdVars
  BY <1>2 DEF AddTimerInloop, TypeOK, fdVars
<1>3. QED
  BY <1>1, <1>2 DEF AddTimerInloop

(***************************************************************************)
(* The fields keep their types under every call, every event and every     *)
(* movement of the clocks (TimerQueue.cc:27-155).                          *)
(***************************************************************************)
THEOREM TypeCorrect == Spec => []TypeOK
<1>1. Init => TypeOK
  <2> SUFFICES ASSUME Init
               PROVE  TypeOK
    OBVIOUS
  <2>1. functors \in Seq(Timer)
    BY EmptySeq DEF Init
  <2>2. left \in [Timer -> Int] /\ interval \in [Timer -> Nat]
    BY DEF Init
  <2>3. settings \in 0..MaxSettings
    BY TimeAssumption DEF Init
  <2>4. QED
    BY <2>1, <2>2, <2>3 DEF Init, TypeOK
<1>2. TypeOK /\ [Next]_vars => TypeOK'
  <2> SUFFICES ASSUME TypeOK, [Next]_vars
               PROVE  TypeOK'
    OBVIOUS
  <2> USE DEF TypeOK, timerVars, queueVars, fdVars
  <2>1. ASSUME NEW request \in Requests, AddTimer(request)
        PROVE  TypeOK'
    <3>1. PICK t \in Timer \ heap :
             /\ NewTimer(t, request)
             /\ \/ /\ InLoopThread
                   /\ AddTimerInloop(t, request.left)
                   /\ UNCHANGED functors
                \/ /\ functors' = Append(functors, t)
                   /\ UNCHANGED <<timers_, fdVars>>
      BY <2>1 DEF AddTimer
    <3>2. request.left \in Int /\ request.interval \in Nat
      BY RequestType
    <3>3. heap' \subseteq Timer /\ left' \in [Timer -> Int] /\ interval' \in [Timer -> Nat]
      BY <3>1, <3>2 DEF NewTimer
    <3>4. /\ functors' \in Seq(Timer)
          /\ timers_' \subseteq Timer
          /\ armed' \in Nat /\ expired' \in BOOLEAN /\ ahead' \in Nat
      <4>1. CASE AddTimerInloop(t, request.left) /\ UNCHANGED functors
        BY <3>2, <4>1, AddTimerInloopType
      <4>2. CASE functors' = Append(functors, t) /\ UNCHANGED <<timers_, fdVars>>
        BY <4>2, AppendProperties
      <4>3. QED
        BY <3>1, <4>1, <4>2
    <3>6. QED
      BY <2>1, <3>3, <3>4 DEF AddTimer
  <2>2. CASE RunFunctor
    <3>1. Head(functors) \in Timer /\ Tail(functors) \in Seq(Timer)
      BY <2>2, HeadTailProperties DEF RunFunctor
    <3>2. left[Head(functors)] \in Int
      BY <3>1
    <3>3. QED
      BY <2>2, <3>1, <3>2, AddTimerInloopType DEF RunFunctor
  <2>3. CASE Poll
    BY <2>3 DEF Poll
  <2>4. CASE HandleRead
    BY <2>4 DEF HandleRead, Expired
  <2>5. CASE RunTimer
    BY <2>5 DEF RunTimer
  <2>6. CASE CallbackReturns
    BY <2>6 DEF CallbackReturns
  <2>7. CASE ResetTimers
    <3>1. \A t \in Timer : AddTime(0, interval[t]) \in Int
      BY TimeAssumption DEF AddTime
    <3>2. left' \in [Timer -> Int] /\ interval' \in [Timer -> Nat]
      BY <2>7, <3>1 DEF ResetTimers
    <3>3. timers_' \subseteq Timer
      BY <2>7 DEF ResetTimers, Repeat
    <3>4. armed' \in Nat /\ expired' \in BOOLEAN /\ ahead' \in Nat
      <4>1. CASE timers_' = {}
        BY <2>7, <4>1 DEF ResetTimers, Rearm
      <4>2. ASSUME NEW t \in timers_', ResetTimer(left'[t])
            PROVE  armed' \in Nat /\ expired' \in BOOLEAN /\ ahead' \in Nat
        <5>1. left'[t] \in Int
          BY <3>2, <3>3
        <5>2. QED
          BY <4>2, <5>1, ResetTimerArms
      <4>3. QED
        BY <2>7, <4>1, <4>2 DEF ResetTimers, Rearm
    <3>5. QED
      BY <2>7, <3>2, <3>3, <3>4 DEF ResetTimers, AfterCallbacks
  <2>8. CASE Destroy
    BY <2>8 DEF Destroy
  <2>9. CASE Tick
    <3>1. left' \in [Timer -> Int]
      BY <2>9, TimeAssumption DEF Tick, MoveWallClock, Longer
    <3>2. QED
      BY <2>9, <3>1 DEF Tick, Longer
  <2>10. CASE SetWallClock
    <3>1. PICK d \in {-1, 1} : MoveWallClock(d) /\ ahead' = ahead + Longer(d, 0)
      BY <2>10 DEF SetWallClock
    <3>2. left' \in [Timer -> Int]
      BY <3>1, TimeAssumption DEF MoveWallClock, Longer
    <3>3. ahead' \in Nat /\ settings' \in 0..MaxSettings
      BY <2>10, <3>1, TimeAssumption DEF SetWallClock, Longer
    <3>4. QED
      BY <2>10, <3>2, <3>3 DEF SetWallClock
  <2>11. CASE UNCHANGED vars
    BY <2>11 DEF vars
  <2>12. QED
    BY <2>1, <2>2, <2>3, <2>4, <2>5, <2>6, <2>7, <2>8, <2>9, <2>10, <2>11
       DEF Next
<1>3. QED
  BY <1>1, <1>2, PTL DEF Spec

-----------------------------------------------------------------------------
(***************************************************************************)
(* A functor that is queued last, or taken from the front, is one timer    *)
(* more or less on its way.                                                *)
(***************************************************************************)
LEMMA AppendToFunctors ==
    ASSUME NEW S, NEW s \in Seq(S), NEW e \in S, e \notin Range(s), IsInjective(s)
    PROVE  Range(Append(s, e)) = Range(s) \union {e} /\ IsInjective(Append(s, e))
<1> DEFINE r == Append(s, e)
<1>1. /\ DOMAIN s = 1..Len(s) /\ Len(s) \in Nat
      /\ r \in Seq(S) /\ Len(r) = Len(s) + 1
      /\ \A i \in 1..Len(s) : r[i] = s[i]
      /\ r[Len(s) + 1] = e
  BY AppendProperties, LenProperties
<1>2. DOMAIN r = 1..Len(r)
  BY <1>1, LenProperties
<1> HIDE DEF r
<1>3. \A i \in DOMAIN r : i \in DOMAIN s \/ i = Len(s) + 1
  BY <1>1, <1>2
<1>4. \A i \in DOMAIN s : i \in DOMAIN r
  BY <1>1, <1>2
<1>5. Len(s) + 1 \in DOMAIN r
  BY <1>1, <1>2
<1>6. Range(r) = Range(s) \union {e}
  BY <1>1, <1>3, <1>4, <1>5 DEF Range
<1>7. IsInjective(r)
  <2> SUFFICES ASSUME NEW i \in DOMAIN r, NEW j \in DOMAIN r, r[i] = r[j]
               PROVE  i = j
    BY DEF IsInjective
  <2>1. \A k \in DOMAIN s : r[k] \in Range(s) /\ r[k] = s[k]
    BY <1>1 DEF Range
  <2>2. QED
    BY <1>1, <1>3, <2>1 DEF IsInjective
<1>8. QED
  BY <1>6, <1>7 DEF r

\* Without its first element a sequence without repetitions has just the others.
LEMMA TakeFromFunctors ==
    ASSUME NEW S, NEW s \in Seq(S), s # <<>>, IsInjective(s)
    PROVE  /\ Head(s) \in Range(s)
           /\ Range(Tail(s)) = Range(s) \ {Head(s)}
           /\ IsInjective(Tail(s))
<1> DEFINE r == Tail(s)
<1>1. /\ DOMAIN s = 1..Len(s) /\ Len(s) \in Nat \ {0}
      /\ r \in Seq(S) /\ Len(r) = Len(s) - 1
      /\ \A i \in 1..Len(r) : r[i] = s[i + 1]
      /\ Head(s) = s[1]
  BY HeadTailProperties, LenProperties, EmptySeq
<1>2. DOMAIN r = 1..Len(r)
  BY <1>1, LenProperties
<1> HIDE DEF r
<1>3. \A i \in DOMAIN r : i + 1 \in DOMAIN s /\ i + 1 # 1 /\ r[i] = s[i + 1]
  BY <1>1, <1>2
<1>4. 1 \in DOMAIN s
  BY <1>1
<1>5. \A i \in DOMAIN s : i # 1 => i - 1 \in DOMAIN r /\ r[i - 1] = s[i]
  BY <1>1, <1>2
<1>6. Head(s) \in Range(s)
  BY <1>1, <1>4 DEF Range
<1>7. \A i \in DOMAIN s : s[i] = s[1] => i = 1
  BY <1>4 DEF IsInjective
<1>8. Range(r) = Range(s) \ {Head(s)}
  <2>1. ASSUME NEW x \in Range(r)
        PROVE  x \in Range(s) /\ x # s[1]
    BY <1>3, <1>4, <1>7 DEF Range
  <2>2. ASSUME NEW x \in Range(s), x # s[1]
        PROVE  x \in Range(r)
    BY <1>5, <2>2 DEF Range
  <2>3. QED
    BY <1>1, <2>1, <2>2
<1>9. IsInjective(r)
  <2> SUFFICES ASSUME NEW i \in DOMAIN r, NEW j \in DOMAIN r, r[i] = r[j]
               PROVE  i = j
    BY DEF IsInjective
  <2>1. i + 1 = j + 1
    BY <1>3 DEF IsInjective
  <2>2. i \in Int /\ j \in Int
    BY <1>1, <1>2
  <2>3. QED
    BY <2>1, <2>2
<1>10. QED
  BY <1>6, <1>8, <1>9 DEF r


-----------------------------------------------------------------------------
(***************************************************************************)
(* Why every Timer has one owner.  HandleRead moves the expired timers     *)
(* from the queue to a batch, and only between HandleRead and ResetTimers  *)
(* is there a batch, so that HandleRead and the destructor find the last   *)
(* one gone.  A one-shot timer that has run is in the batch, past the ones *)
(* still to run, until ResetTimers deletes it: nothing can call it again.  *)
(***************************************************************************)
OwnershipInvariant ==
    /\ OwnedOnce
    /\ pc # "run" => activeTimers_ = {} /\ toRun = {} /\ current = 0
    /\ pc # "gone" => ran \subseteq heap
    /\ \A t \in ran : interval[t] > 0 \/ t \in activeTimers_ \ toRun

\* Every timer has one owner, and one that has run is deleted or runs again
\* (TimerQueue.cc:19-124).
THEOREM OwnershipInvariantHolds == Spec => []OwnershipInvariant
<1>1. Init => OwnershipInvariant
  <2> SUFFICES ASSUME Init
               PROVE  OwnershipInvariant
    OBVIOUS
  <2>1. DOMAIN <<>> = {}
    OBVIOUS
  <2>2. Range(functors) = {} /\ IsInjective(functors)
    BY <2>1 DEF Init, Range, IsInjective
  <2>3. QED
    BY <2>2 DEF Init, OwnershipInvariant, OwnedOnce
<1>2. TypeOK /\ OwnershipInvariant /\ [Next]_vars => OwnershipInvariant'
  <2> SUFFICES ASSUME TypeOK, OwnershipInvariant, [Next]_vars
               PROVE  OwnershipInvariant'
    OBVIOUS
  <2> USE DEF OwnershipInvariant, OwnedOnce, timerVars, queueVars
  <2>1. ASSUME NEW request \in Requests, AddTimer(request)
        PROVE  OwnershipInvariant'
    <3>1. PICK t \in Timer \ heap :
             /\ NewTimer(t, request)
             /\ \/ /\ InLoopThread
                   /\ AddTimerInloop(t, request.left)
                   /\ UNCHANGED functors
                \/ /\ functors' = Append(functors, t)
                   /\ UNCHANGED <<timers_, fdVars>>
      BY <2>1 DEF AddTimer
    <3>2. /\ pc # "gone" /\ UNCHANGED <<pc, activeTimers_, toRun, current, ran>>
          /\ heap' = heap \union {t}
          /\ t \notin ran
      BY <2>1, <3>1 DEF AddTimer, NewTimer
    <3>3. \A u \in ran : interval'[u] = interval[u]
      BY <3>1, <3>2 DEF NewTimer, TypeOK
    <3>4. CASE timers_' = timers_ \union {t} /\ functors' = functors
      BY <3>2, <3>3, <3>4
    <3>5. CASE timers_' = timers_ /\ functors' = Append(functors, t)
      <4>1. Range(functors') = Range(functors) \union {t} /\ IsInjective(functors')
        BY <3>5, AppendToFunctors DEF TypeOK
      <4>2. QED
        BY <3>2, <3>3, <3>5, <4>1
    <3>6. QED
      BY <3>1, <3>4, <3>5 DEF AddTimerInloop
  <2>2. CASE RunFunctor
    <3>1. /\ Head(functors) \in Range(functors)
          /\ Range(functors') = Range(functors) \ {Head(functors)}
          /\ IsInjective(functors')
      BY <2>2, TakeFromFunctors DEF RunFunctor, TypeOK
    <3>2. timers_' = timers_ \union {Head(functors)}
      BY <2>2 DEF RunFunctor, AddTimerInloop
    <3>3. UNCHANGED <<pc, heap, interval, activeTimers_, toRun, current, ran>>
      BY <2>2 DEF RunFunctor
    <3>4. QED
      BY <3>1, <3>2, <3>3
  <2>3. CASE Poll
    BY <2>3 DEF Poll
  <2>4. CASE HandleRead
    BY <2>4 DEF HandleRead, Expired
  <2>5. CASE RunTimer
    BY <2>5 DEF RunTimer, IsFirst, TypeOK
  <2>6. CASE CallbackReturns
    BY <2>6 DEF CallbackReturns
  <2>7. CASE ResetTimers
    <3>1. /\ heap' = heap \ (activeTimers_ \ Repeat)
          /\ timers_' = timers_ \union Repeat
          /\ activeTimers_' = {} /\ toRun' = {} /\ current' = 0
          /\ ran' = ran \intersect heap'
          /\ functors' = functors
          /\ pc' = "loop"
      BY <2>7 DEF ResetTimers, AfterCallbacks
    <3>2. OwnedOnce'
      BY <3>1 DEF Repeat
    <3>3. \A t \in ran' : interval'[t] = interval[t]
      BY <2>7, <3>1 DEF ResetTimers, TypeOK
    <3>4. \A t \in ran' : interval[t] > 0
      BY <3>1 DEF Repeat, TypeOK
    <3>5. QED
      BY <3>1, <3>2, <3>3, <3>4
  <2>8. CASE Destroy
    BY <2>8 DEF Destroy
  <2>9. CASE Tick
    BY <2>9 DEF Tick
  <2>10. CASE SetWallClock
    BY <2>10 DEF SetWallClock
  <2>11. CASE UNCHANGED vars
    BY <2>11 DEF vars
  <2>12. QED
    BY <2>1, <2>2, <2>3, <2>4, <2>5, <2>6, <2>7, <2>8, <2>9, <2>10, <2>11
       DEF Next
<1>3. QED
  BY <1>1, <1>2, TypeCorrect, PTL DEF Spec

(***************************************************************************)
(* AddTimer, HandleRead, ResetTimers, ~TimerQueue: every allocated Timer   *)
(* is owned once, whoever adds timers meanwhile.                           *)
(***************************************************************************)
THEOREM OwnedOnceHolds == Spec => []OwnedOnce
<1>1. OwnershipInvariant => OwnedOnce
  BY DEF OwnershipInvariant
<1>2. QED
  BY <1>1, OwnershipInvariantHolds, PTL

(***************************************************************************)
(* HandleRead: no callback of a deleted timer, and none of a one-shot      *)
(* timer for the second time.                                              *)
(***************************************************************************)
THEOREM CallsLiveTimerOnceHolds == Spec => CallsLiveTimerOnce
<1> DEFINE A == \A t \in Timer : current # t /\ current' = t =>
                    t \in heap /\ (interval[t] > 0 \/ t \notin ran)
<1>1. TypeOK /\ OwnershipInvariant /\ [Next]_vars => A
  <2> SUFFICES ASSUME TypeOK, OwnershipInvariant, [Next]_vars,
                      NEW t \in Timer, current # t, current' = t
               PROVE  t \in heap /\ (interval[t] > 0 \/ t \notin ran)
    OBVIOUS
  <2>1. t # 0
    BY TimerAssumption
  <2>2. RunTimer
    <3>1. current' # current /\ current' # 0
      BY <2>1
    <3>2. QED
      BY <3>1 DEF Next, vars, queueVars, AddTimer, RunFunctor, Poll, HandleRead,
                  CallbackReturns, ResetTimers, Destroy, Tick, SetWallClock
  <2>3. t \in toRun
    BY <2>2 DEF RunTimer
  <2>4. QED
    BY <2>3 DEF OwnershipInvariant, OwnedOnce, TypeOK
<1>2. QED
  BY <1>1, TypeCorrect, OwnershipInvariantHolds, PTL DEF Spec, CallsLiveTimerOnce


-----------------------------------------------------------------------------
(***************************************************************************)
(* Insert, HandleRead, ResetTimers, ReadTimerFd: the loop never waits for  *)
(* a timerfd that comes later than the first timer, except by what the     *)
(* wall clock was set ahead.  Inductive once the queue holds live timers   *)
(* only, so that a new timer does not change the expiration of another.    *)
(***************************************************************************)
THEOREM ArmedInTimeHolds == Spec => []ArmedInTime
<1> DEFINE Covered(t) == armed <= Longer(left[t], MinWait) + ahead
<1>1. Init => ArmedInTime
  BY DEF Init, ArmedInTime
<1>2. TypeOK /\ TypeOK' /\ OwnershipInvariant /\ ArmedInTime /\ [Next]_vars
        => ArmedInTime'
  <2> SUFFICES ASSUME TypeOK, TypeOK', OwnershipInvariant, ArmedInTime, [Next]_vars,
                      pc' \in {"loop", "dispatch"}, timers_' # {}, ~expired'
               PROVE  armed' > 0 /\ \A u \in timers_' : Covered(u)'
    BY DEF ArmedInTime
  <2> USE DEF timerVars, queueVars, fdVars
  <2>0. timers_ \subseteq heap
    BY DEF OwnershipInvariant, OwnedOnce
  \* Adding t with what is left of it known.
  <2>1. ASSUME NEW t \in Timer, NEW wait \in Int, AddTimerInloop(t, wait),
               left'[t] = wait, pc \in {"loop", "dispatch"},
               \A u \in timers_ : left'[u] = left[u]
        PROVE  armed' > 0 /\ \A u \in timers_' : Covered(u)'
    <3>1. \A u \in timers_' : u = t \/ u \in timers_
      BY <2>1 DEF AddTimerInloop
    <3>2. CASE InsertsFirst(wait)
      <4>1. armed' = Longer(wait, MinWait) /\ armed' > 0 /\ ahead' = 0
        BY <2>1, <3>2, ResetTimerArms DEF AddTimerInloop
      <4>2. \A u \in timers_' : left'[u] \in Int
        BY DEF TypeOK
      <4>3. \A u \in timers_' : u = t \/ wait < left'[u]
        BY <2>1, <3>1, <3>2 DEF InsertsFirst
      <4>4. QED
        BY <2>1, <4>1, <4>2, <4>3 DEF Longer, MinWait
    <3>3. CASE ~InsertsFirst(wait)
      <4>1. UNCHANGED fdVars
        BY <2>1, <3>3 DEF AddTimerInloop
      <4>2. PICK v \in timers_ : ~(wait < left[v])
        BY <3>3 DEF InsertsFirst
      <4>3. armed > 0 /\ \A u \in timers_ : Covered(u)
        BY <2>1, <4>1, <4>2 DEF ArmedInTime
      <4>4. left[v] \in Int /\ left[v] <= wait /\ ahead \in Nat /\ armed \in Nat
        BY <2>1, <4>2 DEF TypeOK
      <4>5. armed <= Longer(wait, MinWait) + ahead
        BY <4>2, <4>3, <4>4 DEF Longer, MinWait
      <4>6. QED
        BY <2>1, <3>1, <4>1, <4>3, <4>5
    <3>4. QED
      BY <3>2, <3>3
  <2>2. ASSUME NEW request \in Requests, AddTimer(request)
        PROVE  armed' > 0 /\ \A u \in timers_' : Covered(u)'
    <3>1. PICK t \in Timer \ heap :
             /\ NewTimer(t, request)
             /\ \/ /\ InLoopThread
                   /\ AddTimerInloop(t, request.left)
                   /\ UNCHANGED functors
                \/ /\ functors' = Append(functors, t)
                   /\ UNCHANGED <<timers_, fdVars>>
      BY <2>2 DEF AddTimer
    <3>2. pc' = pc /\ request.left \in Int
      BY <2>2, RequestType DEF AddTimer
    <3>3. left'[t] = request.left /\ \A u \in timers_ : left'[u] = left[u]
      BY <2>0, <3>1 DEF NewTimer, TypeOK
    <3>4. CASE AddTimerInloop(t, request.left)
      BY <2>1, <3>2, <3>3, <3>4
    <3>5. CASE UNCHANGED <<timers_, fdVars>>
      BY <3>2, <3>3, <3>5 DEF ArmedInTime
    <3>6. QED
      BY <3>1, <3>4, <3>5
  <2>3. CASE RunFunctor
    <3>1. Head(functors) \in Timer
      BY <2>3, HeadTailProperties DEF RunFunctor, TypeOK
    <3>2. left[Head(functors)] \in Int
      BY <3>1 DEF TypeOK
    <3>3. AddTimerInloop(Head(functors), left[Head(functors)]) /\ left' = left /\ pc = "loop"
      BY <2>3 DEF RunFunctor
    <3>4. QED
      BY <2>1, <3>1, <3>2, <3>3
  <2>4. CASE Poll
    BY <2>4 DEF Poll
  <2>5. CASE HandleRead
    BY <2>5 DEF HandleRead
  <2>6. CASE RunTimer
    BY <2>6 DEF RunTimer
  <2>7. CASE CallbackReturns
    BY <2>7 DEF CallbackReturns, OwnershipInvariant
  <2>8. CASE ResetTimers
    <3>1. PICK t \in timers_' : /\ \A u \in timers_' : left'[t] <= left'[u]
                                /\ ResetTimer(left'[t])
      BY <2>8 DEF ResetTimers, Rearm
    <3>2. \A u \in timers_' : left'[u] \in Int
      BY DEF TypeOK
    <3>3. armed' = Longer(left'[t], MinWait) /\ armed' > 0 /\ ahead' = 0
      BY <3>1, <3>2, ResetTimerArms
    <3>4. QED
      BY <3>1, <3>2, <3>3 DEF Longer, MinWait
  <2>9. CASE Destroy
    BY <2>9 DEF Destroy
  <2>10. CASE Tick
    <3>0. ~expired /\ armed # 1
      BY <2>10, Zenon DEF Tick
    <3>1. /\ armed > 1 /\ armed' = armed - 1
          /\ \A u \in timers_ : Covered(u)
          /\ timers_' = timers_ /\ ahead' = ahead
      BY <2>10, <3>0 DEF Tick, ArmedInTime, Longer, TypeOK
    <3>2. \A u \in timers_ : left[u] \in Int /\ left'[u] \in Int /\ left'[u] >= left[u] - 1
      BY <2>0, <2>10, TimeAssumption DEF Tick, MoveWallClock, Longer, TypeOK
    <3>3. armed \in Nat /\ ahead \in Nat
      BY DEF TypeOK
    <3>4. QED
      BY <3>1, <3>2, <3>3 DEF Longer, MinWait
  <2>11. CASE SetWallClock
    <3>1. PICK d \in {-1, 1} : MoveWallClock(d) /\ ahead' = ahead + Longer(d, 0)
      BY <2>11 DEF SetWallClock
    <3>2. /\ armed > 0 /\ armed' = armed
          /\ \A u \in timers_ : Covered(u)
          /\ timers_' = timers_
      BY <2>11 DEF SetWallClock, ArmedInTime
    <3>3. \A u \in timers_ : left[u] \in Int /\ left'[u] \in Int /\ left'[u] >= left[u] - d
      <4> SUFFICES ASSUME NEW u \in timers_
                   PROVE  left[u] \in Int /\ left'[u] \in Int /\ left'[u] >= left[u] - d
        OBVIOUS
      <4>1. u \in Timer /\ u \in heap /\ left[u] \in Int
        BY <2>0 DEF TypeOK
      <4>2. left'[u] = Longer(left[u] - d, -MaxLate)
        BY <3>1, <4>1 DEF MoveWallClock
      <4>3. d \in Int /\ MaxLate \in Nat
        BY <3>1, TimeAssumption
      <4>4. QED
        BY <4>1, <4>2, <4>3 DEF Longer
    <3>4. armed \in Nat /\ ahead \in Nat
      BY DEF TypeOK
    <3>5. QED
      BY <3>1, <3>2, <3>3, <3>4 DEF Longer, MinWait
  <2>12. CASE UNCHANGED vars
    BY <2>12 DEF vars, ArmedInTime
  <2>13. QED
    BY <2>2, <2>3, <2>4, <2>5, <2>6, <2>7, <2>8, <2>9, <2>10, <2>11, <2>12
       DEF Next
<1>3. QED
  BY <1>1, <1>2, TypeCorrect, OwnershipInvariantHolds, PTL DEF Spec

=============================================================================
