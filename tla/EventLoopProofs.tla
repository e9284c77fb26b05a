-------------------------- MODULE EventLoopProofs ---------------------------
(***************************************************************************)
(* Proofs about EventLoop for any functors, threads and channels: its type *)
(* invariant, the two wakeup invariants, and that every step of the loop   *)
(* is a step of the TaskExecutor it implements (safety part).              *)
(***************************************************************************)
EXTENDS EventLoop, SequenceTheorems, TLAPS

(***************************************************************************)
(* The fields of the loop keep their types under every call and every step *)
(* of the loop's thread (EventLoop.cc:70-176).                             *)
(***************************************************************************)
THEOREM TypeCorrect == Spec => []TypeOK
<1>1. Init => TypeOK
  <2> SUFFICES ASSUME Init
               PROVE  TypeOK
    OBVIOUS
  <2>1. /\ pendingFunctors_ \in Seq(Task)
        /\ localFunctors \in Seq(Task)
        /\ done \in Seq(Task)
    BY EmptySeq DEF Init
  <2>2. QED
    BY <2>1 DEF Init, TypeOK, PC
<1>2. TypeOK /\ [Next]_vars => TypeOK'
  <2> SUFFICES ASSUME TypeOK, [Next]_vars
               PROVE  TypeOK'
    OBVIOUS
  <2> USE DEF TypeOK, PC, callVars, batchVars
  <2>1. ASSUME NEW th \in Thread, NEW t \in Task, QueueInLoop(th, t)
        PROVE  TypeOK'
    BY <2>1, AppendProperties DEF QueueInLoop
  <2>2. ASSUME NEW t \in Task, CallDirectly(t)
        PROVE  TypeOK'
    BY <2>2, AppendProperties DEF CallDirectly
  <2>3. ASSUME NEW th \in Thread, NEW t \in Task, RunInLoop(th, t)
        PROVE  TypeOK'
    BY <2>1, <2>2, <2>3 DEF RunInLoop
  <2>4. ASSUME NEW th \in Thread, Quit(th)
        PROVE  TypeOK'
    BY <2>4 DEF Quit
  <2>5. ASSUME NEW th \in Thread, Wakeup(th)
        PROVE  TypeOK'
    BY <2>5 DEF Wakeup
  <2>6. CASE StartLoop
    BY <2>6 DEF StartLoop
  <2>7. CASE TestQuit
    BY <2>7 DEF TestQuit
  <2>8. CASE PollEvents
    BY <2>8 DEF PollEvents, Readable
  <2>9. CASE PollTimeout
    BY <2>9 DEF PollTimeout
  <2>10. CASE HandleRead
    BY <2>10 DEF HandleRead
  <2>11. ASSUME NEW c \in Channel, HandleEvent(c)
         PROVE  TypeOK'
    BY <2>11 DEF HandleEvent
  <2>12. CASE HandlerReturns
    BY <2>12 DEF HandlerReturns
  <2>13. CASE DoPendingFunctors
    BY <2>13 DEF DoPendingFunctors
  <2>14. CASE SwapFunctors
    BY <2>14, EmptySeq DEF SwapFunctors
  <2>15. CASE CallFunctor
    BY <2>15, AppendProperties, HeadTailProperties DEF CallFunctor
  <2>16. CASE FunctorReturns
    BY <2>16 DEF FunctorReturns
  <2>17. CASE FinishFunctors
    BY <2>17 DEF FinishFunctors
  <2>18. CASE UNCHANGED vars
    BY <2>18 DEF vars
  <2>19. QED
    BY <2>1, <2>3, <2>4, <2>5, <2>6, <2>7, <2>8, <2>9, <2>10, <2>11, <2>12,
       <2>13, <2>14, <2>15, <2>16, <2>17, <2>18
       DEF Next, Call, Run
<1>3. QED
  BY <1>1, <1>2, PTL DEF Spec

-----------------------------------------------------------------------------
(***************************************************************************)
(* Why no wakeup is lost.  Between the swap and the next poll (and before  *)
(* the first) a pending functor has a wakeup behind it, since whoever      *)
(* queues one then writes the eventfd: another thread always, the loop's   *)
(* thread because callingPengdingChannel_ holds in every functor.  Between *)
(* the poll and the swap it needs none: the swap is still to come.  The    *)
(* batch is used up when the swap comes, so that the swap drops nothing.   *)
(***************************************************************************)
LoopInvariant ==
    /\ callingPengdingChannel_ <=> pc \in {"swap", "run", "functor"}
    /\ /\ pc \notin {"dispatch", "handler", "swap"}
       /\ pendingFunctors_ # <<>>
       => WakeupComing
    /\ QuitWakesPoll
    /\ localFunctors # <<>> => pc \in {"run", "functor"}

\* Every pending functor that no swap will fetch has its wakeup, and only
\* doPendingFunctors sets the flag that queueInLoop looks at (EventLoop.cc:122-176).
THEOREM LoopInvariantHolds == Spec => []LoopInvariant
<1>1. Init => LoopInvariant
  BY DEF Init, LoopInvariant, QuitWakesPoll
<1>2. TypeOK /\ LoopInvariant /\ [Next]_vars => LoopInvariant'
  <2> SUFFICES ASSUME TypeOK, LoopInvariant, [Next]_vars
               PROVE  LoopInvariant'
    OBVIOUS
  <2> USE DEF LoopInvariant, QuitWakesPoll, WakeupComing, callVars, batchVars
  <2> USE DEF TypeOK
  <2>1. ASSUME NEW th \in Thread, NEW t \in Task, QueueInLoop(th, t)
        PROVE  LoopInvariant'
    BY <2>1 DEF QueueInLoop, NeedsWakeup, MayCall, InCallback
  <2>2. ASSUME NEW t \in Task, CallDirectly(t)
        PROVE  LoopInvariant'
    BY <2>2 DEF CallDirectly
  <2>3. ASSUME NEW th \in Thread, NEW t \in Task, RunInLoop(th, t)
        PROVE  LoopInvariant'
    BY <2>1, <2>2, <2>3 DEF RunInLoop
  <2>4. ASSUME NEW th \in Thread, Quit(th)
        PROVE  LoopInvariant'
    BY <2>4 DEF Quit, MayCall, InCallback
  <2>5. ASSUME NEW th \in Thread, Wakeup(th)
        PROVE  LoopInvariant'
    BY <2>5 DEF Wakeup
  <2>6. CASE StartLoop
    BY <2>6 DEF StartLoop
  <2>7. CASE TestQuit
    BY <2>7 DEF TestQuit
  <2>8. CASE PollEvents
    BY <2>8 DEF PollEvents
  <2>9. CASE PollTimeout
    BY <2>9 DEF PollTimeout
  <2>10. CASE HandleRead
    BY <2>10 DEF HandleRead
  <2>11. ASSUME NEW c \in Channel, HandleEvent(c)
         PROVE  LoopInvariant'
    BY <2>11 DEF HandleEvent
  <2>12. CASE HandlerReturns
    BY <2>12 DEF HandlerReturns
  <2>13. CASE DoPendingFunctors
    BY <2>13 DEF DoPendingFunctors
  <2>14. CASE SwapFunctors
    BY <2>14 DEF SwapFunctors
  <2>15. CASE CallFunctor
    BY <2>15 DEF CallFunctor
  <2>16. CASE FunctorReturns
    BY <2>16 DEF FunctorReturns
  <2>17. CASE FinishFunctors
    BY <2>17 DEF FinishFunctors
  <2>18. CASE UNCHANGED vars
    BY <2>18 DEF vars
  <2>19. QED
    BY <2>1, <2>3, <2>4, <2>5, <2>6, <2>7, <2>8, <2>9, <2>10, <2>11, <2>12,
       <2>13, <2>14, <2>15, <2>16, <2>17, <2>18
       DEF Next, Call, Run
<1>3. QED
  BY <1>1, <1>2, TypeCorrect, PTL DEF Spec

(***************************************************************************)
(* queueInLoop: the loop never sleeps in epoll_wait on a pending functor   *)
(* without a wakeup under way.                                             *)
(***************************************************************************)
THEOREM NoLostWakeupHolds == Spec => []NoLostWakeup
<1>1. LoopInvariant => NoLostWakeup
  BY DEF LoopInvariant, NoLostWakeup
<1>2. QED
  BY <1>1, LoopInvariantHolds, PTL

(***************************************************************************)
(* quit: the loop never sleeps in epoll_wait with the flag set and no      *)
(* wakeup under way.                                                       *)
(***************************************************************************)
THEOREM QuitWakesPollHolds == Spec => []QuitWakesPoll
<1>1. LoopInvariant => QuitWakesPoll
  BY DEF LoopInvariant
<1>2. QED
  BY <1>1, LoopInvariantHolds, PTL

-----------------------------------------------------------------------------
(***************************************************************************)
(* The mapping to the executor.  Its queue is what is left of the batch    *)
(* followed by the pending functors.                                       *)
(***************************************************************************)

\* What arrives at the end of the pending functors arrives at the end of the
\* executor's queue.
LEMMA AppendToQueue ==
    ASSUME NEW S, NEW batch \in Seq(S), NEW pending \in Seq(S), NEW e \in S
    PROVE  batch \o Append(pending, e) = Append(batch \o pending, e)
<1>1. /\ Append(pending, e) = pending \o <<e>>
      /\ Append(batch \o pending, e) = (batch \o pending) \o <<e>>
  BY AppendIsConcat, ConcatProperties
<1>2. <<e>> \in Seq(S)
  OBVIOUS
<1>3. (batch \o pending) \o <<e>> = batch \o (pending \o <<e>>)
  BY <1>2, ConcatAssociative
<1>4. QED
  BY <1>1, <1>3

\* The head of the batch is the head of the executor's queue.
LEMMA TakeFromBatch ==
    ASSUME NEW S, NEW batch \in Seq(S), NEW pending \in Seq(S), batch # <<>>
    PROVE  /\ batch \o pending # <<>>
           /\ Head(batch \o pending) = Head(batch)
           /\ Tail(batch \o pending) = Tail(batch) \o pending
<1> DEFINE q == batch \o pending
<1>1. /\ q \in Seq(S)
      /\ Len(q) = Len(batch) + Len(pending)
      /\ \A i \in 1 .. Len(q) :
            q[i] = IF i <= Len(batch) THEN batch[i] ELSE pending[i - Len(batch)]
  BY ConcatProperties
<1>2. Len(batch) \in Nat \ {0} /\ Len(pending) \in Nat
  BY EmptySeq, LenProperties
<1>3. q # <<>> /\ Head(q) = Head(batch)
  BY <1>1, <1>2, EmptySeq
<1>4. /\ Tail(batch) \in Seq(S)
      /\ Len(Tail(batch)) = Len(batch) - 1
      /\ \A i \in 1 .. Len(Tail(batch)) : Tail(batch)[i] = batch[i + 1]
  BY HeadTailProperties
<1>5. /\ Tail(q) \in Seq(S)
      /\ Len(Tail(q)) = Len(q) - 1
      /\ \A i \in 1 .. Len(Tail(q)) : Tail(q)[i] = q[i + 1]
  BY <1>1, <1>3, HeadTailProperties
<1> DEFINE r == Tail(batch) \o pending
<1>6. /\ r \in Seq(S)
      /\ Len(r) = Len(Tail(batch)) + Len(pending)
      /\ \A i \in 1 .. Len(r) :
            r[i] = IF i <= Len(Tail(batch)) THEN Tail(batch)[i]
                   ELSE pending[i - Len(Tail(batch))]
  BY <1>4, ConcatProperties
<1> HIDE DEF q, r
<1>7. Len(Tail(q)) = Len(r)
  BY <1>1, <1>2, <1>4, <1>5, <1>6
<1>8. ASSUME NEW i \in 1 .. Len(Tail(q))
      PROVE  Tail(q)[i] = r[i]
  <2>1. i \in 1 .. Len(r) /\ i + 1 \in 1 .. Len(q) /\ i \in Nat
    BY <1>1, <1>2, <1>4, <1>5, <1>6, <1>7
  <2>2. CASE i <= Len(Tail(batch))
    BY <2>1, <2>2, <1>1, <1>2, <1>4, <1>5, <1>6
  <2>3. CASE ~(i <= Len(Tail(batch)))
    <3>1. r[i] = pending[i - (Len(batch) - 1)]
      BY <2>1, <2>3, <1>4, <1>6
    <3>2. Tail(q)[i] = q[i + 1]
      BY <1>5
    <3>3. ~(i + 1 <= Len(batch))
      BY <2>1, <2>3, <1>2, <1>4
    <3>4. q[i + 1] = pending[(i + 1) - Len(batch)]
      BY <2>1, <3>3, <1>1
    <3>5. (i + 1) - Len(batch) = i - (Len(batch) - 1)
      BY <2>1, <1>2
    <3>6. QED
      BY <3>1, <3>2, <3>4, <3>5
  <2>4. QED
    BY <2>2, <2>3
<1>9. Tail(q) = r
  BY <1>5, <1>6, <1>7, <1>8, SeqEqual
<1>10. QED
  BY <1>3, <1>9 DEF q, r

(***************************************************************************)
(* Every step of the loop and of its callers is a step of the executor or  *)
(* leaves it alone: functors are called in the order in which they were    *)
(* queued, none twice, none that was not queued or called directly.        *)
(***************************************************************************)
THEOREM ImplementsExecutorSafely == Spec => Executor!SafeSpec
<1> USE DEF Executor!vars, looping_
<1>1. Init => Executor!Init
  BY DEF Init, Executor!Init
<1>2. TypeOK /\ LoopInvariant /\ [Next]_vars => [Executor!Next]_(Executor!vars)
  <2> SUFFICES ASSUME TypeOK, LoopInvariant, [Next]_vars
               PROVE  [Executor!Next]_(Executor!vars)
    OBVIOUS
  <2> DEFINE Unmoved == UNCHANGED <<pc, submitted, localFunctors,
                                    pendingFunctors_, done>>
  <2>0. Unmoved => UNCHANGED Executor!vars
    OBVIOUS
  <2> USE DEF callVars, batchVars
  <2>1. ASSUME NEW th \in Thread, NEW t \in Task, QueueInLoop(th, t)
        PROVE  Executor!Submit(t)
    <3>1. localFunctors \o Append(pendingFunctors_, t)
            = Append(localFunctors \o pendingFunctors_, t)
      BY AppendToQueue DEF TypeOK
    <3>2. QED
      BY <2>1, <3>1 DEF QueueInLoop, Executor!Submit
  <2>2. ASSUME NEW t \in Task, CallDirectly(t)
        PROVE  Executor!ExecuteDirectly(t)
    BY <2>2 DEF CallDirectly, MayCall, InCallback, Executor!ExecuteDirectly
  <2>3. ASSUME NEW th \in Thread, NEW t \in Task, RunInLoop(th, t)
        PROVE  Executor!Submit(t) \/ Executor!ExecuteDirectly(t)
    BY <2>1, <2>2, <2>3 DEF RunInLoop
  <2>4. ASSUME NEW th \in Thread, Quit(th)
        PROVE  Unmoved
    BY <2>4 DEF Quit
  <2>5. ASSUME NEW th \in Thread, Wakeup(th)
        PROVE  Unmoved
    BY <2>5 DEF Wakeup
  <2>6. CASE StartLoop
    BY <2>6 DEF StartLoop, Executor!Next, Executor!Start
  <2>7. CASE TestQuit
    BY <2>7 DEF TestQuit, Executor!Next, Executor!Stop
  <2>8. CASE PollEvents
    BY <2>8 DEF PollEvents
  <2>9. CASE PollTimeout
    BY <2>9 DEF PollTimeout
  <2>10. CASE HandleRead
    BY <2>10 DEF HandleRead
  <2>11. ASSUME NEW c \in Channel, HandleEvent(c)
         PROVE  UNCHANGED Executor!vars
    BY <2>11 DEF HandleEvent
  <2>12. CASE HandlerReturns
    BY <2>12 DEF HandlerReturns
  <2>13. CASE DoPendingFunctors
    BY <2>13 DEF DoPendingFunctors
  <2>14. CASE SwapFunctors
    <3>1. localFunctors = <<>>
      BY <2>14 DEF SwapFunctors, LoopInvariant
    <3>2. <<>> \o pendingFunctors_ = pendingFunctors_ \o <<>>
      BY ConcatEmptySeq DEF TypeOK
    <3>3. QED
      BY <2>14, <3>1, <3>2 DEF SwapFunctors
  <2>15. CASE CallFunctor
    <3>1. /\ localFunctors \o pendingFunctors_ # <<>>
          /\ Head(localFunctors \o pendingFunctors_) = Head(localFunctors)
          /\ Tail(localFunctors \o pendingFunctors_)
               = Tail(localFunctors) \o pendingFunctors_
      BY <2>15, TakeFromBatch DEF TypeOK, CallFunctor
    <3>2. Executor!Execute
      BY <2>15, <3>1 DEF CallFunctor, Executor!Execute
    <3>3. QED
      BY <3>2 DEF Executor!Next
  <2>16. CASE FunctorReturns
    BY <2>16 DEF FunctorReturns
  <2>17. CASE FinishFunctors
    BY <2>17 DEF FinishFunctors
  <2>18. CASE UNCHANGED vars
    BY <2>18 DEF vars
  <2> HIDE DEF Unmoved
  <2>19. QED
    BY <2>0, <2>1, <2>3, <2>4, <2>5, <2>6, <2>7, <2>8, <2>9, <2>10, <2>11,
       <2>12, <2>13, <2>14, <2>15, <2>16, <2>17, <2>18
       DEF Next, Call, Run, Executor!Next
<1>3. QED
  BY <1>1, <1>2, TypeCorrect, LoopInvariantHolds, PTL
     DEF Spec, Executor!SafeSpec

=============================================================================
