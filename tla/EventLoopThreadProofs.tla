------------------------ MODULE EventLoopThreadProofs ------------------------
(***************************************************************************)
(* Proofs about EventLoopThread for any functors, channels and threads:    *)
(* its type invariant, that it runs an EventLoop, what startLoop returns   *)
(* and when the destructor may end.                                        *)
(***************************************************************************)
EXTENDS EventLoopThread, SequenceTheorems, TLAPS

(***************************************************************************)
(* Whatever the threads do to the loop is a step of module EventLoop: what *)
(* holds of every behaviour of an EventLoop holds of this one.             *)
(***************************************************************************)
LEMMA LoopSteps ==
    ASSUME Next
    PROVE  \/ \E th \in Loop!Thread : Loop!Call(th) \/ Loop!Wakeup(th)
           \/ Loop!Run
           \/ UNCHANGED eventLoopVars
<1>1. IoThread \in Loop!Thread /\ Owner \in Loop!Thread /\ User \in Loop!Thread
  BY DEF Loop!Thread
<1>2. CASE RunLoop
  BY <1>1, <1>2 DEF RunLoop
<1>3. CASE UserCalls \/ UserWakes
  BY <1>1, <1>3 DEF UserCalls, UserWakes
<1>4. CASE DestructorQuits
  BY <1>1, <1>4 DEF DestructorQuits, Loop!Call
<1>5. CASE DestructorWakes
  BY <1>1, <1>5 DEF DestructorWakes
<1>6. QED
  BY <1>2, <1>3, <1>4, <1>5
     DEF Next, SpuriousWakeup, Start, WaitLatch, WaitLoop, ReturnLoop, CountDown,
         Publish, ClearLoop, Exit, Destroy, Join

\* The composition implements EventLoop: every step of owner, user and thread is
\* one of the loop or leaves the loop alone (EventLoopThread.cc:18-60).
THEOREM ImplementsEventLoopSafely == Spec => Loop!Init /\ [][Loop!Next]_(Loop!vars)
<1>1. Init => Loop!Init
  BY DEF Init
<1>2. [Next]_vars => [Loop!Next]_(Loop!vars)
  <2>1. CASE Next
    <3>1. UNCHANGED eventLoopVars => UNCHANGED Loop!vars
      BY DEF eventLoopVars, Loop!vars, Loop!callVars, Loop!batchVars
    <3>2. QED
      BY <2>1, <3>1, LoopSteps DEF Loop!Next
  <2>2. CASE UNCHANGED vars
    BY <2>2 DEF vars, eventLoopVars, Loop!vars, Loop!callVars, Loop!batchVars
  <2>3. QED
    BY <2>1, <2>2
<1>3. QED
  BY <1>1, <1>2, PTL DEF Spec

\* The steps of EventLoop keep its type invariant.
LEMMA LoopType ==
    ASSUME Loop!TypeOK,
           \/ \E th \in Loop!Thread : Loop!Call(th) \/ Loop!Wakeup(th)
           \/ Loop!Run
           \/ UNCHANGED eventLoopVars
    PROVE  Loop!TypeOK'
<1> USE DEF Loop!TypeOK, Loop!PC, Loop!callVars, Loop!batchVars
<1>1. ASSUME NEW th \in Loop!Thread, NEW t \in Task, Loop!QueueInLoop(th, t)
      PROVE  Loop!TypeOK'
  BY <1>1, AppendProperties DEF Loop!QueueInLoop
<1>2. ASSUME NEW t \in Task, Loop!CallDirectly(t)
      PROVE  Loop!TypeOK'
  BY <1>2, AppendProperties DEF Loop!CallDirectly
<1>3. ASSUME NEW th \in Loop!Thread, Loop!Quit(th)
      PROVE  Loop!TypeOK'
  BY <1>3 DEF Loop!Quit
<1>4. ASSUME NEW th \in Loop!Thread, Loop!Wakeup(th)
      PROVE  Loop!TypeOK'
  BY <1>4 DEF Loop!Wakeup
<1>5. CASE Loop!StartLoop \/ Loop!TestQuit
  BY <1>5 DEF Loop!StartLoop, Loop!TestQuit
<1>6. CASE Loop!PollEvents \/ Loop!PollTimeout
  BY <1>6 DEF Loop!PollEvents, Loop!PollTimeout, Loop!Readable
<1>7. CASE Loop!HandleRead \/ Loop!HandlerReturns \/ \E c \in Channel : Loop!HandleEvent(c)
  BY <1>7 DEF Loop!HandleRead, Loop!HandlerReturns, Loop!HandleEvent
<1>8. CASE Loop!DoPendingFunctors
  BY <1>8 DEF Loop!DoPendingFunctors
<1>9. CASE Loop!SwapFunctors
  BY <1>9, EmptySeq DEF Loop!SwapFunctors
<1>10. CASE Loop!CallFunctor
  BY <1>10, AppendProperties, HeadTailProperties DEF Loop!CallFunctor
<1>11. CASE Loop!FunctorReturns \/ Loop!FinishFunctors
  BY <1>11 DEF Loop!FunctorReturns, Loop!FinishFunctors
<1>12. CASE UNCHANGED eventLoopVars
  BY <1>12 DEF eventLoopVars
<1>13. QED
  BY <1>1, <1>2, <1>3, <1>4, <1>5, <1>6, <1>7, <1>8, <1>9, <1>10, <1>11, <1>12
     DEF Loop!Call, Loop!RunInLoop, Loop!Run

-----------------------------------------------------------------------------
(***************************************************************************)
(* Why startLoop returns a loop.  Until it returns nobody knows the loop:  *)
(* no functor is handed to it, no user channel is in it and nobody has it  *)
(* quit, so that loop() does not return and loop_, once set, stays set     *)
(* from startLoop's test to its second, unlocked read.  The latch and the  *)
(* test keep the owner behind the thread; the thread only moves on.        *)
(***************************************************************************)
Quiet ==
    /\ pc \in {"before", "test", "poll", "dispatch", "swap", "run"}
    /\ ~quit_
    /\ activeChannels_ \subseteq {WakeupChannel}
    /\ pendingFunctors_ = <<>> /\ localFunctors = <<>>
    /\ waking = {}

\* Where the thread is at each stage of the owner: the loop is published while the
\* owner returns it, and nobody has used it before.
HandshakeInvariant ==
    /\ result = "none" => Quiet
    /\ owner \in {"latch", "latchAsleep", "test", "testAsleep", "return"} => result = "none"
    /\ owner \in {"using", "quit", "wakeup", "join"} => result # "none"
    /\ result # "NULL"
    /\ loop_ <=> thread = "looping"
    /\ owner = "return" => loop_
    /\ owner = "new" => thread = "none" /\ result = "none"
    /\ owner \in {"using", "quit", "wakeup", "join"} => thread \in {"looping", "leaving", "exited"}
    /\ MembersOutliveThread

\* The latch of Thread::start is down exactly when the thread runs.
Latch ==
    /\ count_ = IF thread \in {"none", "created"} THEN 1 ELSE 0
    /\ owner = "new" => thread = "none"

(***************************************************************************)
(* The fields of the EventLoopThread and of its loop keep their types      *)
(* (EventLoopThread.cc:18-60, CountDownLatch.cc, EventLoop.cc).            *)
(***************************************************************************)
THEOREM TypeCorrect == Spec => []TypeOK
<1>1. Init => TypeOK /\ Latch
  <2> SUFFICES ASSUME Init
               PROVE  TypeOK /\ Latch
    OBVIOUS
  <2>1. Loop!TypeOK
    <3>1. pendingFunctors_ \in Seq(Task) /\ localFunctors \in Seq(Task) /\ done \in Seq(Task)
      BY EmptySeq DEF Init, Loop!Init
    <3>2. QED
      BY <3>1 DEF Init, Loop!Init, Loop!TypeOK, Loop!PC
  <2>2. QED
    BY <2>1 DEF Init, TypeOK, Latch, OwnerPC
<1>2. TypeOK /\ Latch /\ [Next]_vars => TypeOK' /\ Latch'
  <2> SUFFICES ASSUME TypeOK, Latch, [Next]_vars
               PROVE  TypeOK' /\ Latch'
    OBVIOUS
  <2>1. Loop!TypeOK'
    <3>1. CASE Next
      BY <3>1, LoopSteps, LoopType DEF TypeOK
    <3>2. CASE UNCHANGED vars
      BY <3>2, LoopType DEF TypeOK, vars
    <3>3. QED
      BY <3>1, <3>2
  <2> DEFINE Fields == /\ owner \in OwnerPC
                       /\ thread \in {"none", "created", "running", "looping",
                                     "leaving", "exited"}
                       /\ count_ \in {0, 1} /\ Latch
                       /\ result \in {"none", "NULL", "loop"}
  <2>2. Fields'
    <3> USE DEF TypeOK, Latch, OwnerPC
    <3>1. CASE SpuriousWakeup \/ Start \/ WaitLatch \/ WaitLoop \/ ReturnLoop
      BY <3>1 DEF SpuriousWakeup, Start, WaitLatch, WaitLoop, ReturnLoop
    <3>2. CASE CountDown \/ Publish
      BY <3>2 DEF CountDown, Publish, Awakened
    <3>3. CASE ClearLoop \/ Exit
      BY <3>3 DEF ClearLoop, Exit
    <3>4. CASE RunLoop \/ UserCalls \/ UserWakes
      BY <3>4 DEF RunLoop, UserCalls, UserWakes
    <3>5. CASE Destroy \/ DestructorQuits \/ DestructorWakes \/ Join
      BY <3>5 DEF Destroy, DestructorQuits, DestructorWakes, Join
    <3>6. CASE UNCHANGED vars
      BY <3>6 DEF vars
    <3>7. QED
      BY <3>1, <3>2, <3>3, <3>4, <3>5, <3>6 DEF Next
  <2>3. loop_' \in BOOLEAN
    BY Zenon DEF TypeOK, Next, SpuriousWakeup, Start, WaitLatch, WaitLoop, ReturnLoop,
                 CountDown, Publish, RunLoop, ClearLoop, Exit, UserCalls, UserWakes,
                 Destroy, DestructorQuits, DestructorWakes, Join, vars
  <2>4. QED
    BY <2>1, <2>2, <2>3 DEF TypeOK
<1>3. QED
  BY <1>1, <1>2, PTL DEF Spec

\* Before startLoop returns a step of the loop's thread leaves it quiet.
LEMMA QuietLoop ==
    ASSUME TypeOK, Quiet, RunLoop, result = "none"
    PROVE  Quiet'
<1> USE DEF Quiet, Loop!callVars, Loop!batchVars
<1>1. ~Loop!Call(IoThread) /\ ~Loop!Wakeup(IoThread)
  BY DEF Loop!Call, Loop!QueueInLoop, Loop!RunInLoop, Loop!CallDirectly, Loop!Quit,
         Loop!MayCall, Loop!InCallback, Loop!Wakeup
<1>2. Loop!Run /\ activeChannels_' \subseteq {WakeupChannel}
  BY <1>1 DEF RunLoop
<1>3. CASE Loop!StartLoop
  BY <1>3 DEF Loop!StartLoop
<1>4. CASE Loop!TestQuit
  BY <1>4 DEF Loop!TestQuit
<1>5. CASE Loop!PollEvents \/ Loop!PollTimeout
  BY <1>2, <1>5 DEF Loop!PollEvents, Loop!PollTimeout
<1>6. CASE Loop!HandleRead
  BY <1>2, <1>6 DEF Loop!HandleRead
<1>7. ASSUME NEW c \in Channel, Loop!HandleEvent(c)
      PROVE  FALSE
  BY <1>7, ThreadsDiffer DEF Loop!HandleEvent
<1>8. CASE Loop!DoPendingFunctors
  BY <1>8 DEF Loop!DoPendingFunctors
<1>9. CASE Loop!SwapFunctors
  BY <1>9 DEF Loop!SwapFunctors
<1>10. CASE Loop!FinishFunctors
  BY <1>10 DEF Loop!FinishFunctors
<1>11. QED
  BY <1>2, <1>3, <1>4, <1>5, <1>6, <1>7, <1>8, <1>9, <1>10
     DEF Loop!Run, Loop!HandlerReturns, Loop!CallFunctor, Loop!FunctorReturns

\* At each stage of startLoop and of the destructor the thread is where the owner
\* relies on its being (EventLoopThread.cc:18-60).
THEOREM HandshakeInvariantHolds == Spec => []HandshakeInvariant
<1>1. Init => HandshakeInvariant
  BY DEF Init, Loop!Init, HandshakeInvariant, Quiet, MembersOutliveThread
<1>2. TypeOK /\ HandshakeInvariant /\ [Next]_vars => HandshakeInvariant'
  <2> SUFFICES ASSUME TypeOK, HandshakeInvariant, [Next]_vars
               PROVE  HandshakeInvariant'
    OBVIOUS
  <2>1. UNCHANGED eventLoopVars /\ Quiet => Quiet'
    BY DEF eventLoopVars, Quiet
  <2> USE DEF HandshakeInvariant, MembersOutliveThread
  <2>2. CASE SpuriousWakeup
    BY <2>1, <2>2 DEF SpuriousWakeup
  <2>3. CASE Start
    BY <2>1, <2>3 DEF Start
  <2>4. CASE WaitLatch
    BY <2>1, <2>4 DEF WaitLatch
  <2>5. CASE WaitLoop
    BY <2>1, <2>5 DEF WaitLoop
  <2>6. CASE ReturnLoop
    BY <2>1, <2>6 DEF ReturnLoop
  <2>7. CASE CountDown
    BY <2>1, <2>7 DEF CountDown, Awakened
  <2>8. CASE Publish
    BY <2>1, <2>8 DEF Publish, Awakened
  <2>9. CASE ClearLoop
    BY <2>1, <2>9 DEF ClearLoop, Quiet
  <2>10. CASE Exit
    BY <2>1, <2>10 DEF Exit
  <2>11. CASE Destroy
    BY <2>1, <2>11 DEF Destroy, TypeOK
  <2>12. CASE Join
    BY <2>1, <2>12 DEF Join
  <2>13. CASE RunLoop
    BY QuietLoop, <2>13 DEF RunLoop
  <2>14. CASE UserCalls
    BY <2>14 DEF UserCalls
  <2>15. CASE UserWakes
    BY <2>15 DEF UserWakes, Quiet, Loop!Wakeup
  <2>16. CASE DestructorQuits
    BY <2>16 DEF DestructorQuits
  <2>17. CASE DestructorWakes
    BY <2>17 DEF DestructorWakes
  <2>18. CASE UNCHANGED vars
    BY <2>1, <2>18 DEF vars
  <2>19. QED
    BY <2>2, <2>3, <2>4, <2>5, <2>6, <2>7, <2>8, <2>9,
       <2>10, <2>11, <2>12, <2>13, <2>14, <2>15, <2>16, <2>17, <2>18
       DEF Next
<1>3. QED
  BY <1>1, <1>2, TypeCorrect, PTL DEF Spec

(***************************************************************************)
(* startLoop never returns NULL (EventLoopThread.cc:28-39), although it    *)
(* reads loop_ a second time without the mutex.                            *)
(***************************************************************************)
THEOREM StartLoopReturnsLoopHolds == Spec => []StartLoopReturnsLoop
<1>1. HandshakeInvariant => StartLoopReturnsLoop
  BY DEF HandshakeInvariant, StartLoopReturnsLoop
<1>2. QED
  BY <1>1, HandshakeInvariantHolds, PTL

(***************************************************************************)
(* When the destructor is done the thread has cleared loop_ or was never   *)
(* started (EventLoopThread.cc:18-26, 42-60).                              *)
(***************************************************************************)
THEOREM MembersOutliveThreadHolds == Spec => []MembersOutliveThread
<1>1. HandshakeInvariant => MembersOutliveThread
  BY DEF HandshakeInvariant
<1>2. QED
  BY <1>1, HandshakeInvariantHolds, PTL

=============================================================================
