--------------------------- MODULE EventLoopThread ---------------------------
(***************************************************************************)
(* An EventLoopThread (Net/EventLoopThread.cc): the thread that owns it    *)
(* and calls startLoop and the destructor, the thread it starts, whose     *)
(* stack holds the EventLoop, and a user to whom the owner gave the loop.  *)
(* The loop itself is module EventLoop; a step here is one of its steps or *)
(* one of the code around it.                                              *)
(*                                                                         *)
(* A wait on a condition variable is three steps: the test under the       *)
(* mutex, the sleep, and the wakening, which may be spurious.  loop_ is    *)
(* read under the mutex in startLoop's test only, as in the code.          *)
(***************************************************************************)
EXTENDS Integers, Sequences

CONSTANTS
    Task, Channel, WakeupChannel,
    IoThread,        \* the thread that is started
    Owner,           \* the thread that owns the EventLoopThread
    User             \* another thread that calls into the loop

ASSUME ThreadsDiffer ==
    /\ IoThread # Owner /\ IoThread # User /\ Owner # User
    /\ WakeupChannel \notin Channel

VARIABLES
    pc, quit_, callingPengdingChannel_, activeChannels_, pendingFunctors_,
    localFunctors, wakeupFd_, waking, submitted, quitters, done,
    owner,           \* where the owner is
    thread,          \* where the started thread is, outside the loop
    count_,          \* the CountDownLatch of Thread::start
    loop_,           \* whether the field points to the loop
    result           \* history: what startLoop has returned

eventLoopVars == <<pc, quit_, callingPengdingChannel_, activeChannels_,
                   pendingFunctors_, localFunctors, wakeupFd_, waking,
                   submitted, quitters, done>>
vars == <<eventLoopVars, owner, thread, count_, loop_, result>>

Loop == INSTANCE EventLoop WITH OtherThread <- {Owner, User}

OwnerPC == {"new", "latch", "latchAsleep", "test", "testAsleep", "return",
            "using", "quit", "wakeup", "join", "destroyed"}

Init ==
    /\ Loop!Init
    /\ owner = "new"
    /\ thread = "none"
    /\ count_ = 1
    /\ loop_ = FALSE
    /\ result = "none"

-----------------------------------------------------------------------------
(* Condition::notify and notifyAll: the owner is the only one who waits.   *)

Awakened(asleep, awake) == IF owner = asleep THEN awake ELSE owner

\* Mutant: startLoop tests loop_ with if, not with while.
WakeupUntested ==
    /\ \/ owner = "latchAsleep" /\ owner' = "latch"
       \/ owner = "testAsleep" /\ owner' = "return"
    /\ UNCHANGED <<eventLoopVars, thread, count_, loop_, result>>

SpuriousWakeup ==
    /\ \/ owner = "latchAsleep" /\ owner' = "latch"
       \/ owner = "testAsleep" /\ owner' = "test"
    /\ UNCHANGED <<eventLoopVars, thread, count_, loop_, result>>

-----------------------------------------------------------------------------
(* startLoop.                                                              *)

\* Thread::start creates the thread ...
Start ==
    /\ owner = "new"
    /\ owner' = "latch"
    /\ thread' = "created"
    /\ UNCHANGED <<eventLoopVars, count_, loop_, result>>

\* ... and waits until it runs.
WaitLatch ==
    /\ owner = "latch"
    /\ owner' = IF count_ > 0 THEN "latchAsleep" ELSE "test"
    /\ UNCHANGED <<eventLoopVars, thread, count_, loop_, result>>

WaitLoop ==
    /\ owner = "test"
    /\ owner' = IF loop_ THEN "return" ELSE "testAsleep"
    /\ UNCHANGED <<eventLoopVars, thread, count_, loop_, result>>

\* return loop_ reads the field again, after the mutex is released.
ReturnLoop ==
    /\ owner = "return"
    /\ owner' = "using"
    /\ result' = IF loop_ THEN "loop" ELSE "NULL"
    /\ UNCHANGED <<eventLoopVars, thread, count_, loop_>>

-----------------------------------------------------------------------------
(* The started thread.                                                     *)

CountDown ==
    /\ thread = "created"
    /\ thread' = "running"
    /\ count_' = count_ - 1
    /\ owner' = IF count_' = 0 THEN Awakened("latchAsleep", "latch") ELSE owner
    /\ UNCHANGED <<eventLoopVars, loop_, result>>

\* Mutant: threadFunc does not notify.
PublishSilently ==
    /\ thread = "running"
    /\ thread' = "looping"
    /\ loop_' = TRUE
    /\ UNCHANGED <<eventLoopVars, owner, count_, result>>

Publish ==
    /\ thread = "running"
    /\ thread' = "looping"
    /\ loop_' = TRUE
    /\ owner' = Awakened("testAsleep", "test")
    /\ UNCHANGED <<eventLoopVars, count_, result>>

\* Until startLoop returns nobody knows the loop: it has no user channels.
RunLoop ==
    /\ thread = "looping"
    /\ Loop!Run \/ Loop!Call(IoThread) \/ Loop!Wakeup(IoThread)
    /\ result = "none" => activeChannels_' \subseteq {WakeupChannel}
    /\ UNCHANGED <<owner, thread, count_, loop_, result>>

ClearLoop ==
    /\ thread = "looping"
    /\ pc = "stopped"
    /\ thread' = "leaving"
    /\ loop_' = FALSE
    /\ UNCHANGED <<eventLoopVars, owner, count_, result>>

\* Mutant: the thread counts down when it ends, too.
ExitCountsDown ==
    /\ thread = "leaving"
    /\ thread' = "exited"
    /\ count_' = count_ - 1
    /\ UNCHANGED <<eventLoopVars, owner, loop_, result>>

\* threadFunc returns: the EventLoop on its stack is destroyed.
Exit ==
    /\ thread = "leaving"
    /\ thread' = "exited"
    /\ UNCHANGED <<eventLoopVars, owner, count_, loop_, result>>

-----------------------------------------------------------------------------
(* The user of the loop calls it while it exists and the owner keeps the   *)
(* EventLoopThread.                                                        *)

UserCalls ==
    /\ owner = "using"
    /\ thread = "looping"
    /\ Loop!Call(User)
    /\ UNCHANGED <<owner, thread, count_, loop_, result>>

UserWakes ==
    /\ Loop!Wakeup(User)
    /\ UNCHANGED <<owner, thread, count_, loop_, result>>

-----------------------------------------------------------------------------
(* The destructor.  The user's calls have returned.                        *)

Destroy ==
    /\ owner \in {"new", "using"}
    /\ User \notin waking
    /\ owner' = IF loop_ THEN "quit" ELSE "destroyed"
    /\ UNCHANGED <<eventLoopVars, thread, count_, loop_, result>>

DestructorQuits ==
    /\ owner = "quit"
    /\ Loop!Quit(Owner)
    /\ owner' = "wakeup"
    /\ UNCHANGED <<thread, count_, loop_, result>>

\* Mutant: the destructor does not wait for the thread.
WakeAndLeave ==
    /\ owner = "wakeup"
    /\ Loop!Wakeup(Owner)
    /\ owner' = "destroyed"
    /\ UNCHANGED <<thread, count_, loop_, result>>

DestructorWakes ==
    /\ owner = "wakeup"
    /\ Loop!Wakeup(Owner)
    /\ owner' = "join"
    /\ UNCHANGED <<thread, count_, loop_, result>>

Join ==
    /\ owner = "join"
    /\ thread = "exited"
    /\ owner' = "destroyed"
    /\ UNCHANGED <<eventLoopVars, thread, count_, loop_, result>>

-----------------------------------------------------------------------------
OwnerStep == WaitLatch \/ WaitLoop \/ ReturnLoop \/ DestructorQuits
                \/ DestructorWakes \/ Join

ThreadStep == CountDown \/ Publish \/ ClearLoop \/ Exit

Next ==
    \/ SpuriousWakeup
    \/ Start
    \/ WaitLatch
    \/ WaitLoop
    \/ ReturnLoop
    \/ CountDown
    \/ Publish
    \/ RunLoop
    \/ ClearLoop
    \/ Exit
    \/ UserCalls
    \/ UserWakes
    \/ Destroy
    \/ DestructorQuits
    \/ DestructorWakes
    \/ Join

\* Every thread is scheduled.  Nobody has to start or destroy anything, a wait
\* need not wake up spuriously, and the loop gets no help from its timeout.
Fairness ==
    /\ WF_vars(OwnerStep)
    /\ WF_vars(ThreadStep)
    /\ WF_vars(RunLoop /\ Loop!LoopStep)
    /\ WF_vars(RunLoop /\ Loop!Wakeup(IoThread))
    /\ WF_vars(UserWakes)

Spec == Init /\ [][Next]_vars /\ Fairness

-----------------------------------------------------------------------------
TypeOK ==
    /\ Loop!TypeOK
    /\ owner \in OwnerPC
    /\ thread \in {"none", "created", "running", "looping", "leaving", "exited"}
    /\ count_ \in {0, 1}
    /\ loop_ \in BOOLEAN
    /\ result \in {"none", "NULL", "loop"}

(***************************************************************************)
(* startLoop returns a loop (EventLoopThread.cc:28-39), whichever thread   *)
(* runs first, with spurious wakeups, and although it reads loop_ a second *)
(* time without the mutex.                                                 *)
(***************************************************************************)
StartLoopReturnsLoop == result # "NULL"

(***************************************************************************)
(* The mutex, condition and loop_ of an EventLoopThread outlive the code   *)
(* of threadFunc that uses them (EventLoopThread.cc:42-60): when the       *)
(* destructor is done the thread has cleared loop_ or was never started.   *)
(***************************************************************************)
MembersOutliveThread ==
    owner = "destroyed" => thread \in {"none", "leaving", "exited"}

(***************************************************************************)
(* The handshake of startLoop ends (Thread.cc:38-60, CountDownLatch.cc,    *)
(* EventLoopThread.cc:30-35): no notification is lost.                     *)
(***************************************************************************)
StartLoopReturns == owner = "latch" ~> owner = "using"

(***************************************************************************)
(* The destructor's join returns (EventLoopThread.cc:18-26) if its quit    *)
(* found a loop that had entered loop(), whatever functors are pending and *)
(* wherever in its iteration the loop was.                                 *)
(***************************************************************************)
JoinReturns == owner = "join" /\ quit_ /\ pc # "before" ~> owner = "destroyed"

(***************************************************************************)
(* The remark at the end of threadFunc (EventLoopThread.cc:58): access to  *)
(* loop_ needs the lock.  What the lock would give: the loop that the      *)
(* destructor calls exists until quit() has returned.                      *)
(***************************************************************************)
LoopOutlivesQuit == owner \in {"quit", "wakeup"} => thread # "exited"

=============================================================================
