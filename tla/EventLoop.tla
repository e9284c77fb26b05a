----------------------------- MODULE EventLoop ------------------------------
(***************************************************************************)
(* One EventLoop (Net/EventLoop.cc), the thread that runs it and the other *)
(* threads that call into it.  A call is cut where another thread can see  *)
(* it half done: queueInLoop pushes under the mutex and writes the eventfd *)
(* afterwards, quit stores the flag and writes the eventfd afterwards,     *)
(* doPendingFunctors sets its flag before it takes the mutex.              *)
(*                                                                         *)
(* quit_ is a plain bool that two threads use.  The calls between the      *)
(* loop's tests of it (epoll_wait, the mutex) make the build read it again *)
(* each time and keep the store of quit() before its write of the eventfd, *)
(* so a racing test sees the old value or the new one.                     *)
(*                                                                         *)
(* Callbacks are not fixed: a handler of a user channel and a functor may  *)
(* call queueInLoop, runInLoop and quit any number of times.  A functor is *)
(* an element of Task and is submitted once, which bounds the behaviours;  *)
(* a thread calls quit once.                                               *)
(***************************************************************************)
EXTENDS Integers, Sequences

CONSTANTS
    Task,            \* the functors
    IoThread,        \* the thread that created the loop and runs it
    OtherThread,     \* the threads that only call queueInLoop, runInLoop, quit
    Channel,         \* the user channels registered with the loop's poller
    WakeupChannel    \* the channel of the loop's eventfd

ASSUME ThreadAssumption == IoThread \notin OtherThread

ASSUME ChannelAssumption == WakeupChannel \notin Channel

VARIABLES
    pc,                      \* where the loop's thread is
    quit_,
    callingPengdingChannel_,
    activeChannels_,         \* the channels of the last poll not yet handled
    pendingFunctors_,
    localFunctors,           \* the batch doPendingFunctors swapped out
    wakeupFd_,               \* the counter of the eventfd
    waking,                  \* threads between their change and its wakeup()
    submitted,               \* history: the functors handed over so far
    quitters,                \* history: the threads that have called quit
    done                     \* history: the functors called, in order

callVars == <<pendingFunctors_, waking, submitted, quitters>>
batchVars == <<callingPengdingChannel_, localFunctors, done>>
vars == <<pc, quit_, activeChannels_, wakeupFd_, callVars, batchVars>>

Thread == OtherThread \union {IoThread}

PC == {"before", "test", "poll", "dispatch", "handler", "swap", "run",
       "functor", "stopped"}

looping_ == pc \notin {"before", "stopped"}

Init ==
    /\ pc = "before"
    /\ quit_ = FALSE
    /\ callingPengdingChannel_ = FALSE
    /\ activeChannels_ = {}
    /\ pendingFunctors_ = <<>>
    /\ localFunctors = <<>>
    /\ wakeupFd_ = 0
    /\ waking = {}
    /\ submitted = {}
    /\ quitters = {}
    /\ done = <<>>

-----------------------------------------------------------------------------
(* The calls a thread makes.  The loop's own thread makes them only from a *)
(* callback, and no thread makes one while it is still inside another.     *)

InCallback == pc \in {"handler", "functor"}

MayCall(th) == th \notin waking /\ (th = IoThread => InCallback)

\* Mutant: a functor that queues another one does not wake its own loop.
NeedsWakeupOthersOnly(th) == th # IoThread

NeedsWakeup(th) == th # IoThread \/ callingPengdingChannel_

QueueInLoop(th, t) ==
    /\ MayCall(th)
    /\ t \notin submitted
    /\ submitted' = submitted \union {t}
    /\ pendingFunctors_' = Append(pendingFunctors_, t)
    /\ waking' = IF NeedsWakeup(th) THEN waking \union {th} ELSE waking
    /\ UNCHANGED <<pc, quit_, activeChannels_, wakeupFd_, quitters, batchVars>>

\* runInLoop in the loop's thread calls the functor before it returns.
CallDirectly(t) ==
    /\ MayCall(IoThread)
    /\ t \notin submitted
    /\ submitted' = submitted \union {t}
    /\ done' = Append(done, t)
    /\ UNCHANGED <<pc, quit_, activeChannels_, wakeupFd_, pendingFunctors_,
                   waking, quitters, callingPengdingChannel_, localFunctors>>

RunInLoop(th, t) ==
    IF th = IoThread THEN CallDirectly(t) ELSE QueueInLoop(th, t)

\* Mutant: quit from another thread does not wake the loop.
QuitWithoutWakeup(th) ==
    /\ MayCall(th)
    /\ th \notin quitters
    /\ quitters' = quitters \union {th}
    /\ quit_' = TRUE
    /\ UNCHANGED <<pc, activeChannels_, wakeupFd_, pendingFunctors_, submitted,
                   waking, batchVars>>

Quit(th) ==
    /\ MayCall(th)
    /\ th \notin quitters
    /\ quitters' = quitters \union {th}
    /\ quit_' = TRUE
    /\ waking' = IF th # IoThread THEN waking \union {th} ELSE waking
    /\ UNCHANGED <<pc, activeChannels_, wakeupFd_, pendingFunctors_, submitted,
                   batchVars>>

\* Mutant: wakeup() consumes the counter instead of adding to it.
WakeupReads(th) ==
    /\ th \in waking
    /\ waking' = waking \ {th}
    /\ wakeupFd_' = wakeupFd_ - 1
    /\ UNCHANGED <<pc, quit_, activeChannels_, pendingFunctors_, submitted,
                   quitters, batchVars>>

Wakeup(th) ==
    /\ th \in waking
    /\ waking' = waking \ {th}
    /\ wakeupFd_' = wakeupFd_ + 1
    /\ UNCHANGED <<pc, quit_, activeChannels_, pendingFunctors_, submitted,
                   quitters, batchVars>>

-----------------------------------------------------------------------------
(* The loop's thread.                                                      *)

StartLoop ==
    /\ pc = "before"
    /\ pc' = "test"
    /\ quit_' = FALSE
    /\ UNCHANGED <<activeChannels_, wakeupFd_, callVars, batchVars>>

TestQuit ==
    /\ pc = "test"
    /\ pc' = IF quit_ THEN "stopped" ELSE "poll"
    /\ UNCHANGED <<quit_, activeChannels_, wakeupFd_, callVars, batchVars>>

\* Mutant: the constructor does not enable reading on the wakeup channel.
NeverReadable(fd) == {}

Readable(fd) == IF fd > 0 THEN {WakeupChannel} ELSE {}

\* epoll_wait returns with events: the eventfd's if its counter is not zero,
\* and those of any set of user channels.
PollEvents ==
    /\ pc = "poll"
    /\ \E ready \in SUBSET Channel :
          activeChannels_' = ready \union Readable(wakeupFd_)
    /\ activeChannels_' # {}
    /\ pc' = "dispatch"
    /\ UNCHANGED <<quit_, wakeupFd_, callVars, batchVars>>

\* epoll_wait gives up after kPollTimeMs.
PollTimeout ==
    /\ pc = "poll"
    /\ wakeupFd_ = 0
    /\ activeChannels_' = {}
    /\ pc' = "dispatch"
    /\ UNCHANGED <<quit_, wakeupFd_, callVars, batchVars>>

HandleRead ==
    /\ pc = "dispatch"
    /\ WakeupChannel \in activeChannels_
    /\ activeChannels_' = activeChannels_ \ {WakeupChannel}
    /\ wakeupFd_' = 0
    /\ UNCHANGED <<pc, quit_, callVars, batchVars>>

HandleEvent(c) ==
    /\ pc = "dispatch"
    /\ c \in activeChannels_
    /\ activeChannels_' = activeChannels_ \ {c}
    /\ pc' = "handler"
    /\ UNCHANGED <<quit_, wakeupFd_, callVars, batchVars>>

HandlerReturns ==
    /\ pc = "handler"
    /\ IoThread \notin waking
    /\ pc' = "dispatch"
    /\ UNCHANGED <<quit_, activeChannels_, wakeupFd_, callVars, batchVars>>

DoPendingFunctors ==
    /\ pc = "dispatch"
    /\ activeChannels_ = {}
    /\ pc' = "swap"
    /\ callingPengdingChannel_' = TRUE
    /\ UNCHANGED <<quit_, activeChannels_, wakeupFd_, callVars, localFunctors,
                   done>>

\* Mutant: doPendingFunctors copies the pending functors and leaves them there.
CopyFunctors ==
    /\ pc = "swap"
    /\ pc' = "run"
    /\ localFunctors' = pendingFunctors_
    /\ UNCHANGED <<quit_, activeChannels_, wakeupFd_, callVars,
                   callingPengdingChannel_, done>>

SwapFunctors ==
    /\ pc = "swap"
    /\ pc' = "run"
    /\ localFunctors' = pendingFunctors_
    /\ pendingFunctors_' = <<>>
    /\ UNCHANGED <<quit_, activeChannels_, wakeupFd_, waking, submitted,
                   quitters, callingPengdingChannel_, done>>

CallFunctor ==
    /\ pc = "run"
    /\ localFunctors # <<>>
    /\ pc' = "functor"
    /\ done' = Append(done, Head(localFunctors))
    /\ localFunctors' = Tail(localFunctors)
    /\ UNCHANGED <<quit_, activeChannels_, wakeupFd_, callVars,
                   callingPengdingChannel_>>

FunctorReturns ==
    /\ pc = "functor"
    /\ IoThread \notin waking
    /\ pc' = "run"
    /\ UNCHANGED <<quit_, activeChannels_, wakeupFd_, callVars, batchVars>>

FinishFunctors ==
    /\ pc = "run"
    /\ localFunctors = <<>>
    /\ pc' = "test"
    /\ callingPengdingChannel_' = FALSE
    /\ UNCHANGED <<quit_, activeChannels_, wakeupFd_, callVars, localFunctors,
                   done>>

-----------------------------------------------------------------------------
Call(th) ==
    \/ \E t \in Task : QueueInLoop(th, t) \/ RunInLoop(th, t)
    \/ Quit(th)

Run ==
    \/ StartLoop
    \/ TestQuit
    \/ PollEvents
    \/ PollTimeout
    \/ HandleRead
    \/ \E c \in Channel : HandleEvent(c)
    \/ HandlerReturns
    \/ DoPendingFunctors
    \/ SwapFunctors
    \/ CallFunctor
    \/ FunctorReturns
    \/ FinishFunctors

Next ==
    \/ \E th \in Thread : Call(th) \/ Wakeup(th)
    \/ Run

\* What the loop's thread does without help from the network or the clock.
LoopStep == Run /\ (pc = "poll" => WakeupChannel \in activeChannels_')

\* The scheduler runs every thread that can run: the loop's thread takes its
\* next step, and a thread inside queueInLoop or quit reaches its wakeup().
\* Nothing is assumed of the poll timeout, of the user channels, or of whether
\* anybody calls anything.
Fairness == WF_vars(LoopStep) /\ \A th \in Thread : WF_vars(Wakeup(th))

Spec == Init /\ [][Next]_vars /\ Fairness

-----------------------------------------------------------------------------
TypeOK ==
    /\ pc \in PC
    /\ quit_ \in BOOLEAN
    /\ callingPengdingChannel_ \in BOOLEAN
    /\ activeChannels_ \subseteq Channel \union {WakeupChannel}
    /\ pendingFunctors_ \in Seq(Task)
    /\ localFunctors \in Seq(Task)
    /\ wakeupFd_ \in Nat
    /\ waking \subseteq Thread
    /\ submitted \subseteq Task
    /\ quitters \subseteq Thread
    /\ done \in Seq(Task)

WakeupComing == wakeupFd_ > 0 \/ waking # {}

(***************************************************************************)
(* queueInLoop (EventLoop.cc:122): the loop never sleeps in epoll_wait on  *)
(* a functor with no wakeup written or about to be written, whoever queued *)
(* it and whatever the loop was doing at that moment.                      *)
(***************************************************************************)
NoLostWakeup == pc = "poll" /\ pendingFunctors_ # <<>> => WakeupComing

(***************************************************************************)
(* quit (EventLoop.cc:105): the loop never sleeps in epoll_wait with the   *)
(* quit flag set and no wakeup written or about to be written.             *)
(***************************************************************************)
QuitWakesPoll == pc = "poll" /\ quit_ => WakeupComing

(***************************************************************************)
(* The loop implements the executor of functors: first in first out,       *)
(* exactly once, and a functor queued with a running loop is called        *)
(* without the help of the poll timeout, unless the loop stops.            *)
(***************************************************************************)
Executor == INSTANCE TaskExecutor WITH
    status <- IF pc = "before" THEN "created"
              ELSE IF looping_ THEN "running" ELSE "stopped",
    queue <- localFunctors \o pendingFunctors_

ImplementsExecutor == Executor!Spec

(***************************************************************************)
(* Once the flag is set while the loop runs, by whichever thread and at    *)
(* whatever point of an iteration, loop() returns.                         *)
(***************************************************************************)
QuitStopsRunningLoop == looping_ /\ quit_ ~> ~looping_

(***************************************************************************)
(* The comment above quit (EventLoop.cc:100): a quit from any thread ends  *)
(* the loop.  Here also one that comes between the constructor and loop(). *)
(***************************************************************************)
QuitStopsLoop == quitters # {} ~> pc = "stopped"

=============================================================================
