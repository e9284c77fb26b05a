---------------------------- MODULE TaskExecutor ----------------------------
(***************************************************************************)
(* What an EventLoop promises to the threads that hand it functors: they   *)
(* are executed one at a time, in the order in which they were accepted,   *)
(* each exactly once, and none waits forever while the executor runs.      *)
(* Work the executor's own thread asks for may also be done on the spot.   *)
(* A stopped executor still accepts functors; it executes none of them.    *)
(***************************************************************************)
EXTENDS Sequences

CONSTANT Task            \* the functors; each of them is submitted at most once

VARIABLES
    status,              \* "created", "running" or "stopped"
    submitted,           \* the functors handed over so far
    queue,               \* accepted and not yet executed, oldest first
    done                 \* executed, in the order of execution

vars == <<status, submitted, queue, done>>

Init ==
    /\ status = "created"
    /\ submitted = {}
    /\ queue = <<>>
    /\ done = <<>>

Start ==
    /\ status = "created"
    /\ status' = "running"
    /\ UNCHANGED <<submitted, queue, done>>

Stop ==
    /\ status = "running"
    /\ status' = "stopped"
    /\ UNCHANGED <<submitted, queue, done>>

Submit(t) ==
    /\ t \notin submitted
    /\ submitted' = submitted \union {t}
    /\ queue' = Append(queue, t)
    /\ UNCHANGED <<status, done>>

Execute ==
    /\ status = "running"
    /\ queue # <<>>
    /\ done' = Append(done, Head(queue))
    /\ queue' = Tail(queue)
    /\ UNCHANGED <<status, submitted>>

ExecuteDirectly(t) ==
    /\ status = "running"
    /\ t \notin submitted
    /\ submitted' = submitted \union {t}
    /\ done' = Append(done, t)
    /\ UNCHANGED <<status, queue>>

Next ==
    \/ Start
    \/ Stop
    \/ Execute
    \/ \E t \in Task : Submit(t) \/ ExecuteDirectly(t)

SafeSpec == Init /\ [][Next]_vars

Spec == SafeSpec /\ WF_vars(Execute)

=============================================================================
