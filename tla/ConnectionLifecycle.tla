------------------------ MODULE ConnectionLifecycle -------------------------
(***************************************************************************)
(* The life of the connections of an HttpServer: TcpServer and the idle    *)
(* timers in the main loop, TcpConnection and its Channel in an IO loop,   *)
(* and the functors the two loops send each other.  Each loop is the       *)
(* executor of functors that module EventLoop implements; here its queue   *)
(* is cut into the batches of doPendingFunctors, because a batch keeps its *)
(* functors, and the references bound in them, until all of it has run.    *)
(*                                                                         *)
(* A callback of the IO loop is one step, except where the main loop can   *)
(* change state_ under it; shutdown() of the main loop is cut between the  *)
(* test of state_ and its assignment.  One IO loop serves every connection *)
(* here: loops share nothing but the main loop.                            *)
(*                                                                         *)
(* Bytes are abstracted to whether there are any: unread in the socket,    *)
(* unsent in outputBuffer_.  A peer sends and closes; resets are left out. *)
(***************************************************************************)
EXTENDS Naturals, Sequences, Functions

CONSTANTS
    Conn,            \* the connections that are accepted, each once
    MaxMessages,     \* bound: how often a peer sends
    ReadResults      \* what readFd may return besides the number of bytes

ASSUME BoundAssumption == MaxMessages \in Nat /\ "none" \notin Conn

\* Buffer::readFd has no return statement (Buffer.cc:17-47): the caller gets
\* the byte count if the compiler leaves it in the register, else anything.
ASSUME ReadAssumption == ReadResults \subseteq {"positive", "zero", "negative"}

VARIABLES
    conn,            \* the fields of each TcpConnection and of its Channel
    peer,            \* the other end of each connection
    connections_,    \* the server's map: the connections it holds
    queue,           \* pendingFunctors_ of each loop
    batch,           \* localFunctors of each loop, kept until all have run
    next,            \* the position in the batch of each loop
    phase,           \* where in its iteration each loop is
    active,          \* the events of the IO loop's poll not yet handled
    request,         \* the request the IO loop parsed and has not answered
    timer,           \* the connections with an idle timer in the main loop
    idle             \* what HandleIdleConnection holds in the main loop

loopVars == <<queue, batch, next, phase>>
ioVars == <<active, request>>
mainVars == <<connections_, timer, idle>>
vars == <<conn, peer, loopVars, ioVars, mainVars>>

Loop == {"main", "io"}

State == {"none", "kConnecting", "kConnected", "kDisConnecting",
          "kdisConnected"}

Functor == [f : {"connectEstablished", "connectDestoryed",
                 "removeConnectionInLoop", "shutdownInloop", "AddTimerInloop"},
            c : Conn]

NoRequest == [c |-> "none", close |-> FALSE]

NotIdle == [at |-> "none", c |-> "none"]

Init ==
    /\ conn = [c \in Conn |->
                 [state |-> "none", index |-> "kNew", events |-> {},
                  unsent |-> FALSE, fin |-> FALSE, lost |-> FALSE,
                  recent |-> FALSE, callbacks |-> <<>>]]
    /\ peer = [c \in Conn |->
                 [open |-> TRUE, unread |-> FALSE, left |-> MaxMessages]]
    /\ connections_ = {}
    /\ queue = [l \in Loop |-> <<>>]
    /\ batch = [l \in Loop |-> <<>>]
    /\ next = [l \in Loop |-> 1]
    /\ phase = [l \in Loop |-> "poll"]
    /\ active = {}
    /\ request = NoRequest
    /\ timer = {}
    /\ idle = NotIdle

-----------------------------------------------------------------------------
(* References.  A functor made with std::bind holds what is bound in it: a *)
(* shared_ptr, except that shutdown() binds the raw this and RunAfter a    *)
(* weak_ptr.                                                               *)

\* Mutant: removeConnectionInLoop binds the raw pointer to connectDestoryed.
HoldsUntilRemoved(fn, c) ==
    fn.c = c /\ fn.f \in {"connectEstablished", "removeConnectionInLoop"}

Holds(fn, c) ==
    fn.c = c /\ fn.f \in {"connectEstablished", "connectDestoryed",
                          "removeConnectionInLoop"}

Created(c) == conn[c].state # "none"

Alive(c) ==
    /\ Created(c)
    /\ \/ c \in connections_
       \/ idle.c = c
       \/ \E l \in Loop :
             \/ \E i \in DOMAIN queue[l] : Holds(queue[l][i], c)
             \/ \E i \in DOMAIN batch[l] : Holds(batch[l][i], c)

-----------------------------------------------------------------------------
(* The Channel of a connection and what Epoller does with it.              *)

UpdateChannel(k) ==
    [k EXCEPT !.index = IF k.index = "kAdded" /\ k.events = {}
                        THEN "kDeleted" ELSE "kAdded"]

\* Mutant: the channel also asks for an event it has no callback for.
EnableEventAndError(k, e) ==
    UpdateChannel([k EXCEPT !.events = @ \union {e, "ERR"}])

EnableEvent(k, e) == UpdateChannel([k EXCEPT !.events = @ \union {e}])

DisableWriting(k) == UpdateChannel([k EXCEPT !.events = @ \ {"OUT"}])

DisableAll(k) == UpdateChannel([k EXCEPT !.events = {}])

RemoveChannel(k) == [k EXCEPT !.index = "kNew"]

IsWriting(k) == "OUT" \in k.events

Readable(c) == peer[c].unread \/ ~peer[c].open

\* What epoll_ctl has asked the kernel for: each change of a channel's events_
\* is passed on as long as the channel is in the epoll set.
Interest(c) == IF conn[c].index = "kAdded" THEN conn[c].events ELSE {}

Ready ==
    {<<c, "IN">> : c \in {x \in Conn : "IN" \in Interest(x) /\ Readable(x)}}

Writable == {<<c, "OUT">> : c \in {x \in Conn : "OUT" \in Interest(x)}}

-----------------------------------------------------------------------------
(* What the operations of a TcpConnection do to its fields.                *)

ShutdownWrite(k) == [k EXCEPT !.fin = TRUE]

\* Mutant: shutdownInloop closes the write side whatever is unsent.
ShutdownAtOnce(k) == ShutdownWrite(k)

\* Mutant: shutdownInloop drops its interest in writing first.
ShutdownDisabled(k) == ShutdownWrite(DisableWriting(k))

ShutdownInloop(k) == IF IsWriting(k) THEN k ELSE ShutdownWrite(k)

\* shutdown() called in the IO loop.
Shutdown(k) ==
    IF k.state = "kConnected"
    THEN ShutdownInloop([k EXCEPT !.state = "kDisConnecting"])
    ELSE k

\* send(string) writes to the socket if nothing waits before it: the socket
\* takes all, takes a part, or takes nothing and the message is gone.
Send(k) ==
    IF ~IsWriting(k) /\ ~k.unsent
    THEN {k,
          EnableEvent([k EXCEPT !.unsent = TRUE], "OUT"),
          [k EXCEPT !.lost = TRUE]}
    ELSE {EnableEvent([k EXCEPT !.unsent = TRUE], "OUT")}

Calls(k, s) == [k EXCEPT !.callbacks = Append(@, s)]

\* Mutant: handleClose leaves the channel in the epoller.
ClosedStillPolled(k) == Calls([k EXCEPT !.state = "kdisConnected"], "offline")

Closed(k) == Calls(DisableAll([k EXCEPT !.state = "kdisConnected"]), "offline")

-----------------------------------------------------------------------------
(* The loops.  The main loop handles an accept or a timer where it polls;  *)
(* the IO loop handles the events of a poll in the dispatch phase.         *)

Push(l, f, c) ==
    queue' = [queue EXCEPT ![l] = Append(@, [f |-> f, c |-> c])]

PollIo ==
    /\ phase["io"] = "poll"
    /\ \E writable \in SUBSET Writable : active' = Ready \union writable
    /\ active' # {} \/ queue["io"] # <<>>
    /\ phase' = [phase EXCEPT !["io"] = "dispatch"]
    /\ UNCHANGED <<conn, peer, queue, batch, next, request, mainVars>>

\* The loop has handled its events and turns to its functors.
EventsHandled(l) ==
    \/ /\ l = "io"
       /\ phase[l] = "dispatch"
       /\ active = {}
       /\ request = NoRequest
    \/ /\ l = "main"
       /\ phase[l] = "poll"
       /\ idle = NotIdle
       /\ queue[l] # <<>>

SwapFunctors(l) ==
    /\ EventsHandled(l)
    /\ phase' = [phase EXCEPT ![l] = "functors"]
    /\ batch' = [batch EXCEPT ![l] = queue[l]]
    /\ queue' = [queue EXCEPT ![l] = <<>>]
    /\ next' = [next EXCEPT ![l] = 1]
    /\ UNCHANGED <<conn, peer, ioVars, mainVars>>

FinishFunctors(l) ==
    /\ phase[l] = "functors"
    /\ next[l] > Len(batch[l])
    /\ phase' = [phase EXCEPT ![l] = "poll"]
    /\ batch' = [batch EXCEPT ![l] = <<>>]
    /\ UNCHANGED <<conn, peer, queue, next, ioVars, mainVars>>

\* Functor f of connection c is the next of loop l.
Runs(l, f, c) ==
    /\ phase[l] = "functors"
    /\ next[l] <= Len(batch[l])
    /\ batch[l][next[l]] = [f |-> f, c |-> c]
    /\ next' = [next EXCEPT ![l] = @ + 1]
    /\ UNCHANGED <<batch, phase>>

-----------------------------------------------------------------------------
(* The main loop.                                                          *)

MainHandles == phase["main"] = "poll" /\ idle = NotIdle

\* Accepter::NewConnection: an accept that fails changes nothing.
Accepts(c) == MainHandles /\ ~Created(c)

NewConnection(c) ==
    /\ Accepts(c)
    /\ conn' = [conn EXCEPT ![c].state = "kConnecting"]
    /\ connections_' = connections_ \union {c}
    /\ Push("io", "connectEstablished", c)
    /\ UNCHANGED <<peer, batch, next, phase, ioVars, timer, idle>>

\* Mutant: the connection stays in the map.
RemoveKeepsEntry(c) ==
    /\ Runs("main", "removeConnectionInLoop", c)
    /\ Push("io", "connectDestoryed", c)
    /\ UNCHANGED <<conn, peer, ioVars, mainVars>>

RemoveConnectionInLoop(c) ==
    /\ Runs("main", "removeConnectionInLoop", c)
    /\ connections_' = connections_ \ {c}
    /\ Push("io", "connectDestoryed", c)
    /\ UNCHANGED <<conn, peer, ioVars, timer, idle>>

AddTimerInloop(c) ==
    /\ Runs("main", "AddTimerInloop", c)
    /\ timer' = timer \union {c}
    /\ UNCHANGED <<conn, peer, queue, ioVars, connections_, idle>>

\* The timer of c expires: HandleIdleConnection locks its weak_ptr.
LockIdle(c) ==
    /\ MainHandles
    /\ c \in timer
    /\ timer' = timer \ {c}
    /\ idle' = IF Alive(c) THEN [at |-> "check", c |-> c] ELSE NotIdle
    /\ UNCHANGED <<conn, peer, loopVars, ioVars, connections_>>

\* Mutant: the timer is not set again after a message.
ResetIdleOnce ==
    /\ idle.at = "check"
    /\ conn[idle.c].recent
    /\ conn' = [conn EXCEPT ![idle.c].recent = FALSE]
    /\ idle' = NotIdle
    /\ UNCHANGED <<peer, loopVars, ioVars, connections_, timer>>

\* The last message came after the timer was set: wait another interval.
ResetIdle ==
    /\ idle.at = "check"
    /\ conn[idle.c].recent
    /\ conn' = [conn EXCEPT ![idle.c].recent = FALSE]
    /\ timer' = timer \union {idle.c}
    /\ idle' = NotIdle
    /\ UNCHANGED <<peer, loopVars, ioVars, connections_>>

\* Idle too long: shutdown() tests state_ ...
TestShutdown ==
    /\ idle.at = "check"
    /\ idle' = IF conn[idle.c].state = "kConnected"
               THEN [idle EXCEPT !.at = "set"] ELSE NotIdle
    /\ UNCHANGED <<conn, peer, loopVars, ioVars, connections_, timer>>

\* ... and then sets it and sends shutdownInloop, with the raw this, to the
\* loop of the connection.
SetShutdown ==
    /\ idle.at = "set"
    /\ conn' = [conn EXCEPT ![idle.c].state = "kDisConnecting"]
    /\ Push("io", "shutdownInloop", idle.c)
    /\ idle' = NotIdle
    /\ UNCHANGED <<peer, batch, next, phase, ioVars, connections_, timer>>

-----------------------------------------------------------------------------
(* The IO loop: functors.                                                  *)

\* The connection callback of HttpServer starts the idle timer.
ConnectEstablished(c) ==
    /\ Runs("io", "connectEstablished", c)
    /\ conn' = [conn EXCEPT ![c] =
                  Calls(EnableEvent([@ EXCEPT !.state = "kConnected"], "IN"),
                        "online")]
    /\ Push("main", "AddTimerInloop", c)
    /\ UNCHANGED <<peer, ioVars, mainVars>>

ConnectDestoryed(c) ==
    /\ Runs("io", "connectDestoryed", c)
    /\ conn' = [conn EXCEPT ![c] =
                  RemoveChannel(IF @.state = "kConnected" THEN Closed(@) ELSE @)]
    /\ UNCHANGED <<peer, queue, ioVars, mainVars>>

RunShutdownInloop(c) ==
    /\ Runs("io", "shutdownInloop", c)
    /\ conn' = [conn EXCEPT ![c] = ShutdownInloop(@)]
    /\ UNCHANGED <<peer, queue, ioVars, mainVars>>

-----------------------------------------------------------------------------
(* The IO loop: events.  Within one handleEvent a read comes before a      *)
(* write.                                                                  *)

Handles(c, e) ==
    /\ phase["io"] = "dispatch"
    /\ request = NoRequest
    /\ <<c, e>> \in active
    /\ e = "OUT" => <<c, "IN">> \notin active
    /\ active' = active \ {<<c, e>>}

\* readv takes what there is; readFd returns the count if the compiler lets it.
ReadFd(c, result) ==
    /\ result \in {IF peer[c].unread THEN "positive" ELSE "zero"}
                    \union ReadResults
    /\ peer' = [peer EXCEPT ![c].unread = FALSE]

\* MessageCallback: a message that is ignored or incomplete, is a request to
\* answer, or is a bad request that is answered at once.
HandleMessage(c) ==
    /\ Handles(c, "IN")
    /\ ReadFd(c, "positive")
    /\ \/ /\ conn' = [conn EXCEPT ![c].recent = TRUE]
          /\ UNCHANGED request
       \/ /\ conn[c].state # "kDisConnecting"
          /\ conn' = [conn EXCEPT ![c].recent = TRUE]
          /\ request' \in [c : {c}, close : BOOLEAN]
       \/ /\ conn[c].state # "kDisConnecting"
          /\ \E k \in Send([conn[c] EXCEPT !.recent = TRUE]) :
                conn' = [conn EXCEPT ![c] = Shutdown(k)]
          /\ UNCHANGED request
    /\ UNCHANGED <<loopVars, mainVars>>

\* dealWithRequest: send(Buffer*) tests state_ again, which the main loop may
\* have changed since MessageCallback did.
Respond ==
    /\ request # NoRequest
    /\ \E k \in IF conn[request.c].state = "kConnected"
                THEN Send(conn[request.c]) ELSE {conn[request.c]} :
          conn' = [conn EXCEPT ![request.c] =
                     IF request.close THEN Shutdown(k) ELSE k]
    /\ request' = NoRequest
    /\ UNCHANGED <<peer, loopVars, active, mainVars>>

HandleClose(c) ==
    /\ Handles(c, "IN")
    /\ ReadFd(c, "zero")
    /\ conn' = [conn EXCEPT ![c] = Closed(@)]
    /\ Push("main", "removeConnectionInLoop", c)
    /\ UNCHANGED <<batch, next, phase, request, mainVars>>

HandleError(c) ==
    /\ Handles(c, "IN")
    /\ ReadFd(c, "negative")
    /\ UNCHANGED <<conn, loopVars, request, mainVars>>

\* Mutant: handleWrite does not finish a shutdown that waited for it.
HandleWriteForgets(c) ==
    /\ Handles(c, "OUT")
    /\ \/ UNCHANGED conn
       \/ /\ IsWriting(conn[c])
          /\ conn' = [conn EXCEPT ![c] =
                        DisableWriting([@ EXCEPT !.unsent = FALSE])]
    /\ UNCHANGED <<peer, loopVars, request, mainVars>>

\* The socket takes all that is unsent, or not yet all.  Nothing happens if
\* the read of the same event closed the connection.
HandleWrite(c) ==
    /\ Handles(c, "OUT")
    /\ \/ UNCHANGED conn
       \/ /\ IsWriting(conn[c])
          /\ LET k == DisableWriting([conn[c] EXCEPT !.unsent = FALSE])
             IN  conn' = [conn EXCEPT ![c] = IF k.state = "kDisConnecting"
                                             THEN ShutdownInloop(k) ELSE k]
    /\ UNCHANGED <<peer, loopVars, request, mainVars>>

-----------------------------------------------------------------------------
(* The peers.                                                              *)

PeerSends(c) ==
    /\ Created(c)
    /\ peer[c].open
    /\ peer[c].left > 0
    /\ peer' = [peer EXCEPT ![c].unread = TRUE, ![c].left = @ - 1]
    /\ UNCHANGED <<conn, loopVars, ioVars, mainVars>>

PeerCloses(c) ==
    /\ Created(c)
    /\ peer[c].open
    /\ peer' = [peer EXCEPT ![c].open = FALSE]
    /\ UNCHANGED <<conn, loopVars, ioVars, mainVars>>

-----------------------------------------------------------------------------
MainStep ==
    \/ SwapFunctors("main")
    \/ FinishFunctors("main")
    \/ \E c \in Conn :
          \/ RemoveConnectionInLoop(c)
          \/ AddTimerInloop(c)
    \/ ResetIdle
    \/ TestShutdown
    \/ SetShutdown

IoStep ==
    \/ PollIo
    \/ SwapFunctors("io")
    \/ FinishFunctors("io")
    \/ \E c \in Conn :
          \/ ConnectEstablished(c)
          \/ ConnectDestoryed(c)
          \/ RunShutdownInloop(c)
          \/ HandleMessage(c)
          \/ HandleClose(c)
          \/ HandleError(c)
          \/ HandleWrite(c)
    \/ Respond

Next ==
    \/ MainStep
    \/ IoStep
    \/ \E c \in Conn :
          \/ NewConnection(c)
          \/ LockIdle(c)
          \/ PeerSends(c)
          \/ PeerCloses(c)

\* Both threads are scheduled, each takes a functor queued to it, and a timer
\* of the main loop expires.  Nothing is assumed of the peers.
Fairness ==
    /\ WF_vars(MainStep)
    /\ WF_vars(IoStep)
    /\ \A c \in Conn : WF_vars(LockIdle(c))

Spec == Init /\ [][Next]_vars /\ Fairness

-----------------------------------------------------------------------------
TcpConnection ==
    [state : State, index : {"kNew", "kAdded", "kDeleted"},
     events : SUBSET {"IN", "OUT"},
     unsent : BOOLEAN, fin : BOOLEAN, lost : BOOLEAN, recent : BOOLEAN,
     callbacks : Seq({"online", "offline"})]

\* The fields keep their types.
TypeOK ==
    /\ conn \in [Conn -> TcpConnection]
    /\ peer \in [Conn -> [open : BOOLEAN, unread : BOOLEAN,
                          left : 0 .. MaxMessages]]
    /\ connections_ \subseteq Conn
    /\ queue \in [Loop -> Seq(Functor)]
    /\ batch \in [Loop -> Seq(Functor)]
    /\ next \in [Loop -> Nat \ {0}]
    /\ phase \in [Loop -> {"poll", "dispatch", "functors"}]
    /\ active \subseteq Conn \X {"IN", "OUT"}
    /\ request \in {NoRequest} \union [c : Conn, close : BOOLEAN]
    /\ timer \subseteq Conn
    /\ idle \in {NotIdle} \union [at : {"check", "set"}, c : Conn]

\* The functors of a loop that have still to run, in their order.
Todo(l) == SubSeq(batch[l], next[l], Len(batch[l])) \o queue[l]

ToRun(l) == Range(Todo(l))

(***************************************************************************)
(* Nothing reaches a TcpConnection after its last shared_ptr is gone: not  *)
(* the raw Channel pointers of the epoll set and of activeChannels_        *)
(* (Epoller.cc:67, EventLoop.cc:80), and not the raw this that shutdown    *)
(* binds (TcpConnection.cc:175), which the map and then connectDestoryed   *)
(* must outlive.                                                           *)
(***************************************************************************)
NoDanglingConnection ==
    \A c \in Conn :
       \/ conn[c].index = "kAdded"
       \/ \E e \in active : e[1] = c
       \/ \E fn \in ToRun("io") : fn.f = "shutdownInloop" /\ fn.c = c
       => Alive(c)

(***************************************************************************)
(* Until its peer closes, a connection waits for the socket to be writable *)
(* exactly while it has something to send, and closes its write side only  *)
(* when it has sent all (TcpConnection.cc:80-104, 116-136, 179-185).       *)
(***************************************************************************)
FlushBeforeFin ==
    \A c \in Conn :
       conn[c].index = "kAdded" =>
          /\ IsWriting(conn[c]) <=> conn[c].unsent
          /\ conn[c].fin => ~conn[c].unsent

(***************************************************************************)
(* A shutdown is not forgotten: a connection in kDisConnecting with all    *)
(* its output sent has closed its write side, or shutdownInloop is queued  *)
(* (TcpConnection.cc:133, 172-185).                                        *)
(***************************************************************************)
FinNotForgotten ==
    \A c \in Conn :
       conn[c].state = "kDisConnecting" /\ ~IsWriting(conn[c]) =>
          \/ conn[c].fin
          \/ [f |-> "shutdownInloop", c |-> c] \in ToRun("io")

(***************************************************************************)
(* A Channel that disableAll took out of the epoller is never put back     *)
(* (Epoller.cc:80 would add it again on any update), although shutdown in  *)
(* the main loop may rewrite state_ after handleClose.                     *)
(***************************************************************************)
ClosedStaysOut ==
    [][\A c \in Conn :
          conn[c].index = "kDeleted" => conn'[c].index # "kAdded"]_vars

(***************************************************************************)
(* The connections implement what the user of a TcpServer relies on: the   *)
(* two calls of the connection callback once each and in order, messages   *)
(* and answers only in between, and a release when the epoller has no      *)
(* Channel of it any more and after which it is never used again           *)
(* (TcpConnection.cc:45-78, 148-155, httpServer.cc:22-79).                 *)
(***************************************************************************)
Callbacks == INSTANCE ConnectionCallbacks WITH
    accepted <- {c \in Conn : Created(c)},
    alive <- {c \in Conn : Alive(c)},
    told <- [c \in Conn |-> conn[c].callbacks],
    watched <- {c \in Conn : conn[c].index # "kNew"},
    reading <- {c \in Conn : <<c, "IN">> \in active},
    answering <- {c \in Conn : request.c = c}

ImplementsCallbacks == Callbacks!Spec

(***************************************************************************)
(* A connection whose peer has closed is taken out of the map, destroyed   *)
(* in its loop and released (TcpConnection.cc:71, TcpServer.cc:53-62).     *)
(***************************************************************************)
ClosedIsReleased ==
    \A c \in Conn : Created(c) /\ ~peer[c].open ~> Created(c) /\ ~Alive(c)

(***************************************************************************)
(* A connection does not stay connected without messages: the idle timer   *)
(* shuts it down (httpServer.cc:39-50).                                    *)
(***************************************************************************)
IdleIsShutDown ==
    \A c \in Conn : conn[c].state = "kConnected" ~> conn[c].state # "kConnected"

(***************************************************************************)
(* The comment in shutdownInloop (TcpConnection.cc:180): no interest in    *)
(* writing means that the output buffer has been sent, so that shutdown    *)
(* closes the write side only after the data.                              *)
(***************************************************************************)
FinMeansFlushed == \A c \in Conn : conn[c].fin => ~conn[c].unsent

(***************************************************************************)
(* TcpConnection.cc:115: what could not be sent at once is in the output   *)
(* buffer.  No message given to send() disappears.                         *)
(***************************************************************************)
SendKeepsMessage == \A c \in Conn : ~conn[c].lost

=============================================================================
