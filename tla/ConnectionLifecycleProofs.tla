--------------------- MODULE ConnectionLifecycleProofs ----------------------
(***************************************************************************)
(* Proofs about ConnectionLifecycle for any connections, any bound on what *)
(* the peers send and any outcome of readFd: its type invariant, that      *)
(* nothing reaches a connection that is gone, that one goes away only when *)
(* it is done with, and what shutdown does with the output.                *)
(***************************************************************************)
EXTENDS ConnectionLifecycle, SequenceTheorems, TLAPS

(***************************************************************************)
(* What the operations on a connection do to its fields.                   *)
(***************************************************************************)
LEMMA FieldType ==
    ASSUME NEW k \in TcpConnection
    PROVE  /\ \A s \in State : [k EXCEPT !.state = s] \in TcpConnection
           /\ \A b \in BOOLEAN : /\ [k EXCEPT !.unsent = b] \in TcpConnection
                                /\ [k EXCEPT !.recent = b] \in TcpConnection
BY DEF TcpConnection

\* Epoller::updateChannel changes the index only: a channel without events is
\* out of epoll, any other is in.
LEMMA UpdateChannelEffect ==
    ASSUME NEW k \in TcpConnection
    PROVE  /\ UpdateChannel(k) \in TcpConnection
           /\ UpdateChannel(k) = [k EXCEPT !.index = UpdateChannel(k).index]
           /\ UpdateChannel(k).index =
                IF k.index = "kAdded" /\ k.events = {} THEN "kDeleted" ELSE "kAdded"
BY DEF UpdateChannel, TcpConnection

\* Turning events on puts the channel into epoll, and the type is kept.
LEMMA EventEffect ==
    ASSUME NEW k \in TcpConnection, NEW e \in {"IN", "OUT"}
    PROVE  /\ EnableEvent(k, e) \in TcpConnection
           /\ EnableEvent(k, e) = [k EXCEPT !.events = k.events \union {e}, !.index = "kAdded"]
           /\ DisableWriting(k) \in TcpConnection
           /\ DisableAll(k) \in TcpConnection
BY DEF EnableEvent, DisableWriting, DisableAll, UpdateChannel, TcpConnection

\* A call of the connection callback keeps the type.
LEMMA CallsType ==
    ASSUME NEW k \in TcpConnection, NEW s \in {"online", "offline"}
    PROVE  Calls(k, s) \in TcpConnection
<1>1. Append(k.callbacks, s) \in Seq({"online", "offline"})
  BY AppendProperties DEF TcpConnection
<1>2. QED
  BY <1>1 DEF Calls, TcpConnection

\* So do the operations of a connection.
LEMMA OperationType ==
    ASSUME NEW k \in TcpConnection
    PROVE  /\ Closed(k) \in TcpConnection
           /\ RemoveChannel(k) \in TcpConnection
           /\ ShutdownInloop(k) \in TcpConnection
           /\ Shutdown(k) \in TcpConnection
           /\ Send(k) \subseteq TcpConnection
<1>1. Closed(k) \in TcpConnection
  <2>1. [k EXCEPT !.state = "kdisConnected"] \in TcpConnection
    BY DEF TcpConnection, State
  <2>2. DisableAll([k EXCEPT !.state = "kdisConnected"]) \in TcpConnection
    BY <2>1, EventEffect
  <2>3. QED
    BY <2>2, CallsType DEF Closed
<1>2. RemoveChannel(k) \in TcpConnection
  BY DEF RemoveChannel, TcpConnection
<1>3. \A j \in TcpConnection : ShutdownInloop(j) \in TcpConnection
  BY DEF ShutdownInloop, ShutdownWrite, TcpConnection
<1>4. [k EXCEPT !.state = "kDisConnecting"] \in TcpConnection
  BY DEF TcpConnection, State
<1>5. Shutdown(k) \in TcpConnection
  BY <1>3, <1>4 DEF Shutdown
<1>6. Send(k) \subseteq TcpConnection
  <2>1. /\ [k EXCEPT !.unsent = TRUE] \in TcpConnection
        /\ [k EXCEPT !.lost = TRUE] \in TcpConnection
    BY DEF TcpConnection
  <2>2. EnableEvent([k EXCEPT !.unsent = TRUE], "OUT") \in TcpConnection
    BY <2>1, EventEffect
  <2>3. QED
    BY <2>1, <2>2 DEF Send
<1>7. QED
  BY <1>1, <1>2, <1>3, <1>5, <1>6

FunctorName == {"connectEstablished", "connectDestoryed",
                "removeConnectionInLoop", "shutdownInloop", "AddTimerInloop"}

\* Queueing a functor keeps the type of the queues.
LEMMA PushType ==
    ASSUME TypeOK, NEW l \in Loop, NEW f \in FunctorName, NEW c \in Conn, Push(l, f, c)
    PROVE  queue' \in [Loop -> Seq(Functor)]
<1>1. [f |-> f, c |-> c] \in Functor
  BY DEF Functor, FunctorName
<1>2. Append(queue[l], [f |-> f, c |-> c]) \in Seq(Functor)
  BY <1>1, AppendProperties DEF TypeOK
<1>3. QED
  BY <1>2 DEF Push, TypeOK

\* Taking a functor from a batch keeps the types of the batches.
LEMMA RunsType ==
    ASSUME TypeOK, NEW l \in Loop, NEW f \in FunctorName, NEW c \in Conn, Runs(l, f, c)
    PROVE  /\ batch' \in [Loop -> Seq(Functor)]
           /\ next' \in [Loop -> Nat \ {0}]
           /\ phase' \in [Loop -> {"poll", "dispatch", "functors"}]
BY DEF Runs, TypeOK

(***************************************************************************)
(* The fields keep their types under every functor, event and call of the  *)
(* two loops (TcpConnection.cc, TcpServer.cc, httpServer.cc).              *)
(***************************************************************************)
THEOREM TypeCorrect == Spec => []TypeOK
<1>1. Init => TypeOK
  <2> SUFFICES ASSUME Init
               PROVE  TypeOK
    OBVIOUS
  <2>1. conn \in [Conn -> TcpConnection]
    <3>1. <<>> \in Seq({"online", "offline"})
      BY EmptySeq
    <3>2. QED
      BY <3>1 DEF Init, TcpConnection, State
  <2>2. queue \in [Loop -> Seq(Functor)] /\ batch \in [Loop -> Seq(Functor)]
    <3>1. <<>> \in Seq(Functor)
      BY EmptySeq
    <3>2. QED
      BY <3>1 DEF Init
  <2>3. peer \in [Conn -> [open : BOOLEAN, unread : BOOLEAN, left : 0 .. MaxMessages]]
    BY BoundAssumption DEF Init
  <2>4. next \in [Loop -> Nat \ {0}] /\ phase \in [Loop -> {"poll", "dispatch", "functors"}]
    BY DEF Init
  <2>5. QED
    BY <2>1, <2>2, <2>3, <2>4 DEF Init, TypeOK
<1>2. TypeOK /\ [Next]_vars => TypeOK'
  <2> SUFFICES ASSUME TypeOK, [Next]_vars
               PROVE  TypeOK'
    OBVIOUS
  <2> USE DEF loopVars, ioVars, mainVars
  <2>0. /\ "main" \in Loop /\ "io" \in Loop
        /\ \A c \in Conn : conn[c] \in TcpConnection
    BY DEF Loop, TypeOK
  <2>1. ASSUME NEW l \in Loop, SwapFunctors(l)
        PROVE  TypeOK'
    <3>1. <<>> \in Seq(Functor)
      BY EmptySeq
    <3>2. QED
      BY <2>1, <3>1 DEF SwapFunctors, TypeOK
  <2>2. ASSUME NEW l \in Loop, FinishFunctors(l)
        PROVE  TypeOK'
    <3>1. <<>> \in Seq(Functor)
      BY EmptySeq
    <3>2. QED
      BY <2>2, <3>1 DEF FinishFunctors, TypeOK
  <2>3. ASSUME NEW c \in Conn, RemoveConnectionInLoop(c)
        PROVE  TypeOK'
    BY <2>0, <2>3, RunsType, PushType DEF RemoveConnectionInLoop, FunctorName, TypeOK
  <2>4. ASSUME NEW c \in Conn, AddTimerInloop(c)
        PROVE  TypeOK'
    BY <2>0, <2>4, RunsType DEF AddTimerInloop, FunctorName, TypeOK
  <2>5. CASE ResetIdle
    <3>1. idle.c \in Conn
      BY <2>5 DEF ResetIdle, TypeOK, NotIdle
    <3>2. [conn[idle.c] EXCEPT !.recent = FALSE] \in TcpConnection
      BY <2>0, <3>1, FieldType
    <3>3. QED
      BY <2>5, <3>1, <3>2 DEF ResetIdle, TypeOK
  <2>6. CASE TestShutdown
    <3>1. idle \in [at : {"check", "set"}, c : Conn]
      BY <2>6 DEF TestShutdown, TypeOK, NotIdle
    <3>2. idle' \in {NotIdle} \union [at : {"check", "set"}, c : Conn]
      BY <2>6, <3>1 DEF TestShutdown
    <3>3. QED
      BY <2>6, <3>2 DEF TestShutdown, TypeOK
  <2>7. CASE SetShutdown
    <3>1. idle.c \in Conn
      BY <2>7 DEF SetShutdown, TypeOK, NotIdle
    <3>2. [conn[idle.c] EXCEPT !.state = "kDisConnecting"] \in TcpConnection
      BY <2>0, <3>1, FieldType DEF State
    <3>3. queue' \in [Loop -> Seq(Functor)]
      BY <2>0, <2>7, <3>1, PushType DEF SetShutdown, FunctorName
    <3>4. QED
      BY <2>7, <3>1, <3>2, <3>3 DEF SetShutdown, TypeOK
  <2>8. CASE PollIo
    <3>1. active' \subseteq Conn \X {"IN", "OUT"}
      BY <2>8 DEF PollIo, Ready, Writable
    <3>2. QED
      BY <2>0, <2>8, <3>1 DEF PollIo, TypeOK
  <2>9. ASSUME NEW c \in Conn, ConnectEstablished(c)
        PROVE  TypeOK'
    <3>1. [conn[c] EXCEPT !.state = "kConnected"] \in TcpConnection
      BY <2>0, FieldType DEF State
    <3>2. Calls(EnableEvent([conn[c] EXCEPT !.state = "kConnected"], "IN"), "online")
            \in TcpConnection
      BY <3>1, EventEffect, CallsType
    <3>3. conn' \in [Conn -> TcpConnection]
      BY <2>9, <3>2 DEF ConnectEstablished, TypeOK
    <3>4. QED
      BY <2>0, <2>9, <3>3, RunsType, PushType DEF ConnectEstablished, FunctorName, TypeOK
  <2>10. ASSUME NEW c \in Conn, ConnectDestoryed(c)
         PROVE  TypeOK'
    <3>1. conn[c] \in TcpConnection
      BY DEF TypeOK
    <3>2. conn' \in [Conn -> TcpConnection]
      BY <2>10, <3>1, OperationType DEF ConnectDestoryed, TypeOK
    <3>3. QED
      BY <2>0, <2>10, <3>2, RunsType DEF ConnectDestoryed, FunctorName, TypeOK
  <2>11. ASSUME NEW c \in Conn, RunShutdownInloop(c)
         PROVE  TypeOK'
    <3>1. conn' \in [Conn -> TcpConnection]
      BY <2>11, OperationType DEF RunShutdownInloop, TypeOK
    <3>2. QED
      BY <2>0, <2>11, <3>1, RunsType DEF RunShutdownInloop, FunctorName, TypeOK
  <2>12. ASSUME NEW c \in Conn, NEW e, NEW result, Handles(c, e), ReadFd(c, result)
         PROVE  /\ active' \subseteq Conn \X {"IN", "OUT"}
                /\ peer' \in [Conn -> [open : BOOLEAN, unread : BOOLEAN,
                                       left : 0 .. MaxMessages]]
    <3>1. active' \subseteq Conn \X {"IN", "OUT"}
      BY <2>12 DEF Handles, TypeOK
    <3> DEFINE Peer == [open : BOOLEAN, unread : BOOLEAN, left : 0 .. MaxMessages]
               after == [peer[c] EXCEPT !.unread = FALSE]
    <3>2. peer' = [peer EXCEPT ![c] = after]
      BY <2>12 DEF ReadFd
    <3>3. peer \in [Conn -> Peer] /\ peer[c] \in Peer
      BY DEF TypeOK
    <3>4. after \in Peer
      BY <3>3
    <3> HIDE DEF Peer, after
    <3>5. peer' \in [Conn -> Peer]
      BY <3>2, <3>3, <3>4
    <3>6. QED
      BY <3>1, <3>5 DEF Peer
  <2>13. ASSUME NEW c \in Conn, HandleMessage(c)
         PROVE  TypeOK'
    <3>1. [conn[c] EXCEPT !.recent = TRUE] \in TcpConnection
      BY <2>0, FieldType
    <3>2. \A k \in Send([conn[c] EXCEPT !.recent = TRUE]) : Shutdown(k) \in TcpConnection
      BY <3>1, OperationType
    <3>3. \E k \in TcpConnection : conn' = [conn EXCEPT ![c] = k]
      <4>1. CASE conn' = [conn EXCEPT ![c].recent = TRUE]
        BY <3>1, <4>1
      <4>2. CASE \E k \in Send([conn[c] EXCEPT !.recent = TRUE]) :
                    conn' = [conn EXCEPT ![c] = Shutdown(k)]
        BY <3>2, <4>2
      <4>3. QED
        BY <2>13, <4>1, <4>2 DEF HandleMessage
    <3>4. conn' \in [Conn -> TcpConnection]
      BY <3>3 DEF TypeOK
    <3>5. request' \in {NoRequest} \union [c : Conn, close : BOOLEAN]
      BY <2>13 DEF HandleMessage, TypeOK
    <3>6. QED
      BY <2>12, <2>13, <3>4, <3>5 DEF HandleMessage, TypeOK
  <2>14. ASSUME NEW c \in Conn, HandleClose(c)
         PROVE  TypeOK'
    <3>1. conn' \in [Conn -> TcpConnection]
      BY <2>14, OperationType DEF HandleClose, TypeOK
    <3>2. queue' \in [Loop -> Seq(Functor)]
      BY <2>0, <2>14, PushType DEF HandleClose, FunctorName
    <3>3. QED
      BY <2>12, <2>14, <3>1, <3>2 DEF HandleClose, TypeOK
  <2>15. ASSUME NEW c \in Conn, HandleError(c)
         PROVE  TypeOK'
    BY <2>12, <2>15 DEF HandleError, TypeOK
  <2>16. ASSUME NEW c \in Conn, HandleWrite(c)
         PROVE  TypeOK'
    <3>1. [conn[c] EXCEPT !.unsent = FALSE] \in TcpConnection
      BY <2>0, FieldType
    <3>2. DisableWriting([conn[c] EXCEPT !.unsent = FALSE]) \in TcpConnection
      BY <3>1, EventEffect
    <3>3. ShutdownInloop(DisableWriting([conn[c] EXCEPT !.unsent = FALSE])) \in TcpConnection
      BY <3>2, OperationType
    <3>4. conn' \in [Conn -> TcpConnection]
      <4> DEFINE k == DisableWriting([conn[c] EXCEPT !.unsent = FALSE])
                 after == IF k.state = "kDisConnecting" THEN ShutdownInloop(k) ELSE k
      <4>1. after \in TcpConnection /\ conn \in [Conn -> TcpConnection]
        BY <3>2, <3>3 DEF TypeOK
      <4>2. conn' = conn \/ conn' = [conn EXCEPT ![c] = after]
        BY <2>16 DEF HandleWrite
      <4> HIDE DEF after
      <4>3. QED
        BY <4>1, <4>2
    <3>5. active' \subseteq Conn \X {"IN", "OUT"}
      BY <2>16 DEF HandleWrite, Handles, TypeOK
    <3>6. QED
      BY <2>16, <3>4, <3>5 DEF HandleWrite, TypeOK
  <2>17. CASE Respond
    <3>1. request.c \in Conn
      BY <2>17 DEF Respond, TypeOK
    <3>2. conn[request.c] \in TcpConnection
      BY <3>1 DEF TypeOK
    <3>3. PICK k \in TcpConnection :
             conn' = [conn EXCEPT ![request.c] = IF request.close THEN Shutdown(k) ELSE k]
      BY <2>17, <3>2, OperationType DEF Respond
    <3>4. conn' \in [Conn -> TcpConnection]
      BY <3>1, <3>3, OperationType DEF TypeOK
    <3>5. QED
      BY <2>17, <3>4 DEF Respond, TypeOK
  <2>18. ASSUME NEW c \in Conn, NewConnection(c)
         PROVE  TypeOK'
    <3>1. [conn[c] EXCEPT !.state = "kConnecting"] \in TcpConnection
      BY <2>0, FieldType DEF State
    <3>2. queue' \in [Loop -> Seq(Functor)]
      BY <2>0, <2>18, PushType DEF NewConnection, FunctorName
    <3>3. QED
      BY <2>18, <3>1, <3>2 DEF NewConnection, TypeOK
  <2>19. ASSUME NEW c \in Conn, LockIdle(c)
         PROVE  TypeOK'
    BY <2>19 DEF LockIdle, TypeOK
  <2>20. ASSUME NEW c \in Conn, PeerSends(c)
         PROVE  TypeOK'
    <3>1. peer[c].left - 1 \in 0 .. MaxMessages
      BY <2>20, BoundAssumption DEF PeerSends, TypeOK
    <3>2. peer' \in [Conn -> [open : BOOLEAN, unread : BOOLEAN, left : 0 .. MaxMessages]]
      BY <2>20, <3>1 DEF PeerSends, TypeOK
    <3>3. QED
      BY <2>20, <3>2 DEF PeerSends, TypeOK
  <2>21. ASSUME NEW c \in Conn, PeerCloses(c)
         PROVE  TypeOK'
    BY <2>21 DEF PeerCloses, TypeOK
  <2>22. CASE UNCHANGED vars
    BY <2>22 DEF vars, TypeOK
  <2>23. QED
    BY <2>0, <2>1, <2>2, <2>3, <2>4, <2>5, <2>6, <2>7, <2>8, <2>9, <2>10, <2>11,
       <2>13, <2>14, <2>15, <2>16, <2>17, <2>18, <2>19, <2>20, <2>21, <2>22
       DEF Next, MainStep, IoStep
<1>3. QED
  BY <1>1, <1>2, PTL DEF Spec

-----------------------------------------------------------------------------
(***************************************************************************)
(* A loop's functors that have still to run are a queue: one that is sent  *)
(* to the loop comes behind the others, the one that runs is the first,    *)
(* and the exchange of the batches moves none.                             *)
(***************************************************************************)

\* a is in q at most once.
OnceIn(q, a) == \A i, j \in DOMAIN q : q[i] = a /\ q[j] = a => i = j

\* Every a in q comes after every b in q.
Behind(q, a, b) == \A i, j \in DOMAIN q : q[i] = a /\ q[j] = b => j < i

\* A sequence with one more element: what stays unique, and what stays behind.
LEMMA AppendToTodo ==
    ASSUME NEW S, NEW q \in Seq(S), NEW x \in S
    PROVE  /\ Range(Append(q, x)) = Range(q) \union {x}
           /\ \A a \in S : OnceIn(q, a) /\ (x = a => a \notin Range(q))
                             => OnceIn(Append(q, x), a)
           /\ \A a, b \in S : Behind(q, a, b) /\ a # b /\ (x = b => a \notin Range(q))
                             => Behind(Append(q, x), a, b)
<1> DEFINE r == Append(q, x)
<1>1. /\ DOMAIN q = 1..Len(q) /\ Len(q) \in Nat
      /\ r \in Seq(S) /\ Len(r) = Len(q) + 1
      /\ \A i \in 1..Len(q) : r[i] = q[i]
      /\ r[Len(q) + 1] = x
  BY AppendProperties, LenProperties
<1>2. DOMAIN r = 1..Len(r)
  BY <1>1, LenProperties
<1> HIDE DEF r
<1>3. \A i \in DOMAIN r : (i \in DOMAIN q /\ r[i] = q[i]) \/ (i = Len(q) + 1 /\ r[i] = x)
  BY <1>1, <1>2
<1>4. \A i \in DOMAIN q : i \in DOMAIN r /\ r[i] = q[i] /\ q[i] \in Range(q) /\ i < Len(q) + 1
  BY <1>1, <1>2 DEF Range
<1>5. Len(q) + 1 \in DOMAIN r
  BY <1>1, <1>2
<1>6. Range(r) = Range(q) \union {x}
  BY <1>1, <1>3, <1>4, <1>5 DEF Range
<1>7. ASSUME NEW a \in S, OnceIn(q, a), x = a => a \notin Range(q)
      PROVE  OnceIn(r, a)
  BY <1>3, <1>4, <1>7 DEF OnceIn
<1>8. ASSUME NEW a \in S, NEW b \in S, Behind(q, a, b), a # b, x = b => a \notin Range(q)
      PROVE  Behind(r, a, b)
  BY <1>3, <1>4, <1>8 DEF Behind
<1>9. QED
  BY <1>6, <1>7, <1>8 DEF r

\* A sequence without its first element: a unique one is gone when it was the
\* first, and what must come behind another is behind it still.
LEMMA TakeFromTodo ==
    ASSUME NEW S, NEW q \in Seq(S), q # <<>>
    PROVE  /\ Range(q) = Range(Tail(q)) \union {Head(q)}
           /\ \A a \in S : OnceIn(q, a)
                => OnceIn(Tail(q), a) /\ (Head(q) = a => a \notin Range(Tail(q)))
           /\ \A a, b \in S : Behind(q, a, b)
                => Behind(Tail(q), a, b) /\ (Head(q) = a => b \notin Range(q))
<1> DEFINE r == Tail(q)
<1>1. /\ DOMAIN q = 1..Len(q) /\ Len(q) \in Nat \ {0}
      /\ r \in Seq(S) /\ Len(r) = Len(q) - 1
      /\ \A i \in 1..Len(r) : r[i] = q[i + 1]
      /\ Head(q) = q[1]
  BY HeadTailProperties, LenProperties, EmptySeq
<1>2. DOMAIN r = 1..Len(r)
  BY <1>1, LenProperties
<1> HIDE DEF r
<1>3. \A i \in DOMAIN r : i + 1 \in DOMAIN q /\ i + 1 # 1 /\ r[i] = q[i + 1] /\ i \in Int
  BY <1>1, <1>2
<1>4. 1 \in DOMAIN q /\ \A i \in DOMAIN q : ~(i < 1)
  BY <1>1
<1>5. \A i \in DOMAIN q : i # 1 => i - 1 \in DOMAIN r /\ r[i - 1] = q[i]
  BY <1>1, <1>2
<1>6. Range(q) = Range(r) \union {Head(q)}
  <2>1. \A i \in DOMAIN q : q[i] \in Range(r) \/ q[i] = Head(q)
    BY <1>1, <1>5 DEF Range
  <2>2. \A i \in DOMAIN r : r[i] \in Range(q)
    BY <1>3 DEF Range
  <2>3. Head(q) \in Range(q)
    BY <1>1, <1>4 DEF Range
  <2>4. QED
    BY <2>1, <2>2, <2>3 DEF Range
<1>7. ASSUME NEW a \in S, OnceIn(q, a)
      PROVE  OnceIn(r, a) /\ (Head(q) = a => a \notin Range(r))
  <2>1. ASSUME NEW i \in DOMAIN r, NEW j \in DOMAIN r, r[i] = a, r[j] = a
        PROVE  i = j
    <3>1. i + 1 = j + 1
      BY <1>3, <1>7, <2>1 DEF OnceIn
    <3>2. QED
      BY <1>3, <3>1
  <2>2. ASSUME Head(q) = a, NEW i \in DOMAIN r
        PROVE  r[i] # a
    BY <1>1, <1>3, <1>4, <1>7, <2>2 DEF OnceIn
  <2>3. QED
    BY <2>1, <2>2 DEF OnceIn, Range
<1>8. ASSUME NEW a \in S, NEW b \in S, Behind(q, a, b)
      PROVE  Behind(r, a, b) /\ (Head(q) = a => b \notin Range(q))
  <2>1. ASSUME NEW i \in DOMAIN r, NEW j \in DOMAIN r, r[i] = a, r[j] = b
        PROVE  j < i
    <3>1. j + 1 < i + 1
      BY <1>3, <1>8, <2>1 DEF Behind
    <3>2. QED
      BY <1>3, <3>1
  <2>2. ASSUME Head(q) = a, NEW j \in DOMAIN q
        PROVE  q[j] # b
    BY <1>1, <1>4, <1>8, <2>2 DEF Behind
  <2>3. QED
    BY <2>1, <2>2 DEF Behind, Range
<1>9. QED
  BY <1>6, <1>7, <1>8 DEF r

\* What a loop has still to run are functors.
LEMMA TodoType ==
    ASSUME TypeOK, NEW l \in Loop
    PROVE  /\ SubSeq(batch[l], next[l], Len(batch[l])) \in Seq(Functor)
           /\ Todo(l) \in Seq(Functor)
<1>1. /\ batch[l] \in Seq(Functor) /\ queue[l] \in Seq(Functor)
      /\ next[l] \in Int /\ 1 <= next[l]
  BY DEF TypeOK
<1>2. Len(batch[l]) \in Int /\ \A i \in next[l]..Len(batch[l]) : batch[l][i] \in Functor
  BY <1>1, LenProperties, ElementOfSeq
<1>3. SubSeq(batch[l], next[l], Len(batch[l])) \in Seq(Functor)
  BY <1>1, <1>2, SubSeqProperties
<1>4. QED
  BY <1>1, <1>3, ConcatProperties DEF Todo

\* Steps that leave queue and batch alone leave that sequence alone.
LEMMA TodoKept ==
    ASSUME NEW l \in Loop,
           queue'[l] = queue[l], batch'[l] = batch[l], next'[l] = next[l]
    PROVE  Todo(l)' = Todo(l)
BY DEF Todo

\* queueInLoop appends to it (EventLoop.cc:122-126).
LEMMA TodoPushed ==
    ASSUME TypeOK, NEW l \in Loop, NEW fn \in Functor,
           queue'[l] = Append(queue[l], fn), batch'[l] = batch[l], next'[l] = next[l]
    PROVE  Todo(l)' = Append(Todo(l), fn)
<1> DEFINE rest == SubSeq(batch[l], next[l], Len(batch[l]))
<1>1. rest \in Seq(Functor) /\ queue[l] \in Seq(Functor) /\ <<fn>> \in Seq(Functor)
  BY TodoType DEF TypeOK
<1>2. Todo(l)' = rest \o Append(queue[l], fn)
  BY DEF Todo
<1> HIDE DEF rest
<1>3. rest \o Append(queue[l], fn) = (rest \o queue[l]) \o <<fn>>
  BY <1>1, AppendIsConcat, ConcatAssociative
<1>4. rest \o queue[l] \in Seq(Functor)
  BY <1>1, ConcatProperties
<1>5. (rest \o queue[l]) \o <<fn>> = Append(rest \o queue[l], fn)
  BY <1>4, AppendIsConcat
<1>6. QED
  BY <1>2, <1>3, <1>5 DEF Todo, rest

\* First element and rest of a sequence put together from them.
LEMMA HeadTailOfCons ==
    ASSUME NEW S, NEW x \in S, NEW r \in Seq(S)
    PROVE  /\ <<x>> \o r # <<>>
           /\ Head(<<x>> \o r) = x
           /\ Tail(<<x>> \o r) = r
<1> DEFINE q == <<x>> \o r
<1>1. <<x>> \in Seq(S) /\ Len(<<x>>) = 1 /\ <<x>>[1] = x
  OBVIOUS
<1>2. /\ q \in Seq(S) /\ Len(q) = 1 + Len(r) /\ Len(r) \in Nat
      /\ \A i \in 1..1 + Len(r) : q[i] = IF i <= 1 THEN <<x>>[i] ELSE r[i - 1]
  BY <1>1, ConcatProperties, LenProperties
<1> HIDE DEF q
<1>3. q # <<>>
  BY <1>2, EmptySeq
<1>4. Head(q) = x
  BY <1>1, <1>2, <1>3, HeadTailProperties
<1>5. /\ Tail(q) \in Seq(S) /\ Len(Tail(q)) = Len(r)
      /\ \A i \in 1..Len(Tail(q)) : Tail(q)[i] = q[i + 1]
  BY <1>2, <1>3, HeadTailProperties
<1>6. \A i \in 1..Len(r) : i + 1 \in 1..1 + Len(r) /\ ~(i + 1 <= 1) /\ (i + 1) - 1 = i
  BY <1>2
<1>7. \A i \in 1..Len(Tail(q)) : Tail(q)[i] = r[i]
  BY <1>2, <1>5, <1>6
<1>8. Tail(q) = r
  BY <1>5, <1>7, SeqEqual
<1>9. QED
  BY <1>3, <1>4, <1>8 DEF q

\* The first element and what is behind it.
Starts(s, x, rest) == s # <<>> /\ Head(s) = x /\ Tail(s) = rest

\* First element and rest of a sequence, followed by a queue.
LEMMA FirstAndRest ==
    ASSUME NEW S, NEW x \in S, NEW rest \in Seq(S), NEW q \in Seq(S),
           NEW whole, whole = <<x>> \o rest
    PROVE  Starts(whole \o q, x, rest \o q)
<1> DEFINE first == <<x>>
<1>1. first \in Seq(S)
  OBVIOUS
<1> HIDE DEF first
<1>2. (first \o rest) \o q = first \o (rest \o q)
  BY <1>1, ConcatAssociative
<1>3. rest \o q \in Seq(S)
  BY ConcatProperties
<1>4. /\ first \o (rest \o q) # <<>>
      /\ Head(first \o (rest \o q)) = x
      /\ Tail(first \o (rest \o q)) = rest \o q
  BY <1>3, HeadTailOfCons DEF first
<1>5. whole \o q = first \o (rest \o q)
  BY <1>2 DEF first
<1>6. QED
  BY <1>4, <1>5 DEF Starts

\* First element and rest of what is left of a batch, followed by a queue.
LEMMA FirstOfRest ==
    ASSUME NEW S, NEW b \in Seq(S), NEW n \in 1..Len(b), NEW q \in Seq(S)
    PROVE  /\ SubSeq(b, n, Len(b)) \o q # <<>>
           /\ Head(SubSeq(b, n, Len(b)) \o q) = b[n]
           /\ Tail(SubSeq(b, n, Len(b)) \o q) = SubSeq(b, n + 1, Len(b)) \o q
<1> DEFINE whole == SubSeq(b, n, Len(b))
           x == b[n]
           rest == SubSeq(b, n + 1, Len(b))
<1>1. Len(b) \in Nat /\ n \in Int /\ x \in S
  BY LenProperties, ElementOfSeq
<1>2. rest \in Seq(S)
  <2>1. \A i \in n + 1..Len(b) : b[i] \in S
    BY <1>1, ElementOfSeq
  <2>2. QED
    BY <1>1, <2>1, SubSeqProperties
<1>3. whole = <<x>> \o rest
  BY <1>1, SubSeqRecursiveFirst
<1> HIDE DEF whole, x, rest
<1>4. Starts(whole \o q, x, rest \o q)
  BY <1>1, <1>2, <1>3, FirstAndRest
<1>5. QED
  BY <1>4 DEF Starts, whole, x, rest

\* Running the next functor of the batch takes the first one
\* (EventLoop.cc:171-173).
LEMMA TodoTaken ==
    ASSUME TypeOK, NEW l \in Loop, NEW f, NEW c, Runs(l, f, c), queue'[l] = queue[l]
    PROVE  /\ Todo(l) # <<>>
           /\ Head(Todo(l)) = [f |-> f, c |-> c]
           /\ Todo(l)' = Tail(Todo(l))
<1>1. /\ batch[l] \in Seq(Functor) /\ queue[l] \in Seq(Functor)
      /\ next[l] \in 1..Len(batch[l])
      /\ batch[l][next[l]] = [f |-> f, c |-> c]
      /\ batch'[l] = batch[l] /\ next'[l] = next[l] + 1
  BY LenProperties DEF TypeOK, Runs
<1>2. Todo(l)' = SubSeq(batch[l], next[l] + 1, Len(batch[l])) \o queue[l]
  BY <1>1 DEF Todo
<1> DEFINE b == batch[l]
           n == next[l]
           q == queue[l]
<1>3. b \in Seq(Functor) /\ n \in 1..Len(b) /\ q \in Seq(Functor)
  BY <1>1
<1>4. Todo(l) = SubSeq(b, n, Len(b)) \o q
  BY DEF Todo
<1>5. Todo(l)' = SubSeq(b, n + 1, Len(b)) \o q
  BY <1>2
<1> HIDE DEF b, n, q
<1>6. /\ SubSeq(b, n, Len(b)) \o q # <<>>
      /\ Head(SubSeq(b, n, Len(b)) \o q) = b[n]
      /\ Tail(SubSeq(b, n, Len(b)) \o q) = SubSeq(b, n + 1, Len(b)) \o q
  BY <1>3, FirstOfRest
<1>7. QED
  BY <1>1, <1>4, <1>5, <1>6 DEF b, n

\* When the batch is through, what is to run is the queue.
LEMMA TodoBetweenBatches ==
    ASSUME TypeOK, NEW l \in Loop, Len(batch[l]) < next[l]
    PROVE  Todo(l) = queue[l]
<1>1. next[l] \in Int /\ batch[l] \in Seq(Functor) /\ queue[l] \in Seq(Functor)
  BY DEF TypeOK
<1>2. SubSeq(batch[l], next[l], Len(batch[l])) = <<>>
  BY <1>1, LenProperties, SubSeqEmpty
<1>3. QED
  BY <1>1, <1>2, ConcatEmptySeq DEF Todo

\* The swap moves the queue into the batch and changes nothing about the whole
\* (EventLoop.cc:164-168).
LEMMA TodoSwapped ==
    ASSUME TypeOK, TypeOK', NEW l \in Loop, batch[l] = <<>>,
           batch'[l] = queue[l], queue'[l] = <<>>, next'[l] = 1
    PROVE  Todo(l)' = Todo(l)
<1>1. next[l] \in Nat \ {0} /\ queue[l] \in Seq(Functor)
  BY DEF TypeOK
<1>2. Len(batch[l]) < next[l]
  BY <1>1, EmptySeq
<1>3. Todo(l) = queue[l]
  BY <1>2, TodoBetweenBatches
<1>4. SubSeq(queue[l], 1, Len(queue[l])) \o <<>> = queue[l]
  BY <1>1, SubSeqFull, ConcatEmptySeq
<1>5. QED
  BY <1>3, <1>4 DEF Todo

\* Nor does dropping a batch that has run.
LEMMA TodoFinished ==
    ASSUME TypeOK, NEW l \in Loop, Len(batch[l]) < next[l],
           batch'[l] = <<>>, queue'[l] = queue[l], next'[l] = next[l]
    PROVE  Todo(l)' = Todo(l)
<1>1. next[l] \in Nat \ {0} /\ queue[l] \in Seq(Functor)
  BY DEF TypeOK
<1>2. Len(<<>>) = 0
  BY EmptySeq
<1>3. SubSeq(<<>>, next[l], Len(<<>>)) = <<>>
  BY <1>1, <1>2, SubSeqEmpty
<1>4. Todo(l)' = queue[l]
  BY <1>1, <1>3, ConcatEmptySeq DEF Todo
<1>5. QED
  BY <1>4, TodoBetweenBatches

-----------------------------------------------------------------------------
(***************************************************************************)
(* The inductive invariant.  The functors of the life of a connection that *)
(* have still to run say, together with the map of the server, where the   *)
(* connection is in it.                                                    *)
(***************************************************************************)
LifeFunctor == {"connectEstablished", "connectDestoryed",
                "removeConnectionInLoop", "shutdownInloop"}

LoopOf(f) == IF f = "removeConnectionInLoop" THEN "main" ELSE "io"

Fn(f, c) == [f |-> f, c |-> c]

Waiting(c) == {f \in LifeFunctor : Fn(f, c) \in ToRun(LoopOf(f))}

\* Before connectEstablished.
Fresh(k) ==
    /\ k.index = "kNew"
    /\ k.events = {}
    /\ ~k.unsent /\ ~k.fin
    /\ k.callbacks = <<>>

\* From connectEstablished to handleClose.
Serving(k) ==
    /\ k.state \in {"kConnected", "kDisConnecting"}
    /\ k.index = "kAdded"
    /\ "IN" \in k.events
    /\ IsWriting(k) <=> k.unsent
    /\ k.fin => ~k.unsent /\ k.state = "kDisConnecting"
    /\ k.callbacks = <<"online">>

\* After handleClose; shutdown() in the main loop may rewrite the state.
Over(k) ==
    /\ k.state \in {"kDisConnecting", "kdisConnected"}
    /\ k.index # "kAdded"
    /\ k.events = {}
    /\ k.callbacks = <<"online", "offline">>

Untouched(c) ==
    /\ Fresh(conn[c]) /\ conn[c].state = "none"
    /\ c \notin connections_
    /\ Waiting(c) = {}

Opening(c) ==
    /\ Fresh(conn[c]) /\ conn[c].state = "kConnecting"
    /\ c \in connections_
    /\ Waiting(c) = {"connectEstablished"}

Open(c) ==
    /\ Serving(conn[c])
    /\ c \in connections_
    /\ Waiting(c) \subseteq {"shutdownInloop"}
    /\ "shutdownInloop" \in Waiting(c) => conn[c].state = "kDisConnecting"

Closing(c) ==
    /\ Over(conn[c]) /\ conn[c].index = "kDeleted"
    /\ c \in connections_
    /\ "removeConnectionInLoop" \in Waiting(c)
    /\ Waiting(c) \subseteq {"removeConnectionInLoop", "shutdownInloop"}

Removed(c) ==
    /\ Over(conn[c]) /\ conn[c].index = "kDeleted"
    /\ c \notin connections_
    /\ "connectDestoryed" \in Waiting(c)
    /\ Waiting(c) \subseteq {"connectDestoryed", "shutdownInloop"}

Destroyed(c) ==
    /\ Over(conn[c]) /\ conn[c].index = "kNew"
    /\ c \notin connections_
    /\ Waiting(c) = {}

Stage(c) ==
    \/ Untouched(c)
    \/ Opening(c)
    \/ Open(c)
    \/ Closing(c)
    \/ Removed(c)
    \/ Destroyed(c)

\* FinNotForgotten of one connection.
Reminded(c) ==
    conn[c].state = "kDisConnecting" /\ ~IsWriting(conn[c]) =>
        conn[c].fin \/ "shutdownInloop" \in Waiting(c)

\* Of the functors that move a connection on each is sent once, and
\* connectDestoryed after every shutdownInloop, which has a raw pointer.
InOrder(l) ==
    \A c \in Conn :
       /\ \A f \in LifeFunctor \ {"shutdownInloop"} : OnceIn(Todo(l), Fn(f, c))
       /\ Behind(Todo(l), Fn("connectDestoryed", c), Fn("shutdownInloop", c))

\* A loop runs functors only when it has handled its events, and the batch it
\* has run is dropped before it polls again.
Phases ==
    /\ \A l \in Loop : phase[l] # "functors" => batch[l] = <<>>
    /\ phase["main"] \in {"poll", "functors"}
    /\ active # {} \/ request # NoRequest => phase["io"] = "dispatch"
    /\ idle # NotIdle => phase["main"] = "poll"

\* What a loop holds of a connection from one of its steps to the next.
InHand ==
    /\ \A e \in active : conn[e[1]].index # "kNew"
    /\ \A c \in Conn : <<c, "IN">> \in active => conn[c].index = "kAdded"
    /\ request # NoRequest => conn[request.c].index = "kAdded"
    /\ idle.at = "set" => idle.c \in connections_ /\ conn[idle.c].index # "kNew"

\* Every connection is at one stage of its life, with the functors that lead on
\* from there, in order, and what a loop holds of it between two steps is valid.
LifeInvariant ==
    /\ \A l \in Loop : InOrder(l)
    /\ \A c \in Conn : Stage(c) /\ Reminded(c)
    /\ Phases
    /\ InHand

\* A functor is of one kind and of one connection.
LEMMA FunctorOf ==
    ASSUME NEW f \in FunctorName, NEW c \in Conn
    PROVE  /\ Fn(f, c) \in Functor
           /\ \A g, d : Fn(g, d) = Fn(f, c) => g = f /\ d = c
BY DEF Fn, Functor, FunctorName

\* What is sent to a loop for the first time, and behind what it must follow.
LEMMA SentInOrder ==
    ASSUME TypeOK, NEW l \in Loop, NEW f \in FunctorName, NEW c \in Conn,
           Todo(l)' = Append(Todo(l), Fn(f, c)), InOrder(l),
           f \in LifeFunctor \ {"shutdownInloop"} => Fn(f, c) \notin ToRun(l),
           f = "shutdownInloop" => Fn("connectDestoryed", c) \notin ToRun(l)
    PROVE  InOrder(l)' /\ ToRun(l)' = ToRun(l) \union {Fn(f, c)}
<1> DEFINE q == Todo(l)
           x == Fn(f, c)
<1>1. q \in Seq(Functor) /\ x \in Functor
  BY TodoType, FunctorOf
<1>2. \A g \in LifeFunctor, d \in Conn :
         /\ Fn(g, d) \in Functor
         /\ Fn(g, d) = x => g = f /\ d = c
  BY FunctorOf DEF LifeFunctor, FunctorName
<1>3. \A d \in Conn : Fn("connectDestoryed", d) # Fn("shutdownInloop", d)
  BY DEF Fn
<1>4. /\ Range(Append(q, x)) = Range(q) \union {x}
      /\ \A a \in Functor : OnceIn(q, a) /\ (x = a => a \notin Range(q))
                              => OnceIn(Append(q, x), a)
      /\ \A a, b \in Functor : Behind(q, a, b) /\ a # b /\ (x = b => a \notin Range(q))
                              => Behind(Append(q, x), a, b)
  <2> HIDE DEF q, x
  <2>1. QED
    BY <1>1, AppendToTodo
<1>5. Todo(l)' = Append(q, x) /\ Range(q) = ToRun(l)
  BY DEF ToRun
<1>6. \A d \in Conn, g \in LifeFunctor \ {"shutdownInloop"} :
         x = Fn(g, d) => Fn(g, d) \notin Range(q)
  BY <1>2, <1>5
<1>7. \A d \in Conn : x = Fn("shutdownInloop", d) => Fn("connectDestoryed", d) \notin Range(q)
  BY <1>2, <1>5 DEF LifeFunctor
<1>8. /\ \A d \in Conn, g \in LifeFunctor \ {"shutdownInloop"} : OnceIn(q, Fn(g, d))
      /\ \A d \in Conn : Behind(q, Fn("connectDestoryed", d), Fn("shutdownInloop", d))
  BY DEF InOrder
<1> HIDE DEF q, x
<1>9. \A d \in Conn, g \in LifeFunctor \ {"shutdownInloop"} : OnceIn(Append(q, x), Fn(g, d))
  BY <1>2, <1>4, <1>6, <1>8
<1>10. \A d \in Conn : Behind(Append(q, x), Fn("connectDestoryed", d), Fn("shutdownInloop", d))
  <2>1. "connectDestoryed" \in LifeFunctor /\ "shutdownInloop" \in LifeFunctor
    BY DEF LifeFunctor
  <2>2. QED
    BY <1>2, <1>3, <1>4, <1>7, <1>8, <2>1
<1>11. QED
  BY <1>4, <1>5, <1>9, <1>10 DEF InOrder, ToRun, x

\* Running a functor keeps the order of the others, and none of its kind, or
\* none that it must come after, is left.
LEMMA TakenInOrder ==
    ASSUME TypeOK, NEW l \in Loop, NEW f \in FunctorName, NEW c \in Conn,
           Runs(l, f, c), queue'[l] = queue[l], InOrder(l)
    PROVE  /\ InOrder(l)'
           /\ ToRun(l) = ToRun(l)' \union {Fn(f, c)}
           /\ f \in LifeFunctor \ {"shutdownInloop"} => Fn(f, c) \notin ToRun(l)'
           /\ f = "connectDestoryed" => Fn("shutdownInloop", c) \notin ToRun(l)
<1> DEFINE q == Todo(l)
           x == Fn(f, c)
<1>1. q \in Seq(Functor) /\ x \in Functor
  BY TodoType, FunctorOf
<1>2. q # <<>> /\ Head(q) = x /\ Todo(l)' = Tail(q) /\ Range(q) = ToRun(l)
  BY TodoTaken DEF ToRun, Fn
<1>3. \A g \in LifeFunctor, d \in Conn : Fn(g, d) \in Functor
  BY FunctorOf DEF LifeFunctor, FunctorName
<1>4. /\ \A d \in Conn, g \in LifeFunctor \ {"shutdownInloop"} : OnceIn(q, Fn(g, d))
      /\ \A d \in Conn : Behind(q, Fn("connectDestoryed", d), Fn("shutdownInloop", d))
  BY DEF InOrder
<1> HIDE DEF q, x
<1>5. /\ Range(q) = Range(Tail(q)) \union {Head(q)}
      /\ \A a \in Functor : OnceIn(q, a)
           => OnceIn(Tail(q), a) /\ (Head(q) = a => a \notin Range(Tail(q)))
      /\ \A a, b \in Functor : Behind(q, a, b)
           => Behind(Tail(q), a, b) /\ (Head(q) = a => b \notin Range(q))
  BY <1>1, <1>2, TakeFromTodo
<1>6. "connectDestoryed" \in LifeFunctor /\ "shutdownInloop" \in LifeFunctor
  BY DEF LifeFunctor
<1>7. /\ \A d \in Conn, g \in LifeFunctor \ {"shutdownInloop"} : OnceIn(Tail(q), Fn(g, d))
      /\ \A d \in Conn : Behind(Tail(q), Fn("connectDestoryed", d), Fn("shutdownInloop", d))
  BY <1>3, <1>4, <1>5, <1>6
<1>8. f \in LifeFunctor \ {"shutdownInloop"} => x \notin Range(Tail(q))
  BY <1>1, <1>2, <1>4, <1>5 DEF x
<1>9. f = "connectDestoryed" => Fn("shutdownInloop", c) \notin Range(q)
  BY <1>2, <1>3, <1>4, <1>5, <1>6 DEF x
<1>10. Range(Tail(q)) = ToRun(l)'
  BY <1>2 DEF ToRun
<1>11. QED
  BY <1>2, <1>5, <1>7, <1>8, <1>9, <1>10 DEF InOrder, x

\* A loop whose functors do not change keeps them in order.
LEMMA KeptInOrder ==
    ASSUME NEW l \in Loop, Todo(l)' = Todo(l), InOrder(l)
    PROVE  InOrder(l)' /\ ToRun(l)' = ToRun(l)
BY DEF InOrder, ToRun

\* How Waiting follows the queues.
LEMMA WaitingKept ==
    ASSUME \A l \in Loop : ToRun(l)' = ToRun(l)
    PROVE  \A c \in Conn : Waiting(c)' = Waiting(c)
BY DEF Waiting, LoopOf, Loop

\* A functor that is sent waits for its connection, and no other connection
\* notices.
LEMMA WaitingSent ==
    ASSUME NEW l \in Loop, NEW f \in FunctorName, NEW c \in Conn,
           ToRun(l)' = ToRun(l) \union {Fn(f, c)},
           \A m \in Loop \ {l} : ToRun(m)' = ToRun(m)
    PROVE  /\ f \in LifeFunctor /\ l = LoopOf(f) => Waiting(c)' = Waiting(c) \union {f}
           /\ f \notin LifeFunctor => Waiting(c)' = Waiting(c)
           /\ \A d \in Conn \ {c} : Waiting(d)' = Waiting(d)
<1>1. \A g, d : Fn(g, d) = Fn(f, c) <=> g = f /\ d = c
  BY FunctorOf
<1>2. \A g \in LifeFunctor : LoopOf(g) \in Loop
  BY DEF LoopOf, Loop
<1>3. \A g \in LifeFunctor, d \in Conn :
         ~(g = f /\ d = c) => (Fn(g, d) \in ToRun(LoopOf(g))' <=> Fn(g, d) \in ToRun(LoopOf(g)))
  BY <1>1, <1>2
<1>4. QED
  BY <1>3 DEF Waiting

\* A functor that is taken has waited for its connection, and no other
\* connection notices.
LEMMA WaitingTaken ==
    ASSUME NEW l \in Loop, NEW f \in FunctorName, NEW c \in Conn,
           ToRun(l) = ToRun(l)' \union {Fn(f, c)},
           \A m \in Loop \ {l} : ToRun(m)' = ToRun(m)
    PROVE  /\ f \in LifeFunctor /\ l = LoopOf(f) =>
                 /\ f \in Waiting(c)
                 /\ Waiting(c)' \subseteq Waiting(c)
                 /\ Waiting(c) \ {f} \subseteq Waiting(c)'
                 /\ Fn(f, c) \notin ToRun(l)' => f \notin Waiting(c)'
           /\ f \notin LifeFunctor => Waiting(c)' = Waiting(c)
           /\ \A d \in Conn \ {c} : Waiting(d)' = Waiting(d)
<1>1. \A g, d : Fn(g, d) = Fn(f, c) <=> g = f /\ d = c
  BY FunctorOf
<1>2. \A g \in LifeFunctor : LoopOf(g) \in Loop
  BY DEF LoopOf, Loop
<1>3. \A g \in LifeFunctor, d \in Conn :
         ~(g = f /\ d = c) => (Fn(g, d) \in ToRun(LoopOf(g))' <=> Fn(g, d) \in ToRun(LoopOf(g)))
  BY <1>1, <1>2
<1>4. QED
  BY <1>3 DEF Waiting

\* A connection that a step does not touch stays where it is in its life.
LEMMA StageKept ==
    ASSUME NEW c \in Conn, Stage(c), Reminded(c),
           conn'[c].state = conn[c].state, conn'[c].index = conn[c].index,
           conn'[c].events = conn[c].events, conn'[c].unsent = conn[c].unsent,
           conn'[c].fin = conn[c].fin, conn'[c].callbacks = conn[c].callbacks,
           c \in connections_' <=> c \in connections_, Waiting(c)' = Waiting(c)
    PROVE  Stage(c)' /\ Reminded(c)'
BY DEF Stage, Reminded, Untouched, Opening, Open, Closing, Removed, Destroyed,
       Fresh, Serving, Over, IsWriting

\* A connection that is served stays so, and is never shut down the less.
LEMMA OpenKept ==
    ASSUME NEW c \in Conn, Open(c), Serving(conn'[c]),
           conn[c].state = "kDisConnecting" => conn'[c].state = "kDisConnecting",
           c \in connections_', Waiting(c)' \subseteq Waiting(c)
    PROVE  Stage(c)'
BY DEF Stage, Open

\* What the IO loop does with a connection that is served.
LEMMA ServingKept ==
    ASSUME NEW k \in TcpConnection, Serving(k)
    PROVE  /\ \A b \in BOOLEAN : Serving([k EXCEPT !.recent = b])
           /\ k.state = "kDisConnecting" =>
                 /\ Serving(ShutdownInloop(k))
                 /\ ShutdownInloop(k).state = "kDisConnecting"
                 /\ ShutdownInloop(k).fin \/ IsWriting(ShutdownInloop(k))
           /\ Serving([k EXCEPT !.state = "kDisConnecting"])
           /\ k.state = "kConnected" => \A j \in Send(k) :
                 j \in TcpConnection /\ Serving(j) /\ j.state = "kConnected"
           /\ LET j == DisableWriting([k EXCEPT !.unsent = FALSE])
              IN  j \in TcpConnection /\ Serving(j) /\ j.state = k.state
<1>1. \A b \in BOOLEAN : Serving([k EXCEPT !.recent = b])
  BY DEF Serving, IsWriting, TcpConnection
<1>2. ASSUME k.state = "kDisConnecting"
      PROVE  /\ Serving(ShutdownInloop(k))
             /\ ShutdownInloop(k).state = "kDisConnecting"
             /\ ShutdownInloop(k).fin \/ IsWriting(ShutdownInloop(k))
  BY <1>2 DEF Serving, IsWriting, ShutdownInloop, ShutdownWrite, TcpConnection
<1>3. Serving([k EXCEPT !.state = "kDisConnecting"])
  BY DEF Serving, IsWriting, TcpConnection
<1>4. ASSUME k.state = "kConnected", NEW j \in Send(k)
      PROVE  j \in TcpConnection /\ Serving(j) /\ j.state = "kConnected"
  <2>1. j \in TcpConnection
    BY OperationType
  <2>2. CASE j = k
    BY <1>4, <2>1, <2>2
  <2>3. CASE j = [k EXCEPT !.lost = TRUE]
    BY <1>4, <2>1, <2>3 DEF Serving, IsWriting, TcpConnection
  <2>4. CASE j = EnableEvent([k EXCEPT !.unsent = TRUE], "OUT")
    <3>1. [k EXCEPT !.unsent = TRUE] \in TcpConnection
      BY FieldType
    <3>2. j = [k EXCEPT !.unsent = TRUE, !.events = k.events \union {"OUT"}, !.index = "kAdded"]
      BY <2>4, <3>1, EventEffect DEF TcpConnection
    <3>3. QED
      BY <1>4, <2>1, <3>2 DEF Serving, IsWriting, TcpConnection
  <2>5. QED
    BY <1>4, <2>2, <2>3, <2>4 DEF Send
<1>5. LET j == DisableWriting([k EXCEPT !.unsent = FALSE])
      IN  j \in TcpConnection /\ Serving(j) /\ j.state = k.state
  BY DEF DisableWriting, UpdateChannel, Serving, IsWriting, TcpConnection
<1>6. QED
  BY <1>1, <1>2, <1>3, <1>4, <1>5

\* shutdown() of an open connection sends the FIN, or leaves it to handleWrite.
LEMMA ShutdownServing ==
    ASSUME NEW k \in TcpConnection, Serving(k)
    PROVE  /\ Serving(Shutdown(k))
           /\ k.state = "kDisConnecting" => Shutdown(k) = k
           /\ k.state = "kConnected" =>
                 Shutdown(k).fin \/ IsWriting(Shutdown(k))
<1>1. CASE k.state = "kConnected"
  <2> DEFINE j == [k EXCEPT !.state = "kDisConnecting"]
  <2>1. Shutdown(k) = ShutdownInloop(j)
    BY <1>1 DEF Shutdown
  <2>2. j \in TcpConnection /\ j.state = "kDisConnecting"
    BY DEF TcpConnection, State
  <2>3. Serving(j)
    BY <1>1, ServingKept
  <2> HIDE DEF j
  <2>4. Serving(ShutdownInloop(j)) /\ (ShutdownInloop(j).fin \/ IsWriting(ShutdownInloop(j)))
    BY <2>2, <2>3, ServingKept
  <2>5. QED
    BY <1>1, <2>1, <2>4
<1>2. CASE k.state # "kConnected"
  BY <1>2 DEF Shutdown
<1>3. QED
  BY <1>1, <1>2

\* What the user was told, when it was told online and then offline.
LEMMA OnlineThenOffline == Append(<<"online">>, "offline") = <<"online", "offline">>
<1> DEFINE S == {"online", "offline"}
           a == Append(<<"online">>, "offline")
           b == <<"online", "offline">>
<1>1. <<"online">> \in Seq(S) /\ Len(<<"online">>) = 1 /\ "offline" \in S
  OBVIOUS
<1>2. a \in Seq(S) /\ Len(a) = 2 /\ a[1] = "online" /\ a[2] = "offline"
  BY <1>1, AppendProperties
<1>3. b \in Seq(S) /\ Len(b) = 2 /\ b[1] = "online" /\ b[2] = "offline"
  OBVIOUS
<1> HIDE DEF a, b
<1>4. \A i \in 1..Len(a) : a[i] = b[i]
  BY <1>2, <1>3
<1>5. a = b
  BY <1>2, <1>3, <1>4, SeqEqual
<1>6. QED
  BY <1>5 DEF a, b

\* handleClose() of an open connection takes its channel out of epoll and makes
\* the second of the two calls (TcpConnection.cc:147-155).
LEMMA ClosedIsOver ==
    ASSUME NEW k \in TcpConnection, Serving(k)
    PROVE  /\ Over(Closed(k)) /\ Closed(k).index = "kDeleted"
           /\ Closed(k).state = "kdisConnected"
<1>1. DisableAll([k EXCEPT !.state = "kdisConnected"])
        = [k EXCEPT !.state = "kdisConnected", !.events = {}, !.index = "kDeleted"]
  BY DEF DisableAll, UpdateChannel, Serving, TcpConnection
<1>2. Closed(k) = [k EXCEPT !.state = "kdisConnected", !.events = {}, !.index = "kDeleted",
                            !.callbacks = Append(<<"online">>, "offline")]
  BY <1>1 DEF Closed, Calls, Serving, TcpConnection
<1>3. QED
  BY <1>2, OnlineThenOffline DEF Over, TcpConnection

\* The three ways a step changes the queues of the two loops.
LEMMA QueuesKept ==
    ASSUME \A l \in Loop : InOrder(l), \A l \in Loop : Todo(l)' = Todo(l)
    PROVE  /\ \A l \in Loop : InOrder(l)'
           /\ \A c \in Conn : Waiting(c)' = Waiting(c)
BY KeptInOrder, WaitingKept

\* A functor that is not waiting yet is sent in its turn.
LEMMA FunctorSent ==
    ASSUME TypeOK, \A m \in Loop : InOrder(m),
           NEW f \in LifeFunctor, NEW c \in Conn,
           Push(LoopOf(f), f, c), UNCHANGED <<batch, next>>,
           f # "shutdownInloop" => f \notin Waiting(c),
           f = "shutdownInloop" => "connectDestoryed" \notin Waiting(c)
    PROVE  /\ \A m \in Loop : InOrder(m)'
           /\ Waiting(c)' = Waiting(c) \union {f}
           /\ \A d \in Conn \ {c} : Waiting(d)' = Waiting(d)
<1> DEFINE l == LoopOf(f)
<1>1. l \in Loop /\ f \in FunctorName
  BY DEF LoopOf, Loop, LifeFunctor, FunctorName
<1>2. Todo(l)' = Append(Todo(l), Fn(f, c))
  <2>1. Fn(f, c) \in Functor
    BY <1>1, FunctorOf
  <2>2. queue'[l] = Append(queue[l], Fn(f, c)) /\ batch'[l] = batch[l] /\ next'[l] = next[l]
    BY <1>1 DEF Push, Fn, TypeOK
  <2> HIDE DEF l
  <2>3. QED
    BY <1>1, <2>1, <2>2, TodoPushed
<1>3. \A m \in Loop \ {l} : Todo(m)' = Todo(m)
  <2>1. \A m \in Loop \ {l} : queue'[m] = queue[m]
    BY DEF Push, TypeOK
  <2>2. QED
    BY <2>1, TodoKept
<1>4. /\ f \in LifeFunctor \ {"shutdownInloop"} => Fn(f, c) \notin ToRun(l)
      /\ f = "shutdownInloop" => Fn("connectDestoryed", c) \notin ToRun(l)
  BY DEF Waiting, LoopOf, LifeFunctor
<1> HIDE DEF l
<1>5. InOrder(l)' /\ ToRun(l)' = ToRun(l) \union {Fn(f, c)}
  BY <1>1, <1>2, <1>4, SentInOrder
<1>6. \A m \in Loop \ {l} : InOrder(m)' /\ ToRun(m)' = ToRun(m)
  BY <1>3, KeptInOrder
<1>7. Waiting(c)' = Waiting(c) \union {f} /\ \A d \in Conn \ {c} : Waiting(d)' = Waiting(d)
  BY <1>1, <1>5, <1>6, WaitingSent DEF l
<1>8. QED
  BY <1>5, <1>6, <1>7

\* A functor that runs was waiting, and all that had to come before it has run.
LEMMA FunctorRun ==
    ASSUME TypeOK, \A m \in Loop : InOrder(m),
           NEW l \in Loop, NEW f \in FunctorName, NEW c \in Conn,
           Runs(l, f, c), UNCHANGED queue,
           f \in LifeFunctor => l = LoopOf(f)
    PROVE  /\ \A m \in Loop : InOrder(m)'
           /\ f \in LifeFunctor =>
                 /\ f \in Waiting(c)
                 /\ Waiting(c)' \subseteq Waiting(c)
                 /\ Waiting(c) \ {f} \subseteq Waiting(c)'
           /\ f \in LifeFunctor \ {"shutdownInloop"} => f \notin Waiting(c)'
           /\ f = "connectDestoryed" => "shutdownInloop" \notin Waiting(c)
           /\ f \notin LifeFunctor => Waiting(c)' = Waiting(c)
           /\ \A d \in Conn \ {c} : Waiting(d)' = Waiting(d)
<1>1. /\ InOrder(l)'
      /\ ToRun(l) = ToRun(l)' \union {Fn(f, c)}
      /\ f \in LifeFunctor \ {"shutdownInloop"} => Fn(f, c) \notin ToRun(l)'
      /\ f = "connectDestoryed" => Fn("shutdownInloop", c) \notin ToRun(l)
  BY TakenInOrder
<1>2. \A m \in Loop \ {l} : Todo(m)' = Todo(m)
  <2>1. \A m \in Loop \ {l} : queue'[m] = queue[m] /\ batch'[m] = batch[m] /\ next'[m] = next[m]
    BY DEF Runs, TypeOK
  <2>2. QED
    BY <2>1, TodoKept
<1>3. \A m \in Loop \ {l} : InOrder(m)' /\ ToRun(m)' = ToRun(m)
  BY <1>2, KeptInOrder
<1>4. f = "connectDestoryed" => "shutdownInloop" \notin Waiting(c)
  BY <1>1 DEF Waiting, LoopOf, LifeFunctor
<1>5. QED
  BY <1>1, <1>3, <1>4, WaitingTaken

\* The functor that runs sends one to the other loop.
LEMMA FunctorHandsOver ==
    ASSUME TypeOK, \A m \in Loop : InOrder(m),
           NEW l \in Loop, NEW f \in LifeFunctor \ {"shutdownInloop"}, NEW c \in Conn,
           NEW o \in Loop \ {l}, NEW g \in FunctorName \ {"shutdownInloop"},
           Runs(l, f, c), Push(o, g, c), l = LoopOf(f),
           g \in LifeFunctor => o = LoopOf(g) /\ (f \in Waiting(c) => g \notin Waiting(c))
    PROVE  /\ \A m \in Loop : InOrder(m)'
           /\ f \in Waiting(c)
           /\ Waiting(c)' = (Waiting(c) \ {f}) \union ({g} \intersect LifeFunctor)
           /\ \A d \in Conn \ {c} : Waiting(d)' = Waiting(d)
<1>1. f \in FunctorName /\ \A m \in Loop : m = l \/ m = o
  BY DEF LifeFunctor, FunctorName, Loop
<1>2. queue'[l] = queue[l]
  BY DEF Push, TypeOK
<1>3. /\ InOrder(l)'
      /\ ToRun(l) = ToRun(l)' \union {Fn(f, c)}
      /\ Fn(f, c) \notin ToRun(l)'
  BY <1>1, <1>2, TakenInOrder
<1>4. Todo(o)' = Append(Todo(o), Fn(g, c))
  <2>1. Fn(g, c) \in Functor
    BY FunctorOf
  <2>2. queue'[o] = Append(queue[o], Fn(g, c)) /\ batch'[o] = batch[o] /\ next'[o] = next[o]
    BY DEF Push, Runs, Fn, TypeOK
  <2>3. QED
    BY <2>1, <2>2, TodoPushed
<1>5. f \in Waiting(c)
  BY <1>3 DEF Waiting
<1>6. g \in LifeFunctor \ {"shutdownInloop"} => Fn(g, c) \notin ToRun(o)
  BY <1>5 DEF Waiting
<1>7. InOrder(o)' /\ ToRun(o)' = ToRun(o) \union {Fn(g, c)}
  BY <1>4, <1>6, SentInOrder
<1>8. /\ \A h, d : Fn(h, d) = Fn(f, c) <=> h = f /\ d = c
      /\ \A h, d : Fn(h, d) = Fn(g, c) <=> h = g /\ d = c
  BY <1>1, FunctorOf
<1>9. \A h \in LifeFunctor : LoopOf(h) = l \/ LoopOf(h) = o
  BY <1>1 DEF LoopOf, Loop
<1>10. \A h \in LifeFunctor, d \in Conn :
         Fn(h, d) \in ToRun(LoopOf(h))' <=>
            \/ h = g /\ d = c
            \/ ~(h = f /\ d = c) /\ Fn(h, d) \in ToRun(LoopOf(h))
  BY <1>3, <1>7, <1>8, <1>9
<1>11. Waiting(c)' = (Waiting(c) \ {f}) \union ({g} \intersect LifeFunctor)
  <2>1. f # g
    BY <1>5
  <2>2. QED
    BY <1>10, <2>1 DEF Waiting
<1>12. \A d \in Conn \ {c} : Waiting(d)' = Waiting(d)
  BY <1>10 DEF Waiting
<1>13. QED
  BY <1>1, <1>3, <1>7, <1>5, <1>11, <1>12

\* connectEstablished() opens a connection and makes the first of the two calls.
LEMMA EstablishedServing ==
    ASSUME NEW k \in TcpConnection, Fresh(k)
    PROVE  LET j == Calls(EnableEvent([k EXCEPT !.state = "kConnected"], "IN"), "online")
           IN  Serving(j) /\ j.state = "kConnected"
<1> DEFINE a == Append(<<>>, "online")
           m == [k EXCEPT !.state = "kConnected"]
           n == EnableEvent(m, "IN")
<1>1. /\ m \in TcpConnection
      /\ m.state = "kConnected" /\ m.events = {} /\ ~m.unsent /\ ~m.fin /\ m.callbacks = <<>>
  BY DEF State, Fresh, TcpConnection
<1>2. a = <<"online">>
  <2>1. a \in Seq({"online"}) /\ Len(a) = 1 /\ a[1] = "online"
    BY EmptySeq, AppendProperties
  <2>2. <<"online">> \in Seq({"online"}) /\ Len(<<"online">>) = 1 /\ <<"online">>[1] = "online"
    OBVIOUS
  <2> HIDE DEF a
  <2>3. \A i \in 1..Len(a) : a[i] = <<"online">>[i]
    BY <2>1, <2>2
  <2>4. QED
    BY <2>1, <2>2, <2>3, SeqEqual
<1> HIDE DEF a, m
<1>3. n \in TcpConnection /\ n = [m EXCEPT !.events = m.events \union {"IN"}, !.index = "kAdded"]
  BY <1>1, EventEffect
<1>4. /\ n.state = "kConnected" /\ n.index = "kAdded" /\ n.events = {"IN"}
      /\ ~n.unsent /\ ~n.fin /\ n.callbacks = <<>>
  <2> HIDE DEF n
  <2>1. QED
    BY <1>1, <1>3 DEF TcpConnection
<1> HIDE DEF n
<1>5. Calls(n, "online") = [n EXCEPT !.callbacks = a]
  BY <1>4 DEF Calls, a
<1>6. Serving(Calls(n, "online")) /\ Calls(n, "online").state = "kConnected"
  <2> DEFINE o == [n EXCEPT !.callbacks = a]
  <2>1. o.callbacks = a
    BY <1>3 DEF TcpConnection
  <2>2. /\ o.state = n.state /\ o.index = n.index /\ o.events = n.events
        /\ o.unsent = n.unsent /\ o.fin = n.fin
    BY <1>3 DEF TcpConnection
  <2> HIDE DEF o
  <2>3. Serving(o) /\ o.state = "kConnected"
    BY <1>2, <1>4, <2>1, <2>2 DEF Serving, IsWriting
  <2>4. QED
    BY <1>5, <2>3 DEF o
<1>7. QED
  BY <1>6 DEF n, m

\* What the parts of a stage say about it.
LEMMA WhereInLife ==
    ASSUME NEW c \in Conn, Stage(c)
    PROVE  /\ conn[c].index = "kAdded" => Open(c)
           /\ conn[c].state = "none" => Untouched(c)
           /\ conn[c].state = "kConnected" => Open(c)
           /\ conn[c].index # "kNew" /\ c \in connections_ => Open(c) \/ Closing(c)
           /\ IsWriting(conn[c]) => Open(c)
           /\ "connectEstablished" \in Waiting(c) => Opening(c)
           /\ "removeConnectionInLoop" \in Waiting(c) => Closing(c)
           /\ "connectDestoryed" \in Waiting(c) => Removed(c)
           /\ "shutdownInloop" \in Waiting(c) => Open(c) \/ Closing(c) \/ Removed(c)
BY DEF Stage, Untouched, Opening, Open, Closing, Removed, Destroyed,
       Fresh, Serving, Over, IsWriting

\* Steps that change no index and take no new event leave what the loops hold
\* valid.
LEMMA InHandKept ==
    ASSUME TypeOK, InHand, active' \subseteq active, request' \in {request, NoRequest},
           idle' = idle \/ idle'.at # "set", connections_ \subseteq connections_',
           \A c \in Conn : conn'[c].index = conn[c].index
    PROVE  InHand'
<1>1. \A e \in active : e[1] \in Conn
  BY DEF TypeOK
<1>2. request # NoRequest => request.c \in Conn
  BY DEF TypeOK
<1>3. idle.at = "set" => idle.c \in Conn
  BY DEF TypeOK, NotIdle
<1>4. QED
  BY <1>1, <1>2, <1>3 DEF InHand

-----------------------------------------------------------------------------
(***************************************************************************)
(* Every functor, event and timer takes each connection at most one stage  *)
(* on in its life, and leaves what the loops hold of it in place           *)
(* (TcpConnection.cc:45-204, TcpServer.cc:28-62, httpServer.cc:25-56).     *)
(***************************************************************************)
LEMMA LifeStep ==
    ASSUME TypeOK, TypeOK', LifeInvariant, [Next]_vars
    PROVE  LifeInvariant'
<1> USE DEF loopVars, ioVars, mainVars
<1>0. /\ \A l \in Loop : InOrder(l)
      /\ \A c \in Conn : Stage(c) /\ Reminded(c)
      /\ Phases
      /\ InHand
      /\ "main" \in Loop /\ "io" \in Loop
      /\ \A c \in Conn : conn[c] \in TcpConnection
  BY DEF LifeInvariant, Loop, TypeOK
<1>1. ASSUME UNCHANGED <<queue, batch, next>>
      PROVE  /\ \A l \in Loop : InOrder(l)'
             /\ \A c \in Conn : Waiting(c)' = Waiting(c)
  <2>1. \A l \in Loop : Todo(l)' = Todo(l)
    BY <1>1, TodoKept
  <2>2. QED
    BY <1>0, <2>1, QueuesKept
<1>2. ASSUME NEW D \in SUBSET Conn,
             \A c \in Conn \ D : conn'[c] = conn[c],
             \A c \in Conn \ D : c \in connections_' <=> c \in connections_,
             \A c \in Conn \ D : Waiting(c)' = Waiting(c)
      PROVE  \A c \in Conn \ D : Stage(c)' /\ Reminded(c)'
  BY <1>0, <1>2, StageKept
<1>3. ASSUME NEW l \in Loop, SwapFunctors(l)
      PROVE  LifeInvariant'
  <2>1. phase[l] # "functors"
    BY <1>3 DEF SwapFunctors, EventsHandled
  <2>2. batch[l] = <<>>
    BY <1>0, <2>1 DEF Phases
  <2>3. batch'[l] = queue[l] /\ queue'[l] = <<>> /\ next'[l] = 1
    BY <1>3 DEF SwapFunctors, TypeOK
  <2>4. Todo(l)' = Todo(l)
    BY <2>2, <2>3, TodoSwapped
  <2>5. \A m \in Loop \ {l} : batch'[m] = batch[m] /\ queue'[m] = queue[m] /\ next'[m] = next[m]
    BY <1>3 DEF SwapFunctors, TypeOK
  <2>6. \A m \in Loop : Todo(m)' = Todo(m)
    BY <2>4, <2>5, TodoKept
  <2>7. (\A m \in Loop : InOrder(m)') /\ \A c \in Conn : Waiting(c)' = Waiting(c)
    BY <1>0, <2>6, QueuesKept
  <2>8. \A c \in Conn : Stage(c)' /\ Reminded(c)'
    BY <1>0, <1>3, <2>7, StageKept DEF SwapFunctors
  <2>9. Phases'
    BY <1>0, <1>3, <2>5 DEF SwapFunctors, EventsHandled, Phases, TypeOK, Loop
  <2>10. InHand'
    BY <1>0, <1>3 DEF SwapFunctors, InHand
  <2>11. QED
    BY <2>7, <2>8, <2>9, <2>10 DEF LifeInvariant
<1>4. ASSUME NEW l \in Loop, FinishFunctors(l)
      PROVE  LifeInvariant'
  <2>1. batch'[l] = <<>> /\ queue'[l] = queue[l] /\ next'[l] = next[l] /\ Len(batch[l]) < next[l]
    BY <1>4, LenProperties DEF FinishFunctors, TypeOK
  <2>2. Todo(l)' = Todo(l)
    BY <2>1, TodoFinished
  <2>3. \A m \in Loop \ {l} : batch'[m] = batch[m] /\ queue'[m] = queue[m] /\ next'[m] = next[m]
    BY <1>4 DEF FinishFunctors, TypeOK
  <2>4. \A m \in Loop : Todo(m)' = Todo(m)
    BY <2>2, <2>3, TodoKept
  <2>5. (\A m \in Loop : InOrder(m)') /\ \A c \in Conn : Waiting(c)' = Waiting(c)
    BY <1>0, <2>4, QueuesKept
  <2>6. \A c \in Conn : Stage(c)' /\ Reminded(c)'
    BY <1>0, <1>4, <2>5, StageKept DEF FinishFunctors
  <2>7. Phases'
    BY <1>0, <1>4, <2>1, <2>3 DEF FinishFunctors, Phases, TypeOK, Loop
  <2>8. InHand'
    BY <1>0, <1>4 DEF FinishFunctors, InHand
  <2>9. QED
    BY <2>5, <2>6, <2>7, <2>8 DEF LifeInvariant
<1>5. ASSUME NEW c \in Conn, RemoveConnectionInLoop(c)
      PROVE  LifeInvariant'
  <2>1. /\ \A m \in Loop : InOrder(m)'
        /\ "removeConnectionInLoop" \in Waiting(c)
        /\ Waiting(c)' = (Waiting(c) \ {"removeConnectionInLoop"}) \union {"connectDestoryed"}
        /\ \A d \in Conn \ {c} : Waiting(d)' = Waiting(d)
    <3> DEFINE f == "removeConnectionInLoop"
               g == "connectDestoryed"
    <3>1. /\ f \in LifeFunctor \ {"shutdownInloop"} /\ LoopOf(f) = "main"
          /\ g \in FunctorName \ {"shutdownInloop"} /\ g \in LifeFunctor /\ LoopOf(g) = "io"
          /\ "io" \in Loop \ {"main"} /\ "main" \in Loop
      BY DEF LifeFunctor, FunctorName, LoopOf, Loop
    <3>2. Runs("main", f, c) /\ Push("io", g, c)
      BY <1>5 DEF RemoveConnectionInLoop
    <3>3. f \in Waiting(c) => g \notin Waiting(c)
      BY <1>0, WhereInLife DEF Closing
    <3> HIDE DEF f, g
    <3>4. /\ \A m \in Loop : InOrder(m)'
          /\ f \in Waiting(c)
          /\ Waiting(c)' = (Waiting(c) \ {f}) \union ({g} \intersect LifeFunctor)
          /\ \A d \in Conn \ {c} : Waiting(d)' = Waiting(d)
      BY <1>0, <3>1, <3>2, <3>3, FunctorHandsOver
    <3>5. QED
      BY <3>1, <3>4 DEF f, g
  <2>2. Closing(c)
    BY <1>0, <2>1, WhereInLife
  <2>3. Removed(c)' /\ Reminded(c)'
    BY <1>0, <1>5, <2>1, <2>2 DEF RemoveConnectionInLoop, Closing, Removed, Reminded
  <2>4. \A d \in Conn \ {c} : Stage(d)' /\ Reminded(d)'
    BY <1>0, <1>5, <2>1, StageKept DEF RemoveConnectionInLoop
  <2>5. Phases'
    BY <1>0, <1>5 DEF RemoveConnectionInLoop, Runs, Phases
  <2>6. idle = NotIdle
    BY <1>0, <1>5 DEF RemoveConnectionInLoop, Runs, Phases
  <2>7. InHand'
    BY <1>0, <1>5, <2>6 DEF RemoveConnectionInLoop, InHand, NotIdle
  <2>8. QED
    BY <2>1, <2>3, <2>4, <2>5, <2>7 DEF LifeInvariant, Stage
<1>6. ASSUME NEW c \in Conn, AddTimerInloop(c)
      PROVE  LifeInvariant'
  <2>1. "AddTimerInloop" \in FunctorName /\ "AddTimerInloop" \notin LifeFunctor
    BY DEF FunctorName, LifeFunctor
  <2>2. (\A m \in Loop : InOrder(m)') /\ \A d \in Conn : Waiting(d)' = Waiting(d)
    BY <1>0, <1>6, <2>1, FunctorRun DEF AddTimerInloop
  <2>3. \A d \in Conn : Stage(d)' /\ Reminded(d)'
    BY <1>0, <1>6, <2>2, StageKept DEF AddTimerInloop
  <2>4. Phases' /\ InHand'
    BY <1>0, <1>6 DEF AddTimerInloop, Runs, Phases, InHand
  <2>5. QED
    BY <2>2, <2>3, <2>4 DEF LifeInvariant
<1>7. CASE ResetIdle
  <2> DEFINE c == idle.c
  <2>1. c \in Conn
    BY <1>7 DEF ResetIdle, TypeOK, NotIdle
  <2>2. conn' = [conn EXCEPT ![c] = [conn[c] EXCEPT !.recent = FALSE]]
    BY <1>7 DEF ResetIdle
  <2>3. (\A l \in Loop : InOrder(l)') /\ \A d \in Conn : Waiting(d)' = Waiting(d)
    BY <1>1, <1>7 DEF ResetIdle
  <2>4. \A d \in Conn :
           /\ conn'[d].state = conn[d].state /\ conn'[d].index = conn[d].index
           /\ conn'[d].events = conn[d].events /\ conn'[d].unsent = conn[d].unsent
           /\ conn'[d].fin = conn[d].fin /\ conn'[d].callbacks = conn[d].callbacks
    <3> DEFINE k == [conn[c] EXCEPT !.recent = FALSE]
    <3> HIDE DEF c
    <3>1. conn \in [Conn -> TcpConnection] /\ conn[c] \in TcpConnection
      BY <2>1 DEF TypeOK
    <3>2. /\ k.state = conn[c].state /\ k.index = conn[c].index
          /\ k.events = conn[c].events /\ k.unsent = conn[c].unsent
          /\ k.fin = conn[c].fin /\ k.callbacks = conn[c].callbacks
      BY <3>1 DEF TcpConnection
    <3> HIDE DEF k
    <3>3. \A d \in Conn : conn'[d] = IF d = c THEN k ELSE conn[d]
      BY <2>2, <3>1 DEF k
    <3>4. QED
      BY <3>2, <3>3
  <2>5. \A d \in Conn : Stage(d)' /\ Reminded(d)'
    BY <1>0, <1>7, <2>3, <2>4, StageKept DEF ResetIdle
  <2>6. Phases'
    BY <1>0, <1>7 DEF ResetIdle, Phases
  <2>7. InHand'
    BY <1>0, <1>7, <2>4, InHandKept DEF ResetIdle, NotIdle
  <2>8. QED
    BY <2>3, <2>5, <2>6, <2>7 DEF LifeInvariant
<1>8. CASE TestShutdown
  <2>1. (\A l \in Loop : InOrder(l)') /\ \A d \in Conn : Waiting(d)' = Waiting(d)
    BY <1>1, <1>8 DEF TestShutdown
  <2>2. \A d \in Conn : Stage(d)' /\ Reminded(d)'
    BY <1>0, <1>8, <2>1, StageKept DEF TestShutdown
  <2>3. idle.c \in Conn /\ idle # NotIdle
    BY <1>8 DEF TestShutdown, TypeOK, NotIdle
  <2>4. Phases'
    BY <1>0, <1>8, <2>3 DEF TestShutdown, Phases
  <2>5. ASSUME idle'.at = "set"
        PROVE  idle'.c = idle.c /\ conn[idle.c].state = "kConnected"
    <3>1. idle' # NotIdle
      BY <2>5 DEF NotIdle
    <3>2. QED
      BY <1>8, <2>3, <3>1 DEF TestShutdown, TypeOK
  <2>6. idle'.at = "set" => Open(idle.c) /\ idle'.c = idle.c
    BY <1>0, <2>3, <2>5, WhereInLife
  <2>7. idle'.at = "set" => idle'.c \in connections_' /\ conn'[idle'.c].index # "kNew"
    BY <1>8, <2>6 DEF TestShutdown, Open, Serving
  <2>8. InHand'
    BY <1>0, <1>8, <2>7 DEF TestShutdown, InHand
  <2>9. QED
    BY <2>1, <2>2, <2>4, <2>8 DEF LifeInvariant
<1>9. CASE SetShutdown
  <2>0. PICK c \in Conn : c = idle.c
    BY <1>9 DEF SetShutdown, TypeOK, NotIdle
  <2>1. c \in connections_ /\ conn[c].index # "kNew"
    BY <1>0, <1>9, <2>0 DEF SetShutdown, InHand
  <2> DEFINE k == [conn[c] EXCEPT !.state = "kDisConnecting"]
  <2>2. conn' = [conn EXCEPT ![c] = k]
    BY <1>9, <2>0 DEF SetShutdown
  <2>3. /\ k.state = "kDisConnecting" /\ k.index = conn[c].index /\ k.events = conn[c].events
        /\ k.callbacks = conn[c].callbacks
    BY <1>0, <2>1 DEF TcpConnection
  <2>4. Serving(conn[c]) => Serving(k)
    BY <1>0, <2>1, ServingKept
  <2>5. Push("io", "shutdownInloop", c)
    BY <1>9, <2>0 DEF SetShutdown
  <2>6. UNCHANGED <<connections_, active, request, batch, next, phase>> /\ idle' = NotIdle
    BY <1>9 DEF SetShutdown
  <2> HIDE DEF k
  <2>7. Open(c) \/ Closing(c)
    BY <1>0, <2>1, WhereInLife
  <2>8. /\ \A l \in Loop : InOrder(l)'
        /\ Waiting(c)' = Waiting(c) \union {"shutdownInloop"}
        /\ \A d \in Conn \ {c} : Waiting(d)' = Waiting(d)
    <3>1. "connectDestoryed" \notin Waiting(c)
      BY <2>7 DEF Open, Closing
    <3>2. "shutdownInloop" \in LifeFunctor /\ LoopOf("shutdownInloop") = "io"
      BY DEF LifeFunctor, LoopOf
    <3>3. QED
      BY <1>0, <2>1, <2>5, <2>6, <3>1, <3>2, FunctorSent
  <2>9. conn'[c] = k /\ \A d \in Conn \ {c} : conn'[d] = conn[d]
    BY <2>1, <2>2 DEF TypeOK
  <2>10. Stage(c)'
    <3>1. CASE Open(c)
      <4>1. Open(c)'
        BY <2>3, <2>4, <2>6, <2>8, <2>9, <3>1 DEF Open
      <4>2. QED
        BY <4>1 DEF Stage
    <3>2. CASE Closing(c)
      <4>1. Closing(c)'
        BY <2>3, <2>6, <2>8, <2>9, <3>2 DEF Closing, Over
      <4>2. QED
        BY <4>1 DEF Stage
    <3>3. QED
      BY <2>7, <3>1, <3>2
  <2>11. Reminded(c)'
    BY <2>8 DEF Reminded
  <2>12. \A d \in Conn \ {c} : Stage(d)' /\ Reminded(d)'
    BY <1>0, <2>6, <2>8, <2>9, StageKept
  <2>13. Phases'
    BY <1>0, <2>6 DEF Phases
  <2>14. InHand'
    <3>1. \A d \in Conn : conn'[d].index = conn[d].index
      BY <2>3, <2>9
    <3>2. QED
      BY <1>0, <2>6, <3>1, InHandKept DEF NotIdle
  <2>15. QED
    BY <2>8, <2>10, <2>11, <2>12, <2>13, <2>14 DEF LifeInvariant
<1>10. CASE PollIo
  <2>1. (\A l \in Loop : InOrder(l)') /\ \A d \in Conn : Waiting(d)' = Waiting(d)
    BY <1>1, <1>10 DEF PollIo
  <2>2. \A d \in Conn : Stage(d)' /\ Reminded(d)'
    BY <1>0, <1>10, <2>1, StageKept DEF PollIo
  <2>3. Phases'
    BY <1>0, <1>10 DEF PollIo, Phases, TypeOK, Loop
  <2>4. \A e \in active' : e[1] \in Conn /\ conn[e[1]].index = "kAdded"
    BY <1>10 DEF PollIo, Ready, Writable, Interest
  <2>5. request = NoRequest
    BY <1>0, <1>10 DEF PollIo, Phases
  <2>6. InHand'
    <3>1. \A c \in Conn : <<c, "IN">> \in active' => conn[c].index = "kAdded"
      BY <2>4
    <3>2. \A e \in active' : conn[e[1]].index # "kNew"
      BY <2>4
    <3>3. QED
      BY <1>0, <1>10, <2>5, <3>1, <3>2 DEF PollIo, InHand
  <2>7. QED
    BY <2>1, <2>2, <2>3, <2>6 DEF LifeInvariant
<1>11. ASSUME NEW c \in Conn, ConnectEstablished(c)
       PROVE  LifeInvariant'
  <2>1. /\ \A m \in Loop : InOrder(m)'
        /\ "connectEstablished" \in Waiting(c)
        /\ Waiting(c)' = Waiting(c) \ {"connectEstablished"}
        /\ \A d \in Conn \ {c} : Waiting(d)' = Waiting(d)
    <3> DEFINE f == "connectEstablished"
               g == "AddTimerInloop"
    <3>1. /\ f \in LifeFunctor \ {"shutdownInloop"} /\ LoopOf(f) = "io"
          /\ g \in FunctorName \ {"shutdownInloop"} /\ g \notin LifeFunctor
          /\ "main" \in Loop \ {"io"} /\ "io" \in Loop
      BY DEF LifeFunctor, FunctorName, LoopOf, Loop
    <3>2. Runs("io", f, c) /\ Push("main", g, c)
      BY <1>11 DEF ConnectEstablished
    <3> HIDE DEF f, g
    <3>3. /\ \A m \in Loop : InOrder(m)'
          /\ f \in Waiting(c)
          /\ Waiting(c)' = (Waiting(c) \ {f}) \union ({g} \intersect LifeFunctor)
          /\ \A d \in Conn \ {c} : Waiting(d)' = Waiting(d)
      BY <1>0, <3>1, <3>2, FunctorHandsOver
    <3>4. QED
      BY <3>1, <3>3 DEF f
  <2>2. Opening(c)
    BY <1>0, <2>1, WhereInLife
  <2> DEFINE k == Calls(EnableEvent([conn[c] EXCEPT !.state = "kConnected"], "IN"), "online")
  <2>3. Serving(k) /\ k.state = "kConnected"
    BY <1>0, <2>2, EstablishedServing DEF Opening
  <2>4. conn' = [conn EXCEPT ![c] = k]
    BY <1>11 DEF ConnectEstablished
  <2> HIDE DEF k
  <2>5. conn'[c] = k /\ \A d \in Conn \ {c} : conn'[d] = conn[d]
    BY <2>4 DEF TypeOK
  <2>6. UNCHANGED <<connections_, active, request, idle, batch, phase>>
    BY <1>11 DEF ConnectEstablished, Runs
  <2>7. Open(c)' /\ Reminded(c)'
    BY <2>1, <2>2, <2>3, <2>5, <2>6 DEF Open, Opening, Reminded
  <2>8. \A d \in Conn \ {c} : Stage(d)' /\ Reminded(d)'
    BY <1>0, <2>1, <2>5, <2>6, StageKept
  <2>9. Phases'
    BY <1>0, <2>6 DEF Phases
  <2>10. InHand'
    <3>1. conn'[c].index = "kAdded"
      BY <2>3, <2>5 DEF Serving
    <3>2. (\A e \in active : e[1] \in Conn) /\ (request # NoRequest => request.c \in Conn)
          /\ (idle.at = "set" => idle.c \in Conn)
      BY DEF TypeOK, NotIdle
    <3>3. QED
      BY <1>0, <2>5, <2>6, <3>1, <3>2 DEF InHand
  <2>11. QED
    BY <2>1, <2>7, <2>8, <2>9, <2>10 DEF LifeInvariant, Stage
<1>12. ASSUME NEW c \in Conn, ConnectDestoryed(c)
       PROVE  LifeInvariant'
  <2>1. /\ \A m \in Loop : InOrder(m)'
        /\ "connectDestoryed" \in Waiting(c)
        /\ "shutdownInloop" \notin Waiting(c)
        /\ Waiting(c)' \subseteq Waiting(c) \ {"connectDestoryed"}
        /\ \A d \in Conn \ {c} : Waiting(d)' = Waiting(d)
    <3>1. /\ "connectDestoryed" \in LifeFunctor \ {"shutdownInloop"}
          /\ "connectDestoryed" \in FunctorName /\ LoopOf("connectDestoryed") = "io"
      BY DEF LifeFunctor, FunctorName, LoopOf
    <3>2. QED
      BY <1>0, <1>12, <3>1, FunctorRun DEF ConnectDestoryed
  <2>2. Removed(c)
    BY <1>0, <2>1, WhereInLife
  <2>3. conn[c].state # "kConnected"
    BY <2>2 DEF Removed, Over
  <2>4. conn' = [conn EXCEPT ![c] = RemoveChannel(conn[c])]
    BY <1>12, <2>3 DEF ConnectDestoryed
  <2>5. conn'[c] = [conn[c] EXCEPT !.index = "kNew"] /\ \A d \in Conn \ {c} : conn'[d] = conn[d]
    BY <2>4 DEF TypeOK, RemoveChannel
  <2>6. UNCHANGED <<connections_, active, request, idle, batch, phase>>
    BY <1>12 DEF ConnectDestoryed, Runs
  <2>7. /\ conn'[c].state = conn[c].state /\ conn'[c].index = "kNew"
        /\ conn'[c].events = conn[c].events /\ conn'[c].fin = conn[c].fin
        /\ conn'[c].callbacks = conn[c].callbacks
    BY <1>0, <2>5 DEF TcpConnection
  <2>8. Destroyed(c)'
    BY <2>1, <2>2, <2>6, <2>7 DEF Removed, Destroyed, Over
  <2>9. Reminded(c)'
    BY <1>0, <2>1, <2>7 DEF Reminded, IsWriting
  <2>10. \A d \in Conn \ {c} : Stage(d)' /\ Reminded(d)'
    BY <1>0, <2>1, <2>5, <2>6, StageKept
  <2>11. Phases'
    BY <1>0, <2>6 DEF Phases
  <2>12. active = {} /\ request = NoRequest
    BY <1>0, <1>12 DEF ConnectDestoryed, Runs, Phases
  <2>13. InHand'
    <3>1. idle.at = "set" => idle.c \in Conn \ {c}
      BY <1>0, <2>2 DEF TypeOK, NotIdle, InHand, Removed
    <3>2. QED
      BY <1>0, <2>5, <2>6, <2>12, <3>1 DEF InHand
  <2>14. QED
    BY <2>1, <2>8, <2>9, <2>10, <2>11, <2>13 DEF LifeInvariant, Stage
<1>13. ASSUME NEW c \in Conn, RunShutdownInloop(c)
       PROVE  LifeInvariant'
  <2>1. /\ \A m \in Loop : InOrder(m)'
        /\ "shutdownInloop" \in Waiting(c)
        /\ Waiting(c)' \subseteq Waiting(c)
        /\ Waiting(c) \ {"shutdownInloop"} \subseteq Waiting(c)'
        /\ \A d \in Conn \ {c} : Waiting(d)' = Waiting(d)
    <3>1. /\ "shutdownInloop" \in LifeFunctor /\ "shutdownInloop" \in FunctorName
          /\ LoopOf("shutdownInloop") = "io"
      BY DEF LifeFunctor, FunctorName, LoopOf
    <3>2. QED
      BY <1>0, <1>13, <3>1, FunctorRun DEF RunShutdownInloop
  <2> DEFINE k == ShutdownInloop(conn[c])
  <2>2. conn'[c] = k /\ \A d \in Conn \ {c} : conn'[d] = conn[d]
    BY <1>13 DEF RunShutdownInloop, TypeOK
  <2>3. UNCHANGED <<connections_, active, request, idle, batch, phase>>
    BY <1>13 DEF RunShutdownInloop, Runs
  <2>4. /\ k.state = conn[c].state /\ k.index = conn[c].index
        /\ k.events = conn[c].events /\ k.callbacks = conn[c].callbacks
        /\ k.fin \/ IsWriting(k)
    BY <1>0 DEF ShutdownInloop, ShutdownWrite, IsWriting, TcpConnection
  <2>5. Open(c) => Serving(k)
    BY <1>0, <2>1, ServingKept DEF Open
  <2> HIDE DEF k
  <2>6. Open(c) \/ Closing(c) \/ Removed(c)
    BY <1>0, <2>1, WhereInLife
  <2>7. Stage(c)'
    <3>1. CASE Open(c)
      BY <2>1, <2>2, <2>3, <2>4, <2>5, <3>1, OpenKept DEF Open
    <3>2. CASE Closing(c)
      <4>1. Closing(c)'
        BY <2>1, <2>2, <2>3, <2>4, <3>2 DEF Closing, Over
      <4>2. QED
        BY <4>1 DEF Stage
    <3>3. CASE Removed(c)
      <4>1. Removed(c)'
        BY <2>1, <2>2, <2>3, <2>4, <3>3 DEF Removed, Over
      <4>2. QED
        BY <4>1 DEF Stage
    <3>4. QED
      BY <2>6, <3>1, <3>2, <3>3
  <2>8. Reminded(c)'
    BY <2>2, <2>4 DEF Reminded
  <2>9. \A d \in Conn \ {c} : Stage(d)' /\ Reminded(d)'
    BY <1>0, <2>1, <2>2, <2>3, StageKept
  <2>10. Phases'
    BY <1>0, <2>3 DEF Phases
  <2>11. InHand'
    <3>1. \A d \in Conn : conn'[d].index = conn[d].index
      BY <2>2, <2>4
    <3>2. QED
      BY <1>0, <2>3, <3>1, InHandKept
  <2>12. QED
    BY <2>1, <2>7, <2>8, <2>9, <2>10, <2>11 DEF LifeInvariant
<1>14. ASSUME NEW c \in Conn, NEW k \in TcpConnection, Open(c), Serving(k),
              conn' = [conn EXCEPT ![c] = k],
              conn[c].state = "kDisConnecting" => k.state = "kDisConnecting",
              k.state = "kDisConnecting" =>
                 \/ k.fin \/ IsWriting(k)
                 \/ conn[c].state = "kDisConnecting" /\ IsWriting(conn[c]) = IsWriting(k)
                                                     /\ conn[c].fin = k.fin,
              UNCHANGED <<queue, batch, next, connections_, phase>>
       PROVE  /\ \A l \in Loop : InOrder(l)'
              /\ \A d \in Conn : Stage(d)' /\ Reminded(d)'
              /\ \A d \in Conn : conn'[d].index = conn[d].index
  <2>1. (\A l \in Loop : InOrder(l)') /\ \A d \in Conn : Waiting(d)' = Waiting(d)
    BY <1>1, <1>14
  <2>2. conn'[c] = k /\ \A d \in Conn \ {c} : conn'[d] = conn[d]
    BY <1>14 DEF TypeOK
  <2>3. Stage(c)'
    BY <1>14, <2>1, <2>2, OpenKept DEF Open
  <2>4. Reminded(c)'
    BY <1>0, <1>14, <2>1, <2>2 DEF Reminded
  <2>5. \A d \in Conn \ {c} : Stage(d)' /\ Reminded(d)'
    BY <1>0, <1>14, <2>1, <2>2, StageKept
  <2>6. k.index = conn[c].index
    BY <1>14 DEF Open, Serving
  <2>7. QED
    BY <2>1, <2>2, <2>3, <2>4, <2>5, <2>6
<1>15. ASSUME NEW c \in Conn, HandleMessage(c)
       PROVE  LifeInvariant'
  <2>1. /\ UNCHANGED <<queue, batch, next, phase, connections_, idle>>
        /\ active' \subseteq active /\ <<c, "IN">> \in active
        /\ phase["io"] = "dispatch" /\ request = NoRequest
    BY <1>15 DEF HandleMessage, Handles
  <2>2. Open(c)
    BY <1>0, <2>1, WhereInLife DEF InHand
  <2> DEFINE j == [conn[c] EXCEPT !.recent = TRUE]
  <2>3. /\ j \in TcpConnection /\ Serving(j) /\ j.state = conn[c].state
        /\ j.fin = conn[c].fin /\ IsWriting(j) = IsWriting(conn[c])
    <3>1. Serving(j)
      BY <1>0, <2>2, ServingKept DEF Open
    <3>2. QED
      BY <1>0, <3>1 DEF IsWriting, TcpConnection
  <2>4. \E k \in TcpConnection :
           /\ Serving(k) /\ conn' = [conn EXCEPT ![c] = k]
           /\ conn[c].state = "kDisConnecting" => k.state = "kDisConnecting"
           /\ k.state = "kDisConnecting" =>
                 \/ k.fin \/ IsWriting(k)
                 \/ conn[c].state = "kDisConnecting" /\ IsWriting(conn[c]) = IsWriting(k)
                                                     /\ conn[c].fin = k.fin
    <3>1. CASE conn' = [conn EXCEPT ![c] = j]
      <4> HIDE DEF j
      <4>1. QED
        BY <2>3, <3>1
    <3>2. CASE /\ conn[c].state # "kDisConnecting"
               /\ \E k \in Send(j) : conn' = [conn EXCEPT ![c] = Shutdown(k)]
      <4>1. conn[c].state = "kConnected"
        BY <2>2, <3>2 DEF Open, Serving
      <4>2. PICK k \in Send(j) : conn' = [conn EXCEPT ![c] = Shutdown(k)]
        BY <3>2
      <4> HIDE DEF j
      <4>3. k \in TcpConnection /\ Serving(k) /\ k.state = "kConnected"
        BY <2>3, <4>1, ServingKept
      <4>4. /\ Shutdown(k) \in TcpConnection /\ Serving(Shutdown(k))
            /\ Shutdown(k).fin \/ IsWriting(Shutdown(k))
        BY <4>3, OperationType, ShutdownServing
      <4>5. QED
        BY <3>2, <4>2, <4>4
    <3>3. QED
      BY <1>15, <3>1, <3>2 DEF HandleMessage
  <2>5. /\ \A l \in Loop : InOrder(l)'
        /\ \A d \in Conn : Stage(d)' /\ Reminded(d)'
        /\ \A d \in Conn : conn'[d].index = conn[d].index
    BY <1>14, <2>1, <2>2, <2>4
  <2>6. Phases'
    BY <1>0, <2>1 DEF Phases
  <2>7. InHand'
    <3>1. request' = NoRequest \/ request'.c = c
      BY <1>15, <2>1 DEF HandleMessage
    <3>2. conn[c].index = "kAdded"
      BY <2>2 DEF Open, Serving
    <3>3. \A e \in active : e[1] \in Conn
      BY DEF TypeOK
    <3>4. idle.at = "set" => idle.c \in Conn
      BY DEF TypeOK, NotIdle
    <3>5. QED
      BY <1>0, <2>1, <2>5, <3>1, <3>2, <3>3, <3>4 DEF InHand
  <2>8. QED
    BY <2>5, <2>6, <2>7 DEF LifeInvariant
<1>16. ASSUME NEW c \in Conn, HandleClose(c)
       PROVE  LifeInvariant'
  <2>1. /\ UNCHANGED <<batch, next, phase, request, connections_, idle>>
        /\ active' = active \ {<<c, "IN">>} /\ <<c, "IN">> \in active
        /\ phase["io"] = "dispatch" /\ request = NoRequest
        /\ conn' = [conn EXCEPT ![c] = Closed(conn[c])]
        /\ Push("main", "removeConnectionInLoop", c)
    BY <1>16 DEF HandleClose, Handles
  <2>2. Open(c)
    BY <1>0, <2>1, WhereInLife DEF InHand
  <2>3. conn'[c] = Closed(conn[c]) /\ \A d \in Conn \ {c} : conn'[d] = conn[d]
    BY <2>1 DEF TypeOK
  <2>4. /\ Over(conn'[c]) /\ conn'[c].index = "kDeleted" /\ conn'[c].state = "kdisConnected"
    BY <1>0, <2>2, <2>3, ClosedIsOver DEF Open
  <2>5. /\ \A l \in Loop : InOrder(l)'
        /\ Waiting(c)' = Waiting(c) \union {"removeConnectionInLoop"}
        /\ \A d \in Conn \ {c} : Waiting(d)' = Waiting(d)
    <3>1. "removeConnectionInLoop" \notin Waiting(c)
      BY <2>2 DEF Open
    <3>2. "removeConnectionInLoop" \in LifeFunctor /\ LoopOf("removeConnectionInLoop") = "main"
      BY DEF LifeFunctor, LoopOf
    <3>3. QED
      BY <1>0, <2>1, <3>1, <3>2, FunctorSent
  <2>6. Closing(c)' /\ Reminded(c)'
    BY <2>1, <2>2, <2>4, <2>5 DEF Open, Closing, Reminded
  <2>7. \A d \in Conn \ {c} : Stage(d)' /\ Reminded(d)'
    BY <1>0, <2>1, <2>3, <2>5, StageKept
  <2>8. Phases'
    BY <1>0, <2>1 DEF Phases
  <2>9. InHand'
    <3>1. \A e \in active : e[1] \in Conn
      BY DEF TypeOK
    <3>2. idle.at = "set" => idle.c \in Conn
      BY DEF TypeOK, NotIdle
    <3>3. QED
      BY <1>0, <2>1, <2>3, <2>4, <3>1, <3>2 DEF InHand
  <2>10. QED
    BY <2>5, <2>6, <2>7, <2>8, <2>9 DEF LifeInvariant, Stage
<1>17. ASSUME UNCHANGED <<conn, queue, batch, next, connections_, phase, idle, request>>,
              active' \subseteq active
       PROVE  LifeInvariant'
  <2>1. (\A l \in Loop : InOrder(l)') /\ \A d \in Conn : Waiting(d)' = Waiting(d)
    BY <1>1, <1>17
  <2>2. \A d \in Conn : Stage(d)' /\ Reminded(d)'
    BY <1>0, <1>17, <2>1, StageKept
  <2>3. Phases'
    BY <1>0, <1>17 DEF Phases
  <2>4. InHand'
    BY <1>0, <1>17, InHandKept
  <2>5. QED
    BY <2>1, <2>2, <2>3, <2>4 DEF LifeInvariant
<1>18. ASSUME NEW c \in Conn, HandleError(c)
       PROVE  LifeInvariant'
  BY <1>17, <1>18 DEF HandleError, Handles
<1>19. ASSUME NEW c \in Conn, HandleWrite(c)
       PROVE  LifeInvariant'
  <2>1. /\ UNCHANGED <<queue, batch, next, phase, request, connections_, idle>>
        /\ active' \subseteq active /\ phase["io"] = "dispatch"
    BY <1>19 DEF HandleWrite, Handles
  <2>2. CASE UNCHANGED conn
    BY <1>17, <2>1, <2>2
  <2>3. CASE IsWriting(conn[c]) /\ ~UNCHANGED conn
    <3> DEFINE j == DisableWriting([conn[c] EXCEPT !.unsent = FALSE])
               k == IF j.state = "kDisConnecting" THEN ShutdownInloop(j) ELSE j
    <3>1. Open(c)
      BY <1>0, <2>3, WhereInLife
    <3>2. j \in TcpConnection /\ Serving(j) /\ j.state = conn[c].state
      BY <1>0, <3>1, ServingKept DEF Open
    <3>3. conn' = [conn EXCEPT ![c] = k]
      BY <1>19, <2>3 DEF HandleWrite
    <3> HIDE DEF j
    <3>4. /\ k \in TcpConnection /\ Serving(k)
          /\ conn[c].state = "kDisConnecting" => k.state = "kDisConnecting"
          /\ k.state = "kDisConnecting" => k.fin \/ IsWriting(k)
      BY <3>2, OperationType, ServingKept
    <3> HIDE DEF k
    <3>5. /\ \A l \in Loop : InOrder(l)'
          /\ \A d \in Conn : Stage(d)' /\ Reminded(d)'
          /\ \A d \in Conn : conn'[d].index = conn[d].index
      BY <1>14, <2>1, <3>1, <3>3, <3>4
    <3>6. Phases'
      BY <1>0, <2>1 DEF Phases
    <3>7. InHand'
      BY <1>0, <2>1, <3>5, InHandKept
    <3>8. QED
      BY <3>5, <3>6, <3>7 DEF LifeInvariant
  <2>4. QED
    BY <1>19, <2>2, <2>3 DEF HandleWrite
<1>20. CASE Respond
  <2>0. PICK c \in Conn : c = request.c
    BY <1>20 DEF Respond, TypeOK
  <2>1. conn[c].index = "kAdded"
    BY <1>0, <1>20, <2>0 DEF Respond, InHand
  <2>2. Open(c)
    BY <1>0, <2>1, WhereInLife
  <2>3. PICK j \in IF conn[c].state = "kConnected" THEN Send(conn[c]) ELSE {conn[c]} :
           conn' = [conn EXCEPT ![c] = IF request.close THEN Shutdown(j) ELSE j]
    BY <1>20, <2>0 DEF Respond
  <2>4. UNCHANGED <<queue, batch, next, phase, connections_, idle, active>> /\ request' = NoRequest
    BY <1>20 DEF Respond
  <2>5. /\ j \in TcpConnection /\ Serving(j) /\ j.state = conn[c].state
        /\ conn[c].state = "kDisConnecting" => j = conn[c]
    <3>1. Serving(conn[c])
      BY <2>2 DEF Open
    <3>2. CASE conn[c].state = "kConnected"
      BY <1>0, <2>3, <3>1, <3>2, ServingKept
    <3>3. CASE conn[c].state # "kConnected"
      BY <1>0, <2>3, <3>1, <3>3
    <3>4. QED
      BY <3>2, <3>3
  <2>6. /\ Shutdown(j) \in TcpConnection /\ Serving(Shutdown(j))
        /\ j.state = "kDisConnecting" => Shutdown(j) = j
        /\ j.state = "kConnected" => Shutdown(j).fin \/ IsWriting(Shutdown(j))
    BY <2>5, OperationType, ShutdownServing
  <2>7. \E k \in TcpConnection :
           /\ Serving(k) /\ conn' = [conn EXCEPT ![c] = k]
           /\ conn[c].state = "kDisConnecting" => k.state = "kDisConnecting"
           /\ k.state = "kDisConnecting" =>
                 \/ k.fin \/ IsWriting(k)
                 \/ conn[c].state = "kDisConnecting" /\ IsWriting(conn[c]) = IsWriting(k)
                                                     /\ conn[c].fin = k.fin
    <3>1. CASE request.close
      BY <2>3, <2>5, <2>6, <3>1 DEF Serving
    <3>2. CASE ~request.close
      BY <2>3, <2>5, <3>2
    <3>3. QED
      BY <3>1, <3>2
  <2>8. /\ \A l \in Loop : InOrder(l)'
        /\ \A d \in Conn : Stage(d)' /\ Reminded(d)'
        /\ \A d \in Conn : conn'[d].index = conn[d].index
    BY <1>14, <2>1, <2>2, <2>4, <2>7
  <2>9. Phases'
    BY <1>0, <2>4 DEF Phases
  <2>10. InHand'
    BY <1>0, <2>4, <2>8, InHandKept
  <2>11. QED
    BY <2>8, <2>9, <2>10 DEF LifeInvariant
<1>21. ASSUME NEW c \in Conn, NewConnection(c)
       PROVE  LifeInvariant'
  <2>1. Untouched(c)
    BY <1>0, <1>21, WhereInLife DEF NewConnection, Accepts, Created
  <2>2. /\ UNCHANGED <<batch, next, phase, active, request, idle>>
        /\ connections_' = connections_ \union {c}
        /\ conn' = [conn EXCEPT ![c] = [conn[c] EXCEPT !.state = "kConnecting"]]
        /\ Push("io", "connectEstablished", c)
    BY <1>21 DEF NewConnection
  <2>3. /\ \A l \in Loop : InOrder(l)'
        /\ Waiting(c)' = Waiting(c) \union {"connectEstablished"}
        /\ \A d \in Conn \ {c} : Waiting(d)' = Waiting(d)
    <3>1. "connectEstablished" \notin Waiting(c)
      BY <2>1 DEF Untouched
    <3>2. "connectEstablished" \in LifeFunctor /\ LoopOf("connectEstablished") = "io"
      BY DEF LifeFunctor, LoopOf
    <3>3. QED
      BY <1>0, <2>2, <3>1, <3>2, FunctorSent
  <2>4. /\ conn'[c] = [conn[c] EXCEPT !.state = "kConnecting"]
        /\ \A d \in Conn \ {c} : conn'[d] = conn[d]
    BY <2>2 DEF TypeOK
  <2>5. /\ conn'[c].state = "kConnecting" /\ conn'[c].index = conn[c].index
        /\ conn'[c].events = conn[c].events /\ conn'[c].unsent = conn[c].unsent
        /\ conn'[c].fin = conn[c].fin /\ conn'[c].callbacks = conn[c].callbacks
    BY <1>0, <2>4 DEF TcpConnection
  <2>6. Opening(c)' /\ Reminded(c)'
    BY <2>1, <2>2, <2>3, <2>5 DEF Untouched, Opening, Fresh, Reminded
  <2>7. \A d \in Conn \ {c} : Stage(d)' /\ Reminded(d)'
    BY <1>0, <2>2, <2>3, <2>4, StageKept
  <2>8. Phases'
    BY <1>0, <2>2 DEF Phases
  <2>9. InHand'
    BY <1>0, <2>2, <2>4, <2>5, InHandKept
  <2>10. QED
    BY <2>3, <2>6, <2>7, <2>8, <2>9 DEF LifeInvariant, Stage
<1>22. ASSUME NEW c \in Conn, LockIdle(c)
       PROVE  LifeInvariant'
  <2>1. (\A l \in Loop : InOrder(l)') /\ \A d \in Conn : Waiting(d)' = Waiting(d)
    BY <1>1, <1>22 DEF LockIdle
  <2>2. \A d \in Conn : Stage(d)' /\ Reminded(d)'
    BY <1>0, <1>22, <2>1, StageKept DEF LockIdle
  <2>3. Phases'
    BY <1>0, <1>22 DEF LockIdle, MainHandles, Phases
  <2>4. InHand'
    BY <1>0, <1>22, InHandKept DEF LockIdle, NotIdle
  <2>5. QED
    BY <2>1, <2>2, <2>3, <2>4 DEF LifeInvariant
<1>23. ASSUME NEW c \in Conn, PeerSends(c)
       PROVE  LifeInvariant'
  BY <1>17, <1>23 DEF PeerSends
<1>24. ASSUME NEW c \in Conn, PeerCloses(c)
       PROVE  LifeInvariant'
  BY <1>17, <1>24 DEF PeerCloses
<1>25. CASE UNCHANGED vars
  BY <1>17, <1>25 DEF vars
<1>26. QED
  BY <1>0, <1>3, <1>4, <1>5, <1>6, <1>7, <1>8, <1>9, <1>10, <1>11, <1>12, <1>13,
     <1>15, <1>16, <1>18, <1>19, <1>20, <1>21, <1>22, <1>23, <1>24, <1>25
     DEF Next, MainStep, IoStep

(***************************************************************************)
(* The functors that wait, the map of the server and the fields of a       *)
(* connection agree at all times on where it is in its life, one of        *)
(* untouched, opening, open, closing, removed and destroyed; a loop keeps  *)
(* an event, a request or a timer only of one that can take it.            *)
(***************************************************************************)
THEOREM LifeInvariantHolds == Spec => []LifeInvariant
<1>1. Init => LifeInvariant
  <2> SUFFICES ASSUME Init
               PROVE  LifeInvariant
    OBVIOUS
  <2>1. \A l \in Loop : Todo(l) = <<>> /\ ToRun(l) = {}
    <3> SUFFICES ASSUME NEW l \in Loop
                 PROVE  Todo(l) = <<>> /\ ToRun(l) = {}
      OBVIOUS
    <3>1. batch[l] = <<>> /\ queue[l] = <<>> /\ next[l] = 1
      BY DEF Init
    <3>2. SubSeq(<<>>, 1, Len(<<>>)) = <<>>
      BY EmptySeq, SubSeqEmpty
    <3>3. <<>> \o <<>> = <<>>
      BY EmptySeq, ConcatEmptySeq
    <3>4. Todo(l) = <<>>
      BY <3>1, <3>2, <3>3 DEF Todo
    <3>5. QED
      BY <3>4 DEF ToRun, Range
  <2>2. \A l \in Loop : InOrder(l)
    BY <2>1 DEF InOrder, OnceIn, Behind
  <2>3. \A c \in Conn : Waiting(c) = {}
    BY <2>1 DEF Waiting, LoopOf, Loop
  <2>4. \A c \in Conn : Untouched(c) /\ Reminded(c)
    BY <2>3 DEF Init, Untouched, Fresh, Reminded
  <2>5. Phases /\ InHand
    BY DEF Init, Phases, InHand, Loop, NotIdle
  <2>6. QED
    BY <2>2, <2>4, <2>5 DEF LifeInvariant, Stage
<1>2. TypeOK /\ TypeOK' /\ LifeInvariant /\ [Next]_vars => LifeInvariant'
  BY LifeStep
<1>3. QED
  BY <1>1, <1>2, TypeCorrect, PTL DEF Spec

\* A functor that holds the connection keeps it alive until it has run.
LEMMA HeldIsAlive ==
    ASSUME TypeOK, NEW c \in Conn, Created(c),
           c \in connections_ \/ "connectDestoryed" \in Waiting(c)
    PROVE  Alive(c)
<1>1. CASE c \in connections_
  BY <1>1 DEF Alive
<1>2. CASE "connectDestoryed" \in Waiting(c)
  <2> DEFINE b == batch["io"]
             n == next["io"]
             q == queue["io"]
             r == SubSeq(b, n, Len(b))
             x == Fn("connectDestoryed", c)
  <2>1. /\ "io" \in Loop /\ b \in Seq(Functor) /\ q \in Seq(Functor) /\ n \in Nat \ {0}
        /\ x.f = "connectDestoryed" /\ x.c = c
    BY DEF TypeOK, Loop, Fn
  <2>2. x \in Range(r \o q)
    BY <1>2 DEF Waiting, LoopOf, ToRun, Todo
  <2>3. r \in Seq(Functor)
    BY <2>1, TodoType
  <2> HIDE DEF r, x
  <2>4. PICK i \in DOMAIN (r \o q) : (r \o q)[i] = x
    BY <2>2 DEF Range
  <2>5. /\ Len(r \o q) = Len(r) + Len(q) /\ r \o q \in Seq(Functor)
        /\ \A k \in 1..Len(r) + Len(q) :
              (r \o q)[k] = IF k <= Len(r) THEN r[k] ELSE q[k - Len(r)]
    BY <2>1, <2>3, ConcatProperties
  <2>6. i \in 1..Len(r) + Len(q) /\ Len(r) \in Nat /\ Len(q) \in Nat
    BY <2>1, <2>3, <2>4, <2>5, LenProperties
  <2>7. CASE i <= Len(r)
    <3>1. r[i] = x /\ i \in 1..Len(r)
      BY <2>4, <2>5, <2>6, <2>7
    <3>2. \A k \in n..Len(b) : b[k] \in Functor
      BY <2>1, LenProperties, ElementOfSeq
    <3>3. /\ n \in Int /\ Len(b) \in Int
          /\ Len(r) = (IF n <= Len(b) THEN Len(b) - n + 1 ELSE 0)
          /\ \A k \in 1..Len(b) - n + 1 : r[k] = b[n + k - 1]
      BY <2>1, <3>2, LenProperties, SubSeqProperties DEF r
    <3>4. n + i - 1 \in 1..Len(b) /\ b[n + i - 1] = x
      <4>1. n \in Nat \ {0} /\ i \in Nat \ {0} /\ n <= Len(b) /\ i <= Len(b) - n + 1
        BY <2>1, <3>1, <3>3
      <4>2. n + i - 1 \in 1..Len(b) /\ i \in 1..Len(b) - n + 1
        BY <3>3, <4>1
      <4>3. QED
        BY <3>1, <3>3, <4>2
    <3>5. n + i - 1 \in DOMAIN batch["io"] /\ Holds(batch["io"][n + i - 1], c)
      BY <2>1, <3>4, LenProperties DEF Holds
    <3>6. QED
      BY <2>1, <3>5 DEF Alive
  <2>8. CASE i > Len(r)
    <3>1. i - Len(r) \in 1..Len(q) /\ q[i - Len(r)] = x
      BY <2>4, <2>5, <2>6, <2>8
    <3>2. i - Len(r) \in DOMAIN queue["io"] /\ Holds(queue["io"][i - Len(r)], c)
      BY <2>1, <3>1, LenProperties DEF Holds
    <3>3. QED
      BY <2>1, <3>2 DEF Alive
  <2>9. QED
    BY <2>6, <2>7, <2>8
<1>3. QED
  BY <1>1, <1>2

(***************************************************************************)
(* Nothing reaches a TcpConnection after its last shared_ptr is gone: not  *)
(* the epoll set or activeChannels_ (Epoller.cc:67, EventLoop.cc:80), and  *)
(* not the raw this of shutdown (TcpConnection.cc:175).                    *)
(***************************************************************************)
THEOREM NoDanglingConnectionHolds == Spec => []NoDanglingConnection
<1>1. TypeOK /\ LifeInvariant => NoDanglingConnection
  <2> SUFFICES ASSUME TypeOK, LifeInvariant, NEW c \in Conn,
                      \/ conn[c].index = "kAdded"
                      \/ \E e \in active : e[1] = c
                      \/ \E fn \in ToRun("io") : fn.f = "shutdownInloop" /\ fn.c = c
               PROVE  Alive(c)
    BY DEF NoDanglingConnection
  <2>1. Stage(c)
    BY DEF LifeInvariant
  <2>2. conn[c].index # "kNew" \/ "shutdownInloop" \in Waiting(c)
    <3>1. CASE \E fn \in ToRun("io") : fn.f = "shutdownInloop" /\ fn.c = c
      <4>1. PICK fn \in ToRun("io") : fn.f = "shutdownInloop" /\ fn.c = c
        BY <3>1
      <4>2. fn \in Functor
        <5>1. Todo("io") \in Seq(Functor)
          BY TodoType DEF Loop
        <5>2. \A i \in DOMAIN Todo("io") : Todo("io")[i] \in Functor
          BY <5>1, LenProperties, ElementOfSeq
        <5>3. QED
          BY <5>2 DEF ToRun, Range
      <4>3. fn = Fn("shutdownInloop", c)
        BY <4>1, <4>2 DEF Functor, Fn
      <4>4. QED
        BY <4>1, <4>3 DEF Waiting, LifeFunctor, LoopOf
    <3>2. QED
      BY <3>1 DEF LifeInvariant, InHand
  <2>3. Open(c) \/ Closing(c) \/ Removed(c)
    BY <2>1, <2>2 DEF Stage, Untouched, Opening, Destroyed, Fresh
  <2>4. Created(c) /\ (c \in connections_ \/ "connectDestoryed" \in Waiting(c))
    BY <2>3 DEF Created, Open, Closing, Removed, Serving, Over
  <2>5. QED
    BY <2>4, HeldIsAlive
<1>2. QED
  BY <1>1, TypeCorrect, LifeInvariantHolds, PTL

\* What a connection is when nothing holds it any more.
ReleasedIsFinished ==
    \A c \in Conn :
       Created(c) /\ ~Alive(c) =>
          /\ conn[c].index = "kNew"
          /\ conn[c].callbacks = <<"online", "offline">>

(***************************************************************************)
(* A connection goes away only when connectDestoryed has taken its Channel *)
(* out of the epoller and the user was told online, then offline           *)
(* (TcpConnection.cc:45-61, 148-155).                                      *)
(***************************************************************************)
THEOREM ReleasedIsFinishedHolds == Spec => []ReleasedIsFinished
<1>1. TypeOK /\ LifeInvariant => ReleasedIsFinished
  <2> SUFFICES ASSUME TypeOK, LifeInvariant, NEW c \in Conn, Created(c), ~Alive(c)
               PROVE  conn[c].index = "kNew" /\ conn[c].callbacks = <<"online", "offline">>
    BY DEF ReleasedIsFinished
  <2>1. Stage(c)
    BY DEF LifeInvariant
  <2>2. c \notin connections_ /\ "connectDestoryed" \notin Waiting(c)
    BY HeldIsAlive
  <2>3. Destroyed(c)
    BY <2>1, <2>2 DEF Stage, Untouched, Opening, Open, Closing, Removed, Created
  <2>4. QED
    BY <2>3 DEF Destroyed, Over
<1>2. QED
  BY <1>1, TypeCorrect, LifeInvariantHolds, PTL

(***************************************************************************)
(* Until its peer closes, a connection waits for the socket to be writable *)
(* exactly while it has output, and closes its write side only when it has *)
(* sent all (TcpConnection.cc:80-104, 116-136, 179-185).                   *)
(***************************************************************************)
THEOREM FlushBeforeFinHolds == Spec => []FlushBeforeFin
<1>1. LifeInvariant => FlushBeforeFin
  BY WhereInLife DEF LifeInvariant, FlushBeforeFin, Open, Serving
<1>2. QED
  BY <1>1, LifeInvariantHolds, PTL

(***************************************************************************)
(* A shutdown is not forgotten: a connection in kDisConnecting with its    *)
(* output sent has closed its write side, or shutdownInloop is queued      *)
(* (TcpConnection.cc:133, 172-185).                                        *)
(***************************************************************************)
THEOREM FinNotForgottenHolds == Spec => []FinNotForgotten
<1>1. LifeInvariant => FinNotForgotten
  <2>1. \A c \in Conn : "shutdownInloop" \in Waiting(c) =>
           [f |-> "shutdownInloop", c |-> c] \in ToRun("io")
    BY DEF Waiting, LoopOf, Fn
  <2>2. QED
    BY <2>1 DEF LifeInvariant, FinNotForgotten, Reminded
<1>2. QED
  BY <1>1, LifeInvariantHolds, PTL

\* What the user was told is told: no operation takes a callback back.
LEMMA CallbacksGrow ==
    ASSUME NEW k \in TcpConnection
    PROVE  /\ ShutdownInloop(k).callbacks = k.callbacks
           /\ Shutdown(k).callbacks = k.callbacks
           /\ \A j \in Send(k) : j.callbacks = k.callbacks
           /\ \A e \in {"IN", "OUT"} : EnableEvent(k, e).callbacks = k.callbacks
           /\ DisableWriting(k).callbacks = k.callbacks
           /\ RemoveChannel(k).callbacks = k.callbacks
           /\ Closed(k).callbacks = Append(k.callbacks, "offline")
<1>1. \A j \in TcpConnection : ShutdownInloop(j).callbacks = j.callbacks
  BY DEF ShutdownInloop, ShutdownWrite, TcpConnection
<1>2. Shutdown(k).callbacks = k.callbacks
  <2> DEFINE j == [k EXCEPT !.state = "kDisConnecting"]
  <2>1. j \in TcpConnection /\ j.callbacks = k.callbacks
    BY DEF State, TcpConnection
  <2>2. Shutdown(k) = k \/ Shutdown(k) = ShutdownInloop(j)
    BY DEF Shutdown
  <2> HIDE DEF j
  <2>3. QED
    BY <1>1, <2>1, <2>2
<1>3. \A j \in TcpConnection, e \in {"IN", "OUT"} : EnableEvent(j, e).callbacks = j.callbacks
  <2> SUFFICES ASSUME NEW j \in TcpConnection, NEW e \in {"IN", "OUT"}
               PROVE  EnableEvent(j, e).callbacks = j.callbacks
    OBVIOUS
  <2>1. EnableEvent(j, e) = [j EXCEPT !.events = j.events \union {e}, !.index = "kAdded"]
    BY EventEffect
  <2>2. QED
    BY <2>1 DEF TcpConnection
<1>4. \A j \in Send(k) : j.callbacks = k.callbacks
  <2> DEFINE u == [k EXCEPT !.unsent = TRUE]
             v == [k EXCEPT !.lost = TRUE]
  <2>1. u \in TcpConnection /\ u.callbacks = k.callbacks /\ v.callbacks = k.callbacks
    BY DEF TcpConnection
  <2>2. \A j \in Send(k) : j = k \/ j = v \/ j = EnableEvent(u, "OUT")
    BY DEF Send
  <2> HIDE DEF u, v
  <2>3. EnableEvent(u, "OUT").callbacks = k.callbacks
    BY <1>3, <2>1
  <2>4. QED
    BY <2>1, <2>2, <2>3
<1>5. DisableWriting(k).callbacks = k.callbacks /\ RemoveChannel(k).callbacks = k.callbacks
  BY DEF DisableWriting, UpdateChannel, RemoveChannel, TcpConnection
<1>6. Closed(k).callbacks = Append(k.callbacks, "offline")
  <2> DEFINE j == DisableAll([k EXCEPT !.state = "kdisConnected"])
  <2>1. j \in TcpConnection
    <3>1. [k EXCEPT !.state = "kdisConnected"] \in TcpConnection
      BY FieldType DEF State
    <3>2. QED
      BY <3>1, EventEffect
  <2>2. j.callbacks = k.callbacks
    BY DEF DisableAll, UpdateChannel, TcpConnection
  <2> HIDE DEF j
  <2>3. Calls(j, "offline").callbacks = Append(k.callbacks, "offline")
    BY <2>1, <2>2 DEF Calls, TcpConnection
  <2>4. QED
    BY <2>3 DEF Closed, j
<1>7. QED
  BY <1>1, <1>2, <1>3, <1>4, <1>5, <1>6

\* What the user was told of each connection.
Told == [c \in Conn |-> conn[c].callbacks]

TellsOnline(c) ==
    /\ ConnectEstablished(c)
    /\ Told' = [Told EXCEPT ![c] = Append(Told[c], "online")]

TellsOffline(c) ==
    /\ HandleClose(c) \/ (ConnectDestoryed(c) /\ conn[c].state = "kConnected")
    /\ Told' = [Told EXCEPT ![c] = Append(Told[c], "offline")]

\* The steps that call the connection callback.
LEMMA WhoTells ==
    ASSUME TypeOK, [Next]_vars
    PROVE  /\ Told' = Told \/ \E c \in Conn : TellsOnline(c) \/ TellsOffline(c)
           /\ \A c \in Conn : ConnectEstablished(c) => TellsOnline(c)
           /\ \A c \in Conn : HandleClose(c) => TellsOffline(c)
           /\ \A c \in Conn : HandleMessage(c) \/ HandleError(c) => Told' = Told
           /\ Respond => Told' = Told
<1>0. \A d \in Conn : conn[d] \in TcpConnection
  BY DEF TypeOK
<1>1. ASSUME NEW d \in Conn, NEW k, conn' = [conn EXCEPT ![d] = k]
      PROVE  /\ Told' = [Told EXCEPT ![d] = k.callbacks]
             /\ k.callbacks = conn[d].callbacks => Told' = Told
  BY <1>1 DEF TypeOK, Told
<1>2. ASSUME UNCHANGED conn
      PROVE  Told' = Told
  BY <1>2 DEF Told
<1>3. ASSUME ResetIdle
      PROVE  Told' = Told
  <2>1. PICK d \in Conn : d = idle.c
    BY <1>3 DEF ResetIdle, TypeOK, NotIdle
  <2>2. [conn[d] EXCEPT !.recent = FALSE].callbacks = conn[d].callbacks
    BY <1>0 DEF TcpConnection
  <2>3. QED
    BY <1>1, <1>3, <2>1, <2>2 DEF ResetIdle
<1>4. ASSUME SetShutdown
      PROVE  Told' = Told
  <2>1. PICK d \in Conn : d = idle.c
    BY <1>4 DEF SetShutdown, TypeOK, NotIdle
  <2>2. [conn[d] EXCEPT !.state = "kDisConnecting"].callbacks = conn[d].callbacks
    BY <1>0 DEF TcpConnection
  <2>3. QED
    BY <1>1, <1>4, <2>1, <2>2 DEF SetShutdown
<1>5. ASSUME NEW d \in Conn, ConnectEstablished(d)
      PROVE  TellsOnline(d)
  <2> DEFINE j == EnableEvent([conn[d] EXCEPT !.state = "kConnected"], "IN")
  <2>1. [conn[d] EXCEPT !.state = "kConnected"] \in TcpConnection
    BY <1>0, FieldType DEF State
  <2>2. [conn[d] EXCEPT !.state = "kConnected"].callbacks = conn[d].callbacks
    BY <1>0 DEF TcpConnection
  <2>3. j \in TcpConnection /\ j.callbacks = conn[d].callbacks
    BY <2>1, <2>2, EventEffect, CallbacksGrow
  <2> DEFINE k == Calls(j, "online")
  <2>4. conn' = [conn EXCEPT ![d] = k]
    BY <1>5 DEF ConnectEstablished
  <2> HIDE DEF j
  <2>5. k.callbacks = Append(Told[d], "online")
    BY <2>3 DEF Calls, TcpConnection, Told
  <2> HIDE DEF k
  <2>6. Told' = [Told EXCEPT ![d] = k.callbacks]
    BY <1>1, <2>4
  <2>7. QED
    BY <1>5, <2>5, <2>6 DEF TellsOnline
<1>6. ASSUME NEW d \in Conn, ConnectDestoryed(d)
      PROVE  Told' = Told \/ TellsOffline(d)
  <2>1. PICK j : /\ j = IF conn[d].state = "kConnected" THEN Closed(conn[d]) ELSE conn[d]
                 /\ conn' = [conn EXCEPT ![d] = RemoveChannel(j)]
    BY <1>6 DEF ConnectDestoryed
  <2>2. j \in TcpConnection
    BY <1>0, <2>1, OperationType
  <2>3. RemoveChannel(j).callbacks = j.callbacks
    BY <2>2, CallbacksGrow
  <2>4. Closed(conn[d]).callbacks = Append(Told[d], "offline")
    BY <1>0, CallbacksGrow DEF Told
  <2>5. /\ Told' = [Told EXCEPT ![d] = j.callbacks]
        /\ j.callbacks = conn[d].callbacks => Told' = Told
    <3> DEFINE k == RemoveChannel(j)
    <3>1. conn' = [conn EXCEPT ![d] = k] /\ k.callbacks = j.callbacks
      BY <2>1, <2>3
    <3> HIDE DEF k
    <3>2. QED
      BY <1>1, <3>1
  <2>6. CASE conn[d].state = "kConnected"
    BY <1>6, <2>1, <2>4, <2>5, <2>6 DEF TellsOffline
  <2>7. CASE conn[d].state # "kConnected"
    BY <2>1, <2>5, <2>7
  <2>8. QED
    BY <2>6, <2>7
<1>7. ASSUME NEW d \in Conn, RunShutdownInloop(d)
      PROVE  Told' = Told
  <2>1. ShutdownInloop(conn[d]).callbacks = conn[d].callbacks
    BY <1>0, CallbacksGrow
  <2>2. QED
    BY <1>1, <1>7, <2>1 DEF RunShutdownInloop
<1>8. ASSUME NEW d \in Conn, HandleMessage(d)
      PROVE  Told' = Told
  <2> DEFINE j == [conn[d] EXCEPT !.recent = TRUE]
  <2>1. j \in TcpConnection /\ j.callbacks = conn[d].callbacks
    BY <1>0 DEF TcpConnection
  <2>2. \/ conn' = [conn EXCEPT ![d] = j]
        \/ \E k \in Send(j) : conn' = [conn EXCEPT ![d] = Shutdown(k)]
    BY <1>8 DEF HandleMessage
  <2> HIDE DEF j
  <2>3. \A k \in Send(j) : Shutdown(k).callbacks = conn[d].callbacks
    BY <2>1, OperationType, CallbacksGrow
  <2>4. QED
    BY <1>1, <2>1, <2>2, <2>3
<1>9. ASSUME NEW d \in Conn, HandleClose(d)
      PROVE  TellsOffline(d)
  <2>1. Closed(conn[d]).callbacks = Append(Told[d], "offline")
    BY <1>0, CallbacksGrow DEF Told
  <2> DEFINE k == Closed(conn[d])
  <2>2. conn' = [conn EXCEPT ![d] = k]
    BY <1>9 DEF HandleClose
  <2> HIDE DEF k
  <2>3. Told' = [Told EXCEPT ![d] = k.callbacks]
    BY <1>1, <2>2
  <2>4. QED
    BY <1>9, <2>1, <2>3 DEF TellsOffline, k
<1>10. ASSUME NEW d \in Conn, HandleWrite(d)
       PROVE  Told' = Told
  <2> DEFINE u == [conn[d] EXCEPT !.unsent = FALSE]
             j == DisableWriting(u)
             k == IF j.state = "kDisConnecting" THEN ShutdownInloop(j) ELSE j
  <2>1. u \in TcpConnection /\ u.callbacks = conn[d].callbacks
    BY <1>0 DEF TcpConnection
  <2>2. \/ UNCHANGED conn
        \/ conn' = [conn EXCEPT ![d] = k]
    BY <1>10 DEF HandleWrite
  <2> HIDE DEF u
  <2>3. j \in TcpConnection /\ j.callbacks = conn[d].callbacks
    BY <2>1, EventEffect, CallbacksGrow
  <2> HIDE DEF j
  <2>4. k.callbacks = conn[d].callbacks
    BY <2>3, CallbacksGrow
  <2> HIDE DEF k
  <2>5. QED
    BY <1>1, <1>2, <2>2, <2>4
<1>11. ASSUME Respond
       PROVE  Told' = Told
  <2>1. PICK d \in Conn : d = request.c
    BY <1>11 DEF Respond, TypeOK
  <2>2. PICK k \in Send(conn[d]) \union {conn[d]} :
           conn' = [conn EXCEPT ![d] = IF request.close THEN Shutdown(k) ELSE k]
    BY <1>11, <2>1 DEF Respond
  <2>3. k \in TcpConnection /\ k.callbacks = conn[d].callbacks
    BY <1>0, OperationType, CallbacksGrow
  <2>4. Shutdown(k).callbacks = conn[d].callbacks
    BY <2>3, CallbacksGrow
  <2>5. QED
    BY <1>1, <2>2, <2>3, <2>4
<1>12. ASSUME NEW d \in Conn, NewConnection(d)
       PROVE  Told' = Told
  <2>1. [conn[d] EXCEPT !.state = "kConnecting"].callbacks = conn[d].callbacks
    BY <1>0 DEF TcpConnection
  <2>2. QED
    BY <1>1, <1>12, <2>1 DEF NewConnection
<1>13. ASSUME NEW d \in Conn, HandleError(d)
       PROVE  Told' = Told
  BY <1>2, <1>13 DEF HandleError
<1>14. ASSUME UNCHANGED vars
       PROVE  Told' = Told
  BY <1>2, <1>14 DEF vars
<1>15. Told' = Told \/ \E c \in Conn : TellsOnline(c) \/ TellsOffline(c)
  BY <1>2, <1>3, <1>4, <1>5, <1>6, <1>7, <1>8, <1>9, <1>10, <1>11, <1>12, <1>13, <1>14
     DEF Next, MainStep, IoStep, SwapFunctors, FinishFunctors, RemoveConnectionInLoop,
         AddTimerInloop, TestShutdown, PollIo, LockIdle, PeerSends, PeerCloses
<1>16. QED
  BY <1>5, <1>8, <1>9, <1>11, <1>13, <1>15

\* A step adds at most one call of the connection callback.
LEMMA ToldStaysTold ==
    ASSUME TypeOK, [Next]_vars, NEW c \in Conn
    PROVE  \/ conn'[c].callbacks = conn[c].callbacks
           \/ \E s \in {"online", "offline"} :
                 conn'[c].callbacks = Append(conn[c].callbacks, s)
<1>1. Told[c] = conn[c].callbacks /\ Told'[c] = conn'[c].callbacks
  BY DEF Told
<1>2. Told' = Told \/ \E d \in Conn, s \in {"online", "offline"} :
                         Told' = [Told EXCEPT ![d] = Append(Told[d], s)]
  BY WhoTells DEF TellsOnline, TellsOffline
<1>3. DOMAIN Told = Conn
  BY DEF Told
<1>4. QED
  BY <1>1, <1>2, <1>3

(***************************************************************************)
(* No step puts a Channel that disableAll took out of the epoller back     *)
(* (Epoller.cc:80): connectEstablished runs before, and all that enables   *)
(* an event later finds the connection still open.                         *)
(***************************************************************************)
THEOREM ClosedStaysOutHolds == Spec => ClosedStaysOut
<1>1. TypeOK /\ LifeInvariant /\ LifeInvariant' /\ [Next]_vars =>
         [\A c \in Conn : conn[c].index = "kDeleted" => conn'[c].index # "kAdded"]_vars
  <2> SUFFICES ASSUME TypeOK, LifeInvariant, LifeInvariant', [Next]_vars,
                      NEW c \in Conn, conn[c].index = "kDeleted", conn'[c].index = "kAdded"
               PROVE  FALSE
    OBVIOUS
  <2>1. Stage(c) /\ Stage(c)'
    BY DEF LifeInvariant
  <2>2. conn[c].callbacks = <<"online", "offline">>
    BY <2>1 DEF Stage, Untouched, Opening, Open, Closing, Removed, Destroyed,
                Fresh, Serving, Over
  <2>3. conn'[c].callbacks = <<"online">>
    BY <2>1 DEF Stage, Untouched, Opening, Open, Closing, Removed, Destroyed,
                Fresh, Serving, Over
  <2>4. <<"online">> # <<"online", "offline">>
    OBVIOUS
  <2>5. \A s \in {"online", "offline"} : Append(<<"online", "offline">>, s) # <<"online">>
    <3> SUFFICES ASSUME NEW s \in {"online", "offline"}
                 PROVE  Append(<<"online", "offline">>, s) # <<"online">>
      OBVIOUS
    <3>1. <<"online", "offline">> \in Seq({"online", "offline"})
      OBVIOUS
    <3>2. Len(Append(<<"online", "offline">>, s)) = 3
      BY <3>1, AppendProperties
    <3>3. QED
      BY <3>2
  <2>6. QED
    BY <2>2, <2>3, <2>4, <2>5, ToldStaysTold
<1>2. QED
  BY <1>1, TypeCorrect, LifeInvariantHolds, PTL DEF Spec, ClosedStaysOut

-----------------------------------------------------------------------------
(* What the user of the connections sees.                                  *)

\* A functor that runs was waiting.
LEMMA RunsWaiting ==
    ASSUME TypeOK, NEW l \in Loop, NEW f \in LifeFunctor, NEW c \in Conn,
           Runs(l, f, c), l = LoopOf(f)
    PROVE  f \in Waiting(c)
<1> DEFINE b == batch[l]
           n == next[l]
           q == queue[l]
<1>1. b \in Seq(Functor) /\ n \in 1..Len(b) /\ q \in Seq(Functor) /\ b[n] = Fn(f, c)
  BY LenProperties DEF TypeOK, Runs, Fn
<1>2. Todo(l) = SubSeq(b, n, Len(b)) \o q
  BY DEF Todo
<1> HIDE DEF b, n, q
<1>3. Todo(l) # <<>> /\ Head(Todo(l)) = Fn(f, c)
  BY <1>1, <1>2, FirstOfRest
<1>4. 1 \in DOMAIN Todo(l) /\ Todo(l)[1] = Fn(f, c)
  <2>1. Todo(l) \in Seq(Functor)
    BY TodoType
  <2>2. Len(Todo(l)) \in Nat \ {0} /\ DOMAIN Todo(l) = 1..Len(Todo(l))
    BY <1>3, <2>1, EmptySeq, LenProperties
  <2>3. Head(Todo(l)) = Todo(l)[1]
    BY <1>3, <2>1, HeadTailProperties
  <2>4. QED
    BY <1>3, <2>2, <2>3
<1>5. Fn(f, c) \in ToRun(l)
  BY <1>4 DEF ToRun, Range
<1>6. QED
  BY <1>5 DEF Waiting

\* What each stage says about what the user was told.
LEMMA ToldInLife ==
    ASSUME NEW c \in Conn, Stage(c)
    PROVE  /\ conn[c].callbacks # <<>> => Created(c)
           /\ Open(c) \/ Closing(c) \/ Removed(c) => conn[c].callbacks # <<>>
           /\ Opening(c) => conn[c].callbacks = <<>> /\ Created(c)
           /\ Open(c) => conn[c].callbacks = <<"online">> /\ Created(c) /\ c \in connections_
           /\ Untouched(c) <=> ~Created(c)
BY DEF Stage, Untouched, Opening, Open, Closing, Removed, Destroyed,
       Fresh, Serving, Over, Created

\* What each step does to the state of a connection of which the user was not
\* told yet.
LEMMA WhoOpens ==
    ASSUME TypeOK, LifeInvariant, [Next]_vars, NEW d \in Conn,
           conn[d].callbacks = <<>>
    PROVE  \/ conn'[d].state = conn[d].state
           \/ NewConnection(d)
           \/ ConnectEstablished(d)
<1> USE DEF loopVars, ioVars, mainVars
<1>0. /\ \A c \in Conn : Stage(c) /\ conn[c] \in TcpConnection
      /\ InHand
      /\ DOMAIN conn = Conn
      /\ "main" \in Loop /\ "io" \in Loop
      /\ \A f \in LifeFunctor : LoopOf(f) \in Loop
  BY DEF LifeInvariant, TypeOK, Loop, LoopOf
<1>1. ASSUME NEW c \in Conn, NEW k, conn' = [conn EXCEPT ![c] = k], c # d
      PROVE  conn'[d].state = conn[d].state
  BY <1>0, <1>1
<1>2. ~Open(d) /\ ~Closing(d) /\ ~Removed(d)
  BY <1>0, ToldInLife
<1>3. CASE UNCHANGED conn
  BY <1>3
<1>4. CASE ResetIdle
  <2>1. conn'[d] = conn[d] \/ conn'[d] = [conn[d] EXCEPT !.recent = FALSE]
    BY <1>4 DEF ResetIdle, TypeOK
  <2>2. QED
    BY <1>0, <2>1 DEF TcpConnection
<1>5. CASE SetShutdown
  <2>1. idle.c \in Conn
    BY <1>5 DEF SetShutdown, TypeOK, NotIdle
  <2>2. Open(idle.c) \/ Closing(idle.c)
    BY <1>0, <1>5, <2>1, WhereInLife DEF SetShutdown, InHand
  <2>3. QED
    BY <1>0, <1>2, <1>5, <2>1, <2>2 DEF SetShutdown
<1>6. ASSUME NEW c \in Conn, ConnectDestoryed(c)
      PROVE  conn'[d].state = conn[d].state
  <2>1. Runs("io", "connectDestoryed", c)
    BY <1>6 DEF ConnectDestoryed
  <2>2. "connectDestoryed" \in LifeFunctor /\ LoopOf("connectDestoryed") = "io"
    BY DEF LifeFunctor, LoopOf
  <2>3. Removed(c)
    BY <1>0, <2>1, <2>2, RunsWaiting, WhereInLife
  <2>4. QED
    BY <1>0, <1>2, <1>6, <2>3 DEF ConnectDestoryed
<1>7. ASSUME NEW c \in Conn, RunShutdownInloop(c)
      PROVE  conn'[d].state = conn[d].state
  <2>1. Runs("io", "shutdownInloop", c)
    BY <1>7 DEF RunShutdownInloop
  <2>2. "shutdownInloop" \in LifeFunctor /\ LoopOf("shutdownInloop") = "io"
    BY DEF LifeFunctor, LoopOf
  <2>3. Open(c) \/ Closing(c) \/ Removed(c)
    BY <1>0, <2>1, <2>2, RunsWaiting, WhereInLife
  <2>4. QED
    BY <1>0, <1>2, <1>7, <2>3 DEF RunShutdownInloop
<1>8. ASSUME NEW c \in Conn, <<c, "IN">> \in active
      PROVE  c # d
  BY <1>0, <1>2, <1>8, WhereInLife DEF InHand
<1>9. ASSUME NEW c \in Conn, HandleMessage(c) \/ HandleClose(c)
      PROVE  conn'[d].state = conn[d].state
  <2>1. c # d
    BY <1>8, <1>9 DEF HandleMessage, HandleClose, Handles
  <2>2. QED
    BY <1>0, <1>9, <2>1 DEF HandleMessage, HandleClose
<1>10. ASSUME NEW c \in Conn, HandleWrite(c)
       PROVE  conn'[d].state = conn[d].state
  <2>1. CASE IsWriting(conn[c])
    <3>1. c # d
      BY <1>0, <1>2, <2>1, WhereInLife
    <3>2. QED
      BY <1>0, <1>10, <3>1 DEF HandleWrite
  <2>2. CASE ~IsWriting(conn[c])
    BY <1>10, <2>2 DEF HandleWrite
  <2>3. QED
    BY <2>1, <2>2
<1>11. CASE Respond
  <2>1. request.c \in Conn /\ request.c # d
    BY <1>0, <1>2, <1>11, WhereInLife DEF Respond, InHand, TypeOK
  <2>2. QED
    BY <1>0, <1>11, <2>1 DEF Respond
<1>12. ASSUME NEW c \in Conn, NewConnection(c) \/ ConnectEstablished(c), c # d
       PROVE  conn'[d].state = conn[d].state
  BY <1>0, <1>12 DEF NewConnection, ConnectEstablished
<1>13. CASE UNCHANGED vars
  BY <1>3, <1>13 DEF vars
<1>14. QED
  BY <1>3, <1>4, <1>5, <1>6, <1>7, <1>9, <1>10, <1>11, <1>12, <1>13
     DEF Next, MainStep, IoStep, SwapFunctors, FinishFunctors, RemoveConnectionInLoop,
         AddTimerInloop, TestShutdown, PollIo, HandleError, LockIdle, PeerSends, PeerCloses

\* A connection is made by newConnection, and stays made.
LEMMA WhoCreates ==
    ASSUME TypeOK, TypeOK', LifeInvariant, LifeInvariant', [Next]_vars, NEW d \in Conn
    PROVE  Created(d)' <=> Created(d) \/ NewConnection(d)
<1>1. Stage(d) /\ Stage(d)' /\ conn[d] \in TcpConnection
  BY DEF LifeInvariant, TypeOK
<1>2. CASE NewConnection(d)
  BY <1>1, <1>2 DEF NewConnection, Created, TypeOK, TcpConnection
<1>3. CASE ConnectEstablished(d)
  <2>1. Runs("io", "connectEstablished", d)
    BY <1>3 DEF ConnectEstablished
  <2>2. "connectEstablished" \in LifeFunctor /\ LoopOf("connectEstablished") = "io" /\ "io" \in Loop
    BY DEF LifeFunctor, LoopOf, Loop
  <2>3. Created(d) /\ conn[d].callbacks = <<>>
    BY <1>1, <2>1, <2>2, RunsWaiting, WhereInLife, ToldInLife
  <2>4. conn'[d] = Calls(EnableEvent([conn[d] EXCEPT !.state = "kConnected"], "IN"), "online")
    BY <1>3 DEF ConnectEstablished, TypeOK
  <2>5. conn'[d].state = "kConnected"
    BY <1>1, <2>4 DEF Calls, EnableEvent, UpdateChannel, TcpConnection
  <2>6. QED
    BY <2>3, <2>5 DEF Created
<1>4. CASE conn'[d].state = conn[d].state /\ ~NewConnection(d)
  BY <1>4 DEF Created
<1>5. CASE conn[d].callbacks # <<>> /\ ~NewConnection(d)
  <2>1. conn'[d].callbacks # <<>>
    <3>1. conn[d].callbacks \in Seq({"online", "offline"})
      BY <1>1 DEF TcpConnection
    <3>2. QED
      BY <1>5, <3>1, ToldStaysTold, AppendProperties
  <2>2. Created(d)
    BY <1>1, <1>5, ToldInLife
  <2>3. Created(d)'
    BY <1>1, <2>1 DEF Stage, Untouched, Opening, Open, Closing, Removed, Destroyed,
                      Fresh, Serving, Over, Created
  <2>4. QED
    BY <2>2, <2>3
<1>6. QED
  BY <1>2, <1>3, <1>4, <1>5, WhoOpens

\* Whether a sequence of functors holds a connection.
HeldIn(s, c) == \E i \in DOMAIN s : Holds(s[i], c)

Kept(c) ==
    \/ c \in connections_
    \/ idle.c = c
    \/ \E l \in Loop : HeldIn(queue[l], c) \/ HeldIn(batch[l], c)

LEMMA AliveIsKept ==
    ASSUME NEW c \in Conn
    PROVE  Alive(c) <=> Created(c) /\ Kept(c)
BY DEF Alive, Kept, HeldIn

\* A functor that is queued holds what it holds.
LEMMA HeldAppended ==
    ASSUME NEW s \in Seq(Functor), NEW x \in Functor, NEW c \in Conn
    PROVE  HeldIn(Append(s, x), c) <=> HeldIn(s, c) \/ Holds(x, c)
<1>1. /\ DOMAIN s = 1..Len(s) /\ Len(s) \in Nat
      /\ Append(s, x) \in Seq(Functor) /\ Len(Append(s, x)) = Len(s) + 1
      /\ \A i \in 1..Len(s) : Append(s, x)[i] = s[i]
      /\ Append(s, x)[Len(s) + 1] = x
  BY AppendProperties, LenProperties
<1>2. DOMAIN Append(s, x) = 1..Len(s) + 1
  BY <1>1, LenProperties
<1>3. QED
  BY <1>1, <1>2 DEF HeldIn

\* What sending a functor does to who is held.
LEMMA PushHolds ==
    ASSUME TypeOK, NEW l \in Loop, NEW f \in FunctorName, NEW c \in Conn,
           Push(l, f, c), UNCHANGED batch, NEW d \in Conn
    PROVE  (\E m \in Loop : HeldIn(queue'[m], d) \/ HeldIn(batch'[m], d))
             <=> \/ \E m \in Loop : HeldIn(queue[m], d) \/ HeldIn(batch[m], d)
                 \/ Holds(Fn(f, c), d)
<1>1. /\ queue'[l] = Append(queue[l], Fn(f, c)) /\ queue[l] \in Seq(Functor)
      /\ \A m \in Loop \ {l} : queue'[m] = queue[m]
  BY DEF TypeOK, Push, Fn
<1>2. Fn(f, c) \in Functor
  BY FunctorOf
<1>3. HeldIn(queue'[l], d) <=> HeldIn(queue[l], d) \/ Holds(Fn(f, c), d)
  BY <1>1, <1>2, HeldAppended
<1>4. QED
  BY <1>1, <1>3

\* The functor that a loop runs is in its batch until the batch is through.
LEMMA RunsHeld ==
    ASSUME TypeOK, NEW l \in Loop, NEW f, NEW c \in Conn, Runs(l, f, c),
           Holds(Fn(f, c), c)
    PROVE  Kept(c)
<1>1. next[l] \in DOMAIN batch[l] /\ batch[l][next[l]] = Fn(f, c)
  BY LenProperties DEF TypeOK, Runs, Fn
<1>2. HeldIn(batch[l], c)
  BY <1>1 DEF HeldIn
<1>3. QED
  BY <1>2 DEF Kept

\* A connection that nothing holds is held by nothing again: each loop passes
\* on what it has, and the weak_ptr of an idle timer finds nothing to lock.
LEMMA NeverRevived ==
    ASSUME TypeOK, TypeOK', LifeInvariant, LifeInvariant', [Next]_vars,
           NEW d \in Conn, ~NewConnection(d), Alive(d)'
    PROVE  Alive(d)
<1> USE DEF loopVars, ioVars, mainVars
<1>1. Created(d)
  <2>1. Created(d)'
    BY DEF Alive
  <2>2. QED
    BY <2>1, WhoCreates
<1>2. Kept(d)'
  BY DEF Alive, Kept, HeldIn
<1>3. SUFFICES Kept(d)
  BY <1>1, AliveIsKept
<1> DEFINE HeldNow == \E m \in Loop : HeldIn(queue[m], d) \/ HeldIn(batch[m], d)
           HeldNext == \E m \in Loop : HeldIn(queue'[m], d) \/ HeldIn(batch'[m], d)
<1>4. /\ Kept(d) <=> d \in connections_ \/ idle.c = d \/ HeldNow
      /\ d \in connections_' \/ idle'.c = d \/ HeldNext
  BY <1>2 DEF Kept
<1>5. ASSUME UNCHANGED <<queue, batch>>
      PROVE  HeldNext => HeldNow
  BY <1>5
<1>6. /\ \A f \in {"connectEstablished", "connectDestoryed", "removeConnectionInLoop",
                   "shutdownInloop", "AddTimerInloop"}, c \in Conn :
            Holds(Fn(f, c), d) <=>
               c = d /\ f \in {"connectEstablished", "connectDestoryed", "removeConnectionInLoop"}
      /\ \A f \in FunctorName, l \in Loop, c \in Conn :
            Push(l, f, c) /\ UNCHANGED batch => (HeldNext <=> HeldNow \/ Holds(Fn(f, c), d))
      /\ "main" \in Loop /\ "io" \in Loop
  <2>1. \A f \in FunctorName, l \in Loop, c \in Conn :
            Push(l, f, c) /\ UNCHANGED batch => (HeldNext <=> HeldNow \/ Holds(Fn(f, c), d))
    BY PushHolds
  <2>2. QED
    BY <2>1 DEF Holds, Fn, Loop
<1> HIDE DEF HeldNow, HeldNext
<1>7. ASSUME UNCHANGED <<connections_, idle, queue, batch>>
      PROVE  Kept(d)
  BY <1>4, <1>5, <1>7
<1>8. ASSUME NEW l \in Loop, SwapFunctors(l)
      PROVE  Kept(d)
  <2>1. UNCHANGED <<connections_, idle>>
    BY <1>8 DEF SwapFunctors
  <2>2. /\ batch'[l] = queue[l] /\ queue'[l] = <<>>
        /\ \A m \in Loop \ {l} : batch'[m] = batch[m] /\ queue'[m] = queue[m]
    BY <1>8 DEF SwapFunctors, TypeOK
  <2>3. ~HeldIn(<<>>, d)
    BY DEF HeldIn
  <2>4. HeldNext => HeldNow
    BY <2>2, <2>3 DEF HeldNow, HeldNext
  <2>5. QED
    BY <1>4, <2>1, <2>4
<1>9. ASSUME NEW l \in Loop, FinishFunctors(l)
      PROVE  Kept(d)
  <2>1. UNCHANGED <<connections_, idle, queue>>
    BY <1>9 DEF FinishFunctors
  <2>2. batch'[l] = <<>> /\ \A m \in Loop \ {l} : batch'[m] = batch[m]
    BY <1>9 DEF FinishFunctors, TypeOK
  <2>3. ~HeldIn(<<>>, d)
    BY DEF HeldIn
  <2>4. HeldNext => HeldNow
    BY <2>1, <2>2, <2>3 DEF HeldNow, HeldNext
  <2>5. QED
    BY <1>4, <2>1, <2>4
<1>10. ASSUME NEW c \in Conn, RemoveConnectionInLoop(c)
       PROVE  Kept(d)
  <2>1. /\ Runs("main", "removeConnectionInLoop", c)
        /\ Push("io", "connectDestoryed", c) /\ UNCHANGED batch
        /\ connections_' \subseteq connections_ /\ UNCHANGED idle
    BY <1>10 DEF RemoveConnectionInLoop, Runs
  <2>2. HeldNext => HeldNow \/ c = d
    BY <1>6, <2>1 DEF FunctorName
  <2>3. Holds(Fn("removeConnectionInLoop", c), c)
    BY DEF Holds, Fn
  <2>4. Kept(c)
    BY <1>6, <2>1, <2>3, RunsHeld
  <2>5. QED
    BY <1>4, <2>1, <2>2, <2>4
<1>11. ASSUME NEW c \in Conn, AddTimerInloop(c)
       PROVE  Kept(d)
  BY <1>7, <1>11 DEF AddTimerInloop, Runs
<1>12. CASE ResetIdle \/ TestShutdown
  <2>1. UNCHANGED <<queue, batch, connections_>> /\ (idle' = NotIdle \/ idle'.c = idle.c)
    BY <1>12 DEF ResetIdle, TestShutdown, TypeOK, NotIdle
  <2>2. idle'.c = d => idle.c = d
    BY <2>1, BoundAssumption DEF NotIdle
  <2>3. QED
    BY <1>4, <1>5, <2>1, <2>2
<1>13. CASE SetShutdown
  <2>1. /\ Push("io", "shutdownInloop", idle.c) /\ UNCHANGED <<batch, connections_>>
        /\ idle.c \in Conn /\ idle' = NotIdle
    BY <1>13 DEF SetShutdown, TypeOK, NotIdle
  <2>2. HeldNext => HeldNow
    BY <1>6, <2>1 DEF FunctorName
  <2>3. idle'.c # d
    BY <2>1, BoundAssumption DEF NotIdle
  <2>4. QED
    BY <1>4, <2>1, <2>2, <2>3
<1>14. ASSUME NEW c \in Conn, ConnectEstablished(c)
       PROVE  Kept(d)
  <2>1. /\ Push("main", "AddTimerInloop", c) /\ UNCHANGED <<batch, connections_, idle>>
    BY <1>14 DEF ConnectEstablished, Runs
  <2>2. HeldNext => HeldNow
    BY <1>6, <2>1 DEF FunctorName
  <2>3. QED
    BY <1>4, <2>1, <2>2
<1>15. ASSUME NEW c \in Conn, ConnectDestoryed(c) \/ RunShutdownInloop(c)
       PROVE  Kept(d)
  BY <1>7, <1>15 DEF ConnectDestoryed, RunShutdownInloop, Runs
<1>16. ASSUME NEW c \in Conn, HandleClose(c)
       PROVE  Kept(d)
  <2>1. /\ Push("main", "removeConnectionInLoop", c) /\ UNCHANGED <<batch, connections_, idle>>
        /\ <<c, "IN">> \in active
    BY <1>16 DEF HandleClose, Handles
  <2>2. HeldNext => HeldNow \/ c = d
    BY <1>6, <2>1 DEF FunctorName
  <2>3. c \in connections_
    BY <2>1, WhereInLife DEF LifeInvariant, InHand, Open
  <2>4. QED
    BY <1>4, <2>1, <2>2, <2>3
<1>17. ASSUME NEW c \in Conn, NewConnection(c)
       PROVE  Kept(d)
  <2>1. /\ Push("io", "connectEstablished", c) /\ UNCHANGED <<batch, idle>>
        /\ connections_' = connections_ \union {c} /\ c # d
    BY <1>17 DEF NewConnection
  <2>2. HeldNext => HeldNow
    BY <1>6, <2>1 DEF FunctorName
  <2>3. QED
    BY <1>4, <2>1, <2>2
<1>18. ASSUME NEW c \in Conn, LockIdle(c)
       PROVE  Kept(d)
  <2>1. UNCHANGED <<queue, batch, connections_>> /\ (idle'.c = d => Alive(d))
    BY <1>18, BoundAssumption DEF LockIdle, NotIdle
  <2>2. QED
    BY <1>4, <1>5, <2>1, AliveIsKept
<1>19. CASE Respond \/ PollIo \/ UNCHANGED vars
  BY <1>7, <1>19 DEF Respond, PollIo, vars
<1>20. ASSUME NEW c \in Conn, HandleMessage(c) \/ HandleError(c) \/ HandleWrite(c)
       PROVE  Kept(d)
  BY <1>7, <1>20 DEF HandleMessage, HandleError, HandleWrite
<1>21. ASSUME NEW c \in Conn, PeerSends(c) \/ PeerCloses(c)
       PROVE  Kept(d)
  BY <1>7, <1>21 DEF PeerSends, PeerCloses
<1>22. QED
  BY <1>6, <1>8, <1>9, <1>10, <1>11, <1>12, <1>13, <1>14, <1>15, <1>16, <1>17, <1>18,
     <1>19, <1>20, <1>21 DEF Next, MainStep, IoStep

\* The state that the user sees.
Made == {c \in Conn : Created(c)}

Living == {c \in Conn : Alive(c)}

Reading == {c \in Conn : <<c, "IN">> \in active}

Answering == {c \in Conn : request.c = c}

Watched == {c \in Conn : conn[c].index # "kNew"}

\* What the operations on a connection do to the index of its channel.
LEMMA IndexEffect ==
    ASSUME NEW k \in TcpConnection
    PROVE  /\ ShutdownInloop(k).index = k.index
           /\ Shutdown(k).index = k.index
           /\ \A e \in {"IN", "OUT"} : EnableEvent(k, e).index = "kAdded"
           /\ k.index # "kNew" => \A j \in Send(k) : j.index # "kNew"
           /\ DisableWriting(k).index # "kNew"
           /\ Closed(k).index # "kNew"
           /\ RemoveChannel(k).index = "kNew"
<1>1. \A j \in TcpConnection : ShutdownInloop(j).index = j.index
  BY DEF ShutdownInloop, ShutdownWrite, TcpConnection
<1>2. Shutdown(k).index = k.index
  <2> DEFINE j == [k EXCEPT !.state = "kDisConnecting"]
  <2>1. j \in TcpConnection /\ j.index = k.index
    BY DEF State, TcpConnection
  <2>2. Shutdown(k) = k \/ Shutdown(k) = ShutdownInloop(j)
    BY DEF Shutdown
  <2> HIDE DEF j
  <2>3. QED
    BY <1>1, <2>1, <2>2
<1>3. \A j \in TcpConnection, e \in {"IN", "OUT"} : EnableEvent(j, e).index = "kAdded"
  <2> SUFFICES ASSUME NEW j \in TcpConnection, NEW e \in {"IN", "OUT"}
               PROVE  EnableEvent(j, e).index = "kAdded"
    OBVIOUS
  <2>1. EnableEvent(j, e) = [j EXCEPT !.events = j.events \union {e}, !.index = "kAdded"]
    BY EventEffect
  <2>2. QED
    BY <2>1 DEF TcpConnection
<1>4. k.index # "kNew" => \A j \in Send(k) : j.index # "kNew"
  <2> DEFINE u == [k EXCEPT !.unsent = TRUE]
             v == [k EXCEPT !.lost = TRUE]
  <2>1. u \in TcpConnection /\ v.index = k.index
    BY DEF TcpConnection
  <2>2. \A j \in Send(k) : j = k \/ j = v \/ j = EnableEvent(u, "OUT")
    BY DEF Send
  <2> HIDE DEF u, v
  <2>3. QED
    BY <1>3, <2>1, <2>2
<1>5. DisableWriting(k).index # "kNew" /\ RemoveChannel(k).index = "kNew"
  BY DEF DisableWriting, UpdateChannel, RemoveChannel, TcpConnection
<1>6. Closed(k).index # "kNew"
  <2> DEFINE j == DisableAll([k EXCEPT !.state = "kdisConnected"])
  <2>1. j \in TcpConnection
    <3>1. [k EXCEPT !.state = "kdisConnected"] \in TcpConnection
      BY FieldType DEF State
    <3>2. QED
      BY <3>1, EventEffect
  <2>2. j.index # "kNew"
    BY DEF DisableAll, UpdateChannel, TcpConnection
  <2> HIDE DEF j
  <2>3. Calls(j, "offline").index = j.index
    BY <2>1 DEF Calls, TcpConnection
  <2>4. QED
    BY <2>2, <2>3 DEF Closed, j
<1>7. QED
  BY <1>1, <1>2, <1>3, <1>4, <1>5, <1>6

\* connectEstablished makes the channel known to the epoller, connectDestoryed
\* makes it forgotten, and no other step does either.
LEMMA WhoWatches ==
    ASSUME TypeOK, LifeInvariant, [Next]_vars
    PROVE  /\ \A c \in Conn : ConnectEstablished(c) => Watched' = Watched \union {c}
           /\ \A c \in Conn : ConnectDestoryed(c) => Watched' = Watched \ {c}
           /\ \A c \in Conn : HandleMessage(c) \/ HandleClose(c) \/ HandleError(c)
                                \/ NewConnection(c) => Watched' = Watched
           /\ Respond \/ PollIo => Watched' = Watched
           /\ \/ \E c \in Conn : ConnectEstablished(c) \/ ConnectDestoryed(c)
              \/ Watched' = Watched
<1> USE DEF loopVars, ioVars, mainVars
<1>0. \A d \in Conn : conn[d] \in TcpConnection /\ Stage(d)
  BY DEF TypeOK, LifeInvariant
<1>1. ASSUME NEW d \in Conn, NEW k, conn' = [conn EXCEPT ![d] = k]
      PROVE  Watched' = IF k.index # "kNew" THEN Watched \union {d} ELSE Watched \ {d}
  BY <1>1 DEF TypeOK, Watched
<1>2. ASSUME NEW d \in Conn, NEW k, conn' = [conn EXCEPT ![d] = k],
             k.index = conn[d].index \/ (k.index # "kNew" /\ conn[d].index # "kNew")
      PROVE  Watched' = Watched
  BY <1>2 DEF TypeOK, Watched
<1>3. ASSUME UNCHANGED conn
      PROVE  Watched' = Watched
  BY <1>3 DEF Watched
<1>4. ASSUME ResetIdle
      PROVE  Watched' = Watched
  <2>1. PICK d \in Conn : d = idle.c
    BY <1>4 DEF ResetIdle, TypeOK, NotIdle
  <2> DEFINE k == [conn[d] EXCEPT !.recent = FALSE]
  <2>2. k.index = conn[d].index
    BY <1>0 DEF TcpConnection
  <2>3. conn' = [conn EXCEPT ![d] = k]
    BY <1>4, <2>1 DEF ResetIdle
  <2> HIDE DEF k
  <2>4. QED
    BY <1>2, <2>2, <2>3
<1>5. ASSUME SetShutdown
      PROVE  Watched' = Watched
  <2>1. PICK d \in Conn : d = idle.c
    BY <1>5 DEF SetShutdown, TypeOK, NotIdle
  <2> DEFINE k == [conn[d] EXCEPT !.state = "kDisConnecting"]
  <2>2. k.index = conn[d].index
    BY <1>0 DEF TcpConnection
  <2>3. conn' = [conn EXCEPT ![d] = k]
    BY <1>5, <2>1 DEF SetShutdown
  <2> HIDE DEF k
  <2>4. QED
    BY <1>2, <2>2, <2>3
<1>6. ASSUME NEW d \in Conn, ConnectEstablished(d)
      PROVE  Watched' = Watched \union {d}
  <2> DEFINE j == EnableEvent([conn[d] EXCEPT !.state = "kConnected"], "IN")
             k == Calls(j, "online")
  <2>1. [conn[d] EXCEPT !.state = "kConnected"] \in TcpConnection
    BY <1>0, FieldType DEF State
  <2>2. j \in TcpConnection /\ j.index = "kAdded"
    BY <2>1, EventEffect, IndexEffect
  <2>3. conn' = [conn EXCEPT ![d] = k]
    BY <1>6 DEF ConnectEstablished
  <2> HIDE DEF j
  <2>4. k.index # "kNew"
    BY <2>2 DEF Calls, TcpConnection
  <2> HIDE DEF k
  <2>5. QED
    BY <1>1, <2>3, <2>4
<1>7. ASSUME NEW d \in Conn, ConnectDestoryed(d)
      PROVE  Watched' = Watched \ {d}
  <2> DEFINE j == IF conn[d].state = "kConnected" THEN Closed(conn[d]) ELSE conn[d]
             k == RemoveChannel(j)
  <2>1. j \in TcpConnection
    BY <1>0, OperationType
  <2>2. conn' = [conn EXCEPT ![d] = k]
    BY <1>7 DEF ConnectDestoryed
  <2> HIDE DEF j
  <2>3. k.index = "kNew"
    BY <2>1, IndexEffect
  <2> HIDE DEF k
  <2>4. QED
    BY <1>1, <2>2, <2>3
<1>8. ASSUME NEW d \in Conn, RunShutdownInloop(d)
      PROVE  Watched' = Watched
  <2> DEFINE k == ShutdownInloop(conn[d])
  <2>1. k.index = conn[d].index
    BY <1>0, IndexEffect
  <2>2. conn' = [conn EXCEPT ![d] = k]
    BY <1>8 DEF RunShutdownInloop
  <2> HIDE DEF k
  <2>3. QED
    BY <1>2, <2>1, <2>2
<1>9. \A d \in Conn : <<d, "IN">> \in active => conn[d].index = "kAdded"
  BY DEF LifeInvariant, InHand
<1>10. ASSUME NEW d \in Conn, HandleMessage(d)
       PROVE  Watched' = Watched
  <2> DEFINE j == [conn[d] EXCEPT !.recent = TRUE]
  <2>1. conn[d].index = "kAdded"
    BY <1>9, <1>10 DEF HandleMessage, Handles
  <2>2. j \in TcpConnection /\ j.index = "kAdded"
    BY <1>0, <2>1 DEF TcpConnection
  <2>3. \/ conn' = [conn EXCEPT ![d] = j]
        \/ \E k \in Send(j) : conn' = [conn EXCEPT ![d] = Shutdown(k)]
    BY <1>10 DEF HandleMessage
  <2> HIDE DEF j
  <2>4. \A k \in Send(j) : Shutdown(k).index # "kNew"
    <3>1. j.index # "kNew"
      BY <2>2
    <3>2. Send(j) \subseteq TcpConnection
      BY <2>2, OperationType
    <3>3. \A k \in Send(j) : k.index # "kNew"
      BY <2>2, <3>1, IndexEffect, Zenon
    <3>4. \A k \in TcpConnection : Shutdown(k).index = k.index
      BY IndexEffect, Zenon
    <3>5. QED
      BY <3>2, <3>3, <3>4
  <2>5. CASE conn' = [conn EXCEPT ![d] = j]
    BY <1>2, <2>1, <2>2, <2>5
  <2>6. CASE \E k \in Send(j) : conn' = [conn EXCEPT ![d] = Shutdown(k)]
    <3>1. PICK k \in Send(j) : conn' = [conn EXCEPT ![d] = Shutdown(k)]
      BY <2>6
    <3> DEFINE m == Shutdown(k)
    <3>2. m.index # "kNew" /\ conn' = [conn EXCEPT ![d] = m]
      BY <2>4, <3>1
    <3> HIDE DEF m
    <3>3. QED
      BY <1>2, <2>1, <3>2
  <2>7. QED
    BY <2>3, <2>5, <2>6
<1>11. ASSUME NEW d \in Conn, HandleClose(d)
       PROVE  Watched' = Watched
  <2> DEFINE k == Closed(conn[d])
  <2>1. conn[d].index = "kAdded"
    BY <1>9, <1>11 DEF HandleClose, Handles
  <2>2. k.index # "kNew"
    BY <1>0, IndexEffect
  <2>3. conn' = [conn EXCEPT ![d] = k]
    BY <1>11 DEF HandleClose
  <2> HIDE DEF k
  <2>4. QED
    BY <1>2, <2>1, <2>2, <2>3
<1>12. ASSUME NEW d \in Conn, HandleWrite(d)
       PROVE  Watched' = Watched
  <2> DEFINE u == [conn[d] EXCEPT !.unsent = FALSE]
             j == DisableWriting(u)
             k == IF j.state = "kDisConnecting" THEN ShutdownInloop(j) ELSE j
  <2>1. u \in TcpConnection
    BY <1>0 DEF TcpConnection
  <2>2. UNCHANGED conn \/ (IsWriting(conn[d]) /\ conn' = [conn EXCEPT ![d] = k])
    BY <1>12 DEF HandleWrite
  <2> HIDE DEF u
  <2>3. j \in TcpConnection /\ j.index # "kNew"
    BY <2>1, EventEffect, IndexEffect
  <2> HIDE DEF j
  <2>4. k.index # "kNew"
    BY <2>3, IndexEffect
  <2> HIDE DEF k
  <2>5. IsWriting(conn[d]) => conn[d].index # "kNew"
    BY <1>0, WhereInLife DEF Open, Serving
  <2>6. QED
    BY <1>2, <1>3, <2>2, <2>4, <2>5
<1>13. ASSUME Respond
       PROVE  Watched' = Watched
  <2>1. PICK d \in Conn : d = request.c
    BY <1>13 DEF Respond, TypeOK
  <2>2. conn[d].index = "kAdded"
    BY <1>13, <2>1 DEF Respond, LifeInvariant, InHand
  <2>3. PICK j \in Send(conn[d]) \union {conn[d]} :
           conn' = [conn EXCEPT ![d] = IF request.close THEN Shutdown(j) ELSE j]
    BY <1>13, <2>1 DEF Respond
  <2>4. j \in TcpConnection /\ j.index # "kNew"
    BY <1>0, <2>2, OperationType, IndexEffect
  <2>5. Shutdown(j).index # "kNew"
    BY <2>4, IndexEffect
  <2>6. PICK k : k.index # "kNew" /\ conn' = [conn EXCEPT ![d] = k]
    BY <2>3, <2>4, <2>5
  <2>7. QED
    BY <1>2, <2>2, <2>6
<1>14. ASSUME NEW d \in Conn, NewConnection(d)
       PROVE  Watched' = Watched
  <2> DEFINE k == [conn[d] EXCEPT !.state = "kConnecting"]
  <2>1. k.index = conn[d].index
    BY <1>0 DEF TcpConnection
  <2>2. conn' = [conn EXCEPT ![d] = k]
    BY <1>14 DEF NewConnection
  <2> HIDE DEF k
  <2>3. QED
    BY <1>2, <2>1, <2>2
<1>15. ASSUME UNCHANGED vars
       PROVE  Watched' = Watched
  BY <1>3, <1>15 DEF vars
<1>16. /\ \A d \in Conn : HandleError(d) => Watched' = Watched
       /\ PollIo => Watched' = Watched
  BY <1>3 DEF HandleError, PollIo
<1>17. \/ \E c \in Conn : ConnectEstablished(c) \/ ConnectDestoryed(c)
       \/ Watched' = Watched
  BY <1>3, <1>4, <1>5, <1>8, <1>10, <1>11, <1>12, <1>13, <1>14, <1>15, <1>16
     DEF Next, MainStep, IoStep, SwapFunctors, FinishFunctors, RemoveConnectionInLoop,
         AddTimerInloop, TestShutdown, LockIdle, PeerSends, PeerCloses
<1>18. QED
  BY <1>6, <1>7, <1>10, <1>11, <1>13, <1>14, <1>16, <1>17

\* A step that lets go of nothing keeps alive what was.
LEMMA KeptAlive ==
    ASSUME TypeOK, TypeOK', LifeInvariant, LifeInvariant', [Next]_vars,
           connections_' = connections_, idle' = idle, batch' = batch,
           \/ queue' = queue
           \/ \E l \in Loop, f \in FunctorName, c \in Conn : Push(l, f, c),
           ~ \E c \in Conn : NewConnection(c)
    PROVE  Made' = Made /\ Living' = Living
<1>1. \A d \in Conn : Created(d)' <=> Created(d)
  BY WhoCreates
<1>2. ASSUME NEW d \in Conn, Alive(d)
      PROVE  Alive(d)'
  <2>1. Created(d) /\ Kept(d)
    BY <1>2, AliveIsKept
  <2>2. (\E m \in Loop : HeldIn(queue[m], d) \/ HeldIn(batch[m], d))
          => \E m \in Loop : HeldIn(queue'[m], d) \/ HeldIn(batch'[m], d)
    BY PushHolds
  <2>3. Kept(d)'
    BY <2>1, <2>2 DEF Kept
  <2>4. QED
    BY <1>1, <2>1, <2>3 DEF Alive, Kept, HeldIn
<1>3. ASSUME NEW d \in Conn, Alive(d)'
      PROVE  Alive(d)
  BY <1>3, NeverRevived
<1>4. QED
  BY <1>1, <1>2, <1>3 DEF Made, Living

\* What the loops are about to read or answer is online.
LEMMA InHandIsOnline ==
    ASSUME TypeOK, LifeInvariant, NEW c \in Reading \union Answering
    PROVE  c \in Living /\ Told[c] = <<"online">>
<1>1. c \in Conn /\ conn[c].index = "kAdded"
  BY BoundAssumption DEF Reading, Answering, LifeInvariant, InHand, NoRequest
<1>2. Open(c) /\ Stage(c)
  BY <1>1, WhereInLife DEF LifeInvariant
<1>3. conn[c].callbacks = <<"online">> /\ Created(c) /\ c \in connections_
  BY <1>1, <1>2, ToldInLife
<1>4. QED
  BY <1>1, <1>3 DEF Living, Alive, Told

\* A loop that runs functors or polls has nothing left to read or to answer.
LEMMA NothingInHand ==
    ASSUME LifeInvariant, phase["io"] # "dispatch"
    PROVE  Reading = {} /\ Answering = {}
<1>1. active = {} /\ request = NoRequest
  BY DEF LifeInvariant, Phases
<1>2. QED
  BY <1>1, BoundAssumption DEF Reading, Answering, NoRequest

\* A step that the user does not see may release connections that are told
\* offline, and no others.
LEMMA UnseenReleases ==
    ASSUME TypeOK, TypeOK', LifeInvariant, LifeInvariant', ReleasedIsFinished', [Next]_vars,
           Made' = Made, Told' = Told, Watched' = Watched
    PROVE  \E S \in SUBSET Living :
              /\ \A c \in S : Told[c] = <<"online", "offline">> /\ c \notin Watched
              /\ Living' = Living \ S
<1> DEFINE S == Living \ Living'
<1>1. Living' \subseteq Living
  <2>1. ASSUME NEW d \in Conn, Alive(d)'
        PROVE  Alive(d)
    <3>1. ~NewConnection(d)
      <4>1. Created(d)' <=> Created(d)
        BY DEF Made
      <4>2. QED
        BY <4>1, WhoCreates DEF NewConnection, Accepts
    <3>2. QED
      BY <2>1, <3>1, NeverRevived
  <2>2. QED
    BY <2>1 DEF Living
<1>2. ASSUME NEW c \in S
      PROVE  Told[c] = <<"online", "offline">> /\ c \notin Watched
  <2>1. c \in Conn /\ Created(c) /\ ~Alive(c)'
    BY <1>2 DEF Living, Alive
  <2>2. Created(c)'
    BY <2>1, WhoCreates
  <2>3. conn'[c].callbacks = <<"online", "offline">> /\ conn'[c].index = "kNew"
    BY <2>1, <2>2 DEF ReleasedIsFinished
  <2>4. Told'[c] = conn'[c].callbacks /\ c \notin Watched'
    BY <2>1, <2>3 DEF Told, Watched
  <2>5. QED
    BY <2>3, <2>4
<1>3. S \in SUBSET Living /\ Living' = Living \ S
  BY <1>1
<1>4. QED
  BY <1>2, <1>3

(***************************************************************************)
(* Every step of the loops and the peers is a step of what the user of a   *)
(* TcpServer relies on, or the user does not see it: online and offline    *)
(* once each and in order, messages and answers only in between, and a     *)
(* released connection never used again (TcpConnection.cc:30-78, 148-155,  *)
(* httpServer.cc:25-115).                                                  *)
(***************************************************************************)
THEOREM ImplementsCallbacksHolds == Spec => ImplementsCallbacks
<1> USE DEF loopVars, ioVars, mainVars
<1>1. Init => Callbacks!Init
  <2> SUFFICES ASSUME Init
               PROVE  Callbacks!Init
    OBVIOUS
  <2>1. \A c \in Conn : ~Created(c) /\ conn[c].callbacks = <<>> /\ conn[c].index = "kNew"
    BY DEF Init, Created
  <2>2. active = {} /\ request.c = "none"
    BY DEF Init, NoRequest
  <2>3. QED
    BY <2>1, <2>2, BoundAssumption DEF Callbacks!Init, Alive
<1>2. TypeOK /\ TypeOK' /\ LifeInvariant /\ LifeInvariant' /\ ReleasedIsFinished'
        /\ [Next]_vars => [Callbacks!Next]_(Callbacks!vars)
  <2> SUFFICES ASSUME TypeOK, TypeOK', LifeInvariant, LifeInvariant', ReleasedIsFinished',
                      [Next]_vars
               PROVE  [Callbacks!Next]_(Callbacks!vars)
    OBVIOUS
  <2> DEFINE Unseen == /\ Told' = Told /\ Watched' = Watched
                       /\ Reading' = Reading /\ Answering' = Answering
             Stays == Made' = Made /\ Living' = Living
             New == \E c \in Conn : NewConnection(c)
  <2>0. /\ active \subseteq Conn \X {"IN", "OUT"}
        /\ \A f \in LifeFunctor \union {"AddTimerInloop"} : f \in FunctorName
        /\ \A c \in Conn : Stage(c)
        /\ "main" \in Loop /\ "io" \in Loop
    BY DEF TypeOK, LifeInvariant, Loop, LifeFunctor, FunctorName
  <2>1. ASSUME NEW c \in Conn, NewConnection(c)
        PROVE  Callbacks!Accept(c)
    <3>1. /\ ~Created(c) /\ UNCHANGED <<active, request, batch, idle>>
          /\ connections_' = connections_ \union {c}
          /\ Push("io", "connectEstablished", c)
          /\ \A d \in Conn : d # c => ~NewConnection(d)
      <4>1. /\ ~Created(c) /\ UNCHANGED <<active, request, batch, idle>>
            /\ connections_' = connections_ \union {c}
            /\ Push("io", "connectEstablished", c)
        BY <2>1 DEF NewConnection, Accepts
      <4>2. ASSUME NEW d \in Conn, NewConnection(d), d # c
            PROVE  FALSE
        <5>1. conn'[d].state = "kConnecting" /\ conn[d].state = "none"
          BY <4>2 DEF NewConnection, Accepts, Created, TypeOK, TcpConnection
        <5>2. conn'[d] = conn[d]
          BY <2>1, <4>2 DEF NewConnection
        <5>3. QED
          BY <5>1, <5>2
      <4>3. QED
        BY <4>1, <4>2
    <3>2. Made' = Made \union {c}
      BY <2>1, <3>1, WhoCreates DEF Made
    <3>3. Living' = Living \union {c}
      <4>1. ASSUME NEW d \in Conn, Alive(d)
            PROVE  Alive(d)'
        <5>1. Created(d) /\ Kept(d)
          BY <4>1, AliveIsKept
        <5>2. (\E m \in Loop : HeldIn(queue[m], d) \/ HeldIn(batch[m], d))
                => \E m \in Loop : HeldIn(queue'[m], d) \/ HeldIn(batch'[m], d)
          BY <2>0, <3>1, PushHolds DEF LifeFunctor
        <5>3. Created(d)' /\ Kept(d)'
          BY <3>1, <5>1, <5>2, WhoCreates DEF Kept
        <5>4. QED
          BY <5>3 DEF Alive, Kept, HeldIn
      <4>2. Alive(c)'
        BY <3>1, <2>1, WhoCreates DEF Alive
      <4>3. \A d \in Conn \ {c} : Alive(d)' => Alive(d)
        BY <3>1, NeverRevived
      <4>4. QED
        BY <4>1, <4>2, <4>3 DEF Living
    <3>4. Told' = Told
      <4>1. \A d \in Conn : conn'[d].callbacks = conn[d].callbacks
        BY <2>1 DEF NewConnection, TypeOK, TcpConnection
      <4>2. QED
        BY <4>1 DEF Told
    <3>5. Watched' = Watched
      BY <2>1, WhoWatches
    <3>6. QED
      BY <3>1, <3>2, <3>3, <3>4, <3>5 DEF Callbacks!Accept, Made, Living, Told, Watched
  <2>2. ASSUME NEW c \in Conn, ConnectEstablished(c), ~New
        PROVE  Callbacks!TellOnline(c)
    <3>1. /\ Runs("io", "connectEstablished", c) /\ Push("main", "AddTimerInloop", c)
          /\ UNCHANGED <<active, request, connections_, idle, batch>>
      BY <2>2 DEF ConnectEstablished, Runs
    <3>2. Made' = Made /\ Living' = Living
      BY <2>0, <2>2, <3>1, KeptAlive
    <3>3. Opening(c)
      BY <2>0, <3>1, RunsWaiting, WhereInLife DEF LifeFunctor, LoopOf
    <3>4. conn[c].callbacks = <<>> /\ Created(c) /\ c \in connections_
      BY <2>0, <3>3, ToldInLife DEF Opening
    <3>5. c \in Living
      BY <3>4 DEF Living, Alive
    <3>6. Told' = [Told EXCEPT ![c] = <<"online">>]
      <4>1. Told[c] = <<>> /\ Append(<<>>, "online") = <<"online">>
        BY <3>4 DEF Told
      <4>2. QED
        BY <2>2, <4>1, WhoTells DEF TellsOnline
    <3>7. Reading = {} /\ Answering = {}
      BY <3>1, NothingInHand DEF Runs
    <3>8. Watched' = Watched \union {c}
      BY <2>2, WhoWatches
    <3>9. QED
      BY <3>1, <3>2, <3>4, <3>5, <3>6, <3>7, <3>8
         DEF Callbacks!TellOnline, Made, Living, Told, Watched, Reading, Answering
  <2>3. ASSUME NEW c \in Conn, HandleClose(c), ~New
        PROVE  Callbacks!TellOffline(c)
    <3>1. /\ <<c, "IN">> \in active /\ active' = active \ {<<c, "IN">>}
          /\ request = NoRequest /\ Push("main", "removeConnectionInLoop", c)
          /\ UNCHANGED <<request, connections_, idle, batch>>
      BY <2>3 DEF HandleClose, Handles
    <3>2. Made' = Made /\ Living' = Living
      BY <2>0, <2>3, <3>1, KeptAlive DEF LifeFunctor
    <3>3. c \in Reading /\ Reading' = Reading \ {c} /\ Answering = {}
      BY <3>1, BoundAssumption DEF Reading, Answering, NoRequest
    <3>4. c \in Living /\ Told[c] = <<"online">>
      BY <3>3, InHandIsOnline
    <3>5. Told' = [Told EXCEPT ![c] = <<"online", "offline">>]
      BY <2>3, <3>4, OnlineThenOffline, WhoTells DEF TellsOffline
    <3>6. Watched' = Watched
      BY <2>3, WhoWatches
    <3>7. QED
      BY <3>1, <3>2, <3>3, <3>4, <3>5, <3>6
         DEF Callbacks!TellOffline, Callbacks!Online, Made, Living, Told, Watched, Reading, Answering
  <2>4. ASSUME PollIo, ~New
        PROVE  \E S \in SUBSET Callbacks!Online : Callbacks!Poll(S)
    <3>1. /\ UNCHANGED <<conn, queue, batch, connections_, idle, request>>
          /\ phase["io"] = "poll"
      BY <2>4 DEF PollIo
    <3>2. Made' = Made /\ Living' = Living /\ Told' = Told /\ Watched' = Watched
      BY <2>4, <3>1, KeptAlive DEF Told, Watched
    <3>3. Reading = {} /\ Answering = {} /\ Answering' = Answering
      BY <3>1, NothingInHand DEF Answering
    <3>4. \A c \in Reading' : c \in Living /\ Told[c] = <<"online">>
      <4>1. ASSUME NEW c \in Reading'
            PROVE  c \in Living /\ Told[c] = <<"online">>
        <5>1. c \in Conn /\ conn[c].index = "kAdded"
          BY <3>1, <4>1 DEF Reading, LifeInvariant, InHand
        <5>2. conn[c].callbacks = <<"online">> /\ Created(c) /\ c \in connections_
          BY <2>0, <5>1, WhereInLife, ToldInLife
        <5>3. QED
          BY <5>1, <5>2 DEF Living, Alive, Told
      <4>2. QED
        BY <4>1
    <3>5. PICK S : S = Reading'
      OBVIOUS
    <3>6. S \in SUBSET Callbacks!Online
      BY <3>4, <3>5 DEF Callbacks!Online, Living, Told, Reading
    <3>7. Callbacks!Poll(S)
      BY <3>2, <3>3, <3>5 DEF Callbacks!Poll, Made, Living, Told, Watched, Reading, Answering
    <3>8. QED
      BY <3>6, <3>7
  <2>5. ASSUME NEW c \in Conn, HandleMessage(c) \/ HandleError(c), ~New
        PROVE  Callbacks!Read(c)
    <3>1. /\ <<c, "IN">> \in active /\ active' = active \ {<<c, "IN">>}
          /\ request = NoRequest
          /\ request' = request \/ request'.c = c
          /\ UNCHANGED <<queue, connections_, idle, batch>>
      BY <2>5 DEF HandleMessage, HandleError, Handles
    <3>2. Made' = Made /\ Living' = Living
      BY <2>5, <3>1, KeptAlive
    <3>3. c \in Reading /\ Reading' = Reading \ {c} /\ Answering = {} /\ Answering' \in {{}, {c}}
      BY <3>1, BoundAssumption DEF Reading, Answering, NoRequest
    <3>4. c \in Living /\ Told[c] = <<"online">>
      BY <3>3, InHandIsOnline
    <3>5. Told' = Told /\ Watched' = Watched
      BY <2>5, WhoTells, WhoWatches
    <3>6. QED
      BY <3>2, <3>3, <3>4, <3>5
         DEF Callbacks!Read, Callbacks!Online, Made, Living, Told, Watched, Reading, Answering
  <2>6. ASSUME Respond, ~New
        PROVE  \E c \in Conn : Callbacks!Answer(c)
    <3>0. PICK c \in Conn : c = request.c
      BY <2>6 DEF Respond, TypeOK
    <3>1. /\ request' = NoRequest
          /\ UNCHANGED <<queue, connections_, idle, batch, active>>
      BY <2>6 DEF Respond
    <3>2. Made' = Made /\ Living' = Living
      BY <2>6, <3>1, KeptAlive
    <3>3. Answering = {c} /\ Answering' = {} /\ Reading' = Reading
      BY <3>0, <3>1, BoundAssumption DEF Reading, Answering, NoRequest
    <3>4. c \in Living /\ Told[c] = <<"online">>
      BY <3>3, InHandIsOnline
    <3>5. Told' = Told /\ Watched' = Watched
      BY <2>6, WhoTells, WhoWatches
    <3>6. Callbacks!Answer(c)
      BY <3>1, <3>2, <3>3, <3>4, <3>5
         DEF Callbacks!Answer, Callbacks!Online, Made, Living, Told, Watched, Reading, Answering
    <3>7. QED
      BY <3>6
  <2>7. ASSUME Unseen, ~New
        PROVE  \E S \in SUBSET Living : Callbacks!Release(S)
    <3>1. Made' = Made
      BY <2>7, WhoCreates DEF Made
    <3>2. PICK S \in SUBSET Living :
             /\ \A c \in S : Told[c] = <<"online", "offline">> /\ c \notin Watched
             /\ Living' = Living \ S
      BY <2>7, <3>1, UnseenReleases
    <3>3. Callbacks!Release(S)
      BY <2>7, <3>1, <3>2 DEF Callbacks!Release, Made, Living, Told, Watched, Reading, Answering
    <3>4. QED
      BY <3>3
  <2>8. ASSUME ~New, ~PollIo, ~Respond,
               \A c \in Conn : /\ ~ConnectEstablished(c) /\ ~ConnectDestoryed(c)
                               /\ ~HandleClose(c) /\ ~HandleMessage(c) /\ ~HandleError(c)
        PROVE  Unseen
    <3>1. Told' = Told /\ Watched' = Watched
      BY <2>8, WhoTells, WhoWatches DEF TellsOnline, TellsOffline
    <3>2. \A c \in Conn : HandleWrite(c) =>
             request' = request /\ active' = active \ {<<c, "OUT">>}
      BY DEF HandleWrite, Handles
    <3>3. \A c \in Conn : HandleWrite(c) => Reading' = Reading /\ Answering' = Answering
      BY <3>2 DEF Reading, Answering
    <3>4. UNCHANGED <<active, request>> => Reading' = Reading /\ Answering' = Answering
      BY DEF Reading, Answering
    <3>5. QED
      BY <2>8, <3>1, <3>3, <3>4
         DEF Next, MainStep, IoStep, SwapFunctors, FinishFunctors, RemoveConnectionInLoop,
             AddTimerInloop, ResetIdle, TestShutdown, SetShutdown, RunShutdownInloop,
              NewConnection, LockIdle, PeerSends, PeerCloses, vars
  <2>9. ASSUME NEW c \in Conn, ConnectDestoryed(c), ~New
        PROVE  Callbacks!Forget(c)
    <3>1. /\ Runs("io", "connectDestoryed", c)
          /\ UNCHANGED <<queue, active, request, connections_, idle, batch>>
      BY <2>9 DEF ConnectDestoryed, Runs
    <3>2. Made' = Made /\ Living' = Living
      BY <2>9, <3>1, KeptAlive
    <3>3. "connectDestoryed" \in Waiting(c) /\ Removed(c)
      BY <2>0, <3>1, RunsWaiting, WhereInLife DEF LifeFunctor, LoopOf
    <3>4. /\ conn[c].state \notin {"none", "kConnected"} /\ conn[c].index = "kDeleted"
          /\ conn[c].callbacks = <<"online", "offline">>
      BY <3>3 DEF Removed, Over
    <3>5. c \in Living /\ c \in Watched /\ Told[c] = <<"online", "offline">>
      BY <3>3, <3>4, HeldIsAlive DEF Living, Watched, Told, Created
    <3>6. Watched' = Watched \ {c} /\ Reading' = Reading /\ Answering' = Answering
      BY <2>9, <3>1, WhoWatches DEF Reading, Answering
    <3>7. Told' = Told
      <4> DEFINE k == RemoveChannel(conn[c])
      <4>1. k.callbacks = conn[c].callbacks
        BY CallbacksGrow DEF TypeOK
      <4>2. conn' = [conn EXCEPT ![c] = k]
        BY <2>9, <3>4 DEF ConnectDestoryed
      <4> HIDE DEF k
      <4>3. QED
        BY <4>1, <4>2 DEF Told, TypeOK
    <3>8. QED
      BY <3>2, <3>5, <3>6, <3>7
         DEF Callbacks!Forget, Made, Living, Told, Watched, Reading, Answering
  <2>10. QED
    BY <2>1, <2>2, <2>3, <2>4, <2>5, <2>6, <2>7, <2>8, <2>9 DEF Callbacks!Next, Living
<1>3. QED
  BY <1>1, <1>2, TypeCorrect, LifeInvariantHolds, ReleasedIsFinishedHolds, PTL
     DEF Spec, ImplementsCallbacks, Callbacks!Spec

=============================================================================
