---------------------------- MODULE ProxyProofs ----------------------------
(***************************************************************************)
(* Proofs about Proxy for any clients, paths and input: its type           *)
(* invariant, that the loop thread never waits for the writers' semaphore, *)
(* that the two ends of a tunnel match, and what a client's requests are   *)
(* asked and answered with.                                                *)
(***************************************************************************)
EXTENDS Proxy, SequenceTheorems, TLAPS

\* Nothing is read from a client before its tunnel is up, and the tunnel's own
\* connection is not made before the client's.
TunnelFirst ==
    \A c \in Client :
        /\ server[c] = "none" => backend[c] = "none"
        /\ backend[c] \in {"none", "connecting"} => ~reading[c] /\ buffer[c] = << >>

\* A client that shares path_ with nobody finds there what it has stored.
Alone == \A c, d \in Client : c = d

OwnIsPath == Alone => \A c \in Client : own[c] # NoPath => own[c] = path_

\* The line that was refused is the first in the input buffer.
RefusedFirst ==
    \A c \in refused : HasCRLF(buffer[c]) /\ Result(buffer[c]) = "refused"

ProxyInvariant ==
    TypeOK /\ ReadersHoldW /\ TunnelsMatch /\ TunnelFirst /\ OwnIsPath /\ RefusedFirst

----------------------------------------------------------------------------
(* The input *)

\* Any first part of the wire, and what is left of it.
LEMMA WireParts ==
    ASSUME NEW w \in Seq(Token), NEW n \in 1..Len(w)
    PROVE  SubSeq(w, 1, n) \in Seq(Token) /\ SubSeq(w, n + 1, Len(w)) \in Seq(Token)
<1>1. Len(w) \in Nat /\ \A i \in 1..Len(w) : w[i] \in Token
  BY LenProperties, ElementOfSeq
<1>2. SubSeq(w, 1, n) \in Seq(Token)
  <2>1. \A i \in 1..n : w[i] \in Token
    BY <1>1
  <2>2. QED
    BY <1>1, <2>1, SubSeqProperties, SMT
<1>3. SubSeq(w, n + 1, Len(w)) \in Seq(Token)
  <2>1. \A i \in n + 1..Len(w) : w[i] \in Token
    BY <1>1
  <2>2. QED
    BY <1>1, <2>1, SubSeqProperties, SMT
<1>4. QED
  BY <1>2, <1>3

\* What is received is made of tokens.
LEMMA ReceivedType ==
    ASSUME TypeOK, NEW c \in Client, NEW n \in 1..Len(wire[c])
    PROVE  Received(c, n) \in Seq(Token)
<1>1. wire[c] \in Seq(Token) /\ buffer[c] \in Seq(Token)
  BY DEF TypeOK
<1>2. SubSeq(wire[c], 1, n) \in Seq(Token)
  BY <1>1, WireParts
<1>3. QED
  BY <1>1, <1>2, ConcatProperties DEF Received

\* What is received later changes nothing about the first line.
LEMMA FirstLineStays ==
    ASSUME NEW b \in Seq(Token), NEW more \in Seq(Token), HasCRLF(b)
    PROVE  HasCRLF(b \o more) /\ Result(b \o more) = Result(b)
<1>1. /\ Len(b) \in Nat /\ Len(more) \in Nat
      /\ Len(b \o more) = Len(b) + Len(more)
      /\ \A i \in 1..Len(b) : (b \o more)[i] = b[i]
  BY LenProperties, ConcatProperties
<1>2. PICK i \in 1..Len(b) : b[i] = CRLF
  BY DEF HasCRLF, Contains
<1>3. HasCRLF(b \o more)
  <2>1. i \in 1..Len(b \o more) /\ (b \o more)[i] = CRLF
    BY <1>1, <1>2
  <2>2. QED
    BY <2>1 DEF HasCRLF, Contains
<1>4. FirstLine(b \o more) = FirstLine(b)
  <2>1. b # << >> /\ b \o more # << >>
    BY <1>1, <1>2, EmptySeq
  <2>2. Head(b \o more) = (b \o more)[1] /\ Head(b) = b[1]
    BY <2>1
  <2>3. QED
    BY <1>1, <1>2, <2>2 DEF FirstLine
<1>5. QED
  BY <1>3, <1>4 DEF Result

\* A line that the parser reads has a first token.
LEMMA FirstLineType ==
    ASSUME NEW b \in Seq(Token), HasCRLF(b)
    PROVE  FirstLine(b) \in Token
<1>1. b # << >>
  BY EmptySeq, SMT DEF HasCRLF, Contains
<1>2. QED
  BY <1>1, HeadTailProperties DEF FirstLine

\* A GET line has a path and a version.
LEMMA GetType ==
    ASSUME NEW t \in Token, IsGet(t)
    PROVE  t.path \in Path /\ t.version \in Version
BY DEF Token, IsGet

\* ParseRequest keeps the types.
LEMMA ParseKeepsTypes ==
    ASSUME TypeOK, NEW c \in Client, NEW b \in Seq(Token), ParseRequest(c, b)
    PROVE  /\ buffer' \in [Client -> Seq(Token)]
           /\ path_' \in Path \cup {""} /\ version_' \in Version
           /\ own' \in [Client -> Path \cup {NoPath}]
<1>1. Kept(b) \in Seq(Token)
  BY EmptySeq DEF Kept
<1>2. buffer' \in [Client -> Seq(Token)]
  BY <1>1 DEF TypeOK, ParseRequest
<1>3. CASE Reaches(b)
  <2>1. FirstLine(b).path \in Path /\ FirstLine(b).version \in Version
    BY <1>3, FirstLineType, GetType DEF Reaches
  <2>2. QED
    BY <1>2, <1>3, <2>1 DEF ParseRequest, StoredPath, TypeOK
<1>4. CASE ~Reaches(b)
  BY <1>2, <1>4 DEF ParseRequest, TypeOK, request
<1>5. QED
  BY <1>3, <1>4

\* A request line sets path_ and what its client has stored (Proxy.cc:75-96).
LEMMA ParseKeepsOwner ==
    ASSUME TypeOK, OwnIsPath, NEW c \in Client, NEW b \in Seq(Token), ParseRequest(c, b)
    PROVE  OwnIsPath'
<1>1. CASE Reaches(b)
  <2>1. own \in [Client -> Path \cup {NoPath}]
    BY DEF TypeOK
  <2>2. path_' = FirstLine(b).path /\ own' = [own EXCEPT ![c] = FirstLine(b).path]
    BY <1>1 DEF ParseRequest, StoredPath
  <2>3. own'[c] = path_'
    BY <2>1, <2>2
  <2>4. Alone => \A d \in Client : d = c
    BY DEF Alone
  <2>5. Alone' <=> Alone
    BY DEF Alone
  <2>6. QED
    BY <2>3, <2>4, <2>5 DEF OwnIsPath
<1>2. CASE ~Reaches(b)
  BY <1>2 DEF OwnIsPath, ParseRequest, request
<1>3. QED
  BY <1>1, <1>2

----------------------------------------------------------------------------
(* The type invariant *)

\* The reading section leaves the count and the semaphore of the readers in
\* their relation, on both of its ways out.
LEMMA ReadItemKeepsLock ==
    ASSUME TypeOK, ReadersHoldW, NEW hit, ReadItem(hit)
    PROVE  readcnt' \in Nat /\ W' \in {0, 1} /\ ReadersHoldW'
<1>1. readcnt \in Nat /\ W \in {0, 1} /\ (readcnt > 0 => W = 0) /\ (readcnt = 0 => W = 1)
  <2>1. readcnt \in Nat /\ W \in {0, 1}
    BY DEF TypeOK
  <2>2. QED
    BY <2>1 DEF ReadersHoldW
<1>2. \/ readcnt' = readcnt + 1 /\ W' = Enter
      \/ readcnt' = readcnt /\ W' = Leave(Enter)
  BY Zenon DEF ReadItem
<1>3. QED
  BY <1>1, <1>2 DEF ReadersHoldW, Enter, Leave, P, V

\* Answers are of the three kinds.
LEMMA SendType ==
    ASSUME TypeOK, NEW c \in Client, NEW what \in {"cached", "404", "reply"}, Send(c, what)
    PROVE  answers' \in [Client -> Seq({"cached", "404", "reply"})]
<1>1. Append(answers[c], what) \in Seq({"cached", "404", "reply"})
  BY AppendProperties DEF TypeOK
<1>2. QED
  BY <1>1 DEF TypeOK, Send

\* The proxy starts with no readers and W free.
LEMMA InitType == Init => TypeOK /\ ReadersHoldW
<1> SUFFICES ASSUME Init PROVE TypeOK /\ ReadersHoldW
  OBVIOUS
<1>1. wire \in [Client -> Seq(Token)]
  BY ProxyAssumption DEF Init
<1>2. cache \in Seq(Path)
  <2>1. <<CachedPath>> \in Seq(Path) /\ << >> \in Seq(Path)
    BY ProxyAssumption
  <2>2. <<CachedPath>> \o << >> \in Seq(Path)
    BY <2>1, ConcatProperties
  <2>3. QED
    BY <2>1, <2>2 DEF Init, WriteToCache, InitializeCache
<1>3. /\ buffer \in [Client -> Seq(Token)]
      /\ asked \in [Client -> Seq([path : Path \cup {""}, version : Version])]
      /\ answers \in [Client -> Seq({"cached", "404", "reply"})]
  BY EmptySeq DEF Init
<1>4. readcnt \in Nat /\ W \in {0, 1} /\ ReadersHoldW
  <2>1. readcnt = 0 /\ W = 1
    BY DEF Init
  <2>2. QED
    BY <2>1 DEF ReadersHoldW
<1>5. QED
  BY <1>1, <1>2, <1>3, <1>4 DEF Init, TypeOK, Version

\* A step keeps the types, and W with the count of the readers.
LEMMA TypeStep ==
    ASSUME TypeOK, ReadersHoldW, TunnelFirst, [Next]_vars
    PROVE  TypeOK' /\ ReadersHoldW'
<1> USE DEF sockets, tunnel, request, lock, talk
<1>1. ASSUME NEW c \in Client, ServerUp(c)
      PROVE  TypeOK' /\ ReadersHoldW'
  BY <1>1 DEF ServerUp, Connect, TypeOK, ReadersHoldW
<1>2. ASSUME NEW c \in Client, ServerDown(c)
      PROVE  TypeOK' /\ ReadersHoldW'
  BY <1>2 DEF ServerDown, Disconnect, Shut, TypeOK, ReadersHoldW
<1>3. ASSUME NEW c \in Client, NEW n \in 1..Len(wire[c]), Read(c, n)
      PROVE  /\ wire' \in [Client -> Seq(Token)]
             /\ Received(c, n) \in Seq(Token)
             /\ fin' \in [Client -> BOOLEAN] /\ reading' \in [Client -> BOOLEAN]
             /\ context' \in [Client -> BOOLEAN]
             /\ backend' \in [Client -> {"none", "connecting", "connected",
                                         "disconnecting", "disconnected"}]
             /\ tunnels' \subseteq Client
             /\ cache' \in Seq(Path)
  <2>1. SubSeq(wire[c], n + 1, Len(wire[c])) \in Seq(Token)
    BY WireParts DEF TypeOK
  <2>2. QED
    BY <1>3, <2>1, ReceivedType DEF Read, TypeOK
<1>4. ASSUME NEW c \in Client, NEW n \in 1..Len(wire[c]), MessageIgnored(c, n)
      PROVE  TypeOK' /\ ReadersHoldW'
  <2>1. buffer' \in [Client -> Seq(Token)]
    BY <1>3, <1>4 DEF MessageIgnored, TypeOK
  <2>2. QED
    BY <1>3, <1>4, <2>1 DEF MessageIgnored, TypeOK, ReadersHoldW
<1>5. ASSUME NEW c \in Client, NEW n \in 1..Len(wire[c]), RequestLine(c, n)
      PROVE  TypeOK' /\ ReadersHoldW'
  <2>1. /\ buffer' \in [Client -> Seq(Token)]
        /\ path_' \in Path \cup {""} /\ version_' \in Version
        /\ own' \in [Client -> Path \cup {NoPath}]
    BY <1>3, <1>5, ParseKeepsTypes DEF RequestLine
  <2>2. QED
    BY <1>3, <1>5, <2>1 DEF RequestLine, TypeOK, ReadersHoldW
<1>6. ASSUME NEW c \in Client, NEW n \in 1..Len(wire[c]), CacheHit(c, n)
      PROVE  TypeOK' /\ ReadersHoldW'
  <2>1. /\ buffer' \in [Client -> Seq(Token)]
        /\ path_' \in Path \cup {""} /\ version_' \in Version
        /\ own' \in [Client -> Path \cup {NoPath}]
    BY <1>3, <1>6, ParseKeepsTypes DEF CacheHit
  <2>2. readcnt' \in Nat /\ W' \in {0, 1} /\ ReadersHoldW'
    BY <1>6, ReadItemKeepsLock DEF CacheHit
  <2>3. answers' \in [Client -> Seq({"cached", "404", "reply"})]
    BY <1>6, SendType DEF CacheHit
  <2>4. server' \in [Client -> {"none", "connected", "disconnecting", "disconnected"}]
    BY <1>6 DEF CacheHit, Shutdown, Shut, TypeOK
  <2>5. QED
    BY <1>3, <1>6, <2>1, <2>2, <2>3, <2>4 DEF CacheHit, TypeOK
<1>7. ASSUME NEW c \in Client, NEW n \in 1..Len(wire[c]), AskBackend(c, n)
      PROVE  TypeOK' /\ ReadersHoldW'
  <2>1. /\ buffer' \in [Client -> Seq(Token)]
        /\ path_' \in Path \cup {""} /\ version_' \in Version
        /\ own' \in [Client -> Path \cup {NoPath}]
    BY <1>3, <1>7, ParseKeepsTypes DEF AskBackend
  <2>2. readcnt' \in Nat /\ W' \in {0, 1} /\ ReadersHoldW'
    BY <1>7, ReadItemKeepsLock DEF AskBackend
  <2>3. asked' \in [Client -> Seq([path : Path \cup {""}, version : Version])]
    <3> DEFINE question == [path |-> path_,
                            version |-> IF version_ = "1.0" THEN "1.0" ELSE "1.1"]
    <3>1. question \in [path : Path \cup {""}, version : Version]
      BY DEF TypeOK, Version
    <3>2. Append(asked[c], question) \in Seq([path : Path \cup {""}, version : Version])
      BY <3>1, AppendProperties DEF TypeOK
    <3>3. QED
      BY <1>7, <3>2 DEF AskBackend, TypeOK
  <2>4. QED
    BY <1>3, <1>7, <2>1, <2>2, <2>3 DEF AskBackend, TypeOK
<1>8. ASSUME NEW c \in Client, NEW n \in 1..Len(wire[c]), BadRequest(c, n)
      PROVE  TypeOK' /\ ReadersHoldW'
  <2>1. /\ buffer' \in [Client -> Seq(Token)]
        /\ path_' \in Path \cup {""} /\ version_' \in Version
        /\ own' \in [Client -> Path \cup {NoPath}]
    BY <1>3, <1>8, ParseKeepsTypes DEF BadRequest
  <2>2. answers' \in [Client -> Seq({"cached", "404", "reply"})]
    BY <1>8, SendType DEF BadRequest
  <2>3. QED
    BY <1>3, <1>8, <2>1, <2>2 DEF BadRequest, TypeOK, ReadersHoldW
<1>9. ASSUME NEW c \in Client, ClientUp(c)
      PROVE  TypeOK' /\ ReadersHoldW'
  <2>1. UNCHANGED <<asked, buffer>>
    BY <1>9 DEF ClientUp, TunnelFirst
  <2>2. QED
    BY <1>9, <2>1 DEF ClientUp, StartRead, TypeOK, ReadersHoldW
<1>10. ASSUME NEW c \in Client, ClientDown(c)
       PROVE  TypeOK' /\ ReadersHoldW'
  BY <1>10 DEF ClientDown, Teardown, Shutdown, Shut, TypeOK, ReadersHoldW
<1>11. ASSUME NEW c \in Client, ClientMessage(c)
       PROVE  TypeOK' /\ ReadersHoldW'
  <2>1. answers' \in [Client -> Seq({"cached", "404", "reply"})]
    BY <1>11, SendType DEF ClientMessage
  <2>2. QED
    BY <1>11, <2>1 DEF ClientMessage, TypeOK, ReadersHoldW
<1>12. ASSUME NEW c \in Client, HangUp(c)
       PROVE  TypeOK' /\ ReadersHoldW'
  BY <1>12 DEF HangUp, TypeOK, ReadersHoldW
<1>13. CASE UNCHANGED vars
  BY <1>13 DEF vars, TypeOK, ReadersHoldW
<1>14. QED
  BY <1>1, <1>2, <1>4, <1>5, <1>6, <1>7, <1>8, <1>9, <1>10, <1>11, <1>12, <1>13 DEF Next

----------------------------------------------------------------------------
(* The parts of the invariant that relate the variables *)

\* The other relations hold before there is any client.
LEMMA InitRelations == Init => TunnelsMatch /\ TunnelFirst /\ OwnIsPath /\ RefusedFirst
BY DEF Init, TunnelsMatch, Up, TunnelFirst, OwnIsPath, RefusedFirst

\* A step keeps a client unread until its tunnel is up (tuunel.h:67-81).
LEMMA TunnelStep ==
    ASSUME TypeOK, TunnelFirst, [Next]_vars
    PROVE  TunnelFirst'
<1> USE DEF sockets, tunnel, request, lock, talk
<1>1. ASSUME NEW c \in Client, ServerUp(c) \/ ServerDown(c)
      PROVE  TunnelFirst'
  <2>1. CASE ServerUp(c)
    BY <2>1 DEF ServerUp, Connect, TypeOK, TunnelFirst
  <2>2. CASE ServerDown(c)
    BY <2>2 DEF ServerDown, Disconnect, Shut, TypeOK, TunnelFirst
  <2>3. QED
    BY <1>1, <2>1, <2>2
<1>2. ASSUME NEW c \in Client, NEW n \in 1..Len(wire[c]),
             Read(c, n),
             \A d \in Client \ {c} : buffer'[d] = buffer[d],
             server' = server \/ Shutdown(c)
      PROVE  TunnelFirst'
  <2>1. reading[c] /\ reading' = reading /\ backend' = backend
    BY <1>2 DEF Read
  <2>2. backend[c] \notin {"none", "connecting"} /\ server[c] # "none"
    BY <2>1 DEF TunnelFirst
  <2>3. \A d \in Client : server'[d] = "none" => server[d] = "none"
    BY <1>2 DEF Shutdown, Shut, TypeOK
  <2>4. QED
    BY <1>2, <2>1, <2>2, <2>3 DEF TunnelFirst
<1>3. ASSUME NEW c \in Client, NEW b, ParseRequest(c, b)
      PROVE  \A d \in Client \ {c} : buffer'[d] = buffer[d]
  BY <1>3 DEF ParseRequest, TypeOK
<1>4. ASSUME NEW c \in Client, NEW n \in 1..Len(wire[c]),
             \/ MessageIgnored(c, n) \/ RequestLine(c, n) \/ CacheHit(c, n)
             \/ AskBackend(c, n) \/ BadRequest(c, n)
      PROVE  TunnelFirst'
  <2>1. CASE MessageIgnored(c, n)
    BY <1>2, <2>1 DEF MessageIgnored, TypeOK
  <2>2. CASE RequestLine(c, n)
    BY <1>2, <1>3, <2>2 DEF RequestLine
  <2>3. CASE CacheHit(c, n)
    BY <1>2, <1>3, <2>3 DEF CacheHit
  <2>4. CASE AskBackend(c, n)
    BY <1>2, <1>3, <2>4 DEF AskBackend
  <2>5. CASE BadRequest(c, n)
    BY <1>2, <1>3, <2>5 DEF BadRequest
  <2>6. QED
    BY <1>4, <2>1, <2>2, <2>3, <2>4, <2>5
<1>5. ASSUME NEW c \in Client, ClientUp(c)
      PROVE  TunnelFirst'
  BY <1>5 DEF ClientUp, StartRead, TypeOK, TunnelFirst
<1>6. ASSUME NEW c \in Client, ClientDown(c)
      PROVE  TunnelFirst'
  BY <1>6 DEF ClientDown, Teardown, Up, Shutdown, Shut, TypeOK, TunnelFirst
<1>7. ASSUME NEW c \in Client, ClientMessage(c) \/ HangUp(c)
      PROVE  TunnelFirst'
  BY <1>7 DEF ClientMessage, HangUp, TunnelFirst
<1>8. CASE UNCHANGED vars
  BY <1>8 DEF vars, TunnelFirst
<1>9. QED
  BY <1>1, <1>4, <1>5, <1>6, <1>7, <1>8 DEF Next

\* A step of the client, the back end or the proxy takes both ends of a tunnel
\* along (Proxy.cc:204-217, tuunel.h:54-85).
LEMMA MatchStep ==
    ASSUME TypeOK, TunnelFirst, TunnelsMatch, [Next]_vars
    PROVE  TunnelsMatch'
<1> USE DEF sockets, tunnel, request, lock, talk
<1>1. ASSUME NEW c \in Client, ServerUp(c)
      PROVE  TunnelsMatch'
  BY <1>1 DEF ServerUp, Connect, TypeOK, TunnelFirst, TunnelsMatch, Up
<1>2. ASSUME NEW c \in Client, ServerDown(c)
      PROVE  TunnelsMatch'
  <2>1. backend[c] \in {"connected", "disconnecting", "disconnected"}
    BY <1>2 DEF ServerDown, TypeOK, TunnelFirst
  <2>2. backend' = [backend EXCEPT ![c] = Shut(backend[c])]
    BY <1>2 DEF ServerDown, Disconnect
  <2>3. Shut(backend[c]) \in {"disconnecting", "disconnected"}
        /\ (Shut(backend[c]) \in Up <=> backend[c] \in Up)
    BY <2>1 DEF Shut, Up
  <2>4. QED
    BY <1>2, <2>2, <2>3 DEF ServerDown, TypeOK, TunnelsMatch, Up
<1>3. ASSUME NEW c \in Client, NEW n \in 1..Len(wire[c]), Read(c, n),
             server' = server \/ Shutdown(c)
      PROVE  TunnelsMatch'
  <2>1. UNCHANGED <<backend, context, tunnels>>
    BY <1>3 DEF Read
  <2>2. CASE server' = server
    BY <2>1, <2>2 DEF TunnelsMatch
  <2>3. CASE Shutdown(c)
    <3>1. server' = [server EXCEPT ![c] = Shut(server[c])]
      BY <2>3 DEF Shutdown
    <3>2. /\ Shut(server[c]) \in Up <=> server[c] \in Up
          /\ Shut(server[c]) = "disconnected" => server[c] = "disconnected"
          /\ server[c] \in {"disconnecting", "disconnected"} => Shut(server[c]) = server[c]
      BY DEF Shut, Up
    <3>3. DOMAIN server = Client
      BY DEF TypeOK
    <3>4. QED
      BY <2>1, <3>1, <3>2, <3>3 DEF TunnelsMatch
  <2>4. QED
    BY <1>3, <2>2, <2>3
<1>4. ASSUME NEW c \in Client, NEW n \in 1..Len(wire[c]),
             \/ MessageIgnored(c, n) \/ RequestLine(c, n) \/ CacheHit(c, n)
             \/ AskBackend(c, n) \/ BadRequest(c, n)
      PROVE  TunnelsMatch'
  <2>1. Read(c, n) /\ (server' = server \/ Shutdown(c))
    BY <1>4, Zenon DEF MessageIgnored, RequestLine, CacheHit, AskBackend, BadRequest
  <2>2. QED
    BY <1>3, <2>1
<1>5. ASSUME NEW c \in Client, ClientUp(c)
      PROVE  TunnelsMatch'
  <2>1. server' = server /\ tunnels' = tunnels /\ backend[c] = "connecting"
        /\ backend' = [backend EXCEPT ![c] = "connected"]
        /\ context' = [context EXCEPT ![c] = TRUE]
    BY <1>5 DEF ClientUp
  <2>2. QED
    BY <2>1 DEF TypeOK, TunnelsMatch, Up
<1>6. ASSUME NEW c \in Client, ClientDown(c)
      PROVE  TunnelsMatch'
  <2>1. /\ backend' = [backend EXCEPT ![c] = "disconnected"]
        /\ context' = [context EXCEPT ![c] = FALSE]
        /\ tunnels' = tunnels
        /\ server' = [server EXCEPT ![c] = Shut(server[c])]
    BY <1>6 DEF ClientDown, Teardown, Shutdown
  <2>2. server[c] \in {"connected", "disconnecting", "disconnected"}
    BY <1>6 DEF ClientDown, Up, TypeOK, TunnelFirst
  <2>3. Shut(server[c]) \in {"disconnecting", "disconnected"}
        /\ (Shut(server[c]) \in Up <=> server[c] \in Up)
    BY <2>2 DEF Shut, Up
  <2>4. QED
    BY <2>1, <2>3 DEF TypeOK, TunnelsMatch, Up
<1>7. ASSUME NEW c \in Client, ClientMessage(c) \/ HangUp(c)
      PROVE  TunnelsMatch'
  BY <1>7 DEF ClientMessage, HangUp, TunnelsMatch
<1>8. CASE UNCHANGED vars
  BY <1>8 DEF vars, TunnelsMatch
<1>9. QED
  BY <1>1, <1>2, <1>4, <1>5, <1>6, <1>7, <1>8 DEF Next

\* A step leaves path_ to a client that is alone.
LEMMA OwnStep ==
    ASSUME TypeOK, OwnIsPath, [Next]_vars
    PROVE  OwnIsPath'
<1> USE DEF sockets, tunnel, request, lock, talk
<1>1. ASSUME NEW c \in Client, NEW n \in 1..Len(wire[c]),
             ParseRequest(c, Received(c, n))
      PROVE  OwnIsPath'
  BY <1>1, ReceivedType, ParseKeepsOwner
<1>2. UNCHANGED request => OwnIsPath'
  BY DEF OwnIsPath
<1>3. ASSUME NEW c \in Client, NEW n \in 1..Len(wire[c]),
             RequestLine(c, n) \/ CacheHit(c, n) \/ AskBackend(c, n) \/ BadRequest(c, n)
      PROVE  OwnIsPath'
  <2>1. ParseRequest(c, Received(c, n))
    BY <1>3, Zenon DEF RequestLine, CacheHit, AskBackend, BadRequest
  <2>2. QED
    BY <1>1, <2>1
<1>4. ASSUME NEW c \in Client, NEW n \in 1..Len(wire[c]), MessageIgnored(c, n)
      PROVE  OwnIsPath'
  BY <1>2, <1>4 DEF MessageIgnored
<1>5. ASSUME NEW c \in Client,
             \/ ServerUp(c) \/ ServerDown(c)
             \/ ClientUp(c) \/ ClientDown(c) \/ ClientMessage(c) \/ HangUp(c)
      PROVE  OwnIsPath'
  <2>1. UNCHANGED request
    BY <1>5 DEF ServerUp, ServerDown, ClientUp, ClientDown, ClientMessage, HangUp
  <2>2. QED
    BY <1>2, <2>1
<1>6. CASE UNCHANGED vars
  BY <1>2, <1>6 DEF vars
<1>7. QED
  BY <1>3, <1>4, <1>5, <1>6 DEF Next

\* A step leaves a refused line where it is (Proxy.cc:116-122).
LEMMA RefusedStep ==
    ASSUME TypeOK, TunnelFirst, RefusedFirst, [Next]_vars
    PROVE  RefusedFirst'
<1> USE DEF sockets, tunnel, request, lock, talk
<1>1. UNCHANGED <<refused, buffer>> => RefusedFirst'
  BY DEF RefusedFirst
<1>2. ASSUME NEW c \in Client, NEW n \in 1..Len(wire[c]), c \in refused
      PROVE  HasCRLF(Received(c, n)) /\ Result(Received(c, n)) = "refused"
  <2>1. buffer[c] \in Seq(Token) /\ SubSeq(wire[c], 1, n) \in Seq(Token)
    BY WireParts DEF TypeOK
  <2>2. QED
    BY <1>2, <2>1, FirstLineStays DEF RefusedFirst, Received
<1>3. ASSUME NEW c \in Client, NEW n \in 1..Len(wire[c]), MessageIgnored(c, n)
      PROVE  RefusedFirst'
  BY <1>2, <1>3 DEF MessageIgnored, RefusedFirst, TypeOK
<1>4. ASSUME NEW c \in Client, NEW n \in 1..Len(wire[c]),
             RequestLine(c, n) \/ CacheHit(c, n) \/ AskBackend(c, n)
      PROVE  RefusedFirst'
  <2>1. /\ Result(Received(c, n)) # "refused"
        /\ ParseRequest(c, Received(c, n)) /\ refused' = refused
    BY <1>4 DEF RequestLine, CacheHit, AskBackend
  <2>2. c \notin refused
    BY <1>2, <2>1
  <2>3. QED
    BY <2>1, <2>2 DEF ParseRequest, RefusedFirst, TypeOK
<1>5. ASSUME NEW c \in Client, NEW n \in 1..Len(wire[c]), BadRequest(c, n)
      PROVE  RefusedFirst'
  <2> DEFINE b == Received(c, n)
  <2>1. /\ Result(b) = "refused" /\ ParseRequest(c, b)
        /\ refused' = IF HasCRLF(b) THEN refused \cup {c} ELSE refused
    BY <1>5 DEF BadRequest
  <2>2. buffer' = [buffer EXCEPT ![c] = b]
    BY <2>1 DEF ParseRequest, Kept
  <2>3. c \in refused' => HasCRLF(b)
    BY <1>2, <2>1
  <2>4. QED
    BY <2>1, <2>2, <2>3 DEF RefusedFirst, TypeOK
<1>6. ASSUME NEW c \in Client, ClientUp(c)
      PROVE  RefusedFirst'
  <2>1. UNCHANGED <<refused, buffer>>
    BY <1>6 DEF ClientUp, TunnelFirst
  <2>2. QED
    BY <1>1, <2>1
<1>7. QED
  BY <1>1, <1>3, <1>4, <1>5, <1>6
     DEF Next, vars, ServerUp, ServerDown, ClientDown, ClientMessage, HangUp

----------------------------------------------------------------------------
(* The theorems *)

\* The inductive invariant: types and semaphore, and the order in which tunnel,
\* input and refusal come about (onServerConnection, Tunnel::onClientConnection,
\* ParseRequest, Proxy.cc:116-122, 181-218).
THEOREM ProxyInvariantHolds == Spec => []ProxyInvariant
<1>1. Init => ProxyInvariant
  BY InitType, InitRelations DEF ProxyInvariant
<1>2. ProxyInvariant /\ [Next]_vars => ProxyInvariant'
  BY TypeStep, MatchStep, TunnelStep, OwnStep, RefusedStep DEF ProxyInvariant
<1>3. QED
  BY <1>1, <1>2, PTL DEF Spec

\* The variables of Proxy.cc keep their types: W stays a binary semaphore, and
\* what the tunnel forwards is a request, never raw input (Proxy.cc:40-52).
THEOREM TypeCorrect == Spec => []TypeOK
<1>1. ProxyInvariant => TypeOK
  BY DEF ProxyInvariant
<1>2. QED
  BY <1>1, ProxyInvariantHolds, PTL

\* P(&W) never waits, although a hit leaves readItem without being counted out
\* (Proxy.cc:145-177).
THEOREM ReadersHoldWHolds == Spec => []ReadersHoldW
<1>1. ProxyInvariant => ReadersHoldW
  BY DEF ProxyInvariant
<1>2. QED
  BY <1>1, ProxyInvariantHolds, PTL

\* Neither end of a tunnel is left behind, and the assertion of onServerConnection
\* holds (Proxy.cc:214, tuunel.h:54-85).
THEOREM TunnelsMatchHolds == Spec => []TunnelsMatch
<1>1. ProxyInvariant => TunnelsMatch
  BY DEF ProxyInvariant
<1>2. QED
  BY <1>1, ProxyInvariantHolds, PTL

\* A step asks the back end for one client only, and with the path and the
\* version parsed last (onServerMessage, Proxy.cc:229-249).
LEMMA AskedStep ==
    ASSUME TypeOK, TunnelFirst, [Next]_vars, NEW d \in Client, asked'[d] # asked[d]
    PROVE  /\ Last(asked'[d]).path = path_
           /\ \E n \in 1..Len(wire[d]) : AskBackend(d, n)
<1> USE DEF sockets, tunnel, request, lock, talk
<1>1. ASSUME NEW c \in Client, ClientUp(c)
      PROVE  asked' = asked
  BY <1>1 DEF ClientUp, TunnelFirst
<1>2. PICK c \in Client : \E n \in 1..Len(wire[c]) : AskBackend(c, n)
  BY <1>1 DEF Next, vars, ServerUp, ServerDown, MessageIgnored, RequestLine, CacheHit,
              BadRequest, ClientDown, ClientMessage, HangUp
<1> DEFINE question == [path |-> path_,
                        version |-> IF version_ = "1.0" THEN "1.0" ELSE "1.1"]
<1>3. asked' = [asked EXCEPT ![c] = Append(@, question)]
  BY <1>2 DEF AskBackend
<1>4. c = d
  BY <1>3 DEF TypeOK
<1>5. Last(asked'[d]) = question
  <2> DEFINE Question == [path : Path \cup {""}, version : Version]
  <2>1. question \in Question
    BY DEF TypeOK, Version
  <2>2. asked'[d] = Append(asked[d], question)
    BY <1>3, <1>4 DEF TypeOK
  <2>3. asked[d] \in Seq(Question)
    BY DEF TypeOK
  <2> HIDE DEF question, Question
  <2>4. /\ Len(Append(asked[d], question)) = Len(asked[d]) + 1
        /\ Append(asked[d], question)[Len(asked[d]) + 1] = question
    BY <2>1, <2>3, AppendProperties
  <2>5. QED
    BY <2>2, <2>4 DEF Last
<1>6. QED
  BY <1>2, <1>4, <1>5

\* What the back end is asked for a client is the path of the client's own last
\* request line.  With two clients it is not: path_ is one variable for all.
AsksOwnPath ==
    [][\A c \in Client :
          asked'[c] # asked[c] /\ own[c] # NoPath => Last(asked'[c]).path = own[c]]_vars

\* With one client the comment of onServerMessage is right, for any input and any
\* cuts: only the sharing of path_ makes it wrong (Proxy.cc:42, 228-250).
THEOREM AloneAsksOwnPath ==
    ASSUME Alone
    PROVE  Spec => AsksOwnPath
<1>1. ProxyInvariant /\ [Next]_vars =>
        \A c \in Client :
          asked'[c] # asked[c] /\ own[c] # NoPath => Last(asked'[c]).path = own[c]
  BY AskedStep DEF ProxyInvariant, OwnIsPath
<1>2. ProxyInvariant /\ [Next]_vars =>
        [\A c \in Client :
          asked'[c] # asked[c] /\ own[c] # NoPath => Last(asked'[c]).path = own[c]]_vars
  BY <1>1
<1>3. QED
  BY <1>2, ProxyInvariantHolds, PTL DEF Spec, AsksOwnPath

\* A client with a refused line in its buffer gets nothing but 404 and what the
\* back end still owes it (ParseRequest, Proxy.cc:116-122, 252-258).
THEOREM RefusedIsStuckHolds == Spec => RefusedIsStuck
<1> DEFINE Stuck == \A c \in refused :
                       /\ asked'[c] = asked[c]
                       /\ answers'[c] # answers[c] => Last(answers'[c]) # "cached"
<1>1. ASSUME ProxyInvariant, [Next]_vars, NEW c \in refused
      PROVE  /\ asked'[c] = asked[c]
             /\ answers'[c] # answers[c] => Last(answers'[c]) # "cached"
  <2> USE <1>1 DEF ProxyInvariant
  <2>1. c \in Client
    BY DEF TypeOK
  <2>2. ASSUME NEW n \in 1..Len(wire[c])
        PROVE  Result(Received(c, n)) = "refused"
    <3>1. buffer[c] \in Seq(Token) /\ SubSeq(wire[c], 1, n) \in Seq(Token)
      BY <2>1, WireParts DEF TypeOK
    <3>2. QED
      BY <3>1, FirstLineStays DEF RefusedFirst, Received
  <2>3. asked'[c] = asked[c]
    <3>1. \A n \in 1..Len(wire[c]) : ~AskBackend(c, n)
      BY <2>2 DEF AskBackend
    <3>2. QED
      BY <2>1, <3>1, AskedStep
  <2>4. ASSUME NEW d \in Client, NEW what \in {"404", "reply"}, Send(d, what),
               answers'[c] # answers[c]
        PROVE  Last(answers'[c]) # "cached"
    <3>1. answers'[c] = Append(answers[c], what)
      BY <2>1, <2>4 DEF Send, TypeOK
    <3>2. answers[c] \in Seq({"cached", "404", "reply"})
      BY <2>1 DEF TypeOK
    <3>3. /\ Len(Append(answers[c], what)) = Len(answers[c]) + 1
          /\ Append(answers[c], what)[Len(answers[c]) + 1] = what
      BY <3>2, AppendProperties
    <3>4. QED
      BY <3>1, <3>3 DEF Last
  <2>5. ASSUME NEW d \in Client, NEW n \in 1..Len(wire[d]), CacheHit(d, n)
        PROVE  answers'[c] = answers[c]
    <3>1. c # d
      BY <2>2, <2>5 DEF CacheHit
    <3>2. QED
      BY <2>1, <2>5, <3>1 DEF CacheHit, Send, TypeOK
  <2>6. ASSUME answers'[c] # answers[c]
        PROVE  Last(answers'[c]) # "cached"
    <3>1. \/ \E d \in Client : ClientMessage(d)
          \/ \E d \in Client : \E n \in 1..Len(wire[d]) : BadRequest(d, n)
      BY <1>1, <2>5, <2>6
         DEF Next, vars, ServerUp, ServerDown, MessageIgnored, RequestLine, AskBackend,
             ClientUp, ClientDown, HangUp, sockets, tunnel, request, lock, talk
    <3>2. \E d \in Client : Send(d, "reply") \/ Send(d, "404")
      BY <3>1 DEF ClientMessage, BadRequest
    <3>3. QED
      BY <2>4, <2>6, <3>2
  <2>7. QED
    BY <2>3, <2>6
<1>2. ProxyInvariant /\ [Next]_vars => [Stuck]_vars
  BY <1>1
<1>3. QED
  BY <1>2, ProxyInvariantHolds, PTL DEF Spec, RefusedIsStuck

=============================================================================
