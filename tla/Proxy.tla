------------------------------- MODULE Proxy -------------------------------
(***************************************************************************)
(* The caching proxy of src/Proxy: every client connection gets a Tunnel,  *)
(* that is a connection of its own to the one back-end server, and the     *)
(* callbacks of Proxy.cc parse what the client sends, look it up in the    *)
(* cache and ask the back end.  One event loop runs all callbacks, so each *)
(* is one step; the path and the version of a request are file-scope       *)
(* variables that all clients share.                                       *)
(*                                                                         *)
(* The proxy is built on the original muduo library, which is not in the   *)
(* repository: TcpConnection, TcpClient and the sockets are external.      *)
(***************************************************************************)
EXTENDS Naturals, SequencesExt

CONSTANTS
    Client,        \* the client connections
    Path,          \* what a request line may ask for
    CachedPath,    \* "/haha": the one object main puts in the cache
    Streams        \* what a client may send: sequences of Token

NoPath == "no path"
Version == {"1.0", "1.1", "bad"}

\* The text of a GET line with its three parts, any other text with an 'H' in
\* it, and the end of a line.  Reads cut the input between tokens.
Token == [kind : {"GET"}, path : Path, version : Version]
            \cup [kind : {"H-line", "CRLF"}]

ASSUME ProxyAssumption ==
    /\ CachedPath \in Path
    /\ Streams \subseteq Seq(Token)

VARIABLES
    wire,       \* client -> what it sends and the proxy has not read
    fin,        \* client -> it has closed its side
    server,     \* client -> state of its connection with the proxy (serverConn_)
    reading,    \* client -> the loop watches serverConn_ for input
    context,    \* client -> serverConn_'s context holds the back-end connection
    buffer,     \* client -> serverConn_'s input buffer
    backend,    \* client -> state of the tunnel's connection to the back end
    tunnels,    \* g_tunnels
    path_, version_,    \* of the last request line parsed, whoever sent it
    cache,      \* URIs in list order, head first
    readcnt, W, \* the reader count and the writers' semaphore
    asked,      \* client -> requests sent over its back-end connection
    answers,    \* client -> what was sent to it
    own,        \* history: client -> the path of its own last request line
    refused     \* history: the clients that had a whole line refused

sockets == <<wire, fin, server, reading, backend>>
tunnel == <<context, tunnels>>
request == <<path_, version_, own>>
lock == <<readcnt, W>>
talk == <<asked, answers, refused>>
vars == <<sockets, tunnel, buffer, request, cache, lock, talk>>

----------------------------------------------------------------------------
(* The cache *)

MaxCacheSize == 1049000

\* head and tail only.
InitializeCache == << >>

\* CacheSize is not reduced when an object is freed, so the loop that makes
\* room empties the list once it starts.
WriteToCache(list, cacheSize, uri, len) ==
    IF len + cacheSize > MaxCacheSize THEN <<uri>> ELSE <<uri>> \o list

\* The length of main's object is added to a value malloc left there.
Init ==
    /\ wire \in [Client -> Streams]
    /\ fin = [c \in Client |-> FALSE]
    /\ server = [c \in Client |-> "none"]
    /\ reading = [c \in Client |-> FALSE]
    /\ context = [c \in Client |-> FALSE]
    /\ buffer = [c \in Client |-> << >>]
    /\ backend = [c \in Client |-> "none"]
    /\ tunnels = {}
    /\ path_ = "" /\ version_ = "bad"
    /\ \E garbage \in {0, MaxCacheSize} :
          cache = WriteToCache(InitializeCache, 0, CachedPath, garbage + 21)
    /\ readcnt = 0 /\ W = 1
    /\ asked = [c \in Client |-> << >>]
    /\ answers = [c \in Client |-> << >>]
    /\ own = [c \in Client |-> NoPath]
    /\ refused = {}

\* A semaphore is a number.
P(sem) == sem - 1
V(sem) == sem + 1

\* Entering and leaving the reading section.  The loop thread is the only one,
\* so that P(&mutex), which five threads may pass, never waits.
Enter == IF readcnt = 0 THEN P(W) ELSE W
MayEnter == readcnt = 0 => W > 0
\* Mutants: V(&W) whenever a reader leaves, and never.
LeaveAlways(w) == V(w)
LeaveKeepsW(w) == w
Leave(w) == IF readcnt = 0 THEN V(w) ELSE w

\* A hit returns from inside the reading section.
ReadItem(hit) ==
    /\ MayEnter
    /\ hit = (path_ \in ToSet(cache))
    /\ IF hit THEN readcnt' = readcnt + 1 /\ W' = Enter
              ELSE readcnt' = readcnt /\ W' = Leave(Enter)

----------------------------------------------------------------------------
(* Parsing a request *)

CRLF == [kind |-> "CRLF"]
HasCRLF(b) == Contains(b, CRLF)
FirstLine(b) == Head(b)        \* the text before the first CRLF, when it is not empty
IsGet(t) == t.kind = "GET"
Accepted(t) == IsGet(t) /\ t.version # "bad"

\* The results of ParseRequest: 1, 2 and 0.
Result(b) ==
    CASE ~HasCRLF(b)              -> "refused"
      [] FirstLine(b) = CRLF      -> "blank"
      [] Accepted(FirstLine(b))   -> "line"
      [] OTHER                    -> "refused"

\* ParseRequestLine sets the path before it looks at the version.
Reaches(b) == HasCRLF(b) /\ IsGet(FirstLine(b))
\* Mutant: every whole line is taken from the buffer.
DropsAlways(b) == IF HasCRLF(b) THEN << >> ELSE b
StoredPath(t) == t.path
Kept(b) == IF Result(b) = "line" THEN << >> ELSE b

ParseRequest(c, b) ==
    /\ buffer' = [buffer EXCEPT ![c] = Kept(b)]
    /\ IF Reaches(b)
       THEN /\ path_' = StoredPath(FirstLine(b))
            /\ version_' = FirstLine(b).version
            /\ own' = [own EXCEPT ![c] = FirstLine(b).path]
       ELSE UNCHANGED request

----------------------------------------------------------------------------
(* muduo's TcpConnection, as the proxy uses it *)

Send(c, what) ==
    answers' = IF server[c] = "connected"
               THEN [answers EXCEPT ![c] = Append(@, what)] ELSE answers

\* A connection that is shutting down is still there and may read.
Up == {"connected", "disconnecting"}

\* Also the state of the tunnel's connection after TcpClient::disconnect.
Shut(state) == IF state = "connected" THEN "disconnecting" ELSE state
Shutdown(c) == server' = [server EXCEPT ![c] = Shut(@)]

----------------------------------------------------------------------------
(* The tunnel's own connection, to the back end *)

\* Tunnel::setup and Tunnel::connection.
Connect(c) == backend' = [backend EXCEPT ![c] = "connecting"]

\* Tunnel::disconnection.
Disconnect(c) == backend' = [backend EXCEPT ![c] = Shut(@)]

----------------------------------------------------------------------------
(* The callbacks of the client's connection *)

\* onServerConnection, connected: nothing is read until the back end is there.
ServerUp(c) ==
    /\ server[c] = "none"
    /\ server' = [server EXCEPT ![c] = "connected"]
    /\ reading' = [reading EXCEPT ![c] = FALSE]
    /\ Connect(c)
    /\ tunnels' = tunnels \cup {c}
    /\ UNCHANGED <<wire, fin, context, buffer, request, cache, lock, talk>>

\* onServerConnection, not connected: end of input was read.  The code asserts
\* that the tunnel is there (TunnelsMatch), then calls Tunnel::disconnection.
ServerDown(c) ==
    /\ reading[c] /\ fin[c] /\ wire[c] = << >>
    /\ server[c] \in Up
    /\ server' = [server EXCEPT ![c] = "disconnected"]
    /\ reading' = [reading EXCEPT ![c] = FALSE]
    /\ Disconnect(c)
    /\ tunnels' = tunnels \ {c}
    /\ UNCHANGED <<wire, fin, context, buffer, request, cache, lock, talk>>

\* onServerMessage after a read that brought the first n tokens of the wire.
Read(c, n) ==
    /\ reading[c] /\ n \in 1..Len(wire[c])
    /\ wire' = [wire EXCEPT ![c] = SubSeq(@, n + 1, Len(@))]
    /\ UNCHANGED <<fin, reading, backend, tunnel, cache>>

Received(c, n) == buffer[c] \o SubSeq(wire[c], 1, n)

\* No context: the tunnel is not up any more and nobody looks at the data.
MessageIgnored(c, n) ==
    /\ Read(c, n) /\ ~context[c]
    /\ buffer' = [buffer EXCEPT ![c] = Received(c, n)]
    /\ UNCHANGED <<server, request, lock, talk>>

\* A request line was accepted (the rest of the read is dropped with it).
RequestLine(c, n) ==
    /\ Read(c, n) /\ context[c]
    /\ Result(Received(c, n)) = "line"
    /\ ParseRequest(c, Received(c, n))
    /\ UNCHANGED <<server, lock, talk>>

\* An empty line ends the request: answered from the cache ...
CacheHit(c, n) ==
    /\ Read(c, n) /\ context[c]
    /\ Result(Received(c, n)) = "blank"
    /\ ParseRequest(c, Received(c, n))
    /\ ReadItem(TRUE)
    /\ Send(c, "cached") /\ Shutdown(c)
    /\ UNCHANGED <<asked, refused>>

\* ... or asked of the back end.
AskBackend(c, n) ==
    /\ Read(c, n) /\ context[c]
    /\ Result(Received(c, n)) = "blank"
    /\ ParseRequest(c, Received(c, n))
    /\ ReadItem(FALSE)
    /\ asked' = IF backend[c] # "connected" THEN asked
                ELSE [asked EXCEPT ![c] = Append(@,
                        [path |-> path_,
                         version |-> IF version_ = "1.0" THEN "1.0" ELSE "1.1"])]
    /\ UNCHANGED <<server, answers, refused>>

\* Everything else is answered 404, the connection stays and so does the input.
BadRequest(c, n) ==
    /\ Read(c, n) /\ context[c]
    /\ Result(Received(c, n)) = "refused"
    /\ ParseRequest(c, Received(c, n))
    /\ Send(c, "404")
    /\ refused' = IF HasCRLF(Received(c, n)) THEN refused \cup {c} ELSE refused
    /\ UNCHANGED <<server, lock, asked>>

----------------------------------------------------------------------------
(* The callbacks of the tunnel's connection to the back end *)

\* Mutant: reading stays off.
NoStartRead(c) == UNCHANGED reading
StartRead(c) == reading' = [reading EXCEPT ![c] = TRUE]

\* Tunnel::onClientConnection, connected.
ClientUp(c) ==
    /\ backend[c] = "connecting"
    /\ backend' = [backend EXCEPT ![c] = "connected"]
    /\ context' = [context EXCEPT ![c] = TRUE]
    /\ StartRead(c)
    /\ IF buffer[c] = << >> THEN UNCHANGED <<asked, buffer>>
       ELSE /\ asked' = [asked EXCEPT ![c] = Append(@, buffer[c])]
            /\ buffer' = [buffer EXCEPT ![c] = << >>]
    /\ UNCHANGED <<wire, fin, server, tunnels, request, cache, lock, answers, refused>>

\* The other end is only asked to close.  Mutant: its tunnel is dropped as well.
TeardownErases(c) ==
    /\ context' = [context EXCEPT ![c] = FALSE]
    /\ Shutdown(c)
    /\ tunnels' = tunnels \ {c}
Teardown(c) ==
    /\ context' = [context EXCEPT ![c] = FALSE]
    /\ Shutdown(c)
    /\ UNCHANGED tunnels

\* Tunnel::onClientConnection, not connected.
ClientDown(c) ==
    /\ backend[c] \in Up
    /\ backend' = [backend EXCEPT ![c] = "disconnected"]
    /\ Teardown(c)
    /\ UNCHANGED <<wire, fin, reading, buffer, request, cache, lock, talk>>

\* Tunnel::onClientMessage; the back end answers each request once.
ClientMessage(c) ==
    /\ backend[c] \in Up
    /\ Len(SelectSeq(answers[c], LAMBDA a : a = "reply")) < Len(asked[c])
    /\ Send(c, "reply")
    /\ UNCHANGED <<sockets, tunnel, buffer, request, cache, lock, asked, refused>>

----------------------------------------------------------------------------
(* The peers *)

\* The client closes after it has sent everything.
HangUp(c) ==
    /\ server[c] # "none" /\ ~fin[c]
    /\ fin' = [fin EXCEPT ![c] = TRUE]
    /\ UNCHANGED <<wire, server, reading, backend, tunnel, buffer, request, cache,
                   lock, talk>>

Next ==
    \E c \in Client :
        \/ ServerUp(c) \/ ServerDown(c)
        \/ \E n \in 1..Len(wire[c]) :
              \/ MessageIgnored(c, n) \/ RequestLine(c, n) \/ CacheHit(c, n)
              \/ AskBackend(c, n) \/ BadRequest(c, n)
        \/ ClientUp(c) \/ ClientDown(c) \/ ClientMessage(c)
        \/ HangUp(c)

\* The loop serves what epoll reports; the back end accepts, and either peer
\* closes when the proxy has shut its side down.
Fairness ==
    \A c \in Client :
        /\ WF_vars(ServerDown(c)) /\ WF_vars(ClientUp(c))
        /\ WF_vars(\E n \in 1..Len(wire[c]) :
                      \/ MessageIgnored(c, n) \/ RequestLine(c, n) \/ CacheHit(c, n)
                      \/ AskBackend(c, n) \/ BadRequest(c, n))
        /\ WF_vars(server[c] = "disconnecting" /\ HangUp(c))
        /\ WF_vars(backend[c] = "disconnecting" /\ ClientDown(c))

Spec == Init /\ [][Next]_vars /\ Fairness

----------------------------------------------------------------------------

\* The types of the proxy's state: W is a binary semaphore (Proxy.cc:284), and
\* what the back end is asked is a request, never raw input (tuunel.h:78-81).
TypeOK ==
    /\ wire \in [Client -> Seq(Token)] /\ buffer \in [Client -> Seq(Token)]
    /\ fin \in [Client -> BOOLEAN] /\ reading \in [Client -> BOOLEAN]
    /\ context \in [Client -> BOOLEAN]
    /\ server \in [Client -> {"none", "connected", "disconnecting", "disconnected"}]
    /\ backend \in [Client -> {"none", "connecting", "connected", "disconnecting",
                               "disconnected"}]
    /\ tunnels \subseteq Client
    /\ path_ \in Path \cup {""} /\ version_ \in Version
    /\ cache \in Seq(Path)
    /\ readcnt \in Nat /\ W \in {0, 1}
    /\ asked \in [Client -> Seq([path : Path \cup {""}, version : Version])]
    /\ answers \in [Client -> Seq({"cached", "404", "reply"})]
    /\ own \in [Client -> Path \cup {NoPath}]
    /\ refused \subseteq Client

\* The readers hold the writers' semaphore exactly while one is counted, so
\* that the loop thread never waits in P(&W): not after a miss, and not after a
\* hit, which leaves the reading section without being counted out
\* (readItem, Proxy.cc:145-177).
ReadersHoldW == W = (IF readcnt > 0 THEN 0 ELSE 1)

\* The assertion of onServerConnection holds: a connection has its tunnel exactly
\* while it is up.  Its context holds the back end's connection exactly while that
\* one is up, and when one end has gone the other one is on its way
\* (Proxy.cc:204-217, tuunel.h:54-85).
TunnelsMatch ==
    \A c \in Client :
        /\ c \in tunnels <=> server[c] \in Up
        /\ context[c] <=> backend[c] \in Up
        /\ server[c] = "disconnected" => backend[c] \in {"disconnecting", "disconnected"}
        /\ backend[c] = "disconnected" => server[c] \in {"disconnecting", "disconnected"}

\* A request line that was refused stays first in the input buffer: whatever the
\* client sends afterwards is answered 404 and never reaches cache or back end
\* (ParseRequest, Proxy.cc:116-122 and 252-258).
RefusedIsStuck ==
    [][\A c \in refused :
          /\ asked'[c] = asked[c]
          /\ answers'[c] # answers[c] => Last(answers'[c]) # "cached"]_vars

\* When either side of a tunnel ends, the other side ends too and the tunnel is
\* dropped, also when the client closes while the proxy is not reading from it
\* (onServerConnection, Tunnel::onClientConnection and teardown).
EndsTogether ==
    \A c \in Client :
        fin[c] \/ backend[c] = "disconnected" ~>
            server[c] = "disconnected" /\ backend[c] = "disconnected" /\ c \notin tunnels
=============================================================================
