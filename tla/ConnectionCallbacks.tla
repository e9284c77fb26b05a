------------------------ MODULE ConnectionCallbacks -------------------------
(***************************************************************************)
(* What a TcpServer promises to the user of its connections, whatever its  *)
(* loops do in between: a connection is told online once and then offline  *)
(* once, it is read and answered only in between, one connection at a time *)
(* in the IO loop, and it goes away for good when it was told offline and  *)
(* the epoller has forgotten its Channel.                                  *)
(***************************************************************************)
EXTENDS Sequences

CONSTANT Conn

VARIABLES
    accepted,            \* the connections made so far
    alive,               \* those of them that still exist
    told,                \* the calls of the connection callback, of each
    watched,             \* those whose Channel the epoller knows
    reading,             \* the connections the IO loop is about to read
    answering            \* the connection whose request waits for its answer

vars == <<accepted, alive, told, watched, reading, answering>>

Init ==
    /\ accepted = {}
    /\ alive = {}
    /\ told = [c \in Conn |-> <<>>]
    /\ watched = {}
    /\ reading = {}
    /\ answering = {}

Online == {c \in alive : told[c] = <<"online">>}

Accept(c) ==
    /\ c \notin accepted
    /\ accepted' = accepted \union {c}
    /\ alive' = alive \union {c}
    /\ UNCHANGED <<told, watched, reading, answering>>

TellOnline(c) ==
    /\ c \in alive
    /\ told[c] = <<>>
    /\ reading = {}
    /\ answering = {}
    /\ told' = [told EXCEPT ![c] = <<"online">>]
    /\ watched' = watched \union {c}
    /\ UNCHANGED <<accepted, alive, reading, answering>>

\* The IO loop polls when it has read and answered all of its last poll.
Poll(S) ==
    /\ reading = {}
    /\ answering = {}
    /\ reading' = S
    /\ UNCHANGED <<accepted, alive, told, watched, answering>>

\* The message callback may take a request out of what it was given.
Read(c) ==
    /\ c \in reading \intersect Online
    /\ answering = {}
    /\ reading' = reading \ {c}
    /\ answering' \in {{}, {c}}
    /\ UNCHANGED <<accepted, alive, told, watched>>

Answer(c) ==
    /\ answering = {c}
    /\ c \in Online
    /\ answering' = {}
    /\ UNCHANGED <<accepted, alive, told, watched, reading>>

TellOffline(c) ==
    /\ c \in reading \intersect Online
    /\ answering = {}
    /\ reading' = reading \ {c}
    /\ told' = [told EXCEPT ![c] = <<"online", "offline">>]
    /\ UNCHANGED <<accepted, alive, watched, answering>>

Forget(c) ==
    /\ c \in alive \intersect watched
    /\ told[c] = <<"online", "offline">>
    /\ watched' = watched \ {c}
    /\ UNCHANGED <<accepted, alive, told, reading, answering>>

\* One batch of functors may hold the last references to several connections.
Release(S) ==
    /\ \A c \in S : told[c] = <<"online", "offline">>
    /\ S \intersect watched = {}
    /\ alive' = alive \ S
    /\ UNCHANGED <<accepted, told, watched, reading, answering>>

Next ==
    \/ \E c \in Conn :
          \/ Accept(c)
          \/ TellOnline(c)
          \/ Read(c)
          \/ Answer(c)
          \/ TellOffline(c)
          \/ Forget(c)
    \/ \E S \in SUBSET Online : Poll(S)
    \/ \E S \in SUBSET alive : Release(S)

Spec == Init /\ [][Next]_vars

=============================================================================
