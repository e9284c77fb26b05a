--------------------------- MODULE HttpConnection ---------------------------
(***************************************************************************)
(* What one connection of the HTTP server does with bytes: the socket      *)
(* delivers a stream of requests in pieces of any size into inputBuffer_,  *)
(* HttpContent::ParseContent takes lines out of it, HttpServer answers,    *)
(* and what the socket does not take at once waits in outputBuffer_.       *)
(*                                                                         *)
(* A byte stands for a word of the protocol: a method, a path, a version,  *)
(* a space, a colon, a CR, an LF.  One step of the parser is one line, so  *)
(* that a message callback is a sequence of steps from HandleRead to a     *)
(* state with pc = "wait".                                                 *)
(***************************************************************************)
EXTENDS Buffer, Functions, FiniteSets

CONSTANTS
    Word,            \* what a byte may stand for
    Streams          \* what the peers may send, as sequences of words

\* What the answers are made of: the status, whether the connection goes on, the
\* body.
AnswerWords ==
    {"200", "400", "404", "close", "Keep-Alive", "Website", "NotFound", "BadRequest"}

\* A vector is filled up with a word as well.
ASSUME WordAssumption ==
    Streams \subseteq Seq(Word) /\ Blank \in Word /\ AnswerWords \subseteq Word

VARIABLES
    stream,          \* what the peer sends
    due,             \* history: what is due to the stream as a whole
    received,        \* how much of it readv has delivered
    taken,           \* history: how much of it the parser has taken
    inputBuffer_, outputBuffer_,
    pc,              \* "wait", "parse" or "answer"
    parse_state_, request_,
    state_,
    answers,         \* history: the requests answered, with the decision to close
    promised,        \* history: the messages given to send that it kept
    sent             \* history: the bytes the socket has taken

inputVars == <<stream, due, received>>
parseVars == <<taken, parse_state_, request_>>
outputVars == <<outputBuffer_, promised, sent>>
vars == <<inputVars, parseVars, outputVars, inputBuffer_, pc, state_, answers>>

\* std::find: the first position of word, or the one after the end.
Find(s, word) ==
    CHOOSE i \in 1..Len(s) + 1 :
        /\ i <= Len(s) => s[i] = word
        /\ \A j \in 1..i - 1 : s[j] # word

CRLF == <<"CR", "LF">>

LineEnds(s) == {i \in 1..Len(s) - 1 : SubSeq(s, i, i + 1) = CRLF}

FindCRLF(b) ==
    LET ends == LineEnds(Content(b))
    IN  CHOOSE i \in ends : \A j \in ends : i <= j

-----------------------------------------------------------------------------
(* HttpRequest.                                                            *)

Methods == {"GET", "POST", "PUT", "DELETE"}

\* Mutant: an unknown method is kept as it is.
AnyMethod(word) == TRUE

ParseRequestMethod(word) == word \in Methods

Versions == {"HTTP/1.0", "HTTP/1.1"}

NoRequest == [method |-> "", path |-> <<>>, query |-> <<>>, version |-> "",
              headers |-> [name \in {} |-> <<>>]]

GetHeader(request, name) ==
    IF name \in DOMAIN request.headers THEN request.headers[name] ELSE <<>>

\* The fields assigned before an error stay assigned, and no field is cleared.
ParseRequestLine(request, line) ==
    LET space1 == Find(line, "SP")
        rest == SubSeq(line, space1 + 1, Len(line))
        space2 == Find(rest, "SP")
        question == Find(rest, "?")
        version == SubSeq(rest, space2 + 1, Len(rest))
        withMethod == [request EXCEPT !.method = line[1]]
        withPath ==
            IF question <= Len(rest)
            THEN [withMethod EXCEPT !.path = SubSeq(rest, 1, question - 1),
                                    !.query = SubSeq(rest, question + 1, space2 - 1)]
            ELSE [withMethod EXCEPT !.path = SubSeq(rest, 1, space2 - 1)]
    IN  CASE space1 # 2 \/ ~ParseRequestMethod(line[1]) -> [ok |-> FALSE, request |-> request]
          [] space1 = 2 /\ ParseRequestMethod(line[1]) /\ space2 > Len(rest) ->
                [ok |-> FALSE, request |-> withMethod]
          [] OTHER ->
                IF Len(version) = 1 /\ version[1] \in Versions
                THEN [ok |-> TRUE, request |-> [withPath EXCEPT !.version = version[1]]]
                ELSE [ok |-> FALSE, request |-> [withPath EXCEPT !.version = "kUnknown"]]

\* The spaces after the colon are not part of the value.
ParseHeaders(request, line) ==
    LET colon == Find(line, ":")
        name == SubSeq(line, 1, colon - 1)
        rest == SubSeq(line, colon + 1, Len(line))
        value == SubSeq(rest, CHOOSE i \in 1..Len(rest) + 1 :
                                  /\ i <= Len(rest) => rest[i] # "SP"
                                  /\ \A j \in 1..i - 1 : rest[j] = "SP", Len(rest))
    IN  [request EXCEPT !.headers =
            [n \in DOMAIN @ \union {name} |-> IF n = name THEN value ELSE @[n]]]

-----------------------------------------------------------------------------
(* The reference: the requests in a whole stream s, whatever pieces it     *)
(* arrives in.  A line is named by the position of its CR.                 *)

LinesBefore(s, e) == {f \in LineEnds(s) : f < e}

Latest(S) == CHOOSE e \in S : \A f \in S : f <= e

LineAt(s, e) ==
    SubSeq(s, IF LinesBefore(s, e) = {} THEN 1 ELSE Latest(LinesBefore(s, e)) + 2, e - 1)

\* The request lines: the first line, and the lines behind the end of a request,
\* which is a line without a colon that is not a request line itself.
StartsRequest(s) ==
    CHOOSE S \in SUBSET LineEnds(s) :
        \A e \in LineEnds(s) :
            e \in S <=> \/ LinesBefore(s, e) = {}
                        \/ LET d == Latest(LinesBefore(s, e))
                           IN  d \notin S /\ ":" \notin Range(LineAt(s, d))

\* A request line of one of the methods that the enumeration has.  HEAD, which
\* README.md:10 of the repository lists too, is not one of them: what is Recognised
\* is what the code takes for a request line, not what it should take.
Recognised(line) ==
    /\ Len(line) >= 4
    /\ line[1] \in Methods
    /\ line[2] = "SP" /\ line[Len(line) - 1] = "SP"
    /\ "SP" \notin {line[i] : i \in 3..Len(line) - 2}
    /\ line[Len(line)] \in Versions

NamesConnection(s) ==
    {e \in LineEnds(s) \ StartsRequest(s) :
        Len(LineAt(s, e)) >= 2 /\ SubSeq(LineAt(s, e), 1, 2) = <<"Connection", ":">>}

\* A header has this one word for its value.
Says(line, word) ==
    /\ Len(line) >= 3 /\ line[Len(line)] = word
    /\ \A i \in 3..Len(line) - 1 : line[i] = "SP"

\* The last Connection header before e says word, also when it is an earlier
\* request's.
ConnectionIs(s, e, word) ==
    \E d \in NamesConnection(s) :
        /\ d < e /\ Says(LineAt(s, d), word)
        /\ \A f \in NamesConnection(s) : f < e => f <= d

\* The answer due to the request that ends at e.
AnswerAt(s, e) ==
    LET line == LineAt(s, Latest({f \in StartsRequest(s) : f < e}))
        url == SubSeq(line, 3, Len(line) - 2)
    IN  [end |-> e, method |-> line[1],
         path |-> SubSeq(url, 1, Find(url, "?") - 1),
         version |-> line[Len(line)],
         close |-> \/ line[1] # "GET"
                   \/ ConnectionIs(s, e, "Close")
                   \/ line[Len(line)] = "HTTP/1.0" /\ ~ConnectionIs(s, e, "Keep-Alive")]

\* The request lines to be refused, and the requests before the first of them by
\* the position of their end.
Due(s) ==
    LET refused == {e \in StartsRequest(s) : ~Recognised(LineAt(s, e))}
        ends == {e \in LineEnds(s) \ StartsRequest(s) :
                    ":" \notin Range(LineAt(s, e)) /\ \A f \in refused : e < f}
    IN  [refused |-> refused, answers |-> [e \in ends |-> AnswerAt(s, e)]]

-----------------------------------------------------------------------------
(* The output: HttpResponse, TcpConnection::send, handleWrite.             *)

WantsClose(request) ==
    \/ GetHeader(request, <<"Connection">>) = <<"Close">>
    \/ /\ request.version = "HTTP/1.0"
       /\ GetHeader(request, <<"Connection">>) # <<"Keep-Alive">>

HttpResponse(close) == [status |-> "", close |-> close, body |-> <<>>]

\* HttpResponseCallBack of Main.cc: the status, whether to close, the body.
Response(request) ==
    LET response == HttpResponse(WantsClose(request))
    IN  CASE request.method # "GET" -> [response EXCEPT !.status = "400", !.close = TRUE]
          [] request.method = "GET" /\ request.path = <<"/">> ->
                [response EXCEPT !.status = "200", !.body = <<"Website">>]
          [] OTHER -> [response EXCEPT !.status = "404", !.body = <<"NotFound">>]

AppendToBuffer(response) ==
    <<response.status, IF response.close THEN "close" ELSE "Keep-Alive">> \o response.body

IsWriting == ReadableBytes(outputBuffer_) > 0

\* The first write takes the beginning of the message.
WriteFirst(message) ==
    /\ \E n \in 0..Len(message) :
          /\ sent' = sent \o SubSeq(message, 1, n)
          /\ outputBuffer_' = IF n = Len(message) THEN outputBuffer_
                              ELSE AppendData(outputBuffer_, SubSeq(message, n + 1, Len(message)))
    /\ promised' = promised \o message

\* Mutant: a message is written at once although an earlier one waits.
SendAtOnce(message) == WriteFirst(message)

\* A first write that fails drops the message (run send_lost).
Send(message) ==
    \/ /\ IsWriting
       /\ outputBuffer_' = AppendData(outputBuffer_, message)
       /\ promised' = promised \o message
       /\ UNCHANGED sent
    \/ ~IsWriting /\ WriteFirst(message)
    \/ ~IsWriting /\ UNCHANGED outputVars

HandleWrite ==
    /\ pc = "wait"
    /\ IsWriting
    /\ \E n \in 1..ReadableBytes(outputBuffer_) :
          /\ sent' = sent \o WriteFd(outputBuffer_, n)
          /\ outputBuffer_' = Retrieve(outputBuffer_, n)
    /\ UNCHANGED <<inputVars, parseVars, inputBuffer_, pc, state_, answers, promised>>

-----------------------------------------------------------------------------
(* The input: handleRead, MessageCallback, ParseContent.                   *)

Init ==
    /\ stream \in Streams
    /\ due = Due(stream)
    /\ received = 0
    /\ taken = 0
    /\ inputBuffer_ = EmptyBuffer
    /\ outputBuffer_ = EmptyBuffer
    /\ pc = "wait"
    /\ parse_state_ = "kParseRequestLine"
    /\ request_ = NoRequest
    /\ state_ = "kConnected"
    /\ answers = <<>>
    /\ promised = <<>>
    /\ sent = <<>>

\* A connection that is shutting down keeps reading and ignores what it reads.
HandleRead ==
    /\ pc = "wait"
    /\ \E n \in 1..ReadCapacity(inputBuffer_) :
          /\ received + n <= Len(stream)
          /\ received' = received + n
          /\ inputBuffer_' = ReadFd(inputBuffer_, SubSeq(stream, received + 1, received + n))
    /\ pc' = IF state_ = "kDisConnecting" THEN "wait" ELSE "parse"
    /\ UNCHANGED <<stream, due, parseVars, outputVars, state_, answers>>

HasLine == LineEnds(Content(inputBuffer_)) # {}

Line == SubSeq(Content(inputBuffer_), 1, FindCRLF(inputBuffer_) - 1)

RetrieveLine ==
    /\ inputBuffer_' = RetrieveUntilIdx(inputBuffer_, FindCRLF(inputBuffer_) + 1)
    /\ taken' = taken + FindCRLF(inputBuffer_) + 1

\* Mutant: the parser starts a request anew when it runs out of lines.
NoLineRestarts ==
    /\ pc = "parse"
    /\ ~HasLine
    /\ pc' = "wait"
    /\ parse_state_' = "kParseRequestLine"
    /\ UNCHANGED <<inputVars, taken, request_, outputVars, inputBuffer_, state_, answers>>

NoLine ==
    /\ pc = "parse"
    /\ ~HasLine
    /\ pc' = "wait"
    /\ UNCHANGED <<inputVars, parseVars, outputVars, inputBuffer_, state_, answers>>

\* Mutant: one read takes one line.
StopAfterLine == pc' = "wait"

LineMore == pc' = "parse"

RequestLine ==
    /\ pc = "parse"
    /\ HasLine
    /\ parse_state_ = "kParseRequestLine"
    /\ RetrieveLine
    /\ LET result == ParseRequestLine(request_, Line)
       IN  /\ request_' = result.request
           /\ IF result.ok
              THEN /\ parse_state_' = "kParseRequestHeader"
                   /\ LineMore
                   /\ UNCHANGED <<state_, outputVars>>
              ELSE /\ Send(<<"400", "BadRequest">>)
                   /\ state_' = "kDisConnecting"
                   /\ pc' = "wait"
                   /\ UNCHANGED parse_state_
    /\ UNCHANGED <<inputVars, answers>>

\* A line without a colon ends the headers, whether it is empty or not.
HeaderLine ==
    /\ pc = "parse"
    /\ HasLine
    /\ parse_state_ = "kParseRequestHeader"
    /\ RetrieveLine
    /\ IF ":" \in Range(Line)
       THEN /\ request_' = ParseHeaders(request_, Line)
            /\ LineMore
            /\ UNCHANGED parse_state_
       ELSE /\ parse_state_' = "kParseGotCompleteRequest"
            /\ pc' = "answer"
            /\ UNCHANGED request_
    /\ UNCHANGED <<inputVars, outputVars, state_, answers>>

\* The state of the parser starts again, the fields of request_ stay.
ResetContentState == parse_state_' = "kParseRequestLine"

DealWithRequest ==
    /\ pc = "answer"
    /\ LET response == Response(request_)
       IN  /\ Send(AppendToBuffer(response))
           /\ state_' = IF response.close THEN "kDisConnecting" ELSE state_
           /\ answers' = Append(answers, [end |-> taken - 1, method |-> request_.method,
                                          path |-> request_.path,
                                          version |-> request_.version,
                                          close |-> response.close])
    /\ ResetContentState
    /\ pc' = "wait"
    /\ UNCHANGED <<inputVars, taken, request_, inputBuffer_>>

Next ==
    \/ HandleRead \/ NoLine \/ RequestLine \/ HeaderLine \/ DealWithRequest
    \/ HandleWrite

Spec == Init /\ [][Next]_vars

-----------------------------------------------------------------------------
(* Properties.                                                             *)

BufferType == [bytes : Seq(Word), readIdx : Nat, writeIdx : Nat]

\* The fields keep their types; a request keeps only methods the enum has.
TypeOK ==
    /\ received \in 0..Len(stream)
    /\ taken \in 0..received
    /\ inputBuffer_ \in BufferType /\ outputBuffer_ \in BufferType
    /\ pc \in {"wait", "parse", "answer"}
    /\ parse_state_ \in {"kParseRequestLine", "kParseRequestHeader", "kParseGotCompleteRequest"}
    /\ request_.method \in Methods \union {""}
    /\ request_.version \in Versions \union {"", "kUnknown"}
    /\ state_ \in {"kConnected", "kDisConnecting"}

\* Through every mix of appending, moving, growing and taking out, the indices
\* of both buffers stay in order and the front bytes stay free
\* (Buffer.h:152-165, Buffer.cc:40-46).
BuffersInOrder == IndicesInOrder(inputBuffer_) /\ IndicesInOrder(outputBuffer_)

\* What the parser has not taken is in the input buffer, every byte once and in
\* order, also when a read spills over into the buffer on the stack.
InputIsStream == Content(inputBuffer_) = SubSeq(stream, taken + 1, received)

\* The socket has got what was promised to it up to the bytes that wait in the
\* output buffer: partial writes and answers given meanwhile do not mix.
OutputIsAnswers == sent \o Content(outputBuffer_) = promised

\* However the stream is cut, between a CR and its LF too, the answers are those
\* of the requests in the whole stream in their order, and a connection that is
\* refused has just sent a request line that is not Recognised.  Which methods
\* should be recognised is not its matter, and no stream of its run has a HEAD.
AnswersAreTheParse ==
    /\ \A n \in DOMAIN answers :
          LET end == answers[n].end
          IN  /\ end \in DOMAIN due.answers
              /\ answers[n] = due.answers[end]
              /\ Cardinality({e \in DOMAIN due.answers : e <= end}) = n
              /\ answers[n].close => n = Len(answers)
    /\ state_ = "kDisConnecting" =>
            \/ \E n \in DOMAIN answers : answers[n].close
            \/ taken - 1 \in due.refused

\* A connection that waits with a whole line unread has just answered a request
\* and holds the beginning of the next: MessageCallback answers at most one
\* request of a read (httpServer.cc:33).  No other line is left lying.
WaitsOnlyAfterAnswer ==
    pc = "wait" /\ state_ = "kConnected" /\ HasLine =>
        /\ parse_state_ = "kParseRequestLine"
        /\ answers # <<>>
        /\ taken - 1 = answers[Len(answers)].end
=============================================================================
