------------------------ MODULE HttpConnectionProofs ------------------------
(***************************************************************************)
(* Proofs about HttpConnection for any streams, cut anyhow, and buffers of *)
(* any size: no byte is lost, doubled or moved on its way from the socket  *)
(* to the parser and from the answers to the socket, and the parser finds  *)
(* in its pieces what the reference finds in the stream as a whole.        *)
(***************************************************************************)
EXTENDS HttpConnection, BufferProofs, FiniteSetTheorems, WellFoundedInduction

\* What an answer says of its request.
Answer == [end : Int, method : Methods \cup {""}, path : Seq(Word),
           version : Versions \cup {"", "kUnknown"}, close : BOOLEAN]

IsRequest(r) ==
    /\ DOMAIN r = {"method", "path", "query", "version", "headers"}
    /\ r.method \in Methods \cup {""}
    /\ r.path \in Seq(Word)
    /\ r.version \in Versions \cup {"", "kUnknown"}

\* Every variable has its type, and the buffers are in order.
Typing ==
    /\ stream \in Seq(Word)
    /\ received \in 0..Len(stream) /\ taken \in 0..received
    /\ IsBuffer(inputBuffer_, Word) /\ IsBuffer(outputBuffer_, Word)
    /\ sent \in Seq(Word) /\ promised \in Seq(Word)
    /\ pc \in {"wait", "parse", "answer"}
    /\ parse_state_ \in {"kParseRequestLine", "kParseRequestHeader", "kParseGotCompleteRequest"}
    /\ IsRequest(request_)
    /\ state_ \in {"kConnected", "kDisConnecting"}
    /\ answers \in Seq(Answer)

\* With the types this is inductive: what is in the buffers is fixed by the stream
\* and by the answers, whatever the room, and a line is left only by an answer.
HttpInvariant == Typing /\ InputIsStream /\ OutputIsAnswers /\ WaitsOnlyAfterAnswer

-----------------------------------------------------------------------------
(* Words in a line *)

\* A set of numbers has a least one.
LEMMA LeastElement ==
    ASSUME NEW S, S \subseteq Nat, S # {}
    PROVE  \E i \in S : \A j \in S : i <= j
<1> DEFINE Less == {ss \in Nat \X Nat : ss[1] < ss[2]}
<1>1. IsWellFoundedOn(Less, Nat)
  BY NatLessThanWellFounded DEF OpToRel
<1> HIDE DEF Less
<1>2. PICK i \in S : \A j \in S : ~ (<<j, i>> \in Less)
  BY <1>1, WFMin
<1>3. ASSUME NEW j \in S
      PROVE  i <= j
  <2>1. i \in Nat /\ j \in Nat
    BY <1>3
  <2>2. <<j, i>> \notin Less
    BY <1>2
  <2>3. ~(j < i)
    BY <2>1, <2>2 DEF Less
  <2>4. QED
    BY <2>1, <2>3
<1>4. QED
  BY <1>3

\* std::find.
LEMMA FindProperties ==
    ASSUME NEW S, NEW s \in Seq(S), NEW word
    PROVE  /\ Find(s, word) \in 1..Len(s) + 1
           /\ Find(s, word) <= Len(s) => s[Find(s, word)] = word
           /\ \A j \in 1..Find(s, word) - 1 : s[j] # word
<1>1. Len(s) \in Nat
  BY LenProperties
<1> DEFINE Found(i) == /\ i <= Len(s) => s[i] = word
                       /\ \A j \in 1..i - 1 : s[j] # word
           places == {i \in 1..Len(s) : s[i] = word}
<1>2. \E i \in 1..Len(s) + 1 : Found(i)
  <2>1. CASE places = {}
    <3>1. Len(s) + 1 \in 1..Len(s) + 1 /\ ~(Len(s) + 1 <= Len(s)) /\ Len(s) + 1 - 1 = Len(s)
      BY <1>1
    <3>2. \A j \in 1..Len(s) : s[j] # word
      BY <2>1
    <3>3. Found(Len(s) + 1)
      BY <3>1, <3>2
    <3>4. QED
      BY <3>1, <3>3
  <2>2. CASE places # {}
    <3>1. PICK i \in places : \A j \in places : i <= j
      <4>1. places \subseteq Nat
        BY <1>1
      <4>2. QED
        BY <2>2, <4>1, LeastElement
    <3>2. i \in 1..Len(s) + 1 /\ i \in 1..Len(s) /\ s[i] = word
      BY <1>1, <3>1
    <3>3. \A j \in 1..i - 1 : s[j] # word
      BY <1>1, <3>1, <3>2
    <3>4. QED
      BY <3>2, <3>3
  <2>3. QED
    BY <2>1, <2>2
<1>3. /\ Find(s, word) \in 1..Len(s) + 1
      /\ Found(Find(s, word))
  BY <1>2 DEF Find
<1>4. QED
  BY <1>3

\* Any part of a line is made of the same words.
LEMMA PartOfLine ==
    ASSUME NEW S, NEW s \in Seq(S), NEW m \in Nat \ {0}, NEW n \in Int, n <= Len(s)
    PROVE  SubSeq(s, m, n) \in Seq(S)
<1>1. \A i \in m..n : s[i] \in S
  <2>1. \A i \in m..n : i \in 1..Len(s)
    BY LenProperties
  <2>2. QED
    BY <2>1, ElementOfSeq
<1>2. QED
  BY <1>1, SubSeqProperties

\* ParseRequestLine keeps the fields' types whatever the line: the method is
\* stored only when it is known, path and version only when their ends are there.
LEMMA RequestLineType ==
    ASSUME NEW r, IsRequest(r), NEW line \in Seq(Word)
    PROVE  IsRequest(ParseRequestLine(r, line).request)
<1> DEFINE space1 == Find(line, "SP")
           rest == SubSeq(line, space1 + 1, Len(line))
           space2 == Find(rest, "SP")
           question == Find(rest, "?")
           version == SubSeq(rest, space2 + 1, Len(rest))
           withMethod == [r EXCEPT !.method = line[1]]
           withPath ==
             IF question <= Len(rest)
             THEN [withMethod EXCEPT !.path = SubSeq(rest, 1, question - 1),
                                     !.query = SubSeq(rest, question + 1, space2 - 1)]
             ELSE [withMethod EXCEPT !.path = SubSeq(rest, 1, space2 - 1)]
           result == ParseRequestLine(r, line)
<1>1. result = CASE space1 # 2 \/ ~ParseRequestMethod(line[1]) -> [ok |-> FALSE, request |-> r]
          [] space1 = 2 /\ ParseRequestMethod(line[1]) /\ space2 > Len(rest) ->
                [ok |-> FALSE, request |-> withMethod]
          [] OTHER ->
                IF Len(version) = 1 /\ version[1] \in Versions
                THEN [ok |-> TRUE, request |-> [withPath EXCEPT !.version = version[1]]]
                ELSE [ok |-> FALSE, request |-> [withPath EXCEPT !.version = "kUnknown"]]
  BY DEF ParseRequestLine
<1>2. space1 \in 1..Len(line) + 1 /\ Len(line) \in Nat
  BY FindProperties, LenProperties
<1>3. rest \in Seq(Word)
  BY <1>2, PartOfLine
<1> HIDE DEF rest, result, space1, version
<1>4. /\ space2 \in 1..Len(rest) + 1 /\ question \in 1..Len(rest) + 1 /\ Len(rest) \in Nat
  BY <1>3, FindProperties, LenProperties
<1> HIDE DEF space2, question
<1>5. ASSUME line[1] \in Methods
      PROVE  IsRequest(withMethod)
  BY <1>5 DEF IsRequest
<1>6. ASSUME line[1] \in Methods, ~(space2 > Len(rest))
      PROVE  IsRequest(withPath)
  <2>1. SubSeq(rest, 1, question - 1) \in Seq(Word) /\ SubSeq(rest, 1, space2 - 1) \in Seq(Word)
    BY <1>3, <1>4, PartOfLine
  <2>2. IsRequest(withMethod)
    BY <1>5, <1>6
  <2> HIDE DEF withMethod
  <2>3. QED
    BY <2>1, <2>2 DEF IsRequest
<1> HIDE DEF withMethod, withPath
<1>7. CASE space1 # 2 \/ ~ParseRequestMethod(line[1])
  BY <1>1, <1>7 DEF result
<1>8. CASE space1 = 2 /\ ParseRequestMethod(line[1]) /\ space2 > Len(rest)
  <2>1. result = [ok |-> FALSE, request |-> withMethod]
    BY <1>1, <1>8
  <2>2. QED
    BY <1>5, <1>8, <2>1 DEF result, ParseRequestMethod
<1>9. CASE space1 = 2 /\ ParseRequestMethod(line[1]) /\ ~(space2 > Len(rest))
  <2> DEFINE accepted == [withPath EXCEPT !.version = version[1]]
             rejected == [withPath EXCEPT !.version = "kUnknown"]
  <2>1. IsRequest(withPath)
    BY <1>6, <1>9 DEF ParseRequestMethod
  <2>2. IsRequest(rejected) /\ (version[1] \in Versions => IsRequest(accepted))
    BY <2>1 DEF IsRequest
  <2>3. result = IF Len(version) = 1 /\ version[1] \in Versions
                 THEN [ok |-> TRUE, request |-> accepted]
                 ELSE [ok |-> FALSE, request |-> rejected]
    BY <1>1, <1>9
  <2> HIDE DEF accepted, rejected
  <2>4. QED
    BY <2>2, <2>3 DEF result
<1>10. QED
  BY <1>7, <1>8, <1>9

\* A header changes the headers only.
LEMMA HeadersType ==
    ASSUME NEW r, IsRequest(r), NEW line
    PROVE  IsRequest(ParseHeaders(r, line))
BY DEF IsRequest, ParseHeaders

-----------------------------------------------------------------------------
(* The input *)

\* The bytes from m to n without the first k of them.
LEMMA WithoutFirst ==
    ASSUME NEW S, NEW s \in Seq(S), NEW m \in 1..Len(s) + 1, NEW n \in m - 1..Len(s),
           NEW k \in 0..n - m + 1
    PROVE  SubSeq(SubSeq(s, m, n), k + 1, n - m + 1) = SubSeq(s, m + k, n)
<1>1. Len(s) \in Nat /\ m \in Int /\ n \in Int /\ k \in Int
  BY LenProperties
<1>2. CASE k = n - m + 1
  <2>1. n < m + k /\ n - m + 1 < k + 1 /\ k + 1 \in Int /\ m + k \in Int /\ n - m + 1 \in Int
    BY <1>1, <1>2
  <2>2. SubSeq(s, m + k, n) = << >>
    BY <1>1, <2>1, SubSeqEmpty
  <2>3. SubSeq(SubSeq(s, m, n), k + 1, n - m + 1) = << >>
    BY <2>1, SubSeqEmpty
  <2>4. QED
    BY <2>2, <2>3
<1>3. CASE k # n - m + 1
  <2> DEFINE from == k + 1
             to == n - m + 1
  <2>1. /\ m \in 1..Len(s) /\ n \in 1..Len(s)
        /\ from \in 1..n - m + 1 /\ to \in 1..n - m + 1
        /\ m + from - 1 = m + k /\ m + to - 1 = n
    BY <1>1, <1>3
  <2> HIDE DEF from, to
  <2>2. SubSeq(SubSeq(s, m, n), from, to) = SubSeq(s, m + from - 1, m + to - 1)
    BY <2>1, SubSeqOfSubSeq
  <2>3. QED
    BY <2>1, <2>2 DEF from, to
<1>4. QED
  BY <1>2, <1>3

\* The part of a sequence from m to n has n - m + 1 elements.
LEMMA PartLength ==
    ASSUME NEW S, NEW s \in Seq(S), NEW m \in Nat \ {0}, NEW n \in m - 1..Len(s)
    PROVE  Len(SubSeq(s, m, n)) = n - m + 1
<1>1. Len(s) \in Nat /\ m \in Int /\ n \in Int
  BY LenProperties
<1>2. \A i \in m..n : s[i] \in S
  <2>1. \A i \in m..n : i \in 1..Len(s)
    BY <1>1
  <2>2. QED
    BY <2>1, ElementOfSeq
<1>3. Len(SubSeq(s, m, n)) = IF m <= n THEN n - m + 1 ELSE 0
  BY <1>1, <1>2, SubSeqProperties
<1>4. QED
  BY <1>1, <1>3

\* What readv delivers of the stream goes behind what was there.
LEMMA ReadKeepsStream ==
    ASSUME Typing, InputIsStream, HandleRead
    PROVE  /\ received' \in 0..Len(stream) /\ taken \in 0..received'
           /\ IsBuffer(inputBuffer_', Word)
           /\ Content(inputBuffer_') = SubSeq(stream, taken + 1, received')
<1>1. /\ stream \in Seq(Word) /\ Len(stream) \in Nat
      /\ received \in Nat /\ taken \in Nat /\ taken <= received /\ received <= Len(stream)
      /\ Blank \in Word /\ IsBuffer(inputBuffer_, Word)
  BY LenProperties, WordAssumption DEF Typing
<1>2. ReadCapacity(inputBuffer_) \in Nat
  BY <1>1, Indices, SizeAssumption DEF ReadCapacity
<1>3. PICK n \in 1..ReadCapacity(inputBuffer_) :
          /\ received + n <= Len(stream)
          /\ received' = received + n
          /\ inputBuffer_' = ReadFd(inputBuffer_, SubSeq(stream, received + 1, received + n))
  BY DEF HandleRead
<1>4. n \in Nat
  BY <1>2
<1> DEFINE data == SubSeq(stream, received + 1, received + n)
<1>5. data \in Seq(Word)
  <2>1. received + 1 \in Nat \ {0} /\ received + n \in Int
    BY <1>1, <1>4
  <2>2. QED
    BY <1>1, <1>3, <2>1, PartOfLine
<1>6. SubSeq(stream, taken + 1, received) \o data = SubSeq(stream, taken + 1, received + n)
  <2>1. /\ taken + 1 \in 1..Len(stream) + 1
        /\ received \in (taken + 1) - 1..Len(stream)
        /\ received + n \in received..Len(stream)
    BY <1>1, <1>3, <1>4
  <2>2. QED
    BY <1>1, <2>1, ConcatAdjacentSubSeq
<1>7. inputBuffer_' = ReadFd(inputBuffer_, data) /\ received' = received + n
  BY <1>3
<1> HIDE DEF data
<1>8. /\ IsBuffer(inputBuffer_', Word)
      /\ Content(inputBuffer_') = Content(inputBuffer_) \o data
  BY <1>1, <1>5, <1>7, ReadFdAppends
<1>9. received' \in 0..Len(stream) /\ taken \in 0..received'
  BY <1>1, <1>3, <1>4
<1>10. QED
  BY <1>6, <1>7, <1>8, <1>9 DEF InputIsStream

\* Taking a line takes it and its CR and LF, the earliest in the buffer.
LEMMA LineTaken ==
    ASSUME Typing, InputIsStream, HasLine, RetrieveLine
    PROVE  /\ taken' \in 0..received
           /\ IsBuffer(inputBuffer_', Word)
           /\ Content(inputBuffer_') = SubSeq(stream, taken' + 1, received)
           /\ Line \in Seq(Word)
<1> DEFINE s == Content(inputBuffer_)
           e == FindCRLF(inputBuffer_)
           k == e + 1
<1>1. /\ stream \in Seq(Word) /\ Len(stream) \in Nat
      /\ received \in Nat /\ taken \in Nat /\ taken <= received /\ received <= Len(stream)
      /\ IsBuffer(inputBuffer_, Word)
  BY LenProperties DEF Typing
<1>2. s \in Seq(Word) /\ Len(s) = ReadableBytes(inputBuffer_) /\ Len(s) \in Nat
  BY <1>1, ContentProperties, Indices
<1>3. s = SubSeq(stream, taken + 1, received)
  BY DEF InputIsStream
<1>4. Len(s) = received - taken
  <2>1. taken + 1 \in Nat \ {0} /\ received \in (taken + 1) - 1..Len(stream)
    BY <1>1
  <2>2. Len(SubSeq(stream, taken + 1, received)) = received - (taken + 1) + 1
    BY <1>1, <2>1, PartLength
  <2>3. QED
    BY <1>1, <1>3, <2>2
<1>5. e \in LineEnds(s)
  <2>1. LineEnds(s) # {}
    BY DEF HasLine
  <2>2. LineEnds(s) \subseteq Nat
    BY <1>2 DEF LineEnds
  <2>3. \E i \in LineEnds(s) : \A j \in LineEnds(s) : i <= j
    BY <2>1, <2>2, LeastElement
  <2>4. QED
    BY <2>3 DEF FindCRLF
<1> HIDE DEF e
<1>6. e \in 1..Len(s) - 1
  BY <1>5 DEF LineEnds
<1>7. k \in 0..Len(s) /\ k \in Nat
  BY <1>2, <1>6
<1>8. inputBuffer_' = RetrieveUntilIdx(inputBuffer_, k) /\ taken' = taken + k
  BY <1>1, <1>2, <1>6 DEF RetrieveLine, e
<1>9. Line \in Seq(Word)
  <2>1. e - 1 \in Int /\ e - 1 <= Len(s) /\ 1 \in Nat \ {0}
    BY <1>2, <1>6
  <2>2. SubSeq(s, 1, e - 1) \in Seq(Word)
    BY <1>2, <2>1, PartOfLine
  <2>3. QED
    BY <2>2 DEF Line, e
<1> HIDE DEF k, s
<1>10. /\ IsBuffer(inputBuffer_', Word)
       /\ Content(inputBuffer_') = SubSeq(s, k + 1, Len(s))
  BY <1>1, <1>2, <1>7, <1>8, RetrieveUntilIdxTakes DEF s
<1>11. SubSeq(s, k + 1, Len(s)) = SubSeq(stream, taken + k + 1, received)
  <2> DEFINE m == taken + 1
  <2>1. /\ m \in 1..Len(stream) + 1 /\ received \in m - 1..Len(stream)
        /\ k \in 0..received - m + 1 /\ Len(s) = received - m + 1
        /\ m + k = taken + k + 1
    BY <1>1, <1>4, <1>7
  <2>2. s = SubSeq(stream, m, received)
    BY <1>3
  <2> HIDE DEF m
  <2>3. SubSeq(SubSeq(stream, m, received), k + 1, received - m + 1) = SubSeq(stream, m + k, received)
    BY <1>1, <2>1, WithoutFirst
  <2>4. QED
    BY <2>1, <2>2, <2>3
<1>12. taken' \in 0..received
  BY <1>1, <1>4, <1>7, <1>8
<1>13. QED
  BY <1>8, <1>9, <1>10, <1>11, <1>12

-----------------------------------------------------------------------------
(* The output *)

\* An answer is made of words.
LEMMA ResponseType ==
    ASSUME NEW r
    PROVE  /\ AppendToBuffer(Response(r)) \in Seq(Word)
           /\ Response(r).close \in BOOLEAN
<1> DEFINE w == WantsClose(r)
           p == Response(r)
<1>1. w \in BOOLEAN
  BY Zenon DEF WantsClose
<1>2. \A x \in AnswerWords : x \in Word
  BY WordAssumption
<1>3. /\ "200" \in Word /\ "400" \in Word /\ "404" \in Word
      /\ "close" \in Word /\ "Keep-Alive" \in Word
      /\ "Website" \in Word /\ "NotFound" \in Word
  BY <1>2 DEF AnswerWords
<1> HIDE DEF w
<1> DEFINE other == [status |-> "400", close |-> TRUE, body |-> << >>]
           website == [status |-> "200", close |-> w, body |-> <<"Website">>]
           notFound == [status |-> "404", close |-> w, body |-> <<"NotFound">>]
<1>4. p = other \/ p = website \/ p = notFound
  BY DEF Response, HttpResponse, w
<1> HIDE DEF p
<1>5. << >> \in Seq(Word) /\ <<"Website">> \in Seq(Word) /\ <<"NotFound">> \in Seq(Word)
  BY <1>3, EmptySeq
<1>6. p.status \in Word /\ p.body \in Seq(Word) /\ p.close \in BOOLEAN
  <2>1. CASE p = other
    BY <1>3, <1>5, <2>1
  <2>2. CASE p = website
    BY <1>1, <1>3, <1>5, <2>2
  <2>3. CASE p = notFound
    BY <1>1, <1>3, <1>5, <2>3
  <2>4. QED
    BY <1>4, <2>1, <2>2, <2>3
<1> DEFINE connection == IF p.close THEN "close" ELSE "Keep-Alive"
           first == <<p.status, connection>>
<1>7. connection \in Word
  BY <1>3
<1> HIDE DEF connection
<1>8. first \in Seq(Word)
  BY <1>6, <1>7
<1> HIDE DEF first
<1>9. first \o p.body \in Seq(Word)
  BY <1>6, <1>8, ConcatProperties
<1>10. QED
  BY <1>6, <1>9 DEF AppendToBuffer, first, connection, p

\* Sequences of words put together in three parts.
LEMMA Regroup ==
    ASSUME NEW S, NEW s \in Seq(S), NEW t \in Seq(S), NEW u \in Seq(S)
    PROVE  (s \o t) \o u = s \o (t \o u) /\ s \o t \in Seq(S)
BY ConcatAssociative, ConcatProperties

\* A message is kept in its place behind what waits: part of it may go at once
\* only when nothing waits (TcpConnection::sendInLoop).
LEMMA SendKeepsOrder ==
    ASSUME Typing, OutputIsAnswers, NEW message \in Seq(Word), Send(message)
    PROVE  /\ IsBuffer(outputBuffer_', Word)
           /\ sent' \in Seq(Word) /\ promised' \in Seq(Word)
           /\ sent' \o Content(outputBuffer_') = promised'
<1> DEFINE s == Content(outputBuffer_)
<1>1. /\ IsBuffer(outputBuffer_, Word) /\ Blank \in Word
      /\ sent \in Seq(Word) /\ promised \in Seq(Word)
      /\ Len(message) \in Nat
  BY WordAssumption, LenProperties DEF Typing
<1>2. s \in Seq(Word) /\ Len(s) = ReadableBytes(outputBuffer_) /\ Len(s) \in Nat
  BY <1>1, ContentProperties, Indices
<1>3. sent \o s = promised
  BY DEF OutputIsAnswers
<1>4. promised \o message \in Seq(Word)
  BY <1>1, ConcatProperties
<1>5. CASE IsWriting /\ outputBuffer_' = AppendData(outputBuffer_, message)
           /\ promised' = promised \o message /\ UNCHANGED sent
  <2>1. IsBuffer(outputBuffer_', Word) /\ Content(outputBuffer_') = s \o message
    BY <1>1, <1>5, AppendDataAppends
  <2> HIDE DEF s
  <2>2. (sent \o s) \o message = sent \o (s \o message)
    <3>1. sent \in Seq(Word) /\ s \in Seq(Word) /\ message \in Seq(Word)
      BY <1>1, <1>2
    <3>2. QED
      BY <3>1, Regroup
  <2>3. QED
    BY <1>1, <1>3, <1>4, <1>5, <2>1, <2>2
<1>6. CASE ~IsWriting /\ WriteFirst(message)
  <2>1. s = << >>
    <3>1. ~(Len(s) > 0)
      BY <1>2, <1>6 DEF IsWriting
    <3>2. QED
      BY <1>2, <3>1, EmptySeq
  <2>2. sent = promised
    BY <1>1, <1>3, <2>1, ConcatEmptySeq
  <2>3. PICK n \in 0..Len(message) :
          /\ sent' = sent \o SubSeq(message, 1, n)
          /\ outputBuffer_' = IF n = Len(message) THEN outputBuffer_
                              ELSE AppendData(outputBuffer_, SubSeq(message, n + 1, Len(message)))
    BY <1>6 DEF WriteFirst
  <2> DEFINE gone == SubSeq(message, 1, n)
             rest == SubSeq(message, n + 1, Len(message))
  <2>4. /\ gone \in Seq(Word) /\ rest \in Seq(Word) /\ gone \o rest = message
        /\ (n = Len(message) => gone = message)
    BY TwoParts, SubSeqFull
  <2>5. promised' = promised \o message
    BY <1>6 DEF WriteFirst
  <2>6. sent' = sent \o gone
        /\ outputBuffer_' = IF n = Len(message) THEN outputBuffer_
                            ELSE AppendData(outputBuffer_, rest)
    BY <2>3
  <2> HIDE DEF gone, rest
  <2>7. sent' \in Seq(Word)
    BY <1>1, <2>4, <2>6, ConcatProperties
  <2>8. CASE n = Len(message)
    <3>1. outputBuffer_' = outputBuffer_ /\ sent' = promised'
      BY <2>2, <2>4, <2>5, <2>6, <2>8
    <3>2. Content(outputBuffer_') = << >>
      BY <2>1, <3>1
    <3>3. sent' \o << >> = sent'
      BY <2>7, ConcatEmptySeq
    <3>4. QED
      BY <1>1, <1>4, <2>5, <2>7, <3>1, <3>2, <3>3
  <2>9. CASE n # Len(message)
    <3>1. outputBuffer_' = AppendData(outputBuffer_, rest)
      BY <2>6, <2>9
    <3>2. IsBuffer(outputBuffer_', Word) /\ Content(outputBuffer_') = s \o rest
      BY <1>1, <2>4, <3>1, AppendDataAppends
    <3>3. s \o rest = rest
      BY <2>1, <2>4, ConcatEmptySeq
    <3>4. (sent \o gone) \o rest = sent \o (gone \o rest)
      <4>1. sent \in Seq(Word) /\ gone \in Seq(Word) /\ rest \in Seq(Word)
        BY <1>1, <2>4
      <4>2. QED
        BY <4>1, Regroup
    <3>5. QED
      BY <1>4, <2>2, <2>4, <2>5, <2>6, <2>7, <3>2, <3>3, <3>4
  <2>10. QED
    BY <2>8, <2>9
<1>7. CASE UNCHANGED outputVars
  BY <1>1, <1>3, <1>7 DEF outputVars
<1>8. QED
  BY <1>5, <1>6, <1>7 DEF Send

\* The socket takes bytes from the front (TcpConnection::handleWrite).
LEMMA WriteKeepsOrder ==
    ASSUME Typing, OutputIsAnswers, HandleWrite
    PROVE  /\ IsBuffer(outputBuffer_', Word)
           /\ sent' \in Seq(Word)
           /\ sent' \o Content(outputBuffer_') = promised
<1>1. /\ IsBuffer(outputBuffer_, Word)
      /\ sent \in Seq(Word) /\ sent \o Content(outputBuffer_) = promised
  BY DEF Typing, OutputIsAnswers
<1>2. ReadableBytes(outputBuffer_) \in Nat
  BY <1>1, Indices
<1>3. PICK n \in 1..ReadableBytes(outputBuffer_) :
          /\ sent' = sent \o WriteFd(outputBuffer_, n)
          /\ outputBuffer_' = Retrieve(outputBuffer_, n)
  BY DEF HandleWrite
<1> DEFINE gone == WriteFd(outputBuffer_, n)
           rest == Content(outputBuffer_')
<1>4. n \in 0..ReadableBytes(outputBuffer_)
  BY <1>2
<1>5. IsBuffer(outputBuffer_', Word) /\ gone \o rest = Content(outputBuffer_)
  BY <1>1, <1>3, <1>4, RetrieveTakes
<1>6. gone \in Seq(Word)
  <2>1. n \in 0..Len(Content(outputBuffer_)) /\ Content(outputBuffer_) \in Seq(Word)
    BY <1>1, <1>4, ContentProperties
  <2>2. QED
    BY <2>1, TwoParts DEF WriteFd
<1>7. rest \in Seq(Word)
  BY <1>5, ContentProperties
<1> HIDE DEF gone, rest
<1>8. (sent \o gone) \o rest = sent \o (gone \o rest) /\ sent \o gone \in Seq(Word)
  BY <1>1, <1>6, <1>7, Regroup
<1>9. QED
  BY <1>1, <1>3, <1>5, <1>8 DEF gone, rest

-----------------------------------------------------------------------------
(* The invariant *)

\* A new connection satisfies the invariant.
LEMMA InitHttp == Init => HttpInvariant
<1> SUFFICES ASSUME Init PROVE HttpInvariant
  OBVIOUS
<1>1. stream \in Seq(Word) /\ Len(stream) \in Nat
  BY WordAssumption, LenProperties DEF Init
<1>2. IsBuffer(EmptyBuffer, Word) /\ Content(EmptyBuffer) = << >>
  BY WordAssumption, EmptyIsBuffer
<1>3. IsRequest(NoRequest)
  BY EmptySeq DEF IsRequest, NoRequest
<1>4. << >> \in Seq(Word) /\ << >> \in Seq(Answer)
  BY EmptySeq
<1>5. Typing
  BY <1>1, <1>2, <1>3, <1>4 DEF Init, Typing
<1>6. InputIsStream
  <2>1. SubSeq(stream, 0 + 1, 0) = << >>
    BY SubSeqEmpty
  <2>2. QED
    BY <1>2, <2>1 DEF Init, InputIsStream
<1>7. OutputIsAnswers
  BY <1>2, <1>4, ConcatEmptySeq DEF Init, OutputIsAnswers
<1>8. WaitsOnlyAfterAnswer
  <2>1. LineEnds(<< >>) = {}
    <3>1. Len(<< >>) = 0
      BY EmptySeq
    <3>2. QED
      BY <3>1 DEF LineEnds
  <2>2. ~HasLine
    BY <1>2, <2>1 DEF Init, HasLine
  <2>3. QED
    BY <2>2 DEF WaitsOnlyAfterAnswer
<1>9. QED
  BY <1>5, <1>6, <1>7, <1>8 DEF HttpInvariant

\* What a read delivers goes behind what the buffer holds.
LEMMA HandleReadKeeps == HttpInvariant /\ HandleRead => HttpInvariant'
<1> SUFFICES ASSUME HttpInvariant, HandleRead PROVE HttpInvariant'
  OBVIOUS
<1>1. Typing /\ InputIsStream /\ OutputIsAnswers
  BY DEF HttpInvariant
<1>2. /\ received' \in 0..Len(stream) /\ taken \in 0..received'
      /\ IsBuffer(inputBuffer_', Word)
      /\ Content(inputBuffer_') = SubSeq(stream, taken + 1, received')
  BY <1>1, ReadKeepsStream
<1>3. /\ UNCHANGED <<stream, due, parseVars, outputVars, state_, answers>>
      /\ pc' = IF state_ = "kDisConnecting" THEN "wait" ELSE "parse"
  BY DEF HandleRead
<1>4. Typing'
  BY <1>1, <1>2, <1>3 DEF Typing, parseVars, outputVars
<1>5. InputIsStream' /\ OutputIsAnswers'
  BY <1>1, <1>2, <1>3 DEF InputIsStream, OutputIsAnswers, parseVars, outputVars
<1>6. WaitsOnlyAfterAnswer'
  BY <1>3 DEF WaitsOnlyAfterAnswer
<1>7. QED
  BY <1>4, <1>5, <1>6 DEF HttpInvariant

\* A parser that waits without having answered has no line left.
LEMMA NoLineKeeps == HttpInvariant /\ NoLine => HttpInvariant'
<1> SUFFICES ASSUME HttpInvariant, NoLine PROVE HttpInvariant'
  OBVIOUS
<1>1. Typing'
  BY DEF HttpInvariant, NoLine, Typing, inputVars, parseVars, outputVars
<1>2. InputIsStream' /\ OutputIsAnswers'
  BY DEF HttpInvariant, NoLine, InputIsStream, OutputIsAnswers, inputVars, parseVars, outputVars
<1>3. WaitsOnlyAfterAnswer'
  BY DEF NoLine, WaitsOnlyAfterAnswer, HasLine
<1>4. QED
  BY <1>1, <1>2, <1>3 DEF HttpInvariant

\* A request line is taken from the front, and a refusal sent at most.
LEMMA RequestLineKeeps == HttpInvariant /\ RequestLine => HttpInvariant'
<1> SUFFICES ASSUME HttpInvariant, RequestLine PROVE HttpInvariant'
  OBVIOUS
<1>1. Typing /\ InputIsStream /\ OutputIsAnswers
  BY DEF HttpInvariant
<1>2. /\ taken' \in 0..received /\ IsBuffer(inputBuffer_', Word)
      /\ Content(inputBuffer_') = SubSeq(stream, taken' + 1, received)
      /\ Line \in Seq(Word)
  BY <1>1, LineTaken DEF RequestLine
<1> DEFINE result == ParseRequestLine(request_, Line)
<1>3. IsRequest(result.request)
  BY <1>1, <1>2, RequestLineType DEF Typing
<1>4. /\ request_' = result.request
      /\ \/ /\ parse_state_' = "kParseRequestHeader"
            /\ pc' = "parse"
            /\ UNCHANGED <<state_, outputVars>>
         \/ /\ Send(<<"400", "BadRequest">>)
            /\ state_' = "kDisConnecting"
            /\ pc' = "wait"
            /\ UNCHANGED parse_state_
      /\ UNCHANGED <<inputVars, answers>>
  BY Zenon DEF RequestLine, LineMore
<1> HIDE DEF result
<1>5. <<"400", "BadRequest">> \in Seq(Word)
  <2>1. \A x \in AnswerWords : x \in Word
    BY WordAssumption
  <2>2. "400" \in Word /\ "BadRequest" \in Word
    BY <2>1 DEF AnswerWords
  <2>3. QED
    BY <2>2
<1>6. /\ IsBuffer(outputBuffer_', Word) /\ sent' \in Seq(Word) /\ promised' \in Seq(Word)
      /\ sent' \o Content(outputBuffer_') = promised'
  <2>1. CASE Send(<<"400", "BadRequest">>)
    BY <1>1, <1>5, <2>1, SendKeepsOrder
  <2>2. CASE UNCHANGED outputVars
    BY <1>1, <2>2 DEF Typing, OutputIsAnswers, outputVars
  <2>3. QED
    BY <1>4, <2>1, <2>2
<1>7. /\ pc' \in {"wait", "parse", "answer"}
      /\ parse_state_' \in {"kParseRequestLine", "kParseRequestHeader", "kParseGotCompleteRequest"}
      /\ state_' \in {"kConnected", "kDisConnecting"}
  BY <1>1, <1>4 DEF Typing
<1>8. UNCHANGED <<stream, received, answers>> /\ request_' = result.request
  BY <1>4 DEF inputVars
<1>9. Typing'
  BY <1>1, <1>2, <1>3, <1>6, <1>7, <1>8 DEF Typing
<1>10. InputIsStream' /\ OutputIsAnswers'
  BY <1>2, <1>6, <1>8 DEF InputIsStream, OutputIsAnswers
<1>11. WaitsOnlyAfterAnswer'
  BY <1>4 DEF WaitsOnlyAfterAnswer
<1>12. QED
  BY <1>9, <1>10, <1>11 DEF HttpInvariant

\* So is a header line, or the line that ends the headers.
LEMMA HeaderLineKeeps == HttpInvariant /\ HeaderLine => HttpInvariant'
<1> SUFFICES ASSUME HttpInvariant, HeaderLine PROVE HttpInvariant'
  OBVIOUS
<1>1. Typing /\ InputIsStream /\ OutputIsAnswers
  BY DEF HttpInvariant
<1>2. /\ taken' \in 0..received /\ IsBuffer(inputBuffer_', Word)
      /\ Content(inputBuffer_') = SubSeq(stream, taken' + 1, received)
  BY <1>1, LineTaken DEF HeaderLine
<1>3. /\ request_' = request_ \/ request_' = ParseHeaders(request_, Line)
      /\ parse_state_' = parse_state_ \/ parse_state_' = "kParseGotCompleteRequest"
      /\ pc' = "parse" \/ pc' = "answer"
      /\ UNCHANGED <<inputVars, outputVars, state_, answers>>
  BY Zenon DEF HeaderLine, LineMore
<1>4. IsRequest(request_')
  BY <1>1, <1>3, HeadersType DEF Typing
<1>5. UNCHANGED <<stream, received, outputBuffer_, promised, sent, state_, answers>>
  BY <1>3 DEF inputVars, outputVars
<1>6. Typing'
  BY <1>1, <1>2, <1>3, <1>4, <1>5 DEF Typing
<1>7. InputIsStream' /\ OutputIsAnswers'
  BY <1>1, <1>2, <1>5 DEF InputIsStream, OutputIsAnswers
<1>8. WaitsOnlyAfterAnswer'
  BY <1>3 DEF WaitsOnlyAfterAnswer
<1>9. QED
  BY <1>6, <1>7, <1>8 DEF HttpInvariant

\* An answer goes behind the answers before it, and the parser starts again.
LEMMA DealWithRequestKeeps == HttpInvariant /\ DealWithRequest => HttpInvariant'
<1> SUFFICES ASSUME HttpInvariant, DealWithRequest PROVE HttpInvariant'
  OBVIOUS
<1>1. Typing /\ InputIsStream /\ OutputIsAnswers
  BY DEF HttpInvariant
<1> DEFINE message == AppendToBuffer(Response(request_))
           close == Response(request_).close
           answer == [end |-> taken - 1, method |-> request_.method,
                      path |-> request_.path, version |-> request_.version, close |-> close]
<1>2. message \in Seq(Word) /\ close \in BOOLEAN
  BY ResponseType
<1>3. /\ Send(message)
      /\ state_' = IF close THEN "kDisConnecting" ELSE state_
      /\ answers' = Append(answers, answer)
      /\ parse_state_' = "kParseRequestLine" /\ pc' = "wait"
      /\ UNCHANGED <<inputVars, taken, request_, inputBuffer_>>
  BY DEF DealWithRequest, ResetContentState
<1> HIDE DEF message, close
<1>4. answer \in Answer
  <2>1. taken \in Int
    BY <1>1 DEF Typing
  <2>2. /\ request_.method \in Methods \cup {""} /\ request_.path \in Seq(Word)
        /\ request_.version \in Versions \cup {"", "kUnknown"}
    BY <1>1 DEF Typing, IsRequest
  <2>3. taken - 1 \in Int
    BY <2>1
  <2>4. QED
    BY <1>2, <2>2, <2>3 DEF Answer
<1>5. answer.end = taken - 1
  OBVIOUS
<1> HIDE DEF answer
<1>6. /\ answers' \in Seq(Answer) /\ answers' # << >>
      /\ answers'[Len(answers')] = answer
  <2>1. answers \in Seq(Answer)
    BY <1>1 DEF Typing
  <2>2. QED
    BY <1>3, <1>4, <2>1, AppendProperties
<1>7. /\ IsBuffer(outputBuffer_', Word) /\ sent' \in Seq(Word) /\ promised' \in Seq(Word)
      /\ sent' \o Content(outputBuffer_') = promised'
  BY <1>1, <1>2, <1>3, SendKeepsOrder
<1>8. state_' \in {"kConnected", "kDisConnecting"}
  BY <1>1, <1>3 DEF Typing
<1>9. UNCHANGED <<stream, received, taken, request_, inputBuffer_>>
  BY <1>3 DEF inputVars
<1>10. Typing'
  BY <1>1, <1>3, <1>6, <1>7, <1>8, <1>9 DEF Typing
<1>11. InputIsStream' /\ OutputIsAnswers'
  BY <1>1, <1>7, <1>9 DEF InputIsStream, OutputIsAnswers
<1>12. WaitsOnlyAfterAnswer'
  BY <1>3, <1>5, <1>6, <1>9 DEF WaitsOnlyAfterAnswer
<1>13. QED
  BY <1>10, <1>11, <1>12 DEF HttpInvariant

\* What the socket takes comes from the front of the output.
LEMMA HandleWriteKeeps == HttpInvariant /\ HandleWrite => HttpInvariant'
<1> SUFFICES ASSUME HttpInvariant, HandleWrite PROVE HttpInvariant'
  OBVIOUS
<1>1. Typing /\ InputIsStream /\ OutputIsAnswers /\ WaitsOnlyAfterAnswer
  BY DEF HttpInvariant
<1>2. /\ IsBuffer(outputBuffer_', Word) /\ sent' \in Seq(Word)
      /\ sent' \o Content(outputBuffer_') = promised
  BY <1>1, WriteKeepsOrder
<1>3. UNCHANGED <<stream, received, taken, parse_state_, request_, inputBuffer_, pc, state_,
                  answers, promised>>
  BY DEF HandleWrite, inputVars, parseVars
<1>4. Typing'
  BY <1>1, <1>2, <1>3 DEF Typing
<1>5. InputIsStream' /\ OutputIsAnswers'
  BY <1>1, <1>2, <1>3 DEF InputIsStream, OutputIsAnswers
<1>6. WaitsOnlyAfterAnswer'
  BY <1>1, <1>3 DEF WaitsOnlyAfterAnswer, HasLine
<1>7. QED
  BY <1>4, <1>5, <1>6 DEF HttpInvariant

\* A step of the rest of the system changes nothing.
LEMMA StutterKeeps == HttpInvariant /\ UNCHANGED vars => HttpInvariant'
<1> SUFFICES ASSUME HttpInvariant, UNCHANGED vars PROVE HttpInvariant'
  OBVIOUS
<1>1. UNCHANGED <<stream, received, taken, parse_state_, request_, inputBuffer_, outputBuffer_,
                  pc, state_, answers, promised, sent>>
  BY DEF vars, inputVars, parseVars, outputVars
<1>2. Typing'
  BY <1>1 DEF HttpInvariant, Typing
<1>3. InputIsStream' /\ OutputIsAnswers' /\ WaitsOnlyAfterAnswer'
  BY <1>1 DEF HttpInvariant, InputIsStream, OutputIsAnswers, WaitsOnlyAfterAnswer, HasLine
<1>4. QED
  BY <1>2, <1>3 DEF HttpInvariant

-----------------------------------------------------------------------------
(* The theorems *)

\* The inductive invariant: what is in the buffers, and where the parser is when
\* a connection waits (TcpConnection.cc, httpContent.cc, httpServer.cc:20-47).
THEOREM HttpInvariantHolds == Spec => []HttpInvariant
<1>1. HttpInvariant /\ [Next]_vars => HttpInvariant'
  BY HandleReadKeeps, NoLineKeeps, RequestLineKeeps, HeaderLineKeeps, DealWithRequestKeeps,
     HandleWriteKeeps, StutterKeeps
     DEF Next
<1>2. QED
  BY InitHttp, <1>1, PTL DEF Spec

\* The fields keep their types: a method that is not in the enum is never stored
\* (httpRequest.cc, httpContent.h).
THEOREM TypeCorrect == Spec => []TypeOK
<1>1. HttpInvariant => TypeOK
  BY DEF HttpInvariant, Typing, TypeOK, IsRequest, IsBuffer, Buffers, BufferType
<1>2. QED
  BY <1>1, HttpInvariantHolds, PTL

\* No mix of reads, lines taken, answers and partial writes puts the indices of a
\* buffer out of order, whatever the sizes (Buffer.h:152-165, Buffer.cc:40-46).
THEOREM BuffersInOrderHolds == Spec => []BuffersInOrder
<1>1. HttpInvariant => BuffersInOrder
  BY DEF HttpInvariant, Typing, BuffersInOrder, IsBuffer
<1>2. QED
  BY <1>1, HttpInvariantHolds, PTL

\* The parser gets the stream, every byte once, however it is cut and also when a
\* read spills over into the buffer on the stack (Buffer.cc:16-47).
THEOREM InputIsStreamHolds == Spec => []InputIsStream
<1>1. HttpInvariant => InputIsStream
  BY DEF HttpInvariant
<1>2. QED
  BY <1>1, HttpInvariantHolds, PTL

\* The peer gets the answers in the order they were given, whatever part of each
\* the socket takes at a time (sendInLoop and handleWrite of TcpConnection.cc).
THEOREM OutputIsAnswersHolds == Spec => []OutputIsAnswers
<1>1. HttpInvariant => OutputIsAnswers
  BY DEF HttpInvariant
<1>2. QED
  BY <1>1, HttpInvariantHolds, PTL

\* The only line left unread is the beginning of a request behind the one just
\* answered (httpServer.cc:33).
THEOREM WaitsOnlyAfterAnswerHolds == Spec => []WaitsOnlyAfterAnswer
<1>1. HttpInvariant => WaitsOnlyAfterAnswer
  BY DEF HttpInvariant
<1>2. QED
  BY <1>1, HttpInvariantHolds, PTL

-----------------------------------------------------------------------------
(* The lines of a stream *)

\* A set of numbers up to a bound has a greatest one.
LEMMA GreatestElement ==
    ASSUME NEW n \in Nat, NEW S, S \subseteq 0..n, S # {}
    PROVE  \E i \in S : \A j \in S : j <= i
<1> DEFINE T == {x \in 0..n : n - x \in S}
<1>1. T \subseteq Nat /\ T # {}
  <2>1. PICK j \in S : TRUE
    OBVIOUS
  <2>2. j \in 0..n
    BY <2>1
  <2>3. n - j \in 0..n /\ n - (n - j) = j
    BY <2>2
  <2>4. n - j \in T
    BY <2>1, <2>3
  <2>5. \A x \in T : x \in Nat
    OBVIOUS
  <2> HIDE DEF T
  <2>6. QED
    BY <2>4, <2>5
<1>2. PICK x \in T : \A y \in T : x <= y
  BY <1>1, LeastElement
<1>3. ASSUME NEW j \in S
      PROVE  j <= n - x
  <2>1. j \in 0..n /\ x \in 0..n
    BY <1>2, <1>3
  <2>2. n - j \in 0..n /\ n - (n - j) = j
    BY <2>1
  <2>3. n - j \in T
    BY <1>3, <2>2
  <2>4. x <= n - j
    BY <1>2, <2>3
  <2> HIDE DEF T
  <2>5. QED
    BY <2>1, <2>4
<1>4. n - x \in S
  BY <1>2
<1>5. QED
  BY <1>3, <1>4

\* The greatest of a set is the one that is.
LEMMA LatestIs ==
    ASSUME NEW S, S \subseteq Int, NEW d \in S, \A f \in S : f <= d
    PROVE  Latest(S) = d
<1>1. Latest(S) \in S /\ \A f \in S : f <= Latest(S)
  BY DEF Latest
<1>2. d <= Latest(S) /\ Latest(S) <= d /\ d \in Int /\ Latest(S) \in Int
  BY <1>1
<1>3. QED
  BY <1>2

\* A line end is a CR with an LF behind it.
LEMMA LineEndsAre ==
    ASSUME NEW W, NEW s \in Seq(W)
    PROVE  LineEnds(s) = {i \in 1..Len(s) - 1 : s[i] = "CR" /\ s[i + 1] = "LF"}
<1>1. ASSUME NEW i \in 1..Len(s) - 1
      PROVE  SubSeq(s, i, i + 1) = CRLF <=> s[i] = "CR" /\ s[i + 1] = "LF"
  <2> DEFINE t == SubSeq(s, i, i + 1)
  <2>1. i \in Int /\ i + 1 \in Int /\ i + 1 - i + 1 = 2 /\ i <= i + 1
    OBVIOUS
  <2>2. \A j \in i..i + 1 : s[j] \in W
    BY ElementOfSeq, LenProperties
  <2>3. t \in Seq(W) /\ Len(t) = 2 /\ \A j \in 1..2 : t[j] = s[i + j - 1]
    BY <2>1, <2>2, SubSeqProperties
  <2>4. t[1] = s[i] /\ t[2] = s[i + 1]
    BY <2>1, <2>3
  <2> HIDE DEF t
  <2>5. t = <<t[1], t[2]>>
    BY <2>3
  <2>6. t = <<"CR", "LF">> <=> t[1] = "CR" /\ t[2] = "LF"
    BY <2>5
  <2>7. QED
    BY <2>4, <2>6 DEF CRLF, t
<1>2. QED
  BY <1>1 DEF LineEnds

\* The line before another is the latest of those before it.
LEMMA LineBefore ==
    ASSUME NEW W, NEW s \in Seq(W), NEW e \in LineEnds(s), LinesBefore(s, e) # {}
    PROVE  /\ Latest(LinesBefore(s, e)) \in LineEnds(s)
           /\ Latest(LinesBefore(s, e)) < e
<1>1. Len(s) \in Nat
  BY LenProperties
<1>2. LinesBefore(s, e) \subseteq 0..Len(s)
  BY <1>1 DEF LinesBefore, LineEnds
<1>3. \E d \in LinesBefore(s, e) : \A f \in LinesBefore(s, e) : f <= d
  BY <1>1, <1>2, GreatestElement
<1>4. Latest(LinesBefore(s, e)) \in LinesBefore(s, e)
  BY <1>3 DEF Latest
<1>5. QED
  BY <1>4 DEF LinesBefore

\* The line ends up to n that start a request.
StartsUpTo(s, T, n) ==
    /\ T \subseteq LineEnds(s)
    /\ \A e \in LineEnds(s) : e <= n =>
          (e \in T <=> \/ LinesBefore(s, e) = {}
                       \/ /\ Latest(LinesBefore(s, e)) \notin T
                          /\ ":" \notin Range(LineAt(s, Latest(LinesBefore(s, e)))))
    /\ \A e \in T : e <= n

\* One more position adds one line end at most, and changes nothing before it.
LEMMA OneMore ==
    ASSUME NEW W, NEW s \in Seq(W), NEW n \in Nat, NEW T, StartsUpTo(s, T, n)
    PROVE  \E U : StartsUpTo(s, U, n + 1)
<1> DEFINE Starts(S, e) == \/ LinesBefore(s, e) = {}
                           \/ /\ Latest(LinesBefore(s, e)) \notin S
                              /\ ":" \notin Range(LineAt(s, Latest(LinesBefore(s, e))))
           U == T \cup {e \in LineEnds(s) : e = n + 1 /\ Starts(T, e)}
<1>1. LineEnds(s) \subseteq Nat /\ n \in Nat
  BY LenProperties DEF LineEnds
<1>2. U \subseteq LineEnds(s)
  BY DEF StartsUpTo
<1>3. \A e \in U : e <= n + 1
  <2>1. \A e \in T : e <= n /\ e \in Nat
    BY <1>1 DEF StartsUpTo
  <2>2. QED
    BY <1>1, <2>1
<1>4. \A e \in LineEnds(s) : e <= n => (e \in U <=> e \in T)
  BY <1>1
<1>5. ASSUME NEW e \in LineEnds(s), e <= n + 1
      PROVE  Starts(U, e) <=> Starts(T, e)
  <2>1. CASE LinesBefore(s, e) = {}
    BY <2>1
  <2>2. CASE LinesBefore(s, e) # {}
    <3>1. /\ Latest(LinesBefore(s, e)) \in LineEnds(s)
          /\ Latest(LinesBefore(s, e)) < e
      BY <2>2, LineBefore
    <3>2. Latest(LinesBefore(s, e)) <= n
      BY <1>1, <1>5, <3>1
    <3>3. Latest(LinesBefore(s, e)) \in U <=> Latest(LinesBefore(s, e)) \in T
      BY <1>4, <3>1, <3>2
    <3> HIDE DEF U
    <3>4. QED
      BY <3>3
  <2>3. QED
    BY <2>1, <2>2
<1>6. ASSUME NEW e \in LineEnds(s), e <= n + 1
      PROVE  e \in U <=> Starts(T, e)
  <2>1. CASE e <= n
    BY <1>4, <2>1 DEF StartsUpTo
  <2>2. CASE e = n + 1
    <3>1. \A f \in T : f <= n /\ f \in Nat
      BY <1>1 DEF StartsUpTo
    <3>2. e \notin T
      BY <1>1, <2>2, <3>1
    <3> HIDE DEF Starts
    <3>3. QED
      BY <2>2, <3>2
  <2>3. QED
    BY <1>1, <1>6, <2>1, <2>2
<1>7. \A e \in LineEnds(s) : e <= n + 1 => (e \in U <=> Starts(U, e))
  BY <1>5, <1>6
<1> HIDE DEF U
<1>8. StartsUpTo(s, U, n + 1)
  BY <1>2, <1>3, <1>7 DEF StartsUpTo
<1>9. QED
  BY <1>8

\* The set of request lines exists for every text: the least position up to which
\* there were none would be one more than a position up to which there is one.
LEMMA StartsExist ==
    ASSUME NEW W, NEW s \in Seq(W), NEW n \in Nat
    PROVE  \E T : StartsUpTo(s, T, n)
<1> DEFINE Bad == {m \in Nat : \A T : ~StartsUpTo(s, T, m)}
<1>1. CASE Bad = {}
  BY <1>1
<1>2. CASE Bad # {}
  <2>1. PICK m \in Bad : \A k \in Bad : m <= k
    BY <1>2, LeastElement
  <2>2. m \in Nat /\ \A T : ~StartsUpTo(s, T, m)
    BY <2>1
  <2>3. m # 0
    <3>1. \A e \in LineEnds(s) : ~(e <= 0)
      BY LenProperties DEF LineEnds
    <3>2. StartsUpTo(s, {}, 0)
      BY <3>1 DEF StartsUpTo
    <3>3. QED
      BY <2>2, <3>2
  <2>4. m - 1 \in Nat /\ ~(m <= m - 1) /\ m - 1 + 1 = m
    BY <2>2, <2>3
  <2>5. m - 1 \notin Bad
    BY <2>1, <2>4
  <2>6. PICK T : StartsUpTo(s, T, m - 1)
    BY <2>4, <2>5
  <2>7. \E U : StartsUpTo(s, U, m - 1 + 1)
    BY <2>4, <2>6, OneMore
  <2>8. QED
    BY <2>2, <2>4, <2>7
<1>3. QED
  BY <1>1, <1>2

(***************************************************************************)
(* In every text, of any length, a line starts a request exactly if it is  *)
(* the first or comes behind the end of a request: the reference is well   *)
(* defined.                                                                *)
(***************************************************************************)
THEOREM RequestLinesAre ==
    ASSUME NEW W, NEW s \in Seq(W)
    PROVE  /\ StartsRequest(s) \subseteq LineEnds(s)
           /\ \A e \in LineEnds(s) :
                 e \in StartsRequest(s) <=>
                    \/ LinesBefore(s, e) = {}
                    \/ /\ Latest(LinesBefore(s, e)) \notin StartsRequest(s)
                       /\ ":" \notin Range(LineAt(s, Latest(LinesBefore(s, e))))
<1> DEFINE Fixed(S) == \A e \in LineEnds(s) :
                          e \in S <=> \/ LinesBefore(s, e) = {}
                                      \/ LET d == Latest(LinesBefore(s, e))
                                         IN  d \notin S /\ ":" \notin Range(LineAt(s, d))
<1>1. \E S \in SUBSET LineEnds(s) : Fixed(S)
  <2>1. Len(s) \in Nat
    BY LenProperties
  <2>2. PICK T : StartsUpTo(s, T, Len(s))
    BY <2>1, StartsExist
  <2>3. \A e \in LineEnds(s) : e <= Len(s)
    BY <2>1 DEF LineEnds
  <2>4. QED
    BY <2>2, <2>3 DEF StartsUpTo
<1>2. StartsRequest(s) = CHOOSE S \in SUBSET LineEnds(s) : Fixed(S)
  BY DEF StartsRequest
<1> HIDE DEF Fixed
<1>3. StartsRequest(s) \in SUBSET LineEnds(s) /\ Fixed(StartsRequest(s))
  BY <1>1, <1>2
<1>4. QED
  BY <1>3 DEF Fixed

-----------------------------------------------------------------------------
(* The line the parser takes next *)

\* The next line behind k ends at g.
Follows(s, k, g, line) ==
    /\ g \in LineEnds(s)
    /\ \A f \in LineEnds(s) : f < g => f < k
    /\ LineAt(s, g) = line

\* The text has been taken up to k, which is a line end and its LF, and read up to
\* m: the first line of what is left is the next line of the text.
LEMMA NextLine ==
    ASSUME NEW W, NEW s \in Seq(W), NEW m \in 0..Len(s), NEW k \in 0..m,
           k = 0 \/ k - 1 \in LineEnds(s),
           NEW t, t = SubSeq(s, k + 1, m),
           NEW e \in LineEnds(t), \A f \in LineEnds(t) : e <= f
    PROVE  Follows(s, k, k + e, SubSeq(t, 1, e - 1))
<1>1. /\ Len(s) \in Nat /\ m \in Nat /\ k \in Nat /\ m <= Len(s) /\ k <= m
  BY LenProperties
<1>2. t \in Seq(W) /\ Len(t) = m - k /\ \A i \in 1..m - k : t[i] = s[k + i]
  <2>1. /\ k + 1 \in Int /\ m \in Int /\ m - (k + 1) + 1 = m - k
        /\ \A i \in 1..m - k : k + 1 + i - 1 = k + i
    BY <1>1
  <2>2. \A i \in k + 1..m : s[i] \in W
    BY <1>1, ElementOfSeq
  <2>3. /\ t \in Seq(W) /\ Len(t) = IF k + 1 <= m THEN m - (k + 1) + 1 ELSE 0
        /\ \A i \in 1..m - (k + 1) + 1 : t[i] = s[k + 1 + i - 1]
    BY <2>1, <2>2, SubSeqProperties
  <2>4. Len(t) = m - k
    BY <1>1, <2>3
  <2>5. QED
    BY <2>1, <2>3, <2>4
<1>3. LineEnds(s) = {i \in 1..Len(s) - 1 : s[i] = "CR" /\ s[i + 1] = "LF"}
  BY LineEndsAre
<1>4. LineEnds(t) = {i \in 1..m - k - 1 : t[i] = "CR" /\ t[i + 1] = "LF"}
  BY <1>2, LineEndsAre
<1>5. \A i \in 1..m - k - 1 : i \in LineEnds(t) <=> k + i \in LineEnds(s)
  <2> SUFFICES ASSUME NEW i \in 1..m - k - 1
               PROVE  i \in LineEnds(t) <=> k + i \in LineEnds(s)
    OBVIOUS
  <2>1. /\ i \in 1..m - k /\ i + 1 \in 1..m - k /\ k + i \in 1..Len(s) - 1
        /\ k + (i + 1) = k + i + 1
    BY <1>1
  <2>2. t[i] = s[k + i] /\ t[i + 1] = s[k + i + 1]
    BY <1>2, <2>1
  <2>3. QED
    BY <1>3, <1>4, <2>1, <2>2
<1>6. e \in 1..m - k - 1 /\ e \in Nat
  BY <1>1, <1>4
<1>7. k + e \in LineEnds(s)
  BY <1>5, <1>6
<1>8. ASSUME NEW f \in LineEnds(s), f < k + e
      PROVE  f < k
  <2>1. f \in Nat
    BY <1>1, <1>3
  <2>2. f # k
    <3>1. CASE k = 0
      BY <1>1, <1>3, <3>1
    <3>2. CASE k - 1 \in LineEnds(s)
      <4>1. k - 1 + 1 = k /\ s[k - 1 + 1] = "LF"
        BY <1>1, <1>3, <3>2
      <4>2. s[f] = "CR"
        BY <1>3
      <4>3. QED
        BY <4>1, <4>2
    <3>3. QED
      BY <3>1, <3>2
  <2>3. ~(f > k)
    <3> SUFFICES ASSUME f > k PROVE FALSE
      OBVIOUS
    <3>1. f - k \in 1..m - k - 1 /\ k + (f - k) = f /\ f - k < e
      BY <1>1, <1>6, <1>8, <2>1
    <3>2. f - k \in LineEnds(t)
      BY <1>5, <3>1
    <3>3. e <= f - k
      BY <3>2
    <3>4. QED
      BY <1>1, <1>6, <2>1, <3>1, <3>3
  <2>4. QED
    BY <1>1, <2>1, <2>2, <2>3
<1>9. LineAt(s, k + e) = SubSeq(s, k + 1, (k + e) - 1)
  <2> DEFINE before == LinesBefore(s, k + e)
  <2>0. LineAt(s, k + e) = SubSeq(s, IF before = {} THEN 1 ELSE Latest(before) + 2, (k + e) - 1)
    BY DEF LineAt
  <2>1. \A f : f \in before <=> f \in LineEnds(s) /\ f < k
    <3>1. \A f \in LineEnds(s) : f \in Nat
      BY <1>1, <1>3
    <3>2. \A f \in LineEnds(s) : f < k => f < k + e
      BY <1>1, <1>6, <3>1
    <3>3. QED
      BY <1>8, <3>2 DEF LinesBefore
  <2> HIDE DEF before
  <2>2. CASE k = 0
    <3>1. \A f \in LineEnds(s) : ~(f < 0)
      BY <1>3
    <3>2. before = {}
      BY <2>1, <2>2, <3>1
    <3>3. k + 1 = 1
      BY <2>2
    <3>4. QED
      BY <2>0, <3>2, <3>3
  <2>3. CASE k # 0
    <3>1. k - 1 \in before
      BY <1>1, <2>1, <2>3
    <3>2. before \subseteq Int /\ \A f \in before : f <= k - 1
      BY <1>1, <1>3, <2>1
    <3>3. Latest(before) = k - 1
      BY <3>1, <3>2, LatestIs
    <3>4. k - 1 + 2 = k + 1 /\ before # {}
      BY <1>1, <3>1
    <3>5. QED
      BY <2>0, <3>3, <3>4
  <2>4. QED
    BY <2>2, <2>3
<1>10. SubSeq(t, 1, e - 1) = SubSeq(s, k + 1, (k + e) - 1)
  <2>1. CASE e = 1
    <3>1. (k + e) - 1 < k + 1 /\ e - 1 < 1 /\ (k + e) - 1 \in Int /\ k + 1 \in Int /\ e - 1 \in Int
      BY <1>1, <2>1
    <3>2. QED
      BY <3>1, SubSeqEmpty
  <2>2. CASE e # 1
    <3>1. /\ k + 1 \in 1..Len(s) /\ m \in 1..Len(s)
          /\ 1 \in 1..m - (k + 1) + 1 /\ e - 1 \in 1..m - (k + 1) + 1
          /\ k + 1 + 1 - 1 = k + 1 /\ k + 1 + (e - 1) - 1 = (k + e) - 1
      BY <1>1, <1>6, <2>2
    <3>2. QED
      BY <3>1, SubSeqOfSubSeq
  <2>3. QED
    BY <2>1, <2>2
<1>11. QED
  BY <1>7, <1>8, <1>9, <1>10 DEF Follows

\* The parser's line is a line of the stream, the next one behind those taken.
LEMMA LineIsNext ==
    ASSUME Typing, InputIsStream, HasLine, RetrieveLine,
           taken = 0 \/ taken - 1 \in LineEnds(stream)
    PROVE  /\ taken' \in Nat /\ taken < taken'
           /\ taken' - 1 \in LineEnds(stream)
           /\ \A f \in LineEnds(stream) : f < taken' <=> f < taken \/ f = taken' - 1
           /\ LineAt(stream, taken' - 1) = Line
           /\ taken' - 1 \in StartsRequest(stream) <=>
                 \/ taken = 0
                 \/ taken - 1 \notin StartsRequest(stream) /\ ":" \notin Range(LineAt(stream, taken - 1))
<1> DEFINE t == Content(inputBuffer_)
           e == FindCRLF(inputBuffer_)
           k == taken
           s == stream
<1>1. s \in Seq(Word) /\ Len(s) \in Nat /\ k \in Nat /\ received \in 0..Len(s) /\ k \in 0..received
  BY LenProperties DEF Typing
<1>2. t = SubSeq(s, k + 1, received)
  BY DEF InputIsStream
<1>3. t \in Seq(Word)
  <2>1. k + 1 \in Nat \ {0} /\ received \in Int /\ received <= Len(s)
    BY <1>1
  <2>2. QED
    BY <1>1, <1>2, <2>1, PartOfLine
<1>4. e \in LineEnds(t) /\ \A f \in LineEnds(t) : e <= f
  <2>1. LineEnds(t) # {}
    BY DEF HasLine
  <2>2. LineEnds(t) \subseteq Nat
    BY <1>3, LenProperties DEF LineEnds
  <2>3. \E i \in LineEnds(t) : \A j \in LineEnds(t) : i <= j
    BY <2>1, <2>2, LeastElement
  <2>4. QED
    BY <2>3 DEF FindCRLF
<1>5. e \in Nat \ {0}
  BY <1>3, <1>4, LenProperties DEF LineEnds
<1>6. taken' = k + e + 1 /\ Line = SubSeq(t, 1, e - 1)
  BY DEF RetrieveLine, Line
<1> HIDE DEF t, e
<1>7. /\ k + e \in LineEnds(s)
      /\ \A f \in LineEnds(s) : f < k + e => f < k
      /\ LineAt(s, k + e) = SubSeq(t, 1, e - 1)
  <2>1. k = 0 \/ k - 1 \in LineEnds(s)
    OBVIOUS
  <2> HIDE DEF k, s
  <2>2. /\ s \in Seq(Word) /\ received \in 0..Len(s) /\ k \in 0..received
        /\ t = SubSeq(s, k + 1, received)
    BY <1>1, <1>2
  <2>3. Follows(s, k, k + e, SubSeq(t, 1, e - 1))
    BY <1>4, <2>1, <2>2, NextLine, Zenon
  <2>4. QED
    BY <2>3 DEF Follows
<1>8. taken' - 1 = k + e /\ taken' \in Nat /\ taken < taken'
  BY <1>1, <1>5, <1>6
<1>9. ASSUME NEW f \in LineEnds(s)
      PROVE  f < taken' <=> f < taken \/ f = taken' - 1
  <2>1. f \in Nat
    BY <1>1 DEF LineEnds
  <2>2. f < k + e => f < k
    BY <1>7
  <2>3. QED
    BY <1>1, <1>5, <1>6, <2>1, <2>2
<1>10. k + e \in StartsRequest(s) <=>
          \/ k = 0
          \/ k - 1 \notin StartsRequest(s) /\ ":" \notin Range(LineAt(s, k - 1))
  <2> DEFINE before == LinesBefore(s, k + e)
  <2>1. LineEnds(s) \subseteq Nat \ {0}
    BY <1>1 DEF LineEnds
  <2>2. before = {f \in LineEnds(s) : f < k}
    BY <1>1, <1>5, <1>7, <2>1 DEF LinesBefore
  <2>3. k + e \in StartsRequest(s) <=>
          \/ before = {}
          \/ Latest(before) \notin StartsRequest(s) /\ ":" \notin Range(LineAt(s, Latest(before)))
    BY <1>1, <1>7, RequestLinesAre
  <2>4. CASE k = 0
    <3>1. before = {}
      BY <2>1, <2>2, <2>4
    <3>2. QED
      BY <2>3, <2>4, <3>1
  <2>5. CASE k # 0
    <3>1. k - 1 \in before
      BY <1>1, <2>2, <2>5
    <3>2. before \subseteq Int /\ \A f \in before : f <= k - 1
      BY <1>1, <2>1, <2>2
    <3>3. Latest(before) = k - 1
      BY <3>1, <3>2, LatestIs
    <3> HIDE DEF before
    <3>4. before # {}
      BY <3>1
    <3>5. QED
      BY <2>3, <2>5, <3>3, <3>4
  <2>6. QED
    BY <2>4, <2>5
<1>11. QED
  BY <1>6, <1>7, <1>8, <1>9, <1>10

-----------------------------------------------------------------------------
(* The parts of a line *)

\* A place with the word, or the end, and no place before it, is what std::find
\* returns.
LEMMA FindIs ==
    ASSUME NEW S, NEW s \in Seq(S), NEW word, NEW i \in 1..Len(s) + 1,
           i <= Len(s) => s[i] = word,
           \A j \in 1..i - 1 : s[j] # word
    PROVE  Find(s, word) = i
<1> DEFINE k == Find(s, word)
<1>1. /\ k \in 1..Len(s) + 1
      /\ k <= Len(s) => s[k] = word
      /\ \A j \in 1..k - 1 : s[j] # word
  BY FindProperties
<1> HIDE DEF k
<1>2. Len(s) \in Nat
  BY LenProperties
<1>3. ~(k < i)
  <2> SUFFICES ASSUME k < i PROVE FALSE
    OBVIOUS
  <2>1. k \in 1..i - 1 /\ k <= Len(s)
    BY <1>1, <1>2
  <2>2. QED
    BY <1>1, <2>1
<1>4. ~(i < k)
  <2> SUFFICES ASSUME i < k PROVE FALSE
    OBVIOUS
  <2>1. i \in 1..k - 1 /\ i <= Len(s)
    BY <1>1, <1>2
  <2>2. QED
    BY <1>1, <2>1
<1>5. QED
  BY <1>1, <1>2, <1>3, <1>4 DEF k

\* The words of a part of a line.
LEMMA PartWords ==
    ASSUME NEW S, NEW s \in Seq(S), NEW m \in Nat \ {0}, NEW n \in m - 1..Len(s)
    PROVE  /\ SubSeq(s, m, n) \in Seq(S)
           /\ Len(SubSeq(s, m, n)) = n - m + 1
           /\ \A i \in 1..n - m + 1 : SubSeq(s, m, n)[i] = s[m + i - 1]
<1>1. Len(s) \in Nat /\ m \in Int /\ n \in Int
  BY LenProperties
<1>2. \A i \in m..n : s[i] \in S
  <2>1. \A i \in m..n : i \in 1..Len(s)
    BY <1>1
  <2>2. QED
    BY <2>1, ElementOfSeq
<1>3. Len(SubSeq(s, m, n)) = n - m + 1
  BY PartLength
<1>4. QED
  BY <1>1, <1>2, <1>3, SubSeqProperties

\* The first words of a part are a part.
LEMMA PartOfPart ==
    ASSUME NEW S, NEW s \in Seq(S), NEW m \in Nat \ {0}, NEW n \in m - 1..Len(s),
           NEW k \in 0..n - m + 1
    PROVE  SubSeq(SubSeq(s, m, n), 1, k) = SubSeq(s, m, m + k - 1)
<1> DEFINE part == SubSeq(s, m, n)
           first == SubSeq(part, 1, k)
           same == SubSeq(s, m, m + k - 1)
<1>1. Len(s) \in Nat /\ m \in Nat /\ n \in Int /\ k \in Nat /\ n - m + 1 \in Nat
  BY LenProperties
<1>2. /\ part \in Seq(S) /\ Len(part) = n - m + 1
      /\ \A i \in 1..n - m + 1 : part[i] = s[m + i - 1]
  BY PartWords
<1> HIDE DEF part
<1>3. /\ first \in Seq(S) /\ Len(first) = k
      /\ \A i \in 1..k : first[i] = part[i]
  <2>1. 1 \in Nat \ {0} /\ k \in 1 - 1..Len(part) /\ k - 1 + 1 = k /\ \A i \in 1..k : 1 + i - 1 = i
    BY <1>1, <1>2
  <2>2. /\ first \in Seq(S) /\ Len(first) = k - 1 + 1
        /\ \A i \in 1..k - 1 + 1 : first[i] = part[1 + i - 1]
    BY <1>2, <2>1, PartWords
  <2>3. QED
    BY <2>1, <2>2
<1>4. /\ same \in Seq(S) /\ Len(same) = k
      /\ \A i \in 1..k : same[i] = s[m + i - 1]
  <2>1. m + k - 1 \in m - 1..Len(s) /\ (m + k - 1) - m + 1 = k
    BY <1>1
  <2>2. QED
    BY <2>1, PartWords
<1> HIDE DEF first, same
<1>5. \A i \in 1..k : first[i] = same[i]
  <2>1. \A i \in 1..k : i \in 1..n - m + 1
    BY <1>1
  <2>2. QED
    BY <1>2, <1>3, <1>4, <2>1
<1>6. first = same
  BY <1>3, <1>4, <1>5, SeqEqual
<1>7. QED
  BY <1>6 DEF first, same, part

-----------------------------------------------------------------------------
(* A request line, parsed *)

\* What a well-formed line asks for.
UrlPath(line) ==
    LET url == SubSeq(line, 3, Len(line) - 2)
    IN  SubSeq(url, 1, Find(url, "?") - 1)

\* The request is the one of this line.
Asks(r, line) ==
    r.method = line[1] /\ r.version = line[Len(line)] /\ r.path = UrlPath(line)

\* A line is parsed exactly if it is well formed, and then into its parts; no line
\* changes a header.
LEMMA RequestLineParsed ==
    ASSUME NEW r, IsRequest(r), NEW line \in Seq(Word)
    PROVE  /\ ParseRequestLine(r, line).ok \in BOOLEAN
           /\ ParseRequestLine(r, line).ok => Recognised(line) /\ Asks(ParseRequestLine(r, line).request, line)
           /\ Recognised(line) => ParseRequestLine(r, line).ok
           /\ ParseRequestLine(r, line).request.headers = r.headers
<1> DEFINE space1 == Find(line, "SP")
           rest == SubSeq(line, space1 + 1, Len(line))
           space2 == Find(rest, "SP")
           question == Find(rest, "?")
           version == SubSeq(rest, space2 + 1, Len(rest))
           withMethod == [r EXCEPT !.method = line[1]]
           withPath ==
             IF question <= Len(rest)
             THEN [withMethod EXCEPT !.path = SubSeq(rest, 1, question - 1),
                                     !.query = SubSeq(rest, question + 1, space2 - 1)]
             ELSE [withMethod EXCEPT !.path = SubSeq(rest, 1, space2 - 1)]
           accepted == [withPath EXCEPT !.version = version[1]]
           rejected == [withPath EXCEPT !.version = "kUnknown"]
           result == ParseRequestLine(r, line)
           L == Len(line)
           Sound == space1 = 2 /\ line[1] \in Methods /\ space2 <= Len(rest)
           Good == Sound /\ Len(version) = 1 /\ version[1] \in Versions
<1>1. result = CASE space1 # 2 \/ ~ParseRequestMethod(line[1]) -> [ok |-> FALSE, request |-> r]
          [] space1 = 2 /\ ParseRequestMethod(line[1]) /\ space2 > Len(rest) ->
                [ok |-> FALSE, request |-> withMethod]
          [] OTHER ->
                IF Len(version) = 1 /\ version[1] \in Versions
                THEN [ok |-> TRUE, request |-> accepted]
                ELSE [ok |-> FALSE, request |-> rejected]
  BY DEF ParseRequestLine
<1>2. /\ space1 \in 1..L + 1 /\ L \in Nat
      /\ space1 <= L => line[space1] = "SP"
      /\ \A j \in 1..space1 - 1 : line[j] # "SP"
  BY FindProperties, LenProperties
<1>3. \/ rest \in Seq(Word) /\ Len(rest) = L - space1
      \/ space1 = L + 1 /\ rest = <<>> /\ Len(rest) = 0
  <2>1. CASE space1 <= L
    <3>1. space1 + 1 \in Nat \ {0} /\ L \in (space1 + 1) - 1..L /\ L - (space1 + 1) + 1 = L - space1
      BY <1>2, <2>1
    <3> HIDE DEF space1
    <3>2. /\ SubSeq(line, space1 + 1, L) \in Seq(Word)
          /\ Len(SubSeq(line, space1 + 1, L)) = L - (space1 + 1) + 1
      BY <3>1, PartWords
    <3>3. QED
      BY <3>1, <3>2
  <2>2. CASE space1 = L + 1
    <3>1. L < space1 + 1 /\ L \in Int /\ space1 + 1 \in Int
      BY <1>2, <2>2
    <3>2. QED
      BY <2>2, <3>1, SubSeqEmpty
  <2>3. QED
    BY <1>2, <2>1, <2>2
<1>4. rest \in Seq(Word) /\ Len(rest) \in Nat
  BY <1>3, EmptySeq, LenProperties
<1>5. space1 = 2 /\ Len(rest) > 0 =>
        /\ Len(rest) = L - 2 /\ \A i \in 1..L - 2 : rest[i] = line[i + 2]
  <2> SUFFICES ASSUME space1 = 2, Len(rest) > 0
               PROVE  Len(rest) = L - 2 /\ \A i \in 1..L - 2 : rest[i] = line[i + 2]
    OBVIOUS
  <2>1. Len(rest) = L - 2
    BY <1>2, <1>3
  <2>2. 3 \in Nat \ {0} /\ L \in 3 - 1..L /\ L - 3 + 1 = L - 2 /\ \A i \in 1..L - 2 : 3 + i - 1 = i + 2
    BY <1>2, <1>4, <2>1
  <2>3. rest = SubSeq(line, 3, L)
    OBVIOUS
  <2> HIDE DEF rest
  <2>4. \A i \in 1..L - 3 + 1 : SubSeq(line, 3, L)[i] = line[3 + i - 1]
    BY <2>2, PartWords
  <2>5. QED
    BY <2>1, <2>2, <2>3, <2>4
<1> HIDE DEF rest, result, space1
<1>6. /\ space2 \in 1..Len(rest) + 1 /\ question \in 1..Len(rest) + 1
      /\ space2 <= Len(rest) => rest[space2] = "SP"
      /\ \A j \in 1..space2 - 1 : rest[j] # "SP"
      /\ question <= Len(rest) => rest[question] = "?"
      /\ \A j \in 1..question - 1 : rest[j] # "?"
  BY <1>4, FindProperties
<1>7. space2 <= Len(rest) =>
        Len(version) = Len(rest) - space2 /\ (space2 < Len(rest) => version[1] = rest[space2 + 1])
  <2> SUFFICES ASSUME space2 <= Len(rest)
               PROVE  /\ Len(version) = Len(rest) - space2
                      /\ space2 < Len(rest) => version[1] = rest[space2 + 1]
    OBVIOUS
  <2>1. /\ space2 + 1 \in Nat \ {0} /\ Len(rest) \in (space2 + 1) - 1..Len(rest)
        /\ Len(rest) - (space2 + 1) + 1 = Len(rest) - space2
        /\ (space2 + 1) + 1 - 1 = space2 + 1
    <3> HIDE DEF space2, version, question
    <3>1. space2 \in Nat /\ Len(rest) \in Nat /\ space2 <= Len(rest)
      BY <1>4, <1>6
    <3>2. QED
      BY <3>1
  <2>2. /\ Len(version) = Len(rest) - (space2 + 1) + 1
        /\ \A i \in 1..Len(rest) - (space2 + 1) + 1 : version[i] = rest[(space2 + 1) + i - 1]
    <3> HIDE DEF space2
    <3>1. /\ Len(SubSeq(rest, space2 + 1, Len(rest))) = Len(rest) - (space2 + 1) + 1
          /\ \A i \in 1..Len(rest) - (space2 + 1) + 1 :
                SubSeq(rest, space2 + 1, Len(rest))[i] = rest[(space2 + 1) + i - 1]
      BY <1>4, <2>1, PartWords
    <3>2. QED
      BY <3>1
  <2>3. Len(version) = Len(rest) - space2
    BY <2>1, <2>2
  <2>4. ASSUME space2 < Len(rest)
        PROVE  version[1] = rest[space2 + 1]
    <3>1. 1 \in 1..Len(rest) - (space2 + 1) + 1
      BY <1>4, <1>6, <2>4
    <3> HIDE DEF version, space2
    <3>2. version[1] = rest[space2 + 1 + 1 - 1]
      BY <2>2, <3>1
    <3>3. QED
      BY <2>1, <3>2
  <2>5. QED
    BY <2>3, <2>4
<1> HIDE DEF version, space2, question
\* Good lines are the well-formed ones.
<1>8. Good => /\ L >= 4 /\ Len(rest) = L - 2 /\ space2 = L - 3
              /\ version[1] = line[L]
  <2> SUFFICES ASSUME Good
               PROVE  L >= 4 /\ Len(rest) = L - 2 /\ space2 = L - 3 /\ version[1] = line[L]
    OBVIOUS
  <2>1. Len(rest) - space2 = 1 /\ space2 < Len(rest) /\ Len(rest) > 0
    BY <1>4, <1>6, <1>7
  <2>2. Len(rest) = L - 2 /\ \A i \in 1..L - 2 : rest[i] = line[i + 2]
    BY <1>5, <2>1
  <2>3. space2 = L - 3 /\ L >= 4 /\ space2 + 1 \in 1..L - 2 /\ space2 + 1 + 2 = L
    BY <1>2, <1>6, <2>1, <2>2
  <2>4. version[1] = rest[space2 + 1] /\ rest[space2 + 1] = line[space2 + 1 + 2]
    BY <1>7, <2>1, <2>2, <2>3
  <2>5. QED
    BY <2>2, <2>3, <2>4
<1>9. Good => Recognised(line)
  <2> SUFFICES ASSUME Good PROVE Recognised(line)
    OBVIOUS
  <2>1. L >= 4 /\ Len(rest) = L - 2 /\ space2 = L - 3 /\ version[1] = line[L]
    BY <1>8
  <2>2. \A i \in 1..L - 2 : rest[i] = line[i + 2]
    BY <1>2, <1>5, <2>1
  <2>3. line[2] = "SP"
    BY <1>2, <2>1
  <2>4. line[L - 1] = "SP"
    <3>1. L - 3 \in 1..L - 2 /\ L - 3 + 2 = L - 1 /\ L - 3 <= Len(rest)
      BY <1>2, <2>1
    <3>2. rest[L - 3] = "SP"
      BY <1>6, <2>1, <3>1
    <3>3. QED
      BY <2>2, <3>1, <3>2
  <2>5. \A i \in 3..L - 2 : line[i] # "SP"
    <3> SUFFICES ASSUME NEW i \in 3..L - 2 PROVE line[i] # "SP"
      OBVIOUS
    <3>1. i - 2 \in 1..L - 2 /\ i - 2 \in 1..space2 - 1 /\ i - 2 + 2 = i
      BY <1>2, <2>1
    <3>2. rest[i - 2] # "SP"
      BY <1>6, <3>1
    <3>3. QED
      BY <2>2, <3>1, <3>2
  <2>6. QED
    BY <2>1, <2>3, <2>4, <2>5 DEF Recognised
<1>10. Recognised(line) => Good
  <2> SUFFICES ASSUME Recognised(line) PROVE Good
    OBVIOUS
  <2>1. /\ L >= 4 /\ line[1] \in Methods /\ line[2] = "SP" /\ line[L - 1] = "SP"
        /\ \A i \in 3..L - 2 : line[i] # "SP"
        /\ line[L] \in Versions
    BY DEF Recognised
  <2>2. space1 = 2
    <3>1. 2 \in 1..L + 1 /\ \A j \in 1..2 - 1 : line[j] # "SP"
      <4>1. \A j \in 1..2 - 1 : j = 1
        OBVIOUS
      <4>2. line[1] # "SP"
        BY <2>1 DEF Methods
      <4>3. QED
        BY <1>2, <2>1, <4>1, <4>2
    <3>2. QED
      BY <2>1, <3>1, FindIs DEF space1
  <2>3. Len(rest) = L - 2 /\ Len(rest) > 0
    BY <1>2, <1>3, <2>1, <2>2
  <2>4. \A i \in 1..L - 2 : rest[i] = line[i + 2]
    BY <1>5, <2>2, <2>3
  <2>5. space2 = L - 3
    <3>1. L - 3 \in 1..Len(rest) + 1 /\ L - 3 \in 1..L - 2 /\ L - 3 + 2 = L - 1
      BY <1>2, <2>1, <2>3
    <3>2. rest[L - 3] = "SP"
      BY <2>1, <2>4, <3>1
    <3>3. \A j \in 1..L - 3 - 1 : rest[j] # "SP"
      <4> SUFFICES ASSUME NEW j \in 1..L - 3 - 1 PROVE rest[j] # "SP"
        OBVIOUS
      <4>1. j \in 1..L - 2 /\ j + 2 \in 3..L - 2
        BY <1>2, <2>1
      <4>2. QED
        BY <2>1, <2>4, <4>1
    <3>4. QED
      BY <1>4, <3>1, <3>2, <3>3, FindIs DEF space2
  <2>6. /\ space2 <= Len(rest) /\ space2 < Len(rest) /\ Len(version) = 1
        /\ space2 + 1 \in 1..L - 2 /\ space2 + 1 + 2 = L
    BY <1>2, <1>7, <2>1, <2>3, <2>5
  <2>7. version[1] = line[L]
    BY <1>7, <2>4, <2>6
  <2>8. QED
    BY <2>1, <2>2, <2>6, <2>7
<1>11. Good => result = [ok |-> TRUE, request |-> accepted]
  BY <1>1, <1>4, <1>6 DEF ParseRequestMethod
<1>12. ~Good => result.ok = FALSE /\ result.request.headers = r.headers
  <2> SUFFICES ASSUME ~Good
               PROVE  result.ok = FALSE /\ result.request.headers = r.headers
    OBVIOUS
  <2>1. \/ result = [ok |-> FALSE, request |-> r]
        \/ result = [ok |-> FALSE, request |-> withMethod]
        \/ result = [ok |-> FALSE, request |-> rejected]
    <3> HIDE DEF withMethod, rejected, accepted, withPath
    <3>1. space2 > Len(rest) \/ space2 <= Len(rest)
      BY <1>4, <1>6
    <3>2. QED
      BY <1>1, <3>1 DEF ParseRequestMethod
  <2>2. withMethod.headers = r.headers
    BY DEF IsRequest
  <2>3. rejected.headers = r.headers
    BY DEF IsRequest
  <2> HIDE DEF withMethod, rejected
  <2>4. QED
    BY <2>1, <2>2, <2>3
<1>13. accepted.headers = r.headers /\ accepted.method = line[1] /\ accepted.version = version[1]
  BY DEF IsRequest
<1>14. Good => accepted.path = UrlPath(line)
  <2> SUFFICES ASSUME Good PROVE accepted.path = UrlPath(line)
    OBVIOUS
  <2> DEFINE url == SubSeq(line, 3, L - 2)
             n == L - 4
  <2>1. L >= 4 /\ Len(rest) = L - 2 /\ space2 = L - 3 /\ version[1] = line[L]
    BY <1>8
  <2>2. space1 = 2 /\ rest = SubSeq(line, 3, L)
    BY DEF rest
  <2>3. url = SubSeq(rest, 1, n)
    <3>1. /\ 3 \in Nat \ {0} /\ L \in 3 - 1..L /\ n \in 0..L - 3 + 1 /\ 3 + n - 1 = L - 2
      BY <1>2, <2>1
    <3>2. SubSeq(SubSeq(line, 3, L), 1, n) = SubSeq(line, 3, 3 + n - 1)
      BY <3>1, PartOfPart
    <3>3. QED
      BY <2>2, <3>1, <3>2
  <2> HIDE DEF url
  <2>4. /\ url \in Seq(Word) /\ Len(url) = n /\ n \in Nat
        /\ \A i \in 1..n : url[i] = rest[i]
    <3>1. /\ 1 \in Nat \ {0} /\ n \in 1 - 1..Len(rest) /\ n - 1 + 1 = n /\ n \in Nat
          /\ \A i \in 1..n : 1 + i - 1 = i
      BY <1>2, <2>1
    <3>2. /\ SubSeq(rest, 1, n) \in Seq(Word) /\ Len(SubSeq(rest, 1, n)) = n - 1 + 1
          /\ \A i \in 1..n - 1 + 1 : SubSeq(rest, 1, n)[i] = rest[1 + i - 1]
      BY <1>4, <3>1, PartWords
    <3> HIDE DEF n
    <3>3. QED
      BY <2>3, <3>1, <3>2
  <2>5. \A i \in 1..L - 2 : rest[i] = line[i + 2]
    BY <1>2, <1>5, <2>1
  <2>6. CASE question <= Len(rest)
    <3>1. question <= n
      <4>1. question # L - 3
        <5>1. rest[L - 3] = "SP"
          BY <1>6, <2>1, <1>2
        <5>2. QED
          BY <1>6, <2>6, <5>1
      <4>2. question # L - 2
        <5>1. L - 2 \in 1..L - 2 /\ L - 2 + 2 = L
          BY <1>2, <2>1
        <5>2. rest[L - 2] = line[L]
          BY <2>5, <5>1
        <5>3. line[L] \in Versions
          BY <2>1
        <5>4. QED
          BY <1>6, <2>6, <5>2, <5>3 DEF Versions
      <4>3. QED
        BY <1>2, <1>6, <2>1, <2>6, <4>1, <4>2
    <3>2. Find(url, "?") = question
      <4>1. question \in 1..Len(url) + 1 /\ question \in 1..n
        BY <1>6, <2>4, <3>1
      <4>2. url[question] = "?"
        BY <1>6, <2>4, <2>6, <4>1
      <4>3. \A j \in 1..question - 1 : url[j] # "?"
        <5>1. \A j \in 1..question - 1 : j \in 1..n
          BY <2>4, <4>1
        <5>2. QED
          BY <1>6, <2>4, <5>1
      <4>4. QED
        BY <2>4, <4>1, <4>2, <4>3, FindIs
    <3>3. SubSeq(url, 1, question - 1) = SubSeq(rest, 1, question - 1)
      <4>1. /\ 1 \in Nat \ {0} /\ n \in 1 - 1..Len(rest) /\ question - 1 \in 0..n - 1 + 1
            /\ 1 + (question - 1) - 1 = question - 1
        BY <1>6, <2>1, <2>4, <3>1
      <4> DEFINE k == question - 1
      <4>2. SubSeq(SubSeq(rest, 1, n), 1, k) = SubSeq(rest, 1, 1 + k - 1)
        BY <1>4, <4>1, PartOfPart
      <4>3. QED
        BY <2>3, <4>1, <4>2
    <3>4. accepted.path = SubSeq(rest, 1, question - 1)
      BY <2>6 DEF IsRequest
    <3>5. QED
      BY <3>2, <3>3, <3>4 DEF UrlPath, url
  <2>7. CASE ~(question <= Len(rest))
    <3>1. Find(url, "?") = n + 1
      <4>1. n + 1 \in 1..Len(url) + 1 /\ ~(n + 1 <= Len(url))
        BY <2>4
      <4>2. \A j \in 1..n + 1 - 1 : url[j] # "?"
        <5>1. \A j \in 1..n + 1 - 1 : j \in 1..n /\ j \in 1..question - 1
          BY <1>4, <1>6, <2>1, <2>4, <2>7
        <5>2. QED
          BY <1>6, <2>4, <5>1
      <4>3. QED
        BY <2>4, <4>1, <4>2, FindIs
    <3>2. SubSeq(url, 1, n) = SubSeq(rest, 1, n)
      <4>1. /\ 1 \in Nat \ {0} /\ n \in 1 - 1..Len(rest) /\ n \in 0..n - 1 + 1
            /\ 1 + n - 1 = n
        BY <2>1, <2>4
      <4> HIDE DEF n
      <4>2. SubSeq(SubSeq(rest, 1, n), 1, n) = SubSeq(rest, 1, 1 + n - 1)
        BY <1>4, <4>1, PartOfPart
      <4>3. QED
        BY <2>3, <4>1, <4>2
    <3>3. accepted.path = SubSeq(rest, 1, space2 - 1)
      BY <2>7 DEF IsRequest
    <3>4. space2 - 1 = n /\ (n + 1) - 1 = n
      BY <2>1, <2>4
    <3> HIDE DEF n, accepted
    <3>5. QED
      BY <3>1, <3>2, <3>3, <3>4 DEF UrlPath, url
  <2>8. QED
    BY <2>6, <2>7
<1> HIDE DEF accepted
<1>15. CASE Good
  <2>1. result.ok /\ result.request = accepted
    BY <1>11, <1>15
  <2>2. Recognised(line) /\ version[1] = line[L]
    BY <1>8, <1>9, <1>15
  <2>3. Asks(accepted, line)
    BY <1>13, <1>14, <1>15, <2>2 DEF Asks
  <2>4. result.ok = TRUE
    BY <1>11, <1>15
  <2>5. QED
    BY <1>13, <2>1, <2>2, <2>3, <2>4 DEF result
<1>16. CASE ~Good
  BY <1>10, <1>12, <1>16 DEF result
<1>17. QED
  BY <1>15, <1>16

-----------------------------------------------------------------------------
(* A header line, parsed *)

\* The first word that is no space.
LEMMA FirstWord ==
    ASSUME NEW S, NEW s \in Seq(S)
    PROVE  \E i \in 1..Len(s) + 1 : /\ i <= Len(s) => s[i] # "SP"
                                    /\ \A j \in 1..i - 1 : s[j] = "SP"
<1> DEFINE places == {i \in 1..Len(s) : s[i] # "SP"}
           First(i) == /\ i <= Len(s) => s[i] # "SP"
                       /\ \A j \in 1..i - 1 : s[j] = "SP"
<1>1. Len(s) \in Nat
  BY LenProperties
<1>2. CASE places = {}
  <2>1. Len(s) + 1 \in 1..Len(s) + 1 /\ ~(Len(s) + 1 <= Len(s)) /\ (Len(s) + 1) - 1 = Len(s)
    BY <1>1
  <2>2. \A j \in 1..Len(s) : s[j] = "SP"
    BY <1>2
  <2>3. First(Len(s) + 1)
    BY <2>1, <2>2
  <2>4. QED
    BY <2>1, <2>3
<1>3. CASE places # {}
  <2>1. PICK i \in places : \A j \in places : i <= j
    <3>1. places \subseteq Nat
      BY <1>1
    <3>2. QED
      BY <1>3, <3>1, LeastElement
  <2>2. i \in 1..Len(s) + 1 /\ i \in 1..Len(s) /\ s[i] # "SP"
    BY <1>1, <2>1
  <2>3. \A j \in 1..i - 1 : s[j] = "SP"
    BY <1>1, <2>1, <2>2
  <2>4. QED
    BY <2>2, <2>3
<1>4. QED
  BY <1>2, <1>3

Connection == <<"Connection">>

\* A line is a Connection header.
Names(line) == Len(line) >= 2 /\ SubSeq(line, 1, 2) = <<"Connection", ":">>

\* A line with a colon changes the header it names; of a Connection header only
\* whether it says one word matters.
LEMMA HeaderParsed ==
    ASSUME NEW r, IsRequest(r), NEW line \in Seq(Word), ":" \in Range(line)
    PROVE  /\ ~Names(line) => GetHeader(ParseHeaders(r, line), Connection) = GetHeader(r, Connection)
           /\ Names(line) => \A w \in {"Close", "Keep-Alive"} :
                 GetHeader(ParseHeaders(r, line), Connection) = <<w>> <=> Says(line, w)
           /\ \A w \in {"Close", "Keep-Alive"} : GetHeader(NoRequest, Connection) # <<w>>
<1> DEFINE L == Len(line)
           colon == Find(line, ":")
           name == SubSeq(line, 1, colon - 1)
           rest == SubSeq(line, colon + 1, L)
           First(i) == /\ i \in 1..Len(rest) + 1
                       /\ i <= Len(rest) => rest[i] # "SP"
                       /\ \A j \in 1..i - 1 : rest[j] = "SP"
           at == CHOOSE i \in 1..Len(rest) + 1 :
                    /\ i <= Len(rest) => rest[i] # "SP"
                    /\ \A j \in 1..i - 1 : rest[j] = "SP"
           value == SubSeq(rest, at, Len(rest))
           parsed == ParseHeaders(r, line)
<1>1. parsed.headers =
        [n \in DOMAIN r.headers \cup {name} |-> IF n = name THEN value ELSE r.headers[n]]
  BY DEF IsRequest, ParseHeaders
<1>2. /\ colon \in 1..L + 1 /\ L \in Nat
      /\ colon <= L => line[colon] = ":"
      /\ \A j \in 1..colon - 1 : line[j] # ":"
  BY FindProperties, LenProperties
<1> HIDE DEF colon, parsed
<1>3. colon <= L
  <2>1. PICK i \in 1..L : line[i] = ":"
    BY LenProperties DEF Range
  <2>2. QED
    BY <1>2, <2>1
<1>4. name \in Seq(Word) /\ Len(name) = colon - 1 /\ \A i \in 1..colon - 1 : name[i] = line[i]
  <2>1. /\ 1 \in Nat \ {0} /\ colon - 1 \in 1 - 1..L /\ (colon - 1) - 1 + 1 = colon - 1
        /\ \A i \in 1..colon - 1 : 1 + i - 1 = i
    BY <1>2, <1>3
  <2>2. /\ name \in Seq(Word) /\ Len(name) = (colon - 1) - 1 + 1
        /\ \A i \in 1..(colon - 1) - 1 + 1 : name[i] = line[1 + i - 1]
    BY <2>1, PartWords
  <2> HIDE DEF name
  <2>3. QED
    BY <2>1, <2>2
<1>5. rest \in Seq(Word) /\ Len(rest) = L - colon /\ \A i \in 1..L - colon : rest[i] = line[colon + i]
  <2>1. /\ colon + 1 \in Nat \ {0} /\ L \in (colon + 1) - 1..L /\ L - (colon + 1) + 1 = L - colon
        /\ \A i \in 1..L - colon : (colon + 1) + i - 1 = colon + i
    BY <1>2, <1>3
  <2>2. /\ SubSeq(line, colon + 1, L) \in Seq(Word)
        /\ Len(SubSeq(line, colon + 1, L)) = L - (colon + 1) + 1
        /\ \A i \in 1..L - (colon + 1) + 1 : SubSeq(line, colon + 1, L)[i] = line[(colon + 1) + i - 1]
    BY <2>1, PartWords
  <2>3. rest = SubSeq(line, colon + 1, L)
    OBVIOUS
  <2> HIDE DEF rest
  <2>4. QED
    BY <2>1, <2>2, <2>3
<1> HIDE DEF name, rest
<1>6. First(at)
  BY <1>5, FirstWord
<1> HIDE DEF at
<1>7. name = Connection <=> Names(line)
  <2>1. L >= 2 => SubSeq(line, 1, 2) = <<line[1], line[2]>>
    <3> SUFFICES ASSUME L >= 2 PROVE SubSeq(line, 1, 2) = <<line[1], line[2]>>
      OBVIOUS
    <3>1. 1 \in Nat \ {0} /\ 2 \in 1 - 1..L /\ 2 - 1 + 1 = 2
      BY <1>2
    <3> DEFINE two == SubSeq(line, 1, 2)
    <3>2. two \in Seq(Word) /\ Len(two) = 2 /\ \A i \in 1..2 : two[i] = line[1 + i - 1]
      BY <3>1, PartWords
    <3> HIDE DEF two
    <3>3. two[1] = line[1] /\ two[2] = line[2]
      BY <3>2
    <3>4. two = <<two[1], two[2]>>
      BY <3>2
    <3>5. QED
      BY <3>3, <3>4 DEF two
  <2>2. ASSUME name = Connection PROVE Names(line)
    <3>1. Len(name) = 1 /\ name[1] = "Connection"
      BY <2>2 DEF Connection
    <3>2. colon = 2
      <4>1. colon - 1 = 1
        BY <1>4, <3>1, Zenon
      <4>2. QED
        BY <1>2, <4>1
    <3>3. line[1] = "Connection"
      <4>1. 1 \in 1..colon - 1
        BY <3>2
      <4>2. QED
        BY <1>4, <3>1, <4>1
    <3>4. L >= 2 /\ line[2] = ":"
      BY <1>2, <1>3, <3>2
    <3>5. QED
      BY <2>1, <3>3, <3>4 DEF Names
  <2>3. ASSUME Names(line) PROVE name = Connection
    <3>1. L >= 2 /\ line[1] = "Connection" /\ line[2] = ":"
      BY <2>1, <2>3 DEF Names
    <3>2. colon = 2
      <4>1. 2 \in 1..L + 1 /\ \A j \in 1..2 - 1 : line[j] # ":"
        BY <1>2, <3>1
      <4>2. QED
        BY <3>1, <4>1, FindIs DEF colon
    <3>3. Len(name) = 1 /\ name[1] = "Connection"
      BY <1>4, <3>1, <3>2
    <3>4. name = <<name[1]>>
      <4>1. name \in Seq(Word) /\ Len(name) = 1
        BY <1>4, <3>3
      <4>2. QED
        BY <4>1
    <3>5. QED
      BY <3>3, <3>4 DEF Connection
  <2>4. QED
    BY <2>2, <2>3
<1>8. ASSUME ~Names(line)
      PROVE  GetHeader(parsed, Connection) = GetHeader(r, Connection)
  <2>1. Connection # name
    BY <1>7, <1>8
  <2>2. Connection \in DOMAIN parsed.headers <=> Connection \in DOMAIN r.headers
    BY <1>1, <2>1
  <2>3. Connection \in DOMAIN r.headers => parsed.headers[Connection] = r.headers[Connection]
    BY <1>1, <2>1
  <2>4. QED
    BY <2>2, <2>3 DEF GetHeader
<1>9. ASSUME Names(line), NEW w \in {"Close", "Keep-Alive"}
      PROVE  GetHeader(parsed, Connection) = <<w>> <=> Says(line, w)
  <2>1. GetHeader(parsed, Connection) = value
    <3>1. Connection = name
      BY <1>7, <1>9
    <3>2. Connection \in DOMAIN parsed.headers /\ parsed.headers[Connection] = value
      BY <1>1, <3>1
    <3>3. QED
      BY <3>2 DEF GetHeader
  <2>2. colon = 2
    <3>1. name = Connection
      BY <1>7, <1>9
    <3>2. Len(name) = 1
      BY <3>1 DEF Connection
    <3>3. colon - 1 = 1
      BY <1>4, <3>2, Zenon
    <3>4. QED
      BY <1>2, <3>3
  <2> DEFINE n == L - 2
  <2>3. /\ n \in Nat /\ Len(rest) = n /\ at \in 1..n + 1
        /\ at <= n => rest[at] # "SP"
        /\ \A j \in 1..at - 1 : rest[j] = "SP"
        /\ \A i \in 1..n : rest[i] = line[2 + i]
    BY <1>2, <1>3, <1>5, <1>6, <2>2
  <2>4. L = n + 2 /\ L \in Nat
    BY <1>2
  <2> HIDE DEF n
  <2>5. Len(value) = (n - at) + 1 /\ (at <= n => value[1] = rest[at])
    <3>1. at \in Nat \ {0} /\ n \in at - 1..Len(rest) /\ \A i \in 1..1 : at + i - 1 = at
      BY <2>3
    <3>2. /\ Len(SubSeq(rest, at, n)) = n - at + 1
          /\ \A i \in 1..n - at + 1 : SubSeq(rest, at, n)[i] = rest[at + i - 1]
      BY <1>5, <3>1, PartWords
    <3>3. at <= n => 1 \in 1..n - at + 1 /\ at + 1 - 1 = at
      BY <2>3
    <3>4. value = SubSeq(rest, at, n)
      BY <2>3
    <3> HIDE DEF value
    <3>5. QED
      BY <3>2, <3>3, <3>4
  <2>6. value = <<w>> <=> at = n /\ n >= 1 /\ rest[n] = w
    <3>1. ASSUME value = <<w>> PROVE at = n /\ n >= 1 /\ rest[n] = w
      <4>1. Len(value) = 1 /\ value[1] = w
        BY <3>1
      <4> HIDE DEF value
      <4>2. (n - at) + 1 = 1
        BY <2>5, <4>1, Zenon
      <4>3. at = n /\ n >= 1 /\ at <= n
        BY <2>3, <4>2
      <4>4. rest[at] = w
        BY <2>5, <4>1, <4>3
      <4>5. QED
        BY <4>3, <4>4
    <3>2. ASSUME at = n, n >= 1, rest[n] = w PROVE value = <<w>>
      <4>1. Len(value) = 1 /\ value[1] = w
        BY <2>3, <2>5, <3>2
      <4>2. value \in Seq(Word)
        <5>1. at \in Nat \ {0} /\ Len(rest) \in Int /\ Len(rest) <= Len(rest)
          BY <2>3
        <5>2. QED
          BY <1>5, <5>1, PartOfLine
      <4> HIDE DEF value
      <4>3. value = <<value[1]>>
        BY <4>1, <4>2
      <4>4. QED
        BY <4>1, <4>3
    <3>3. QED
      BY <3>1, <3>2
  <2>7. ASSUME at = n, n >= 1, rest[n] = w PROVE Says(line, w)
    <3>1. L >= 3 /\ line[L] = w
      <4>1. n \in 1..n /\ 2 + n = L
        BY <2>3, <2>4, <2>7
      <4>2. QED
        BY <2>3, <2>4, <2>7, <4>1
    <3>2. \A i \in 3..L - 1 : line[i] = "SP"
      <4> SUFFICES ASSUME NEW i \in 3..L - 1 PROVE line[i] = "SP"
        OBVIOUS
      <4>1. i - 2 \in 1..at - 1 /\ i - 2 \in 1..n /\ 2 + (i - 2) = i
        BY <2>3, <2>4, <2>7
      <4>2. QED
        BY <2>3, <4>1
    <3>3. QED
      BY <3>1, <3>2 DEF Says
  <2>8. ASSUME Says(line, w) PROVE at = n /\ n >= 1 /\ rest[n] = w
    <3>1. L >= 3 /\ line[L] = w /\ \A i \in 3..L - 1 : line[i] = "SP"
      BY <2>8 DEF Says
    <3>2. n >= 1 /\ n \in 1..n /\ 2 + n = L
      BY <2>3, <2>4, <3>1
    <3>3. rest[n] = w /\ w # "SP"
      BY <2>3, <3>1, <3>2
    <3>4. ~(at < n)
      <4> SUFFICES ASSUME at < n PROVE FALSE
        OBVIOUS
      <4>1. at \in 1..n /\ 2 + at \in 3..L - 1 /\ at <= n
        BY <2>3, <2>4
      <4>2. QED
        BY <2>3, <3>1, <4>1
    <3>5. ~(at > n)
      <4> SUFFICES ASSUME at > n PROVE FALSE
        OBVIOUS
      <4>1. n \in 1..at - 1
        BY <2>3, <3>2
      <4>2. QED
        BY <2>3, <3>3, <4>1
    <3>6. QED
      BY <2>3, <3>2, <3>3, <3>4, <3>5
  <2> HIDE DEF value
  <2>9. QED
    BY <2>1, <2>6, <2>7, <2>8
<1>10. \A w \in {"Close", "Keep-Alive"} : GetHeader(NoRequest, Connection) # <<w>>
  <2>1. GetHeader(NoRequest, Connection) = <<>>
    BY DEF GetHeader, NoRequest
  <2>2. QED
    BY <2>1
<1>11. QED
  BY <1>8, <1>9, <1>10 DEF parsed

-----------------------------------------------------------------------------
(* The parser is where the reference is *)

\* The parser has taken whole lines.
Place == taken = 0 \/ taken - 1 \in LineEnds(stream)

\* The line to come starts a request.
RequestNext ==
    \/ taken = 0
    \/ taken - 1 \notin StartsRequest(stream) /\ ":" \notin Range(LineAt(stream, taken - 1))

\* The fields of request_ are from the last request line taken.
CurrentRequest ==
    \E l \in StartsRequest(stream) :
        /\ l < taken /\ \A f \in StartsRequest(stream) : f < taken => f <= l
        /\ Asks(request_, LineAt(stream, l))

\* What request_ has of a Connection header is the last one taken.
InForce ==
    \A w \in {"Close", "Keep-Alive"} :
        GetHeader(request_, Connection) = <<w>> <=> ConnectionIs(stream, taken, w)

\* Every request that ends in what was taken is answered, or is about to be.
Behind == {e \in DOMAIN due.answers : e < taken}

Counted == Cardinality(Behind) = Len(answers) + IF pc = "answer" THEN 1 ELSE 0

\* As long as the connection is not refused or to be closed, the parser is where
\* the reference is.
Following ==
    /\ \A f \in due.refused : ~(f < taken)
    /\ \A n \in DOMAIN answers : ~answers[n].close
    /\ InForce
    /\ Counted
    /\ parse_state_ = "kParseRequestLine" => RequestNext /\ pc # "answer"
    /\ parse_state_ = "kParseRequestHeader" => ~RequestNext /\ CurrentRequest /\ pc # "answer"
    /\ parse_state_ = "kParseGotCompleteRequest" =>
          pc = "answer" /\ CurrentRequest /\ taken - 1 \in DOMAIN due.answers

ParserInvariant ==
    /\ due = Due(stream)
    /\ Place
    /\ state_ = "kConnected" => Following
    /\ state_ = "kDisConnecting" => pc = "wait"
    /\ AnswersAreTheParse

\* What is due, in its parts.
LEMMA DueParts ==
    ASSUME NEW s
    PROVE  /\ Due(s).refused = {e \in StartsRequest(s) : ~Recognised(LineAt(s, e))}
           /\ DOMAIN Due(s).answers =
                 {e \in LineEnds(s) \ StartsRequest(s) :
                     ":" \notin Range(LineAt(s, e)) /\ \A f \in Due(s).refused : e < f}
           /\ \A e \in DOMAIN Due(s).answers : Due(s).answers[e] = AnswerAt(s, e)
BY DEF Due

\* Among the lines up to k2 one more than up to k1: the last Connection header is
\* that line's or what it was.
LEMMA ConnectionStep ==
    ASSUME NEW W, NEW s \in Seq(W), NEW k1 \in Int, NEW k2 \in Int, NEW w,
           \A f \in LineEnds(s) : f < k2 <=> f < k1 \/ f = k2 - 1
    PROVE  /\ k2 - 1 \notin NamesConnection(s) =>
                 (ConnectionIs(s, k2, w) <=> ConnectionIs(s, k1, w))
           /\ k2 - 1 \in NamesConnection(s) =>
                 (ConnectionIs(s, k2, w) <=> Says(LineAt(s, k2 - 1), w))
<1> DEFINE names == NamesConnection(s)
           g == k2 - 1
           Last(k, d) == d < k /\ \A f \in names : f < k => f <= d
<1>1. names \subseteq LineEnds(s) /\ LineEnds(s) \subseteq Int
  BY LenProperties DEF NamesConnection, LineEnds
<1>2. \A k : ConnectionIs(s, k, w) <=> \E d \in names : Last(k, d) /\ Says(LineAt(s, d), w)
  BY DEF ConnectionIs
<1> HIDE DEF names
<1>3. CASE g \notin names
  <2>1. \A f \in names : f < k2 <=> f < k1
    BY <1>1, <1>3
  <2>2. \A d \in names : Last(k2, d) <=> Last(k1, d)
    BY <2>1
  <2> HIDE DEF Last
  <2>3. QED
    BY <1>2, <1>3, <2>2 DEF names
<1>4. CASE g \in names
  <2>1. g < k2 /\ \A f \in names : f < k2 => f <= g
    BY <1>1
  <2>2. Last(k2, g)
    BY <2>1
  <2>3. \A d \in names : Last(k2, d) => d = g
    <3> SUFFICES ASSUME NEW d \in names, Last(k2, d) PROVE d = g
      OBVIOUS
    <3>1. d <= g /\ g <= d
      BY <1>4, <2>1
    <3>2. QED
      BY <1>1, <3>1
  <2> HIDE DEF Last
  <2>4. ConnectionIs(s, k2, w) <=> Says(LineAt(s, g), w)
    BY <1>2, <1>4, <2>2, <2>3
  <2>5. QED
    BY <1>4, <2>4 DEF names
<1>5. QED
  BY <1>3, <1>4

\* At most as many requests end as there are bytes.
LEMMA BehindFinite ==
    ASSUME NEW W, NEW s \in Seq(W)
    PROVE  IsFiniteSet(LineEnds(s))
<1>1. Len(s) \in Nat
  BY LenProperties
<1>2. IsFiniteSet(1..Len(s) - 1)
  BY <1>1, FS_Interval
<1>3. QED
  BY <1>2, FS_Subset DEF LineEnds

\* A header line changes no other field.
LEMMA HeaderKeepsFields ==
    ASSUME NEW r, IsRequest(r), NEW line, NEW l, Asks(r, l)
    PROVE  Asks(ParseHeaders(r, line), l)
BY DEF IsRequest, ParseHeaders, Asks

\* At first nothing is taken, and nothing that is due is behind.
LEMMA InitParser == Init => ParserInvariant
<1> SUFFICES ASSUME Init PROVE ParserInvariant
  OBVIOUS
<1>1. stream \in Seq(Word) /\ due = Due(stream) /\ taken = 0 /\ answers = <<>> /\ pc = "wait"
      /\ state_ = "kConnected" /\ parse_state_ = "kParseRequestLine" /\ request_ = NoRequest
  BY WordAssumption DEF Init
<1>2. LineEnds(stream) \subseteq Nat \ {0}
  BY <1>1, LenProperties DEF LineEnds
<1>3. StartsRequest(stream) \subseteq LineEnds(stream)
  BY <1>1, RequestLinesAre
<1>4. due.refused \subseteq Nat \ {0} /\ DOMAIN due.answers \subseteq Nat \ {0}
      /\ NamesConnection(stream) \subseteq Nat \ {0}
  BY <1>1, <1>2, <1>3, DueParts DEF NamesConnection
<1>5. InForce
  <2>1. \A w : ~ConnectionIs(stream, taken, w)
    <3>1. \A d \in NamesConnection(stream) : ~(d < 0)
      BY <1>4
    <3>2. QED
      BY <1>1, <3>1 DEF ConnectionIs
  <2>2. \A w \in {"Close", "Keep-Alive"} : GetHeader(request_, Connection) # <<w>>
    <3>1. GetHeader(NoRequest, Connection) = <<>>
      BY DEF GetHeader, NoRequest
    <3>2. QED
      BY <1>1, <3>1
  <2>3. QED
    BY <2>1, <2>2 DEF InForce
<1>6. Counted
  <2>1. Behind = {}
    <3>1. \A e \in DOMAIN due.answers : ~(e < 0)
      BY <1>4
    <3>2. QED
      BY <1>1, <3>1 DEF Behind
  <2>2. QED
    BY <1>1, <2>1, FS_EmptySet DEF Counted
<1>7. Following
  <2>1. \A f \in due.refused : ~(f < taken)
    BY <1>1, <1>4
  <2>2. QED
    BY <1>1, <1>5, <1>6, <2>1 DEF Following, RequestNext
<1>8. AnswersAreTheParse
  BY <1>1 DEF AnswersAreTheParse
<1>9. QED
  BY <1>1, <1>7, <1>8 DEF ParserInvariant, Place

\* A step that takes and answers nothing.
LEMMA ParserRests ==
    ASSUME ParserInvariant,
           UNCHANGED <<stream, due, taken, parse_state_, request_, state_, answers>>,
           pc # "answer", pc' # "answer",
           state_ = "kDisConnecting" => pc' = "wait"
    PROVE  ParserInvariant'
<1>1. Place'
  BY DEF ParserInvariant, Place
<1>2. (state_ = "kConnected" => Following)'
  <2> SUFFICES ASSUME state_ = "kConnected" PROVE Following'
    OBVIOUS
  <2>1. Following
    BY DEF ParserInvariant
  <2>2. InForce'
    BY <2>1 DEF Following, InForce
  <2>3. Counted'
    BY <2>1 DEF Following, Counted, Behind
  <2>4. (RequestNext <=> RequestNext') /\ (CurrentRequest => CurrentRequest')
    BY DEF RequestNext, CurrentRequest
  <2>5. QED
    BY <2>1, <2>2, <2>3, <2>4 DEF Following
<1>3. AnswersAreTheParse'
  BY DEF ParserInvariant, AnswersAreTheParse
<1>4. QED
  BY <1>1, <1>2, <1>3 DEF ParserInvariant

\* What a read brings is not taken yet.
LEMMA HandleReadFollows == Typing /\ ParserInvariant /\ HandleRead => ParserInvariant'
<1> SUFFICES ASSUME Typing, ParserInvariant, HandleRead PROVE ParserInvariant'
  OBVIOUS
<1>1. UNCHANGED <<stream, due, taken, parse_state_, request_, state_, answers>>
  BY DEF HandleRead, parseVars
<1>2. pc = "wait" /\ pc' = IF state_ = "kDisConnecting" THEN "wait" ELSE "parse"
  BY DEF HandleRead
<1>3. QED
  BY <1>1, <1>2, ParserRests

\* Without a whole line the parser stays where it is.
LEMMA NoLineFollows == Typing /\ ParserInvariant /\ NoLine => ParserInvariant'
<1> SUFFICES ASSUME Typing, ParserInvariant, NoLine PROVE ParserInvariant'
  OBVIOUS
<1>1. UNCHANGED <<stream, due, taken, parse_state_, request_, state_, answers>>
  BY DEF NoLine, inputVars, parseVars
<1>2. pc = "parse" /\ pc' = "wait"
  BY DEF NoLine
<1>3. QED
  BY <1>1, <1>2, ParserRests

\* Writing does not concern the parser.
LEMMA HandleWriteFollows == Typing /\ ParserInvariant /\ HandleWrite => ParserInvariant'
<1> SUFFICES ASSUME Typing, ParserInvariant, HandleWrite PROVE ParserInvariant'
  OBVIOUS
<1>1. UNCHANGED <<stream, due, taken, parse_state_, request_, state_, answers>>
  BY DEF HandleWrite, inputVars, parseVars
<1>2. pc = "wait" /\ pc' = "wait"
  BY DEF HandleWrite
<1>3. QED
  BY <1>1, <1>2, ParserRests

\* Neither does a step that changes nothing.
LEMMA StutterFollows == Typing /\ ParserInvariant /\ UNCHANGED vars => ParserInvariant'
<1> SUFFICES ASSUME Typing, ParserInvariant, UNCHANGED vars PROVE ParserInvariant'
  OBVIOUS
<1>1. UNCHANGED <<stream, due, taken, parse_state_, request_, state_, answers, pc>>
  BY DEF vars, inputVars, parseVars
<1>2. CASE pc # "answer"
  BY <1>1, <1>2, ParserRests DEF ParserInvariant
<1>3. CASE pc = "answer"
  <2>1. Place' /\ AnswersAreTheParse'
    BY <1>1 DEF ParserInvariant, Place, AnswersAreTheParse
  <2>2. (state_ = "kConnected" => Following)'
    <3> SUFFICES ASSUME state_ = "kConnected" PROVE Following'
      BY <1>1
    <3>1. Following
      BY DEF ParserInvariant
    <3>2. InForce' /\ Counted' /\ (RequestNext <=> RequestNext') /\ (CurrentRequest => CurrentRequest')
      BY <1>1, <3>1 DEF Following, InForce, Counted, Behind, RequestNext, CurrentRequest
    <3>3. QED
      BY <1>1, <3>1, <3>2 DEF Following
  <2>3. QED
    BY <1>1, <2>1, <2>2 DEF ParserInvariant
<1>4. QED
  BY <1>2, <1>3

\* The number below a bound.
LEMMA OneBelow ==
    ASSUME NEW t \in Int, NEW h, h = t - 1
    PROVE  /\ h \in Int /\ h < t
           /\ \A f \in Int : /\ f < t => f <= h
                             /\ ~(f < t) => h < f
                             /\ f < t => ~(h < f)
OBVIOUS

\* A line that begins with two words has the second.
LEMMA SecondWord ==
    ASSUME NEW W, NEW s \in Seq(W), Len(s) >= 2, NEW a, NEW b, SubSeq(s, 1, 2) = <<a, b>>
    PROVE  b \in Range(s)
<1>1. Len(s) \in Nat /\ 2 \in DOMAIN s
  BY LenProperties
<1>2. SubSeq(s, 1, 2)[2] = s[2]
  BY <1>1
<1>3. <<a, b>>[2] = b
  OBVIOUS
<1>4. QED
  BY <1>1, <1>2, <1>3 DEF Range

\* What every step of the parser takes.
LEMMA LineStep ==
    ASSUME Typing, InputIsStream, ParserInvariant, HasLine, RetrieveLine, stream' = stream
    PROVE  /\ stream \in Seq(Word) /\ taken \in Int /\ taken' \in Int /\ taken < taken'
           /\ taken' - 1 \in LineEnds(stream)
           /\ \A f \in LineEnds(stream) : f < taken' <=> f < taken \/ f = taken' - 1
           /\ LineAt(stream, taken' - 1) = Line /\ Line \in Seq(Word)
           /\ taken' - 1 \in StartsRequest(stream) <=> RequestNext
           /\ StartsRequest(stream) \subseteq LineEnds(stream)
           /\ LineEnds(stream) \subseteq Int
           /\ Place'
<1>1. stream \in Seq(Word) /\ taken \in Int
  BY DEF Typing
<1>2. taken = 0 \/ taken - 1 \in LineEnds(stream)
  BY DEF ParserInvariant, Place
<1>3. /\ taken' \in Nat /\ taken < taken'
      /\ taken' - 1 \in LineEnds(stream)
      /\ \A f \in LineEnds(stream) : f < taken' <=> f < taken \/ f = taken' - 1
      /\ LineAt(stream, taken' - 1) = Line
      /\ taken' - 1 \in StartsRequest(stream) <=>
            \/ taken = 0
            \/ taken - 1 \notin StartsRequest(stream) /\ ":" \notin Range(LineAt(stream, taken - 1))
  BY <1>2, LineIsNext
<1>4. Line \in Seq(Word)
  BY LineTaken
<1>5. StartsRequest(stream) \subseteq LineEnds(stream) /\ LineEnds(stream) \subseteq Int
  BY <1>1, RequestLinesAre, LenProperties DEF LineEnds
<1>6. Place'
  BY <1>3 DEF Place
<1>7. QED
  BY <1>1, <1>3, <1>4, <1>5, <1>6 DEF RequestNext

\* A request line the parser comes to is a request line of the stream, and is
\* accepted exactly if it is well formed.
LEMMA RequestLineFollows ==
    Typing /\ InputIsStream /\ ParserInvariant /\ RequestLine => ParserInvariant'
<1> SUFFICES ASSUME Typing, InputIsStream, ParserInvariant, RequestLine
             PROVE  ParserInvariant'
  OBVIOUS
<1> DEFINE g == taken' - 1
           result == ParseRequestLine(request_, Line)
<1>1. /\ pc = "parse" /\ parse_state_ = "kParseRequestLine" /\ HasLine /\ RetrieveLine
      /\ request_' = result.request
      /\ UNCHANGED <<stream, due, received, answers>>
  BY DEF RequestLine, inputVars
<1>2. \/ /\ result.ok
         /\ parse_state_' = "kParseRequestHeader" /\ pc' = "parse" /\ state_' = state_
      \/ /\ ~result.ok
         /\ state_' = "kDisConnecting" /\ pc' = "wait"
  BY DEF RequestLine, LineMore
<1>3. state_ = "kConnected" /\ Following
  BY <1>1 DEF ParserInvariant, Typing
<1>4. /\ stream \in Seq(Word) /\ taken \in Int /\ taken' \in Int /\ taken < taken'
      /\ g \in LineEnds(stream)
      /\ \A f \in LineEnds(stream) : f < taken' <=> f < taken \/ f = g
      /\ LineAt(stream, g) = Line /\ Line \in Seq(Word)
      /\ g \in StartsRequest(stream) <=> RequestNext
      /\ StartsRequest(stream) \subseteq LineEnds(stream)
      /\ LineEnds(stream) \subseteq Int
      /\ Place'
  BY <1>1, LineStep
<1>a. /\ g \in Int /\ g < taken'
      /\ \A f \in Int : /\ f < taken' => f <= g
                        /\ ~(f < taken') => g < f
                        /\ f < taken' => ~(g < f)
  <2>1. taken' \in Int
    BY <1>4
  <2>2. QED
    BY <2>1, OneBelow
<1>5. g \in StartsRequest(stream)
  BY <1>1, <1>3, <1>4 DEF Following
<1>6. /\ result.ok \in BOOLEAN
      /\ result.ok => Recognised(Line) /\ Asks(result.request, Line)
      /\ Recognised(Line) => result.ok
      /\ result.request.headers = request_.headers
  BY <1>4, RequestLineParsed DEF Typing
<1> HIDE DEF result, g
<1>7. /\ due = Due(stream)
      /\ due.refused = {e \in StartsRequest(stream) : ~Recognised(LineAt(stream, e))}
      /\ DOMAIN due.answers \subseteq LineEnds(stream) \ StartsRequest(stream)
  BY DueParts DEF ParserInvariant
<1>8. CASE result.ok
  <2>1. state_' = "kConnected" /\ parse_state_' = "kParseRequestHeader" /\ pc' = "parse"
    BY <1>2, <1>3, <1>8
  <2>2. \A f \in due.refused : ~(f < taken')
    <3> SUFFICES ASSUME NEW f \in due.refused, f < taken' PROVE FALSE
      OBVIOUS
    <3>1. f \in LineEnds(stream) /\ ~(f < taken)
      BY <1>3, <1>4, <1>7 DEF Following
    <3>2. f = g
      BY <1>4, <3>1
    <3>3. QED
      BY <1>4, <1>6, <1>7, <1>8, <3>2
  <2>3. InForce'
    <3>1. g \notin NamesConnection(stream)
      BY <1>5 DEF NamesConnection
    <3>2. ASSUME NEW w \in {"Close", "Keep-Alive"}
          PROVE  ConnectionIs(stream, taken', w) <=> ConnectionIs(stream, taken, w)
      BY <1>4, <3>1, ConnectionStep DEF g
    <3>3. GetHeader(request_', Connection) = GetHeader(request_, Connection)
      BY <1>1, <1>6 DEF GetHeader
    <3>4. QED
      BY <1>1, <1>3, <3>2, <3>3 DEF Following, InForce
  <2>4. Counted'
    <3>1. Behind' = Behind
      <4>1. \A e \in DOMAIN due.answers : e < taken' <=> e < taken
        BY <1>4, <1>5, <1>7
      <4>2. QED
        BY <1>1, <4>1 DEF Behind
    <3>2. QED
      BY <1>1, <1>3, <2>1, <3>1 DEF Following, Counted
  <2>5. ~RequestNext'
    <3>1. taken' # 0 /\ g \in StartsRequest(stream)'
      <4>1. 0 \notin LineEnds(stream) /\ -1 \notin LineEnds(stream)
        BY <1>4, LenProperties DEF LineEnds
      <4>2. taken' # 0
        BY <1>4, <4>1 DEF g
      <4>3. QED
        BY <1>1, <1>5, <4>2
    <3>2. QED
      BY <3>1 DEF RequestNext, g
  <2>6. CurrentRequest'
    <3>1. g < taken' /\ \A f \in StartsRequest(stream) : f < taken' => f <= g
      BY <1>4, <1>a, Zenon
    <3>2. Asks(request_', LineAt(stream, g))
      BY <1>1, <1>4, <1>6, <1>8
    <3>3. QED
      BY <1>1, <1>5, <3>1, <3>2 DEF CurrentRequest
  <2>7. Following'
    BY <1>1, <1>3, <2>1, <2>2, <2>3, <2>4, <2>5, <2>6 DEF Following
  <2>8. AnswersAreTheParse'
    BY <1>1, <2>1 DEF ParserInvariant, AnswersAreTheParse
  <2>9. QED
    BY <1>1, <1>4, <1>7, <2>1, <2>7, <2>8 DEF ParserInvariant
<1>9. CASE ~result.ok
  <2>1. state_' = "kDisConnecting" /\ pc' = "wait"
    BY <1>2, <1>9
  <2>2. g \in due.refused
    BY <1>4, <1>5, <1>6, <1>7, <1>9
  <2>3. AnswersAreTheParse'
    BY <1>1, <2>1, <2>2 DEF ParserInvariant, AnswersAreTheParse, g
  <2>4. QED
    BY <1>1, <1>4, <1>7, <2>1, <2>3 DEF ParserInvariant
<1>10. QED
  BY <1>8, <1>9

\* A header line is a line of the stream that starts no request; one without a
\* colon ends one.
LEMMA HeaderLineFollows ==
    Typing /\ InputIsStream /\ ParserInvariant /\ HeaderLine => ParserInvariant'
<1> SUFFICES ASSUME Typing, InputIsStream, ParserInvariant, HeaderLine
             PROVE  ParserInvariant'
  OBVIOUS
<1> DEFINE g == taken' - 1
<1>1. /\ pc = "parse" /\ parse_state_ = "kParseRequestHeader" /\ HasLine /\ RetrieveLine
      /\ UNCHANGED <<stream, due, received, state_, answers>>
  BY DEF HeaderLine, inputVars
<1>2. \/ /\ ":" \in Range(Line)
         /\ request_' = ParseHeaders(request_, Line)
         /\ pc' = "parse" /\ parse_state_' = parse_state_
      \/ /\ ":" \notin Range(Line)
         /\ request_' = request_
         /\ pc' = "answer" /\ parse_state_' = "kParseGotCompleteRequest"
  BY DEF HeaderLine, LineMore
<1>3. state_ = "kConnected" /\ Following /\ IsRequest(request_)
  BY <1>1 DEF ParserInvariant, Typing
<1>4. /\ stream \in Seq(Word) /\ taken \in Int /\ taken' \in Int /\ taken < taken'
      /\ g \in LineEnds(stream)
      /\ \A f \in LineEnds(stream) : f < taken' <=> f < taken \/ f = g
      /\ LineAt(stream, g) = Line /\ Line \in Seq(Word)
      /\ g \in StartsRequest(stream) <=> RequestNext
      /\ StartsRequest(stream) \subseteq LineEnds(stream)
      /\ LineEnds(stream) \subseteq Int
      /\ Place'
  BY <1>1, LineStep
<1>a. /\ g \in Int /\ g < taken'
      /\ \A f \in Int : /\ f < taken' => f <= g
                        /\ ~(f < taken') => g < f
                        /\ f < taken' => ~(g < f)
  <2>1. taken' \in Int
    BY <1>4
  <2>2. QED
    BY <2>1, OneBelow
<1>5. g \notin StartsRequest(stream)
  BY <1>1, <1>3, <1>4 DEF Following
<1> HIDE DEF g
<1>6. /\ due = Due(stream)
      /\ due.refused \subseteq StartsRequest(stream)
      /\ DOMAIN due.answers =
            {e \in LineEnds(stream) \ StartsRequest(stream) :
                ":" \notin Range(LineAt(stream, e)) /\ \A f \in due.refused : e < f}
  BY DueParts DEF ParserInvariant
<1>7. \A f \in due.refused : ~(f < taken')
  BY <1>3, <1>4, <1>5, <1>6 DEF Following
<1>8. g \in NamesConnection(stream) <=> Names(Line)
  BY <1>4, <1>5 DEF NamesConnection, Names
<1>9. InForce'
  <2> SUFFICES ASSUME NEW w \in {"Close", "Keep-Alive"}
               PROVE  GetHeader(request_', Connection) = <<w>> <=> ConnectionIs(stream, taken', w)
    BY <1>1 DEF InForce
  <2>1. GetHeader(request_, Connection) = <<w>> <=> ConnectionIs(stream, taken, w)
    BY <1>3 DEF Following, InForce
  <2>2. /\ g \notin NamesConnection(stream) =>
              (ConnectionIs(stream, taken', w) <=> ConnectionIs(stream, taken, w))
        /\ g \in NamesConnection(stream) =>
              (ConnectionIs(stream, taken', w) <=> Says(LineAt(stream, g), w))
    BY <1>4, ConnectionStep DEF g
  <2>3. CASE ":" \in Range(Line)
    <3>1. /\ ~Names(Line) => GetHeader(request_', Connection) = GetHeader(request_, Connection)
          /\ Names(Line) => (GetHeader(request_', Connection) = <<w>> <=> Says(Line, w))
      BY <1>2, <1>3, <1>4, <2>3, HeaderParsed
    <3>2. QED
      BY <1>4, <1>8, <2>1, <2>2, <3>1
  <2>4. CASE ":" \notin Range(Line)
    <3>1. ~Names(Line)
      <4> SUFFICES ASSUME Names(Line) PROVE FALSE
        OBVIOUS
      <4>1. Len(Line) >= 2 /\ SubSeq(Line, 1, 2) = <<"Connection", ":">>
        BY DEF Names
      <4>2. ":" \in Range(Line)
        BY <1>4, <4>1, SecondWord
      <4>3. QED
        BY <2>4, <4>2
    <3>2. QED
      BY <1>2, <1>8, <2>1, <2>2, <2>4, <3>1
  <2>5. QED
    BY <2>3, <2>4
<1>10. CurrentRequest'
  <2>1. PICK l \in StartsRequest(stream) :
            /\ l < taken /\ \A f \in StartsRequest(stream) : f < taken => f <= l
            /\ Asks(request_, LineAt(stream, l))
    BY <1>1, <1>3 DEF Following, CurrentRequest
  <2>2. Asks(request_', LineAt(stream, l))
    BY <1>2, <1>3, <2>1, HeaderKeepsFields
  <2>3. l < taken' /\ \A f \in StartsRequest(stream) : f < taken' => f <= l
    BY <1>4, <1>5, <2>1
  <2>4. QED
    BY <1>1, <2>2, <2>3 DEF CurrentRequest
<1>11. CASE ":" \in Range(Line)
  <2>1. Behind' = Behind
    <3>1. g \notin DOMAIN due.answers
      BY <1>4, <1>6, <1>11
    <3>2. \A e \in DOMAIN due.answers : e < taken' <=> e < taken
      BY <1>4, <1>6, <3>1
    <3>3. QED
      BY <1>1, <3>2 DEF Behind
  <2>2. Counted'
    BY <1>1, <1>2, <1>3, <1>11, <2>1 DEF Following, Counted
  <2>3. ~RequestNext'
    <3>1. taken' # 0
      <4>1. -1 \notin LineEnds(stream)
        BY <1>4, LenProperties DEF LineEnds
      <4>2. QED
        BY <1>4, <4>1 DEF g
    <3>2. ":" \in Range(LineAt(stream, g))
      BY <1>4, <1>11
    <3>3. QED
      BY <1>1, <3>1, <3>2 DEF RequestNext, g
  <2>4. Following'
    BY <1>1, <1>2, <1>3, <1>7, <1>9, <1>10, <1>11, <2>2, <2>3 DEF Following
  <2>5. AnswersAreTheParse'
    BY <1>1, <1>3 DEF ParserInvariant, AnswersAreTheParse
  <2>6. QED
    BY <1>1, <1>3, <1>4, <1>6, <2>4, <2>5 DEF ParserInvariant
<1>12. CASE ":" \notin Range(Line)
  <2>1. g \in DOMAIN due.answers
    <3>1. \A f \in due.refused : g < f
      <4> SUFFICES ASSUME NEW f \in due.refused PROVE g < f
        OBVIOUS
      <4>1. f \in Int /\ ~(f < taken')
        BY <1>4, <1>6, <1>7
      <4>2. QED
        BY <4>1, <1>a, Zenon
    <3>2. QED
      BY <1>4, <1>5, <1>6, <1>12, <3>1
  <2>2. Behind' = Behind \cup {g} /\ g \notin Behind
    <3>1. \A e \in DOMAIN due.answers : e < taken' <=> e < taken \/ e = g
      BY <1>4, <1>6
    <3>2. ~(g < taken)
      BY <1>4, <1>a, Zenon
    <3>3. QED
      BY <1>1, <2>1, <3>1, <3>2 DEF Behind
  <2>3. IsFiniteSet(Behind)
    <3>1. Behind \subseteq LineEnds(stream)
      BY <1>6 DEF Behind
    <3>2. QED
      BY <1>4, <3>1, BehindFinite, FS_Subset
  <2>4. Cardinality(Behind') = Cardinality(Behind) + 1
    BY <2>2, <2>3, FS_AddElement
  <2>5. Counted'
    <3>1. Cardinality(Behind) = Len(answers) + 0
      BY <1>1, <1>3 DEF Following, Counted
    <3>2. Len(answers) \in Nat
      BY LenProperties DEF Typing
    <3>3. Cardinality(Behind') = Len(answers) + 1
      BY <2>4, <3>1, <3>2
    <3>4. QED
      BY <1>1, <1>2, <1>12, <3>3 DEF Counted
  <2>6. Following'
    BY <1>1, <1>2, <1>3, <1>7, <1>9, <1>10, <1>12, <2>1, <2>5 DEF Following, g
  <2>7. AnswersAreTheParse'
    BY <1>1, <1>3 DEF ParserInvariant, AnswersAreTheParse
  <2>8. QED
    BY <1>1, <1>3, <1>4, <1>6, <2>6, <2>7 DEF ParserInvariant
<1>13. QED
  BY <1>11, <1>12

\* A line of a stream is made of its words.
LEMMA LineAtType ==
    ASSUME NEW W, NEW s \in Seq(W), NEW e \in LineEnds(s)
    PROVE  LineAt(s, e) \in Seq(W)
<1>1. Len(s) \in Nat /\ LineEnds(s) \subseteq 1..Len(s) - 1
  BY LenProperties DEF LineEnds
<1> DEFINE first == IF LinesBefore(s, e) = {} THEN 1 ELSE Latest(LinesBefore(s, e)) + 2
<1>2. first \in Nat \ {0}
  <2>1. LinesBefore(s, e) # {} => Latest(LinesBefore(s, e)) \in Nat
    BY <1>1, LineBefore
  <2>2. QED
    BY <2>1
<1>3. e - 1 \in Int /\ e - 1 <= Len(s)
  BY <1>1
<1> HIDE DEF first
<1>4. SubSeq(s, first, e - 1) \in Seq(W)
  BY <1>2, <1>3, PartOfLine
<1>5. QED
  BY <1>4 DEF LineAt, first

\* A connection goes on exactly after a GET that does not want it closed.
LEMMA ResponseCloses ==
    ASSUME NEW r
    PROVE  Response(r).close <=> r.method # "GET" \/ WantsClose(r)
<1> DEFINE w == WantsClose(r)
<1>1. w \in BOOLEAN
  BY Zenon DEF WantsClose
<1> HIDE DEF w
<1> DEFINE other == [status |-> "400", close |-> TRUE, body |-> << >>]
           website == [status |-> "200", close |-> w, body |-> <<"Website">>]
           notFound == [status |-> "404", close |-> w, body |-> <<"NotFound">>]
<1>2. /\ r.method # "GET" => Response(r) = other
      /\ r.method = "GET" => Response(r) = website \/ Response(r) = notFound
  BY DEF Response, HttpResponse, w
<1>3. other.close /\ website.close = w /\ notFound.close = w
  OBVIOUS
<1> HIDE DEF other, website, notFound
<1>4. QED
  BY <1>1, <1>2, <1>3, Zenon DEF w

\* The answer given to the request that ends in the last line taken is the one due
\* to it.
LEMMA AnswerIsDue ==
    ASSUME Typing, ParserInvariant, CurrentRequest, InForce, taken - 1 \in DOMAIN due.answers
    PROVE  /\ taken - 1 \notin StartsRequest(stream)
           /\ ":" \notin Range(LineAt(stream, taken - 1))
           /\ due.answers[taken - 1] =
                 [end |-> taken - 1, method |-> request_.method, path |-> request_.path,
                  version |-> request_.version, close |-> Response(request_).close]
<1> DEFINE e == taken - 1
           starts == StartsRequest(stream)
<1>1. stream \in Seq(Word) /\ taken \in Int
  BY DEF Typing
<1>2. e \in Int /\ e < taken /\ \A f \in Int : f < taken <=> f < e \/ f = e
  BY <1>1
<1> HIDE DEF e
<1>3. /\ due = Due(stream)
      /\ e \in LineEnds(stream) /\ e \notin starts /\ ":" \notin Range(LineAt(stream, e))
      /\ due.answers[e] = AnswerAt(stream, e)
  BY DueParts DEF ParserInvariant, e
<1>4. starts \subseteq Int /\ LineEnds(stream) \subseteq Int
  BY <1>1, RequestLinesAre, LenProperties DEF LineEnds
<1>5. PICK l \in starts :
          /\ l < taken /\ \A f \in starts : f < taken => f <= l
          /\ Asks(request_, LineAt(stream, l))
  BY DEF CurrentRequest
<1> HIDE DEF starts
<1>6. Latest({f \in starts : f < e}) = l
  <2> DEFINE S == {f \in starts : f < e}
  <2>1. l \in S
    <3>1. l # e /\ l \in Int
      BY <1>3, <1>4, <1>5
    <3>2. l < e
      BY <1>2, <1>5, <3>1
    <3>3. QED
      BY <3>2
  <2>2. S \subseteq Int /\ \A f \in S : f <= l
    <3> SUFFICES ASSUME NEW f \in S PROVE f \in Int /\ f <= l
      OBVIOUS
    <3>1. f \in starts /\ f < e /\ f \in Int
      BY <1>4
    <3>2. f < taken
      BY <1>2, <3>1
    <3>3. QED
      BY <1>5, <3>1, <3>2
  <2> HIDE DEF S
  <2>3. Latest(S) = l
    BY <2>1, <2>2, LatestIs
  <2>4. QED
    BY <2>3 DEF S
<1> DEFINE line == LineAt(stream, l)
           url == SubSeq(line, 3, Len(line) - 2)
           closes == \/ line[1] # "GET"
                     \/ ConnectionIs(stream, e, "Close")
                     \/ line[Len(line)] = "HTTP/1.0" /\ ~ConnectionIs(stream, e, "Keep-Alive")
<1>7. AnswerAt(stream, e) =
          [end |-> e, method |-> line[1], path |-> SubSeq(url, 1, Find(url, "?") - 1),
           version |-> line[Len(line)], close |-> closes]
  BY <1>6 DEF AnswerAt, starts
<1>8. /\ request_.method = line[1] /\ request_.version = line[Len(line)]
      /\ request_.path = SubSeq(url, 1, Find(url, "?") - 1)
  BY <1>5 DEF Asks, UrlPath
<1> HIDE DEF line, url
<1>9. ASSUME NEW w \in {"Close", "Keep-Alive"}
      PROVE  ConnectionIs(stream, e, w) <=> GetHeader(request_, Connection) = <<w>>
  <2>1. e \notin NamesConnection(stream)
    <3> SUFFICES ASSUME e \in NamesConnection(stream) PROVE FALSE
      OBVIOUS
    <3>1. /\ Len(LineAt(stream, e)) >= 2
          /\ SubSeq(LineAt(stream, e), 1, 2) = <<"Connection", ":">>
      BY DEF NamesConnection
    <3>2. LineAt(stream, e) \in Seq(Word)
      BY <1>1, <1>3, LineAtType
    <3>3. QED
      BY <1>3, <3>1, <3>2, SecondWord
  <2>2. \A f \in LineEnds(stream) : f < taken <=> f < e \/ f = taken - 1
    BY <1>2, <1>4 DEF e
  <2>3. ConnectionIs(stream, taken, w) <=> ConnectionIs(stream, e, w)
    BY <1>1, <1>2, <2>1, <2>2, ConnectionStep DEF e
  <2>4. QED
    BY <2>3 DEF InForce
<1>10. closes = Response(request_).close
  <2>1. WantsClose(request_) <=>
            \/ ConnectionIs(stream, e, "Close")
            \/ request_.version = "HTTP/1.0" /\ ~ConnectionIs(stream, e, "Keep-Alive")
    BY <1>9 DEF WantsClose, Connection
  <2>2. Response(request_).close <=> closes
    BY <1>8, <2>1, ResponseCloses
  <2>3. Response(request_).close \in BOOLEAN /\ closes \in BOOLEAN
    BY ResponseType, Zenon
  <2> HIDE DEF closes
  <2>4. QED
    BY <2>2, <2>3
<1> HIDE DEF closes
<1>11. QED
  BY <1>3, <1>7, <1>8, <1>10 DEF e, starts

\* Each request is answered as due and in its turn.
LEMMA DealWithRequestFollows ==
    Typing /\ ParserInvariant /\ DealWithRequest => ParserInvariant'
<1> SUFFICES ASSUME Typing, ParserInvariant, DealWithRequest
             PROVE  ParserInvariant'
  OBVIOUS
<1> DEFINE closes == Response(request_).close
           new == [end |-> taken - 1, method |-> request_.method, path |-> request_.path,
                   version |-> request_.version, close |-> closes]
           L == Len(answers)
<1>1. /\ pc = "answer" /\ pc' = "wait" /\ parse_state_' = "kParseRequestLine"
      /\ state_' = IF closes THEN "kDisConnecting" ELSE state_
      /\ answers' = Append(answers, new)
      /\ UNCHANGED <<stream, due, taken, request_>>
  BY DEF DealWithRequest, ResetContentState, inputVars
<1>2. state_ = "kConnected" /\ Following
  BY <1>1 DEF ParserInvariant, Typing
<1>3. parse_state_ = "kParseGotCompleteRequest"
  BY <1>1, <1>2 DEF Following, Typing
<1>4. CurrentRequest /\ InForce /\ taken - 1 \in DOMAIN due.answers
  BY <1>2, <1>3 DEF Following
<1>5. /\ taken - 1 \notin StartsRequest(stream)
      /\ ":" \notin Range(LineAt(stream, taken - 1))
      /\ due.answers[taken - 1] = new
  BY <1>4, AnswerIsDue
<1>6. closes \in BOOLEAN /\ new.close = closes /\ new.end = taken - 1
  BY ResponseType
<1> HIDE DEF closes, new
<1>7. /\ L \in Nat /\ DOMAIN answers = 1..L /\ DOMAIN answers' = 1..L + 1
      /\ Len(answers') = L + 1
      /\ answers'[L + 1] = new /\ \A n \in 1..L : answers'[n] = answers[n]
  BY <1>1, AppendProperties, LenProperties DEF Typing
<1>8. Cardinality(Behind) = L + 1
  BY <1>1, <1>2 DEF Following, Counted
<1>9. Behind = {e \in DOMAIN due.answers : e <= taken - 1}
  <2>1. DOMAIN due.answers \subseteq Int /\ taken \in Int
    <3>1. DOMAIN due.answers \subseteq LineEnds(stream)
      BY DueParts DEF ParserInvariant
    <3>2. QED
      BY <3>1, LenProperties DEF LineEnds, Typing
  <2>2. \A e \in DOMAIN due.answers : e < taken <=> e <= taken - 1
    BY <2>1
  <2>3. QED
    BY <2>2 DEF Behind
<1>10. AnswersAreTheParse'
  <2>1. ASSUME NEW n \in DOMAIN answers'
        PROVE  /\ answers'[n].end \in DOMAIN due.answers
               /\ answers'[n] = due.answers[answers'[n].end]
               /\ Cardinality({e \in DOMAIN due.answers : e <= answers'[n].end}) = n
               /\ answers'[n].close => n = L + 1
    <3>1. CASE n = L + 1
      BY <1>4, <1>5, <1>6, <1>7, <1>8, <1>9, <3>1
    <3>2. CASE n # L + 1
      <4>1. n \in DOMAIN answers /\ answers'[n] = answers[n]
        BY <1>7, <2>1, <3>2
      <4>2. ~answers[n].close
        BY <1>2, <4>1 DEF Following
      <4>3. QED
        BY <4>1, <4>2 DEF ParserInvariant, AnswersAreTheParse
    <3>3. QED
      BY <3>1, <3>2
  <2>2. state_' = "kDisConnecting" => \E n \in DOMAIN answers' : answers'[n].close
    <3>1. closes => L + 1 \in DOMAIN answers' /\ answers'[L + 1].close
      <4>1. L + 1 \in DOMAIN answers'
        BY <1>7
      <4>2. QED
        BY <1>6, <1>7, <4>1, Zenon
    <3>2. QED
      BY <1>1, <1>2, <3>1
  <2>3. QED
    BY <1>1, <1>7, <2>1, <2>2 DEF AnswersAreTheParse
<1>11. state_' = "kConnected" => Following'
  <2> SUFFICES ASSUME state_' = "kConnected" PROVE Following'
    OBVIOUS
  <2>1. ~closes
    BY <1>1
  <2>2. \A n \in DOMAIN answers' : ~answers'[n].close
    <3> SUFFICES ASSUME NEW n \in DOMAIN answers' PROVE ~answers'[n].close
      OBVIOUS
    <3>1. CASE n = L + 1
      BY <1>6, <1>7, <2>1, <3>1
    <3>2. CASE n # L + 1
      BY <1>2, <1>7, <3>2 DEF Following
    <3>3. QED
      BY <3>1, <3>2
  <2>3. InForce'
    BY <1>1, <1>4 DEF InForce
  <2>4. Counted'
    <3>1. Behind' = Behind
      BY <1>1 DEF Behind
    <3>2. Len(answers') + 0 = L + 1
      BY <1>7
    <3>3. QED
      BY <1>1, <1>8, <3>1, <3>2 DEF Counted
  <2>5. RequestNext'
    BY <1>1, <1>5 DEF RequestNext
  <2>6. QED
    BY <1>1, <1>2, <2>2, <2>3, <2>4, <2>5 DEF Following
<1>12. Place'
  BY <1>1 DEF ParserInvariant, Place
<1>13. QED
  BY <1>1, <1>10, <1>11, <1>12 DEF ParserInvariant

(***************************************************************************)
(* The parser is always where the reference is, however the stream is cut. *)
(***************************************************************************)
THEOREM ParserInvariantHolds == Spec => []ParserInvariant
<1>1. Init => ParserInvariant
  BY InitParser
<1>2. Typing /\ InputIsStream /\ ParserInvariant /\ [Next]_vars => ParserInvariant'
  <2> SUFFICES ASSUME Typing, InputIsStream, ParserInvariant, [Next]_vars
               PROVE  ParserInvariant'
    OBVIOUS
  <2>1. CASE HandleRead
    BY <2>1, HandleReadFollows
  <2>2. CASE NoLine
    BY <2>2, NoLineFollows
  <2>3. CASE RequestLine
    BY <2>3, RequestLineFollows
  <2>4. CASE HeaderLine
    BY <2>4, HeaderLineFollows
  <2>5. CASE DealWithRequest
    BY <2>5, DealWithRequestFollows
  <2>6. CASE HandleWrite
    BY <2>6, HandleWriteFollows
  <2>7. CASE UNCHANGED vars
    BY <2>7, StutterFollows
  <2>8. QED
    BY <2>1, <2>2, <2>3, <2>4, <2>5, <2>6, <2>7 DEF Next
<1>3. HttpInvariant => Typing /\ InputIsStream
  BY DEF HttpInvariant
<1>4. QED
  BY <1>1, <1>2, <1>3, HttpInvariantHolds, PTL DEF Spec

\* However the stream is cut, the answers are those of the requests in the whole
\* stream in their order, and a connection that is refused has just sent a
\* request line that is not Recognised (HttpContent::ParseContent, httpServer.cc:26-38).
THEOREM AnswersAreTheParseHolds == Spec => []AnswersAreTheParse
<1>1. ParserInvariant => AnswersAreTheParse
  BY DEF ParserInvariant
<1>2. QED
  BY <1>1, ParserInvariantHolds, PTL
=============================================================================
