-------------------------- MODULE MCHttpConnection --------------------------
(* HttpConnection for TLC: two requests in a row, of kinds that take every  *)
(* branch of the parser.                                                    *)
EXTENDS HttpConnection

RequestLines ==
    {<<"GET", "SP", "/", "SP", "HTTP/1.1">>,
     <<"GET", "SP", "x", "?", "q", "SP", "HTTP/1.0">>,
     <<"POST", "SP", "/", "SP", "HTTP/1.1">>}

\* No line has HEAD: the repository's README says that it is supported.
BadLines ==
    {<<"TRACE", "SP", "/", "SP", "HTTP/1.1">>, <<"GET", "SP", "/">>,
     <<"GET", "SP", "/", "SP", "q">>}

HeaderLines ==
    {<<>>, <<"Connection", ":", "SP", "Keep-Alive">> \o CRLF,
     <<"Connection", ":", "Close">> \o CRLF}

Requests ==
    {line \o CRLF \o header \o CRLF : line \in RequestLines, header \in HeaderLines}
      \union {<<"GET", "SP", "/", "SP", "HTTP/1.1">> \o CRLF \o <<"Connection">> \o CRLF}

TwoRequests ==
    {first \o second : first \in Requests, second \in Requests}
      \union {first \o line \o CRLF : first \in Requests, line \in BadLines}

Words ==
    {"GET", "POST", "TRACE", "SP", "/", "x", "?", "q", "HTTP/1.1", "HTTP/1.0", "CR", "LF",
     "Connection", ":", "Close", "Keep-Alive", "blank"} \union AnswerWords
=============================================================================
