------------------------------ MODULE MCProxy ------------------------------
(* What two clients may type: a request of the cached object or of another,  *)
(* line by line or at once, with and without header lines, once more after   *)
(* the blank line, with a version the proxy refuses, or a blank line first.  *)
EXTENDS Proxy

Get(p, v) == [kind |-> "GET", path |-> p, version |-> v]
HLine == [kind |-> "H-line"]

Other == CHOOSE p \in Path : p # CachedPath

Inputs ==
    {<<Get(CachedPath, "1.0"), CRLF, CRLF>>,
     <<Get(Other, "1.1"), CRLF, CRLF, CRLF>>,
     <<Get(Other, "bad"), CRLF, CRLF>>,
     <<Get(Other, "1.0"), CRLF, HLine, CRLF>>,
     <<CRLF, Get(CachedPath, "1.1")>>}
=============================================================================
