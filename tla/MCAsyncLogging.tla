--------------------------- MODULE MCAsyncLogging ---------------------------
(* AsyncLogging for TLC: lines that take half, three quarters and all of a   *)
(* buffer, the last with a text and a number that are left out.              *)
EXTENDS AsyncLogging

Text(n) == [kind |-> "text", len |-> n]

Number == [kind |-> "number", value |-> 7]

ShortHeading == <<Text(1)>>

ShortAndLong == {<<>>, <<Number>>, <<Text(2), Text(3), Number>>}
=============================================================================
