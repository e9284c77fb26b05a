---------------------------- MODULE MCTimerQueue ----------------------------
(* TimerQueue for TLC: RunAt is called with a moment that has passed, which *)
(* a configuration file cannot write.                                       *)
EXTENDS TimerQueue

PastMoment == {-1}
=============================================================================
