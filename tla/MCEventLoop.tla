----------------------------- MODULE MCEventLoop ----------------------------
(* A loop with three functors, two foreign threads and one user channel.   *)
EXTENDS EventLoop

=============================================================================
