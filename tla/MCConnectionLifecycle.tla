----------------------- MODULE MCConnectionLifecycle ------------------------
(* Instances of ConnectionLifecycle; connections are interchangeable.      *)
EXTENDS ConnectionLifecycle, TLC

Symmetry == Permutations(Conn)

=============================================================================
