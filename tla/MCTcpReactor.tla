---------------------------- MODULE MCTcpReactor ----------------------------
(* TLC instances of the reactor and its TCP sockets.                       *)
EXTENDS TcpReactor, TLC

\* Handles are interchangeable.
Symmetry == Permutations(Handles)
=============================================================================
