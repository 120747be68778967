------------------------------ MODULE BytePipe ------------------------------
(***************************************************************************)
(* What one direction of a TCP stream promises its user: the reader gets   *)
(* the writer's bytes, in order, each once.  It promises no more: the      *)
(* stream may end at any moment and whatever was not delivered by then is  *)
(* gone.  BridgeRelay implements this specification twice, once for each   *)
(* direction.                                                              *)
(***************************************************************************)
EXTENDS Naturals, Sequences

VARIABLES
    sent,   \* how many bytes the writer has written; byte i is the number i
    got     \* the sequence of bytes the reader has read

vars == <<sent, got>>

Init == sent = 0 /\ got = <<>>

\* The first n bytes the writer wrote.
Written(n) == [i \in 1..n |-> i]

Write == sent' \in Nat /\ sent' > sent /\ UNCHANGED got

Read == \E n \in (Len(got) + 1)..sent : got' = Written(n) /\ UNCHANGED sent

Spec == Init /\ [][Write \/ Read]_vars
=============================================================================
