---------------------------- MODULE DatagramPipe ----------------------------
(***************************************************************************)
(* What one direction of a UDP socket promises: datagrams may be lost, but *)
(* those that come out come out in the order they went in, each at most    *)
(* once.  UdpRelay implements this specification twice.                    *)
(***************************************************************************)
EXTENDS Naturals

VARIABLES
    sent,   \* how many datagrams went in; the i-th is the number i
    got     \* the last one that came out, 0 at first

Init == sent = 0 /\ got = 0

Send == sent' = sent + 1 /\ UNCHANGED got

\* Any later datagram comes out; those in between are lost.
Deliver == got' \in (got + 1)..sent /\ UNCHANGED sent

Spec == Init /\ [][Send \/ Deliver]_<<sent, got>>
=============================================================================
