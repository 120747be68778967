----------------------------- MODULE MCUdpRelay -----------------------------
(* Model-checking instance of UdpRelay: see Udp.cfg. *)
EXTENDS UdpRelay
=============================================================================
