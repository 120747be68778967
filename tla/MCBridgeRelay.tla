--------------------------- MODULE MCBridgeRelay ---------------------------
(* Model-checking instances of BridgeRelay: see the Relay*.cfg files. *)
EXTENDS BridgeRelay
=============================================================================
