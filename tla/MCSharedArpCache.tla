-------------------------- MODULE MCSharedArpCache --------------------------
(* Model-checking instances of SharedArpCache: see the Arp*.cfg files.     *)
EXTENDS SharedArpCache
=============================================================================
