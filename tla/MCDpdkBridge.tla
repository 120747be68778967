---------------------------- MODULE MCDpdkBridge ----------------------------
(* Model-checking instance of DpdkBridge: at most one of the calls listens. *)
EXTENDS DpdkBridge
MCAsks ==
    {k \in [Calls -> {"connect", "listen", "bind_udp"}] :
        Cardinality({c \in Calls : k[c] = "listen"}) <= 1}
=============================================================================
