------------------------------ MODULE MCDpdkApp ------------------------------
(* Model-checking instance of DpdkApp: three lcores, the second is main. *)
EXTENDS DpdkApp
CONSTANTS l1, l2, l3
MCLcores == <<l1, l2, l3>>
=============================================================================
