---------------------------- MODULE MCDpdkDevice ----------------------------
(* TLC instances of the device.                                            *)
EXTENDS DpdkDevice, TLC

\* The mbufs of a pool are interchangeable.
Symmetry == Permutations(Mbufs)
=============================================================================
