------------------------------- MODULE MCTeardown -------------------------------
(* Small instances of Teardown for TLC.                                    *)
EXTENDS Teardown, TLC

Symmetry == Permutations(Subnet) \cup Permutations(Router)
=============================================================================
