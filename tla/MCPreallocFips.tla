----------------------------- MODULE MCPreallocFips -----------------------------
(* Small instances of PreallocFips for TLC.                                *)
EXTENDS PreallocFips, TLC

Unlimited == -1

Symmetry == Permutations(Here)
=============================================================================
