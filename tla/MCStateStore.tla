----------------------------- MODULE MCStateStore -----------------------------
(* Small instances of StateStore for TLC.                                  *)
EXTENDS StateStore, TLC

Symmetry == Permutations(Proc) \cup Permutations(Key) \cup Permutations(Val)
=============================================================================
