---------------------------- MODULE MCReservations ----------------------------
(* Small instances of Reservations for TLC.                                *)
EXTENDS Reservations, TLC

Symmetry == Permutations(Flavor) \cup Permutations(Run)
=============================================================================
