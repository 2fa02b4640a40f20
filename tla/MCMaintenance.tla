---------------------------- MODULE MCMaintenance ----------------------------
(* Maintenance for TLC.  Operators are interchangeable. *)
EXTENDS Maintenance, TLC

Symmetry == Permutations(Operators)
=============================================================================
