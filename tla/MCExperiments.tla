---------------------------- MODULE MCExperiments ---------------------------
(* Experiments for TLC. *)
EXTENDS Experiments, TLC
CONSTANTS s1, s2, o1, o2, x, y
Symmetric == Permutations({s1, s2}) \cup Permutations({o1, o2}) \cup Permutations({x, y})
=============================================================================
