------------------------------ MODULE MCWorker ------------------------------
(* Worker for TLC: actors of a kind are interchangeable. *)
EXTENDS Worker, TLC

ActorSymmetry == Permutations(Workers) \cup Permutations(Clients)
=============================================================================
