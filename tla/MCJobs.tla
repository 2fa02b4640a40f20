------------------------------- MODULE MCJobs -------------------------------
(* JobWorker for TLC: the actors have roles, so that none are interchangeable. *)
EXTENDS JobWorker, TLC
=============================================================================
