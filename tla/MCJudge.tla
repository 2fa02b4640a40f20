------------------------------ MODULE MCJudge ------------------------------
(* JudgeWorker for TLC: Workers are interchangeable. *)
EXTENDS JudgeWorker, TLC

WorkerSymmetry == Permutations(Workers)
=============================================================================
