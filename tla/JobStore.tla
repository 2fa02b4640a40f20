------------------------------ MODULE JobStore ------------------------------
(***************************************************************************)
(* The durable state of external benchmark Jobs beside the Run store:      *)
(* the Jobs with their finalisation checkpoint and the records imported    *)
(* from them (packages/storage/motte_storage/external_jobs.py) and the     *)
(* planned Trials with their results (trials.py).  Each definition is one  *)
(* BEGIN IMMEDIATE transaction, or the value it writes.                    *)
(*                                                                         *)
(* Abstractions.  A Job is known by its Run and its place in jobs_for_run. *)
(* Of the handle only its pid matters, of the checkpoint import_completed, *)
(* outcome_status, whether there is an outcome_error, whether there is a   *)
(* frozen bundle that can be parsed, and what parsing it gives.  A Case    *)
(* stands for its one planned Trial, and is the import key of its record.  *)
(* A record or a result is reduced to its content, so that equal contents  *)
(* have equal hashes.  The parser version in the keys does not change      *)
(* under a Job (ParserMismatch of JobWorker), and the conflict ledger,     *)
(* which nothing reads back, is left out.                                  *)
(***************************************************************************)
EXTENDS RunStore

VARIABLES jobs,      \* jobs[r]: the Jobs of a Run, oldest first
          records,   \* records[r][j][c]: the imported record of a Case
          trials     \* trials[r][c]: the planned Trial of a Case

jobStore == <<jobs, records, trials>>

-----------------------------------------------------------------------------
RECOVERABLE_STATUSES == {"launching", "active", "collecting"}
TERMINAL_JOB_STATUSES == {"settled", "failed", "cancelled", "indeterminate"}
JobStatus == RECOVERABLE_STATUSES \cup TERMINAL_JOB_STATUSES

(* "ok": a result without an error; "bad": one with an error; "skip": the    *)
(* runner says the Trial was not attempted; "late": what                     *)
(* import_late_results stored.                                               *)
Content == {"ok", "bad", "skip", "late"}
Results == [Cases -> Content \cup {"none"}]
NoResults == [c \in Cases |-> "none"]

(* A Trial without a plan, without a result, with a disposition the platform *)
(* made up (synthesized_by), or with the runner's result.                    *)
TrialState == {"unplanned", "pending", "placeholder"} \cup Content

JobRecord == [status : JobStatus, pid : BOOLEAN, import_completed : BOOLEAN,
              bundle : BOOLEAN, frozen : Results,
              outcome : {"none"} \cup TERMINAL_JOB_STATUSES, error : BOOLEAN]

-----------------------------------------------------------------------------
recoverable_for_run(r) == {j \in DOMAIN jobs[r] : jobs[r][j].status \in RECOVERABLE_STATUSES}

(* The intent is stored before the process is started: no pid yet. *)
begin_job(r) ==
  /\ jobs' = [jobs EXCEPT ![r] = Append(jobs[r],
       [status |-> "launching", pid |-> FALSE, import_completed |-> FALSE,
        bundle |-> FALSE, frozen |-> NoResults, outcome |-> "none", error |-> FALSE])]
  /\ records' = [records EXCEPT ![r] = Append(records[r], NoResults)]
  /\ UNCHANGED trials

update_job(r, j, updated) ==
  /\ jobs' = [jobs EXCEPT ![r] = [jobs[r] EXCEPT ![j] = updated]]
  /\ UNCHANGED <<records, trials>>

(* Same key, same content: nothing to do; same key, other content: the       *)
(* stored record stays and the caller is told of the conflict.               *)
import_conflict(r, j, c, content) == records[r][j][c] \notin {"none", content}

import_record(r, j, c, content) ==
  /\ records' = [records EXCEPT ![r] = [records[r] EXCEPT ![j] =
                   [records[r][j] EXCEPT ![c] = IF records[r][j][c] = "none" THEN content
                                                ELSE records[r][j][c]]]]
  /\ UNCHANGED <<jobs, trials>>

-----------------------------------------------------------------------------
(* create_plans leaves the plans alone that are there. *)
create_plans(planned) == [c \in Cases |-> IF planned[c] = "unplanned" THEN "pending" ELSE planned[c]]

result_conflict(r, c, content) ==
  trials[r][c] \notin {"unplanned", "pending", "placeholder", content}

(* put_result of runner evidence, after the plans: it fills an empty Trial   *)
(* and replaces a placeholder, and is never replaced itself.                 *)
put_result(r, c, content) ==
  /\ trials' = [trials EXCEPT ![r] = [create_plans(trials[r]) EXCEPT ![c] =
                  IF result_conflict(r, c, content) THEN trials[r][c] ELSE content]]
  /\ UNCHANGED <<jobs, records>>

(* Mutant: a placeholder replaces a result. *)
DisposeReplaces(r, S) ==
  trials' = [trials EXCEPT ![r] = [c \in Cases |->
               IF c \in S THEN "placeholder" ELSE create_plans(trials[r])[c]]]

(* put_result of a placeholder for each of some Trials without a result. *)
dispose(r, S) ==
  trials' = [trials EXCEPT ![r] = [c \in Cases |->
               IF c \in S /\ trials[r][c] \in {"unplanned", "pending"} THEN "placeholder"
               ELSE create_plans(trials[r])[c]]]

-----------------------------------------------------------------------------
JobStoreInit ==
  /\ jobs = [r \in Runs |-> <<>>]
  /\ records = [r \in Runs |-> <<>>]
  /\ trials = [r \in Runs |-> [c \in Cases |-> "unplanned"]]

(* What the Job tables may hold. *)
JobTables ==
  /\ jobs \in [Runs -> Seq(JobRecord)]
  /\ records \in [Runs -> Seq(Results)]
  /\ \A r \in Runs : Len(records[r]) = Len(jobs[r])
  /\ trials \in [Runs -> [Cases -> TrialState]]
=============================================================================
