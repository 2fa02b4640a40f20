----------------------------- MODULE JudgeStore -----------------------------
(***************************************************************************)
(* The durable ScoringJobs (packages/storage/motte_storage/scoring_jobs.py) *)
(* beside RunStore.  A job asks a judge model to score a saved Run: it has  *)
(* a frozen plan of calls, each call is recorded before it is sent, and     *)
(* publishing appends a ScoringPass, moves the Run's current pass and       *)
(* completes the job in one transaction.  Each action is one BEGIN          *)
(* IMMEDIATE transaction, enabled exactly when it commits a change.         *)
(*                                                                         *)
(* Abstractions.  All jobs score one subject Run and every plan has NPlans  *)
(* calls; jobs are numbered in submission order.  A call is known by its    *)
(* place in the plan.  The frozen allowance is the sum of the reservations  *)
(* of the plan, so it refuses exactly what the call_id check refuses.  Cost *)
(* and usage totals, responses and parsing results are left out, and so are *)
(* calibration jobs, which publish without a Run, and the historical jobs   *)
(* without roles that recovery fails.                                       *)
(***************************************************************************)
EXTENDS RunStore

CONSTANTS NJobs,    \* number of jobs that can be submitted
          NPlans    \* number of calls in the plan of a job

ASSUME NJobsAssumption == NJobs \in Nat \ {0}
ASSUME NPlansAssumption == NPlans \in Nat \ {0}

Jobs == 1..NJobs
Plans == 1..NPlans
Subject == 1    \* the Run the jobs score

VARIABLE job    \* job[j]: status, revision, cancellation request, calls, receipt

judge == <<store, job>>

-----------------------------------------------------------------------------
TERMINAL_JOB_STATES == {"completed", "failed", "cancelled", "indeterminate"}
JobStatus == {"absent", "queued", "prepared", "dispatching", "settled"}
               \cup TERMINAL_JOB_STATES

JOB_TRANSITIONS ==
  [s \in JobStatus |->
     CASE s = "queued" -> {"prepared", "cancelled", "failed"}
       [] s = "prepared" -> {"dispatching", "queued", "cancelled", "failed", "indeterminate"}
       [] s = "dispatching" -> {"settled", "failed", "indeterminate", "cancelled"}
       [] s = "settled" -> {"completed", "failed", "cancelled", "indeterminate"}
       [] OTHER -> {}]

(* "none": the call is not in the ledger; the last three are the outcomes of *)
(* a settled call.                                                           *)
Outcome == {"succeeded", "failed", "indeterminate"}
CallStatus == {"none", "dispatching"} \cup Outcome

(* receipt is the pass that the job published, 0 before it did. *)
JobRecord == [status : JobStatus, revision : Nat, cancel : BOOLEAN,
              calls : [Plans -> CallStatus], receipt : Nat]

NoJob == [status |-> "absent", revision |-> 0, cancel |-> FALSE,
          calls |-> [p \in Plans |-> "none"], receipt |-> 0]

InFlight(j) == \E p \in Plans : job[j].calls[p] = "dispatching"

-----------------------------------------------------------------------------
(* _next_revision and _write *)
NextJob(j, status, cancel, calls, receipt) ==
  job' = [job EXCEPT ![j] = [status |-> status, revision |-> job[j].revision + 1,
                             cancel |-> cancel, calls |-> calls, receipt |-> receipt]]

(* A request key that already has a job gives that job back. *)
submit(j) ==
  /\ job[j].status = "absent"
  /\ NextJob(j, "queued", FALSE, [p \in Plans |-> "none"], 0)
  /\ UNCHANGED store

(* Claiming a settled job only records that its publication is resumed. *)
claim_job(j) ==
  /\ job[j].status \in {"queued", "settled"}
  /\ NextJob(j, IF job[j].status = "queued" THEN "prepared" ELSE "settled",
             job[j].cancel, job[j].calls, job[j].receipt)
  /\ UNCHANGED store

job_transition(j, revision, from, to) ==
  /\ from # "absent"
  /\ job[j].revision = revision
  /\ job[j].status = from
  /\ to = from \/ to \in JOB_TRANSITIONS[from]
  /\ NextJob(j, to, job[j].cancel, job[j].calls, job[j].receipt)
  /\ UNCHANGED store

-----------------------------------------------------------------------------
can_begin_call(j, p, revision) ==
  /\ job[j].revision = revision
  /\ job[j].status \in {"prepared", "dispatching"}
  /\ ~job[j].cancel
  /\ job[j].calls[p] = "none"

begin_call(j, p, revision) ==
  /\ can_begin_call(j, p, revision)
  /\ NextJob(j, "dispatching", FALSE, [job[j].calls EXCEPT ![p] = "dispatching"],
             job[j].receipt)
  /\ UNCHANGED store

can_settle_call(j, p, revision) ==
  /\ job[j].revision = revision
  /\ job[j].status = "dispatching"
  /\ job[j].calls[p] = "dispatching"

settle_call(j, p, revision, outcome, to) ==
  /\ can_settle_call(j, p, revision)
  /\ to = "dispatching" \/ to \in JOB_TRANSITIONS["dispatching"]
  /\ NextJob(j, to, job[j].cancel, [job[j].calls EXCEPT ![p] = outcome], job[j].receipt)
  /\ UNCHANGED store

-----------------------------------------------------------------------------
(* Mutant: the early returns for settled jobs are missing. *)
CanCancelAny(j) == job[j].status # "absent"

(* A dispatching job only gets a request; a completed, cancelled or          *)
(* indeterminate one is left as it is.  Every other status, failed included, *)
(* becomes cancelled.                                                        *)
can_cancel(j) ==
  \/ job[j].status = "dispatching" /\ ~job[j].cancel
  \/ job[j].status \in {"queued", "prepared"} /\ ~InFlight(j)
  \/ job[j].status \in {"settled", "failed"}

(* Mutant: a job with a call in flight is cancelled on the spot. *)
CancelInFlight(j) ==
  /\ can_cancel(j)
  /\ NextJob(j, "cancelled", TRUE, job[j].calls, job[j].receipt)
  /\ UNCHANGED store

cancel_job(j) ==
  /\ can_cancel(j)
  /\ NextJob(j, IF job[j].status = "dispatching" THEN "dispatching" ELSE "cancelled",
             TRUE, job[j].calls, job[j].receipt)
  /\ UNCHANGED store

(* Mutant: the receipt is written without completing the job. *)
PublishWithoutCompleting(j, revision, previous, runRevision, runStatus) ==
  /\ job[j].status \in {"prepared", "settled"}
  /\ ~InFlight(j)
  /\ job[j].revision = revision
  /\ append(Subject, runRevision, runStatus,
            [source |-> "judge", scored |-> Cases, previous |-> previous],
            {}, runStatus, FALSE)
  /\ NextJob(j, job[j].status, job[j].cancel, job[j].calls, Len(passes[Subject]) + 1)

can_publish(j, revision) ==
  /\ job[j].status \in {"prepared", "settled"}
  /\ job[j].status = "prepared" => ~InFlight(j)
  /\ job[j].revision = revision

(* The pass, the Run's current pass and the job's receipt in one             *)
(* transaction; the Run keeps its status.                                    *)
publish(j, revision, previous, runRevision, runStatus) ==
  /\ can_publish(j, revision)
  /\ append(Subject, runRevision, runStatus,
            [source |-> "judge", scored |-> Cases, previous |-> previous],
            {}, runStatus, FALSE)
  /\ NextJob(j, "completed", job[j].cancel, job[j].calls, Len(passes[Subject]) + 1)

(* Mutant: recovery puts dispatching jobs back into the queue. *)
RecoverRequeues ==
  /\ job' = [j \in Jobs |->
               IF job[j].status \in {"prepared", "dispatching"}
                 THEN [status |-> "queued", revision |-> job[j].revision + 1,
                       cancel |-> job[j].cancel, calls |-> [p \in Plans |-> "none"],
                       receipt |-> job[j].receipt]
                 ELSE job[j]]
  /\ UNCHANGED store

(* A prepared job was never dispatched and goes back into the queue; a       *)
(* dispatching one is indeterminate, with its open call.  The second write   *)
(* of the service only voids the cost total of the indeterminate ones.       *)
recover_jobs ==
  /\ job' = [j \in Jobs |->
               IF job[j].status = "prepared" /\ ~InFlight(j)
                 THEN [status |-> "queued", revision |-> job[j].revision + 1,
                       cancel |-> job[j].cancel, calls |-> job[j].calls,
                       receipt |-> job[j].receipt]
               ELSE IF job[j].status = "dispatching"
                 THEN [status |-> "indeterminate", revision |-> job[j].revision + 1,
                       cancel |-> job[j].cancel,
                       calls |-> [p \in Plans |->
                                    IF job[j].calls[p] = "dispatching"
                                      THEN "indeterminate" ELSE job[j].calls[p]],
                       receipt |-> job[j].receipt]
               ELSE job[j]]
  /\ UNCHANGED store

-----------------------------------------------------------------------------
(* Any store, before a judge job was submitted. *)
JudgeInit ==
  /\ TypeOK
  /\ \A k \in DOMAIN passes[Subject] : passes[Subject][k].source # "judge"
  /\ job = [j \in Jobs |-> NoJob]

JobStep(j) ==
  \/ submit(j)
  \/ claim_job(j)
  \/ cancel_job(j)
  \/ \E to \in JobStatus \ {"completed"} : job_transition(j, job[j].revision, job[j].status, to)
  \/ \E previous \in 0..Len(passes[Subject]) :
       publish(j, job[j].revision, previous, run[Subject].revision, run[Subject].status)
  \/ \E p \in Plans :
       \/ begin_call(j, p, job[j].revision)
       \/ \E outcome \in Outcome, to \in JobStatus :
            settle_call(j, p, job[j].revision, outcome, to)

(* The other clients of the store write no judge pass. *)
OtherStep == StoreNext /\ UNCHANGED job

JudgeNext == recover_jobs \/ OtherStep \/ \E j \in Jobs : JobStep(j)

JudgeStoreSpec == JudgeInit /\ [][JudgeNext]_judge

-----------------------------------------------------------------------------
(* The types of the job records. *)
JobTypeOK == job \in [Jobs -> JobRecord]

(* A job is completed exactly when it has a receipt, the receipt names a     *)
(* judge pass of its own, and every judge pass is some job's: publish is     *)
(* all or nothing and happens once, whoever resumes the job.                 *)
PublishedOnce ==
  /\ \A j \in Jobs :
       /\ job[j].status = "completed" <=> job[j].receipt # 0
       /\ job[j].receipt # 0 => /\ job[j].receipt \in DOMAIN passes[Subject]
                                /\ passes[Subject][job[j].receipt].source = "judge"
  /\ \A i, j \in Jobs : job[i].receipt = job[j].receipt /\ job[i].receipt # 0 => i = j
  /\ \A k \in DOMAIN passes[Subject] :
       passes[Subject][k].source = "judge" => \E j \in Jobs : job[j].receipt = k

(* The status, the ledger and the receipt of the job stay. *)
KeepsOutcome(j) ==
  /\ job'[j].status = job[j].status
  /\ job'[j].calls = job[j].calls
  /\ job'[j].receipt = job[j].receipt

(* Completed, cancelled and indeterminate are final: late answers, resumed   *)
(* publications and cancellations of such a job change neither its outcome   *)
(* nor its ledger.                                                           *)
JobIsFinal ==
  [][\A j \in Jobs :
       job[j].status \in TERMINAL_JOB_STATES \ {"failed"} => KeepsOutcome(j)]_judge
=============================================================================
