---------------------------- MODULE JudgeWorker ----------------------------
(***************************************************************************)
(* The execution of judge jobs: ScoringJobService.run_claimed with its     *)
(* calls, cancellation and publication                                     *)
(* (packages/sdk-python/motte_sdk/scoring_jobs.py), claimed by a Worker    *)
(* under the executor lock, while API requests cancel jobs and rescore the *)
(* subject Run through RunService.  A Worker may crash between any two     *)
(* steps, and the lock may be lost under it.                               *)
(*                                                                         *)
(* jf[w] is the activation record of a Worker: its next step (pc), the job *)
(* and the call it works on, the job as last written or loaded (current,   *)
(* latest), and what _finalize read of the subject Run.  An exception in a *)
(* job is reported and the Worker goes on (_claim_judge_job).  The frozen  *)
(* record of a job is taken to be well formed: building a request from it  *)
(* does not raise.                                                         *)
(***************************************************************************)
EXTENDS JudgeStore, RunService

CONSTANTS LockCanBeLost,   \* the executor lock is a PostgreSQL advisory lock
          MaxRequests,     \* bound on API requests
          MaxCrashes       \* bound on crashes and lost locks

ASSUME JudgeWorkerAssumption ==
  /\ LockCanBeLost \in BOOLEAN
  /\ MaxRequests \in Nat
  /\ MaxCrashes \in Nat

VARIABLES jf,         \* activation record of every Worker
          requests,   \* API requests so far
          crashes,    \* crashes and lost locks so far
          sent        \* history: sent[j][p], the times a call was sent

env == <<requests, crashes>>
vars == <<judge, fr, lock, jf, env, sent>>

Idle(pc) == [pc |-> pc, j |-> 1, p |-> 1, queue |-> "queued", outcome |-> "succeeded",
             current |-> NoJob, latest |-> NoJob, prev |-> 0, run |-> NoRun]

(* The subject Run as its execution left it: every Case called and scored. *)
Saved == [status |-> "completed", revision |-> 1, cancellation |-> FALSE, current |-> 1]

Init ==
  /\ run = [r \in Runs |-> Saved]
  /\ attempts = [r \in Runs |-> [c \in Cases |-> <<"succeeded">>]]
  /\ rows = [r \in Runs |-> [c \in Cases |-> "ok"]]
  /\ passes = [r \in Runs |-> <<[source |-> "initial", scored |-> Cases, previous |-> 0]>>]
  /\ job = [j \in Jobs |-> NoJob]
  /\ fr = [a \in Actors |-> Blank("idle")]
  /\ lock = NoActor
  /\ jf = [w \in Workers |-> Idle("down")]
  /\ requests = 0
  /\ crashes = 0
  /\ sent = [j \in Jobs |-> [p \in Plans |-> 0]]

-----------------------------------------------------------------------------
(* Control flow of a Worker. *)
JobOf(w) == job[jf[w].j]
Goto(w, f) == jf' = [jf EXCEPT ![w] = f] /\ UNCHANGED lock

(* Leaving the lock ends the Worker when the lock's connection is gone. *)
LeaveJob(w) ==
  /\ jf' = [jf EXCEPT ![w] = Idle(IF lock = w THEN "idle" ELSE "down")]
  /\ lock' = IF lock = w THEN NoActor ELSE lock

At(w, pc) == jf[w].pc = pc
Rest == UNCHANGED <<fr, env, sent>>

-----------------------------------------------------------------------------
(* Start and recovery; claim_next looks for queued jobs, then for settled    *)
(* ones, oldest first, and claims in a transaction of its own.  A poll that  *)
(* finds the lock held ends the process, which is a Crash of an idle Worker. *)
Start(w) ==
  /\ At(w, "down")
  /\ lock = NoActor
  /\ lock' = w
  /\ jf' = [jf EXCEPT ![w] = Idle("recover")]
  /\ UNCHANGED judge /\ Rest

RecoverInterrupted(w) ==
  /\ At(w, "recover")
  /\ recover_jobs
  /\ LeaveJob(w)
  /\ Rest

Acquire(w) ==
  /\ At(w, "idle")
  /\ lock = NoActor
  /\ \E j \in Jobs : job[j].status \in {"queued", "settled"}
  /\ lock' = w
  /\ jf' = [jf EXCEPT ![w] = Idle("next")]
  /\ UNCHANGED judge /\ Rest

NextQueue(w) ==
  IF jf[w].queue = "queued" THEN Goto(w, [jf[w] EXCEPT !.pc = "next", !.queue = "settled"])
  ELSE LeaveJob(w)

(* Mutant: a job whose publication was interrupted is never resumed. *)
ClaimOnlyQueued(w) ==
  /\ At(w, "next")
  /\ LET S == {j \in Jobs : job[j].status = "queued"} IN
       IF S = {} THEN LeaveJob(w)
       ELSE Goto(w, [jf[w] EXCEPT !.pc = "claim", !.j = Min(S)])
  /\ UNCHANGED judge /\ Rest

ClaimNext(w) ==
  /\ At(w, "next")
  /\ LET S == {j \in Jobs : job[j].status = jf[w].queue} IN
       IF S = {} THEN NextQueue(w)
       ELSE Goto(w, [jf[w] EXCEPT !.pc = "claim", !.j = Min(S)])
  /\ UNCHANGED judge /\ Rest

(* The record that the transaction wrote is what the Worker goes on with. *)
Claim(w) ==
  /\ At(w, "claim")
  /\ IF JobOf(w).status \in {"queued", "settled"}
       THEN /\ claim_job(jf[w].j)
            /\ Goto(w, [jf[w] EXCEPT
                         !.pc = IF JobOf(w).status = "queued" THEN "roles" ELSE "finalize",
                         !.current = job'[jf[w].j]])
       ELSE NextQueue(w) /\ UNCHANGED judge
  /\ Rest

-----------------------------------------------------------------------------
(* The roles of a pairwise job are verified before the first call. *)
RoleFailure(w) ==
  IF JobOf(w).revision = jf[w].current.revision
    THEN job_transition(jf[w].j, jf[w].current.revision, jf[w].current.status, "failed")
    ELSE UNCHANGED judge

RolesFail(w) ==
  /\ At(w, "roles")
  /\ RoleFailure(w)
  /\ LeaveJob(w)
  /\ Rest

RolesHold(w) ==
  /\ At(w, "roles")
  /\ Goto(w, [jf[w] EXCEPT !.pc = "load"])
  /\ UNCHANGED judge /\ Rest

(* The top of the loop over the plan. *)
Load(w) ==
  /\ At(w, "load")
  /\ LET f == jf[w]
         call == JobOf(w).calls[f.p]
     IN Goto(w, IF JobOf(w).cancel
                  THEN [f EXCEPT !.pc = "finalizeCancellation", !.latest = JobOf(w)]
                ELSE IF call = "dispatching"
                  THEN [f EXCEPT !.pc = "callFailed", !.current = JobOf(w),
                                 !.outcome = "indeterminate"]
                ELSE IF call = "none" THEN [f EXCEPT !.pc = "begin"]
                ELSE IF f.p = NPlans THEN [f EXCEPT !.pc = "finalize"]
                ELSE [f EXCEPT !.p = f.p + 1])
  /\ UNCHANGED judge /\ Rest

(* begin_call compares with the revision of the last write, not of the load. *)
BeginCall(w) ==
  /\ At(w, "begin")
  /\ LET f == jf[w] IN
       IF can_begin_call(f.j, f.p, f.current.revision)
         THEN /\ begin_call(f.j, f.p, f.current.revision)
              /\ Goto(w, [f EXCEPT !.pc = "send", !.current = job'[f.j]])
         ELSE LeaveJob(w) /\ UNCHANGED judge
  /\ Rest

Send(w) ==
  /\ At(w, "send")
  /\ Goto(w, [jf[w] EXCEPT !.pc = "wait"])
  /\ sent' = [sent EXCEPT ![jf[w].j][jf[w].p] = sent[jf[w].j][jf[w].p] + 1]
  /\ UNCHANGED <<judge, fr, env>>

Responds(w) ==
  /\ At(w, "wait")
  /\ Goto(w, [jf[w] EXCEPT !.pc = "reload"])
  /\ UNCHANGED judge /\ Rest

Errs(w) ==
  /\ At(w, "wait")
  /\ \E outcome \in {"failed", "indeterminate"} :
       Goto(w, [jf[w] EXCEPT !.pc = "callFailed", !.outcome = outcome])
  /\ UNCHANGED judge /\ Rest

Reload(w) ==
  /\ At(w, "reload")
  /\ Goto(w, [jf[w] EXCEPT !.latest = JobOf(w),
                           !.pc = IF JobOf(w).status = "dispatching" THEN "settle"
                                  ELSE "finalizeCancellation"])
  /\ UNCHANGED judge /\ Rest

Settle(w) ==
  /\ At(w, "settle")
  /\ LET f == jf[w]
         last == f.p = NPlans
     IN IF can_settle_call(f.j, f.p, f.latest.revision)
          THEN /\ settle_call(f.j, f.p, f.latest.revision, "succeeded",
                              IF last THEN "settled" ELSE "dispatching")
               /\ Goto(w, [f EXCEPT !.pc = IF last THEN "finalize" ELSE "load",
                                    !.p = IF last THEN f.p ELSE f.p + 1,
                                    !.current = job'[f.j], !.latest = NoJob])
          ELSE LeaveJob(w) /\ UNCHANGED judge
  /\ Rest

(* Mutant: a definite failure settles the job like an answer. *)
CallFailedSettles(w) ==
  /\ At(w, "callFailed")
  /\ LET f == jf[w]
         to == IF f.outcome = "failed" THEN "settled" ELSE f.outcome
     IN IF can_settle_call(f.j, f.p, f.current.revision)
          THEN settle_call(f.j, f.p, f.current.revision, f.outcome, to)
          ELSE UNCHANGED judge
  /\ LeaveJob(w)
  /\ Rest

(* _call_failed compares with the revision from before the call was sent. *)
CallFailed(w) ==
  /\ At(w, "callFailed")
  /\ LET f == jf[w] IN
       IF can_settle_call(f.j, f.p, f.current.revision)
         THEN settle_call(f.j, f.p, f.current.revision, f.outcome, f.outcome)
         ELSE UNCHANGED judge
  /\ LeaveJob(w)
  /\ Rest

-----------------------------------------------------------------------------
(* A request on a job whose calls are all settled is honoured by the Worker; *)
(* otherwise the store's cancel decides.                                     *)
FinalizeCancellation(w) ==
  /\ At(w, "finalizeCancellation")
  /\ LET f == jf[w]
         settled == \A p \in Plans : f.latest.calls[p] # "dispatching"
     IN IF f.latest.status = "dispatching" /\ settled
          THEN IF JobOf(w).revision = f.latest.revision
                 THEN job_transition(f.j, f.latest.revision, "dispatching", "cancelled")
                 ELSE UNCHANGED judge
          ELSE IF can_cancel(f.j) THEN cancel_job(f.j) ELSE UNCHANGED judge
  /\ LeaveJob(w)
  /\ Rest

(* _finalize: a request that was seen wins; a result with metrics that are   *)
(* not scored fails the job; otherwise the previous pass, then the Run, are  *)
(* read for the publication.                                                 *)
FinalizeFails(w) ==
  /\ At(w, "finalize")
  /\ ~jf[w].current.cancel
  /\ RoleFailure(w)
  /\ LeaveJob(w)
  /\ Rest

Finalize(w) ==
  /\ At(w, "finalize")
  /\ LET f == jf[w] IN
       Goto(w, IF f.current.cancel
                 THEN [f EXCEPT !.pc = "finalizeCancellation", !.latest = f.current]
                 ELSE [f EXCEPT !.pc = "readRun", !.prev = run[Subject].current])
  /\ UNCHANGED judge /\ Rest

ReadRun(w) ==
  /\ At(w, "readRun")
  /\ Goto(w, [jf[w] EXCEPT !.pc = "publish", !.run = run[Subject]])
  /\ UNCHANGED judge /\ Rest

(* A conflict on the Run, or on the job's revision, goes to the handler that *)
(* records it; a status that cannot publish raises or returns.               *)
Publish(w) ==
  /\ At(w, "publish")
  /\ LET f == jf[w] IN
       IF can_publish(f.j, f.current.revision)
          /\ Matches(Subject, f.run.revision, f.run.status)
         THEN /\ publish(f.j, f.current.revision, f.prev, f.run.revision, f.run.status)
              /\ LeaveJob(w)
         ELSE /\ IF JobOf(w).status \in {"prepared", "settled"}
                   THEN Goto(w, [f EXCEPT !.pc = "conflict"])
                   ELSE LeaveJob(w)
              /\ UNCHANGED judge
  /\ Rest

(* Mutant: after a conflict the job is queued again from the start. *)
ConflictRequeues(w) ==
  /\ At(w, "conflict")
  /\ LET f == jf[w] IN
       IF JobOf(w).revision = f.current.revision
         THEN NextJob(f.j, "queued", FALSE, f.current.calls, 0) /\ UNCHANGED store
         ELSE UNCHANGED judge
  /\ LeaveJob(w)
  /\ Rest

PublishConflict(w) ==
  /\ At(w, "conflict")
  /\ LET f == jf[w] IN
       IF JobOf(w).revision = f.current.revision
         THEN job_transition(f.j, f.current.revision, f.current.status, f.current.status)
         ELSE UNCHANGED judge
  /\ LeaveJob(w)
  /\ Rest

-----------------------------------------------------------------------------
(* API requests: submit and cancel are one transaction each, a rescore of    *)
(* the subject Run takes the steps of RunService.                            *)
Submit ==
  /\ \E j \in Jobs : (\A i \in 1..(j - 1) : job[i].status # "absent") /\ submit(j)
  /\ UNCHANGED <<fr, lock, jf, env, sent>>

CancelJob ==
  /\ requests < MaxRequests
  /\ requests' = requests + 1
  /\ \E j \in Jobs : cancel_job(j)
  /\ UNCHANGED <<fr, lock, jf, crashes, sent>>

RequestRescore(a) ==
  /\ fr[a].pc = "idle"
  /\ requests < MaxRequests
  /\ requests' = requests + 1
  /\ Step(a, [Blank("rescore") EXCEPT !.r = Subject])
  /\ UNCHANGED <<judge, jf, crashes, sent>>

RescoreStep(a) ==
  /\ \/ Rescore(a) \/ RescoreRows(a) \/ AppendLoad(a) \/ AppendPrevious(a)
     \/ AppendRaises(a) \/ AppendCommit(a)
  /\ UNCHANGED <<job, jf, env, sent>>

-----------------------------------------------------------------------------
Crash(w) ==
  /\ ~At(w, "down")
  /\ crashes < MaxCrashes
  /\ crashes' = crashes + 1
  /\ jf' = [jf EXCEPT ![w] = Idle("down")]
  /\ lock' = IF lock = w THEN NoActor ELSE lock
  /\ UNCHANGED <<judge, fr, requests, sent>>

LoseLock(w) ==
  /\ LockCanBeLost
  /\ lock = w
  /\ crashes < MaxCrashes
  /\ crashes' = crashes + 1
  /\ lock' = NoActor
  /\ UNCHANGED <<judge, fr, jf, requests, sent>>

WorkerStep(w) ==
  \/ Start(w) \/ RecoverInterrupted(w) \/ Acquire(w) \/ ClaimNext(w) \/ Claim(w)
  \/ RolesFail(w) \/ RolesHold(w) \/ Load(w) \/ BeginCall(w) \/ Send(w)
  \/ Responds(w) \/ Errs(w) \/ Reload(w) \/ Settle(w) \/ CallFailed(w)
  \/ FinalizeCancellation(w) \/ FinalizeFails(w) \/ Finalize(w) \/ ReadRun(w)
  \/ Publish(w) \/ PublishConflict(w)

Next ==
  \/ Submit
  \/ CancelJob
  \/ \E w \in Workers : WorkerStep(w) \/ Crash(w) \/ LoseLock(w)
  \/ \E a \in Clients : RequestRescore(a) \/ RescoreStep(a)

Spec == Init /\ [][Next]_vars

(* A Worker that is down is started again, a running one keeps running and   *)
(* polling, and a judge call returns or times out.                           *)
FairSpec == Spec /\ \A w \in Workers : WF_vars(WorkerStep(w))

-----------------------------------------------------------------------------
(* No judge call is sent twice, whoever resumes its job, and a call that was *)
(* sent is in the ledger: begin_call commits before the request goes out and *)
(* recovery never puts a dispatched job back.                                *)
NoResentCall ==
  \A j \in Jobs, p \in Plans :
    /\ sent[j][p] <= 1
    /\ sent[j][p] = 1 => job[j].calls[p] # "none"

(* What is published was judged: every call of a completed job was sent and  *)
(* succeeded.                                                                *)
CompletedIsJudged ==
  \A j \in Jobs : job[j].status = "completed" =>
    \A p \in Plans : job[j].calls[p] = "succeeded" /\ sent[j][p] = 1

(* An open call belongs to a dispatching job, and is its only open one: no   *)
(* cancellation, failure or recovery closes a job over a call whose outcome  *)
(* is not in the ledger.                                                     *)
OpenCallIsDispatching ==
  \A j \in Jobs :
    /\ InFlight(j) => job[j].status = "dispatching"
    /\ \A p, q \in Plans :
         job[j].calls[p] = "dispatching" /\ job[j].calls[q] = "dispatching" => p = q

(* Every terminal status is final, failed as well. *)
TerminalIsFinal ==
  [][\A j \in Jobs : job[j].status \in TERMINAL_JOB_STATES =>
       job'[j].status = job[j].status]_vars

(* Every submitted job is settled, whatever the crashes and the rescoring of *)
(* its Run, unless a cancellation was requested while it was dispatching.    *)
JobsSettle ==
  \A j \in Jobs :
    job[j].status = "queued" ~>
      job[j].status \in TERMINAL_JOB_STATES \/ (job[j].status = "dispatching" /\ job[j].cancel)
=============================================================================
