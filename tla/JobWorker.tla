----------------------------- MODULE JobWorker -----------------------------
(***************************************************************************)
(* The execution of external benchmark Runs:                               *)
(* RunService.execute_external_job and cancel (service.py) around          *)
(* DurableExternalJobRunner and ExternalJobSupervisor (external_jobs.py)   *)
(* and the process adapter (motte_benchmark/process.py).  A Worker starts  *)
(* one external process for the whole Run, watches it, freezes and imports *)
(* what it produced and settles the Run, while API requests cancel it from *)
(* another process or from the Worker's own.  The Worker may crash between *)
(* any two steps; the external process lives on.                           *)
(*                                                                         *)
(* fr[a].pc is the next step of an actor, as in RunService; jf[a] holds    *)
(* the locals of the Job code.  One step stands for one read that is used  *)
(* later, one transaction or one effect on the process.  The adapters that *)
(* read output bytes (OpenCompass, Harbor) are modelled, not the older     *)
(* protocol that hashes the work directory twice; every result is in the   *)
(* frozen Case mapping.                                                    *)
(***************************************************************************)
EXTENDS JobStore, RunService

CONSTANTS LocalClients,    \* API requests served by the process of Host
          Host,            \* the Worker they share the RunService with
          MaxRuns,         \* bound on the Runs that are created
          MaxRequests,     \* bound on API requests
          MaxCrashes       \* bound on crashes

ASSUME JobWorkerAssumption ==
  /\ JobRuns = Runs
  /\ BenchmarkRuns = Runs
  /\ LocalClients \subseteq Clients
  /\ Host \in Workers
  /\ MaxRuns \in Nat
  /\ MaxRequests \in Nat
  /\ MaxCrashes \in Nat

VARIABLES process,    \* process[r][j]: the external process and its work directory
          jf,         \* locals of the Job code of every actor
          requests,   \* API requests so far
          crashes     \* crashes so far

env == <<requests, crashes>>
vars == <<store, jobStore, process, fr, lock, jf, env>>

Local ==
  [j |-> 0,
   known |-> FALSE,        \* the handle names the pid
   own |-> FALSE,          \* the process is a child of this one
   expired |-> FALSE,      \* max_wall_seconds are over
   on |-> FALSE,           \* the interrupter is registered
   was |-> FALSE,          \* the Job was cancelled before this execution
   reuse |-> FALSE,        \* outcome["recovered_from"]
   status |-> "none", items |-> NoResults, err |-> FALSE,    \* the outcome
   bundle |-> FALSE, over |-> FALSE,    \* evidence frozen; evidence over the budget
   frozen |-> NoResults,   \* what the frozen evidence parses to
   conf |-> FALSE,         \* an import conflict
   late |-> FALSE,         \* already_terminal
   todo |-> {},            \* Cases still to import or to write
   acc |-> {}, bad |-> FALSE, tconf |-> FALSE]    \* accepted, invalid, conflicting Trials

NotStarted == [state |-> "none", code |-> 1, marker |-> FALSE, killed |-> FALSE,
               out |-> NoResults, closed |-> FALSE,    \* output read last; is it final
               lost |-> FALSE]         \* history: its execution broke off

Init ==
  /\ StoreInit
  /\ JobStoreInit
  /\ process = [r \in Runs |-> <<>>]
  /\ fr = [a \in Actors |-> Blank(IF a \in Workers THEN "down" ELSE "idle")]
  /\ lock = NoActor
  /\ jf = [a \in Actors |-> Local]
  /\ requests = 0
  /\ crashes = 0

-----------------------------------------------------------------------------
At(a, pc) == fr[a].pc = pc
Go(a, pc) == Step(a, [fr[a] EXCEPT !.pc = pc])
Set(a, f) == jf' = [jf EXCEPT ![a] = f]
Job(a) == jobs[fr[a].r][jf[a].j]
Proc(a) == process[fr[a].r][jf[a].j]
IsTrial(a) == fr[a].r \in TrialRuns

(* The locals are gone with the activation. *)
Forget(a) ==
  jf' = [jf EXCEPT ![a] = IF fr'[a].pc \in {"idle", "down", "foq"} THEN Local ELSE jf[a]]

Update(r, j, p) == process' = [process EXCEPT ![r] = [process[r] EXCEPT ![j] = p]]

(* adapter.interrupt signals the process only if the handle names it; the    *)
(* runner may still write its completion marker.  The end of a child is      *)
(* waited for.  Of another process the identity may not be verified, and the *)
(* errors of a signal are passed over: it may live on.                       *)
Interrupt(r, j, known, child) ==
  \/ /\ known /\ process[r][j].state = "running"
     /\ \E marker \in BOOLEAN :
          Update(r, j, [process[r][j] EXCEPT !.state = "exited", !.killed = TRUE,
                                             !.marker = marker])
  \/ /\ ~(known /\ child /\ process[r][j].state = "running")
     /\ UNCHANGED process

(* The execution that watches a process breaks off. *)
Lose(w) ==
  IF jf[w].j = 0 THEN UNCHANGED process
  ELSE Update(fr[w].r, jf[w].j, [Proc(w) EXCEPT !.lost = TRUE])

(* Mutant: only the Cases get a disposition. *)
NoDispositions(r) == UNCHANGED trials

(* _finish_unattempted and _ensure_trial_dispositions: a Trial without a     *)
(* result gets a placeholder.  Every write leaves a result alone that came   *)
(* in between, so that all of them are one step.                             *)
ensure_trial_dispositions(r) ==
  IF r \in TrialRuns THEN dispose(r, Cases) ELSE UNCHANGED trials

Service(a) ==
  /\ ServiceStep(a)
  /\ IF At(a, "unattemptedOpen") THEN ensure_trial_dispositions(fr[a].r) ELSE UNCHANGED trials
  /\ Forget(a)
  /\ UNCHANGED <<jobs, records, process, env>>

-----------------------------------------------------------------------------
(* Worker start with requeue_interrupted (there are no Attempts to recover), *)
(* and the claim.                                                            *)
Start(w) ==
  /\ At(w, "down")
  /\ lock = NoActor
  /\ lock' = w
  /\ fr' = [fr EXCEPT ![w] = Blank("requeue")]
  /\ UNCHANGED <<store, jobStore, process, jf, env>>

Requeue(w) ==
  /\ At(w, "requeue")
  /\ requeue_interrupted
  /\ Leave(w)
  /\ UNCHANGED <<jobStore, process, jf, env>>

Claim(w) ==
  /\ At(w, "idle")
  /\ lock = NoActor
  /\ \E r \in Runs :
       /\ claim(r)
       /\ fr' = [fr EXCEPT ![w] = [Blank("plans") EXCEPT !.r = r]]
  /\ lock' = w
  /\ UNCHANGED <<jobStore, process, jf, env>>

(* execute_external_job up to the Run's status "running". *)
EnsurePlans(w) ==
  /\ At(w, "plans")
  /\ trials' = [trials EXCEPT ![fr[w].r] = IF IsTrial(w) THEN create_plans(trials[fr[w].r])
                                           ELSE trials[fr[w].r]]
  /\ Go(w, "toRunning")
  /\ UNCHANGED <<store, jobs, records, process, jf, env>>

ToRunning(w) ==
  /\ At(w, "toRunning")
  /\ IF Run(w).status = "running" THEN Go(w, "jobEntry")
     ELSE Step(w, Transition(fr[w], "running", "jobEntry"))
  /\ UNCHANGED <<store, jobStore, process, jf, env>>

-----------------------------------------------------------------------------
(* Mutant: only the Jobs that can be recovered are looked for. *)
EntryRecoverableOnly(w) ==
  /\ At(w, "jobEntry")
  /\ LET r == fr[w].r
         S == recoverable_for_run(r)
     IN IF S = {} THEN Go(w, "prepare") /\ Set(w, [Local EXCEPT !.on = TRUE])
        ELSE /\ Go(w, "watch")
             /\ Set(w, [Local EXCEPT !.on = TRUE, !.j = Max(S), !.known = jobs[r][Max(S)].pid])
  /\ UNCHANGED <<store, jobStore, process, env>>

(* DurableExternalJobRunner.__call__.  The interrupter is registered just    *)
(* before.  A Job that is there is never started again: its outcome is       *)
(* rebuilt from the records, or from the frozen bundle, or observed.         *)
JobEntry(w) ==
  /\ At(w, "jobEntry")
  /\ LET r == fr[w].r
         n == Len(jobs[r])
         job == jobs[r][n]
         f == [Local EXCEPT !.on = TRUE, !.j = n]
         old == [f EXCEPT !.known = job.pid, !.was = (job.status = "cancelled")]
         replay == [old EXCEPT !.reuse = TRUE, !.bundle = job.bundle, !.frozen = job.frozen]
     IN CASE n = 0 -> Go(w, "prepare") /\ Set(w, f)
          [] n > 0 /\ job.status \in TERMINAL_JOB_STATUSES /\ job.import_completed ->
               /\ Go(w, "settle")
               /\ Set(w, [replay EXCEPT !.status = job.status, !.items = records[r][n],
                                        !.err = job.error])
          [] n > 0 /\ job.bundle /\ ~(job.status \in TERMINAL_JOB_STATUSES /\ job.import_completed) ->
               /\ Go(w, "settle")
               /\ Set(w, [replay EXCEPT
                            !.status = IF job.status = "cancelled" THEN "cancelled" ELSE job.outcome,
                            !.items = job.frozen, !.err = job.error])
          [] OTHER -> Go(w, "watch") /\ Set(w, old)
  /\ UNCHANGED <<store, jobStore, process, env>>

(* _check_parser_version: a Worker with another parser starts and imports    *)
(* nothing, unless the import is already complete.                           *)
ParserMismatch(w) ==
  /\ At(w, "jobEntry")
  /\ LET r == fr[w].r
         n == Len(jobs[r])
     IN /\ n > 0 => ~(jobs[r][n].status \in TERMINAL_JOB_STATUSES /\ jobs[r][n].import_completed)
        /\ Go(w, "jobReturn")
        /\ Set(w, [Local EXCEPT !.on = TRUE, !.err = TRUE, !.status =
                     IF n > 0 /\ jobs[r][n].status = "cancelled" THEN "cancelled"
                     ELSE "indeterminate"])
  /\ UNCHANGED <<store, jobStore, process, env>>

-----------------------------------------------------------------------------
(* ExternalJobSupervisor.launch: prepare and the stored intent, the start,   *)
(* and the journal's read and write of the Job.                              *)
BeginJob(w) ==
  /\ At(w, "prepare")
  /\ begin_job(fr[w].r)
  /\ process' = [process EXCEPT ![fr[w].r] = Append(process[fr[w].r], NotStarted)]
  /\ Set(w, [jf[w] EXCEPT !.j = Len(jobs[fr[w].r]) + 1])
  /\ Go(w, "launch")
  /\ UNCHANGED <<store, env>>

StartProcess(w) ==
  /\ At(w, "launch")
  /\ Update(fr[w].r, jf[w].j, [NotStarted EXCEPT !.state = "running"])
  /\ Set(w, [jf[w] EXCEPT !.known = TRUE, !.own = TRUE])
  /\ Go(w, "journal")
  /\ UNCHANGED <<store, jobStore, env>>

(* A cancellation that fell into the launch window stops the new process; an *)
(* exception of the interruption is passed over.                             *)
Journal(w) ==
  /\ At(w, "journal")
  /\ IF Job(w).status = "cancelled"
       THEN Interrupt(fr[w].r, jf[w].j, TRUE, FALSE) /\ Go(w, "journalHandle")
       ELSE UNCHANGED process /\ Go(w, "journalActive")
  /\ UNCHANGED <<store, jobStore, jf, env>>

JournalUpdate(w) ==
  /\ fr[w].pc \in {"journalHandle", "journalActive"}
  /\ update_job(fr[w].r, jf[w].j,
                [Job(w) EXCEPT !.pid = TRUE,
                               !.status = IF At(w, "journalActive") THEN "active" ELSE Job(w).status])
  /\ Go(w, "watch")
  /\ UNCHANGED <<store, process, jf, env>>

-----------------------------------------------------------------------------
(* observe: should_cancel, then poll, until the process is not active. *)
Observed(w, status) == [jf[w] EXCEPT !.status = status, !.err = (status \notin {"settled", "cancelled"})]

Watch(w) ==
  /\ At(w, "watch")
  /\ IF Run(w).cancellation \/ Job(w).status = "cancelled"
       THEN /\ Interrupt(fr[w].r, jf[w].j, jf[w].known, jf[w].own)
            /\ Set(w, Observed(w, "cancelled"))
            /\ Go(w, "collect")
       ELSE UNCHANGED <<process, jf>> /\ Go(w, "poll")
  /\ UNCHANGED <<store, jobStore, env>>

(* Mutant: without a completion marker the output counts. *)
ConclusionsFromOutput(w) == {IF Proc(w).code = 0 \/ ~Proc(w).marker THEN "settled" ELSE "failed"}

(* What poll concludes of a process that is gone or cannot be named.  Another *)
(* thread that interrupts the child takes it from the adapter's table.        *)
Conclusions(w) ==
  LET p == Proc(w)
      child == jf[w].known /\ jf[w].own /\ p.state = "exited"
      exit == IF p.code = 0 THEN "settled" ELSE "failed"
  IN (IF child THEN {exit} ELSE {})
     \cup (IF child /\ ~p.killed THEN {} ELSE {IF p.marker THEN exit ELSE "indeterminate"})

(* Mutant: a Job over its deadline fails, its process is left alone. *)
PollLeavesProcess(w) ==
  /\ At(w, "poll")
  /\ IF jf[w].known /\ Proc(w).state = "running" /\ ~jf[w].expired
       THEN UNCHANGED jf /\ Go(w, "watch")
       ELSE /\ \E status \in IF Proc(w).state = "running" THEN {"failed"} ELSE Conclusions(w) :
                 Set(w, Observed(w, status))
            /\ Go(w, "collect")
  /\ UNCHANGED <<store, jobStore, process, env>>

(* Mutant: the deadline is not looked at. *)
PollWithoutDeadline(w) ==
  /\ At(w, "poll")
  /\ IF jf[w].known /\ Proc(w).state = "running"
       THEN UNCHANGED <<process, jf>> /\ Go(w, "watch")
       ELSE /\ \E status \in Conclusions(w) : Set(w, Observed(w, status))
            /\ UNCHANGED process
            /\ Go(w, "collect")
  /\ UNCHANGED <<store, jobStore, env>>

(* A child is seen to run; of another process the identity may not be        *)
(* verified although it runs.                                                *)
Poll(w) ==
  /\ At(w, "poll")
  /\ \/ /\ jf[w].known /\ Proc(w).state = "running"
        /\ IF jf[w].expired
             THEN /\ Interrupt(fr[w].r, jf[w].j, TRUE, jf[w].own)
                  /\ Set(w, Observed(w, "failed"))
                  /\ Go(w, "collect")
             ELSE UNCHANGED <<process, jf>> /\ Go(w, "watch")
     \/ /\ ~(jf[w].known /\ jf[w].own /\ Proc(w).state = "running")
        /\ \E status \in Conclusions(w) : Set(w, Observed(w, status))
        /\ UNCHANGED process
        /\ Go(w, "collect")
  /\ UNCHANGED <<store, jobStore, env>>

Deadline(w) ==
  /\ fr[w].pc \in {"watch", "poll"}
  /\ ~jf[w].expired
  /\ Set(w, [jf[w] EXCEPT !.expired = TRUE])
  /\ UNCHANGED <<store, jobStore, process, fr, lock, env>>

(* The external process adds results as long as it runs.  Nothing but        *)
(* _collect_quiet reads them, so that they are chosen when they are read.    *)
Outputs(p) ==
  IF p.closed THEN {p.out}
  ELSE {out \in [Cases -> {"none", "ok", "bad"}] :
          \A c \in Cases : p.out[c] # "none" => out[c] = p.out[c]}

Read(r, j, out) ==
  Update(r, j, [process[r][j] EXCEPT !.out = out, !.closed = (process[r][j].state = "exited")])

(* _collect_quiet: the output as it is now, frozen and parsed.  It may be    *)
(* too large to be kept: then the bundle has the names of the files, and     *)
(* parsing it again fails or finds no results.  It may be unreadable: then   *)
(* _settle freezes what it can read by then, but there are no results.  Or   *)
(* parsing fails, as it will again.  A Harbor job reports every planned      *)
(* Trial.                                                                    *)
Parsed(r, out) ==
  [c \in Cases |-> IF out[c] = "none" /\ r \in TrialRuns THEN "skip" ELSE out[c]]

Collect(w) ==
  /\ At(w, "collect")
  /\ LET f == [jf[w] EXCEPT !.own = FALSE, !.expired = FALSE, !.was = FALSE,
                            !.status = IF jf[w].was THEN "cancelled" ELSE jf[w].status]
         none == Parsed(fr[w].r, NoResults)
     IN \/ \E out \in Outputs(Proc(w)) :
             LET parsed == Parsed(fr[w].r, out) IN
             /\ Read(fr[w].r, jf[w].j, out)
             /\ \/ Set(w, [f EXCEPT !.items = parsed, !.bundle = TRUE, !.frozen = parsed])
                \/ Set(w, [f EXCEPT !.items = parsed, !.over = TRUE])
                \/ /\ f.status = "cancelled"
                   /\ Set(w, [f EXCEPT !.items = parsed, !.over = TRUE, !.bundle = TRUE,
                                        !.frozen = none])
                \/ Set(w, [f EXCEPT !.err = TRUE, !.bundle = TRUE, !.frozen = parsed])
        \/ /\ \E over \in {FALSE, f.status # "cancelled"} :
                Set(w, [f EXCEPT !.err = TRUE, !.over = over])
           /\ UNCHANGED process
  /\ Go(w, "settle")
  /\ UNCHANGED <<store, jobStore, env>>

-----------------------------------------------------------------------------
(* _settle, in its order: the evidence reference, the records, the           *)
(* checkpoint, the Job's status.                                             *)
Pending(f) == {c \in Cases : f.items[c] # "none"}

Settle(w) ==
  /\ At(w, "settle")
  /\ LET f == jf[w] IN
       /\ Go(w, CASE f.reuse /\ Job(w).import_completed -> "jobReturn"
                  [] f.over /\ f.status # "cancelled" -> "incomplete"
                  [] f.reuse /\ ~Job(w).import_completed -> "import"
                  [] OTHER -> "evidence")
       /\ Set(w, [f EXCEPT !.todo = Pending(f)])
  /\ UNCHANGED <<store, jobStore, process, env>>

(* EVIDENCE_INCOMPLETE *)
SettleIncomplete(w) ==
  /\ At(w, "incomplete")
  /\ IF Job(w).status = "cancelled" THEN UNCHANGED jobStore
     ELSE update_job(fr[w].r, jf[w].j,
                     [Job(w) EXCEPT !.status = "failed", !.pid = jf[w].known,
                                    !.import_completed = TRUE, !.outcome = jf[w].status,
                                    !.error = TRUE])
  /\ Set(w, [jf[w] EXCEPT !.status = "failed", !.err = TRUE])
  /\ Go(w, "jobReturn")
  /\ UNCHANGED <<store, process, env>>

(* Mutant: the frozen bundle has the names of the files only. *)
FinalisedHashOnly(w, completed) ==
  [Job(w) EXCEPT !.import_completed = completed, !.outcome = jf[w].status, !.error = jf[w].err,
                 !.bundle = jf[w].bundle, !.frozen = Parsed(fr[w].r, NoResults)]

Finalised(w, completed) ==
  [Job(w) EXCEPT !.import_completed = completed, !.outcome = jf[w].status, !.error = jf[w].err,
                 !.bundle = jf[w].bundle, !.frozen = jf[w].frozen]

SettleEvidence(w) ==
  /\ At(w, "evidence")
  /\ update_job(fr[w].r, jf[w].j, Finalised(w, FALSE))
  /\ Go(w, "import")
  /\ UNCHANGED <<store, process, jf, env>>

ImportRecord(w) ==
  /\ At(w, "import")
  /\ jf[w].todo # {}
  /\ LET f == jf[w]
         c == Min(f.todo)
     IN /\ import_record(fr[w].r, f.j, c, f.items[c])
        /\ Set(w, [f EXCEPT !.todo = f.todo \ {c},
                            !.conf = f.conf \/ import_conflict(fr[w].r, f.j, c, f.items[c])])
  /\ UNCHANGED <<store, process, fr, lock, env>>

SettleImported(w) ==
  /\ At(w, "import")
  /\ jf[w].todo = {}
  /\ update_job(fr[w].r, jf[w].j, Finalised(w, TRUE))
  /\ Go(w, "status")
  /\ UNCHANGED <<store, process, jf, env>>

(* The status is written last, and never over "cancelled". *)
SettleStatus(w) ==
  /\ At(w, "status")
  /\ update_job(fr[w].r, jf[w].j,
                [Job(w) EXCEPT !.pid = jf[w].known,
                               !.status = IF Job(w).status = "cancelled" THEN "cancelled"
                                          ELSE jf[w].status])
  /\ Go(w, IF jf[w].conf THEN "conflict" ELSE "jobReturn")
  /\ UNCHANGED <<store, process, jf, env>>

SettleConflict(w) ==
  /\ At(w, "conflict")
  /\ update_job(fr[w].r, jf[w].j, [Job(w) EXCEPT !.error = TRUE])
  /\ Set(w, [jf[w] EXCEPT !.status = "failed", !.err = TRUE])
  /\ Go(w, "jobReturn")
  /\ UNCHANGED <<store, process, env>>

(* An exception of the entry, wherever it is raised (the work directory, the  *)
(* start, the Job store, adapter.interrupt, the Artifact store), enters       *)
(* _fail_or_quarantine.                                                       *)
EntryPcs == {"jobEntry", "prepare", "launch", "journal", "journalHandle", "journalActive",
             "watch", "poll", "collect", "settle", "incomplete", "evidence", "import",
             "status", "conflict"}

EntryRaises(w) ==
  /\ fr[w].pc \in EntryPcs
  /\ Lose(w)
  /\ Go(w, "foq")
  /\ Forget(w)
  /\ UNCHANGED <<store, jobStore, env>>

-----------------------------------------------------------------------------
(* execute_external_job after the entry: the interrupter is removed, the Run *)
(* moves to "scoring" unless it is settled already.  A conflict in between   *)
(* is taken for a cancellation that won.                                     *)
ImportLocals(w, late) ==
  [Local EXCEPT !.status = jf[w].status, !.items = jf[w].items, !.err = jf[w].err,
                !.late = late, !.todo = IF IsTrial(w) THEN Pending(jf[w]) ELSE {}]

JobReturn(w) ==
  /\ At(w, "jobReturn")
  /\ LET late == Run(w).status \in TERMINAL IN
       /\ Set(w, ImportLocals(w, late))
       /\ IF late THEN Go(w, "trials")
          ELSE Step(w, [Transition(fr[w], "collecting", "jobScoring") EXCEPT !.exc = "late"])
  /\ UNCHANGED <<store, jobStore, process, env>>

JobLate(w) ==
  /\ At(w, "jobLate")
  /\ IF Run(w).status \in TERMINAL
       THEN Go(w, "trials") /\ Set(w, [jf[w] EXCEPT !.late = TRUE])
       ELSE Die(w) /\ Set(w, Local)
  /\ UNCHANGED <<store, jobStore, process, env>>

(* import_terminal_bench_trials: every Trial on its own.  A payload that the *)
(* Trial store rejects leaves a placeholder (_dispose_rejected_trials).      *)
ImportTrial(w) ==
  /\ At(w, "trials")
  /\ jf[w].todo # {}
  /\ LET r == fr[w].r
         f == jf[w]
         c == Min(f.todo)
         rest == [f EXCEPT !.todo = f.todo \ {c}]
     IN \/ /\ put_result(r, c, f.items[c])
           /\ Set(w, [rest EXCEPT !.acc = f.acc \cup {c},
                                  !.tconf = f.tconf \/ result_conflict(r, c, f.items[c])])
        \/ /\ dispose(r, {c})
           /\ UNCHANGED <<jobs, records>>
           /\ Set(w, [rest EXCEPT !.bad = TRUE])
  /\ UNCHANGED <<store, process, fr, lock, env>>

TrialsImported(w) ==
  /\ At(w, "trials")
  /\ jf[w].todo = {}
  /\ IF jf[w].late THEN Go(w, "finish") /\ UNCHANGED jf
     ELSE Step(w, [fr[w] EXCEPT !.pc = "rows", !.exc = "die"]) /\ Set(w, [jf[w] EXCEPT !.todo = Cases])
  /\ UNCHANGED <<store, jobStore, process, env>>

(* Mutant: the row takes over the status of the item. *)
RowIsItem(w, c) == jf[w].items[c]

(* _task_case_rows and _legacy_case_rows *)
RowOf(w, c) ==
  LET item == jf[w].items[c] IN
  CASE IsTrial(w) -> IF c \in jf[w].acc THEN "ok" ELSE "skipped"
    [] ~IsTrial(w) /\ item \in {"ok", "late"} -> "ok"
    [] ~IsTrial(w) /\ item = "bad" -> "error"
    [] OTHER -> "skipped"

UpsertRow(w) ==
  /\ At(w, "rows")
  /\ LET c == Min(jf[w].todo)
         left == jf[w].todo \ {c}
     IN /\ upsert(fr[w].r, c, RowOf(w, c))
        /\ Set(w, [jf[w] EXCEPT !.todo = left])
        /\ Step(w, IF left = {} THEN Honor(fr[w], "jobScore", "die") ELSE fr[w])
  /\ UNCHANGED <<jobStore, process, env>>

-----------------------------------------------------------------------------
(* The final status, the dispositions and the initial scoring pass. *)
Errors(w) ==
  LET f == jf[w] IN
  \/ f.err \/ f.bad \/ f.tconf
  \/ \E c \in Cases : rows[fr[w].r][c] = "error"
  \/ IsTrial(w) /\ \E c \in Cases : f.items[c] = "bad"
  \/ \A c \in Cases : rows[fr[w].r][c] # "ok"

FinalStatus(w) ==
  CASE jf[w].status = "cancelled" -> "cancelled"
    [] jf[w].status = "indeterminate" -> "needs_review"
    [] jf[w].status = "settled" /\ ~Errors(w) -> "completed"
    [] OTHER -> "failed"

JobScore(w) ==
  /\ At(w, "jobScore")
  /\ ensure_trial_dispositions(fr[w].r)
  /\ \/ Step(w, Honor([fr[w] EXCEPT !.to = FinalStatus(w), !.src = "initial",
                                    !.done = Persisted(fr[w].r)], "append", "foq"))
     \/ Go(w, "foq")    \* scoring raises
  /\ Set(w, Local)
  /\ UNCHANGED <<store, jobs, records, process, env>>

(* _finish_after_terminal_import: a further scoring pass over the Trials     *)
(* that now have a result, if they can be scored; the Run keeps its status.  *)
Finish(w) ==
  /\ At(w, "finish")
  /\ \/ /\ IsTrial(w)
        /\ Step(w, [fr[w] EXCEPT !.pc = "append", !.src = "terminal-import", !.exc = "leave",
                                 !.to = "none", !.done = {c \in Cases : trials[fr[w].r][c] \in Content}])
     \/ Leave(w)
  /\ Set(w, Local)
  /\ UNCHANGED <<store, jobStore, process, env>>

-----------------------------------------------------------------------------
(* RunService.cancel in the process of the executing Worker: the request is  *)
(* stored, interrupt_run stops the first recoverable Job and marks it, then  *)
(* the Run is settled without waiting for the Worker.                        *)
LocalCancel(a) ==
  /\ At(a, "jobCancel")
  /\ CASE Run(a).status \in TERMINAL -> Leave(a)
       [] Run(a).status \notin TERMINAL /\ jf[Host].on /\ fr[Host].r = fr[a].r ->
            Step(a, [fr[a] EXCEPT !.pc = "jobRequest", !.snap = Run(a)])
       [] OTHER -> Step(a, [fr[a] EXCEPT !.pc = "cancelOpen", !.snap = Run(a)])
  /\ UNCHANGED <<store, jobStore, process, jf, env>>

LocalRequest(a) ==
  /\ At(a, "jobRequest")
  /\ LET f == fr[a] IN
       IF Matches(f.r, f.snap.revision, f.snap.status)
         THEN /\ update(f.r, f.snap.revision, f.snap.status)
              /\ Step(a, [f EXCEPT !.pc = "jobInterrupt", !.snap = NoRun])
         ELSE Raise(a) /\ UNCHANGED store
  /\ UNCHANGED <<jobStore, process, jf, env>>

LocalInterrupt(a) ==
  /\ At(a, "jobInterrupt")
  /\ LET r == fr[a].r
         S == recoverable_for_run(r)
     IN IF S = {} THEN Go(a, "jobRefresh") /\ UNCHANGED jf
        ELSE Go(a, "jobKill") /\ Set(a, [Local EXCEPT !.j = Min(S), !.known = jobs[r][Min(S)].pid])
  /\ UNCHANGED <<store, jobStore, process, env>>

LocalKill(a) ==
  /\ At(a, "jobKill")
  /\ \/ /\ Interrupt(fr[a].r, jf[a].j, jf[a].known,
                     jf[Host].own /\ fr[Host].r = fr[a].r /\ jf[Host].j = jf[a].j)
        /\ Go(a, "jobMark")
     \/ UNCHANGED process /\ Go(a, "jobRefresh")    \* an exception is reported only
  /\ UNCHANGED <<store, jobStore, jf, env>>

LocalMark(a) ==
  /\ At(a, "jobMark")
  /\ update_job(fr[a].r, jf[a].j, [Job(a) EXCEPT !.status = "cancelled", !.pid = jf[a].known])
  /\ Go(a, "jobRefresh")
  /\ UNCHANGED <<store, process, jf, env>>

LocalRefresh(a) ==
  /\ At(a, "jobRefresh")
  /\ IF Run(a).status \in TERMINAL THEN Leave(a)
     ELSE Step(a, [fr[a] EXCEPT !.pc = "unattempted", !.to = "cancelled", !.flag = TRUE])
  /\ Set(a, Local)
  /\ UNCHANGED <<store, jobStore, process, env>>

-----------------------------------------------------------------------------
ObserveStep(w) ==
  \/ BeginJob(w) \/ StartProcess(w) \/ Journal(w) \/ JournalUpdate(w)
  \/ Watch(w) \/ Poll(w) \/ Collect(w)

SettleStep(w) ==
  \/ Settle(w) \/ SettleIncomplete(w) \/ SettleEvidence(w) \/ ImportRecord(w)
  \/ SettleImported(w) \/ SettleStatus(w) \/ SettleConflict(w)

JobStep(w) ==
  \/ EnsurePlans(w) \/ ToRunning(w) \/ JobEntry(w) \/ ParserMismatch(w) \/ EntryRaises(w)
  \/ ObserveStep(w)
  \/ SettleStep(w)
  \/ JobReturn(w) \/ JobLate(w) \/ ImportTrial(w) \/ TrialsImported(w) \/ UpsertRow(w)
  \/ JobScore(w) \/ Finish(w)

WorkerStep(w) == Start(w) \/ Requeue(w) \/ Claim(w) \/ JobStep(w) \/ Service(w)

LocalStep(a) ==
  \/ LocalCancel(a) \/ LocalRequest(a) \/ LocalInterrupt(a) \/ LocalKill(a) \/ LocalMark(a)
  \/ LocalRefresh(a)

-----------------------------------------------------------------------------
(* API requests.  create_run stores the plans after the Run; a crash in      *)
(* between leaves them to _ensure_trial_plans.                               *)
Submit(r) ==
  /\ ~Created(r)
  /\ Cardinality({q \in Runs : Created(q)}) < MaxRuns
  /\ create(r)
  /\ \E planned \in BOOLEAN :
       trials' = [trials EXCEPT ![r] = IF planned /\ r \in TrialRuns THEN create_plans(trials[r])
                                       ELSE trials[r]]
  /\ UNCHANGED <<jobs, records, process, fr, lock, jf, env>>

Cancel(a, r, reason) ==
  /\ At(a, "idle")
  /\ requests < MaxRequests
  /\ Created(r)
  /\ requests' = requests + 1
  /\ Step(a, [Blank(IF a \in LocalClients THEN "jobCancel" ELSE "cancel")
                EXCEPT !.r = r, !.flag = reason])
  /\ UNCHANGED <<store, jobStore, process, jf, crashes>>

(* import_late_results, of a Run whose import keys are its Case ids. *)
ImportLate(r, c) ==
  /\ requests < MaxRequests
  /\ jobs[r] # <<>>
  /\ r \notin TrialRuns
  /\ requests' = requests + 1
  /\ import_record(r, 1, c, "late")
  /\ UNCHANGED <<store, process, fr, lock, jf, crashes>>

-----------------------------------------------------------------------------
(* The external process writes its completion marker before it exits; one    *)
(* that is killed from outside may exit without.                             *)
Exit(r, j) ==
  /\ process[r][j].state = "running"
  /\ \E code \in {0, 1}, marker \in BOOLEAN :
       /\ code = 0 => marker
       /\ Update(r, j, [process[r][j] EXCEPT !.state = "exited", !.code = code,
                                            !.marker = marker])
  /\ UNCHANGED <<store, jobStore, fr, lock, jf, env>>

(* The Worker's process ends with the requests it serves. *)
Crash(w) ==
  /\ fr[w].pc # "down"
  /\ crashes < MaxCrashes
  /\ crashes' = crashes + 1
  /\ LET gone == IF w = Host THEN LocalClients ELSE {} IN
       /\ fr' = [a \in Actors |-> IF a = w THEN Blank("down")
                                  ELSE IF a \in gone THEN Blank("idle") ELSE fr[a]]
       /\ jf' = [a \in Actors |-> IF a \in gone \cup {w} THEN Local ELSE jf[a]]
  /\ Release(w)
  /\ Lose(w)
  /\ UNCHANGED <<store, jobStore, requests>>

(* An idle Worker polls for Runs. *)
Idle(w) == At(w, "idle") /\ UNCHANGED vars

Next ==
  \/ \E r \in Runs :
       \/ Submit(r)
       \/ \E c \in Cases : ImportLate(r, c)
       \/ \E j \in DOMAIN process[r] : Exit(r, j)
  \/ \E w \in Workers : WorkerStep(w) \/ Deadline(w) \/ Crash(w) \/ Idle(w)
  \/ \E a \in Clients : Service(a) \/ LocalStep(a)
  \/ \E a \in Clients, r \in Runs, reason \in BOOLEAN : Cancel(a, r, reason)

(* A Worker that is down is started again, one that runs keeps running, the  *)
(* wall clock passes every deadline, and an accepted request is carried      *)
(* through.  Nothing is asked of the external process.                       *)
Fairness ==
  /\ \A w \in Workers : WF_vars(WorkerStep(w)) /\ WF_vars(Deadline(w))
  /\ \A a \in Clients : WF_vars(Service(a) \/ LocalStep(a))

Spec == Init /\ [][Next]_vars

FairSpec == Spec /\ Fairness

-----------------------------------------------------------------------------
(* The types of the Job tables, the processes and the Job code's locals. *)
ExternalTypeOK ==
  /\ TypeOK
  /\ JobTables
  /\ \A r \in Runs : Len(process[r]) = Len(jobs[r])
  /\ \A a \in Actors :
       /\ jf[a].j \in 0..(IF fr[a].r = 0 THEN 0 ELSE Len(jobs[fr[a].r]))
       /\ jf[a].status \in {"none"} \cup TERMINAL_JOB_STATUSES
       /\ jf[a].items \in Results
       /\ jf[a].todo \subseteq Cases
       /\ jf[a].acc \subseteq Cases

(* At most one external process is started for a Run, however often its      *)
(* Worker crashes and the Run is claimed again.                              *)
StartedOnce ==
  \A r \in Runs : Cardinality({j \in DOMAIN process[r] : process[r][j].state # "none"}) <= 1

(* A completed Run stands on a Job whose process ended with exit code 0, and *)
(* whose results were all imported; each Case that counts as answered has    *)
(* its record, and a Trial holds what the record holds.                      *)
CompletedIsImported ==
  \A r \in Runs : run[r].status = "completed" =>
    \E j \in DOMAIN jobs[r] :
      /\ process[r][j].state = "exited" /\ process[r][j].code = 0
      /\ jobs[r][j].import_completed /\ jobs[r][j].outcome = "settled" /\ ~jobs[r][j].error
      /\ \A c \in Cases : rows[r][c] = "ok" =>
           /\ records[r][j][c] # "none"
           /\ r \in TrialRuns => trials[r][c] = records[r][j][c]

(* Going over a Job again after a crash never meets a result that differs    *)
(* from the one imported before, unless late data came in between.  Of a     *)
(* Job that was cancelled the evidence need not be complete.                 *)
ReplayAgrees ==
  \A w \in Workers : jf[w].conf \/ jf[w].tconf =>
    \E j \in DOMAIN jobs[fr[w].r] :
      \/ \E c \in Cases : records[fr[w].r][j][c] = "late"
      \/ jobs[fr[w].r][j].outcome = "cancelled"

(* Whatever settled a Run, each of its planned Trials has a disposition. *)
TrialsDisposed ==
  \A r \in TrialRuns : run[r].status \in TERMINAL =>
    \A c \in Cases : trials[r][c] \notin {"unplanned", "pending"}

(* Imported records, and Trial results that came from the runner, never change. *)
EvidenceIsFinal ==
  [][/\ \A r \in Runs : \A j \in DOMAIN records[r] : \A c \in Cases :
          records[r][j][c] # "none" => records'[r][j][c] = records[r][j][c]
     /\ \A r \in Runs, c \in Cases : trials[r][c] \in Content => trials'[r][c] = trials[r][c]]_vars

(* Every Run is settled in the end, even if its process never ends. *)
JobRunsSettle == \A r \in Runs : Created(r) ~> (run[r].status \in TERMINAL)

(* Nobody leaves an external process behind on purpose: when a Run is        *)
(* settled and no actor works on it, a process of it that still runs is one  *)
(* whose execution broke off, by a crash of the Worker or by an exception of *)
(* the entry; observe stops any other at the deadline or the cancellation.   *)
SettledIsStopped ==
  \A r \in Runs : run[r].status \in TERMINAL /\ (\A a \in Actors : fr[a].r # r) =>
    \A j \in DOMAIN process[r] : process[r][j].state = "running" => process[r][j].lost

(* A completed Run has the result of at least one Case. *)
CompletedHasResult ==
  \A r \in TrialRuns : run[r].status = "completed" =>
    \E c \in Cases : trials[r][c] \in Content \ {"skip"}
=============================================================================
