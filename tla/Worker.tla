------------------------------- MODULE Worker -------------------------------
(***************************************************************************)
(* The execution of Runs: RunService.execute and _execute_benchmark, the   *)
(* Worker runtime that claims and recovers Runs under the executor lock    *)
(* (apps/worker/motte_worker/runtime.py), and the API requests that        *)
(* interleave with it.  A Worker may crash between any two steps and is    *)
(* started again; with LockCanBeLost the PostgreSQL session that holds the *)
(* advisory lock may go away under a Worker that does not notice.          *)
(***************************************************************************)
EXTENDS RunService

CONSTANTS LockCanBeLost,      \* the executor lock is a PostgreSQL advisory lock
          MaxRuns,            \* bound on Runs when one is submitted
          MaxRequests,        \* bound on API requests
          MaxCrashes,         \* bound on Worker crashes and lost locks
          CanRestore          \* may the operator restore a backup

ASSUME WorkerAssumption ==
  /\ LockCanBeLost \in BOOLEAN
  /\ CanRestore \in BOOLEAN
  /\ MaxRuns \in Nat
  /\ MaxRequests \in Nat
  /\ MaxCrashes \in Nat

VARIABLES guard,      \* meta restored_from_backup: the restore guard is active
          requests,   \* API requests issued so far
          crashes,    \* crashes and lost locks so far
          calls,      \* history: provider calls started, by Run and Case
          late        \* history: calls started after a durable cancellation

env == <<guard, requests, crashes>>
history == <<calls, late>>
vars == <<store, fr, lock, env, history>>

Init ==
  /\ StoreInit
  /\ fr = [a \in Actors |-> Blank(IF a \in Workers THEN "down" ELSE "idle")]
  /\ lock = NoActor
  /\ guard = FALSE
  /\ requests = 0
  /\ crashes = 0
  /\ calls = [r \in Runs |-> [c \in Cases |-> 0]]
  /\ late = [r \in Runs |-> 0]

-----------------------------------------------------------------------------
(* execute and _execute_benchmark up to the first Case. *)
Execute(w) ==
  /\ fr[w].pc = "execute"
  /\ CASE Run(w).status = "completed" -> Leave(w)
       [] Run(w).status = "queued" -> Step(w, Transition(fr[w], "preparing", "toRunning"))
       [] Run(w).status = "preparing" -> Step(w, [fr[w] EXCEPT !.pc = "toRunning"])
       [] OTHER -> Die(w)
  /\ UNCHANGED <<store, env, history>>

ToRunning(w) ==
  /\ fr[w].pc = "toRunning"
  /\ Step(w, IF Run(w).status = "running" THEN [fr[w] EXCEPT !.pc = "rows"]
             ELSE Transition(fr[w], "running", "rows"))
  /\ UNCHANGED <<store, env, history>>

Rows(w) ==
  /\ fr[w].pc = "rows"
  /\ LET f == fr[w] IN
       Step(w, [f EXCEPT !.pc = "loop", !.done = Persisted(f.r),
                         !.stop = Bench(w) /\ \E c \in Cases : rows[f.r][c] = "stop"])
  /\ UNCHANGED <<store, env, history>>

(* Mutant: the loop starts after the first Case. *)
LoopOffByOne(w) ==
  /\ fr[w].pc = "loop"
  /\ LET f == fr[w]
         left == {c \in Cases \ f.done : c > f.c}
     IN Step(w, IF left # {}
                  THEN Checkpoint([f EXCEPT !.c = Min(left)],
                                  IF f.stop THEN "skip" ELSE "beginLoad",
                                  IF Bench(w) THEN "die" ELSE "foq")
                  ELSE Checkpoint([f EXCEPT !.done = {}],
                                  IF Bench(w) THEN "sweep" ELSE "results", "die"))
  /\ UNCHANGED <<store, env, history>>

(* The head of the Case loop: persisted Cases are skipped, every other one   *)
(* is preceded by a cancellation check.                                      *)
Loop(w) ==
  /\ fr[w].pc = "loop"
  /\ LET f == fr[w]
         left == {c \in Cases \ f.done : c >= f.c}
     IN Step(w, IF left # {}
                  THEN Checkpoint([f EXCEPT !.c = Min(left)],
                                  IF f.stop THEN "skip" ELSE "beginLoad",
                                  IF Bench(w) THEN "die" ELSE "foq")
                  ELSE Checkpoint([f EXCEPT !.done = {}],
                                  IF Bench(w) THEN "sweep" ELSE "results", "die"))
  /\ UNCHANGED <<store, env, history>>

NextCase(w, f) == Step(w, [f EXCEPT !.pc = "loop", !.c = f.c + 1])

(* After a stop every Case left gets a not_attempted row. *)
Skip(w) ==
  /\ fr[w].pc = "skip"
  /\ upsert(fr[w].r, fr[w].c, "skipped")
  /\ NextCase(w, fr[w])
  /\ UNCHANGED <<env, history>>

(* _cancel_checkpoint and _settle_pending *)
CancelCheckpoint(w) ==
  /\ fr[w].pc = "checkpoint"
  /\ Step(w, [fr[w] EXCEPT !.pc = IF Run(w).cancellation THEN "settle" ELSE "honor"])
  /\ UNCHANGED <<store, env, history>>

SettlePending(w) ==
  /\ fr[w].pc = "settle"
  /\ LET f == fr[w] IN
       IF f.pend = {} THEN Step(w, [f EXCEPT !.pc = "honor"]) /\ UNCHANGED store
       ELSE LET c == Min(f.pend) IN
              IF can_complete(f.r, c, f.att[c])
                THEN /\ complete(f.r, c, f.att[c], "failed", "error")
                     /\ Step(w, [f EXCEPT !.pend = @ \ {c}])
                ELSE Raise(w) /\ UNCHANGED store
  /\ UNCHANGED <<env, history>>

(* The provider call begins. *)
CountCall(r, c) ==
  /\ calls' = [calls EXCEPT ![r][c] = @ + 1]
  /\ late' = [late EXCEPT ![r] =
                IF run[r].cancellation \/ run[r].status = "cancelled" THEN @ + 1 ELSE @]

Invoke(w) ==
  /\ fr[w].pc = "invoke"
  /\ CountCall(fr[w].r, fr[w].c)
  /\ Step(w, [fr[w] EXCEPT !.pc = "calling"])
  /\ UNCHANGED <<store, env>>

(* Its outcome is recorded with the Attempt's completion.  A plain Run ends  *)
(* with the first failed call, after one more cancellation check.            *)
Respond(w) ==
  /\ fr[w].pc = "calling"
  /\ LET f == fr[w] IN
       IF can_complete(f.r, f.c, f.att[f.c])
         THEN complete(f.r, f.c, f.att[f.c], "succeeded", "ok") /\ NextCase(w, f)
         ELSE Raise(w) /\ UNCHANGED store
  /\ UNCHANGED <<env, history>>

CallFails(w) ==
  /\ fr[w].pc = "calling"
  /\ LET f == fr[w] IN
       IF can_complete(f.r, f.c, f.att[f.c])
         THEN /\ complete(f.r, f.c, f.att[f.c], "failed", IF Bench(w) THEN "stop" ELSE "error")
              /\ IF Bench(w) THEN NextCase(w, [f EXCEPT !.stop = TRUE])
                 ELSE Step(w, Honor(f, "beginRaise", "foq"))
         ELSE Raise(w) /\ UNCHANGED store
  /\ UNCHANGED <<env, history>>

(* A transient failure keeps its Attempt open for a second chance. *)
CallFailsTransiently(w) ==
  /\ fr[w].pc = "calling"
  /\ fr[w].r \in SecondChanceRuns
  /\ NextCase(w, [fr[w] EXCEPT !.pend = @ \cup {fr[w].c}])
  /\ UNCHANGED <<store, env, history>>

(* An error marked quarantine leaves the Attempt uncertain. *)
CallQuarantined(w) ==
  /\ fr[w].pc = "calling"
  /\ Bench(w)
  /\ Step(w, [fr[w] EXCEPT !.pc = "foq"])
  /\ UNCHANGED <<store, env, history>>

(* _sweep_transient_failures *)
Sweep(w) ==
  /\ fr[w].pc = "sweep"
  /\ LET f == fr[w] IN
       Step(w, IF f.pend = {} THEN Transition(f, "collecting", "collected")
               ELSE Checkpoint([f EXCEPT !.c = Min(f.pend)], "second", "die"))
  /\ UNCHANGED <<store, env, history>>

(* Mutant: the Case stays pending while it is called again. *)
SecondCallKeepsPending(w) ==
  /\ fr[w].pc = "second"
  /\ LET f == fr[w] IN CountCall(f.r, f.c) /\ Step(w, [f EXCEPT !.pc = "secondCalling"])
  /\ UNCHANGED <<store, env>>

SecondCall(w) ==
  /\ fr[w].pc = "second"
  /\ LET f == fr[w] IN
       IF f.c \in f.pend
         THEN CountCall(f.r, f.c) /\ Step(w, [f EXCEPT !.pc = "secondCalling", !.pend = @ \ {f.c}])
         ELSE Die(w) /\ UNCHANGED history
  /\ UNCHANGED <<store, env>>

SecondOutcome(w) ==
  /\ fr[w].pc = "secondCalling"
  /\ LET f == fr[w] IN
       IF can_complete(f.r, f.c, f.att[f.c])
         THEN /\ \/ complete(f.r, f.c, f.att[f.c], "succeeded", "ok")
                 \/ complete(f.r, f.c, f.att[f.c], "failed", "stop")
              /\ Step(w, [f EXCEPT !.pc = "sweep"])
         ELSE Die(w) /\ UNCHANGED store
  /\ UNCHANGED <<env, history>>

(* execute reads the results before collecting, _execute_benchmark after     *)
(* the Run is in scoring.                                                    *)
Results(w) ==
  /\ fr[w].pc = "results"
  /\ Step(w, Transition([fr[w] EXCEPT !.done = Persisted(fr[w].r)], "collecting", "collected"))
  /\ UNCHANGED <<store, env, history>>

(* _score_results and _with_stop_uncertainty; a plugin may raise. *)
Score(w) ==
  /\ fr[w].pc = "score"
  /\ LET f == [fr[w] EXCEPT !.exc = "foq", !.src = "initial",
                            !.done = IF Bench(w) THEN Persisted(fr[w].r) ELSE @]
         default == IF Bench(w) /\ \E c \in Cases : rows[f.r][c] \in {"error", "stop"}
                      THEN "failed" ELSE "completed"
     IN \E final \in {default} \cup IF f.r \in ScenarioRuns THEN {"needs_review"} ELSE {} :
          Step(w, Honor([f EXCEPT !.to = final], "append", "foq"))
  /\ UNCHANGED <<store, env, history>>

ScoreRaises(w) ==
  /\ fr[w].pc = "score"
  /\ Step(w, [fr[w] EXCEPT !.pc = "foq"])
  /\ UNCHANGED <<store, env, history>>

ExecuteStep(w) ==
  \/ Execute(w) \/ ToRunning(w) \/ Rows(w) \/ Loop(w) \/ Skip(w)
  \/ CancelCheckpoint(w) \/ SettlePending(w)
  \/ Invoke(w) \/ Respond(w) \/ CallFails(w) \/ CallFailsTransiently(w) \/ CallQuarantined(w)
  \/ Sweep(w) \/ SecondCall(w) \/ SecondOutcome(w)
  \/ Results(w) \/ Score(w) \/ ScoreRaises(w)

-----------------------------------------------------------------------------
(* Worker start: run_forever takes the lock and recovers before anything     *)
(* else; recover_interrupted does not look at the restore guard.             *)
Start(w) ==
  /\ fr[w].pc = "down"
  /\ lock = NoActor
  /\ lock' = w
  /\ fr' = [fr EXCEPT ![w] = [Blank("recover") EXCEPT !.list = run, !.r = 1]]
  /\ UNCHANGED <<store, env, history>>

(* The Attempts of a Run with a status, each as Case and attempt_no. *)
Slots(r, status) ==
  UNION {{<<c, n>> : n \in {m \in DOMAIN attempts[r][c] : attempts[r][c][m] = status}} :
         c \in Cases}

NextRecovered(w) == Step(w, [fr[w] EXCEPT !.pc = "recover", !.r = @ + 1])

RecoverRun(w) ==
  /\ fr[w].pc = "recover"
  /\ LET f == fr[w]
         left == {r \in Runs : r >= f.r /\ f.list[r].status # "absent"}
     IN IF left = {} THEN Step(w, [f EXCEPT !.pc = "requeue"])
        ELSE Step(w, [f EXCEPT !.pc = "recoverPrepared", !.r = Min(left),
                               !.seen = Slots(Min(left), "prepared")])
  /\ UNCHANGED <<store, env, history>>

(* A prepared Attempt was never dispatched; one that moved on since it was   *)
(* listed is left alone.                                                     *)
RecoverPrepared(w) ==
  /\ fr[w].pc = "recoverPrepared"
  /\ LET f == fr[w] IN
       IF f.seen = {} THEN Step(w, [f EXCEPT !.pc = "recoverUncertain"]) /\ UNCHANGED store
       ELSE \E s \in f.seen :
              /\ IF attempts[f.r][s[1]][s[2]] = "prepared"
                   THEN attempt_transition(f.r, s[1], s[2], "prepared", "failed")
                   ELSE UNCHANGED store
              /\ Step(w, [f EXCEPT !.seen = @ \ {s}])
  /\ UNCHANGED <<env, history>>

(* Mutants: every backend is taken for safe_to_repeat; settled Runs are      *)
(* passed over.                                                              *)
RecoverAllAsSafe(w) ==
  /\ fr[w].pc = "recoverUncertain"
  /\ LET f == fr[w] IN
       IF uncertain(f.r) # {} /\ f.list[f.r].status \in INTERRUPTED_STATES
         THEN Step(w, [f EXCEPT !.pc = "recoverSafe", !.seen = Slots(f.r, "dispatching")])
         ELSE NextRecovered(w)
  /\ UNCHANGED <<store, env, history>>

RecoverOnlyInterrupted(w) ==
  /\ fr[w].pc = "recoverUncertain"
  /\ LET f == fr[w] IN
       IF uncertain(f.r) = {} \/ f.list[f.r].status \notin INTERRUPTED_STATES
         THEN NextRecovered(w)
         ELSE Step(w, [f EXCEPT !.pc = "recoverQuarantine"])
  /\ UNCHANGED <<store, env, history>>

RecoverUncertain(w) ==
  /\ fr[w].pc = "recoverUncertain"
  /\ LET f == fr[w]
         status == f.list[f.r].status
         dispatching == Slots(f.r, "dispatching")
     IN IF uncertain(f.r) = {} \/ (status = "needs_review" /\ dispatching = {})
          THEN NextRecovered(w)
          ELSE IF f.r \notin SafeRuns THEN Step(w, [f EXCEPT !.pc = "recoverQuarantine"])
          ELSE IF status \in INTERRUPTED_STATES
            THEN Step(w, [f EXCEPT !.pc = "recoverSafe", !.seen = dispatching])
            ELSE NextRecovered(w)
  /\ UNCHANGED <<store, env, history>>

RecoverSafe(w) ==
  /\ fr[w].pc = "recoverSafe"
  /\ LET f == fr[w] IN
       IF f.seen = {} THEN NextRecovered(w) /\ UNCHANGED store
       ELSE \E s \in f.seen :
              IF attempts[f.r][s[1]][s[2]] = "dispatching"
                THEN /\ attempt_transition(f.r, s[1], s[2], "dispatching", "failed")
                     /\ Step(w, [f EXCEPT !.seen = @ \ {s}])
                ELSE Die(w) /\ UNCHANGED store
  /\ UNCHANGED <<env, history>>

(* The compare is with the Run as it was listed. *)
RecoverQuarantine(w) ==
  /\ fr[w].pc = "recoverQuarantine"
  /\ LET f == fr[w]
         s == f.list[f.r]
     IN IF Matches(f.r, s.revision, s.status)
          THEN quarantine_indeterminate(f.r, s.revision, s.status) /\ NextRecovered(w)
          ELSE Die(w) /\ UNCHANGED store
  /\ UNCHANGED <<env, history>>

Requeue(w) ==
  /\ fr[w].pc = "requeue"
  /\ requeue_interrupted
  /\ Leave(w)
  /\ UNCHANGED <<env, history>>

(* claim_and_execute: the lock, the barrier, the oldest queued Run. *)
Queued == {r \in Runs : run[r].status = "queued"}

Claim(w) ==
  /\ fr[w].pc = "idle"
  /\ lock = NoActor
  /\ ~guard
  /\ Queued # {}
  /\ LET r == Min(Queued) IN
       /\ claim(r)
       /\ fr' = [fr EXCEPT ![w] = [Blank("build") EXCEPT !.r = r]]
  /\ lock' = w
  /\ UNCHANGED <<env, history>>

Poll(w) ==
  /\ fr[w].pc = "idle"
  /\ lock = NoActor
  /\ guard \/ Queued = {}
  /\ UNCHANGED vars

(* WorkerAlreadyRunning ends the process. *)
AlreadyRunning(w) ==
  /\ fr[w].pc = "idle"
  /\ lock # NoActor
  /\ Die(w)
  /\ UNCHANGED <<store, env, history>>

(* execute_claimed builds the execution backend. *)
Build(w) ==
  /\ fr[w].pc = "build"
  /\ \E pc \in {"execute", "unsupported"} : Step(w, [fr[w] EXCEPT !.pc = pc])
  /\ UNCHANGED <<store, env, history>>

WorkerStep(w) ==
  \/ ServiceStep(w) /\ UNCHANGED <<env, history>>
  \/ ExecuteStep(w)
  \/ Start(w) \/ RecoverRun(w) \/ RecoverPrepared(w) \/ RecoverUncertain(w)
  \/ RecoverSafe(w) \/ RecoverQuarantine(w) \/ Requeue(w)
  \/ Claim(w) \/ AlreadyRunning(w) \/ Build(w)

-----------------------------------------------------------------------------
(* API requests *)
Submit ==
  /\ Cardinality({r \in Runs : Created(r)}) < MaxRuns
  /\ \E r \in Runs :
       /\ ~Created(r)
       /\ \A q \in 1..(r - 1) : SameKind(q, r) => Created(q)
       /\ create(r)
  /\ UNCHANGED <<fr, lock, env, history>>

Request(a, r, pc, reason) ==
  /\ fr[a].pc = "idle"
  /\ requests < MaxRequests
  /\ Created(r)
  /\ requests' = requests + 1
  /\ fr' = [fr EXCEPT ![a] = [Blank(pc) EXCEPT !.r = r, !.flag = reason]]
  /\ UNCHANGED <<store, lock, guard, crashes, history>>

ClientStep(a) ==
  \/ ServiceStep(a) /\ UNCHANGED <<env, history>>
  \/ \E r \in Runs :
       \/ \E reason \in BOOLEAN : Request(a, r, "cancel", reason)
       \/ \E pc \in {"rescore", "retry", "stale"} : Request(a, r, pc, FALSE)

-----------------------------------------------------------------------------
(* The environment *)
Crash(w) ==
  /\ fr[w].pc # "down"
  /\ crashes < MaxCrashes
  /\ crashes' = crashes + 1
  /\ Die(w)
  /\ UNCHANGED <<store, guard, requests, history>>

LoseLock(w) ==
  /\ LockCanBeLost
  /\ lock = w
  /\ crashes < MaxCrashes
  /\ crashes' = crashes + 1
  /\ lock' = NoActor
  /\ UNCHANGED <<store, fr, guard, requests, history>>

(* A backup is restored with every process stopped; the restored database    *)
(* carries the guard until the operator releases it.  The backup is the one  *)
(* taken last, with the Runs as the stopped processes left them.             *)
RestoreBackup ==
  /\ CanRestore
  /\ ~guard
  /\ \A w \in Workers : fr[w].pc = "down"
  /\ \A a \in Clients : fr[a].pc = "idle"
  /\ guard' = TRUE
  /\ UNCHANGED <<store, fr, lock, requests, crashes, history>>

ClearGuard ==
  /\ guard
  /\ guard' = FALSE
  /\ UNCHANGED <<store, fr, lock, requests, crashes, history>>

Next ==
  \/ Submit
  \/ RestoreBackup
  \/ ClearGuard
  \/ \E w \in Workers : WorkerStep(w) \/ Poll(w) \/ Crash(w) \/ LoseLock(w)
  \/ \E a \in Clients : ClientStep(a)

(* A Worker process that is down is started again (the deployment restarts   *)
(* it), a running one keeps running, provider calls return or time out, and  *)
(* an API request that was accepted is carried through.                      *)
Fairness ==
  /\ \A w \in Workers : WF_vars(WorkerStep(w))
  /\ \A a \in Clients : WF_vars(ServiceStep(a) /\ UNCHANGED <<env, history>>)

Spec == Init /\ [][Next]_vars

FairSpec == Spec /\ Fairness

-----------------------------------------------------------------------------
(* The types of the actors' records, with those of the tables. *)
WorkerTypeOK ==
  /\ TypeOK
  /\ lock \in Workers \cup {NoActor}
  /\ DOMAIN fr = Actors
  /\ \A a \in Actors :
       /\ fr[a].r \in 0..(NRuns + 1)
       /\ fr[a].snap \in RunRecord
       /\ fr[a].pend \subseteq Cases
       /\ fr[a].exc \in {"die", "foq", "late", "leave"}

(* A provider call is never repeated: across cancellations, crashes,         *)
(* recoveries and requeues a Case of a Run that is not safe_to_repeat is     *)
(* called at most once, twice where the benchmark executor gives a second    *)
(* chance.                                                                   *)
NoRepeatedCall ==
  \A r \in Runs \ SafeRuns, c \in Cases :
    calls[r][c] <= IF r \in SecondChanceRuns THEN 2 ELSE 1

(* At most the call already being dispatched starts after a cancellation     *)
(* became durable.                                                           *)
OneLateCall == \A r \in Runs : late[r] <= 1

(* A completed Run is complete: every Case has a row, no Attempt is open,    *)
(* and the current pass scored every Case.                                   *)
CompletedIsComplete ==
  \A r \in Runs : run[r].status = "completed" =>
    /\ Persisted(r) = Cases
    /\ list_open(r) = {}
    /\ run[r].current > 0
    /\ passes[r][run[r].current].scored = Cases

(* An uncertain call always leads to needs_review: no other settled Run      *)
(* keeps an indeterminate Attempt, and needs_review names one.               *)
IndeterminateIsReviewed ==
  \A r \in Runs \ ScenarioRuns :
    (run[r].status = "needs_review") <=> (WithStatus(r, {"indeterminate"}) # {})

(* A terminal Run is never executed again: claims, requeues and the table    *)
(* of _transition leave the terminal statuses alone.                         *)
NeverResurrected ==
  [][\A r \in Runs : run[r].status \in TERMINAL => run'[r].status \in TERMINAL]_vars

(* No Run is resurrected, and in a plain Run every terminal status but        *)
(* cancelled is final.                                                       *)
SettledIsFinal ==
  [][\A r \in Runs : run[r].status \in TERMINAL =>
       /\ run'[r].status \in TERMINAL
       /\ r \notin BenchmarkRuns /\ run[r].status # "cancelled" =>
            run'[r].status = run[r].status]_vars

(* No later step overrides the status cancelled. *)
CancelledIsFinal ==
  [][\A r \in Runs : run[r].status = "cancelled" => run'[r].status = "cancelled"]_vars

(* Under the restore guard no Worker executes or recovers a Run. *)
GuardStopsWorkers == guard => \A w \in Workers : fr[w].pc \in {"down", "idle"}

(* Once a Worker has recovered, a settled Run has no unresolved Attempt,     *)
(* unless it is in needs_review: it can be retried.                          *)
RecoveredIsRetryable ==
  \A w \in Workers : fr[w].pc = "requeue" =>
    \A r \in Runs : run[r].status \in TERMINAL \ {"needs_review"} => list_open(r) = {}

(* Every Run is eventually settled, in spite of a crash and of an API        *)
(* request: recovery requeues or quarantines it and the Worker executes it   *)
(* to a terminal status, unless the operator leaves the restore guard in     *)
(* place.  A Run with a second chance may be left behind by a cancellation,  *)
(* and so may any benchmark Run by two of them (CancellationSettles).        *)
EventuallySettled == \A r \in Runs \ SecondChanceRuns : Created(r) ~> (run[r].status \in TERMINAL \/ guard)

(* A durable cancellation request is eventually honoured or overtaken by     *)
(* another terminal status.                                                  *)
CancellationSettles == \A r \in Runs : run[r].cancellation ~> run[r].status \in TERMINAL
=============================================================================
