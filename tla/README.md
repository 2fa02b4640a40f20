# A TLA+ model of MoTTE

MoTTE is an evaluation platform for language models. An API (or the CLI)
submits *Runs*; each Run selects *Cases* of a dataset; a Worker process claims a
Run, calls a model provider once per Case (or starts one external benchmark
process for all of them), stores the results and scores them. *Experiments*
allocate whole matrices of Runs. Provider calls and benchmark processes cost
money and are not idempotent, so the code is built around three promises: a call
is not repeated when its outcome is uncertain, a durable result is never
rewritten, and every Run ends in a terminal status. Keeping them is a matter of
the order of database transactions across processes that crash, restart and
interleave, which is what this development models.

## The parts of the system

| Part | Where | Modelled in |
|---|---|---|
| Run store: Runs, Attempts, result rows, ScoringPasses | `packages/storage/motte_storage/{run_store,audit_store,integrity}.py` | `RunStore` |
| RunService: execute, cancel, rescore, retry, scoring passes | `packages/sdk-python/motte_sdk/service.py` | `RunService`, `Worker` |
| Worker runtime, dispatcher, executor lock | `apps/worker/motte_worker/{runtime,__main__}.py`, `motte_sdk/{dispatcher,execution_lock}.py` | `Worker` |
| HTTP API | `apps/api` | a client of `Worker` and `JobWorker` |
| External benchmark jobs and trials | `motte_storage/{external_jobs,trials}.py`, `motte_sdk/external_jobs.py`, `service.py` | `JobStore`, `JobWorker` |
| Process adapter, OpenCompass and Harbor runtimes | `benchmark-runtime` | `JobWorker` (process life cycle, what collecting its output yields) |
| Judge scoring jobs | `motte_storage/scoring_jobs.py`, `motte_sdk/scoring_jobs.py` | `JudgeStore`, `JudgeWorker` |
| Experiments: specification, allocation, cancel, retry of cells | `motte_storage/experiments.py`, `motte_sdk/experiments.py` | `Experiments`, `CellLedger` |
| Comparisons, gates | `motte_sdk/comparisons.py`, `motte_eval/{comparison,gates}.py` | not modelled |
| Interactive runtime sessions and commands | `motte_storage/runtime_sessions.py`, `motte_sdk/{commands,codex_app_server_runtime}.py`, `motte_harness/codex_app_server.py` | `SessionStore`, `Session` |
| Harness supervisor, exec-mode runtimes | `harness-runtime` | only as the end of the process (`Session`) |
| Agent runtimes, invocation log | `agent-runtime`, `motte_storage/invocations.py` | planned |
| Scenario runtime, provider transport | `scenario-runtime`, `provider-runtime` | planned |
| Trace log, archives, retention | `motte_storage/{run_store,trace_archives,trace_retention}.py` | `Maintenance` |
| Maintenance barrier, backup, operation locks | `motte_storage/{maintenance,operation_locks}.py` | `Maintenance` (the restore guard in `Worker`) |
| Evidence files, garbage collection | `motte_storage/{artifacts,artifact_refs,gc,deletion_audit}.py` | `Maintenance` |
| Resources, publication, skills | `motte_storage/resource_store.py`, `motte_sdk/publication.py`, `skill-runtime` | planned |
| Scorers, statistics, importers, contracts, sandbox, CLI, web console | several | not modelled |

How they interact: the API, the CLI and the Worker all act on the Run store
through `RunService`. They share nothing but the database. A transaction compares
the revision and the status its caller read earlier and fails with
`RunConflictError` when they changed. At most one Worker holds the executor lock.
An external process outlives the Worker that started it; all that connects it to
the next Worker is the handle in the Job's record and the files it writes.
Experiments create Runs under ids that are a function of the cell, so that
creating one twice is noticed by the Run store. In an interactive Case a client
reaches the running agent only through commands stored in the database, which
the executor claims one by one and writes to the agent's process. Evidence files
lie beside the database: they are written before the row that refers to them, and
the operator's commands that delete, archive or copy them run under three file
locks and a barrier in the database. `PROJECT.json` lists every part with the
reason why it is, or is not, modelled.

## The modules

`RunStore` is the store. `run[r]` is a Run record (status, revision, cancellation
request, current pass), `attempts[r][c]` the statuses of the Attempts of a Case
by `attempt_no`, `rows[r][c]` the kind of its result row, `passes[r]` the
append-only ScoringPasses. Each action is one `BEGIN IMMEDIATE` transaction under
the source's name: `create`, `update`, `transition`, `claim`,
`requeue_interrupted`, `upsert`, `begin`, `dispatch`, `attempt_transition`,
`complete`, `quarantine_indeterminate`, `append`. An action is enabled exactly
when the transaction commits. `StoreSpec` lets anybody call any of them at any
time: it is what the store promises without regard to its callers.

`RunService` is the code between the transactions. An actor (Worker or API
client) has an activation record `fr[a]`: the next step, the locals that are
read later, where to return, what an exception does. There is one step per read
whose value is used later and one per transaction; every other actor may act in
between. `_transition`, `_honor_cancellation`, `cancel`, `_finish_unattempted`,
`_append_scoring_pass`, `_begin_case_attempt`, `_fail_or_quarantine`, `rescore`,
`retry`, `mark_unsupported` and `mark_profile_stale` are modelled this way.
The kinds of Run are constants: plain, `BenchmarkRuns`, `ScenarioRuns`,
`SafeRuns` (a backend that declares safe_to_repeat), `SecondChanceRuns`
(transient failures are tried once more), `JobRuns` (one external process) and
`TrialRuns` (an external Job whose Cases have planned Trials, as Harbor's do).

`Worker` composes them: `execute` and `_execute_benchmark` (with the second
chance for transient failures), the Worker's start, recovery, claim and loop, the
executor lock, the restore guard, API requests, crashes. `calls[r][c]` and
`late[r]` are history variables: provider calls started, and those started after
a cancellation was durable.

`JobStore` extends the store by the durable side of external Jobs. `jobs[r]` are
the Jobs of a Run with the finalisation checkpoint (`import_completed`, the
frozen bundle, the outcome), `records[r][j][c]` the imported records by import
key, `trials[r][c]` the planned Trial of a Case: without a plan, pending,
disposed of by a placeholder, or with the runner's result. `begin_job`,
`update_job`, `import_record`, `create_plans`, `put_result` and `dispose` are its
transactions.

`JobWorker` is `execute_external_job` around `DurableExternalJobRunner`,
`ExternalJobSupervisor` and the process adapter: the launch with its stored
intent, the journal that notices a cancellation in the launch window, the loop of
`observe`, freezing and importing the output, `_settle` in its order of four
writes, the import of Trials, rows, dispositions and the scoring pass. On top of
it: cancellation from another process and from the Worker's own (the
`interrupt_run` path, `LocalCancel` to `LocalRefresh`), `import_late_results`, a
parser of another version, crashes at any step. `process[r][j]` is the external
process, which goes on when its Worker is gone; `jf[a]` holds the locals of the
Job code.

`JudgeStore` extends the store by the durable judge jobs, which pay a judge model
to score a saved Run. `job[j]` is a job's status, revision, cancellation request,
ledger of calls and receipt; `submit`, `claim_job`, `job_transition`,
`begin_call`, `settle_call`, `cancel_job`, `publish` and `recover_jobs` are its
transactions. `publish` contains the store's `append`. `JudgeStoreSpec` again lets
anybody call anything.

`JudgeWorker` is `run_claimed` with `_call_failed`, `_finalize_cancellation` and
`_finalize`, executed by Workers under the executor lock, with API clients that
cancel jobs and rescore the subject Run (the steps of `RunService`). `jf[w]` is
a Worker's activation record, `sent[j][p]` counts how often a call was sent.

`Experiments` is the life of one experiment: services that create it (request
key, specification, matrix) and allocate its cells under
`experiment_allocation_lock`, recover cells left `allocating` by a crash, and
operators that cancel the experiment and retry cells without that lock. A service
may crash between any two steps, and the session that holds the lock may be lost.
`cell[c]` is the stored cell, `run[c]` the initial Run of its deterministic id,
`retries[c]` the retry Runs that exist and `cell[c].superseding` the ones the
cell names. `CellLedger` is what all this promises, without services, locks or
steps in between: the matrix is published once, a cell has at most one initial
Run and is decided once, retry Runs are numbered without gaps, and each is listed
before the next is created.

`SessionStore` is the durable side of an interactive Case: the session with its
pending approvals, and the commands by dedupe key. `create_or_get`, `claim`,
`transition` and `transition_command` are its transactions; the control revision
that a command has to match is kept as the set `current` of the commands created
under it. `Session` is the rest: the executor of `codex_app_server_runtime.py`
from preparing the session to storing its end (`_event`, `_approval`, `_acks`,
`_commands`, `_interrupt`, `_loop`, `invoke`), the transport with its bounded
queue of frames, the app server, which may ask, resolve, change its mind, answer
late or never, misbehave or exit, the clients, a cancellation of the Run, and the
recovery after a crash of the Worker. `ex` is the executor's memory, with the
copy of the session (`cache`) that it works on; `native` also counts what the
server received (`wire[c]`, `answers[a]`).

`Maintenance` is what happens to evidence files and Trace events. Workers (under
the executor lock) and importers (under none) write a file and then refer to it;
API requests append events and switch the barrier's flag. Operators collect
garbage, make backups, raise the barrier and leave (`Hold`), plan and apply the
retention of events, and release a barrier that a crash left behind. `op[o]` is
the activation record of a command: `acquire_operation_locks`,
`begin_maintenance`, then the steps of its kind (`collect_references` to
`SweepDone`, `snapshot` to `write_manifest`, `check_plan` to
`commit_trace_retention`), then `end_maintenance`. `receipts` carry the references
of the events they replaced. `appended` and `gone` are history variables: how many
events there ever were, and what each collection unlinked.

`MCWorker`, `MCJudge`, `MCExperiments`, `MCJobs`, `MCSession` and `MCMaintenance`
instantiate them for TLC.
`WorkerSteps` (the Run store and the steps of the service), `WorkerProofs`,
`CompletionProofs`, `JudgeWorkerProofs`, `ExperimentsProofs`, `JobWorkerProofs`,
`SessionProofs` and `MaintenanceProofs` hold the theorems. Definitions marked
*Mutant* are slips that a property must notice; no specification uses them.

### What is abstracted

* Results, scores, manifests, prompts and events are dropped or reduced to the
  kind that a later decision looks at: a row is `ok`, `error`, `stop`, `skipped`,
  the content of an external result `ok`, `bad`, `skip` or `late`.
* Only the Run's revision is kept. An Attempt's is implied by its status, as
  `ATTEMPT_TRANSITIONS` is acyclic.
* A provider call responds, fails, fails transiently, or ends with an uncertain
  outcome. Which one is a free choice.
* A read and the pure computation after it are one step. A crash loses exactly
  the activation record and the process's lock.
* A restored backup is the one taken last. What an older backup forgets is for
  the operator to judge; the restore guard exists for that.
* An external process adds results while it runs and never takes one back; they
  are chosen when they are read. It may exit at any time, with or without its
  completion marker, or never. Its output may be unreadable or over the size
  budget. A killed process may still write its marker. Stopping it is best effort:
  the end of a child is waited for, while of another process the identity may not be
  verified and the errors of a signal are passed over.
* A transaction of the database commits or raises a conflict. Everything else that
  touches files or processes may fail: of an external Job any step of the entry may
  raise (`EntryRaises`), of a session starting, freezing the evidence and cleaning
  up (`Raises`), of maintenance the unlink and the check after it.
* A Case of an external Run stands for its one planned Trial and is the import
  key of its record. Equal contents have equal hashes.
* All judge jobs score one Run and have the same number of calls. The frozen
  allowance of a job is the sum of its plan's reservations, so it refuses exactly
  the calls that the check for a repeated call refuses. Frozen records are well
  formed. Jobs run apart from Runs: their subject is already completed.
* One experiment id and version with one request key. What an experiment's Runs
  do is reduced to queued, running, running with a cancellation request, over.
  Compilation, previews and admission accept or reject a call.
* A session's frame is its kind and the approval it is about. `approve` and
  `reject` are one kind of command, `decide`. A time limit is a step that may be
  taken once somebody could look at it. The app server's reply is read by the
  step that waits for it; a reply that nobody waits for is dropped.
* A file is its id and whether it is absent, torn or whole. Which files have a
  reference with a hash is a free choice, made when a backup copies them. The TTL of files and
  the retention period are the operator's choice, so every unreferenced file may
  be old enough, and a retention cutoff is known by the last event before it. One
  Run has events. The checks of `commit_trace_retention` outside its transaction
  are repeated inside, so they are one step. `gc apply` plans and applies in one
  command; a retention plan is a file that may be applied late, or again.
* The store is translated from the SQLite implementation. The PostgreSQL one has
  the same transactions under row locks.


## What TLC checks

| Run | Instance | Properties |
|---|---|---|
| `plain` | plain Run, 2 Cases, 1 Worker, 2 clients, 2 requests, 1 crash | `WorkerTypeOK`, `OneLateCall`, `CompletedIsComplete`, `RecoveredIsRetryable`, `SettledIsFinal` |
| `lock` | benchmark Run, 2 Workers, the lock may be lost under one, 2 Cases, 1 crash | `OnlyLastAttemptCounts`, `PassChain`, `NoRepeatedCall`, `IndeterminateIsReviewed`, `NeverResurrected`, `StoreSpec` |
| `mixed` | a Run of a safe scenario, a benchmark, or a benchmark with second chance, and its retry; crash, restore; fairness | `NoRepeatedCall`, `AppendOnly`, `EventuallySettled` |
| `external` | external Run with or without Trials, 2 Cases, 1 Worker, 1 late import, 1 crash; fairness | `StartedOnce`, `CompletedIsImported`, `ReplayAgrees`, `TrialsDisposed`, `EvidenceIsFinal`, `JobRunsSettle` |
| `interrupt` | external Run with a Trial, a client in the Worker's process and one elsewhere, 1 request, no crash | `SettledIsStopped`, `TrialsDisposed` |
| `judge` | 2 jobs of 2 calls, 2 Workers, 1 request, 1 crash or lost lock; fairness | `NoResentCall`, `PublishedOnce`, `CompletedIsJudged`, `OpenCallIsDispatching`, `JobIsFinal`, `JudgeStoreSpec`, `JobsSettle` |
| `experiments` | 2 cells, 2 contents, 2 services, 2 operators, 3 calls, 1 crash or lost lock | `AllocationIsComplete`, `ImplementsLedger` |
| `session` | 2 commands (one of any kind, one decision), 1 approval, a queue of 1 frame, 1 crash; fairness | `WrittenOnce`, `StatusIsTrue`, `NoneLeftOpen`, `OutcomeKnown`, `CommandsSettle` |
| `maintenance` | 1 Worker, 1 importer, 2 operators, 2 files (one an import), 3 events, 2 commands, 1 crash | `NoDanglingReference`, `NoEventLost`, `DeletionsAreAudited`, `BackupIsClosed` |
| `cancel_twice`, `cancelled`, `judge_chain` | the smallest instances that show a finding | one each, violated |

What they show:

* **No repeated call.** Over every interleaving of execution, cancellation,
  crash, recovery and requeue a Case is called once (twice with a second chance).
  It holds even when the PostgreSQL session of the executor lock goes away and a
  second Worker recovers and executes the same Run: the compare-and-sets of
  `begin` and `dispatch` stop the second call, not the lock.
* **Uncertain means needs_review**, and a needs_review Run names an uncertain
  Attempt. Scenario Runs are excepted: `stop_unconfirmed` also leads there.
* **Completed means complete**: every Case has a row, nothing is open and the
  current pass scored every Case.
* **One late call.** At most the call that is already being dispatched starts
  after a cancellation was stored.
* **The detailed program implements the store's specification** (`StoreSpec` as a
  property of `lock`). Arguments that are stale when a transaction is called
  never commit. So what is proved about `StoreSpec` holds of the program. The
  step that is not obvious is `append`: the pointer to the previous pass is read
  outside the transaction, and is right only because the Run's revision was read
  before it.
* **Every Run is settled**, unless the operator leaves the restore guard in place.
  Runs with a second chance are excepted: a cancellation can leave one behind
  (see below).
* **An external process is started once** per Run, however often its Worker
  crashes: the intent is stored before the start, and a Run that has a Job is
  never launched again. A crash between the two costs the Run (needs_review), not
  a second process.
* **What was imported stays, and a replay agrees with it.** After a crash between
  any two of the writes of `_settle` the next Worker rebuilds the same results
  from the records or from the frozen bundle. A completed external Run stands on
  a process that exited with 0 and on records that agree with the Trials.
* **Every external Run settles even if its process never ends**: the deadline
  interrupts it. A process that survives its settled Run is one whose execution
  broke off, by a crash or by an exception of the entry; any other is stopped,
  whichever of the three parties (Worker, request in its process, request
  elsewhere) does it, and every planned Trial ends with a disposition.
* **A judge call is sent once** and a job publishes once, over crashes, resumed
  publications and a second Worker after a lost lock. What a completed job
  published was judged: all its calls succeeded. A job is not closed over a call
  whose outcome is not in the ledger, and late answers do not revive it.
* **Every judge job settles**, with one exception that the code accepts: a
  cancellation during a call that then fails (or that lands just before the next
  call) leaves the job `dispatching` with its request until the next restart.
* **A cell gets one initial Run and one outcome** (`ImplementsLedger`), also when
  the allocation lock is lost and two services allocate side by side: the
  deterministic id and the status checks of the transactions are enough. While
  the lock is not lost, an `allocate` that returns leaves no cell undecided
  (`AllocationIsComplete`).
* **A command is written to the agent once**, and an approval gets one decision,
  over repeated requests, crashes at any step and answers that never come. What
  the audit says of a command is true: a rejected or expired one was never
  written, an acknowledged one was confirmed. When the Run is over no accepted
  command is without an outcome, so what the scoring pass freezes is final; a
  client that races with the end of the session is refused, because `stopping` is
  stored before the commands are listed. The evidence of a turn whose end nobody saw
  is never stored as the result of the Case, and only a Run left to a review leaves
  an app server running. When a file operation raises at the end of a session, the
  Case may get an ordinary error instead of the review (see below).
* **Every accepted command gets an outcome**, whatever the app server does.
* **No evidence that something refers to is deleted.** A plan of a collection may
  be stale when it is applied: the references are collected again under the locks,
  the executor lock keeps Workers away until the end, importers write only where
  collections never delete, and receipts carry the references of archived events.
  The barrier is not part of the argument, and had better not be: an API request
  can take it down. The property is that the file exists; a crash while a
  referenced file is written again can leave it torn.
* **No event is lost or numbered twice** by retention, although numbers are given
  as `MAX(seq) + 1` of the rows that are left: the newest row is always kept.
* **Tombstones are true** over crashes and failing deletions. One that says failed
  may be about a file that is gone: the directory is checked after the unlink.
* **A complete backup is closed**: it has all events up to its snapshot and copies
  of all files they refer to, even if Runs went on beside it. A copy is whole if a
  reference carries the file's hash; without one it may be torn (see below).

### Bounds

Two Cases are the least with which a loop has a "next" Case, with one finished,
one pending and one crash between them. One crash reaches every crash point,
since a crash may fall between any two steps, the steps of recovery included.
Two requests by two clients race with each other and with the Worker; a third
would meet only states the first two also meet. Two Runs are needed for requeue
and claim order, retry and mixed kinds: in `mixed` one Run of any kind is
submitted (`MaxRuns`) and its retry is a Run of the same kind. The second chance
has one Case there; the safety properties also hold of a second-chance Run with 2
Cases by itself (1,095,432 states). `lock` passes with a plain Run too (241,840 states). In `Worker` the
bounds on requests and crashes bound Attempts and revisions.

`external` has one Run, of either kind, with 2 Cases, which an interrupted import
needs. With a second crash, in the middle of the replay of the first, it passes
too (4,608,863 states). `interrupt` adds requests and keeps to one Case: the
Worker, a request in its process and one in another are then all at work on one
Job. It passes with one crash as well (22,249,077 states, too many to repeat every
time). Jobs need no second Run, as they share nothing across Runs but the lock.

Two judge jobs of two calls let a publication race with a rescore and with
another job, and a job be interrupted between its calls. One job with three
requests and two crashes, and two jobs with two requests, pass as well and take
longer. Two cells, two services and two operators are the least with which
allocation has a next cell, allocators race after a lost lock, and two retries
compete for a number; services, operators and contents are interchangeable
(symmetry; no temporal property under fairness is checked there). Deadlock is not
checked in `judge`, `experiments` and `session`, which come to an end; it is in
the runs of `Worker` and `JobWorker`, where an idle Worker can always poll.

A queue of one frame overflows as soon as the executor is slow, and a second
command is what a decision races with. The safety properties also hold with two
commands of all kinds (4,477,307 states), and without a crash with two decisions
on two approvals (13,209,770 states); all of them, `CommandsSettle` included, hold with a queue of two frames
(1,701,129 states).

In `maintenance` two commands are one that plans on what the other changes, or
two that compete for the locks; a retention needs an event with a file, the
newest event, and one appended between plan and apply. Operators are
interchangeable (symmetry). An idle system can always take an event or a command
until the bounds are reached; it can then still switch the barrier, so deadlock
is checked.

The proofs lift all bounds of the stores, of `Experiments` and `Maintenance`, of
the safety properties of `JudgeWorker` and `Session`, of `StartedOnce` and
`EvidenceIsFinal`, and of the properties of `Worker` listed under *What is proved*.

### Fairness

`Fairness` is weak fairness of each Worker's step, which includes starting a
Worker that is down (the deployment restarts it), and of the steps of an API
request that was accepted. Provider calls have a deadline, so a call always
returns. In `JobWorker` the wall clock also passes `max_wall_seconds` while a
Worker watches (`Deadline`); nothing is asked of the external process, which may
run for ever. In `Session` the Worker runs and is restarted, and the time limit of
the supervisor (`total_timeout`) ends the app server's process at last; neither
clients nor the server have to do anything. Crashes, lost locks, new requests, submissions and the release of
the restore guard are never forced.

## Findings

The violation runs each show the code disagreeing with its own text.

1. `cancel_twice` (`service.py:889`). The Worker settles a stored request in
   `_finish_unattempted`. A second cancel that commits between its load and its
   compare-and-set makes the Worker take the branch of the lost race: it stores
   the request again "for the executor to settle" and returns. It was the
   executor; the Run stays in `running` or `scoring` while the Worker polls, until
   a Worker is restarted.
2. `cancelled` (`service.py:1071`). `_append_scoring_pass` loads the Run anew
   after the last cancellation check, so its compare-and-set accepts a Run that
   became `cancelled` in between and completes it. A lost lock and a second chance
   turn `needs_review` into `failed` the same way.
3. `judge_chain` (`motte_sdk/scoring_jobs.py:2123`). `_finalize` reads the current
   pass before the Run's revision. A rescore in between is not noticed by
   `publish`, and two passes then name the same previous one. `service.py` and
   `calibration.py` read in the other order, and the latter says why. This is why
   `JudgeStore` does not implement `StoreSpec`, whose callers name the current
   pass.

### Disagreements without a run of their own

Ten more have no run, because another run reaches the same code or because the
instance is a change of one line of a configuration:

* *Claims* (`codex_app_server_runtime.py:110`). `_approval` adds a new request to
  the approvals in memory, which `_commands` read before it claimed a command,
  and stores them all. An approval that is claimed, or already answered, becomes
  pending again, and a second command is claimed for it, although the claim is
  said to reserve the approval. The transport refuses to answer twice, so the
  server still gets one decision (`WrittenOnce`); the price is that the session
  ends as indeterminate. `ClaimReserves` in `MCSession.cfg`, with `MCApprovals` and
  `MCDecisions`, shows it.
* *Window* (`apps/api/app/main.py:517`). The docstring of `begin_maintenance`
  (`maintenance.py:317`) says that writers "are barred for the whole window", and
  that of `end_maintenance` that it releases "only this owner"; the API's request
  deletes the flag of any owner. `WindowIsBarred` in `MCMaintenance.cfg` shows it
  in five steps.
* *Second chance* (`service.py:1970`). `_cancel_checkpoint` stores pending
  transient failures when its own load sees the cancellation, and then calls
  `_honor_cancellation`, which loads again. A cancellation between the loads is
  seen only by the second, and the Run stays in `running`. `MCCancelTwice.cfg` with
  `SecondChanceRuns = {1}` and `MaxRequests = 1` shows it.
* *Restored* (`runtime.py:309`). `run_forever` recovers before it looks at the
  restore guard, which its docstring says stops recovery too:
  `GuardStopsWorkers` in `MCMixed.cfg`.
* *Evidence boundary* (`codex_app_server_runtime.py:437`). The comment at
  `service.py:1843` says that an evidence boundary that fails after side effects
  leads to a review. `invoke` decides on the quarantine last: if freezing the raw
  evidence, the capture, the cleanup or `mark_terminal` raises before that, the
  exception does not ask for one, and a Case whose turn may have had effects gets an
  ordinary error, or a second chance if its class is transient.
  `UncertainIsReviewed` in `MCSession.cfg` shows it in twelve steps.
* *Torn copies* (`maintenance.py:611`). The manifest of a complete backup stands for
  a closed set of files, but the copy of a file is compared with a hash only if some
  reference carries one, and references from allowlists and lists of names do not
  (`artifact_refs.py:95`, `:105`). A file that a crash left torn is then copied as it
  is: `CopiesAreWhole` in `MCMaintenance.cfg`.
* *Safe replay* (`runtime.py:174`). A safe_to_repeat Run cancelled during a call is
  settled when recovery sees it; its dispatching Attempt stays open and `retry`
  refuses the Run: `RecoveredIsRetryable` in `MCMixed.cfg`.
* *Failed job* (`motte_storage/scoring_jobs.py:542`). `cancel` turns a failed judge
  job into a cancelled one, which `JOB_TRANSITIONS` does not allow:
  `TerminalIsFinal` in place of `JobIsFinal` in `MCJudge.cfg`.
* *Cancelled cell* (`motte_sdk/experiments.py:773`). `cancel` goes over a list of
  cells it read at the start, without the allocation lock. An allocator that
  claimed a cell and created its Run meanwhile leaves a queued Run under a
  cancelled cell, of which the comment says that it produces no further result:
  `CancelledIsOver` in `MCExperiments.cfg`.
* *Empty job* (`service.py:435`). The Harbor parser reports a planned Trial without
  output as not attempted, which is accepted as a result, so the row counts as
  responded. A runner that exits with 0 without a new Trial completes the Run with
  no result at all, which the comment next to the check excludes:
  `CompletedHasResult` in `MCExternal.cfg`.

A smaller observation, modelled but not a disagreement with any text: a
cancellation that settles the Run just before the load of `_transition`
(`service.py:341`) surfaces as a `ValueError`, which the handler for
`RunConflictError` does not catch, so the evidence of that Job is not imported.


## What is proved

The first part of `WorkerSteps` is about `RunStore` alone and proves, for any
number of Runs and Cases and with no bound on Attempts, passes or revisions:

| Theorem | States |
|---|---|
| `TypeCorrect` | `StoreSpec => []TypeOK` |
| `OnlyLastAttempt` | an earlier Attempt of a Case has definitely failed |
| `SucceededRow` | a succeeded Attempt has its result row |
| `PassesChained` | the passes form one chain that ends in the current one |
| `NothingIsRewritten` | `StoreSpec => AppendOnly` |

The assumptions are that there is at least one Run and one Case. The inductive
invariant `StoreInv` is the conjunction of the first four properties and
`AbsentIsBlank` (a Run not yet created has no pass and revision 0).
`OnlyLastAttemptCounts` alone is not inductive: `begin` checks that the Case has
no row and no *open* Attempt, and from that alone its last Attempt might have
succeeded. With `SucceededHasRow` it must have failed. `AbsentIsBlank` is needed
by `create`, which writes a whole new record. The proof has one lemma per
transaction; the two that rewrite Attempts (`Advance`, `quarantine_indeterminate`)
have a lemma of their own about what they do to the table. `NothingIsRewritten`
splits by table (`RowsKept`, `AttemptsKept`, `PassesKept`, `RevisionCounts`).

`WorkerProofs` proves, for any number of Workers, API clients, Runs and Cases, any
number of requests, crashes and lost locks, and any division of the Runs into
plain, benchmark, scenario and repeatable ones:

| Theorem | States |
|---|---|
| `WorkerTypeCorrect` | `Spec => []WorkerTypeOK` |
| `WorkerRefinesStore` | `Spec => StoreSpec`: every step is one transaction of the store, or leaves the store alone |
| `WorkerAttempts` | `Spec => []OnlyLastAttemptCounts` |
| `WorkerPasses` | `Spec => []PassChain` |
| `WorkerAppends` | `Spec => AppendOnly` |
| `SettledStaysSettled` | `Spec => NeverResurrected` |
| `CallsAreNotRepeated` | `Spec => []NoRepeatedCall` |

Three of them follow from the refinement and the theorems about the store. The
inductive invariant `WorkerInv` is `StoreInv` and, for every actor, `Frame`: the
types of its activation record, what its step alone says of the record
(`Control`; a `transitionCommit` has a target that the table allows from the loaded
status), and what it knows of the Run (`Knows`). The last part is needed for the
refinement. `_append_scoring_pass` compares with the Run it loaded first and reads
the previous pass afterwards, so the step is a `PassStep` only because that pass is
still current whenever the Run still has the loaded revision. The executor lock is
not part of it: Workers that share a Run after a lost lock are kept apart by the
store's compares. The second part of `WorkerSteps` has one lemma for each step of the
service (what it leaves in the record, `Moves`, and what it writes, `Writes`), and
`WorkerProofs` those of the execution and of recovery; a bystander keeps its frame
because revisions only grow (`FrameKept`). `NeverResurrected` is part of `Writes`.

`CallsAreNotRepeated` has a second invariant, `CallInv`. A Case is *spent* when it
has a row or an Attempt that may have reached the provider, and *ready* when it
has a prepared Attempt. An actor *holds* a Case between its dispatch and the end
of its call, or while the Case waits for its second chance. A spent Case never
becomes ready again, as `begin` refuses open Attempts and rows, and recovery fails
a dispatched Attempt of `safe_to_repeat` Runs only. A ready Case was never called
and nobody holds it; a dispatch makes the one actor its holder. So the count is 0
before the first call, and only the holder of a second chance calls again.

`CompletionProofs` goes on from there and proves, with the same generality:

| Theorem | States |
|---|---|
| `CompletedRunsAreComplete` | `Spec => []CompletedIsComplete` |

Its inductive invariant `CompletionInv` adds to `WorkerInv` and the property itself
what every execution has done of its Run. `Label` is the step an actor goes on with
once the cancellation check or the transition it is in lets it. `Progress` says, by
label: in the loop over the Cases, the Cases before the current one have a row or
wait for their second chance (`InLoop`); in the sweep of second chances, all others
have a row (`InSweep`); after it all have one (`InClosing`); and an execution that is
about to append a pass with "completed" read a row of every Case, none of which stops
the Run (`InPublishing`). `RowsInv` is about the tables only: a Case with a row has no
open Attempt, unless the row was skipped in a Run that another row stopped. So a Run
that completes has no open Attempt either. Rows only come, so what one actor knows
of them no other can undo (`RowsGrown`, `Bystander`), and no lock is needed. The rest
of the invariant is for `rescore`, which replaces the current pass: one that read the
rows when a Case had none belongs to a Run that is settled otherwise, and which
nobody is about to complete (`Unpublished`). Each step of the service, of the
execution and of recovery is one of four kinds by what it does to rows and Attempts
(`Calm`, `Completes`, `Skips`, `Appends`), and the proof of the tables goes by kind,
that of the actor's record by step. The invariant was explored by TLC with one
and two Cases, two Workers, lost locks and second chances before it was proved.

The first part of `JudgeWorkerProofs` is about `JudgeStore` alone, for any number of
jobs and calls beside any number of Runs and Cases:

| Theorem | States |
|---|---|
| `JobsTyped` | `JudgeStoreSpec => []JobTypeOK` |
| `JobsPublishOnce` | a job has a receipt exactly when it is completed, the receipt names a judge pass of its own, and every judge pass has its job |
| `OutcomesStay` | a completed, cancelled or indeterminate job keeps its status, ledger and receipt |

`PublishedOnce` is inductive together with the types (`JudgeInv`). A job that can
publish is not completed, so it has no receipt yet, and the new receipt lies
beyond the passes that other receipts name. Every other transaction on jobs is
`Harmless`: it changes no receipt and completes nothing. Other clients append only
passes that are not a judge's.

The second part proves of `JudgeWorker`, for any number of jobs, calls, Workers and rescoring
clients, any number of requests and crashes, and a lock that may be lost at any
time:

| Theorem | States |
|---|---|
| `CallsSentOnce` | `Spec => []NoResentCall` |
| `PublishedIsJudged` | `Spec => []CompletedIsJudged` |
| `OpenCallsAreDispatching` | `Spec => []OpenCallIsDispatching` |
| `JudgeWorkerImplementsStore` | `Spec => JudgeStoreSpec` |
| `WorkersPublishOnce` | `Spec => []PublishedOnce` |
| `WorkersKeepOutcomes` | `Spec => JobIsFinal` |

The last two follow from the refinement and the theorems about the store. The
inductive invariant `JudgeWorkerInv` does not mention the executor lock: two
Workers on one job are kept apart by the ledger and the revision compare alone.
`Shape` is what a job's status says of its ledger: a dispatching job has one call
that is open or comes next, those before it succeeded and those after it are not
yet in the ledger. `Copy` is that a record in a Worker's
hands is older than the job or still true, so a write that passes the revision
compare acts on the job the Worker saw. `Frame` is what a Worker knows by its step;
`SentInv` that what was sent is in the ledger and what succeeded was sent; and
`SenderInv` that no two Workers are about to send the same call, which holds
because `begin_call` refuses a call that is in the ledger. `ClientInv` is that the
previous pass a rescoring client read is the current one as long as the Run has the
revision it loaded: its `append` is then a `PassStep` of the store. Each
transaction is `Sound` (it keeps the ledgers and what Workers rely on), and a
`Bystander` keeps its frame while another Worker acts.

`ExperimentsProofs` proves, for any number of cells, contents, services,
operators, calls and faults:

| Theorem | States |
|---|---|
| `ExperimentsTyped` | `Spec => []ExpTypeOK` |
| `NoSecondAllocation` | while the lock is not lost, a pending cell has no Run |
| `AllocationCompletes` | while the lock is not lost, a call that gets to its end leaves no cell undecided |
| `ExperimentsImplementLedger` | `Spec => Ledger!Spec`: every step is a step of `CellLedger` or a stutter, lost locks included |

The inductive invariant `ExpInv` adds three parts to the types. `FlowInv` is what
a call knows at each of its steps (a service about to complete a cell has seen
its Run created). `RetryInv` is that the retry Runs of a cell are numbered
without gaps, that only the last may not be listed yet, and that at most one
operator is about to list it. `LockInv` is what holds while the lock is not lost:
only its holder is in a call, the cells behind it are decided, and those ahead
are as it listed them, except for cancellations. The refinement needs the first
two only, which is why it survives a lost lock; the two properties of allocation
need the third.

`JobWorkerProofs` proves, for any number of Workers, clients, Runs, Cases,
requests and crashes:

| Theorem | States |
|---|---|
| `LaunchedOnce` | `Spec => []StartedOnce`: at most one external process is ever started for a Run |
| `EvidenceStays` | `Spec => EvidenceIsFinal`: an imported record and the runner's result of a Trial stay as they are |

The inductive invariant `JobInv` has two parts. `LaunchInv` is about the actors:
whoever executes holds the executor lock, a Worker about to prepare a launch has
seen that its Run has no Job, and no routine returns into the launch. `TableInv`
is about the tables: each Run has at most one entry in `jobs`, `process` and
`records`, and without a Job it has neither of the others. Neither part stands
alone: the launch adds an entry only because the Worker's knowledge is still true,
and it is still true because nobody else could have launched without the lock.
Every transaction but `begin_job` keeps the shape of the tables and the evidence
in them (`Kept`), so one lemma covers all of them. A crash frees the lock
together with the activation record that depended on it (`CrashInv`).

`MaintenanceProofs` proves, for any Workers, importers, operators and files, and
any number of events, commands and crashes:

| Theorem | States |
|---|---|
| `ReferencedFilesStay` | `Spec => []NoDanglingReference` |
| `EventsStay` | `Spec => []NoEventLost` |
| `TombstonesAreTrue` | `Spec => []DeletionsAreAudited` |
| `CompleteBackupsAreClosed` | `Spec => []BackupIsClosed` |

The assumptions are that the kinds of process are disjoint, that imports are
files, and that the bounds are numbers. The inductive invariant `MaintInv`
says what protects what. `LockInv`: a Worker that is up
and an operator past `acquire_operation_locks` hold the executor lock; so there is
at most one such operator, and no Worker beside it. `WriterInv`: records refer to
imports only, a writer's file is an import exactly when the writer is an importer,
and a file about to be referred to exists. `RefInv`: while a collection runs, what
is referenced and not an import is in the references that it collected, so the
file it is about to unlink is neither. The importers, which take no lock, are
harmless for that reason alone. `TraceInv`: for some b the receipts cover the
events 1 to b, the live ones are b+1 to `appended`, the newest among them, and the
archives that receipts name are whole. `KindInv` is what an operation knows by its
step (its archive is whole before it commits), `AuditInv` relates the step of a
collection to its tombstones and keeps each file in one entry of it, `CopyInv`
relates a backup to its snapshot: receipts and whole archives never go, so what
was closed when the snapshot was taken stays closed, and what was copied for a
reference with a hash is whole. `SharedInv` is that no two
operations share a token. The proof goes by frames: most steps leave the tables
alone (`QuietFrame`) or add references only (`NewReferences`), and one operator's
step does not disturb another's part (`OwnStep`).

`SessionProofs` proves, for any commands, approvals, length of the queue and number
of crashes:

| Theorem | States |
|---|---|
| `SessionTyped` | `Spec => []SessionTypeOK` |
| `CommandsWrittenOnce` | `Spec => []WrittenOnce` |
| `AuditIsTrue` | `Spec => []StatusIsTrue` |
| `NothingLeftOpen` | `Spec => []NoneLeftOpen` |
| `OutcomesKnown` | `Spec => []OutcomeKnown` |

The assumptions are that `NoOne` is no command and `NoApproval` no approval, that
`Kinds` are kinds of intervention, and that the queue has room for a frame. The
inductive invariant `SessionInv` contains the third and the fourth property, the
first half of the fifth (`TurnKnown`) and six parts they need. `CommandInv` places each command: claimed and not yet written (`cur`),
waiting for a reply (`pending`), or confirmed by a resolution (`resolutions`), each
with what the store and the wire then say; these places exclude one another, which
is why nothing is written twice. `ApprovalInv` does the same for requests: the
transport's `answered` precedes the only answer, and the command in `sent` is the
one that was written. `FrameInv` is that a frame on its way tells of something that
happened; `StatusIsTrue` needs it when `_event` acknowledges a decision. `TodoInv`
is what a list of commands, taken at one step and gone through in later ones, is
still worth: the commands listed by `_commands` are still queued, the ones listed
for settlement are exactly the open ones, and whoever settles waits for none.
`FlowInv` relates the executor's step to the stored state of the session; with it
the list for settlement cannot grow, as a session that is not active takes no
command. `TurnInv` is what the executor knows of the turn when it stops looping,
and gives `TurnKnown`. A second invariant, `ProcessInv`, follows the server's process:
none runs before the session is prepared, it is gone when `Finish` is reached, and
an execution that does not ask for a quarantine ends with none running; it gives the
other half of `OutcomeKnown`. A crash empties the executor's memory and leaves store
and wire as they are, so `CommandInv` and `ApprovalInv` hold of what recovery finds.

### Only model-checked

* `IndeterminateIsReviewed` and `OneLateCall` of `Worker`. The first is about the
  instances of its run: with second chances and several lost locks it does not hold
  in general. The second rests on one Worker executing a Run at a time: after a lost
  lock, two Workers may each have a call on its way when a cancellation comes.
* `RecoveredIsRetryable` of `Worker`, which is about Runs that are not repeated and
  Workers that do not lose the lock, and `SettledIsFinal`.
* `CompletedIsImported`, `ReplayAgrees`, `TrialsDisposed` and `SettledIsStopped` of
  `JobWorker`. They compare the job with its journal, its process and its import,
  across the crashes of each.
* Every liveness property: fairness is out of the prover's reach.

## What is not modelled

* Of the Run store: Attempts that belong to a Trial, trace events, the legacy blind
  `save`, and `mark_indeterminate`, which has no caller left in execution.
* Of external Jobs: the older adapter protocol without frozen bytes, results
  outside the frozen mapping of Cases, validation of quality data, read views.
* Of judge jobs: calibration jobs, jobs of old versions without roles, the totals
  of cost and tokens, `retry_parse`.
* Of experiments: compilation of the matrix, summaries, comparisons, baselines and
  gates, which are evaluation without shared state.
* Of sessions: the process supervisor itself, the file records of sessions, and
  the runtimes in exec mode, which take no commands.
* Of maintenance: restore, the rollback of imports, baselines and reports that
  protect events from retention, read windows, hashes and aliases of files, the
  PostgreSQL backup. The triggers of the barrier are installed by the first
  `begin_maintenance`; before it, a barrier raised by the API stops claims and
  nothing else (`guards`). A torn archive that a crash left in
  `put_trace_archive` is refused until another event changes the plan.
* Text scorers, statistics (floating point), importers and format conversions,
  schemas, sandbox and container I/O, the CLI and the web console.

## Plan

In the order of what they would add:

1. Agent and scenario runtimes: budgets, the invocation log's prepared,
   dispatching and settled records, fixtures.
2. What is left of judge jobs: calibration and its ledger.
3. Resources, publication and skills: drafts and insert-only versions.
4. Proofs: the properties of `JobWorker` that compare a job with its import.
