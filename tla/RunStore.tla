------------------------------ MODULE RunStore ------------------------------
(***************************************************************************)
(* The durable Run store (packages/storage/motte_storage): Runs with their *)
(* compare-and-set revision, the Attempts of every Case, the result row of *)
(* every Case and the append-only ScoringPasses.  Each action is one       *)
(* BEGIN IMMEDIATE transaction; its arguments are what the caller read     *)
(* earlier.  An action is enabled exactly when the transaction commits: a  *)
(* caller for whom it is disabled gets RunConflictError (or ValueError).   *)
(*                                                                         *)
(* Abstractions.  Runs are numbered in creation order.  An Attempt is      *)
(* known by its Run, its Case and its attempt_no, the index in             *)
(* attempts[r][c].  Its revision is left out: ATTEMPT_TRANSITIONS is       *)
(* acyclic, so comparing the status implies comparing the revision.  A     *)
(* result row is reduced to its kind.  Trial-scoped attempts, events and   *)
(* score payloads are not part of this module.                             *)
(***************************************************************************)
EXTENDS Integers, Sequences, FiniteSets

CONSTANTS NRuns,    \* number of Runs that can be created
          NCases    \* number of selected Cases of every Run

ASSUME NRunsAssumption == NRuns \in Nat \ {0}
ASSUME NCasesAssumption == NCases \in Nat \ {0}

Runs == 1..NRuns
Cases == 1..NCases

VARIABLES run,        \* run[r]: status, revision, cancellation request, current pass
          attempts,   \* attempts[r][c]: statuses of the Attempts, by attempt_no
          rows,       \* rows[r][c]: kind of the CaseRun row, "none" before there is one
          passes      \* passes[r]: the ScoringPasses, oldest first

store == <<run, attempts, rows, passes>>

-----------------------------------------------------------------------------
INTERRUPTED_STATES == {"preparing", "running", "collecting", "scoring"}
TERMINAL == {"completed", "failed", "cancelled", "unsupported", "profile_stale",
             "needs_review"}
RunStatus == {"absent", "queued"} \cup INTERRUPTED_STATES \cup TERMINAL

AttemptStatus == {"prepared", "dispatching", "succeeded", "failed", "indeterminate"}
OpenStatus == {"prepared", "dispatching", "indeterminate"}

(* "error": a recorded failure; "stop": one that carries stop_run;          *)
(* "skipped": outcome not_attempted.                                        *)
RowKind == {"none", "ok", "error", "stop", "skipped"}
PassSource == {"initial", "rescore", "terminal-unattempted", "terminal-import", "judge"}

ATTEMPT_TRANSITIONS ==
  [s \in AttemptStatus |->
     CASE s = "prepared" -> {"dispatching", "failed"}
       [] s = "dispatching" -> {"succeeded", "failed", "indeterminate"}
       [] OTHER -> {}]

Pass == [source : PassSource, scored : SUBSET Cases, previous : Nat]
RunRecord == [status : RunStatus, revision : Nat, cancellation : BOOLEAN, current : Nat]

-----------------------------------------------------------------------------
(* Reads *)
Created(r) == run[r].status # "absent"
Persisted(r) == {c \in Cases : rows[r][c] # "none"}
WithStatus(r, S) ==
  {c \in Cases : \E n \in DOMAIN attempts[r][c] : attempts[r][c][n] \in S}
list_open(r) == WithStatus(r, OpenStatus)
uncertain(r) == WithStatus(r, {"dispatching", "indeterminate"})

-----------------------------------------------------------------------------
(* The definitions marked Mutant are what a plausible slip in the code would *)
(* make of the definition after them.  No specification uses them: put in    *)
(* its place, each violates the property it is listed with.                  *)

(* Mutant: the compare of a compare-and-set is forgotten. *)
MatchesBlindly(r, revision, status) == Created(r)

(* The compare of every compare-and-set on a Run. *)
Matches(r, revision, status) ==
  /\ Created(r)
  /\ run[r].revision = revision
  /\ run[r].status = status

NextRun(r, status, cancellation, current) ==
  run' = [run EXCEPT ![r] = [status |-> status, revision |-> run[r].revision + 1,
                             cancellation |-> cancellation, current |-> current]]

Advance(r, c, n, status) ==
  attempts' = [attempts EXCEPT ![r][c] = [attempts[r][c] EXCEPT ![n] = status]]

-----------------------------------------------------------------------------
(* SQLiteRuns *)
create(r) ==
  /\ run[r].status = "absent"
  /\ run' = [run EXCEPT ![r] = [status |-> "queued", revision |-> 1,
                                cancellation |-> FALSE, current |-> 0]]
  /\ UNCHANGED <<attempts, rows, passes>>

(* runs.update as RunService.cancel uses it: persist a cancellation request. *)
update(r, revision, status) ==
  /\ Matches(r, revision, status)
  /\ NextRun(r, status, TRUE, run[r].current)
  /\ UNCHANGED <<attempts, rows, passes>>

transition(r, revision, status, to, cancellation) ==
  /\ Matches(r, revision, status)
  /\ NextRun(r, to, run[r].cancellation \/ cancellation, run[r].current)
  /\ UNCHANGED <<attempts, rows, passes>>

claim(r) ==
  /\ run[r].status = "queued"
  /\ NextRun(r, "preparing", run[r].cancellation, run[r].current)
  /\ UNCHANGED <<attempts, rows, passes>>

(* Mutant: recovery forgets the claimed Runs. *)
RequeueWithoutPreparing ==
  /\ run' = [r \in Runs |->
               IF run[r].status \in INTERRUPTED_STATES \ {"preparing"}
                 THEN [run[r] EXCEPT !.status = "queued", !.revision = run[r].revision + 1]
                 ELSE run[r]]
  /\ UNCHANGED <<attempts, rows, passes>>

requeue_interrupted ==
  /\ run' = [r \in Runs |->
               IF run[r].status \in INTERRUPTED_STATES
                 THEN [status |-> "queued", revision |-> run[r].revision + 1,
                       cancellation |-> run[r].cancellation, current |-> run[r].current]
                 ELSE run[r]]
  /\ UNCHANGED <<attempts, rows, passes>>

(* case_runs.upsert: the insert leaves a row alone that is already there.    *)
upsert(r, c, kind) ==
  /\ rows' = [rows EXCEPT ![r][c] = IF rows[r][c] = "none" THEN kind ELSE rows[r][c]]
  /\ UNCHANGED <<run, attempts, passes>>

-----------------------------------------------------------------------------
(* SQLiteAttempts *)
(* Mutant: begin does not look for an open Attempt. *)
BeginIgnoresOpen(r, c, n, revision, status) ==
  /\ Matches(r, revision, status)
  /\ rows[r][c] = "none"
  /\ n = Len(attempts[r][c]) + 1

can_begin(r, c, n, revision, status) ==
  /\ Matches(r, revision, status)
  /\ rows[r][c] = "none"
  /\ c \notin list_open(r)
  /\ n = Len(attempts[r][c]) + 1

begin(r, c, n, revision, status) ==
  /\ can_begin(r, c, n, revision, status)
  /\ attempts' = [attempts EXCEPT ![r][c] = Append(attempts[r][c], "prepared")]
  /\ UNCHANGED <<run, rows, passes>>

(* A Run with a cancellation request is no longer dispatchable. *)
can_dispatch(r, c, n, revision, status) ==
  /\ Matches(r, revision, status)
  /\ ~run[r].cancellation
  /\ n \in DOMAIN attempts[r][c]
  /\ attempts[r][c][n] = "prepared"

dispatch(r, c, n, revision, status) ==
  /\ can_dispatch(r, c, n, revision, status)
  /\ Advance(r, c, n, "dispatching")
  /\ UNCHANGED <<run, rows, passes>>

(* attempts.transition, from the status the caller saw. *)
attempt_transition(r, c, n, from, to) ==
  /\ n \in DOMAIN attempts[r][c]
  /\ attempts[r][c][n] = from
  /\ to \in ATTEMPT_TRANSITIONS[from]
  /\ Advance(r, c, n, to)
  /\ UNCHANGED <<run, rows, passes>>

(* Mutant: a late answer settles a quarantined Attempt. *)
CompletesUncertain(r, c, n) ==
  /\ n \in DOMAIN attempts[r][c]
  /\ attempts[r][c][n] \in {"dispatching", "indeterminate"}
  /\ rows[r][c] = "none"

(* A different row already persisted for the Case refuses the completion;    *)
(* two results are never equal, as they carry what the call returned.        *)
can_complete(r, c, n) ==
  /\ n \in DOMAIN attempts[r][c]
  /\ attempts[r][c][n] = "dispatching"
  /\ rows[r][c] = "none"

complete(r, c, n, to, kind) ==
  /\ can_complete(r, c, n)
  /\ to \in {"succeeded", "failed"}
  /\ Advance(r, c, n, to)
  /\ rows' = [rows EXCEPT ![r][c] = kind]
  /\ UNCHANGED <<run, passes>>

(* Mutants: the Run gets the Attempt's status; a settled Run keeps its own. *)
QuarantineMixesStatus(r, revision, status) ==
  /\ Matches(r, revision, status)
  /\ IF uncertain(r) = {} THEN run' = run
     ELSE NextRun(r, "indeterminate", run[r].cancellation, run[r].current)
  /\ UNCHANGED <<attempts, rows, passes>>

QuarantineSparesSettled(r, revision, status) ==
  /\ Matches(r, revision, status)
  /\ attempts' = [attempts EXCEPT ![r] = [c \in Cases |->
                    [n \in DOMAIN attempts[r][c] |->
                       IF attempts[r][c][n] = "dispatching"
                         THEN "indeterminate" ELSE attempts[r][c][n]]]]
  /\ IF uncertain(r) = {} \/ status \in TERMINAL THEN run' = run
     ELSE NextRun(r, "needs_review", run[r].cancellation, run[r].current)
  /\ UNCHANGED <<rows, passes>>

quarantine_indeterminate(r, revision, status) ==
  /\ Matches(r, revision, status)
  /\ attempts' = [attempts EXCEPT ![r] = [c \in Cases |->
                    [n \in DOMAIN attempts[r][c] |->
                       IF attempts[r][c][n] = "dispatching"
                         THEN "indeterminate" ELSE attempts[r][c][n]]]]
  /\ IF uncertain(r) = {} THEN run' = run
     ELSE NextRun(r, "needs_review", run[r].cancellation, run[r].current)
  /\ UNCHANGED <<rows, passes>>

-----------------------------------------------------------------------------
(* Mutant: the synthetic rows are written over whatever is there. *)
AppendsOverRows(r, revision, status, source, synthetic) ==
  /\ Matches(r, revision, status)
  /\ source = "terminal-unattempted" => list_open(r) = {}

(* SQLiteScoringPasses.append: the pass, the synthetic not_attempted rows    *)
(* and the Run's next status in one transaction.                             *)
can_append(r, revision, status, source, synthetic) ==
  /\ Matches(r, revision, status)
  /\ source = "terminal-unattempted" => list_open(r) = {}
  /\ \A c \in synthetic : rows[r][c] = "none"

(* Mutant: the pass is stored but not made current. *)
AppendWithoutCurrent(r, revision, status, pass, synthetic, final, cancellation) ==
  /\ can_append(r, revision, status, pass.source, synthetic)
  /\ passes' = [passes EXCEPT ![r] = Append(passes[r], pass)]
  /\ NextRun(r, final, run[r].cancellation \/ cancellation, run[r].current)
  /\ UNCHANGED <<attempts, rows>>

append(r, revision, status, pass, synthetic, final, cancellation) ==
  /\ can_append(r, revision, status, pass.source, synthetic)
  /\ rows' = [rows EXCEPT ![r] = [c \in Cases |->
                IF c \in synthetic THEN "skipped" ELSE rows[r][c]]]
  /\ passes' = [passes EXCEPT ![r] = Append(passes[r], pass)]
  /\ NextRun(r, final, run[r].cancellation \/ cancellation, Len(passes[r]) + 1)
  /\ UNCHANGED attempts

-----------------------------------------------------------------------------
StoreInit ==
  /\ run = [r \in Runs |-> [status |-> "absent", revision |-> 0,
                            cancellation |-> FALSE, current |-> 0]]
  /\ attempts = [r \in Runs |-> [c \in Cases |-> <<>>]]
  /\ rows = [r \in Runs |-> [c \in Cases |-> "none"]]
  /\ passes = [r \in Runs |-> <<>>]

(* Any client, with arguments read at any time: only the arguments that     *)
(* match commit, so they are given as the values they are compared with.    *)
RunStep(r) ==
  \/ create(r)
  \/ claim(r)
  \/ update(r, run[r].revision, run[r].status)
  \/ \E to \in RunStatus \ {"absent"}, cancellation \in BOOLEAN :
       transition(r, run[r].revision, run[r].status, to, cancellation)
  \/ quarantine_indeterminate(r, run[r].revision, run[r].status)

CaseStep(r, c) ==
  \/ Created(r) /\ \E kind \in RowKind \ {"none"} : upsert(r, c, kind)
  \/ begin(r, c, Len(attempts[r][c]) + 1, run[r].revision, run[r].status)
  \/ \E n \in DOMAIN attempts[r][c] :
       \/ dispatch(r, c, n, run[r].revision, run[r].status)
       \/ \E to \in AttemptStatus \ {"succeeded"} :
            attempt_transition(r, c, n, attempts[r][c][n], to)
       \/ \E to \in {"succeeded", "failed"}, kind \in RowKind \ {"none"} :
            complete(r, c, n, to, kind)

(* previous is the current pass, read by the caller after the Run it         *)
(* compares against.  The passes of judge jobs are JudgeStore's.             *)
PassStep(r) ==
  \E source \in PassSource \ {"judge"}, scored, synthetic \in SUBSET Cases,
     final \in RunStatus \ {"absent"}, cancellation \in BOOLEAN :
       append(r, run[r].revision, run[r].status,
              [source |-> source, scored |-> scored, previous |-> run[r].current],
              synthetic, final, cancellation)

StoreNext ==
  \/ requeue_interrupted
  \/ \E r \in Runs : RunStep(r) \/ PassStep(r) \/ \E c \in Cases : CaseStep(r, c)

StoreSpec == StoreInit /\ [][StoreNext]_store

-----------------------------------------------------------------------------
(* The types of the four tables. *)
TypeOK ==
  /\ run \in [Runs -> RunRecord]
  /\ attempts \in [Runs -> [Cases -> Seq(AttemptStatus)]]
  /\ rows \in [Runs -> [Cases -> RowKind]]
  /\ passes \in [Runs -> Seq(Pass)]

(* Only the latest Attempt of a Case can be anything but a definite failure: *)
(* a Case never has two live, uncertain or successful Attempts, and an       *)
(* uncertain one is never followed by another (begin's open-attempt check    *)
(* with complete's atomic result row).                                       *)
OnlyLastAttemptCounts ==
  \A r \in Runs, c \in Cases : \A n \in 1..(Len(attempts[r][c]) - 1) :
    attempts[r][c][n] = "failed"

(* A succeeded Attempt and its result row commit together. *)
SucceededHasRow ==
  \A r \in Runs, c \in Cases : \A n \in DOMAIN attempts[r][c] :
    attempts[r][c][n] = "succeeded" => rows[r][c] # "none"

(* current_scoring_pass_id names the newest pass and every pass names the    *)
(* one it superseded.                                                        *)
PassChain ==
  \A r \in Runs :
    /\ run[r].current = Len(passes[r])
    /\ \A k \in DOMAIN passes[r] : passes[r][k].previous = k - 1

(* Nothing durable is rewritten: result rows and passes stay as they were    *)
(* first written, attempts are never removed and a closed one never reopens, *)
(* and every change of a Run shows in its revision.                          *)
NothingRewritten ==
  \A r \in Runs :
    /\ \A c \in Cases :
         /\ rows[r][c] # "none" => rows'[r][c] = rows[r][c]
         /\ \A n \in DOMAIN attempts[r][c] :
              /\ n \in DOMAIN attempts'[r][c]
              /\ \/ attempts'[r][c][n] = attempts[r][c][n]
                 \/ attempts'[r][c][n] \in ATTEMPT_TRANSITIONS[attempts[r][c][n]]
    /\ \A k \in DOMAIN passes[r] :
         k \in DOMAIN passes'[r] /\ passes'[r][k] = passes[r][k]
    /\ run'[r] # run[r] => run'[r].revision = run[r].revision + 1

AppendOnly == [][NothingRewritten]_store
=============================================================================
