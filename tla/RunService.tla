----------------------------- MODULE RunService -----------------------------
(***************************************************************************)
(* RunService (packages/sdk-python/motte_sdk/service.py) above RunStore:   *)
(* what cancel, _honor_cancellation, _transition, _finish_unattempted,     *)
(* _append_scoring_pass, _begin_case_attempt, _fail_or_quarantine, rescore *)
(* and retry do, one step per read that is used later and one step per     *)
(* store transaction, so that every interleaving of the actors between     *)
(* them is a behaviour.                                                    *)
(*                                                                         *)
(* An actor is a Worker process or an API client (a request thread of the  *)
(* API, or the CLI).  fr[a] is its activation record: the next step (pc),  *)
(* the locals the code reads later, where to continue (ret) and what an    *)
(* exception does (exc): "foq" enters _fail_or_quarantine, "late" goes on  *)
(* with a Run that was settled meanwhile, "leave" is reported only, "die"  *)
(* leaves the call, which ends a Worker process (__main__ catches nothing  *)
(* else) and gives an API client an error answer.                          *)
(***************************************************************************)
EXTENDS RunStore, FiniteSetsExt

CONSTANTS Workers,         \* Worker processes
          Clients,         \* API request threads
          BenchmarkRuns,   \* Runs whose manifest has benchmark_provenance
          ScenarioRuns,    \* Runs for which _scenario_shaped holds
          JobRuns,         \* Runs whose backend has the execution mode "job"
          TrialRuns,       \* Runs for which _trial_shaped holds
          SafeRuns,        \* Runs whose backend is safe_to_repeat
          SecondChanceRuns,   \* benchmark Runs whose backend is not builtin-agent
          NoActor          \* nobody holds the executor lock

ASSUME ActorsAssumption ==
  /\ Workers \cap Clients = {}
  /\ NoActor \notin Workers \cup Clients
  /\ BenchmarkRuns \subseteq Runs
  /\ ScenarioRuns \subseteq Runs
  /\ JobRuns \subseteq Runs
  /\ TrialRuns \subseteq JobRuns
  /\ SafeRuns \subseteq Runs
  /\ SecondChanceRuns \subseteq BenchmarkRuns

Actors == Workers \cup Clients

VARIABLES fr,      \* activation record of every actor
          lock     \* holder of the executor lock (execution_lock.py)

-----------------------------------------------------------------------------
(* Mutant: every status can be cancelled. *)
TransitionsAlwaysCancel ==
  [s \in RunStatus |->
     CASE s = "queued" -> {"preparing", "cancelled", "unsupported", "profile_stale"}
       [] s = "preparing" -> {"running", "failed", "cancelled", "unsupported"}
       [] s = "running" -> {"collecting", "failed", "cancelled", "running", "needs_review"}
       [] s = "collecting" -> {"scoring", "failed", "cancelled", "running", "needs_review"}
       [] s = "scoring" -> {"completed", "failed", "cancelled", "running", "needs_review"}
       [] OTHER -> {"cancelled"}]

TRANSITIONS ==
  [s \in RunStatus |->
     CASE s = "queued" -> {"preparing", "cancelled", "unsupported", "profile_stale"}
       [] s = "preparing" -> {"running", "failed", "cancelled", "unsupported"}
       [] s = "running" -> {"collecting", "failed", "cancelled", "running", "needs_review"}
       [] s = "collecting" -> {"scoring", "failed", "cancelled", "running", "needs_review"}
       [] s = "scoring" -> {"completed", "failed", "cancelled", "running", "needs_review"}
       [] OTHER -> {}]

RETRYABLE == {"failed", "cancelled", "unsupported", "profile_stale", "needs_review"}

NoRun == [status |-> "absent", revision |-> 0, cancellation |-> FALSE, current |-> 0]

Blank(pc) ==
  [pc |-> pc, r |-> 0, c |-> 1,
   att |-> [c \in Cases |-> 0],     \* attempt_no of the Attempts begun by this activation
   snap |-> NoRun,                  \* the Run as last loaded
   done |-> {},                     \* Cases whose rows were read
   synth |-> {},                    \* synthetic not_attempted rows to write
   pend |-> {},                     \* Cases waiting for their second chance
   stop |-> FALSE,
   to |-> "none", flag |-> FALSE,   \* target status; is a cancellation stored with it
   src |-> "none", prev |-> 0,      \* source and previous pass of the pass to append
   ret |-> "none", exc |-> "die",
   list |-> <<>>, seen |-> {}]      \* recovery: the listed Runs, the listed Attempts

Bench(a) == fr[a].r \in BenchmarkRuns
Run(a) == run[fr[a].r]

-----------------------------------------------------------------------------
(* Control flow.  Each of these gives fr' and lock'. *)
Step(a, f) == fr' = [fr EXCEPT ![a] = f] /\ UNCHANGED lock

Release(a) == lock' = IF lock = a THEN NoActor ELSE lock

Die(a) ==
  /\ fr' = [fr EXCEPT ![a] = Blank(IF a \in Workers THEN "down" ELSE "idle")]
  /\ Release(a)

(* Leaving the executor lock fails, and ends the Worker, when its            *)
(* connection is gone (WorkerExecutionLock.__exit__).                        *)
Leave(a) ==
  IF a \in Workers /\ lock # a THEN Die(a)
  ELSE fr' = [fr EXCEPT ![a] = Blank("idle")] /\ Release(a)

Raise(a) ==
  CASE fr[a].exc = "foq" ->
         Step(a, [fr[a] EXCEPT !.pc = "foq", !.exc = "die", !.snap = NoRun])
    [] fr[a].exc = "late" ->
         Step(a, [fr[a] EXCEPT !.pc = "jobLate", !.exc = "die", !.snap = NoRun])
    [] fr[a].exc = "leave" -> Leave(a)
    [] OTHER -> Die(a)

(* A ValueError.  execute_claimed has a handler for it around the execution  *)
(* of a job, not around that of samples; "late" handles conflicts only.      *)
Reject(a) ==
  IF a \in Workers /\ fr[a].r \in JobRuns /\ fr[a].exc \in {"late", "die"}
    THEN Step(a, [fr[a] EXCEPT !.pc = "unsupported", !.exc = "die", !.snap = NoRun])
    ELSE Raise(a)

Honor(f, ret, exc) == [f EXCEPT !.pc = "honor", !.ret = ret, !.exc = exc]

Transition(f, to, ret) == [f EXCEPT !.pc = "transition", !.to = to, !.ret = ret]

(* _cancel_checkpoint skips its own load when nothing is pending; a plain    *)
(* execution has nothing pending.                                            *)
Checkpoint(f, ret, exc) ==
  [Honor(f, ret, exc) EXCEPT !.pc = IF f.pend = {} THEN "honor" ELSE "checkpoint"]

(* The tail of an execution: collecting, scoring and the checks between. *)
Enter(f, label) ==
  CASE label = "collected" -> Honor(f, "toScoring", "die")
    [] label = "toScoring" -> Transition(f, "scoring", "scored")
    [] label = "scored" -> Honor(f, "score", "die")
    [] label = "jobScoring" -> Transition(f, "scoring", "trials")
    [] OTHER -> [f EXCEPT !.pc = label, !.ret = "none"]

Return(a) ==
  IF fr[a].ret = "leave" THEN Leave(a)
  ELSE Step(a, Enter([fr[a] EXCEPT !.snap = NoRun], fr[a].ret))

-----------------------------------------------------------------------------
(* _transition: a load of its own, the table, the compare-and-set. *)
TransitionLoad(a) ==
  /\ fr[a].pc = "transition"
  /\ IF fr[a].to \in TRANSITIONS[Run(a).status]
       THEN Step(a, [fr[a] EXCEPT !.pc = "transitionCommit", !.snap = Run(a)])
       ELSE Reject(a)
  /\ UNCHANGED store

(* Mutant: the new status is saved over the Run as it was loaded. *)
TransitionSaves(a) ==
  /\ fr[a].pc = "transitionCommit"
  /\ run' = [run EXCEPT ![fr[a].r] = [fr[a].snap EXCEPT !.status = fr[a].to]]
  /\ Return(a)
  /\ UNCHANGED <<attempts, rows, passes>>

TransitionCommit(a) ==
  /\ fr[a].pc = "transitionCommit"
  /\ LET f == fr[a] IN
       IF Matches(f.r, f.snap.revision, f.snap.status)
         THEN /\ transition(f.r, f.snap.revision, f.snap.status, f.to, f.flag)
              /\ Return(a)
         ELSE Raise(a) /\ UNCHANGED store

-----------------------------------------------------------------------------
(* Mutant: only the request is looked at, not a status that is cancelled. *)
HonorOnlyRequests(a) ==
  /\ fr[a].pc = "honor"
  /\ IF Run(a).status \in TERMINAL \/ ~Run(a).cancellation THEN Return(a)
     ELSE Step(a, [fr[a] EXCEPT !.pc = "cancel", !.flag = FALSE])
  /\ UNCHANGED store

(* _honor_cancellation *)
HonorCancellation(a) ==
  /\ fr[a].pc = "honor"
  /\ IF Run(a).status \in TERMINAL \/ ~Run(a).cancellation
       THEN IF Run(a).status = "cancelled" THEN Leave(a) ELSE Return(a)
       ELSE Step(a, [fr[a] EXCEPT !.pc = "cancel", !.flag = FALSE])
  /\ UNCHANGED store

(* cancel(_settle = the actor is the executing Worker), without an external  *)
(* interrupter (job mode).                                                   *)
CancelLoad(a) ==
  /\ fr[a].pc = "cancel"
  /\ IF Run(a).status \in TERMINAL THEN Leave(a)
     ELSE Step(a, [fr[a] EXCEPT !.pc = "cancelOpen", !.snap = Run(a)])
  /\ UNCHANGED store

CancelOpen(a) ==
  /\ fr[a].pc = "cancelOpen"
  /\ LET f == fr[a]
         deferrable == \/ list_open(f.r) # {}
                       \/ a \in Clients /\ f.snap.status \in {"running", "collecting", "scoring"}
     IN Step(a, IF deferrable THEN [f EXCEPT !.pc = "cancelDefer"]
                ELSE IF Bench(a) THEN [f EXCEPT !.pc = "unattempted", !.to = "cancelled"]
                ELSE Transition(f, "cancelled", "leave"))
  /\ UNCHANGED store

CancelDefer(a) ==
  /\ fr[a].pc = "cancelDefer"
  /\ LET f == fr[a] IN
       IF Matches(f.r, f.snap.revision, f.snap.status)
         THEN update(f.r, f.snap.revision, f.snap.status) /\ Leave(a)
         ELSE Raise(a) /\ UNCHANGED store

(* A claim won the no-open-attempts race. *)
CancelRace(a) ==
  /\ fr[a].pc = "cancelRace"
  /\ IF Run(a).status \in TERMINAL THEN Leave(a)
     ELSE Step(a, [fr[a] EXCEPT !.pc = "cancelDefer", !.snap = Run(a)])
  /\ UNCHANGED store

-----------------------------------------------------------------------------
(* _finish_unattempted reads the rows, then the open Attempts; then          *)
(* _append_scoring_pass loads the Run afresh.                                *)
UnattemptedRows(a) ==
  /\ fr[a].pc = "unattempted"
  /\ Step(a, [fr[a] EXCEPT !.pc = "unattemptedOpen", !.done = Persisted(fr[a].r)])
  /\ UNCHANGED store

UnattemptedOpen(a) ==
  /\ fr[a].pc = "unattemptedOpen"
  /\ LET f == fr[a]
         synthetic == Cases \ (f.done \cup list_open(f.r))
     IN Step(a, [f EXCEPT !.pc = "append", !.src = "terminal-unattempted",
                          !.synth = synthetic, !.done = f.done \cup synthetic])
  /\ UNCHANGED store

AppendLoad(a) ==
  /\ fr[a].pc = "append"
  /\ Step(a, [fr[a] EXCEPT !.pc = "appendPrevious", !.snap = Run(a)])
  /\ UNCHANGED store

AppendPrevious(a) ==
  /\ fr[a].pc = "appendPrevious"
  /\ Step(a, [fr[a] EXCEPT !.pc = "appendCommit", !.prev = Run(a).current])
  /\ UNCHANGED store

(* Validation or the benchmark aggregate raises.  For a terminal pass the    *)
(* code falls back to unjudged scores and starts over from the load, which   *)
(* is a behaviour of a slower AppendLoad.                                    *)
AppendRaises(a) ==
  /\ fr[a].pc = "appendPrevious"
  /\ fr[a].src # "terminal-unattempted"
  /\ Raise(a)
  /\ UNCHANGED store

AppendCommit(a) ==
  /\ fr[a].pc = "appendCommit"
  /\ LET f == fr[a]
         s == f.snap
         pass == [source |-> f.src, scored |-> f.done, previous |-> f.prev]
     IN IF can_append(f.r, s.revision, s.status, f.src, f.synth)
          THEN /\ append(f.r, s.revision, s.status, pass, f.synth,
                         IF f.to = "none" THEN s.status ELSE f.to, f.flag)
               /\ Leave(a)
          ELSE /\ IF f.to = "cancelled" /\ f.src = "terminal-unattempted"
                    THEN Step(a, [f EXCEPT !.pc = "cancelRace", !.snap = NoRun])
                    ELSE Raise(a)
               /\ UNCHANGED store

-----------------------------------------------------------------------------
(* _fail_or_quarantine and _fail *)
FailOrQuarantine(a) ==
  /\ fr[a].pc = "foq"
  /\ Step(a, [fr[a] EXCEPT !.pc = IF uncertain(fr[a].r) = {} THEN "fail" ELSE "quarantine"])
  /\ UNCHANGED store

Fail(a) ==
  /\ fr[a].pc = "fail"
  /\ IF Run(a).status \in TERMINAL THEN Leave(a)
     ELSE Step(a, IF fr[a].r \in TrialRuns
                    THEN [fr[a] EXCEPT !.pc = "unattempted", !.to = "failed"]
                    ELSE Transition(fr[a], "failed", "leave"))
  /\ UNCHANGED store

QuarantineLoad(a) ==
  /\ fr[a].pc = "quarantine"
  /\ Step(a, [fr[a] EXCEPT !.pc = "quarantineCommit", !.snap = Run(a)])
  /\ UNCHANGED store

QuarantineCommit(a) ==
  /\ fr[a].pc = "quarantineCommit"
  /\ LET f == fr[a] IN
       IF Matches(f.r, f.snap.revision, f.snap.status)
         THEN quarantine_indeterminate(f.r, f.snap.revision, f.snap.status) /\ Leave(a)
         ELSE Die(a) /\ UNCHANGED store

-----------------------------------------------------------------------------
(* mark_unsupported, reached when the execution backend cannot be built. *)
MarkUnsupported(a) ==
  /\ fr[a].pc = "unsupported"
  /\ IF Run(a).status \in TERMINAL THEN Leave(a)
     ELSE Step(a, IF Bench(a) THEN [fr[a] EXCEPT !.pc = "unattempted", !.to = "unsupported"]
                  ELSE Transition(fr[a], "unsupported", "leave"))
  /\ UNCHANGED store

(* mark_profile_stale *)
MarkProfileStale(a) ==
  /\ fr[a].pc = "stale"
  /\ CASE Run(a).status \in TERMINAL -> Leave(a)
       [] Run(a).status = "queued" ->
            Step(a, IF fr[a].r \in TrialRuns
                      THEN [fr[a] EXCEPT !.pc = "unattempted", !.to = "profile_stale"]
                      ELSE Transition(fr[a], "profile_stale", "leave"))
       [] OTHER -> Raise(a)
  /\ UNCHANGED store

(* rescore, then _append_scoring_pass without a final status. *)
Rescore(a) ==
  /\ fr[a].pc = "rescore"
  /\ IF Run(a).status = "completed" \/ (Bench(a) /\ Run(a).status \in TERMINAL)
       THEN Step(a, [fr[a] EXCEPT !.pc = "rescoreRows"])
       ELSE Raise(a)
  /\ UNCHANGED store

RescoreRows(a) ==
  /\ fr[a].pc = "rescoreRows"
  /\ Step(a, [fr[a] EXCEPT !.pc = "append", !.done = Persisted(fr[a].r), !.src = "rescore"])
  /\ UNCHANGED store

(* retry: the parent is loaded, then its open Attempts are listed and the    *)
(* child Run is created with a copy of its manifest (when NRuns, the bound   *)
(* on Runs, leaves one of the kind).                                         *)
SameKind(q, r) ==
  \A S \in {BenchmarkRuns, ScenarioRuns, JobRuns, TrialRuns, SafeRuns, SecondChanceRuns} :
    (q \in S) <=> (r \in S)

RetryLoad(a) ==
  /\ fr[a].pc = "retry"
  /\ IF Run(a).status \in RETRYABLE
       THEN Step(a, [fr[a] EXCEPT !.pc = "retryOpen", !.snap = Run(a)])
       ELSE Raise(a)
  /\ UNCHANGED store

RetryOpen(a) ==
  /\ fr[a].pc = "retryOpen"
  /\ LET f == fr[a]
         free == {r \in Runs : ~Created(r) /\ SameKind(f.r, r)}
     IN IF free = {} \/ (list_open(f.r) # {} /\ f.snap.status # "needs_review")
          THEN Raise(a) /\ UNCHANGED store
          ELSE create(Min(free)) /\ Leave(a)

-----------------------------------------------------------------------------
(* _begin_case_attempt: begin and dispatch compare with the Run loaded       *)
(* first.  On a conflict the caller re-checks for a cancellation and         *)
(* otherwise raises.                                                         *)
BeginLoad(a) ==
  /\ fr[a].pc = "beginLoad"
  /\ Step(a, [fr[a] EXCEPT !.pc = "beginPrevious", !.snap = Run(a)])
  /\ UNCHANGED store

BeginPrevious(a) ==
  /\ fr[a].pc = "beginPrevious"
  /\ LET f == fr[a] IN
       Step(a, [f EXCEPT !.pc = "begin", !.att[f.c] = Len(attempts[f.r][f.c]) + 1])
  /\ UNCHANGED store

BeginConflict(a) ==
  Step(a, [Checkpoint(fr[a], "beginRaise", IF Bench(a) THEN "die" ELSE "foq")
             EXCEPT !.snap = NoRun])

Begin(a) ==
  /\ fr[a].pc = "begin"
  /\ LET f == fr[a] IN
       IF can_begin(f.r, f.c, f.att[f.c], f.snap.revision, f.snap.status)
         THEN /\ begin(f.r, f.c, f.att[f.c], f.snap.revision, f.snap.status)
              /\ Step(a, [f EXCEPT !.pc = "dispatch"])
         ELSE BeginConflict(a) /\ UNCHANGED store

Dispatch(a) ==
  /\ fr[a].pc = "dispatch"
  /\ LET f == fr[a] IN
       IF can_dispatch(f.r, f.c, f.att[f.c], f.snap.revision, f.snap.status)
         THEN /\ dispatch(f.r, f.c, f.att[f.c], f.snap.revision, f.snap.status)
              /\ Step(a, [f EXCEPT !.pc = "invoke", !.snap = NoRun])
         ELSE Step(a, [f EXCEPT !.pc = "dispatchAbort"]) /\ UNCHANGED store

DispatchAbort(a) ==
  /\ fr[a].pc = "dispatchAbort"
  /\ LET f == fr[a] IN
       IF attempts[f.r][f.c][f.att[f.c]] = "prepared"
         THEN attempt_transition(f.r, f.c, f.att[f.c], "prepared", "failed")
         ELSE UNCHANGED store
  /\ BeginConflict(a)

BeginRaise(a) ==
  /\ fr[a].pc = "beginRaise"
  /\ Raise(a)
  /\ UNCHANGED store

-----------------------------------------------------------------------------
(* The steps shared by every caller. *)
ServiceStep(a) ==
  \/ TransitionLoad(a) \/ TransitionCommit(a)
  \/ HonorCancellation(a) \/ CancelLoad(a) \/ CancelOpen(a) \/ CancelDefer(a) \/ CancelRace(a)
  \/ UnattemptedRows(a) \/ UnattemptedOpen(a)
  \/ AppendLoad(a) \/ AppendPrevious(a) \/ AppendRaises(a) \/ AppendCommit(a)
  \/ FailOrQuarantine(a) \/ Fail(a) \/ QuarantineLoad(a) \/ QuarantineCommit(a)
  \/ MarkUnsupported(a) \/ MarkProfileStale(a)
  \/ Rescore(a) \/ RescoreRows(a) \/ RetryLoad(a) \/ RetryOpen(a)
  \/ BeginLoad(a) \/ BeginPrevious(a) \/ Begin(a) \/ Dispatch(a) \/ DispatchAbort(a)
  \/ BeginRaise(a)
=============================================================================
