-------------------------- MODULE CompletionProofs --------------------------
(***************************************************************************)
(* A Run that is completed is complete, for every number of Runs, Cases,   *)
(* Workers and clients, with crashes, lost locks, second chances,          *)
(* cancellations and rescoring in between.                                 *)
(*                                                                         *)
(* The argument follows an execution from its claim to its pass.  What it  *)
(* has done of the Run is a matter of its label, the step it goes on with, *)
(* and of the rows in the table; rows are never taken back, so what one    *)
(* actor knows of them no other actor can undo.                            *)
(***************************************************************************)
EXTENDS WorkerProofs

(* The step an execution goes on with once a cancellation check or a         *)
(* transition lets it.                                                       *)
Label(f) == IF f.pc \in HonorPc \cup TransitionPc THEN f.ret ELSE f.pc

Fresh == {"build", "execute", "toRunning", "rows"}
Looping == {"loop", "skip", "beginLoad", "beginPrevious", "begin", "dispatch", "dispatchAbort",
            "invoke", "calling"}
Sweeping == {"sweep", "second", "secondCalling"}
Closing == {"results", "collected", "toScoring", "scored", "score"}
Marked == Fresh \cup Looping \cup Sweeping \cup Closing \cup AppendPc
          \cup {"unattempted", "unattemptedOpen", "rescore", "rescoreRows"}

(* The rows of a Run in a table t of rows, and a row that stops the Run. *)
Rowed(t, r) == {c \in Cases : t[r][c] # "none"}
Stopped(t, r) == \E c \in Cases : t[r][c] = "stop"

(* The execution is about to append its pass. *)
Publishing(f) == f.src = "initial" /\ Label(f) \in AppendPc
Past(f) == Label(f) = "score" \/ Publishing(f)

Unattempting(f) ==
  \/ f.pc \in {"unattempted", "unattemptedOpen"}
  \/ f.pc \in AppendPc /\ f.src = "terminal-unattempted"

Rescoring(f) ==
  \/ f.pc \in {"rescore", "rescoreRows"}
  \/ f.pc \in AppendPc /\ f.src = "rescore"

(* A rescoring of a Run some of whose Cases had no row when it read them. *)
Partial(f) == f.pc \in AppendPc /\ f.src = "rescore" /\ f.done # Cases

InLoop(f, t) ==
  /\ f.stop => Stopped(t, f.r)
  /\ f.done \subseteq Rowed(t, f.r)
  /\ \A d \in Cases : d < f.c => d \in Rowed(t, f.r) \cup f.pend

InSweep(f, t) ==
  /\ f.r \in BenchmarkRuns
  /\ \A d \in Cases : d \in Rowed(t, f.r) \cup f.pend \/ (Label(f) = "secondCalling" /\ d = f.c)

InClosing(f, t) ==
  /\ Rowed(t, f.r) = Cases
  /\ f.r \in BenchmarkRuns \/ f.done = Cases \/ Label(f) = "results"

InPublishing(f, t) ==
  /\ Rowed(t, f.r) = Cases
  /\ f.done = Cases
  /\ f.to = "completed" => ~Stopped(t, f.r)

(* What an actor with record f has done of its Run, given the rows t. *)
Progress(f, t, runs) ==
  /\ Label(f) \in Fresh => f.c = 1
  /\ Label(f) = "skip" => f.stop
  /\ Label(f) \in Looping => InLoop(f, t)
  /\ Label(f) \in Sweeping => InSweep(f, t)
  /\ Label(f) \in Closing => InClosing(f, t)
  /\ Publishing(f) => InPublishing(f, t)
  /\ f.pc \in TransitionPc => f.to # "completed"
  /\ Unattempting(f) => f.to \in {"cancelled", "failed", "unsupported", "profile_stale"}
  /\ Rescoring(f) => f.to = "none" /\ f.synth = {}
  /\ f.pc = "rescoreRows" => runs[f.r].status \in TERMINAL

(* A Case with a result has no open Attempt; one that was skipped may have,  *)
(* but only in a Run that was stopped, which only benchmark Runs are.        *)
RowsInv ==
  /\ \A r \in Runs, c \in Cases : rows[r][c] \notin {"none", "skipped"} => c \notin list_open(r)
  /\ \A r \in Runs, c \in Cases : rows[r][c] = "skipped" /\ c \in list_open(r) => Stopped(rows, r)
  /\ \A r \in Runs : Stopped(rows, r) => r \in BenchmarkRuns

(* Nobody is going to complete the Run. *)
Unpublished(r) ==
  /\ run[r].status \in TERMINAL \ {"completed"}
  /\ \A b \in Actors : fr[b].r = r => ~Past(fr[b])

ProgressInv ==
  /\ \A a \in Actors : Progress(fr[a], rows, run)
  /\ \A a \in Actors : Partial(fr[a]) => Unpublished(fr[a].r)

(* The inductive invariant. *)
CompletionInv == WorkerInv /\ RowsInv /\ CompletedIsComplete /\ ProgressInv

-----------------------------------------------------------------------------
(* Rows that only come keep what an actor knows. *)
LEMMA RowsGrown ==
  ASSUME NEW t, NEW u, NEW r, \A c \in Cases : t[r][c] # "none" => u[r][c] = t[r][c]
  PROVE  /\ Rowed(t, r) \subseteq Rowed(u, r)
         /\ Stopped(t, r) => Stopped(u, r)
         /\ Rowed(t, r) = Cases => Rowed(u, r) = Cases /\ (Stopped(u, r) => Stopped(t, r))
<1>1. Rowed(t, r) \subseteq Rowed(u, r) /\ (Stopped(t, r) => Stopped(u, r))
  BY Zenon DEF Rowed, Stopped
<1>2. ASSUME Rowed(t, r) = Cases PROVE \A c \in Cases : u[r][c] = t[r][c] /\ t[r][c] # "none"
  BY <1>2, Zenon DEF Rowed
<1>3. ASSUME Rowed(t, r) = Cases PROVE Rowed(u, r) = Cases /\ (Stopped(u, r) => Stopped(t, r))
  BY <1>2, <1>3, Zenon DEF Rowed, Stopped
<1>. QED BY <1>1, <1>3, Zenon

(* A record whose label is of no part of an execution. *)
Unmarked(g) == Label(g) \notin Marked /\ (g.pc \in TransitionPc => g.to # "completed")

LEMMA UnmarkedProgress ==
  ASSUME NEW g, Unmarked(g), NEW t, NEW runs
  PROVE  Progress(g, t, runs) /\ ~Past(g) /\ ~Partial(g)
<1>1. /\ Label(g) \notin Fresh /\ Label(g) \notin Looping /\ Label(g) \notin Sweeping
      /\ Label(g) \notin Closing /\ Label(g) \notin AppendPc
      /\ Label(g) \notin {"unattempted", "unattemptedOpen", "rescore", "rescoreRows"}
  BY Zenon DEF Unmarked, Marked
<1>2. Label(g) # "skip" /\ Label(g) # "score"
  BY <1>1, Zenon DEF Looping, Closing
<1>3. g.pc \notin AppendPc /\ g.pc \notin {"unattempted", "unattemptedOpen", "rescore", "rescoreRows"}
  BY <1>1, Zenon DEF Label, AppendPc, HonorPc, TransitionPc
<1>. QED BY <1>1, <1>2, <1>3, Zenon
            DEF Unmarked, Progress, Past, Publishing, Partial, Unattempting, Rescoring

LEMMA ProgressKept ==
  ASSUME NEW f, NEW t, NEW u, NEW runs, NEW then, Progress(f, t, runs),
         Unmarked(f) \/ \A c \in Cases : t[f.r][c] # "none" => u[f.r][c] = t[f.r][c],
         f.pc = "rescoreRows" /\ runs[f.r].status \in TERMINAL => then[f.r].status \in TERMINAL
  PROVE  Progress(f, u, then)
<1>1. CASE Unmarked(f)
  BY <1>1, UnmarkedProgress, Zenon
<1>2. CASE \A c \in Cases : t[f.r][c] # "none" => u[f.r][c] = t[f.r][c]
  <2>1. /\ Rowed(t, f.r) \subseteq Rowed(u, f.r)
        /\ Stopped(t, f.r) => Stopped(u, f.r)
        /\ Rowed(t, f.r) = Cases => Rowed(u, f.r) = Cases /\ (Stopped(u, f.r) => Stopped(t, f.r))
    BY <1>2, RowsGrown, Zenon
  <2>2. InLoop(f, t) => InLoop(f, u)
    BY <2>1, Zenon DEF InLoop
  <2>3. InSweep(f, t) => InSweep(f, u)
    BY <2>1, Zenon DEF InSweep
  <2>4. (InClosing(f, t) => InClosing(f, u)) /\ (InPublishing(f, t) => InPublishing(f, u))
    BY <2>1, Zenon DEF InClosing, InPublishing
  <2>. QED BY <2>2, <2>3, <2>4, Zenon DEF Progress
<1>. QED BY <1>1, <1>2, Zenon

-----------------------------------------------------------------------------
(* Records at a label of an execution. *)
LEMMA FreshProgress ==
  ASSUME NEW g, Label(g) \in Fresh, g.c = 1, g.pc \in TransitionPc => g.to # "completed",
         NEW t, NEW runs
  PROVE  Progress(g, t, runs) /\ ~Past(g) /\ ~Partial(g)
<1>1. /\ Label(g) \notin Looping /\ Label(g) \notin Sweeping /\ Label(g) \notin Closing
      /\ Label(g) \notin AppendPc /\ Label(g) # "skip" /\ Label(g) # "score"
  BY Zenon DEF Fresh, Looping, Sweeping, Closing, AppendPc
<1>2. g.pc \notin AppendPc /\ g.pc \notin {"unattempted", "unattemptedOpen", "rescore", "rescoreRows"}
  BY Zenon DEF Label, Fresh, AppendPc, HonorPc, TransitionPc
<1>. QED BY <1>1, <1>2, Zenon DEF Progress, Past, Publishing, Partial, Unattempting, Rescoring

LEMMA LoopProgress ==
  ASSUME NEW g, Label(g) \in Looping, Label(g) = "skip" => g.stop, g.pc \notin TransitionPc,
         NEW t, InLoop(g, t), NEW runs
  PROVE  Progress(g, t, runs) /\ ~Past(g) /\ ~Partial(g)
<1>1. /\ Label(g) \notin Fresh /\ Label(g) \notin Sweeping /\ Label(g) \notin Closing
      /\ Label(g) \notin AppendPc /\ Label(g) # "score"
  BY Zenon DEF Fresh, Looping, Sweeping, Closing, AppendPc
<1>2. g.pc \notin AppendPc /\ g.pc \notin {"unattempted", "unattemptedOpen", "rescore", "rescoreRows"}
  BY Zenon DEF Label, Looping, AppendPc, HonorPc, TransitionPc
<1>. QED BY <1>1, <1>2, Zenon DEF Progress, Past, Publishing, Partial, Unattempting, Rescoring

LEMMA SweepProgress ==
  ASSUME NEW g, Label(g) \in Sweeping, g.pc \notin TransitionPc, NEW t, InSweep(g, t), NEW runs
  PROVE  Progress(g, t, runs) /\ ~Past(g) /\ ~Partial(g)
<1>1. /\ Label(g) \notin Fresh /\ Label(g) \notin Looping /\ Label(g) \notin Closing
      /\ Label(g) \notin AppendPc /\ Label(g) # "skip" /\ Label(g) # "score"
  BY Zenon DEF Fresh, Looping, Sweeping, Closing, AppendPc
<1>2. g.pc \notin AppendPc /\ g.pc \notin {"unattempted", "unattemptedOpen", "rescore", "rescoreRows"}
  BY Zenon DEF Label, Sweeping, AppendPc, HonorPc, TransitionPc
<1>. QED BY <1>1, <1>2, Zenon DEF Progress, Past, Publishing, Partial, Unattempting, Rescoring

LEMMA ClosingProgress ==
  ASSUME NEW g, Label(g) \in Closing, g.pc \in TransitionPc => g.to # "completed",
         NEW t, InClosing(g, t), NEW runs
  PROVE  Progress(g, t, runs) /\ (Past(g) => Label(g) = "score") /\ ~Partial(g)
<1>1. /\ Label(g) \notin Fresh /\ Label(g) \notin Looping /\ Label(g) \notin Sweeping
      /\ Label(g) \notin AppendPc /\ Label(g) # "skip"
  BY Zenon DEF Fresh, Looping, Sweeping, Closing, AppendPc
<1>2. g.pc \notin AppendPc /\ g.pc \notin {"unattempted", "unattemptedOpen", "rescore", "rescoreRows"}
  BY Zenon DEF Label, Closing, AppendPc, HonorPc, TransitionPc
<1>. QED BY <1>1, <1>2, Zenon DEF Progress, Past, Publishing, Partial, Unattempting, Rescoring

LEMMA PublishingProgress ==
  ASSUME NEW g, Publishing(g), g.pc \notin TransitionPc, NEW t, InPublishing(g, t), NEW runs
  PROVE  Progress(g, t, runs) /\ ~Partial(g)
<1>1. /\ Label(g) \notin Fresh /\ Label(g) \notin Looping /\ Label(g) \notin Sweeping
      /\ Label(g) \notin Closing /\ Label(g) # "skip"
  BY Zenon DEF Publishing, Fresh, Looping, Sweeping, Closing, AppendPc
<1>2. g.pc \notin {"unattempted", "unattemptedOpen", "rescore", "rescoreRows"}
  BY Zenon DEF Publishing, Label, AppendPc, HonorPc, TransitionPc
<1>. QED BY <1>1, <1>2, Zenon DEF Progress, Publishing, Partial, Unattempting, Rescoring

(* Records of a terminal pass and of a rescoring. *)
LEMMA UnattemptingProgress ==
  ASSUME NEW g, Unattempting(g), g.to \in {"cancelled", "failed", "unsupported", "profile_stale"}, NEW t, NEW runs
  PROVE  Progress(g, t, runs) /\ ~Past(g) /\ ~Partial(g)
<1>1. g.pc \in {"unattempted", "unattemptedOpen"} \cup AppendPc /\ Label(g) = g.pc
  BY Zenon DEF Unattempting, Label, AppendPc, HonorPc, TransitionPc
<1>2. /\ Label(g) \notin Fresh /\ Label(g) \notin Looping /\ Label(g) \notin Sweeping
      /\ Label(g) \notin Closing /\ Label(g) # "skip" /\ Label(g) # "score"
      /\ g.pc \notin TransitionPc /\ g.pc \notin {"rescore", "rescoreRows"}
  BY <1>1, Zenon DEF Fresh, Looping, Sweeping, Closing, AppendPc, TransitionPc
<1>3. g.pc \in AppendPc => g.src = "terminal-unattempted"
  BY Zenon DEF Unattempting, AppendPc
<1>. QED BY <1>1, <1>2, <1>3, Zenon DEF Progress, Past, Publishing, Partial, Rescoring

LEMMA RescoringProgress ==
  ASSUME NEW g, Rescoring(g), g.to = "none", g.synth = {}, NEW t, NEW runs,
         g.pc = "rescoreRows" => runs[g.r].status \in TERMINAL
  PROVE  Progress(g, t, runs) /\ ~Past(g)
<1>1. g.pc \in {"rescore", "rescoreRows"} \cup AppendPc /\ Label(g) = g.pc
  BY Zenon DEF Rescoring, Label, AppendPc, HonorPc, TransitionPc
<1>2. /\ Label(g) \notin Fresh /\ Label(g) \notin Looping /\ Label(g) \notin Sweeping
      /\ Label(g) \notin Closing /\ Label(g) # "skip" /\ Label(g) # "score"
      /\ g.pc \notin TransitionPc /\ g.pc \notin {"unattempted", "unattemptedOpen"}
  BY <1>1, Zenon DEF Fresh, Looping, Sweeping, Closing, AppendPc, TransitionPc
<1>3. g.pc \in AppendPc => g.src = "rescore"
  BY Zenon DEF Rescoring, AppendPc
<1>. QED BY <1>1, <1>2, <1>3, Zenon DEF Progress, Past, Publishing, Unattempting

-----------------------------------------------------------------------------
(* What a step does to the record of its actor: what the record says of the  *)
(* Run is right afterwards, the execution of a settled Run does not get past *)
(* its scoring, and a partial rescoring begins only on a Run that nobody is  *)
(* going to complete.                                                        *)
Carries(a) ==
  \E g : /\ fr' = [fr EXCEPT ![a] = g]
         /\ Progress(g, rows', run')
         /\ Past(g) => (Past(fr[a]) /\ g.r = fr[a].r) \/ run[g.r].status \notin TERMINAL
         /\ Partial(g) => (Partial(fr[a]) /\ g.r = fr[a].r) \/ Unpublished(g.r)

(* A write that neither adds a row nor completes a Run, and opens an Attempt *)
(* only where there is no row.                                               *)
Calm ==
  /\ UNCHANGED <<rows, passes>>
  /\ \A r \in Runs, c \in Cases : c \in list_open(r)' => c \in list_open(r) \/ rows[r][c] = "none"
  /\ \A r \in Runs : run'[r].status = "completed" =>
       run[r].status = "completed" /\ run'[r].current = run[r].current

(* The writes that add rows: the end of an Attempt with its result, a row    *)
(* skipped after a stop, and a pass.                                         *)
Completes(r) ==
  \E c \in Cases, kind \in {"ok", "error", "stop"} :
    /\ \E n, to : complete(r, c, n, to, kind)
    /\ kind = "stop" => r \in BenchmarkRuns

Skips(r) == Stopped(rows, r) /\ \E c \in Cases : upsert(r, c, "skipped")

Appends(a) ==
  LET f == fr[a]
      s == f.snap
  IN  /\ f.pc = "appendCommit"
      /\ append(f.r, s.revision, s.status, [source |-> f.src, scored |-> f.done, previous |-> f.prev],
                f.synth, IF f.to = "none" THEN s.status ELSE f.to, f.flag)

Adds(a) == Active(fr[a]) /\ (Completes(fr[a].r) \/ Skips(fr[a].r) \/ Appends(a))

Keeps(a) == Carries(a) /\ (Calm \/ Adds(a))

LEMMA UnchangedCalm == ASSUME UNCHANGED store PROVE Calm
<1>1. rows' = rows /\ passes' = passes /\ attempts' = attempts /\ run' = run
  BY Zenon DEF store
<1>. QED BY <1>1, Zenon DEF Calm, list_open, WithStatus

LEMMA RunCalm ==
  ASSUME UNCHANGED <<attempts, rows, passes>>,
         \A r \in Runs : run'[r].status = "completed" =>
           run[r].status = "completed" /\ run'[r].current = run[r].current
  PROVE  Calm
BY Zenon DEF Calm, list_open, WithStatus

(* A Run record is rewritten with a status that is not completed. *)
LEMMA NextRunCalm ==
  ASSUME TypeOK, UNCHANGED <<attempts, rows, passes>>, NEW r, NEW status, NEW cancellation,
         NextRun(r, status, cancellation, run[r].current),
         status = "completed" => run[r].status = "completed"
  PROVE  Calm
<1>1. \A q \in Runs : /\ run'[q].status = IF q = r THEN status ELSE run[q].status
                      /\ run'[q].current = run[q].current
  BY Zenon DEF NextRun, TypeOK
<1>. QED BY <1>1, RunCalm, Zenon

LEMMA AdvanceCalm ==
  ASSUME TypeOK, NEW r \in Runs, NEW c \in Cases, NEW n \in DOMAIN attempts[r][c],
         attempts[r][c][n] \in {"prepared", "dispatching"}, NEW to \in AttemptStatus,
         Advance(r, c, n, to), UNCHANGED <<run, rows, passes>>
  PROVE  Calm
<1>1. \A q \in Runs, d \in Cases :
        /\ DOMAIN attempts'[q][d] = DOMAIN attempts[q][d]
        /\ \A m \in DOMAIN attempts[q][d] :
             attempts'[q][d][m] = IF q = r /\ d = c /\ m = n THEN to ELSE attempts[q][d][m]
  BY AdvanceFacts
<1>2. ASSUME NEW q \in Runs, NEW d \in Cases, d \in list_open(q)' PROVE d \in list_open(q)
  <2>1. PICK m \in DOMAIN attempts'[q][d] : attempts'[q][d][m] \in OpenStatus
    BY <1>2, Zenon DEF list_open, WithStatus
  <2>2. m \in DOMAIN attempts[q][d] /\ attempts[q][d][m] \in OpenStatus
    BY <1>1, <2>1, Zenon DEF OpenStatus
  <2>. QED BY <2>2, Zenon DEF list_open, WithStatus
<1>. QED BY <1>2, Zenon DEF Calm

LEMMA BeginCalm ==
  ASSUME TypeOK, NEW r \in Runs, NEW c \in Cases, NEW n, NEW revision, NEW status,
         begin(r, c, n, revision, status)
  PROVE  Calm
<1>1. rows[r][c] = "none" /\ UNCHANGED <<run, rows, passes>>
  BY Zenon DEF begin, can_begin
<1>2. \A q \in Runs, d \in Cases : <<q, d>> # <<r, c>> => attempts'[q][d] = attempts[q][d]
  BY Zenon DEF begin, TypeOK
<1>3. ASSUME NEW q \in Runs, NEW d \in Cases, d \in list_open(q)'
      PROVE  d \in list_open(q) \/ rows[q][d] = "none"
  <2>1. CASE <<q, d>> = <<r, c>>
    BY <1>1, <2>1, Zenon
  <2>2. CASE <<q, d>> # <<r, c>>
    BY <1>2, <1>3, <2>2, Zenon DEF list_open, WithStatus
  <2>. QED BY <2>1, <2>2, Zenon
<1>. QED BY <1>1, <1>3, Zenon DEF Calm

LEMMA QuarantineCalm ==
  ASSUME TypeOK, NEW r \in Runs, NEW revision, NEW status,
         quarantine_indeterminate(r, revision, status)
  PROVE  Calm
<1>1. \A p \in Runs, c \in Cases :
        /\ DOMAIN attempts'[p][c] = DOMAIN attempts[p][c]
        /\ \A n \in DOMAIN attempts[p][c] :
             attempts'[p][c][n] = IF p = r /\ attempts[p][c][n] = "dispatching"
                                    THEN "indeterminate" ELSE attempts[p][c][n]
  BY Zenon DEF quarantine_indeterminate, TypeOK
<1>2. ASSUME NEW q \in Runs, NEW d \in Cases, d \in list_open(q)' PROVE d \in list_open(q)
  <2>1. PICK m \in DOMAIN attempts'[q][d] : attempts'[q][d][m] \in OpenStatus
    BY <1>2, Zenon DEF list_open, WithStatus
  <2>2. m \in DOMAIN attempts[q][d] /\ attempts[q][d][m] \in OpenStatus
    BY <1>1, <2>1, Zenon DEF OpenStatus
  <2>. QED BY <2>2, Zenon DEF list_open, WithStatus
<1>3. \A q \in Runs : run'[q].status = "completed" => run'[q] = run[q]
  <2>1. CASE run' = run
    BY <2>1, Zenon
  <2>2. CASE NextRun(r, "needs_review", run[r].cancellation, run[r].current)
    <3>1. \A q \in Runs : IF q = r THEN run'[q].status = "needs_review" ELSE run'[q] = run[q]
      BY <2>2, Zenon DEF NextRun, TypeOK
    <3>. QED BY <3>1, Zenon
  <2>. QED BY <2>1, <2>2, Zenon DEF quarantine_indeterminate
<1>. QED BY <1>2, <1>3, Zenon DEF Calm, quarantine_indeterminate

-----------------------------------------------------------------------------
(* Where an actor goes when it leaves its execution. *)
Aside == Resting \cup RecoverPc \cup
         {"foq", "unsupported", "cancel", "cancelOpen", "cancelDefer", "cancelRace", "fail",
          "quarantine", "quarantineCommit", "stale", "retry", "retryOpen", "beginRaise"}

LEMMA AsideUnmarked == ASSUME NEW g, g.pc \in Aside PROVE Unmarked(g)
<1>1. g.pc \notin HonorPc \cup TransitionPc
  BY Zenon DEF Aside, Resting, RecoverPc, HonorPc, TransitionPc
<1>2. g.pc \notin Marked
  BY Zenon DEF Aside, Resting, RecoverPc, Marked, Fresh, Looping, Sweeping, Closing, AppendPc
<1>. QED BY <1>1, <1>2, Zenon DEF Unmarked, Label

LEMMA OwnProgress ==
  ASSUME CompletionInv, NEW a \in Actors
  PROVE  /\ WorkerInv /\ RowsInv /\ CompletedIsComplete /\ TypeOK /\ DOMAIN fr = Actors
         /\ FrameType(fr[a]) /\ Going(fr[a])
         /\ fr[a].exc \in {"die", "foq"}
         /\ fr[a].pend # {} => fr[a].r \in BenchmarkRuns
         /\ Progress(fr[a], rows, run)
<1>1. /\ WorkerInv /\ RowsInv /\ CompletedIsComplete /\ TypeOK /\ DOMAIN fr = Actors
      /\ FrameType(fr[a]) /\ Control(fr[a]) /\ Progress(fr[a], rows, run)
  BY Zenon DEF CompletionInv, WorkerInv, StoreInv, ActorsInv, Frame, ProgressInv
<1>. QED BY <1>1, ActorsAssumption, Zenon DEF Control, FrameType

LEMMA UnmarkedCarries ==
  ASSUME NEW a, NEW g, fr' = [fr EXCEPT ![a] = g], Unmarked(g)
  PROVE  Carries(a)
BY UnmarkedProgress, Zenon DEF Carries

LEMMA RestCarries == ASSUME NEW a, Die(a) \/ Leave(a) PROVE Carries(a)
<1>1. PICK pc \in Resting : fr' = [fr EXCEPT ![a] = Blank(pc)]
  BY Zenon DEF Die, Leave, Resting
<1>2. Unmarked(Blank(pc))
  BY AsideUnmarked, BlankFields, Zenon DEF Aside
<1>. QED BY <1>1, <1>2, UnmarkedCarries, Zenon

LEMMA RaiseCarries ==
  ASSUME CompletionInv, NEW a \in Actors, Raise(a) \/ Reject(a)
  PROVE  Carries(a)
<1>1. FrameType(fr[a]) /\ fr[a].exc \in {"die", "foq"}
  BY OwnProgress, Zenon
<1>2. ASSUME NEW pc \in {"foq", "unsupported"},
             Step(a, [fr[a] EXCEPT !.pc = pc, !.exc = "die", !.snap = NoRun])
      PROVE  Carries(a)
  <2>. DEFINE g == [fr[a] EXCEPT !.pc = pc, !.exc = "die", !.snap = NoRun]
  <2>1. g.pc \in Aside /\ fr' = [fr EXCEPT ![a] = g]
    BY <1>1, <1>2, BlankFields, Zenon DEF FrameType, Aside, Step
  <2>. HIDE DEF g
  <2>. QED BY <2>1, AsideUnmarked, UnmarkedCarries, Zenon
<1>3. Raise(a) => Carries(a)
  BY <1>1, <1>2, RestCarries, Zenon DEF Raise
<1>. QED BY <1>2, <1>3, Zenon DEF Reject

LEMMA StepKeeps ==
  ASSUME NEW a, NEW g, Step(a, g), UNCHANGED store, Progress(g, rows, run),
         Past(g) => Past(fr[a]) /\ g.r = fr[a].r, Partial(g) => Partial(fr[a]) /\ g.r = fr[a].r
  PROVE  Keeps(a)
<1>1. rows' = rows /\ run' = run
  BY Zenon DEF store
<1>2. Progress(g, rows', run')
  BY <1>1, Zenon
<1>. QED BY <1>2, UnchangedCalm, Zenon DEF Keeps, Carries, Step

LEMMA AsideKeeps ==
  ASSUME NEW a, NEW g, Step(a, g), UNCHANGED store, Unmarked(g)
  PROVE  Keeps(a)
BY UnmarkedCarries, UnchangedCalm, Zenon DEF Keeps, Step

LEMMA LeaveKeeps ==
  ASSUME CompletionInv, NEW a \in Actors, Die(a) \/ Leave(a) \/ Raise(a) \/ Reject(a),
         UNCHANGED store
  PROVE  Keeps(a)
BY RestCarries, RaiseCarries, UnchangedCalm, Zenon DEF Keeps

(* The fields that say what was done. *)
Alike(f, g) ==
  /\ g.r = f.r /\ g.c = f.c /\ g.done = f.done /\ g.pend = f.pend /\ g.stop = f.stop
  /\ g.to = f.to /\ g.src = f.src /\ g.synth = f.synth

LEMMA SameLabel ==
  ASSUME NEW f, NEW g, NEW t, NEW runs, Progress(f, t, runs), Label(g) = Label(f), Alike(f, g),
         g.pc \in TransitionPc => f.pc \in TransitionPc, g.pc \in AppendPc => g.src = "initial",
         g.pc \notin {"unattempted", "unattemptedOpen", "rescore", "rescoreRows"}
  PROVE  Progress(g, t, runs) /\ (Past(g) => Past(f)) /\ ~Partial(g)
<1>1. ~Unattempting(g) /\ ~Rescoring(g) /\ ~Partial(g) /\ g.pc # "rescoreRows"
  BY Zenon DEF Unattempting, Rescoring, Partial
<1>2. (Publishing(g) <=> Publishing(f)) /\ (Past(g) <=> Past(f))
  BY Zenon DEF Publishing, Past, Alike
<1>3. /\ InLoop(f, t) => InLoop(g, t)
      /\ InSweep(f, t) => InSweep(g, t)
      /\ InClosing(f, t) => InClosing(g, t)
      /\ InPublishing(f, t) => InPublishing(g, t)
  BY Zenon DEF InLoop, InSweep, InClosing, InPublishing, Alike
<1>. QED BY <1>1, <1>2, <1>3, Zenon DEF Progress, Alike

(* The record after a cancellation check or a transition. *)
LEMMA EnterProgress ==
  ASSUME NEW f, FrameType(f), Going(f), Progress(f, rows, run), f.pc \in HonorPc \cup TransitionPc,
         f.ret # "leave"
  PROVE  LET g == Enter([f EXCEPT !.snap = NoRun], f.ret)
         IN  /\ Progress(g, rows, run) /\ g.r = f.r /\ ~Partial(g) /\ g.pc # "rescoreRows"
             /\ Past(g) => Past(f) \/ f.ret = "scored"
<1>. DEFINE h == [f EXCEPT !.snap = NoRun]
            g == Enter(h, f.ret)
<1>1. FrameType(h) /\ Alike(f, h)
  BY NoRunType, BlankFields, Zenon DEF FrameType, Alike
<1>2. Label(f) = f.ret /\ f.ret \in HonorRet \cup {"toRunning", "rows", "collected", "scored"}
  BY Zenon DEF Label, Going
<1>. HIDE DEF h
<1>3. CASE f.ret \in {"collected", "scored"}
  <2>1. PICK ret \in {"toScoring", "score"} :
          g = Honor(h, ret, "die") /\ (ret = "score" => f.ret = "scored")
    BY <1>3, Zenon DEF Enter
  <2>2. g.pc = "honor" /\ g.ret = ret /\ Alike(f, g)
    BY <1>1, <2>1, BlankFields, Zenon DEF Honor, FrameType, Alike
  <2>. HIDE DEF g
  <2>3. Label(g) = ret /\ g.pc \notin TransitionPc /\ g.pc # "rescoreRows"
    BY <2>2, Zenon DEF Label, HonorPc, TransitionPc
  <2>4. InClosing(f, rows) /\ Label(f) # "results"
    BY <1>2, <1>3, Zenon DEF Progress, Closing
  <2>5. InClosing(g, rows) /\ Label(g) \in Closing
    BY <2>2, <2>3, <2>4, Zenon DEF InClosing, Alike, Closing
  <2>6. Progress(g, rows, run) /\ (Past(g) => Label(g) = "score") /\ ~Partial(g)
    BY <2>3, <2>5, ClosingProgress, Zenon
  <2>. QED BY <2>1, <2>2, <2>3, <2>6, Zenon DEF g, h, Alike
<1>4. CASE f.ret = "toScoring"
  <2>1. g = Transition(h, "scoring", "scored")
    BY <1>4, Zenon DEF Enter
  <2>2. g.pc = "transition" /\ g.ret = "scored" /\ g.to = "scoring" /\ g.r = f.r /\ g.done = f.done
    BY <1>1, <2>1, BlankFields, Zenon DEF Transition, FrameType, Alike
  <2>. HIDE DEF g
  <2>3. Label(g) = "scored" /\ g.pc # "rescoreRows" /\ g.to # "completed"
    BY <2>2, Zenon DEF Label, TransitionPc
  <2>4. InClosing(f, rows) /\ Label(f) # "results"
    BY <1>2, <1>4, Zenon DEF Progress, Closing
  <2>5. InClosing(g, rows) /\ Label(g) \in Closing
    BY <2>2, <2>3, <2>4, Zenon DEF InClosing, Closing
  <2>6. Progress(g, rows, run) /\ (Past(g) => Label(g) = "score") /\ ~Partial(g)
    BY <2>3, <2>5, ClosingProgress, Zenon
  <2>. QED BY <2>2, <2>3, <2>6, Zenon DEF g, h
<1>5. CASE f.ret \in {"toRunning", "rows", "skip", "beginLoad", "second", "sweep", "results",
                       "beginRaise", "score", "append"}
  <2>1. g = [h EXCEPT !.pc = f.ret, !.ret = "none"]
    BY <1>5, Zenon DEF Enter
  <2>2. g.pc = f.ret /\ Alike(f, g)
    BY <1>1, <2>1, BlankFields, Zenon DEF FrameType, Alike
  <2>. HIDE DEF g
  <2>3. /\ Label(g) = Label(f) /\ g.pc \notin TransitionPc
        /\ g.pc \notin {"unattempted", "unattemptedOpen", "rescore", "rescoreRows"}
    BY <1>2, <1>5, <2>2, Zenon DEF Label, HonorPc, TransitionPc
  <2>4. g.pc \in AppendPc => g.src = "initial"
    BY <1>5, <2>2, Zenon DEF Going, AppendPc, Alike
  <2>5. Progress(g, rows, run) /\ (Past(g) => Past(f)) /\ ~Partial(g)
    BY <2>2, <2>3, <2>4, SameLabel, Zenon
  <2>. QED BY <2>2, <2>3, <2>5, Zenon DEF g, h, Alike
<1>. QED BY <1>2, <1>3, <1>4, <1>5, Zenon DEF HonorRet

(* A transition that ends the call. *)
LEMMA LeavingUnmarked ==
  ASSUME NEW f, FrameType(f), NEW to, to # "completed"
  PROVE  Unmarked(Transition(f, to, "leave"))
<1>. DEFINE g == Transition(f, to, "leave")
<1>1. g.pc = "transition" /\ g.ret = "leave" /\ g.to = to
  BY BlankFields, Zenon DEF FrameType, Transition
<1>. HIDE DEF g
<1>2. Label(g) = "leave"
  BY <1>1, Zenon DEF Label, TransitionPc
<1>3. "leave" \notin Marked
  BY Zenon DEF Marked, Fresh, Looping, Sweeping, Closing, AppendPc
<1>4. Unmarked(g)
  BY <1>1, <1>2, <1>3, Zenon DEF Unmarked
<1>. QED BY <1>4, Zenon DEF g

LEMMA LeavingKeeps ==
  ASSUME CompletionInv, NEW a \in Actors, UNCHANGED store, NEW to, to # "completed",
         Step(a, Transition(fr[a], to, "leave"))
  PROVE  Keeps(a)
BY OwnProgress, LeavingUnmarked, AsideKeeps, Zenon

LEMMA UnattemptedKeeps ==
  ASSUME CompletionInv, NEW a \in Actors, UNCHANGED store,
         NEW to \in {"cancelled", "failed", "unsupported", "profile_stale"},
         Step(a, [fr[a] EXCEPT !.pc = "unattempted", !.to = to])
  PROVE  Keeps(a)
<1>. DEFINE g == [fr[a] EXCEPT !.pc = "unattempted", !.to = to]
<1>1. g.pc = "unattempted" /\ g.to = to /\ Step(a, g)
  BY OwnProgress, BlankFields, Zenon DEF FrameType
<1>. HIDE DEF g
<1>2. Progress(g, rows, run) /\ ~Past(g) /\ ~Partial(g)
  BY <1>1, UnattemptingProgress, Zenon DEF Unattempting
<1>. QED BY <1>1, <1>2, StepKeeps, Zenon

LEMMA ConflictCarries ==
  ASSUME CompletionInv, NEW a \in Actors, BeginConflict(a)
  PROVE  Carries(a)
<1>1. PICK exc \in {"die", "foq"} :
        Step(a, [Checkpoint(fr[a], "beginRaise", exc) EXCEPT !.snap = NoRun])
  BY Zenon DEF BeginConflict
<1>. DEFINE h == Checkpoint(fr[a], "beginRaise", exc)
            g == [h EXCEPT !.snap = NoRun]
<1>2. FrameType(h) /\ h.pc \in HonorPc /\ h.ret = "beginRaise"
  BY OwnProgress, BlankFields, Zenon DEF FrameType, Checkpoint, Honor, HonorPc
<1>3. fr' = [fr EXCEPT ![a] = g]
  BY <1>1, Zenon DEF Step
<1>. HIDE DEF h
<1>4. g.pc \in HonorPc /\ g.ret = "beginRaise"
  BY <1>2, BlankFields, Zenon DEF FrameType
<1>. HIDE DEF g
<1>5. Unmarked(g)
  BY <1>4, Zenon DEF Unmarked, Label, HonorPc, TransitionPc, Marked, Fresh, Looping, Sweeping,
                     Closing, AppendPc
<1>. QED BY <1>3, <1>5, UnmarkedCarries, Zenon

LEMMA AsideStep ==
  ASSUME CompletionInv, NEW a \in Actors, UNCHANGED store, NEW pc \in Aside,
         \/ Step(a, [fr[a] EXCEPT !.pc = pc])
         \/ \E snap : Step(a, [fr[a] EXCEPT !.pc = pc, !.snap = snap])
  PROVE  Keeps(a)
<1>1. CASE Step(a, [fr[a] EXCEPT !.pc = pc])
  <2>. DEFINE g == [fr[a] EXCEPT !.pc = pc]
  <2>1. g.pc \in Aside /\ Step(a, g)
    BY <1>1, OwnProgress, BlankFields, Zenon DEF FrameType
  <2>. HIDE DEF g
  <2>. QED BY <2>1, AsideUnmarked, AsideKeeps, Zenon
<1>2. ASSUME NEW snap, Step(a, [fr[a] EXCEPT !.pc = pc, !.snap = snap]) PROVE Keeps(a)
  <2>. DEFINE g == [fr[a] EXCEPT !.pc = pc, !.snap = snap]
  <2>1. g.pc \in Aside /\ Step(a, g)
    BY <1>2, OwnProgress, BlankFields, Zenon DEF FrameType
  <2>. HIDE DEF g
  <2>. QED BY <2>1, AsideUnmarked, AsideKeeps, Zenon
<1>. QED BY <1>1, <1>2, Zenon

(* A step within the loop over the Cases. *)
LEMMA LoopCarries ==
  ASSUME CompletionInv, NEW a \in Actors, fr[a].pc \in Looping, UNCHANGED rows, NEW g,
         fr' = [fr EXCEPT ![a] = g], g.pc \in Looping \ {"skip"}, Alike(fr[a], g)
  PROVE  Carries(a)
<1>1. Label(fr[a]) = fr[a].pc /\ Label(g) = g.pc /\ g.pc \notin TransitionPc
  BY Zenon DEF Label, Looping, HonorPc, TransitionPc
<1>2. InLoop(fr[a], rows)
  BY <1>1, OwnProgress, Zenon DEF Progress
<1>3. InLoop(g, rows')
  BY <1>2, Zenon DEF InLoop, Alike
<1>4. Progress(g, rows', run') /\ ~Past(g) /\ ~Partial(g)
  BY <1>1, <1>3, LoopProgress, Zenon
<1>. QED BY <1>4, Zenon DEF Carries

-----------------------------------------------------------------------------
(* The steps of RunService. *)
LEMMA ServiceKeeps ==
  ASSUME CompletionInv, NEW a \in Actors, ServiceStep(a)
  PROVE  Keeps(a)
<1>. DEFINE f == fr[a]
<1>Own. /\ WorkerInv /\ TypeOK /\ FrameType(f) /\ Going(f) /\ Progress(f, rows, run)
        /\ f.flag \in BOOLEAN
  BY OwnProgress, Zenon DEF FrameType
<1>Run. ASSUME Active(f) PROVE f.r \in Runs
  BY <1>Own, <1>Run, Own, Zenon
<1>. HIDE DEF f

<1>TransitionLoad. ASSUME TransitionLoad(a) PROVE Keeps(a)
  <2>. USE <1>TransitionLoad
  <2>. DEFINE g == [f EXCEPT !.pc = "transitionCommit", !.snap = Run(a)]
  <2>1. f.pc = "transition" /\ UNCHANGED store /\ (Step(a, g) \/ Reject(a))
    BY Zenon DEF TransitionLoad, f
  <2>2. CASE Step(a, g)
    <3>1. g.pc = "transitionCommit" /\ g.ret = f.ret /\ Alike(f, g)
      BY <1>Own, BlankFields, Zenon DEF FrameType, Alike
    <3>. HIDE DEF g
    <3>2. Label(g) = Label(f) /\ f.pc \in TransitionPc
      BY <2>1, <3>1, Zenon DEF Label, TransitionPc
    <3>3. Progress(g, rows, run) /\ (Past(g) => Past(f)) /\ ~Partial(g)
      BY <1>Own, <3>1, <3>2, SameLabel, Zenon DEF AppendPc
    <3>. QED BY <2>1, <2>2, <3>1, <3>3, StepKeeps, Zenon DEF Alike, f
  <2>. QED BY <2>1, <2>2, LeaveKeeps, Zenon

<1>TransitionCommit. ASSUME TransitionCommit(a) PROVE Keeps(a)
  <2>. USE <1>TransitionCommit
  <2>1. f.pc = "transitionCommit" /\ f.pc \in TransitionPc /\ Active(f)
    BY Zenon DEF TransitionCommit, f, TransitionPc, Active, Resting, RecoverPc
  <2>2. CASE Raise(a) /\ UNCHANGED store
    BY <2>2, LeaveKeeps, Zenon
  <2>3. CASE transition(f.r, f.snap.revision, f.snap.status, f.to, f.flag) /\ Return(a)
    <3>1. f.to # "completed" /\ run[f.r].status = f.snap.status /\ f.to \in TRANSITIONS[f.snap.status]
      BY <1>Own, <2>1, <2>3, Zenon DEF Progress, Going, transition, Matches
    <3>2. run[f.r].status \in RunStatus
      BY <1>Own, <1>Run, <2>1, Zenon DEF TypeOK, RunRecord
    <3>3. run[f.r].status \notin TERMINAL
      BY <3>1, <3>2, Zenon DEF TRANSITIONS, TERMINAL, INTERRUPTED_STATES
    <3>4. Calm
      BY <1>Own, <2>3, <3>1, NextRunCalm, Zenon DEF transition
    <3>5. CASE f.ret = "leave"
      BY <2>3, <3>4, <3>5, RestCarries, Zenon DEF Return, Keeps, f
    <3>6. CASE f.ret # "leave"
      <4>. DEFINE g == Enter([f EXCEPT !.snap = NoRun], f.ret)
      <4>1. /\ Progress(g, rows, run) /\ g.r = f.r /\ ~Partial(g) /\ g.pc # "rescoreRows"
            /\ fr' = [fr EXCEPT ![a] = g]
        BY <1>Own, <2>1, <2>3, <3>6, EnterProgress, Zenon DEF Return, Step, f
      <4>. HIDE DEF g
      <4>2. rows' = rows
        BY <2>3, Zenon DEF transition
      <4>3. Progress(g, rows', run')
        BY <4>1, <4>2, ProgressKept, Zenon
      <4>. QED BY <3>3, <3>4, <4>1, <4>3, Zenon DEF Keeps, Carries
    <3>. QED BY <3>5, <3>6, Zenon
  <2>. QED BY <2>2, <2>3, Zenon DEF TransitionCommit, f

<1>HonorCancellation. ASSUME HonorCancellation(a) PROVE Keeps(a)
  <2>. USE <1>HonorCancellation
  <2>. DEFINE k == [f EXCEPT !.pc = "cancel", !.flag = FALSE]
  <2>1. f.pc = "honor" /\ f.pc \in HonorPc /\ UNCHANGED store /\ (Leave(a) \/ Return(a) \/ Step(a, k))
    BY Zenon DEF HonorCancellation, f, HonorPc
  <2>2. CASE Return(a)
    <3>. DEFINE g == Enter([f EXCEPT !.snap = NoRun], f.ret)
    <3>1. f.ret # "leave" /\ f.ret # "scored"
      BY <1>Own, <2>1, Zenon DEF Going, HonorRet
    <3>2. /\ Progress(g, rows, run) /\ g.r = f.r /\ ~Partial(g) /\ (Past(g) => Past(f))
          /\ Step(a, g)
      BY <1>Own, <2>1, <2>2, <3>1, EnterProgress, Zenon DEF Return, f
    <3>. HIDE DEF g
    <3>. QED BY <2>1, <3>2, StepKeeps, Zenon DEF f
  <2>3. CASE Step(a, k)
    <3>1. k.pc \in Aside
      BY <1>Own, BlankFields, Zenon DEF FrameType, Aside
    <3>. HIDE DEF k
    <3>. QED BY <2>1, <2>3, <3>1, AsideUnmarked, AsideKeeps, Zenon
  <2>. QED BY <2>1, <2>2, <2>3, LeaveKeeps, Zenon

<1>Pcs. /\ {"cancelOpen", "cancelDefer", "cancelRace", "fail", "quarantine", "quarantineCommit"} \subseteq Aside
        /\ "retryOpen" \in Aside
  BY Zenon DEF Aside

<1>CancelLoad. ASSUME CancelLoad(a) PROVE Keeps(a)
  <2>1. UNCHANGED store /\ (Leave(a) \/ Step(a, [fr[a] EXCEPT !.pc = "cancelOpen", !.snap = Run(a)]))
    BY <1>CancelLoad, Zenon DEF CancelLoad
  <2>. QED BY <1>Pcs, <2>1, LeaveKeeps, AsideStep, Zenon

<1>CancelOpen. ASSUME CancelOpen(a) PROVE Keeps(a)
  <2>1. /\ UNCHANGED store
        /\ \/ Step(a, [fr[a] EXCEPT !.pc = "cancelDefer"])
           \/ Step(a, [fr[a] EXCEPT !.pc = "unattempted", !.to = "cancelled"])
           \/ Step(a, Transition(fr[a], "cancelled", "leave"))
    BY <1>CancelOpen, Zenon DEF CancelOpen
  <2>2. Step(a, [fr[a] EXCEPT !.pc = "cancelDefer"]) => Keeps(a)
    BY <1>Pcs, <2>1, AsideStep, Zenon
  <2>3. Step(a, [fr[a] EXCEPT !.pc = "unattempted", !.to = "cancelled"]) => Keeps(a)
    BY <2>1, UnattemptedKeeps, Zenon
  <2>4. Step(a, Transition(fr[a], "cancelled", "leave")) => Keeps(a)
    BY <2>1, LeavingKeeps, Zenon
  <2>. QED BY <2>1, <2>2, <2>3, <2>4, Zenon

<1>CancelDefer. ASSUME CancelDefer(a) PROVE Keeps(a)
  <2>1. CASE Raise(a) /\ UNCHANGED store
    BY <2>1, LeaveKeeps, Zenon
  <2>2. CASE update(f.r, f.snap.revision, f.snap.status) /\ Leave(a)
    <3>1. run[f.r].status = f.snap.status
      BY <2>2, Zenon DEF update, Matches
    <3>2. Calm
      BY <1>Own, <2>2, <3>1, NextRunCalm, Zenon DEF update
    <3>. QED BY <2>2, <3>2, RestCarries, Zenon DEF Keeps
  <2>. QED BY <1>CancelDefer, <2>1, <2>2, Zenon DEF CancelDefer, f

<1>CancelRace. ASSUME CancelRace(a) PROVE Keeps(a)
  <2>1. UNCHANGED store /\ (Leave(a) \/ Step(a, [fr[a] EXCEPT !.pc = "cancelDefer", !.snap = Run(a)]))
    BY <1>CancelRace, Zenon DEF CancelRace
  <2>. QED BY <1>Pcs, <2>1, LeaveKeeps, AsideStep, Zenon

<1>UnattemptedRows. ASSUME UnattemptedRows(a) PROVE Keeps(a)
  <2>. DEFINE g == [f EXCEPT !.pc = "unattemptedOpen", !.done = Persisted(f.r)]
  <2>1. UNCHANGED store /\ Step(a, g) /\ f.pc = "unattempted"
    BY <1>UnattemptedRows, Zenon DEF UnattemptedRows, f
  <2>2. g.pc = "unattemptedOpen" /\ g.to = f.to
    BY <1>Own, BlankFields, Zenon DEF FrameType
  <2>. HIDE DEF g
  <2>3. g.to \in {"cancelled", "failed", "unsupported", "profile_stale"}
    BY <1>Own, <2>1, <2>2, Zenon DEF Progress, Unattempting
  <2>4. Progress(g, rows, run) /\ ~Past(g) /\ ~Partial(g)
    BY <2>2, <2>3, UnattemptingProgress, Zenon DEF Unattempting
  <2>. QED BY <2>1, <2>4, StepKeeps, Zenon

<1>UnattemptedOpen. ASSUME UnattemptedOpen(a) PROVE Keeps(a)
  <2>. DEFINE synthetic == Cases \ (f.done \cup list_open(f.r))
              g == [f EXCEPT !.pc = "append", !.src = "terminal-unattempted",
                             !.synth = synthetic, !.done = f.done \cup synthetic]
  <2>1. UNCHANGED store /\ Step(a, g) /\ f.pc = "unattemptedOpen"
    BY <1>UnattemptedOpen, Zenon DEF UnattemptedOpen, f
  <2>2. g.pc = "append" /\ g.to = f.to /\ g.src = "terminal-unattempted"
    BY <1>Own, BlankFields, Zenon DEF FrameType
  <2>. HIDE DEF g
  <2>3. g.to \in {"cancelled", "failed", "unsupported", "profile_stale"} /\ Unattempting(g)
    BY <1>Own, <2>1, <2>2, Zenon DEF Progress, Unattempting, AppendPc
  <2>4. Progress(g, rows, run) /\ ~Past(g) /\ ~Partial(g)
    BY <2>3, UnattemptingProgress, Zenon
  <2>. QED BY <2>1, <2>4, StepKeeps, Zenon

<1>Append. ASSUME AppendLoad(a) \/ AppendPrevious(a) PROVE Keeps(a)
  <2>1. PICK g : /\ Step(a, g) /\ UNCHANGED store /\ f.pc \in AppendPc
                 /\ \/ g = [f EXCEPT !.pc = "appendPrevious", !.snap = Run(a)]
                    \/ g = [f EXCEPT !.pc = "appendCommit", !.prev = Run(a).current]
    BY <1>Append, Zenon DEF AppendLoad, AppendPrevious, f, AppendPc
  <2>2. g.pc \in AppendPc /\ Alike(f, g)
    <3>1. CASE g = [f EXCEPT !.pc = "appendPrevious", !.snap = Run(a)]
      BY <1>Own, <3>1, BlankFields, Zenon DEF FrameType, Alike, AppendPc
    <3>2. CASE g = [f EXCEPT !.pc = "appendCommit", !.prev = Run(a).current]
      BY <1>Own, <3>2, BlankFields, Zenon DEF FrameType, Alike, AppendPc
    <3>. QED BY <2>1, <3>1, <3>2, Zenon
  <2>3. f.pc \notin HonorPc \cup TransitionPc /\ g.pc \notin HonorPc \cup TransitionPc
    BY <2>1, <2>2, Zenon DEF AppendPc, HonorPc, TransitionPc
  <2>4. /\ Publishing(g) <=> Publishing(f)
        /\ Unattempting(g) <=> Unattempting(f)
        /\ Rescoring(g) <=> Rescoring(f)
        /\ Partial(g) <=> Partial(f)
    BY <2>1, <2>2, <2>3, Zenon DEF Publishing, Unattempting, Rescoring, Partial, Label, Alike, AppendPc
  <2>5. Label(g) = g.pc /\ Label(g) \notin Closing /\ Label(g) # "score" /\ g.pc # "rescoreRows"
    BY <2>2, <2>3, Zenon DEF Label, Closing, AppendPc
  <2>6. CASE Publishing(g)
    <3>1. InPublishing(g, rows)
      BY <1>Own, <2>2, <2>4, <2>6, Zenon DEF Progress, InPublishing, Alike
    <3>2. Progress(g, rows, run) /\ ~Partial(g)
      BY <2>3, <2>6, <3>1, PublishingProgress, Zenon
    <3>. QED BY <2>1, <2>2, <2>4, <2>6, <3>2, StepKeeps, Zenon DEF Past, Alike, f
  <2>7. CASE Unattempting(g)
    <3>1. Progress(g, rows, run) /\ ~Past(g) /\ ~Partial(g)
      BY <1>Own, <2>2, <2>4, <2>7, UnattemptingProgress, Zenon DEF Progress, Alike
    <3>. QED BY <2>1, <3>1, StepKeeps, Zenon
  <2>8. CASE Rescoring(g)
    <3>1. Progress(g, rows, run) /\ ~Past(g)
      BY <1>Own, <2>2, <2>4, <2>5, <2>8, RescoringProgress, Zenon DEF Progress, Alike
    <3>. QED BY <2>1, <2>2, <2>4, <3>1, StepKeeps, Zenon DEF Alike, f
  <2>9. f.src \in {"initial", "rescore", "terminal-unattempted"} /\ g.src = f.src
    BY <1>Own, <2>1, <2>2, Zenon DEF Going, Alike
  <2>. QED BY <2>2, <2>5, <2>6, <2>7, <2>8, <2>9, Zenon DEF Publishing, Unattempting, Rescoring

<1>AppendRaises. ASSUME AppendRaises(a) PROVE Keeps(a)
  BY <1>AppendRaises, LeaveKeeps, Zenon DEF AppendRaises

<1>AppendCommit. ASSUME AppendCommit(a) PROVE Keeps(a)
  <2>1. f.pc = "appendCommit" /\ Active(f)
    BY <1>AppendCommit, Zenon DEF AppendCommit, Active, Resting, RecoverPc, f
  <2>2. CASE Appends(a) /\ Leave(a)
    BY <2>1, <2>2, RestCarries, Zenon DEF Keeps, Adds, f
  <2>3. CASE UNCHANGED store /\ (Raise(a) \/ Step(a, [fr[a] EXCEPT !.pc = "cancelRace", !.snap = NoRun]))
    BY <1>Pcs, <2>3, LeaveKeeps, AsideStep, Zenon
  <2>. QED BY <1>AppendCommit, <2>2, <2>3, Zenon DEF AppendCommit, Appends

<1>FailOrQuarantine. ASSUME FailOrQuarantine(a) PROVE Keeps(a)
  <2>1. PICK pc \in Aside : UNCHANGED store /\ Step(a, [fr[a] EXCEPT !.pc = pc])
    BY <1>FailOrQuarantine, <1>Pcs, Zenon DEF FailOrQuarantine
  <2>. QED BY <2>1, AsideStep, Zenon

<1>Fail. ASSUME Fail(a) PROVE Keeps(a)
  <2>1. /\ UNCHANGED store
        /\ \/ Leave(a)
           \/ Step(a, [fr[a] EXCEPT !.pc = "unattempted", !.to = "failed"])
           \/ Step(a, Transition(fr[a], "failed", "leave"))
    BY <1>Fail, Zenon DEF Fail
  <2>2. Step(a, [fr[a] EXCEPT !.pc = "unattempted", !.to = "failed"]) => Keeps(a)
    BY <2>1, UnattemptedKeeps, Zenon
  <2>3. Step(a, Transition(fr[a], "failed", "leave")) => Keeps(a)
    BY <2>1, LeavingKeeps, Zenon
  <2>. QED BY <2>1, <2>2, <2>3, LeaveKeeps, Zenon

<1>QuarantineLoad. ASSUME QuarantineLoad(a) PROVE Keeps(a)
  <2>1. UNCHANGED store /\ Step(a, [fr[a] EXCEPT !.pc = "quarantineCommit", !.snap = Run(a)])
    BY <1>QuarantineLoad, Zenon DEF QuarantineLoad
  <2>. QED BY <1>Pcs, <2>1, AsideStep, Zenon

<1>QuarantineCommit. ASSUME QuarantineCommit(a) PROVE Keeps(a)
  <2>1. CASE Die(a) /\ UNCHANGED store
    BY <2>1, LeaveKeeps, Zenon
  <2>2. CASE quarantine_indeterminate(f.r, f.snap.revision, f.snap.status) /\ Leave(a)
    <3>1. Active(f)
      BY <1>QuarantineCommit, Zenon DEF QuarantineCommit, Active, Resting, RecoverPc, f
    <3>2. Calm
      BY <1>Own, <1>Run, <2>2, <3>1, QuarantineCalm, Zenon
    <3>. QED BY <2>2, <3>2, RestCarries, Zenon DEF Keeps
  <2>. QED BY <1>QuarantineCommit, <2>1, <2>2, Zenon DEF QuarantineCommit, f

<1>MarkUnsupported. ASSUME MarkUnsupported(a) PROVE Keeps(a)
  <2>1. /\ UNCHANGED store
        /\ \/ Leave(a)
           \/ Step(a, [fr[a] EXCEPT !.pc = "unattempted", !.to = "unsupported"])
           \/ Step(a, Transition(fr[a], "unsupported", "leave"))
    BY <1>MarkUnsupported, Zenon DEF MarkUnsupported
  <2>2. Step(a, [fr[a] EXCEPT !.pc = "unattempted", !.to = "unsupported"]) => Keeps(a)
    BY <2>1, UnattemptedKeeps, Zenon
  <2>3. Step(a, Transition(fr[a], "unsupported", "leave")) => Keeps(a)
    BY <2>1, LeavingKeeps, Zenon
  <2>. QED BY <2>1, <2>2, <2>3, LeaveKeeps, Zenon

<1>MarkProfileStale. ASSUME MarkProfileStale(a) PROVE Keeps(a)
  <2>1. /\ UNCHANGED store
        /\ \/ Leave(a) \/ Raise(a)
           \/ Step(a, [fr[a] EXCEPT !.pc = "unattempted", !.to = "profile_stale"])
           \/ Step(a, Transition(fr[a], "profile_stale", "leave"))
    BY <1>MarkProfileStale, Zenon DEF MarkProfileStale
  <2>2. Step(a, [fr[a] EXCEPT !.pc = "unattempted", !.to = "profile_stale"]) => Keeps(a)
    BY <2>1, UnattemptedKeeps, Zenon
  <2>3. Step(a, Transition(fr[a], "profile_stale", "leave")) => Keeps(a)
    BY <2>1, LeavingKeeps, Zenon
  <2>. QED BY <2>1, <2>2, <2>3, LeaveKeeps, Zenon

<1>Rescore. ASSUME Rescore(a) PROVE Keeps(a)
  <2>. DEFINE g == [f EXCEPT !.pc = "rescoreRows"]
  <2>1. /\ UNCHANGED store /\ f.pc = "rescore"
        /\ Raise(a) \/ (Step(a, g) /\ run[f.r].status \in TERMINAL)
    BY <1>Rescore, Zenon DEF Rescore, Run, TERMINAL, f
  <2>2. CASE Step(a, g) /\ run[f.r].status \in TERMINAL
    <3>1. g.pc = "rescoreRows" /\ Alike(f, g)
      BY <1>Own, BlankFields, Zenon DEF FrameType, Alike
    <3>. HIDE DEF g
    <3>2. g.to = "none" /\ g.synth = {} /\ Rescoring(g) /\ run[g.r].status \in TERMINAL
      BY <1>Own, <2>1, <2>2, <3>1, Zenon DEF Progress, Rescoring, Alike
    <3>3. Progress(g, rows, run) /\ ~Past(g)
      BY <3>2, RescoringProgress, Zenon
    <3>4. ~Partial(g)
      BY <3>1, Zenon DEF Partial, AppendPc
    <3>. QED BY <2>1, <2>2, <3>3, <3>4, StepKeeps, Zenon
  <2>. QED BY <2>1, <2>2, LeaveKeeps, Zenon

<1>RescoreRows. ASSUME RescoreRows(a) PROVE Keeps(a)
  <2>. DEFINE g == [f EXCEPT !.pc = "append", !.done = Persisted(f.r), !.src = "rescore"]
  <2>1. UNCHANGED store /\ f.pc = "rescoreRows" /\ Active(f) /\ Step(a, g)
    BY <1>RescoreRows, Zenon DEF RescoreRows, Active, Resting, RecoverPc, f
  <2>2. /\ g.pc = "append" /\ g.r = f.r /\ g.done = Persisted(f.r) /\ g.src = "rescore"
        /\ g.to = f.to /\ g.synth = f.synth
    BY <1>Own, BlankFields, Zenon DEF FrameType
  <2>. HIDE DEF g
  <2>3. g.to = "none" /\ g.synth = {} /\ Rescoring(g) /\ run[f.r].status \in TERMINAL
    BY <1>Own, <2>1, <2>2, Zenon DEF Progress, Rescoring, AppendPc
  <2>4. Progress(g, rows, run) /\ ~Past(g)
    BY <2>2, <2>3, RescoringProgress, Zenon
  <2>5. ASSUME Partial(g) PROVE Unpublished(g.r)
    <3>1. Rowed(rows, f.r) # Cases /\ Persisted(f.r) # Cases
      BY <2>2, <2>5, Zenon DEF Partial, Rowed, Persisted
    <3>2. run[f.r].status # "completed"
      BY <1>Run, <2>1, <3>1, OwnProgress, Zenon DEF CompletedIsComplete
    <3>3. ASSUME NEW b \in Actors, fr[b].r = f.r PROVE ~Past(fr[b])
      <4>1. Progress(fr[b], rows, run)
        BY OwnProgress, Zenon
      <4>. QED BY <3>1, <3>3, <4>1, Zenon DEF Progress, Past, Closing, InClosing, InPublishing
    <3>. QED BY <2>2, <2>3, <3>2, <3>3, Zenon DEF Unpublished
  <2>6. rows' = rows /\ run' = run
    BY <2>1, Zenon DEF store
  <2>7. Progress(g, rows', run')
    BY <2>4, <2>6, Zenon
  <2>. QED BY <2>1, <2>4, <2>5, <2>7, UnchangedCalm, Zenon DEF Keeps, Carries, Step

<1>RetryLoad. ASSUME RetryLoad(a) PROVE Keeps(a)
  <2>1. UNCHANGED store /\ (Raise(a) \/ Step(a, [fr[a] EXCEPT !.pc = "retryOpen", !.snap = Run(a)]))
    BY <1>RetryLoad, Zenon DEF RetryLoad
  <2>. QED BY <1>Pcs, <2>1, LeaveKeeps, AsideStep, Zenon

<1>RetryOpen. ASSUME RetryOpen(a) PROVE Keeps(a)
  <2>1. CASE Raise(a) /\ UNCHANGED store
    BY <2>1, LeaveKeeps, Zenon
  <2>2. ASSUME NEW r, create(r), Leave(a) PROVE Keeps(a)
    <3>1. \A q \in Runs : run'[q] = run[q] \/ run'[q].status = "queued"
      BY <1>Own, <2>2, Zenon DEF create, TypeOK
    <3>2. Calm
      BY <2>2, <3>1, RunCalm, Zenon DEF create
    <3>. QED BY <2>2, <3>2, RestCarries, Zenon DEF Keeps
  <2>. QED BY <1>RetryOpen, <2>1, <2>2, Zenon DEF RetryOpen

<1>BeginLoad. ASSUME BeginLoad(a) \/ BeginPrevious(a) PROVE Keeps(a)
  <2>1. PICK g : /\ Step(a, g) /\ UNCHANGED store /\ f.pc \in Looping
                 /\ \/ g = [f EXCEPT !.pc = "beginPrevious", !.snap = Run(a)]
                    \/ g = [f EXCEPT !.pc = "begin", !.att[f.c] = Len(attempts[f.r][f.c]) + 1]
    BY <1>BeginLoad, Zenon DEF BeginLoad, BeginPrevious, f, Looping
  <2>2. g.pc \in {"beginPrevious", "begin"} /\ Alike(f, g)
    <3>1. CASE g = [f EXCEPT !.pc = "beginPrevious", !.snap = Run(a)]
      BY <1>Own, <3>1, BlankFields, Zenon DEF FrameType, Alike
    <3>2. CASE g = [f EXCEPT !.pc = "begin", !.att[f.c] = Len(attempts[f.r][f.c]) + 1]
      BY <1>Own, <3>2, BlankFields, Zenon DEF FrameType, Alike
    <3>. QED BY <2>1, <3>1, <3>2, Zenon
  <2>3. g.pc \in Looping \ {"skip"} /\ UNCHANGED rows /\ fr' = [fr EXCEPT ![a] = g]
    BY <2>1, <2>2, Zenon DEF Looping, Step, store
  <2>. QED BY <2>1, <2>2, <2>3, LoopCarries, UnchangedCalm, Zenon DEF Keeps, f

<1>Begin. ASSUME Begin(a) PROVE Keeps(a)
  <2>1. f.pc = "begin" /\ f.pc \in CasePc /\ f.pc \in Looping
    BY <1>Begin, Zenon DEF Begin, f, CasePc, Looping
  <2>2. f.r \in Runs /\ f.c \in Cases
    BY <1>Own, <2>1, OwnPend, Zenon DEF f
  <2>. DEFINE g == [f EXCEPT !.pc = "dispatch"]
  <2>3. CASE begin(f.r, f.c, f.att[f.c], f.snap.revision, f.snap.status) /\ Step(a, g)
    <3>1. Calm
      BY <1>Own, <2>2, <2>3, BeginCalm, Zenon
    <3>2. g.pc = "dispatch" /\ Alike(f, g) /\ fr' = [fr EXCEPT ![a] = g]
      BY <1>Own, <2>3, BlankFields, Zenon DEF FrameType, Alike, Step
    <3>. HIDE DEF g
    <3>3. g.pc \in Looping \ {"skip"} /\ UNCHANGED rows
      BY <3>1, <3>2, Zenon DEF Looping, Calm
    <3>. QED BY <2>1, <3>1, <3>2, <3>3, LoopCarries, Zenon DEF Keeps, f
  <2>4. CASE BeginConflict(a) /\ UNCHANGED store
    BY <2>4, ConflictCarries, UnchangedCalm, Zenon DEF Keeps
  <2>. QED BY <1>Begin, <2>3, <2>4, Zenon DEF Begin, f

<1>Dispatch. ASSUME Dispatch(a) PROVE Keeps(a)
  <2>1. f.pc = "dispatch" /\ f.pc \in CasePc /\ f.pc \in Looping
    BY <1>Dispatch, Zenon DEF Dispatch, f, CasePc, Looping
  <2>2. f.r \in Runs /\ f.c \in Cases
    BY <1>Own, <2>1, OwnPend, Zenon DEF f
  <2>3. PICK g : /\ fr' = [fr EXCEPT ![a] = g]
                 /\ \/ /\ g = [f EXCEPT !.pc = "invoke", !.snap = NoRun]
                       /\ dispatch(f.r, f.c, f.att[f.c], f.snap.revision, f.snap.status)
                    \/ g = [f EXCEPT !.pc = "dispatchAbort"] /\ UNCHANGED store
    BY <1>Dispatch, Zenon DEF Dispatch, Step, f
  <2>4. g.pc \in {"invoke", "dispatchAbort"} /\ Alike(f, g)
    <3>1. CASE g = [f EXCEPT !.pc = "invoke", !.snap = NoRun]
      BY <1>Own, <3>1, BlankFields, Zenon DEF FrameType, Alike
    <3>2. CASE g = [f EXCEPT !.pc = "dispatchAbort"]
      BY <1>Own, <3>2, BlankFields, Zenon DEF FrameType, Alike
    <3>. QED BY <2>3, <3>1, <3>2, Zenon
  <2>5. ASSUME dispatch(f.r, f.c, f.att[f.c], f.snap.revision, f.snap.status) PROVE Calm
    <3>1. "dispatching" \in AttemptStatus
      BY Zenon DEF AttemptStatus
    <3>. QED BY <1>Own, <2>2, <2>5, <3>1, AdvanceCalm, Zenon DEF dispatch, can_dispatch
  <2>6. Calm
    BY <2>3, <2>5, UnchangedCalm, Zenon
  <2>7. g.pc \in Looping \ {"skip"} /\ UNCHANGED rows
    BY <2>4, <2>6, Zenon DEF Looping, Calm
  <2>. QED BY <2>1, <2>3, <2>4, <2>6, <2>7, LoopCarries, Zenon DEF Keeps, f

<1>DispatchAbort. ASSUME DispatchAbort(a) PROVE Keeps(a)
  <2>1. f.pc \in CasePc /\ BeginConflict(a)
    BY <1>DispatchAbort, Zenon DEF DispatchAbort, f, CasePc
  <2>2. f.r \in Runs /\ f.c \in Cases
    BY <1>Own, <2>1, OwnPend, Zenon DEF f
  <2>3. ASSUME attempt_transition(f.r, f.c, f.att[f.c], "prepared", "failed") PROVE Calm
    <3>1. "failed" \in AttemptStatus
      BY Zenon DEF AttemptStatus
    <3>. QED BY <1>Own, <2>2, <2>3, <3>1, AdvanceCalm, Zenon DEF attempt_transition
  <2>4. Calm
    BY <1>DispatchAbort, <2>3, UnchangedCalm, Zenon DEF DispatchAbort, f
  <2>. QED BY <2>1, <2>4, ConflictCarries, Zenon DEF Keeps

<1>BeginRaise. ASSUME BeginRaise(a) PROVE Keeps(a)
  BY <1>BeginRaise, LeaveKeeps, Zenon DEF BeginRaise

<1>. QED
  BY <1>TransitionLoad, <1>TransitionCommit, <1>HonorCancellation, <1>CancelLoad, <1>CancelOpen,
     <1>CancelDefer, <1>CancelRace, <1>UnattemptedRows, <1>UnattemptedOpen, <1>Append,
     <1>AppendRaises, <1>AppendCommit, <1>FailOrQuarantine, <1>Fail, <1>QuarantineLoad,
     <1>QuarantineCommit, <1>MarkUnsupported, <1>MarkProfileStale, <1>Rescore, <1>RescoreRows,
     <1>RetryLoad, <1>RetryOpen, <1>BeginLoad, <1>Begin, <1>Dispatch, <1>DispatchAbort,
     <1>BeginRaise, Zenon DEF ServiceStep

-----------------------------------------------------------------------------
(* The rows after the writes that add one. *)
LEMMA CompleteRows ==
  ASSUME TypeOK, NEW r \in Runs, NEW c \in Cases, NEW kind \in {"ok", "error", "stop"},
         kind = "stop" => r \in BenchmarkRuns, \E n, to : complete(r, c, n, to, kind)
  PROVE  RowsKept /\ rows'[r][c] = kind /\ Completes(r)
<1>1. PICK n, to : complete(r, c, n, to, kind)
  OBVIOUS
<1>2. RowsKept /\ rows'[r][c] = kind
  BY <1>1, Zenon DEF complete, can_complete, TypeOK, RowsKept
<1>. QED BY <1>2, Zenon DEF Completes

LEMMA UpsertRows ==
  ASSUME TypeOK, NEW r \in Runs, NEW c \in Cases, upsert(r, c, "skipped")
  PROVE  RowsKept /\ rows'[r][c] # "none"
<1>1. rows'[r][c] = IF rows[r][c] = "none" THEN "skipped" ELSE rows[r][c]
  BY Zenon DEF upsert, TypeOK
<1>2. RowsKept
  BY Zenon DEF upsert, TypeOK, RowsKept
<1>. QED BY <1>1, <1>2, Zenon

LEMMA Below == \A c, d \in Cases : d < c + 1 => d < c \/ d = c
BY NCasesAssumption DEF Cases

(* The loop goes on to the next Case once this one has its row, or waits for *)
(* its second chance.                                                        *)
LEMMA NextCaseCarries ==
  ASSUME CompletionInv, NEW a \in Actors, fr[a].pc \in {"skip", "calling"}, RowsKept, NEW g,
         fr' = [fr EXCEPT ![a] = g], g.pc = "loop", g.c = fr[a].c + 1, g.r = fr[a].r,
         g.done = fr[a].done, fr[a].pend \subseteq g.pend,
         fr[a].c \in Rowed(rows', g.r) \cup g.pend,
         g.stop => fr[a].stop \/ Stopped(rows', g.r)
  PROVE  Carries(a)
<1>. DEFINE f == fr[a]
<1>1. f.r \in Runs /\ f.c \in Cases
  BY OwnProgress, OwnPend, Zenon DEF CasePc
<1>2. InLoop(f, rows)
  BY OwnProgress, Zenon DEF Progress, Label, Looping, HonorPc, TransitionPc
<1>. HIDE DEF f
<1>3. Rowed(rows, f.r) \subseteq Rowed(rows', f.r) /\ (Stopped(rows, f.r) => Stopped(rows', f.r))
  BY <1>1, RowsGrown, Zenon DEF RowsKept
<1>4. ASSUME NEW d \in Cases, d < g.c PROVE d \in Rowed(rows', g.r) \cup g.pend
  <2>1. d < f.c \/ d = f.c
    BY <1>1, <1>4, Below, Zenon DEF f
  <2>. QED BY <1>2, <1>3, <2>1, Zenon DEF InLoop, f
<1>5. InLoop(g, rows')
  BY <1>2, <1>3, <1>4, Zenon DEF InLoop, f
<1>6. Label(g) \in Looping /\ Label(g) # "skip" /\ g.pc \notin TransitionPc
  BY Zenon DEF Label, HonorPc, TransitionPc, Looping
<1>7. Progress(g, rows', run') /\ ~Past(g) /\ ~Partial(g)
  BY <1>5, <1>6, LoopProgress, Zenon
<1>. QED BY <1>7, Zenon DEF Carries

(* execute and _execute_benchmark. *)
LEMMA ExecuteKeeps ==
  ASSUME CompletionInv, NEW a \in Workers, ExecuteStep(a)
  PROVE  Keeps(a)
<1>. DEFINE f == fr[a]
<1>. a \in Actors
  BY Zenon DEF Actors
<1>Own. /\ WorkerInv /\ RowsInv /\ TypeOK /\ FrameType(f) /\ Going(f) /\ Progress(f, rows, run)
        /\ f.pend \subseteq Cases /\ (f.pend # {} => f.r \in BenchmarkRuns)
  BY OwnProgress, Zenon DEF FrameType
<1>Type. TypeOK
  BY <1>Own, Zenon
<1>Run. ASSUME Active(f) PROVE f.r \in Runs
  BY <1>Own, <1>Run, Own, Zenon
<1>Case. ASSUME f.pc \in CasePc PROVE f.r \in Runs /\ f.c \in Cases /\ Active(f)
  BY <1>Own, <1>Case, OwnPend, Zenon
<1>Label. ASSUME f.pc \notin HonorPc \cup TransitionPc PROVE Label(f) = f.pc
  BY <1>Label, Zenon DEF Label
<1>. HIDE DEF f

<1>Execute. ASSUME Execute(a) \/ ToRunning(a) PROVE Keeps(a)
  <2>1. /\ UNCHANGED store /\ f.pc \in {"execute", "toRunning"}
        /\ \/ Leave(a) \/ Die(a)
           \/ \E pc \in {"toRunning", "rows"} : Step(a, [f EXCEPT !.pc = pc])
           \/ Step(a, Transition(f, "running", "rows"))
           \/ Step(a, Transition(f, "preparing", "toRunning"))
    BY <1>Execute, Zenon DEF Execute, ToRunning, f
  <2>2. f.c = 1
    BY <1>Own, <1>Label, <2>1, Zenon DEF Progress, Fresh, HonorPc, TransitionPc
  <2>3. ASSUME NEW pc \in {"toRunning", "rows"}, Step(a, [f EXCEPT !.pc = pc]) PROVE Keeps(a)
    <3>. DEFINE g == [f EXCEPT !.pc = pc]
    <3>1. g.pc = pc /\ g.c = 1 /\ Step(a, g)
      BY <1>Own, <2>2, <2>3, BlankFields, Zenon DEF FrameType
    <3>. HIDE DEF g
    <3>2. Label(g) \in Fresh /\ g.pc \notin TransitionPc
      BY <3>1, Zenon DEF Label, Fresh, HonorPc, TransitionPc
    <3>. QED BY <2>1, <3>1, <3>2, FreshProgress, StepKeeps, Zenon
  <2>4. ASSUME NEW to \in {"preparing", "running"}, NEW ret \in {"toRunning", "rows"},
               Step(a, Transition(f, to, ret))
        PROVE  Keeps(a)
    <3>. DEFINE g == Transition(f, to, ret)
    <3>1. g.pc = "transition" /\ g.ret = ret /\ g.to = to /\ g.c = 1 /\ Step(a, g)
      BY <1>Own, <2>2, <2>4, BlankFields, Zenon DEF FrameType, Transition
    <3>. HIDE DEF g
    <3>2. Label(g) \in Fresh /\ g.to # "completed"
      BY <3>1, Zenon DEF Label, Fresh, HonorPc, TransitionPc
    <3>. QED BY <2>1, <3>1, <3>2, FreshProgress, StepKeeps, Zenon
  <2>. QED BY <2>1, <2>3, <2>4, LeaveKeeps, Zenon

<1>Rows. ASSUME Rows(a) PROVE Keeps(a)
  <2>. DEFINE stop == Bench(a) /\ \E c \in Cases : rows[f.r][c] = "stop"
              g == [f EXCEPT !.pc = "loop", !.done = Persisted(f.r), !.stop = stop]
  <2>1. f.pc = "rows" /\ UNCHANGED store /\ Step(a, g) /\ (stop => Stopped(rows, f.r))
    BY <1>Rows, Zenon DEF Rows, Stopped, f
  <2>2. f.c = 1
    BY <1>Own, <1>Label, <2>1, Zenon DEF Progress, Fresh, HonorPc, TransitionPc
  <2>. HIDE DEF stop
  <2>3. g.pc = "loop" /\ g.c = 1 /\ g.r = f.r /\ g.done = Persisted(f.r) /\ g.stop = stop
    BY <1>Own, <2>2, BlankFields, Zenon DEF FrameType
  <2>. HIDE DEF g
  <2>4. \A d \in Cases : ~(d < 1)
    BY NCasesAssumption DEF Cases
  <2>5. InLoop(g, rows)
    BY <2>1, <2>3, <2>4, Zenon DEF InLoop, Rowed, Persisted
  <2>6. Label(g) \in Looping /\ Label(g) # "skip" /\ g.pc \notin TransitionPc
    BY <2>3, Zenon DEF Label, HonorPc, TransitionPc, Looping
  <2>7. Progress(g, rows, run) /\ ~Past(g) /\ ~Partial(g)
    BY <2>5, <2>6, LoopProgress, Zenon
  <2>. QED BY <2>1, <2>7, StepKeeps, Zenon

<1>Loop. ASSUME Loop(a) PROVE Keeps(a)
  <2>. DEFINE left == {c \in Cases \ f.done : c >= f.c}
              exc == IF Bench(a) THEN "die" ELSE "foq"
  <2>1. /\ f.pc = "loop" /\ UNCHANGED store /\ (Bench(a) <=> f.r \in BenchmarkRuns)
        /\ IF left # {}
             THEN Step(a, Checkpoint([f EXCEPT !.c = Min(left)], IF f.stop THEN "skip" ELSE "beginLoad", exc))
             ELSE Step(a, Checkpoint([f EXCEPT !.done = {}], IF Bench(a) THEN "sweep" ELSE "results", "die"))
    BY <1>Loop, Zenon DEF Loop, Bench, f
  <2>2. InLoop(f, rows)
    BY <1>Own, <1>Label, <2>1, Zenon DEF Progress, Looping, HonorPc, TransitionPc
  <2>3. \A d \in Cases : d \notin left => d < f.c \/ d \in f.done
    <3>1. f.c \in Nat
      BY <1>Own, Zenon DEF FrameType
    <3>. QED BY <3>1, NCasesAssumption DEF Cases
  <2>4. CASE left # {}
    <3>. DEFINE ret == IF f.stop THEN "skip" ELSE "beginLoad"
                h == [f EXCEPT !.c = Min(left)]
                g == Checkpoint(h, ret, exc)
    <3>1. Step(a, g) /\ (ret = "skip" => f.stop) /\ ret \in {"skip", "beginLoad"}
      BY <2>1, <2>4, Zenon
    <3>2. \A d \in Cases : d < Min(left) => d \notin left
      <4>1. left \in SUBSET Nat
        BY NCasesAssumption DEF Cases
      <4>2. Min(left) \in Nat /\ \A d \in left : d \in Nat /\ Min(left) <= d
        BY <2>4, <4>1, MinIn, Zenon
      <4>3. \A d \in left : ~(d < Min(left))
        BY <4>2
      <4>. QED BY <4>3, Zenon
    <3>. HIDE DEF left, ret, exc
    <3>3. /\ g.pc \in {"honor", "checkpoint"} /\ g.ret = ret /\ g.c = Min(left) /\ g.r = f.r
          /\ g.done = f.done /\ g.pend = f.pend /\ g.stop = f.stop
      BY <1>Own, BlankFields, Zenon DEF FrameType, Checkpoint, Honor
    <3>. HIDE DEF g
    <3>4. InLoop(g, rows)
      BY <2>2, <2>3, <3>2, <3>3, Zenon DEF InLoop
    <3>5. Label(g) = ret /\ g.pc \notin TransitionPc /\ ret \in Looping
      BY <3>1, <3>3, Zenon DEF Label, HonorPc, TransitionPc, Looping
    <3>6. Progress(g, rows, run) /\ ~Past(g) /\ ~Partial(g)
      BY <3>1, <3>3, <3>4, <3>5, LoopProgress, Zenon
    <3>. QED BY <2>1, <3>1, <3>6, StepKeeps, Zenon
  <2>5. CASE left = {}
    <3>. DEFINE ret == IF Bench(a) THEN "sweep" ELSE "results"
                h == [f EXCEPT !.done = {}]
                g == Checkpoint(h, ret, "die")
    <3>1. /\ Step(a, g) /\ ret \in {"sweep", "results"} /\ (ret = "sweep" => f.r \in BenchmarkRuns)
          /\ ret = "results" => f.r \notin BenchmarkRuns
      BY <2>1, <2>5, Zenon
    <3>2. \A d \in Cases : d \in Rowed(rows, f.r) \cup f.pend
      BY <2>2, <2>3, <2>5, Zenon DEF InLoop
    <3>. HIDE DEF left, ret, exc
    <3>3. g.pc \in {"honor", "checkpoint"} /\ g.ret = ret /\ g.r = f.r /\ g.pend = f.pend
      BY <1>Own, BlankFields, Zenon DEF FrameType, Checkpoint, Honor
    <3>. HIDE DEF g
    <3>4. Label(g) = ret /\ g.pc \notin TransitionPc
      BY <3>3, Zenon DEF Label, HonorPc, TransitionPc
    <3>5. CASE ret = "sweep"
      <4>1. InSweep(g, rows) /\ Label(g) \in Sweeping
        BY <3>1, <3>2, <3>3, <3>4, <3>5, Zenon DEF InSweep, Sweeping
      <4>. QED BY <2>1, <3>1, <3>4, <4>1, SweepProgress, StepKeeps, Zenon
    <3>6. CASE ret = "results"
      <4>1. f.pend = {}
        BY <1>Own, <3>1, <3>6, Zenon
      <4>2. Rowed(rows, f.r) = Cases
        BY <3>2, <4>1, Zenon DEF Rowed
      <4>3. InClosing(g, rows) /\ Label(g) \in Closing /\ Label(g) # "score"
        BY <3>3, <3>4, <3>6, <4>2, Zenon DEF InClosing, Closing
      <4>. QED BY <2>1, <3>1, <3>4, <4>3, ClosingProgress, StepKeeps, Zenon
    <3>. QED BY <3>1, <3>5, <3>6, Zenon
  <2>. QED BY <2>4, <2>5, Zenon

<1>Skip. ASSUME Skip(a) PROVE Keeps(a)
  <2>. DEFINE g == [f EXCEPT !.pc = "loop", !.c = f.c + 1]
  <2>1. f.pc = "skip" /\ f.pc \in CasePc /\ upsert(f.r, f.c, "skipped") /\ Step(a, g)
    BY <1>Skip, Zenon DEF Skip, NextCase, CasePc, f
  <2>2. f.r \in Runs /\ f.c \in Cases /\ Active(f)
    BY <1>Case, <2>1, Zenon
  <2>3. Stopped(rows, f.r)
    BY <1>Own, <1>Label, <2>1, Zenon DEF Progress, InLoop, Looping, HonorPc, TransitionPc
  <2>4. RowsKept /\ f.c \in Rowed(rows', f.r)
    BY <1>Own, <2>1, <2>2, UpsertRows, Zenon DEF Rowed
  <2>5. /\ g.pc = "loop" /\ g.c = f.c + 1 /\ g.r = f.r /\ g.done = f.done /\ g.pend = f.pend
        /\ g.stop = f.stop /\ fr' = [fr EXCEPT ![a] = g]
    BY <1>Own, <2>1, BlankFields, Zenon DEF FrameType, Step
  <2>. HIDE DEF g
  <2>6. Carries(a)
    BY <2>1, <2>4, <2>5, NextCaseCarries, Zenon DEF f
  <2>7. Adds(a)
    BY <2>1, <2>2, <2>3, Zenon DEF Adds, Skips, f
  <2>. QED BY <2>6, <2>7, Zenon DEF Keeps

<1>CancelCheckpoint. ASSUME CancelCheckpoint(a) PROVE Keeps(a)
  <2>1. PICK pc \in {"settle", "honor"} :
          f.pc = "checkpoint" /\ UNCHANGED store /\ Step(a, [f EXCEPT !.pc = pc])
    BY <1>CancelCheckpoint, Zenon DEF CancelCheckpoint, f
  <2>. DEFINE g == [f EXCEPT !.pc = pc]
  <2>2. g.pc = pc /\ g.ret = f.ret /\ Alike(f, g) /\ Step(a, g)
    BY <1>Own, <2>1, BlankFields, Zenon DEF FrameType, Alike
  <2>. HIDE DEF g
  <2>3. Label(g) = Label(f) /\ g.pc \notin TransitionPc /\ g.pc \notin AppendPc
    BY <2>1, <2>2, Zenon DEF Label, HonorPc, TransitionPc, AppendPc
  <2>4. Progress(g, rows, run) /\ (Past(g) => Past(f)) /\ ~Partial(g)
    BY <1>Own, <2>2, <2>3, SameLabel, Zenon
  <2>. QED BY <2>1, <2>2, <2>4, StepKeeps, Zenon DEF Alike, f

<1>SettlePending. ASSUME SettlePending(a) PROVE Keeps(a)
  <2>1. f.pc = "settle" /\ Active(f)
    BY <1>SettlePending, Zenon DEF SettlePending, Active, Resting, RecoverPc, f
  <2>2. CASE UNCHANGED store /\ Step(a, [f EXCEPT !.pc = "honor"])
    <3>. DEFINE g == [f EXCEPT !.pc = "honor"]
    <3>1. g.pc = "honor" /\ g.ret = f.ret /\ Alike(f, g) /\ Step(a, g)
      BY <1>Own, <2>2, BlankFields, Zenon DEF FrameType, Alike
    <3>. HIDE DEF g
    <3>2. Label(g) = Label(f) /\ g.pc \notin TransitionPc /\ g.pc \notin AppendPc
      BY <2>1, <3>1, Zenon DEF Label, HonorPc, TransitionPc, AppendPc
    <3>3. Progress(g, rows, run) /\ (Past(g) => Past(f)) /\ ~Partial(g)
      BY <1>Own, <3>1, <3>2, SameLabel, Zenon
    <3>. QED BY <2>2, <3>1, <3>3, StepKeeps, Zenon DEF Alike, f
  <2>3. CASE UNCHANGED store /\ Raise(a)
    BY <2>3, LeaveKeeps, Zenon
  <2>4. ASSUME NEW c, c = Min(f.pend), f.pend # {}, complete(f.r, c, f.att[c], "failed", "error"),
               Step(a, [f EXCEPT !.pend = @ \ {c}])
        PROVE  Keeps(a)
    <3>. DEFINE g == [f EXCEPT !.pend = @ \ {c}]
    <3>1. c \in Cases /\ f.r \in Runs
      <4>1. f.pend \in SUBSET Nat
        BY <1>Own, NCasesAssumption DEF Cases
      <4>. QED BY <1>Own, <1>Run, <2>1, <2>4, <4>1, MinIn, Zenon
    <3>2. RowsKept /\ rows'[f.r][c] = "error" /\ Completes(f.r)
      <4>1. \E n, to : complete(f.r, c, n, to, "error")
        BY <2>4, Zenon
      <4>. QED BY <1>Type, <3>1, <4>1, CompleteRows, Zenon
    <3>3. c \in Rowed(rows', f.r)
      BY <3>1, <3>2, Zenon DEF Rowed
    <3>4. /\ g.pc = "settle" /\ g.ret = f.ret /\ g.r = f.r /\ g.c = f.c /\ g.done = f.done
          /\ g.pend = f.pend \ {c} /\ g.stop = f.stop /\ g.to = f.to /\ g.src = f.src
          /\ fr' = [fr EXCEPT ![a] = g]
      BY <1>Own, <2>1, <2>4, BlankFields, Zenon DEF FrameType, Step
    <3>. HIDE DEF g
    <3>5. Progress(f, rows', run')
      <4>1. f.pc # "rescoreRows"
        BY <2>1, Zenon
      <4>. QED BY <1>Own, <3>1, <3>2, <4>1, ProgressKept, Zenon DEF RowsKept
    <3>6. /\ Label(g) = Label(f) /\ g.pc \notin TransitionPc /\ g.pc \notin AppendPc
          /\ g.pc \notin {"unattempted", "unattemptedOpen", "rescore", "rescoreRows"}
      BY <2>1, <3>4, Zenon DEF Label, HonorPc, TransitionPc, AppendPc
    <3>7. /\ InLoop(f, rows') => InLoop(g, rows')
          /\ InSweep(f, rows') => InSweep(g, rows')
      BY <3>3, <3>4, <3>6, Zenon DEF InLoop, InSweep
    <3>8. /\ InClosing(f, rows') => InClosing(g, rows')
          /\ InPublishing(f, rows') => InPublishing(g, rows')
          /\ (Publishing(g) <=> Publishing(f)) /\ (Past(g) <=> Past(f))
      BY <3>4, <3>6, Zenon DEF InClosing, InPublishing, Publishing, Past
    <3>9. ~Unattempting(g) /\ ~Rescoring(g) /\ ~Partial(g) /\ g.pc # "rescoreRows"
      BY <3>6, Zenon DEF Unattempting, Rescoring, Partial
    <3>10. Progress(g, rows', run')
      <4>1. Label(f) \in Fresh => f.c = 1
        BY <3>5, Zenon DEF Progress
      <4>. QED BY <3>4, <3>5, <3>6, <3>7, <3>8, <3>9, <4>1, Zenon DEF Progress
    <3>11. Carries(a)
      BY <3>4, <3>8, <3>9, <3>10, Zenon DEF Carries, f
    <3>12. Adds(a)
      BY <2>1, <3>2, Zenon DEF Adds, f
    <3>. QED BY <3>11, <3>12, Zenon DEF Keeps
  <2>. QED BY <1>SettlePending, <2>2, <2>3, <2>4, Zenon DEF SettlePending, f

<1>Invoke. ASSUME Invoke(a) PROVE Keeps(a)
  <2>. DEFINE g == [f EXCEPT !.pc = "calling"]
  <2>1. f.pc \in Looping /\ UNCHANGED store /\ Step(a, g)
    BY <1>Invoke, Zenon DEF Invoke, Looping, f
  <2>2. g.pc = "calling" /\ Alike(f, g)
    BY <1>Own, BlankFields, Zenon DEF FrameType, Alike
  <2>. HIDE DEF g
  <2>3. g.pc \in Looping \ {"skip"} /\ UNCHANGED rows /\ fr' = [fr EXCEPT ![a] = g]
    BY <2>1, <2>2, Zenon DEF Looping, Step, store
  <2>. QED BY <2>1, <2>2, <2>3, LoopCarries, UnchangedCalm, Zenon DEF Keeps, f

(* A call that returned: the row, and the loop goes on. *)
<1>Returned. ASSUME NEW to, NEW kind \in {"ok", "error", "stop"}, kind = "stop" => Bench(a),
                    f.pc = "calling", complete(f.r, f.c, f.att[f.c], to, kind), NEW g,
                    g.pc = "loop", g.c = f.c + 1, g.r = f.r, g.done = f.done, g.pend = f.pend,
                    g.stop => f.stop \/ kind = "stop", Step(a, g)
             PROVE  Keeps(a)
  <2>1. f.r \in Runs /\ f.c \in Cases /\ Active(f)
    BY <1>Case, <1>Returned, Zenon DEF CasePc
  <2>2. RowsKept /\ rows'[f.r][f.c] = kind /\ Completes(f.r)
    <3>1. \E n, m : complete(f.r, f.c, n, m, kind)
      BY <1>Returned, Zenon
    <3>2. kind = "stop" => f.r \in BenchmarkRuns
      BY <1>Returned, Zenon DEF Bench, f
    <3>. QED BY <1>Type, <2>1, <3>1, <3>2, CompleteRows, Zenon
  <2>3. f.c \in Rowed(rows', f.r) /\ (kind = "stop" => Stopped(rows', f.r))
    BY <2>1, <2>2, Zenon DEF Rowed, Stopped
  <2>4. fr' = [fr EXCEPT ![a] = g]
    BY <1>Returned, Zenon DEF Step
  <2>5. Carries(a)
    BY <1>Returned, <2>2, <2>3, <2>4, NextCaseCarries, Zenon DEF f
  <2>6. Adds(a)
    BY <2>1, <2>2, Zenon DEF Adds, f
  <2>. QED BY <2>5, <2>6, Zenon DEF Keeps

<1>Respond. ASSUME Respond(a) PROVE Keeps(a)
  <2>. DEFINE g == [f EXCEPT !.pc = "loop", !.c = f.c + 1]
  <2>1. /\ f.pc = "calling"
        /\ \/ complete(f.r, f.c, f.att[f.c], "succeeded", "ok") /\ Step(a, g)
           \/ Raise(a) /\ UNCHANGED store
    BY <1>Respond, Zenon DEF Respond, NextCase, f
  <2>2. /\ g.pc = "loop" /\ g.c = f.c + 1 /\ g.r = f.r /\ g.done = f.done /\ g.pend = f.pend
        /\ g.stop = f.stop
    BY <1>Own, BlankFields, Zenon DEF FrameType
  <2>. HIDE DEF g
  <2>3. "ok" \in {"ok", "error", "stop"} /\ "ok" # "stop"
    BY Zenon
  <2>. QED BY <1>Returned, <2>1, <2>2, <2>3, LeaveKeeps, Zenon

<1>CallFails. ASSUME CallFails(a) PROVE Keeps(a)
  <2>1. CASE Raise(a) /\ UNCHANGED store
    BY <2>1, LeaveKeeps, Zenon
  <2>2. CASE /\ Bench(a) /\ f.pc = "calling" /\ complete(f.r, f.c, f.att[f.c], "failed", "stop")
             /\ NextCase(a, [f EXCEPT !.stop = TRUE])
    <3>. DEFINE h == [f EXCEPT !.stop = TRUE]
                g == [h EXCEPT !.pc = "loop", !.c = h.c + 1]
    <3>1. /\ h.c = f.c /\ h.r = f.r /\ h.done = f.done /\ h.pend = f.pend
          /\ DOMAIN h = DOMAIN f
      BY <1>Own, BlankFields, Zenon DEF FrameType
    <3>2. Step(a, g)
      BY <2>2, Zenon DEF NextCase
    <3>. HIDE DEF h
    <3>3. g.pc = "loop" /\ g.c = f.c + 1 /\ g.r = f.r /\ g.done = f.done /\ g.pend = f.pend
      BY <1>Own, <3>1, BlankFields, Zenon DEF FrameType
    <3>. HIDE DEF g
    <3>. QED BY <1>Returned, <2>2, <3>2, <3>3, Zenon
  <2>3. CASE /\ f.pc = "calling" /\ complete(f.r, f.c, f.att[f.c], "failed", "error")
             /\ Step(a, Honor(f, "beginRaise", "foq"))
    <3>. DEFINE g == Honor(f, "beginRaise", "foq")
    <3>1. g.pc = "honor" /\ g.ret = "beginRaise" /\ fr' = [fr EXCEPT ![a] = g]
      BY <1>Own, <2>3, BlankFields, Zenon DEF FrameType, Honor, Step
    <3>. HIDE DEF g
    <3>2. Unmarked(g)
      BY <3>1, Zenon DEF Unmarked, Label, HonorPc, TransitionPc, Marked, Fresh, Looping, Sweeping,
                         Closing, AppendPc
    <3>3. f.r \in Runs /\ f.c \in Cases /\ Active(f)
      BY <1>Case, <2>3, Zenon DEF CasePc
    <3>4. Adds(a)
      <4>1. \E n, to : complete(f.r, f.c, n, to, "error")
        BY <2>3, Zenon
      <4>2. Completes(f.r)
        BY <1>Type, <3>3, <4>1, CompleteRows, Zenon
      <4>. QED BY <3>3, <4>2, Zenon DEF Adds, f
    <3>. QED BY <3>1, <3>2, <3>4, UnmarkedCarries, Zenon DEF Keeps
  <2>. QED BY <1>CallFails, <2>1, <2>2, <2>3, Zenon DEF CallFails, f

<1>CallFailsTransiently. ASSUME CallFailsTransiently(a) PROVE Keeps(a)
  <2>. DEFINE h == [f EXCEPT !.pend = @ \cup {f.c}]
              g == [h EXCEPT !.pc = "loop", !.c = h.c + 1]
  <2>1. f.pc = "calling" /\ UNCHANGED store /\ Step(a, g)
    BY <1>CallFailsTransiently, Zenon DEF CallFailsTransiently, NextCase, f
  <2>2. /\ h.c = f.c /\ h.r = f.r /\ h.done = f.done /\ h.pend = f.pend \cup {f.c}
        /\ h.stop = f.stop /\ DOMAIN h = DOMAIN f
    BY <1>Own, BlankFields, Zenon DEF FrameType
  <2>. HIDE DEF h
  <2>3. /\ g.pc = "loop" /\ g.c = f.c + 1 /\ g.r = f.r /\ g.done = f.done
        /\ g.pend = f.pend \cup {f.c} /\ g.stop = f.stop
    BY <1>Own, <2>2, BlankFields, Zenon DEF FrameType
  <2>4. RowsKept /\ fr' = [fr EXCEPT ![a] = g]
    BY <2>1, UnchangedKept, Zenon DEF Step, store
  <2>. HIDE DEF g
  <2>5. Carries(a)
    BY <2>1, <2>3, <2>4, NextCaseCarries, Zenon DEF f
  <2>. QED BY <2>1, <2>5, UnchangedCalm, Zenon DEF Keeps

<1>Quarantined. ASSUME CallQuarantined(a) \/ ScoreRaises(a) PROVE Keeps(a)
  <2>1. UNCHANGED store /\ Step(a, [fr[a] EXCEPT !.pc = "foq"])
    BY <1>Quarantined, Zenon DEF CallQuarantined, ScoreRaises
  <2>. QED BY <2>1, AsideStep, Zenon DEF Aside

<1>Sweep. ASSUME Sweep(a) PROVE Keeps(a)
  <2>1. /\ f.pc = "sweep" /\ UNCHANGED store
        /\ IF f.pend = {} THEN Step(a, Transition(f, "collecting", "collected"))
           ELSE Step(a, Checkpoint([f EXCEPT !.c = Min(f.pend)], "second", "die"))
    BY <1>Sweep, Zenon DEF Sweep, f
  <2>2. Label(f) = "sweep" /\ InSweep(f, rows)
    BY <1>Own, <1>Label, <2>1, Zenon DEF Progress, Sweeping, HonorPc, TransitionPc
  <2>3. CASE f.pend = {}
    <3>. DEFINE g == Transition(f, "collecting", "collected")
    <3>1. /\ g.pc = "transition" /\ g.ret = "collected" /\ g.to = "collecting" /\ g.r = f.r
          /\ Step(a, g)
      BY <1>Own, <2>1, <2>3, BlankFields, Zenon DEF FrameType, Transition
    <3>. HIDE DEF g
    <3>2. Rowed(rows, f.r) = Cases
      BY <2>2, <2>3, Zenon DEF InSweep, Rowed
    <3>3. Label(g) = "collected" /\ g.to # "completed"
      BY <3>1, Zenon DEF Label, TransitionPc
    <3>4. InClosing(g, rows) /\ Label(g) \in Closing
      BY <2>2, <3>1, <3>2, <3>3, Zenon DEF InClosing, InSweep, Closing
    <3>5. Progress(g, rows, run) /\ ~Past(g) /\ ~Partial(g)
      BY <3>3, <3>4, ClosingProgress, Zenon
    <3>. QED BY <2>1, <3>1, <3>5, StepKeeps, Zenon
  <2>4. CASE f.pend # {}
    <3>. DEFINE h == [f EXCEPT !.c = Min(f.pend)]
                g == Checkpoint(h, "second", "die")
    <3>1. /\ g.pc \in {"honor", "checkpoint"} /\ g.ret = "second" /\ g.r = f.r /\ g.pend = f.pend
          /\ Step(a, g)
      BY <1>Own, <2>1, <2>4, BlankFields, Zenon DEF FrameType, Checkpoint, Honor
    <3>. HIDE DEF g
    <3>2. Label(g) \in Sweeping /\ g.pc \notin TransitionPc
      BY <3>1, Zenon DEF Label, HonorPc, TransitionPc, Sweeping
    <3>3. InSweep(g, rows)
      BY <2>2, <3>1, Zenon DEF InSweep
    <3>4. Progress(g, rows, run) /\ ~Past(g) /\ ~Partial(g)
      BY <3>2, <3>3, SweepProgress, Zenon
    <3>. QED BY <2>1, <3>1, <3>4, StepKeeps, Zenon
  <2>. QED BY <2>3, <2>4, Zenon

<1>SecondCall. ASSUME SecondCall(a) PROVE Keeps(a)
  <2>. DEFINE g == [f EXCEPT !.pc = "secondCalling", !.pend = @ \ {f.c}]
  <2>1. f.pc = "second" /\ UNCHANGED store /\ (Step(a, g) \/ Die(a))
    BY <1>SecondCall, Zenon DEF SecondCall, f
  <2>2. Label(f) = "second" /\ InSweep(f, rows)
    BY <1>Own, <1>Label, <2>1, Zenon DEF Progress, Sweeping, HonorPc, TransitionPc
  <2>3. g.pc = "secondCalling" /\ g.r = f.r /\ g.c = f.c /\ g.pend = f.pend \ {f.c}
    BY <1>Own, BlankFields, Zenon DEF FrameType
  <2>. HIDE DEF g
  <2>4. Label(g) = "secondCalling" /\ Label(g) \in Sweeping /\ g.pc \notin TransitionPc
    BY <2>3, Zenon DEF Label, HonorPc, TransitionPc, Sweeping
  <2>5. InSweep(g, rows)
    BY <2>2, <2>3, <2>4, Zenon DEF InSweep
  <2>6. Progress(g, rows, run) /\ ~Past(g) /\ ~Partial(g)
    BY <2>4, <2>5, SweepProgress, Zenon
  <2>. QED BY <2>1, <2>6, StepKeeps, LeaveKeeps, Zenon

<1>SecondOutcome. ASSUME SecondOutcome(a) PROVE Keeps(a)
  <2>. DEFINE g == [f EXCEPT !.pc = "sweep"]
  <2>1. f.pc = "secondCalling" /\ f.pc \in CasePc
    BY <1>SecondOutcome, Zenon DEF SecondOutcome, CasePc, f
  <2>2. f.r \in Runs /\ f.c \in Cases /\ Active(f)
    BY <1>Case, <2>1, Zenon
  <2>3. Label(f) = "secondCalling" /\ InSweep(f, rows)
    BY <1>Own, <1>Label, <2>1, Zenon DEF Progress, Sweeping, HonorPc, TransitionPc
  <2>4. g.pc = "sweep" /\ g.r = f.r /\ g.pend = f.pend
    BY <1>Own, BlankFields, Zenon DEF FrameType
  <2>5. CASE Die(a) /\ UNCHANGED store
    BY <2>5, LeaveKeeps, Zenon
  <2>6. ASSUME NEW to, NEW kind \in {"ok", "error", "stop"}, complete(f.r, f.c, f.att[f.c], to, kind), Step(a, g)
        PROVE  Keeps(a)
    <3>. HIDE DEF g
    <3>0. f.r \in BenchmarkRuns /\ \E n, m : complete(f.r, f.c, n, m, kind)
      BY <2>3, <2>6, Zenon DEF InSweep
    <3>1. RowsKept /\ rows'[f.r][f.c] = kind /\ Completes(f.r)
      BY <1>Type, <2>2, <3>0, CompleteRows, Zenon
    <3>2. f.c \in Rowed(rows', f.r) /\ Rowed(rows, f.r) \subseteq Rowed(rows', f.r)
      BY <2>2, <2>6, <3>1, RowsGrown, Zenon DEF Rowed, RowsKept
    <3>3. InSweep(g, rows')
      BY <2>3, <2>4, <3>2, Zenon DEF InSweep
    <3>4. Label(g) \in Sweeping /\ g.pc \notin TransitionPc
      BY <2>4, Zenon DEF Label, HonorPc, TransitionPc, Sweeping
    <3>5. Carries(a)
      BY <2>6, <3>3, <3>4, SweepProgress, Zenon DEF Carries, Step
    <3>6. Adds(a)
      BY <2>2, <3>1, Zenon DEF Adds, f
    <3>. QED BY <3>5, <3>6, Zenon DEF Keeps
  <2>7. {"ok", "stop"} \subseteq {"ok", "error", "stop"}
    BY Zenon
  <2>. HIDE DEF g
  <2>. QED BY <1>SecondOutcome, <2>5, <2>6, <2>7, Zenon DEF SecondOutcome, f, g

<1>Results. ASSUME Results(a) PROVE Keeps(a)
  <2>. DEFINE h == [f EXCEPT !.done = Persisted(f.r)]
              g == Transition(h, "collecting", "collected")
  <2>1. f.pc = "results" /\ UNCHANGED store /\ Step(a, g)
    BY <1>Results, Zenon DEF Results, f
  <2>2. Rowed(rows, f.r) = Cases /\ Persisted(f.r) = Cases
    BY <1>Own, <1>Label, <2>1, Zenon DEF Progress, InClosing, Closing, HonorPc, TransitionPc, Rowed, Persisted
  <2>3. /\ g.pc = "transition" /\ g.ret = "collected" /\ g.to = "collecting" /\ g.r = f.r
        /\ g.done = Persisted(f.r)
    BY <1>Own, BlankFields, Zenon DEF FrameType, Transition
  <2>. HIDE DEF g
  <2>4. Label(g) = "collected" /\ g.to # "completed"
    BY <2>3, Zenon DEF Label, TransitionPc
  <2>5. InClosing(g, rows) /\ Label(g) \in Closing
    BY <2>2, <2>3, <2>4, Zenon DEF InClosing, Closing
  <2>6. Progress(g, rows, run) /\ ~Past(g) /\ ~Partial(g)
    BY <2>4, <2>5, ClosingProgress, Zenon
  <2>. QED BY <2>1, <2>6, StepKeeps, Zenon

<1>Score. ASSUME Score(a) PROVE Keeps(a)
  <2>. DEFINE h == [f EXCEPT !.exc = "foq", !.src = "initial",
                             !.done = IF Bench(a) THEN Persisted(f.r) ELSE @]
  <2>1. f.pc = "score" /\ UNCHANGED store
    BY <1>Score, Zenon DEF Score, f
  <2>2. h.r = f.r /\ DOMAIN h = DOMAIN f /\ h.src = "initial" /\ h.done = IF Bench(a) THEN Persisted(f.r) ELSE f.done
    BY <1>Own, BlankFields, Zenon DEF FrameType
  <2>3. PICK final : /\ Step(a, Honor([h EXCEPT !.to = final], "append", "foq"))
                     /\ final = "completed" =>
                          ~(Bench(a) /\ \E c \in Cases : rows[h.r][c] \in {"error", "stop"})
    BY <1>Score, Zenon DEF Score, f
  <2>4. Label(f) = "score" /\ InClosing(f, rows)
    BY <1>Own, <1>Label, <2>1, Zenon DEF Progress, Closing, HonorPc, TransitionPc
  <2>. HIDE DEF h
  <2>. DEFINE k == [h EXCEPT !.to = final]
              g == Honor(k, "append", "foq")
  <2>5. k.r = f.r /\ k.to = final /\ k.src = "initial" /\ k.done = h.done /\ DOMAIN k = DOMAIN f
    BY <1>Own, <2>2, BlankFields, Zenon DEF FrameType
  <2>. HIDE DEF k
  <2>6. g.pc = "honor" /\ g.ret = "append" /\ g.r = f.r /\ g.to = final /\ g.src = "initial" /\ g.done = h.done
    BY <1>Own, <2>5, BlankFields, Zenon DEF FrameType, Honor
  <2>7. Step(a, g)
    BY <2>3, Zenon DEF k
  <2>. HIDE DEF g
  <2>8. Publishing(g) /\ g.pc \notin TransitionPc
    BY <2>6, Zenon DEF Publishing, Label, HonorPc, TransitionPc, AppendPc
  <2>9. Rowed(rows, g.r) = Cases /\ g.done = Cases
    BY <2>2, <2>4, <2>6, Zenon DEF InClosing, Rowed, Persisted, Bench, f
  <2>10. final = "completed" => ~Stopped(rows, g.r)
    <3>1. f.r \in Runs
      BY <1>Run, <2>1, Zenon DEF Active, Resting, RecoverPc
    <3>2. Stopped(rows, f.r) => Bench(a)
      BY <1>Own, <3>1, Zenon DEF RowsInv, Bench, f
    <3>. QED BY <2>2, <2>3, <2>6, <3>2, Zenon DEF Stopped
  <2>11. Progress(g, rows, run) /\ ~Partial(g)
    BY <2>6, <2>8, <2>9, <2>10, PublishingProgress, Zenon DEF InPublishing
  <2>. QED BY <2>1, <2>4, <2>6, <2>7, <2>11, StepKeeps, Zenon DEF Past, f

<1>. QED
  BY <1>Execute, <1>Rows, <1>Loop, <1>Skip, <1>CancelCheckpoint, <1>SettlePending, <1>Invoke,
     <1>Respond, <1>CallFails, <1>CallFailsTransiently, <1>Quarantined, <1>Sweep, <1>SecondCall,
     <1>SecondOutcome, <1>Results, <1>Score, Zenon DEF ExecuteStep

-----------------------------------------------------------------------------
(* Recovery at the start of a Worker: no execution is under way. *)
LEMMA RecoveryKeeps ==
  ASSUME CompletionInv, NEW a \in Actors,
         \/ Start(a) \/ RecoverRun(a) \/ RecoverPrepared(a) \/ RecoverUncertain(a)
         \/ RecoverSafe(a) \/ RecoverQuarantine(a) \/ Requeue(a)
  PROVE  Keeps(a)
<1>. DEFINE f == fr[a]
<1>Own. TypeOK /\ FrameType(f) /\ (f.pc \in RecoverPc \ {"recover", "requeue"} => f.r \in Runs)
  BY OwnProgress, Zenon DEF WorkerInv, ActorsInv, Frame, Control
<1>Goes. ASSUME NEW g, fr' = [fr EXCEPT ![a] = g], g.pc \in RecoverPc PROVE Carries(a)
  BY <1>Goes, AsideUnmarked, UnmarkedCarries, Zenon DEF Aside
<1>. HIDE DEF f
<1>Next. ASSUME NextRecovered(a) PROVE Carries(a)
  <2>. DEFINE g == [f EXCEPT !.pc = "recover", !.r = @ + 1]
  <2>1. g.pc = "recover" /\ fr' = [fr EXCEPT ![a] = g]
    BY <1>Own, <1>Next, BlankFields, Zenon DEF FrameType, NextRecovered, Step, f
  <2>. HIDE DEF g
  <2>. QED BY <1>Goes, <2>1, Zenon DEF RecoverPc

<1>Start. ASSUME Start(a) PROVE Keeps(a)
  <2>. DEFINE g == [Blank("recover") EXCEPT !.list = run, !.r = 1]
  <2>1. g.pc = "recover" /\ fr' = [fr EXCEPT ![a] = g] /\ UNCHANGED store
    BY <1>Start, BlankFields, Zenon DEF Start
  <2>. HIDE DEF g
  <2>. QED BY <1>Goes, <2>1, UnchangedCalm, Zenon DEF RecoverPc, Keeps

<1>RecoverRun. ASSUME RecoverRun(a) PROVE Keeps(a)
  <2>. DEFINE left == {r \in Runs : r >= f.r /\ f.list[r].status # "absent"}
              seen == Slots(Min(left), "prepared")
              g == [f EXCEPT !.pc = "requeue"]
              h == [f EXCEPT !.pc = "recoverPrepared", !.r = Min(left), !.seen = seen]
  <2>1. UNCHANGED store /\ (fr' = [fr EXCEPT ![a] = g] \/ fr' = [fr EXCEPT ![a] = h])
    BY <1>RecoverRun, Zenon DEF RecoverRun, Step, f
  <2>. HIDE DEF left, seen
  <2>2. g.pc = "requeue" /\ h.pc = "recoverPrepared"
    BY <1>Own, BlankFields, Zenon DEF FrameType
  <2>. HIDE DEF g, h
  <2>. QED BY <1>Goes, <2>1, <2>2, UnchangedCalm, Zenon DEF RecoverPc, Keeps

<1>RecoverUncertain. ASSUME RecoverUncertain(a) PROVE Keeps(a)
  <2>. DEFINE seen == Slots(f.r, "dispatching")
              g == [f EXCEPT !.pc = "recoverQuarantine"]
              h == [f EXCEPT !.pc = "recoverSafe", !.seen = seen]
  <2>1. /\ UNCHANGED store
        /\ NextRecovered(a) \/ fr' = [fr EXCEPT ![a] = g] \/ fr' = [fr EXCEPT ![a] = h]
    BY <1>RecoverUncertain, Zenon DEF RecoverUncertain, Step, f
  <2>. HIDE DEF seen
  <2>2. g.pc = "recoverQuarantine" /\ h.pc = "recoverSafe"
    BY <1>Own, BlankFields, Zenon DEF FrameType
  <2>. HIDE DEF g, h
  <2>. QED BY <1>Goes, <1>Next, <2>1, <2>2, UnchangedCalm, Zenon DEF RecoverPc, Keeps

(* An Attempt that was listed is given up. *)
<1>GivesUp. ASSUME f.pc \in RecoverPc \ {"recover", "requeue"}, NEW s \in f.seen,
                   Step(a, [f EXCEPT !.seen = @ \ {s}]), NEW from \in {"prepared", "dispatching"},
                   attempt_transition(f.r, s[1], s[2], from, "failed") \/ UNCHANGED store
            PROVE  Keeps(a)
  <2>. DEFINE g == [f EXCEPT !.seen = @ \ {s}]
  <2>1. g.pc = f.pc /\ fr' = [fr EXCEPT ![a] = g]
    BY <1>Own, <1>GivesUp, BlankFields, Zenon DEF FrameType, Step
  <2>. HIDE DEF g
  <2>2. CASE attempt_transition(f.r, s[1], s[2], from, "failed")
    <3>1. s[1] \in Cases /\ "failed" \in AttemptStatus
      BY <1>Own, <1>GivesUp, Zenon DEF FrameType, AttemptStatus
    <3>2. /\ s[2] \in DOMAIN attempts[f.r][s[1]] /\ attempts[f.r][s[1]][s[2]] = from
          /\ Advance(f.r, s[1], s[2], "failed") /\ UNCHANGED <<run, rows, passes>>
      BY <2>2, Zenon DEF attempt_transition
    <3>3. Calm
      BY <1>Own, <1>GivesUp, <3>1, <3>2, AdvanceCalm, Zenon
    <3>. QED BY <1>Goes, <1>GivesUp, <2>1, <3>3, Zenon DEF Keeps
  <2>3. CASE UNCHANGED store
    BY <1>Goes, <1>GivesUp, <2>1, <2>3, UnchangedCalm, Zenon DEF Keeps
  <2>. QED BY <1>GivesUp, <2>2, <2>3, Zenon

<1>RecoverPrepared. ASSUME RecoverPrepared(a) PROVE Keeps(a)
  <2>. DEFINE g == [f EXCEPT !.pc = "recoverUncertain"]
  <2>1. /\ f.pc \in RecoverPc \ {"recover", "requeue"}
        /\ \/ Step(a, g) /\ UNCHANGED store
           \/ \E s \in f.seen : /\ \/ attempt_transition(f.r, s[1], s[2], "prepared", "failed")
                                   \/ UNCHANGED store
                                /\ Step(a, [f EXCEPT !.seen = @ \ {s}])
    BY <1>RecoverPrepared, Zenon DEF RecoverPrepared, RecoverPc, f
  <2>2. CASE Step(a, g) /\ UNCHANGED store
    <3>1. g.pc = "recoverUncertain" /\ fr' = [fr EXCEPT ![a] = g]
      BY <1>Own, <2>2, BlankFields, Zenon DEF FrameType, Step
    <3>. HIDE DEF g
    <3>. QED BY <1>Goes, <2>2, <3>1, UnchangedCalm, Zenon DEF RecoverPc, Keeps
  <2>. HIDE DEF g
  <2>. QED BY <1>GivesUp, <2>1, <2>2, Zenon

<1>RecoverSafe. ASSUME RecoverSafe(a) PROVE Keeps(a)
  <2>1. /\ f.pc \in RecoverPc \ {"recover", "requeue"}
        /\ \/ NextRecovered(a) /\ UNCHANGED store
           \/ Die(a) /\ UNCHANGED store
           \/ \E s \in f.seen : /\ attempt_transition(f.r, s[1], s[2], "dispatching", "failed")
                                /\ Step(a, [f EXCEPT !.seen = @ \ {s}])
    BY <1>RecoverSafe, Zenon DEF RecoverSafe, RecoverPc, f
  <2>. QED BY <1>GivesUp, <1>Next, <2>1, LeaveKeeps, UnchangedCalm, Zenon DEF Keeps

<1>RecoverQuarantine. ASSUME RecoverQuarantine(a) PROVE Keeps(a)
  <2>1. /\ f.pc \in RecoverPc \ {"recover", "requeue"}
        /\ \/ \E revision, status : quarantine_indeterminate(f.r, revision, status) /\ NextRecovered(a)
           \/ Die(a) /\ UNCHANGED store
    BY <1>RecoverQuarantine, Zenon DEF RecoverQuarantine, RecoverPc, f
  <2>. QED BY <1>Own, <1>Next, <2>1, LeaveKeeps, QuarantineCalm, Zenon DEF Keeps

<1>Requeue. ASSUME Requeue(a) PROVE Keeps(a)
  <2>1. \A r \in Runs : run'[r].status = "completed" => run'[r] = run[r]
    BY <1>Requeue, Zenon DEF Requeue, requeue_interrupted
  <2>2. Calm
    BY <1>Requeue, <2>1, RunCalm, Zenon DEF Requeue, requeue_interrupted
  <2>. QED BY <1>Requeue, <2>2, RestCarries, Zenon DEF Requeue, Keeps

<1>. QED BY <1>Start, <1>RecoverRun, <1>RecoverPrepared, <1>RecoverUncertain, <1>RecoverSafe,
            <1>RecoverQuarantine, <1>Requeue, Zenon

-----------------------------------------------------------------------------
(* The steps that begin something. *)
LEMMA ClaimKeeps ==
  ASSUME CompletionInv, NEW a \in Workers, Claim(a)
  PROVE  Keeps(a)
<1>. DEFINE r == Min(Queued)
            g == [Blank("build") EXCEPT !.r = r]
<1>1. claim(r) /\ fr' = [fr EXCEPT ![a] = g]
  BY Zenon DEF Claim
<1>. HIDE DEF r
<1>2. g.pc = "build" /\ g.c = 1
  <2>1. Blank("build").c = 1
    BY Zenon DEF Blank
  <2>. QED BY <2>1, BlankFields, Zenon
<1>. HIDE DEF g
<1>3. Label(g) \in Fresh /\ g.pc \notin TransitionPc
  BY <1>2, Zenon DEF Label, Fresh, HonorPc, TransitionPc
<1>4. Progress(g, rows', run') /\ ~Past(g) /\ ~Partial(g)
  BY <1>2, <1>3, FreshProgress, Zenon
<1>5. Calm
  BY <1>1, NextRunCalm, Zenon DEF claim, CompletionInv, WorkerInv, StoreInv
<1>. QED BY <1>1, <1>4, <1>5, Zenon DEF Keeps, Carries

LEMMA BuildKeeps ==
  ASSUME CompletionInv, NEW a \in Actors, Build(a)
  PROVE  Keeps(a)
<1>. DEFINE f == fr[a]
            g == [f EXCEPT !.pc = "execute"]
<1>1. /\ f.pc = "build" /\ UNCHANGED store
      /\ Step(a, g) \/ Step(a, [f EXCEPT !.pc = "unsupported"])
  BY Zenon DEF Build
<1>2. FrameType(f) /\ f.c = 1
  BY <1>1, OwnProgress, Zenon DEF Progress, Label, Fresh, HonorPc, TransitionPc
<1>3. CASE Step(a, g)
  <2>. HIDE DEF f
  <2>1. g.pc = "execute" /\ g.c = 1
    BY <1>2, BlankFields, Zenon DEF FrameType
  <2>. HIDE DEF g
  <2>2. Label(g) \in Fresh /\ g.pc \notin TransitionPc
    BY <2>1, Zenon DEF Label, Fresh, HonorPc, TransitionPc
  <2>. QED BY <1>1, <1>3, <2>1, <2>2, FreshProgress, StepKeeps, Zenon
<1>4. CASE Step(a, [f EXCEPT !.pc = "unsupported"])
  BY <1>1, <1>4, AsideStep, Zenon DEF Aside
<1>. QED BY <1>1, <1>3, <1>4, Zenon

LEMMA AsksKeeps ==
  ASSUME CompletionInv, NEW a \in Clients, Asks(a)
  PROVE  Keeps(a)
<1>1. PICK r \in Runs, pc \in {"cancel", "rescore", "retry", "stale"}, flag \in BOOLEAN :
        Request(a, r, pc, flag)
  BY Zenon DEF Asks
<1>. DEFINE g == [Blank(pc) EXCEPT !.r = r, !.flag = flag]
<1>2. fr' = [fr EXCEPT ![a] = g] /\ UNCHANGED store
  BY <1>1, Zenon DEF Request
<1>3. g.pc = pc /\ g.to = "none" /\ g.synth = {}
  <2>1. Blank(pc).to = "none" /\ Blank(pc).synth = {}
    BY Zenon DEF Blank
  <2>. QED BY <2>1, BlankFields, Zenon
<1>. HIDE DEF g
<1>4. CASE pc = "rescore"
  <2>1. Rescoring(g) /\ g.pc # "rescoreRows" /\ ~Partial(g)
    BY <1>3, <1>4, Zenon DEF Rescoring, Partial, AppendPc
  <2>2. Progress(g, rows', run') /\ ~Past(g)
    BY <1>3, <2>1, RescoringProgress, Zenon
  <2>. QED BY <1>2, <2>1, <2>2, UnchangedCalm, Zenon DEF Keeps, Carries
<1>5. CASE pc \in {"cancel", "retry", "stale"}
  <2>1. Unmarked(g)
    BY <1>3, <1>5, AsideUnmarked, Zenon DEF Aside
  <2>. QED BY <1>2, <2>1, UnmarkedCarries, UnchangedCalm, Zenon DEF Keeps
<1>. QED BY <1>4, <1>5, Zenon

(* Every step. *)
LEMMA NextKeeps ==
  ASSUME CompletionInv, Next
  PROVE  (UNCHANGED fr /\ Calm) \/ \E a \in Actors : Keeps(a)
<1>0. Workers \subseteq Actors /\ Clients \subseteq Actors /\ TypeOK
  BY Zenon DEF Actors, CompletionInv, WorkerInv, StoreInv
<1>1. CASE Submit
  <2>1. PICK r \in Runs : create(r) /\ UNCHANGED fr
    BY <1>1, Zenon DEF Submit
  <2>2. \A q \in Runs : run'[q].status = "completed" => run'[q] = run[q]
    BY <1>0, <2>1, Zenon DEF create, TypeOK
  <2>3. Calm
    BY <2>1, <2>2, RunCalm, Zenon DEF create
  <2>. QED BY <2>1, <2>3, Zenon
<1>2. CASE RestoreBackup \/ ClearGuard
  <2>1. UNCHANGED store /\ UNCHANGED fr
    BY <1>2, Zenon DEF RestoreBackup, ClearGuard
  <2>. QED BY <2>1, UnchangedCalm, Zenon
<1>3. ASSUME NEW w \in Workers, Poll(w) \/ LoseLock(w) PROVE UNCHANGED fr /\ Calm
  <2>1. UNCHANGED store /\ UNCHANGED fr
    BY <1>3, Zenon DEF Poll, LoseLock, vars
  <2>. QED BY <2>1, UnchangedCalm, Zenon
<1>4. ASSUME NEW w \in Workers, Crash(w) \/ AlreadyRunning(w) PROVE Keeps(w)
  BY <1>0, <1>4, LeaveKeeps, Zenon DEF Crash, AlreadyRunning
<1>5. ASSUME NEW w \in Workers, WorkerStep(w) PROVE Keeps(w)
  BY <1>0, <1>4, <1>5, ServiceKeeps, ExecuteKeeps, RecoveryKeeps, ClaimKeeps, BuildKeeps, Zenon
     DEF WorkerStep
<1>6. ASSUME NEW a \in Clients, ClientStep(a) PROVE Keeps(a)
  <2>1. ServiceStep(a) \/ Asks(a)
    BY <1>6, Zenon DEF ClientStep, Asks
  <2>. QED BY <1>0, <2>1, ServiceKeeps, AsksKeeps, Zenon
<1>. QED BY <1>0, <1>1, <1>2, <1>3, <1>4, <1>5, <1>6, Zenon DEF Next

-----------------------------------------------------------------------------
(* What the writes do to the tables. *)
Tabled(a) ==
  /\ RowsKept
  /\ RowsInv'
  /\ CompletedIsComplete'
  /\ \A r \in Runs : run'[r].status = "completed" =>
       run[r].status = "completed" \/ (Publishing(fr[a]) /\ fr[a].r = r)

LEMMA CalmTabled ==
  ASSUME RowsInv, CompletedIsComplete, Calm, NEW a
  PROVE  Tabled(a)
<1>1. rows' = rows /\ passes' = passes
  BY Zenon DEF Calm
<1>2. RowsInv'
  <2>1. \A r : Stopped(rows', r) <=> Stopped(rows, r)
    BY <1>1, Zenon DEF Stopped
  <2>2. ASSUME NEW r \in Runs, NEW c \in Cases, c \in list_open(r)'
        PROVE  rows'[r][c] \in {"none", "skipped"} /\ (rows'[r][c] = "skipped" => Stopped(rows', r))
    <3>1. c \in list_open(r) \/ rows[r][c] = "none"
      BY <2>2, Zenon DEF Calm
    <3>. QED BY <1>1, <2>1, <3>1, Zenon DEF RowsInv
  <2>3. \A r \in Runs : Stopped(rows', r) => r \in BenchmarkRuns
    BY <2>1, Zenon DEF RowsInv
  <2>. QED BY <2>2, <2>3, Zenon DEF RowsInv
<1>3. ASSUME NEW r \in Runs, run'[r].status = "completed"
      PROVE  /\ Persisted(r)' = Cases /\ list_open(r)' = {}
             /\ run'[r].current > 0 /\ passes'[r][run'[r].current].scored = Cases
  <2>1. run[r].status = "completed" /\ run'[r].current = run[r].current
    BY <1>3, Zenon DEF Calm
  <2>2. /\ Persisted(r) = Cases /\ list_open(r) = {}
        /\ run[r].current > 0 /\ passes[r][run[r].current].scored = Cases
    BY <2>1, Zenon DEF CompletedIsComplete
  <2>3. Persisted(r)' = Cases
    BY <1>1, <2>2, Zenon DEF Persisted
  <2>4. \A c \in Cases : rows[r][c] # "none"
    BY <2>2, Zenon DEF Persisted
  <2>5. list_open(r)' = {}
    <3>1. list_open(r)' \subseteq Cases
      BY Zenon DEF list_open, WithStatus
    <3>. QED BY <2>2, <2>4, <3>1, Zenon DEF Calm
  <2>. QED BY <1>1, <2>1, <2>2, <2>3, <2>5, Zenon
<1>4. CompletedIsComplete'
  BY <1>3, Zenon DEF CompletedIsComplete
<1>. QED BY <1>1, <1>2, <1>4, Zenon DEF Tabled, RowsKept, Calm

(* The end of an Attempt: it is the last one of its Case, so that the Case   *)
(* has no open Attempt once its row is there.                                *)
LEMMA CompletesTabled ==
  ASSUME StoreInv, RowsInv, CompletedIsComplete, NEW a, NEW r \in Runs, Completes(r)
  PROVE  Tabled(a)
<1>. TypeOK /\ OnlyLastAttemptCounts
  BY Zenon DEF StoreInv
<1>0. PICK c \in Cases, kind \in {"ok", "error", "stop"} :
        (\E n, to : complete(r, c, n, to, kind)) /\ (kind = "stop" => r \in BenchmarkRuns)
  BY Zenon DEF Completes
<1>1. PICK n, to : complete(r, c, n, to, kind)
  BY <1>0, Zenon
<1>2. /\ n \in DOMAIN attempts[r][c] /\ attempts[r][c][n] = "dispatching" /\ rows[r][c] = "none"
      /\ to \in {"succeeded", "failed"} /\ Advance(r, c, n, to) /\ run' = run /\ passes' = passes
  BY <1>1, Zenon DEF complete, can_complete
<1>3. \A q \in Runs, d \in Cases : rows'[q][d] = IF q = r /\ d = c THEN kind ELSE rows[q][d]
  BY <1>1, Zenon DEF complete, TypeOK
<1>4. to \in AttemptStatus
  BY <1>2, Zenon DEF AttemptStatus
<1>5. \A q \in Runs, d \in Cases :
        /\ DOMAIN attempts'[q][d] = DOMAIN attempts[q][d]
        /\ \A m \in DOMAIN attempts[q][d] :
             attempts'[q][d][m] = IF q = r /\ d = c /\ m = n THEN to ELSE attempts[q][d][m]
  BY <1>2, <1>4, AdvanceFacts
<1>6. \A m \in DOMAIN attempts[r][c] : m # n => attempts[r][c][m] = "failed"
  <2>1. attempts[r][c] \in Seq(AttemptStatus)
    BY Zenon DEF TypeOK
  <2>2. \A m \in 1..(Len(attempts[r][c]) - 1) : attempts[r][c][m] = "failed"
    BY Zenon DEF OnlyLastAttemptCounts
  <2>3. \A m \in DOMAIN attempts[r][c] : m \in 1..(Len(attempts[r][c]) - 1) \/ m = Len(attempts[r][c])
    BY <2>1
  <2>4. n = Len(attempts[r][c])
    BY <1>2, <2>2, <2>3, Zenon
  <2>. QED BY <2>2, <2>3, <2>4, Zenon
<1>7. c \notin list_open(r)'
  <2>1. \A m \in DOMAIN attempts'[r][c] : attempts'[r][c][m] \in {"succeeded", "failed"}
    BY <1>2, <1>5, <1>6, Zenon
  <2>. QED BY <2>1, Zenon DEF list_open, WithStatus, OpenStatus
<1>8. \A q \in Runs, d \in Cases : d \in list_open(q)' => d \in list_open(q)
  <2> SUFFICES ASSUME NEW q \in Runs, NEW d \in Cases, d \in list_open(q)' PROVE d \in list_open(q)
    OBVIOUS
  <2>1. PICK m \in DOMAIN attempts'[q][d] : attempts'[q][d][m] \in OpenStatus
    BY Zenon DEF list_open, WithStatus
  <2>2. m \in DOMAIN attempts[q][d] /\ attempts'[q][d][m] \in {to, attempts[q][d][m]}
    BY <1>5, <2>1
  <2>3. attempts[q][d][m] \in OpenStatus
    BY <1>2, <2>1, <2>2, Zenon DEF OpenStatus
  <2>. QED BY <2>2, <2>3, Zenon DEF list_open, WithStatus
<1>9. RowsKept /\ \A q \in Runs : Stopped(rows, q) => Stopped(rows', q)
  BY <1>2, <1>3, Zenon DEF RowsKept, Stopped
<1>10. RowsInv'
  <2>1. ASSUME NEW q \in Runs, NEW d \in Cases, rows'[q][d] \notin {"none", "skipped"}
        PROVE  d \notin list_open(q)'
    BY <1>3, <1>7, <1>8, <2>1, Zenon DEF RowsInv
  <2>2. ASSUME NEW q \in Runs, NEW d \in Cases, rows'[q][d] = "skipped", d \in list_open(q)'
        PROVE  Stopped(rows', q)
    <3>1. rows[q][d] = "skipped"
      BY <1>3, <2>2, Zenon
    <3>. QED BY <1>8, <1>9, <2>2, <3>1, Zenon DEF RowsInv
  <2>3. ASSUME NEW q \in Runs, Stopped(rows', q) PROVE q \in BenchmarkRuns
    <3>1. PICK d \in Cases : rows'[q][d] = "stop"
      BY <2>3, Zenon DEF Stopped
    <3>2. (q = r /\ kind = "stop") \/ Stopped(rows, q)
      BY <1>3, <3>1, Zenon DEF Stopped
    <3>. QED BY <1>0, <3>2, Zenon DEF RowsInv
  <2>. QED BY <2>1, <2>2, <2>3, Zenon DEF RowsInv
<1>11. ASSUME NEW q \in Runs, run'[q].status = "completed"
       PROVE  /\ Persisted(q)' = Cases /\ list_open(q)' = {}
              /\ run'[q].current > 0 /\ passes'[q][run'[q].current].scored = Cases
  <2>1. /\ Persisted(q) = Cases /\ list_open(q) = {}
        /\ run[q].current > 0 /\ passes[q][run[q].current].scored = Cases
    BY <1>2, <1>11, Zenon DEF CompletedIsComplete
  <2>2. Persisted(q)' = Cases
    <3>1. \A d \in Cases : rows[q][d] # "none"
      BY <2>1, Zenon DEF Persisted
    <3>2. \A d \in Cases : rows'[q][d] # "none"
      BY <1>9, <3>1, Zenon DEF RowsKept
    <3>. QED BY <3>2, Zenon DEF Persisted
  <2>3. list_open(q)' = {}
    <3>1. list_open(q)' \subseteq Cases
      BY Zenon DEF list_open, WithStatus
    <3>. QED BY <1>8, <2>1, <3>1, Zenon
  <2>. QED BY <1>2, <2>1, <2>2, <2>3, Zenon
<1>12. CompletedIsComplete'
  BY <1>11, Zenon DEF CompletedIsComplete
<1>. QED BY <1>2, <1>9, <1>10, <1>12, Zenon DEF Tabled

LEMMA SkipsTabled ==
  ASSUME TypeOK, RowsInv, CompletedIsComplete, NEW a, NEW r \in Runs, Skips(r)
  PROVE  Tabled(a)
<1>1. PICK c \in Cases : upsert(r, c, "skipped") /\ Stopped(rows, r)
  BY Zenon DEF Skips
<1>2. run' = run /\ passes' = passes /\ attempts' = attempts
  BY <1>1, Zenon DEF upsert
<1>3. \A q \in Runs, d \in Cases :
        rows'[q][d] = IF q = r /\ d = c /\ rows[q][d] = "none" THEN "skipped" ELSE rows[q][d]
  BY <1>1, Zenon DEF upsert, TypeOK
<1>4. \A q : list_open(q)' = list_open(q)
  BY <1>2, Zenon DEF list_open, WithStatus
<1>5. RowsKept /\ \A q \in Runs : Stopped(rows, q) <=> Stopped(rows', q)
  BY <1>3, Zenon DEF RowsKept, Stopped
<1>6. RowsInv'
  BY <1>1, <1>3, <1>4, <1>5, Zenon DEF RowsInv
<1>7. CompletedIsComplete'
  <2>1. ASSUME NEW q \in Runs, Persisted(q) = Cases PROVE Persisted(q)' = Cases
    <3>1. \A d \in Cases : rows[q][d] # "none"
      BY <2>1, Zenon DEF Persisted
    <3>2. \A d \in Cases : rows'[q][d] # "none"
      BY <1>5, <3>1, Zenon DEF RowsKept
    <3>. QED BY <3>2, Zenon DEF Persisted
  <2>. QED BY <1>2, <1>4, <2>1, Zenon DEF CompletedIsComplete
<1>. QED BY <1>2, <1>5, <1>6, <1>7, Zenon DEF Tabled

(* A pass.  That of an execution completes the Run when every Case has its   *)
(* row and nothing stopped it; a rescoring of a completed Run scores every   *)
(* Case, and a terminal pass completes nothing.                              *)
LEMMA AppendsTabled ==
  ASSUME CompletionInv, NEW a \in Actors, Active(fr[a]), Appends(a)
  PROVE  Tabled(a)
<1>. DEFINE f == fr[a]
            r == f.r
            pass == [source |-> f.src, scored |-> f.done, previous |-> f.prev]
            final == IF f.to = "none" THEN f.snap.status ELSE f.to
<1>1. /\ f.pc = "appendCommit" /\ f.pc \in AppendPc
      /\ append(r, f.snap.revision, f.snap.status, pass, f.synth, final, f.flag)
  BY Zenon DEF Appends, AppendPc
<1>2. /\ RowsInv /\ CompletedIsComplete /\ TypeOK /\ FrameType(f) /\ Going(f)
      /\ Progress(f, rows, run) /\ r \in Runs
  BY OwnProgress, Own, Zenon
<1>3. Partial(f) => run[r].status # "completed"
  BY Zenon DEF CompletionInv, ProgressInv, Unpublished
<1>4. Label(f) = f.pc /\ f.src \in {"initial", "rescore", "terminal-unattempted"}
  BY <1>1, <1>2, Zenon DEF Label, HonorPc, TransitionPc, Going
<1>. HIDE DEF f
<1>5. /\ run[r].status = f.snap.status /\ \A c \in f.synth : rows[r][c] = "none"
      /\ f.src = "terminal-unattempted" => list_open(r) = {}
      /\ attempts' = attempts
  BY <1>1, Zenon DEF append, can_append, Matches
<1>6. \A q \in Runs, d \in Cases :
        rows'[q][d] = IF q = r /\ d \in f.synth THEN "skipped" ELSE rows[q][d]
  BY <1>1, <1>2, Zenon DEF append, TypeOK
<1>7. /\ \A q \in Runs : q # r => run'[q] = run[q] /\ passes'[q] = passes[q]
      /\ run'[r].status = final /\ run'[r].current = Len(passes[r]) + 1
      /\ passes'[r] = Append(passes[r], pass)
  BY <1>1, <1>2, Zenon DEF append, NextRun, TypeOK
<1>8. run'[r].current > 0 /\ passes'[r][run'[r].current].scored = f.done
  <2>1. passes[r] \in Seq(Pass)
    BY <1>2, Zenon DEF TypeOK
  <2>2. Len(passes[r]) + 1 > 0 /\ Append(passes[r], pass)[Len(passes[r]) + 1] = pass
    BY <2>1
  <2>3. pass.scored = f.done
    BY Zenon
  <2>. HIDE DEF pass
  <2>. QED BY <1>7, <2>2, <2>3, Zenon
<1>. HIDE DEF r
<1>9. \A q : list_open(q)' = list_open(q)
  BY <1>5, Zenon DEF list_open, WithStatus
<1>10. RowsKept /\ \A q \in Runs : Stopped(rows, q) <=> Stopped(rows', q)
  BY <1>5, <1>6, Zenon DEF RowsKept, Stopped
<1>11. \A q \in Runs : Persisted(q) = Cases => Persisted(q)' = Cases
  BY <1>10, Zenon DEF RowsKept, Persisted
<1>12. f.synth \subseteq Cases
  BY <1>2, Zenon DEF FrameType

<1>Initial. ASSUME f.src = "initial"
            PROVE  /\ Publishing(f) /\ Rowed(rows, r) = Cases /\ f.done = Cases
                   /\ f.to = "completed" => ~Stopped(rows, r)
  BY <1>1, <1>2, <1>4, <1>Initial, Zenon DEF Publishing, Progress, InPublishing, r
<1>Rescore. ASSUME f.src = "rescore" PROVE f.to = "none" /\ f.synth = {}
  BY <1>1, <1>2, <1>Rescore, Zenon DEF Progress, Rescoring
<1>Terminal. ASSUME f.src = "terminal-unattempted"
             PROVE  f.to \in {"cancelled", "failed", "unsupported", "profile_stale"}
  BY <1>1, <1>2, <1>Terminal, Zenon DEF Progress, Unattempting

<1>13. list_open(r) = {} \/ f.synth = {}
  <2>1. f.src = "initial" => f.synth = {}
    BY <1>5, <1>12, <1>Initial, Zenon DEF Rowed
  <2>. QED BY <1>4, <1>5, <2>1, <1>Rescore, Zenon
<1>14. RowsInv'
  BY <1>2, <1>6, <1>9, <1>10, <1>13, Zenon DEF RowsInv
<1>15. ASSUME run'[r].status = "completed"
       PROVE  /\ f.done = Cases /\ Persisted(r) = Cases /\ list_open(r) = {}
              /\ run[r].status = "completed" \/ Publishing(f)
  <2>1. f.to = "completed" \/ (f.to = "none" /\ run[r].status = "completed")
    BY <1>5, <1>7, <1>15, Zenon
  <2>2. run[r].status = "completed" => Persisted(r) = Cases /\ list_open(r) = {}
    BY <1>2, Zenon DEF CompletedIsComplete, r
  <2>3. CASE f.src = "initial"
    <3>1. Persisted(r) = Cases
      BY <2>3, <1>Initial, Zenon DEF Rowed, Persisted
    <3>2. f.to = "completed" => list_open(r) = {}
      <4>1. list_open(r) \subseteq Cases
        BY Zenon DEF list_open, WithStatus
      <4>2. \A c \in Cases : rows[r][c] # "none"
        BY <3>1, Zenon DEF Persisted
      <4>. QED BY <1>2, <2>3, <4>1, <4>2, <1>Initial, Zenon DEF RowsInv, r
    <3>. QED BY <2>1, <2>2, <2>3, <3>1, <3>2, <1>Initial, Zenon
  <2>4. CASE f.src = "rescore"
    <3>1. run[r].status = "completed"
      BY <2>1, <2>4, <1>Rescore, Zenon
    <3>2. f.done = Cases
      BY <1>1, <1>3, <2>4, <3>1, Zenon DEF Partial
    <3>. QED BY <2>2, <3>1, <3>2, Zenon
  <2>. QED BY <1>4, <2>1, <2>3, <2>4, <1>Terminal, Zenon
<1>16. CompletedIsComplete'
  <2>1. ASSUME NEW q \in Runs, run'[q].status = "completed"
        PROVE  /\ Persisted(q)' = Cases /\ list_open(q)' = {}
               /\ run'[q].current > 0 /\ passes'[q][run'[q].current].scored = Cases
    <3>1. CASE q = r
      BY <1>8, <1>9, <1>11, <1>15, <2>1, <3>1, Zenon
    <3>2. CASE q # r
      BY <1>2, <1>7, <1>9, <1>11, <2>1, <3>2, Zenon DEF CompletedIsComplete
    <3>. QED BY <3>1, <3>2, Zenon
  <2>. QED BY <2>1, Zenon DEF CompletedIsComplete
<1>17. \A q \in Runs : run'[q].status = "completed" =>
         run[q].status = "completed" \/ (Publishing(f) /\ r = q)
  BY <1>7, <1>15, Zenon
<1>. QED BY <1>10, <1>14, <1>16, <1>17, Zenon DEF Tabled, f, r

LEMMA KeepsTabled ==
  ASSUME CompletionInv, NEW a \in Actors, Keeps(a)
  PROVE  Tabled(a)
<1>1. StoreInv /\ TypeOK /\ RowsInv /\ CompletedIsComplete /\ WorkerInv
  BY Zenon DEF CompletionInv, WorkerInv, StoreInv
<1>2. CASE Adds(a)
  <2>1. fr[a].r \in Runs
    BY <1>1, <1>2, Own, Zenon DEF Adds
  <2>. QED BY <1>1, <1>2, <2>1, CompletesTabled, SkipsTabled, AppendsTabled, Zenon DEF Adds
<1>. QED BY <1>1, <1>2, CalmTabled, Zenon DEF Keeps

-----------------------------------------------------------------------------
(* What an actor knows, when another one moves. *)
LEMMA Bystander ==
  ASSUME CompletionInv, RowsKept, StaysSettled, NEW b \in Actors
  PROVE  Progress(fr[b], rows', run')
<1>1. WorkerInv /\ Progress(fr[b], rows, run)
  BY OwnProgress, Zenon
<1>2. CASE Active(fr[b])
  <2>1. fr[b].r \in Runs
    BY <1>1, <1>2, Own, Zenon
  <2>. QED BY <1>1, <2>1, ProgressKept, Zenon DEF RowsKept, StaysSettled
<1>3. CASE ~Active(fr[b])
  <2>1. Unmarked(fr[b])
    BY <1>3, AsideUnmarked, Zenon DEF Active, Aside
  <2>. QED BY <2>1, UnmarkedProgress, Zenon
<1>. QED BY <1>2, <1>3, Zenon

LEMMA PartialRun ==
  ASSUME WorkerInv, NEW b \in Actors, Partial(fr[b])
  PROVE  fr[b].r \in Runs
BY Own, Zenon DEF Partial, AppendPc, Active, Resting, RecoverPc

LEMMA TurnStep ==
  ASSUME CompletionInv, NEW a \in Actors, Keeps(a), WorkerInv', StaysSettled
  PROVE  CompletionInv'
<1>1. RowsKept /\ RowsInv' /\ CompletedIsComplete' /\ Tabled(a) /\ Carries(a)
  BY KeepsTabled, Zenon DEF Tabled, Keeps
<1>2. PICK g : /\ fr' = [fr EXCEPT ![a] = g]
               /\ Progress(g, rows', run')
               /\ Past(g) => (Past(fr[a]) /\ g.r = fr[a].r) \/ run[g.r].status \notin TERMINAL
               /\ Partial(g) => (Partial(fr[a]) /\ g.r = fr[a].r) \/ Unpublished(g.r)
  BY <1>1, Zenon DEF Carries
<1>3. \A b \in Actors : fr'[b] = IF b = a THEN g ELSE fr[b]
  BY <1>2, OwnProgress, Zenon
<1>4. ASSUME NEW b \in Actors PROVE Progress(fr'[b], rows', run')
  BY <1>1, <1>2, <1>3, Bystander, Zenon
<1>5. ASSUME NEW b \in Actors, Partial(fr[b])' PROVE Unpublished(fr[b].r)'
  <2>0. PICK r : r = fr'[b].r
    OBVIOUS
  <2>1. Unpublished(r)
    BY <1>2, <1>3, <1>5, <2>0, Zenon DEF CompletionInv, ProgressInv
  <2>2. r \in Runs
    <3>1. Active(fr[b])' /\ Frame(fr[b], run)'
      BY <1>5, Zenon DEF Partial, AppendPc, Active, Resting, RecoverPc, WorkerInv, ActorsInv
    <3>. QED BY <2>0, <3>1, Zenon DEF Frame, Knows, Active
  <2>3. run'[r].status \in TERMINAL \ {"completed"}
    BY <1>1, <2>1, <2>2, Zenon DEF Unpublished, StaysSettled, Tabled, Past
  <2>4. ASSUME NEW d \in Actors, fr'[d].r = r PROVE ~Past(fr'[d])
    BY <1>2, <1>3, <2>1, <2>4, Zenon DEF Unpublished
  <2>5. Unpublished(r)'
    BY <2>3, <2>4, Zenon DEF Unpublished
  <2>. QED BY <2>0, <2>5, Zenon
<1>6. ProgressInv'
  BY <1>4, <1>5, Zenon DEF ProgressInv
<1>. QED BY <1>1, <1>6, Zenon DEF CompletionInv

LEMMA StillStep ==
  ASSUME CompletionInv, UNCHANGED fr, Calm, WorkerInv', StaysSettled
  PROVE  CompletionInv'
<1>1. \A a : Tabled(a)
  BY CalmTabled, Zenon DEF CompletionInv
<1>2. RowsKept /\ RowsInv' /\ CompletedIsComplete'
  BY <1>1, Zenon DEF Tabled
<1>3. \A b \in Actors : Progress(fr'[b], rows', run')
  BY <1>2, Bystander, Zenon
<1>4. ASSUME NEW b \in Actors, Partial(fr[b])' PROVE Unpublished(fr[b].r)'
  <2>1. Partial(fr[b]) /\ Unpublished(fr[b].r) /\ fr[b].r \in Runs
    BY <1>4, PartialRun, Zenon DEF CompletionInv, ProgressInv
  <2>. QED BY <2>1, Zenon DEF Unpublished, StaysSettled, Calm
<1>5. ProgressInv'
  BY <1>3, <1>4, Zenon DEF ProgressInv
<1>. QED BY <1>2, <1>5, Zenon DEF CompletionInv

LEMMA CompletionInit == Init => CompletionInv
<1> SUFFICES ASSUME Init PROVE CompletionInv
  OBVIOUS
<1>1. /\ \A r \in Runs, c \in Cases : rows[r][c] = "none"
      /\ \A r \in Runs : run[r].status = "absent"
  BY Zenon DEF Init, StoreInit
<1>2. RowsInv /\ CompletedIsComplete
  BY <1>1, Zenon DEF RowsInv, Stopped, CompletedIsComplete
<1>3. ASSUME NEW a \in Actors PROVE Progress(fr[a], rows, run) /\ ~Partial(fr[a])
  <2>1. PICK pc \in Resting : fr[a] = Blank(pc)
    BY Zenon DEF Init, Resting
  <2>2. Unmarked(fr[a])
    BY <2>1, AsideUnmarked, BlankFields, Zenon DEF Aside
  <2>. QED BY <2>2, UnmarkedProgress, Zenon
<1>. QED BY <1>2, <1>3, WorkerInvInit, Zenon DEF CompletionInv, ProgressInv

LEMMA CompletionStep == CompletionInv /\ [Next]_vars => CompletionInv'
<1> SUFFICES ASSUME CompletionInv, [Next]_vars PROVE CompletionInv'
  OBVIOUS
<1>1. WorkerInv' /\ (Writes \/ UNCHANGED vars)
  BY WorkerInvStep, Zenon DEF CompletionInv
<1>2. CASE Next
  <2>1. StaysSettled
    BY <1>2, NextWrites, Zenon DEF CompletionInv, Writes
  <2>. QED BY <1>1, <1>2, <2>1, NextKeeps, TurnStep, StillStep, Zenon
<1>3. CASE UNCHANGED vars
  <2>1. UNCHANGED store /\ UNCHANGED fr /\ run' = run
    BY <1>3, Zenon DEF vars, store
  <2>2. StaysSettled
    BY <2>1, Zenon DEF StaysSettled
  <2>. QED BY <1>1, <2>1, <2>2, UnchangedCalm, StillStep, Zenon
<1>. QED BY <1>2, <1>3, Zenon

(* A Run that is completed is complete: execute, _execute_benchmark with its *)
(* second chances, rescore and _finish_unattempted, interrupted anywhere by  *)
(* crashes, lost locks, other Workers and cancellations, leave no completed  *)
(* Run without a row for every Case, with an open Attempt, or with a current *)
(* pass that does not score every Case.                                      *)
THEOREM CompletedRunsAreComplete == Spec => []CompletedIsComplete
<1>1. CompletionInv => CompletedIsComplete
  BY Zenon DEF CompletionInv
<1>. QED BY <1>1, CompletionInit, CompletionStep, PTL DEF Spec
=============================================================================
