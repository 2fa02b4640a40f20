-------------------------- MODULE JobWorkerProofs ---------------------------
(***************************************************************************)
(* A Run gets at most one external process, and what was imported of it    *)
(* stays, for any number of Workers, clients, Runs, Cases and crashes.     *)
(***************************************************************************)
EXTENDS JobWorker, FiniteSetTheorems, TLAPS

(* A table that has no Job yet, or one. *)
AtMostOne(s) == s = <<>> \/ \E x : s = <<x>>

(* Only JobEntry leads to a launch, never the return from a call. *)
Sound(f) ==
  /\ "pc" \in DOMAIN f /\ "ret" \in DOMAIN f /\ "r" \in DOMAIN f
  /\ f.ret # "prepare"

Resting == {"down", "idle"}

(* Whoever executes holds the lock, and whoever is about to store a Job's    *)
(* intent has seen that the Run has no Job.                                  *)
LaunchInv ==
  /\ lock \in Workers \cup {NoActor}
  /\ DOMAIN fr = Actors
  /\ \A a \in Actors : Sound(fr[a])
  /\ \A w \in Workers :
       /\ fr[w].pc \notin Resting => lock = w
       /\ fr[w].pc = "prepare" /\ fr[w].r \in Runs => jobs[fr[w].r] = <<>>

(* The tables of Jobs, processes and records go together. *)
TableInv ==
  /\ DOMAIN jobs = Runs /\ DOMAIN process = Runs /\ DOMAIN records = Runs
  /\ DOMAIN trials = Runs
  /\ \A r \in Runs :
       /\ AtMostOne(jobs[r])
       /\ AtMostOne(process[r])
       /\ AtMostOne(records[r])
       /\ jobs[r] = <<>> => process[r] = <<>> /\ records[r] = <<>>
       /\ \A j \in DOMAIN records[r] : DOMAIN records[r][j] = Cases
       /\ DOMAIN trials[r] = Cases

JobInv == LaunchInv /\ TableInv

-----------------------------------------------------------------------------
(* Writing into a table of at most one entry. *)
LEMMA WriteOne ==
  ASSUME NEW s, AtMostOne(s), NEW j, NEW y
  PROVE  /\ AtMostOne([s EXCEPT ![j] = y])
         /\ [s EXCEPT ![j] = y] = <<>> <=> s = <<>>
         /\ DOMAIN [s EXCEPT ![j] = y] = DOMAIN s
<1> DEFINE t == [s EXCEPT ![j] = y]
<1>1. CASE s = <<>>
  <2>1. DOMAIN s = {}
    BY <1>1
  <2>2. t = <<>>
    BY <1>1, <2>1
  <2> QED BY <1>1, <2>1, <2>2, Zenon DEF AtMostOne
<1>2. CASE \E x : s = <<x>>
  <2>1. PICK x : s = <<x>>
    BY <1>2, Zenon
  <2>2. DOMAIN s = {1} /\ DOMAIN t = {1}
    BY <2>1
  <2>3. t = <<t[1]>>
    BY <2>1, <2>2
  <2>4. s # <<>> /\ t # <<>>
    BY <2>2
  <2> QED BY <2>2, <2>3, <2>4, Zenon DEF AtMostOne
<1> QED BY <1>1, <1>2, Zenon DEF AtMostOne

LEMMA AppendFirst == \A y : Append(<<>>, y) = <<y>> /\ AtMostOne(<<y>>) /\ <<y>> # <<>>
BY DEF AtMostOne

LEMMA OneEntry ==
  ASSUME NEW s, AtMostOne(s)
  PROVE  /\ DOMAIN s \subseteq {1}
         /\ Len(s) = 0 => s = <<>>
<1>1. CASE s = <<>>
  BY <1>1
<1>2. CASE \E x : s = <<x>>
  <2>1. PICK x : s = <<x>>
    BY <1>2, Zenon
  <2>2. DOMAIN s = {1} /\ Len(s) = 1
    BY <2>1
  <2> QED BY <2>2
<1> QED BY <1>1, <1>2, Zenon DEF AtMostOne

-----------------------------------------------------------------------------
(* What a step of RunService does to the control: it moves its actor, not to *)
(* a launch, and either keeps the lock or ends the activation.               *)
Moves(a) ==
  \E g : /\ fr' = [fr EXCEPT ![a] = g]
         /\ Sound(g)
         /\ g.pc # "prepare"
         /\ UNCHANGED lock \/ (g.pc \in Resting /\ Release(a))

LEMMA BlankSound ==
  /\ \A pc : Sound(Blank(pc)) /\ Blank(pc).pc = pc
  /\ Blank("down").pc \in Resting /\ Blank("idle").pc \in Resting
BY Zenon DEF Blank, Sound, Resting

LEMMA StepMoves ==
  ASSUME NEW a, NEW f, Step(a, f), Sound(f), f.pc # "prepare"
  PROVE  Moves(a)
BY Zenon DEF Moves, Step

LEMMA DieMoves == ASSUME NEW a, Die(a) PROVE Moves(a)
<1> DEFINE g == Blank(IF a \in Workers THEN "down" ELSE "idle")
<1>1. Sound(g) /\ g.pc # "prepare" /\ g.pc \in Resting
  BY BlankSound, Zenon DEF Resting
<1>2. fr' = [fr EXCEPT ![a] = g] /\ Release(a)
  BY Zenon DEF Die
<1> QED BY <1>1, <1>2, Zenon DEF Moves

LEMMA LeaveMoves == ASSUME NEW a, Leave(a) PROVE Moves(a)
<1>1. CASE Die(a)
  BY <1>1, DieMoves, Zenon
<1>2. CASE fr' = [fr EXCEPT ![a] = Blank("idle")] /\ Release(a)
  <2>1. Sound(Blank("idle")) /\ Blank("idle").pc # "prepare" /\ Blank("idle").pc \in Resting
    BY BlankSound
  <2> QED BY <1>2, <2>1, Zenon DEF Moves
<1> QED BY <1>1, <1>2, Zenon DEF Leave

LEMMA RaiseMoves == ASSUME NEW a, Sound(fr[a]), Raise(a) PROVE Moves(a)
<1>1. CASE Step(a, [fr[a] EXCEPT !.pc = "foq", !.exc = "die", !.snap = NoRun])
  BY <1>1, StepMoves, Zenon DEF Sound
<1>2. CASE Step(a, [fr[a] EXCEPT !.pc = "jobLate", !.exc = "die", !.snap = NoRun])
  BY <1>2, StepMoves, Zenon DEF Sound
<1>3. CASE Leave(a)
  BY <1>3, LeaveMoves, Zenon
<1>4. CASE Die(a)
  BY <1>4, DieMoves, Zenon
<1> QED BY <1>1, <1>2, <1>3, <1>4, Zenon DEF Raise

LEMMA RejectMoves == ASSUME NEW a, Sound(fr[a]), Reject(a) PROVE Moves(a)
<1>1. CASE Step(a, [fr[a] EXCEPT !.pc = "unsupported", !.exc = "die", !.snap = NoRun])
  BY <1>1, StepMoves, Zenon DEF Sound
<1> QED BY <1>1, RaiseMoves, Zenon DEF Reject

LEMMA ReturnMoves == ASSUME NEW a, Sound(fr[a]), Return(a) PROVE Moves(a)
<1>1. CASE fr[a].ret = "leave"
  BY <1>1, LeaveMoves, Zenon DEF Return
<1>2. CASE fr[a].ret # "leave"
  <2> DEFINE f == [fr[a] EXCEPT !.snap = NoRun]
             label == fr[a].ret
  <2>1. Step(a, Enter(f, label))
    BY <1>2, Zenon DEF Return
  <2>2. Sound(f) /\ label # "prepare"
    BY Zenon DEF Sound
  <2>3. Sound(Enter(f, label)) /\ Enter(f, label).pc # "prepare"
    BY <2>2, Zenon DEF Enter, Honor, Transition, Sound
  <2> QED BY <2>1, <2>3, StepMoves, Zenon
<1> QED BY <1>1, <1>2, Zenon
LEMMA ConflictMoves == ASSUME NEW a, Sound(fr[a]), BeginConflict(a) PROVE Moves(a)
BY StepMoves, Zenon DEF BeginConflict, Checkpoint, Honor, Sound

LEMMA ServiceMoves ==
  ASSUME NEW a, Sound(fr[a]), ServiceStep(a)
  PROVE  Moves(a) /\ fr[a].pc \notin Resting
<1>1. CASE TransitionLoad(a)
  BY <1>1, StepMoves, RejectMoves, Zenon DEF TransitionLoad, Sound, Resting
<1>2. CASE TransitionCommit(a)
  BY <1>2, StepMoves, ReturnMoves, RaiseMoves, Zenon DEF TransitionCommit, Sound, Resting
<1>3. CASE HonorCancellation(a)
  BY <1>3, StepMoves, LeaveMoves, ReturnMoves, Zenon DEF HonorCancellation, Sound, Resting
<1>4. CASE CancelLoad(a)
  BY <1>4, StepMoves, LeaveMoves, Zenon DEF CancelLoad, Sound, Resting
<1>5. CASE CancelOpen(a)
  BY <1>5, StepMoves, Zenon DEF CancelOpen, Transition, Sound, Resting
<1>6. CASE CancelDefer(a)
  BY <1>6, StepMoves, LeaveMoves, RaiseMoves, Zenon DEF CancelDefer, Sound, Resting
<1>7. CASE CancelRace(a)
  BY <1>7, StepMoves, LeaveMoves, Zenon DEF CancelRace, Sound, Resting
<1>8. CASE UnattemptedRows(a)
  BY <1>8, StepMoves, Zenon DEF UnattemptedRows, Sound, Resting
<1>9. CASE UnattemptedOpen(a)
  BY <1>9, StepMoves, Zenon DEF UnattemptedOpen, Sound, Resting
<1>10. CASE AppendLoad(a)
  BY <1>10, StepMoves, Zenon DEF AppendLoad, Sound, Resting
<1>11. CASE AppendPrevious(a)
  BY <1>11, StepMoves, Zenon DEF AppendPrevious, Sound, Resting
<1>12. CASE AppendRaises(a)
  BY <1>12, StepMoves, RaiseMoves, Zenon DEF AppendRaises, Sound, Resting
<1>13. CASE AppendCommit(a)
  BY <1>13, StepMoves, LeaveMoves, RaiseMoves, Zenon DEF AppendCommit, Sound, Resting
<1>14. CASE FailOrQuarantine(a)
  BY <1>14, StepMoves, Zenon DEF FailOrQuarantine, Sound, Resting
<1>15. CASE Fail(a)
  BY <1>15, StepMoves, LeaveMoves, Zenon DEF Fail, Transition, Sound, Resting
<1>16. CASE QuarantineLoad(a)
  BY <1>16, StepMoves, Zenon DEF QuarantineLoad, Sound, Resting
<1>17. CASE QuarantineCommit(a)
  BY <1>17, StepMoves, LeaveMoves, DieMoves, Zenon DEF QuarantineCommit, Sound, Resting
<1>18. CASE MarkUnsupported(a)
  BY <1>18, StepMoves, LeaveMoves, Zenon DEF MarkUnsupported, Transition, Sound, Resting
<1>19. CASE MarkProfileStale(a)
  BY <1>19, StepMoves, LeaveMoves, RaiseMoves, Zenon
     DEF MarkProfileStale, Transition, Sound, Resting
<1>20. CASE Rescore(a)
  BY <1>20, StepMoves, RaiseMoves, Zenon DEF Rescore, Sound, Resting
<1>21. CASE RescoreRows(a)
  BY <1>21, StepMoves, Zenon DEF RescoreRows, Sound, Resting
<1>22. CASE RetryLoad(a)
  BY <1>22, StepMoves, RaiseMoves, Zenon DEF RetryLoad, Sound, Resting
<1>23. CASE RetryOpen(a)
  BY <1>23, StepMoves, LeaveMoves, RaiseMoves, Zenon DEF RetryOpen, Sound, Resting
<1>24. CASE BeginLoad(a)
  BY <1>24, StepMoves, Zenon DEF BeginLoad, Sound, Resting
<1>25. CASE BeginPrevious(a)
  BY <1>25, StepMoves, Zenon DEF BeginPrevious, Sound, Resting
<1>26. CASE Begin(a)
  BY <1>26, StepMoves, ConflictMoves, Zenon DEF Begin, Sound, Resting
<1>27. CASE Dispatch(a)
  BY <1>27, StepMoves, ConflictMoves, Zenon DEF Dispatch, Sound, Resting
<1>28. CASE DispatchAbort(a)
  BY <1>28, StepMoves, ConflictMoves, Zenon DEF DispatchAbort, Sound, Resting
<1>29. CASE BeginRaise(a)
  BY <1>29, StepMoves, RaiseMoves, Zenon DEF BeginRaise, Sound, Resting
<1> QED
  BY <1>1, <1>2, <1>3, <1>4, <1>5, <1>6, <1>7, <1>8, <1>9, <1>10,
     <1>11, <1>12, <1>13, <1>14, <1>15, <1>16, <1>17, <1>18, <1>19, <1>20,
     <1>21, <1>22, <1>23, <1>24, <1>25, <1>26, <1>27, <1>28, <1>29, Zenon DEF ServiceStep

(* Such a move keeps the invariant of the control. *)
LEMMA ControlKept ==
  ASSUME LaunchInv, NEW a \in Actors, Moves(a), a \in Workers => fr[a].pc \notin Resting,
         \A w \in Workers : w # a /\ fr[w].pc = "prepare" /\ fr[w].r \in Runs =>
           jobs'[fr[w].r] = <<>>
  PROVE  LaunchInv'
<1>1. PICK g : /\ fr' = [fr EXCEPT ![a] = g]
               /\ Sound(g)
               /\ g.pc # "prepare"
               /\ UNCHANGED lock \/ (g.pc \in Resting /\ Release(a))
  BY Zenon DEF Moves
<1>2. lock' \in Workers \cup {NoActor}
  BY <1>1, Zenon DEF LaunchInv, Release
<1>3. DOMAIN fr' = Actors /\ fr'[a] = g /\ \A b \in Actors : b # a => fr'[b] = fr[b]
  BY <1>1, Zenon DEF LaunchInv
<1>4. \A b \in Actors : Sound(fr'[b])
  BY <1>1, <1>3, Zenon DEF LaunchInv
<1>5. ASSUME NEW w \in Workers, fr'[w].pc \notin Resting
      PROVE  lock' = w
  <2>1. w \in Actors
    BY Zenon DEF Actors
  <2>2. CASE w = a
    BY <1>1, <1>3, <1>5, <2>2, Zenon DEF LaunchInv
  <2>3. CASE w # a
    BY <1>1, <1>3, <1>5, <2>1, <2>3, Zenon DEF LaunchInv, Release
  <2> QED BY <2>2, <2>3, Zenon
<1>6. ASSUME NEW w \in Workers, fr'[w].pc = "prepare", fr'[w].r \in Runs
      PROVE  jobs'[fr'[w].r] = <<>>
  BY <1>1, <1>3, <1>6, Zenon DEF Actors
<1>7. \A b \in Actors : Sound(fr[b])'
  BY <1>4, Zenon DEF Sound
<1> QED BY <1>2, <1>3, <1>5, <1>6, <1>7, Zenon DEF LaunchInv

-----------------------------------------------------------------------------
(* What every transaction but begin_job does to the tables. *)
JobsKept ==
  /\ DOMAIN jobs' = Runs
  /\ \A r \in Runs : AtMostOne(jobs'[r]) /\ (jobs'[r] = <<>> <=> jobs[r] = <<>>)

ProcessKept ==
  /\ DOMAIN process' = Runs
  /\ \A r \in Runs : AtMostOne(process'[r]) /\ (process'[r] = <<>> <=> process[r] = <<>>)

RecordsKept ==
  /\ DOMAIN records' = Runs
  /\ \A r \in Runs : AtMostOne(records'[r]) /\ (records'[r] = <<>> <=> records[r] = <<>>)
  /\ \A r \in Runs : \A j \in DOMAIN records'[r] : DOMAIN records'[r][j] = Cases
  /\ \A r \in Runs : \A j \in DOMAIN records[r] : \A c \in Cases :
       records[r][j][c] # "none" => records'[r][j][c] = records[r][j][c]

TrialsKept ==
  /\ DOMAIN trials' = Runs
  /\ \A r \in Runs : DOMAIN trials'[r] = Cases
  /\ \A r \in Runs, c \in Cases : trials[r][c] \in Content => trials'[r][c] = trials[r][c]

Kept == JobsKept /\ ProcessKept /\ RecordsKept /\ TrialsKept

LEMMA TablesKept == ASSUME TableInv, Kept PROVE TableInv'
<1>1. \A r \in Runs : jobs'[r] = <<>> => process'[r] = <<>> /\ records'[r] = <<>>
  BY Zenon DEF TableInv, Kept, JobsKept, ProcessKept, RecordsKept
<1>2. \A r \in Runs : AtMostOne(jobs[r])' /\ AtMostOne(process[r])' /\ AtMostOne(records[r])'
  BY Zenon DEF Kept, JobsKept, ProcessKept, RecordsKept, AtMostOne
<1> QED BY <1>1, <1>2, Zenon DEF TableInv, Kept, JobsKept, ProcessKept, RecordsKept, TrialsKept

LEMMA UnchangedKept ==
  ASSUME TableInv
  PROVE  /\ UNCHANGED jobs => JobsKept
         /\ UNCHANGED process => ProcessKept
         /\ UNCHANGED records => RecordsKept
         /\ UNCHANGED trials => TrialsKept
BY Zenon DEF TableInv, JobsKept, ProcessKept, RecordsKept, TrialsKept

LEMMA UpdateKept ==
  ASSUME TableInv, NEW r, NEW j, NEW y, update_job(r, j, y)
  PROVE  JobsKept /\ RecordsKept /\ TrialsKept
<1>1. jobs' = [jobs EXCEPT ![r] = [jobs[r] EXCEPT ![j] = y]] /\ UNCHANGED <<records, trials>>
  BY Zenon DEF update_job
<1>2. ASSUME NEW q \in Runs
      PROVE  AtMostOne(jobs'[q]) /\ (jobs'[q] = <<>> <=> jobs[q] = <<>>)
  <2>1. AtMostOne(jobs[q])
    BY Zenon DEF TableInv
  <2>2. CASE q = r
    <3>1. jobs'[q] = [jobs[q] EXCEPT ![j] = y]
      BY <1>1, <2>2, Zenon DEF TableInv
    <3> QED BY <2>1, <3>1, WriteOne, Zenon
  <2>3. CASE q # r
    BY <1>1, <2>1, <2>3, Zenon DEF TableInv
  <2> QED BY <2>2, <2>3, Zenon
<1>3. DOMAIN jobs' = Runs
  BY <1>1, Zenon DEF TableInv
<1> QED BY <1>1, <1>2, <1>3, UnchangedKept, Zenon DEF JobsKept

LEMMA WriteProcess ==
  ASSUME TableInv, NEW r, NEW j, NEW y,
         Update(r, j, y)
  PROVE  ProcessKept
<1>0. process' = [process EXCEPT ![r] = [process[r] EXCEPT ![j] = y]]
  BY Zenon DEF Update
<1>1. ASSUME NEW q \in Runs
      PROVE  AtMostOne(process'[q]) /\ (process'[q] = <<>> <=> process[q] = <<>>)
  <2>1. AtMostOne(process[q])
    BY Zenon DEF TableInv
  <2>2. CASE q = r
    <3>1. process'[q] = [process[q] EXCEPT ![j] = y]
      BY <1>0, <2>2, Zenon DEF TableInv
    <3>2. /\ AtMostOne([process[q] EXCEPT ![j] = y])
          /\ [process[q] EXCEPT ![j] = y] = <<>> <=> process[q] = <<>>
      BY <2>1, WriteOne, Zenon
    <3> QED BY <3>1, <3>2, Zenon
  <2>3. CASE q # r
    <3>1. process'[q] = process[q]
      BY <1>0, <2>3, Zenon DEF TableInv
    <3> QED BY <2>1, <3>1, Zenon
  <2> QED BY <2>2, <2>3, Zenon
<1> QED BY <1>0, <1>1, Zenon DEF ProcessKept, TableInv

LEMMA InterruptKept ==
  ASSUME TableInv, NEW r, NEW j, NEW known, NEW child, Interrupt(r, j, known, child)
  PROVE  ProcessKept
BY UnchangedKept, WriteProcess, Zenon DEF Interrupt

LEMMA LoseKept == ASSUME TableInv, NEW w, Lose(w) PROVE ProcessKept
BY UnchangedKept, WriteProcess, Zenon DEF Lose

LEMMA ImportKept ==
  ASSUME TableInv, NEW r, NEW j, NEW c, NEW content, import_record(r, j, c, content)
  PROVE  JobsKept /\ RecordsKept /\ TrialsKept
<1> DEFINE v == IF records[r][j][c] = "none" THEN content ELSE records[r][j][c]
           y == [records[r][j] EXCEPT ![c] = v]
<1>1. records' = [records EXCEPT ![r] = [records[r] EXCEPT ![j] = y]] /\ UNCHANGED <<jobs, trials>>
  BY Zenon DEF import_record
<1>2. DOMAIN records' = Runs
  BY <1>1, Zenon DEF TableInv
<1>3. ASSUME NEW q \in Runs
      PROVE  /\ AtMostOne(records'[q]) /\ (records'[q] = <<>> <=> records[q] = <<>>)
             /\ \A i \in DOMAIN records'[q] : DOMAIN records'[q][i] = Cases
             /\ \A i \in DOMAIN records[q] : \A d \in Cases :
                  records[q][i][d] # "none" => records'[q][i][d] = records[q][i][d]
  <2>1. AtMostOne(records[q]) /\ \A i \in DOMAIN records[q] : DOMAIN records[q][i] = Cases
    BY Zenon DEF TableInv
  <2>2. CASE q = r
    <3>1. records'[q] = [records[q] EXCEPT ![j] = y]
      BY <1>1, <2>2, Zenon DEF TableInv
    <3>2. /\ AtMostOne(records'[q]) /\ (records'[q] = <<>> <=> records[q] = <<>>)
          /\ DOMAIN records'[q] = DOMAIN records[q]
      <4> HIDE DEF y
      <4> DEFINE old == records[q]
      <4>1. AtMostOne(old) /\ records'[q] = [old EXCEPT ![j] = y]
        BY <2>1, <3>1, Zenon
      <4> HIDE DEF old
      <4>2. /\ AtMostOne([old EXCEPT ![j] = y]) /\ ([old EXCEPT ![j] = y] = <<>> <=> old = <<>>)
            /\ DOMAIN [old EXCEPT ![j] = y] = DOMAIN old
        BY <4>1, WriteOne, Zenon
      <4> QED BY <4>1, <4>2, Zenon DEF old
    <3>3. ASSUME NEW i \in DOMAIN records[q]
          PROVE  /\ DOMAIN records'[q][i] = Cases
                 /\ \A d \in Cases :
                      records[q][i][d] # "none" => records'[q][i][d] = records[q][i][d]
      <4>1. CASE i = j
        <5>1. records'[q][i] = y /\ DOMAIN records[r][j] = Cases
          BY <2>1, <2>2, <3>1, <4>1, Zenon
        <5>2. ASSUME NEW d \in Cases, records[r][j][d] # "none"
              PROVE  y[d] = records[r][j][d]
          BY <5>1, <5>2, Zenon
        <5> QED BY <2>2, <4>1, <5>1, <5>2, Zenon
      <4>2. CASE i # j
        BY <2>1, <3>1, <4>2, Zenon
      <4> QED BY <4>1, <4>2, Zenon
    <3> QED BY <3>2, <3>3, Zenon
  <2>3. CASE q # r
    BY <1>1, <2>1, <2>3, Zenon DEF TableInv
  <2> QED BY <2>2, <2>3, Zenon
<1> QED BY <1>1, <1>2, <1>3, UnchangedKept, Zenon DEF RecordsKept

LEMMA WriteTrials ==
  ASSUME TableInv, NEW r, NEW t, trials' = [trials EXCEPT ![r] = t],
         r \in Runs => /\ DOMAIN t = Cases
                       /\ \A c \in Cases : trials[r][c] \in Content => t[c] = trials[r][c]
  PROVE  TrialsKept
<1>1. DOMAIN trials' = Runs /\ \A q \in Runs : trials'[q] = IF q = r THEN t ELSE trials[q]
  BY Zenon DEF TableInv
<1> QED BY <1>1, Zenon DEF TrialsKept, TableInv

LEMMA PlansKeep ==
  ASSUME NEW planned
  PROVE  /\ DOMAIN create_plans(planned) = Cases
         /\ \A c \in Cases : planned[c] \in Content => create_plans(planned)[c] = planned[c]
BY Zenon DEF create_plans, Content

LEMMA DisposeKept ==
  ASSUME TableInv, NEW r, NEW S, dispose(r, S)
  PROVE  TrialsKept
<1> DEFINE t == [c \in Cases |->
                   IF c \in S /\ trials[r][c] \in {"unplanned", "pending"} THEN "placeholder"
                   ELSE create_plans(trials[r])[c]]
<1>1. trials' = [trials EXCEPT ![r] = t]
  BY Zenon DEF dispose
<1>2. DOMAIN t = Cases /\ \A c \in Cases : trials[r][c] \in Content => t[c] = trials[r][c]
  BY PlansKeep, Zenon DEF Content
<1> HIDE DEF t
<1> QED BY <1>1, <1>2, WriteTrials, Zenon

LEMMA DispositionsKept ==
  ASSUME TableInv, NEW r, ensure_trial_dispositions(r)
  PROVE  TrialsKept
BY DisposeKept, UnchangedKept, Zenon DEF ensure_trial_dispositions

LEMMA PutKept ==
  ASSUME TableInv, NEW r, NEW c, NEW content, put_result(r, c, content)
  PROVE  JobsKept /\ RecordsKept /\ TrialsKept
<1> DEFINE v == IF result_conflict(r, c, content) THEN trials[r][c] ELSE content
           t == [create_plans(trials[r]) EXCEPT ![c] = v]
<1>1. trials' = [trials EXCEPT ![r] = t] /\ UNCHANGED <<jobs, records>>
  BY Zenon DEF put_result
<1>2. trials[r][c] \in Content => v = trials[r][c]
  BY Zenon DEF result_conflict, Content
<1>3. DOMAIN t = Cases /\ \A d \in Cases : trials[r][d] \in Content => t[d] = trials[r][d]
  BY <1>2, PlansKeep, Zenon
<1> HIDE DEF t
<1> QED BY <1>1, <1>3, WriteTrials, UnchangedKept, Zenon

-----------------------------------------------------------------------------
(* A step that keeps the tables, and the control or all but a move of its    *)
(* actor, keeps the invariant.                                               *)
Good(a) ==
  /\ Kept
  /\ \/ UNCHANGED <<fr, lock>>
     \/ Moves(a) /\ (a \in Workers => fr[a].pc \notin Resting)

LEMMA GoodInv == ASSUME JobInv, NEW a \in Actors, Good(a) PROVE JobInv'
<1>1. TableInv'
  BY TablesKept, Zenon DEF JobInv, Good
<1>2. \A r \in Runs : jobs[r] = <<>> => jobs'[r] = <<>>
  BY Zenon DEF Good, Kept, JobsKept
<1>3. CASE UNCHANGED <<fr, lock>>
  BY <1>1, <1>2, <1>3, Zenon DEF JobInv, LaunchInv, Sound
<1>4. CASE Moves(a) /\ (a \in Workers => fr[a].pc \notin Resting)
  <2>1. \A w \in Workers : fr[w].pc = "prepare" /\ fr[w].r \in Runs => jobs'[fr[w].r] = <<>>
    BY <1>2, Zenon DEF JobInv, LaunchInv
  <2> QED BY <1>1, <1>4, <2>1, ControlKept, Zenon DEF JobInv
<1> QED BY <1>3, <1>4, Zenon DEF Good

LEMMA GoMoves ==
  ASSUME NEW a, Sound(fr[a]), NEW pc, pc # "prepare", Go(a, pc)
  PROVE  Moves(a)
BY StepMoves, Zenon DEF Go, Sound

LEMMA ServiceGood == ASSUME JobInv, NEW a \in Actors, Service(a) PROVE Good(a)
<1>1. Moves(a) /\ fr[a].pc \notin Resting
  BY ServiceMoves, Zenon DEF Service, JobInv, LaunchInv
<1>2. TrialsKept
  BY DispositionsKept, UnchangedKept, Zenon DEF Service, JobInv
<1>3. JobsKept /\ RecordsKept /\ ProcessKept
  BY UnchangedKept, Zenon DEF Service, JobInv
<1> QED BY <1>1, <1>2, <1>3, Zenon DEF Good, Kept

LEMMA ReadKept == ASSUME TableInv, NEW r, NEW j, NEW out, Read(r, j, out) PROVE ProcessKept
BY WriteProcess, Zenon DEF Read

-----------------------------------------------------------------------------
(* Launch, but for the stored intent, observation, and an exception of the   *)
(* entry.                                                                    *)
LEMMA ObserveGood ==
  ASSUME JobInv, NEW w \in Workers, 
         \/ StartProcess(w) \/ EntryRaises(w) \/ Journal(w) \/ JournalUpdate(w)
         \/ Watch(w) \/ Poll(w) \/ Collect(w)
  PROVE  Good(w)
<1>1. Sound(fr[w])
  BY Zenon DEF JobInv, LaunchInv, Actors
<1>2. TableInv
  BY Zenon DEF JobInv
<1>3. CASE StartProcess(w)
  <2>1. Moves(w) /\ fr[w].pc \notin Resting
    BY <1>3, <1>1, GoMoves, Zenon DEF StartProcess, At, Resting
  <2>2. Kept
    BY <1>3, <1>2, UnchangedKept, WriteProcess, Zenon DEF StartProcess, Kept, jobStore
  <2> QED BY <2>1, <2>2, Zenon DEF Good
<1>4. CASE EntryRaises(w)
  <2>1. Moves(w) /\ fr[w].pc \notin Resting
    BY <1>4, <1>1, GoMoves, Zenon DEF EntryRaises, EntryPcs, Resting
  <2>2. Kept
    BY <1>4, <1>2, UnchangedKept, LoseKept, Zenon DEF EntryRaises, Kept, jobStore
  <2> QED BY <2>1, <2>2, Zenon DEF Good
<1>5. CASE Journal(w)
  <2>1. Moves(w) /\ fr[w].pc \notin Resting
    BY <1>5, <1>1, GoMoves, Zenon DEF Journal, At, Resting
  <2>2. Kept
    BY <1>5, <1>2, UnchangedKept, InterruptKept, Zenon DEF Journal, Kept, jobStore
  <2> QED BY <2>1, <2>2, Zenon DEF Good
<1>6. CASE JournalUpdate(w)
  <2>1. Moves(w) /\ fr[w].pc \notin Resting
    BY <1>6, <1>1, GoMoves, Zenon DEF JournalUpdate, At, Resting
  <2>2. Kept
    BY <1>6, <1>2, UnchangedKept, UpdateKept, Zenon DEF JournalUpdate, Kept
  <2> QED BY <2>1, <2>2, Zenon DEF Good
<1>7. CASE Watch(w)
  <2>1. Moves(w) /\ fr[w].pc \notin Resting
    BY <1>7, <1>1, GoMoves, Zenon DEF Watch, At, Resting
  <2>2. Kept
    BY <1>7, <1>2, UnchangedKept, InterruptKept, Zenon DEF Watch, Kept, jobStore
  <2> QED BY <2>1, <2>2, Zenon DEF Good
<1>8. CASE Poll(w)
  <2>1. Moves(w) /\ fr[w].pc \notin Resting
    BY <1>8, <1>1, GoMoves, Zenon DEF Poll, At, Resting
  <2>2. Kept
    BY <1>8, <1>2, UnchangedKept, InterruptKept, Zenon DEF Poll, Kept, jobStore
  <2> QED BY <2>1, <2>2, Zenon DEF Good
<1>9. CASE Collect(w)
  <2>1. Moves(w) /\ fr[w].pc \notin Resting
    BY <1>9, <1>1, GoMoves, Zenon DEF Collect, At, Resting
  <2>2. Kept
    BY <1>9, <1>2, UnchangedKept, ReadKept, Zenon DEF Collect, Kept, jobStore
  <2> QED BY <2>1, <2>2, Zenon DEF Good
<1> QED BY <1>3, <1>4, <1>5, <1>6, <1>7, <1>8, <1>9, Zenon

(* The four writes of _settle and the import. *)
LEMMA SettleGood ==
  ASSUME JobInv, NEW w \in Workers, SettleStep(w)
  PROVE  Good(w)
<1>1. Sound(fr[w])
  BY Zenon DEF JobInv, LaunchInv, Actors
<1>2. TableInv
  BY Zenon DEF JobInv
<1>3. CASE Settle(w)
  <2>1. Moves(w) /\ fr[w].pc \notin Resting
    BY <1>3, <1>1, GoMoves, Zenon DEF Settle, At, Resting
  <2>2. Kept
    BY <1>3, <1>2, UnchangedKept, Zenon DEF Settle, Kept, jobStore
  <2> QED BY <2>1, <2>2, Zenon DEF Good
<1>4. CASE SettleIncomplete(w)
  <2>1. Moves(w) /\ fr[w].pc \notin Resting
    BY <1>4, <1>1, GoMoves, Zenon DEF SettleIncomplete, At, Resting
  <2>2. Kept
    BY <1>4, <1>2, UnchangedKept, UpdateKept, Zenon DEF SettleIncomplete, Kept, jobStore
  <2> QED BY <2>1, <2>2, Zenon DEF Good
<1>5. CASE SettleEvidence(w)
  <2>1. Moves(w) /\ fr[w].pc \notin Resting
    BY <1>5, <1>1, GoMoves, Zenon DEF SettleEvidence, At, Resting
  <2>2. Kept
    BY <1>5, <1>2, UnchangedKept, UpdateKept, Zenon DEF SettleEvidence, Kept
  <2> QED BY <2>1, <2>2, Zenon DEF Good
<1>6. CASE ImportRecord(w)
  <2>1. UNCHANGED <<fr, lock>>
    BY <1>6, Zenon DEF ImportRecord
  <2>2. Kept
    BY <1>6, <1>2, UnchangedKept, ImportKept, Zenon DEF ImportRecord, Kept
  <2> QED BY <2>1, <2>2, Zenon DEF Good
<1>7. CASE SettleImported(w)
  <2>1. Moves(w) /\ fr[w].pc \notin Resting
    BY <1>7, <1>1, GoMoves, Zenon DEF SettleImported, At, Resting
  <2>2. Kept
    BY <1>7, <1>2, UnchangedKept, UpdateKept, Zenon DEF SettleImported, Kept
  <2> QED BY <2>1, <2>2, Zenon DEF Good
<1>8. CASE SettleStatus(w)
  <2>1. Moves(w) /\ fr[w].pc \notin Resting
    BY <1>8, <1>1, GoMoves, Zenon DEF SettleStatus, At, Resting
  <2>2. Kept
    BY <1>8, <1>2, UnchangedKept, UpdateKept, Zenon DEF SettleStatus, Kept
  <2> QED BY <2>1, <2>2, Zenon DEF Good
<1>9. CASE SettleConflict(w)
  <2>1. Moves(w) /\ fr[w].pc \notin Resting
    BY <1>9, <1>1, GoMoves, Zenon DEF SettleConflict, At, Resting
  <2>2. Kept
    BY <1>9, <1>2, UnchangedKept, UpdateKept, Zenon DEF SettleConflict, Kept
  <2> QED BY <2>1, <2>2, Zenon DEF Good
<1> QED BY <1>3, <1>4, <1>5, <1>6, <1>7, <1>8, <1>9, Zenon DEF SettleStep

(* execute_external_job around the Job. *)
LEMMA ExecuteGood ==
  ASSUME JobInv, NEW w \in Workers, 
         \/ EnsurePlans(w) \/ ToRunning(w) \/ ParserMismatch(w) \/ JobReturn(w) \/ JobLate(w)
         \/ ImportTrial(w) \/ TrialsImported(w) \/ UpsertRow(w) \/ JobScore(w) \/ Finish(w)
  PROVE  Good(w)
<1>1. Sound(fr[w])
  BY Zenon DEF JobInv, LaunchInv, Actors
<1>2. TableInv
  BY Zenon DEF JobInv
<1>3. CASE EnsurePlans(w)
  <2>1. Moves(w) /\ fr[w].pc \notin Resting
    BY <1>3, <1>1, GoMoves, Zenon DEF EnsurePlans, At, Resting
  <2>2. TrialsKept
    <3> DEFINE t == IF IsTrial(w) THEN create_plans(trials[fr[w].r]) ELSE trials[fr[w].r]
    <3>1. trials' = [trials EXCEPT ![fr[w].r] = t]
      BY <1>3, Zenon DEF EnsurePlans
    <3>2. fr[w].r \in Runs => /\ DOMAIN t = Cases
                              /\ \A c \in Cases : trials[fr[w].r][c] \in Content =>
                                   t[c] = trials[fr[w].r][c]
      BY <1>2, PlansKeep, Zenon DEF TableInv
    <3> HIDE DEF t
    <3> QED BY <1>2, <3>1, <3>2, WriteTrials, Zenon
  <2>3. JobsKept /\ RecordsKept /\ ProcessKept
    BY <1>3, <1>2, UnchangedKept, Zenon DEF EnsurePlans
  <2> QED BY <2>1, <2>2, <2>3, Zenon DEF Good, Kept
<1>4. CASE ToRunning(w)
  <2>1. Moves(w) /\ fr[w].pc \notin Resting
    BY <1>4, <1>1, GoMoves, StepMoves, Zenon DEF ToRunning, At, Resting, Transition, Sound
  <2>2. Kept
    BY <1>4, <1>2, UnchangedKept, Zenon DEF ToRunning, Kept, jobStore
  <2> QED BY <2>1, <2>2, Zenon DEF Good
<1>5. CASE ParserMismatch(w)
  <2>1. Moves(w) /\ fr[w].pc \notin Resting
    BY <1>5, <1>1, GoMoves, Zenon DEF ParserMismatch, At, Resting
  <2>2. Kept
    BY <1>5, <1>2, UnchangedKept, Zenon DEF ParserMismatch, Kept, jobStore
  <2> QED BY <2>1, <2>2, Zenon DEF Good
<1>6. CASE JobReturn(w)
  <2>1. Moves(w) /\ fr[w].pc \notin Resting
    BY <1>6, <1>1, GoMoves, StepMoves, Zenon DEF JobReturn, At, Resting, Transition, Sound
  <2>2. Kept
    BY <1>6, <1>2, UnchangedKept, Zenon DEF JobReturn, Kept, jobStore
  <2> QED BY <2>1, <2>2, Zenon DEF Good
<1>7. CASE JobLate(w)
  <2>1. Moves(w) /\ fr[w].pc \notin Resting
    BY <1>7, <1>1, GoMoves, DieMoves, Zenon DEF JobLate, At, Resting
  <2>2. Kept
    BY <1>7, <1>2, UnchangedKept, Zenon DEF JobLate, Kept, jobStore
  <2> QED BY <2>1, <2>2, Zenon DEF Good
<1>8. CASE ImportTrial(w)
  <2>1. UNCHANGED <<fr, lock>>
    BY <1>8, Zenon DEF ImportTrial
  <2>2. Kept
    BY <1>8, <1>2, UnchangedKept, PutKept, DisposeKept, Zenon DEF ImportTrial, Kept
  <2> QED BY <2>1, <2>2, Zenon DEF Good
<1>9. CASE TrialsImported(w)
  <2>1. Moves(w) /\ fr[w].pc \notin Resting
    BY <1>9, <1>1, GoMoves, StepMoves, Zenon DEF TrialsImported, At, Resting, Sound
  <2>2. Kept
    BY <1>9, <1>2, UnchangedKept, Zenon DEF TrialsImported, Kept, jobStore
  <2> QED BY <2>1, <2>2, Zenon DEF Good
<1>10. CASE UpsertRow(w)
  <2>1. Moves(w) /\ fr[w].pc \notin Resting
    BY <1>10, <1>1, StepMoves, Zenon DEF UpsertRow, At, Resting, Honor, Sound
  <2>2. Kept
    BY <1>10, <1>2, UnchangedKept, Zenon DEF UpsertRow, Kept, jobStore
  <2> QED BY <2>1, <2>2, Zenon DEF Good
<1>11. CASE JobScore(w)
  <2>1. Moves(w) /\ fr[w].pc \notin Resting
    BY <1>11, <1>1, GoMoves, StepMoves, Zenon DEF JobScore, At, Resting, Honor, Sound
  <2>2. Kept
    BY <1>11, <1>2, UnchangedKept, DispositionsKept, Zenon DEF JobScore, Kept
  <2> QED BY <2>1, <2>2, Zenon DEF Good
<1>12. CASE Finish(w)
  <2>1. Moves(w) /\ fr[w].pc \notin Resting
    BY <1>12, <1>1, StepMoves, LeaveMoves, Zenon DEF Finish, At, Resting, Sound
  <2>2. Kept
    BY <1>12, <1>2, UnchangedKept, Zenon DEF Finish, Kept, jobStore
  <2> QED BY <2>1, <2>2, Zenon DEF Good
<1> QED BY <1>3, <1>4, <1>5, <1>6, <1>7, <1>8, <1>9, <1>10, <1>11, <1>12, Zenon

(* cancel in the process of the executing Worker. *)
LEMMA LocalGood ==
  ASSUME JobInv, NEW a \in Clients, LocalStep(a)
  PROVE  Good(a)
<1>1. Sound(fr[a])
  BY Zenon DEF JobInv, LaunchInv, Actors
<1>2. TableInv
  BY Zenon DEF JobInv
<1>3. CASE LocalCancel(a)
  <2>1. Moves(a)
    BY <1>3, <1>1, StepMoves, LeaveMoves, Zenon DEF LocalCancel, Sound
  <2>2. Kept
    BY <1>3, <1>2, UnchangedKept, Zenon DEF LocalCancel, Kept, jobStore
  <2> QED BY <2>1, <2>2, ActorsAssumption, Zenon DEF Good
<1>4. CASE LocalRequest(a)
  <2>1. Moves(a)
    BY <1>4, <1>1, StepMoves, RaiseMoves, Zenon DEF LocalRequest, Sound
  <2>2. Kept
    BY <1>4, <1>2, UnchangedKept, Zenon DEF LocalRequest, Kept, jobStore
  <2> QED BY <2>1, <2>2, ActorsAssumption, Zenon DEF Good
<1>5. CASE LocalInterrupt(a)
  <2>1. Moves(a)
    BY <1>5, <1>1, GoMoves, Zenon DEF LocalInterrupt
  <2>2. Kept
    BY <1>5, <1>2, UnchangedKept, Zenon DEF LocalInterrupt, Kept, jobStore
  <2> QED BY <2>1, <2>2, ActorsAssumption, Zenon DEF Good
<1>6. CASE LocalKill(a)
  <2>1. Moves(a)
    BY <1>6, <1>1, GoMoves, Zenon DEF LocalKill
  <2>2. Kept
    BY <1>6, <1>2, UnchangedKept, InterruptKept, Zenon DEF LocalKill, Kept, jobStore
  <2> QED BY <2>1, <2>2, ActorsAssumption, Zenon DEF Good
<1>7. CASE LocalMark(a)
  <2>1. Moves(a)
    BY <1>7, <1>1, GoMoves, Zenon DEF LocalMark
  <2>2. Kept
    BY <1>7, <1>2, UnchangedKept, UpdateKept, Zenon DEF LocalMark, Kept
  <2> QED BY <2>1, <2>2, ActorsAssumption, Zenon DEF Good
<1>8. CASE LocalRefresh(a)
  <2>1. Moves(a)
    BY <1>8, <1>1, StepMoves, LeaveMoves, Zenon DEF LocalRefresh, Sound
  <2>2. Kept
    BY <1>8, <1>2, UnchangedKept, Zenon DEF LocalRefresh, Kept, jobStore
  <2> QED BY <2>1, <2>2, ActorsAssumption, Zenon DEF Good
<1> QED BY <1>3, <1>4, <1>5, <1>6, <1>7, <1>8, Zenon DEF LocalStep

-----------------------------------------------------------------------------
(* The stored intent: the Run has no Job, and nobody else is about to store  *)
(* one.                                                                      *)
LEMMA BeginTables ==
  ASSUME JobInv, NEW w \in Workers, BeginJob(w)
  PROVE  /\ TableInv'
         /\ \A r \in Runs : r # fr[w].r => jobs'[r] = jobs[r]
         /\ \A r \in Runs : \A j \in DOMAIN records[r] : records'[r][j] = records[r][j]
         /\ UNCHANGED trials
<1> DEFINE q == fr[w].r
           n == [status |-> "launching", pid |-> FALSE, import_completed |-> FALSE,
                 bundle |-> FALSE, frozen |-> NoResults, outcome |-> "none", error |-> FALSE]
<1>1. /\ jobs' = [jobs EXCEPT ![q] = Append(jobs[q], n)]
      /\ records' = [records EXCEPT ![q] = Append(records[q], NoResults)]
      /\ process' = [process EXCEPT ![q] = Append(process[q], NotStarted)]
      /\ UNCHANGED trials
  BY Zenon DEF BeginJob, begin_job
<1> HIDE DEF n
<1>2. /\ DOMAIN jobs' = Runs /\ DOMAIN process' = Runs /\ DOMAIN records' = Runs
      /\ \A r \in Runs : r # q => /\ jobs'[r] = jobs[r] /\ process'[r] = process[r]
                                   /\ records'[r] = records[r]
  BY <1>1, Zenon DEF JobInv, TableInv
<1>3. ASSUME q \in Runs
      PROVE  /\ jobs'[q] = <<n>> /\ process'[q] = <<NotStarted>> /\ records'[q] = <<NoResults>>
             /\ records[q] = <<>>
  <2>1. jobs[q] = <<>>
    BY <1>3, Zenon DEF BeginJob, At, JobInv, LaunchInv
  <2>2. process[q] = <<>> /\ records[q] = <<>>
    BY <1>3, <2>1, Zenon DEF JobInv, TableInv
  <2> QED BY <1>1, <1>3, <2>1, <2>2, AppendFirst, Zenon DEF JobInv, TableInv
<1>4. DOMAIN NoResults = Cases
  BY Zenon DEF NoResults
<1>5. ASSUME NEW r \in Runs
      PROVE  /\ AtMostOne(jobs'[r]) /\ AtMostOne(process'[r]) /\ AtMostOne(records'[r])
             /\ jobs'[r] = <<>> => process'[r] = <<>> /\ records'[r] = <<>>
             /\ \A j \in DOMAIN records'[r] : DOMAIN records'[r][j] = Cases
             /\ \A j \in DOMAIN records[r] : records'[r][j] = records[r][j]
  <2>1. CASE r = q
    <3>1. /\ jobs'[r] = <<n>> /\ process'[r] = <<NotStarted>> /\ records'[r] = <<NoResults>>
          /\ records[r] = <<>>
      BY <1>3, <2>1, Zenon
    <3>2. AtMostOne(jobs'[r]) /\ AtMostOne(process'[r]) /\ AtMostOne(records'[r])
      BY <3>1, Zenon DEF AtMostOne
    <3>3. jobs'[r] # <<>>
      BY <3>1, AppendFirst, Zenon
    <3>4. DOMAIN records'[r] = {1} /\ records'[r][1] = NoResults /\ DOMAIN records[r] = {}
      BY <3>1
    <3> QED BY <1>4, <3>2, <3>3, <3>4, Zenon
  <2>2. CASE r # q
    BY <1>2, <2>2, Zenon DEF JobInv, TableInv
  <2> QED BY <2>1, <2>2, Zenon
<1>6. \A r \in Runs : AtMostOne(jobs[r])' /\ AtMostOne(process[r])' /\ AtMostOne(records[r])'
  BY <1>5, Zenon DEF AtMostOne
<1> QED BY <1>1, <1>2, <1>5, <1>6, Zenon DEF JobInv, TableInv

LEMMA BeginInv == ASSUME JobInv, NEW w \in Workers, BeginJob(w) PROVE JobInv'
<1>1. Sound(fr[w]) /\ w \in Actors
  BY Zenon DEF JobInv, LaunchInv, Actors
<1>2. Moves(w) /\ fr[w].pc \notin Resting
  BY <1>1, GoMoves, Zenon DEF BeginJob, At, Resting
<1>3. \A v \in Workers : fr[v].pc = "prepare" => v = w
  BY Zenon DEF BeginJob, At, JobInv, LaunchInv, Resting
<1>4. LaunchInv'
  BY <1>1, <1>2, <1>3, ControlKept, Zenon DEF JobInv
<1> QED BY <1>4, BeginTables, Zenon DEF JobInv

(* JobEntry launches only when it has seen that there is no Job. *)
LEMMA EntryInv == ASSUME JobInv, NEW w \in Workers, JobEntry(w) PROVE JobInv'
<1>1. Sound(fr[w]) /\ w \in Actors /\ TableInv
  BY Zenon DEF JobInv, LaunchInv, Actors
<1>2. UNCHANGED <<jobs, records, trials, process>>
  BY Zenon DEF JobEntry, jobStore
<1>3. Kept
  BY <1>1, <1>2, UnchangedKept, Zenon DEF Kept
<1>4. \/ Len(jobs[fr[w].r]) = 0 /\ Go(w, "prepare")
      \/ Go(w, "settle")
      \/ Go(w, "watch")
  BY Zenon DEF JobEntry
<1>5. CASE Go(w, "settle") \/ Go(w, "watch")
  <2>1. Moves(w) /\ fr[w].pc \notin Resting
    BY <1>1, <1>5, GoMoves, Zenon DEF JobEntry, At, Resting
  <2> QED BY <1>1, <1>3, <2>1, GoodInv, Zenon DEF Good
<1>6. CASE Len(jobs[fr[w].r]) = 0 /\ Go(w, "prepare")
  <2>1. fr' = [fr EXCEPT ![w] = [fr[w] EXCEPT !.pc = "prepare"]] /\ UNCHANGED lock
    BY <1>6, Zenon DEF Go, Step
  <2>2. fr[w].r \in Runs => jobs[fr[w].r] = <<>>
    BY <1>1, <1>6, OneEntry, Zenon DEF TableInv
  <2>3. lock = w
    BY Zenon DEF JobEntry, At, JobInv, LaunchInv, Resting
  <2>4. /\ DOMAIN fr' = Actors
        /\ \A b \in Actors : b # w => fr'[b] = fr[b]
        /\ fr'[w] = [fr[w] EXCEPT !.pc = "prepare"]
    BY <1>1, <2>1, Zenon DEF JobInv, LaunchInv
  <2>5. Sound(fr'[w]) /\ fr'[w].r = fr[w].r
    BY <1>1, <2>4, Zenon DEF Sound
  <2>6. \A b \in Actors : Sound(fr[b])'
    BY <2>4, <2>5, Zenon DEF Sound, JobInv, LaunchInv
  <2>7. \A v \in Workers :
          /\ fr'[v].pc \notin Resting => lock' = v
          /\ fr'[v].pc = "prepare" /\ fr'[v].r \in Runs => jobs'[fr'[v].r] = <<>>
    BY <1>2, <2>1, <2>2, <2>3, <2>4, <2>5, Zenon DEF JobInv, LaunchInv, Actors
  <2>8. LaunchInv'
    BY <2>1, <2>4, <2>6, <2>7, Zenon DEF JobInv, LaunchInv
  <2> QED BY <1>1, <1>3, <2>8, TablesKept, Zenon DEF JobInv
<1> QED BY <1>4, <1>5, <1>6, Zenon

(* A Worker that takes the lock: every other one rests. *)
LEMMA TakesLock ==
  ASSUME JobInv, NEW w \in Workers, NEW f, Sound(f), f.pc # "prepare", lock = NoActor,
         fr' = [fr EXCEPT ![w] = f], lock' = w, Kept
  PROVE  JobInv'
<1>1. TableInv'
  BY TablesKept, Zenon DEF JobInv
<1>2. /\ DOMAIN fr' = Actors
      /\ \A b \in Actors : b # w => fr'[b] = fr[b]
      /\ fr'[w] = f
      /\ Workers \subseteq Actors
  BY Zenon DEF JobInv, LaunchInv, Actors
<1>3. \A v \in Workers : fr[v].pc \in Resting
  BY ActorsAssumption, Zenon DEF JobInv, LaunchInv
<1>4. \A b \in Actors : Sound(fr[b])'
  BY <1>2, Zenon DEF JobInv, LaunchInv, Sound
<1>5. \A v \in Workers : /\ fr'[v].pc \notin Resting => lock' = v
                         /\ fr'[v].pc # "prepare"
  BY <1>2, <1>3, Zenon DEF Resting
<1> QED BY <1>1, <1>2, <1>4, <1>5, Zenon DEF JobInv, LaunchInv

(* The end of a process with the requests it serves. *)
LEMMA CrashInv == ASSUME JobInv, NEW w \in Workers, Crash(w) PROVE JobInv'
<1> DEFINE gone == IF w = Host THEN LocalClients ELSE {}
<1>1. /\ fr' = [a \in Actors |-> IF a = w THEN Blank("down")
                                 ELSE IF a \in gone THEN Blank("idle") ELSE fr[a]]
      /\ Release(w)
      /\ Lose(w)
      /\ UNCHANGED <<jobs, records, trials>>
  BY Zenon DEF Crash, jobStore
<1>2. gone \cap Workers = {}
  BY ActorsAssumption, JobWorkerAssumption, Zenon
<1> HIDE DEF gone
<1>3. TableInv'
  <2>1. Kept
    BY <1>1, UnchangedKept, LoseKept, Zenon DEF JobInv, Kept
  <2> QED BY <2>1, TablesKept, Zenon DEF JobInv
<1>4. lock' \in Workers \cup {NoActor}
  BY <1>1, Zenon DEF Release, JobInv, LaunchInv
<1>5. DOMAIN fr' = Actors
  BY <1>1, Zenon
<1>6. ASSUME NEW b \in Actors
      PROVE  Sound(fr'[b])
  BY <1>1, BlankSound, Zenon DEF JobInv, LaunchInv
<1>7. \A b \in Actors : Sound(fr[b])'
  BY <1>6, Zenon DEF Sound
<1>8. fr'[w].pc = "down"
  BY <1>1, BlankSound, Zenon DEF Actors
<1>9. \A v \in Workers : v # w => fr'[v] = fr[v]
  BY <1>1, <1>2, Zenon DEF Actors
<1>10. ASSUME NEW v \in Workers
       PROVE  /\ fr'[v].pc \notin Resting => lock' = v
              /\ fr'[v].pc = "prepare" /\ fr'[v].r \in Runs => jobs'[fr'[v].r] = <<>>
  <2>1. CASE v = w
    BY <1>8, <2>1, Zenon DEF Resting
  <2>2. CASE v # w
    BY <1>1, <1>9, <2>2, Zenon DEF Release, JobInv, LaunchInv
  <2> QED BY <2>1, <2>2, Zenon
<1> QED BY <1>3, <1>4, <1>5, <1>7, <1>10, Zenon DEF JobInv, LaunchInv

-----------------------------------------------------------------------------
(* What a step may never do to imported evidence. *)
EvidenceKept ==
  /\ \A r \in Runs : \A j \in DOMAIN records[r] : \A c \in Cases :
       records[r][j][c] # "none" => records'[r][j][c] = records[r][j][c]
  /\ \A r \in Runs, c \in Cases : trials[r][c] \in Content => trials'[r][c] = trials[r][c]

LEMMA KeptEvidence == Kept => EvidenceKept
BY Zenon DEF Kept, RecordsKept, TrialsKept, EvidenceKept

LEMMA WorkerInv ==
  ASSUME JobInv, NEW w \in Workers, WorkerStep(w)
  PROVE  JobInv' /\ EvidenceKept
<1>1. w \in Actors /\ Sound(fr[w]) /\ TableInv
  BY Zenon DEF JobInv, LaunchInv, Actors
<1>2. CASE Good(w)
  BY <1>1, <1>2, GoodInv, KeptEvidence, Zenon DEF Good
<1>3. CASE Start(w)
  <2>1. Kept
    BY <1>1, <1>3, UnchangedKept, Zenon DEF Start, jobStore, Kept
  <2>2. Sound(Blank("requeue")) /\ Blank("requeue").pc # "prepare"
    BY BlankSound
  <2> QED BY <1>3, <2>1, <2>2, TakesLock, KeptEvidence, Zenon DEF Start
<1>4. CASE Requeue(w)
  <2>1. Kept
    BY <1>1, <1>4, UnchangedKept, Zenon DEF Requeue, jobStore, Kept
  <2>2. Moves(w) /\ fr[w].pc \notin Resting
    BY <1>4, LeaveMoves, Zenon DEF Requeue, At, Resting
  <2> QED BY <1>2, <2>1, <2>2, Zenon DEF Good
<1>5. CASE Claim(w)
  <2>1. Kept
    BY <1>1, <1>5, UnchangedKept, Zenon DEF Claim, jobStore, Kept
  <2>2. PICK r \in Runs : fr' = [fr EXCEPT ![w] = [Blank("plans") EXCEPT !.r = r]]
    BY <1>5, Zenon DEF Claim
  <2> DEFINE f == [Blank("plans") EXCEPT !.r = r]
  <2>3. Sound(f) /\ f.pc # "prepare"
    BY BlankSound, Zenon DEF Sound
  <2> HIDE DEF f
  <2>4. fr' = [fr EXCEPT ![w] = f] /\ lock = NoActor /\ lock' = w
    BY <1>5, <2>2, Zenon DEF Claim, f
  <2> QED BY <2>1, <2>3, <2>4, TakesLock, KeptEvidence, Zenon
<1>6. CASE JobStep(w)
  <2>1. CASE JobEntry(w)
    BY <1>1, <2>1, EntryInv, UnchangedKept, Zenon DEF JobEntry, jobStore, EvidenceKept
  <2>2. CASE BeginJob(w)
    BY <2>2, BeginInv, BeginTables, Zenon DEF EvidenceKept
  <2> QED BY <1>2, <1>6, <2>1, <2>2, ObserveGood, SettleGood, ExecuteGood, Zenon
             DEF JobStep, ObserveStep
<1>7. CASE Service(w)
  BY <1>1, <1>2, <1>7, ServiceGood, Zenon
<1> QED BY <1>3, <1>4, <1>5, <1>6, <1>7, Zenon DEF WorkerStep

LEMMA StepInv == ASSUME JobInv, Next PROVE JobInv' /\ EvidenceKept
<1>1. TableInv
  BY Zenon DEF JobInv
<1>2. ASSUME NEW a \in Actors, Good(a)
      PROVE  JobInv' /\ EvidenceKept
  BY <1>2, GoodInv, KeptEvidence, Zenon DEF Good
<1>3. ASSUME Kept, UNCHANGED <<fr, lock>>
      PROVE  JobInv' /\ EvidenceKept
  BY <1>2, <1>3, JobWorkerAssumption, Zenon DEF Good, Actors
<1>4. ASSUME NEW r \in Runs, Submit(r)
      PROVE  JobInv' /\ EvidenceKept
  <2>1. PICK planned \in BOOLEAN :
          trials' = [trials EXCEPT ![r] = IF planned /\ r \in TrialRuns THEN create_plans(trials[r])
                                          ELSE trials[r]]
    BY <1>4, Zenon DEF Submit
  <2> DEFINE t == IF planned /\ r \in TrialRuns THEN create_plans(trials[r]) ELSE trials[r]
  <2>2. DOMAIN t = Cases /\ \A c \in Cases : trials[r][c] \in Content => t[c] = trials[r][c]
    BY <1>1, PlansKeep, Zenon DEF TableInv
  <2>3. trials' = [trials EXCEPT ![r] = t]
    BY <2>1, Zenon
  <2> HIDE DEF t
  <2>4. TrialsKept
    BY <1>1, <2>2, <2>3, WriteTrials, Zenon
  <2>5. Kept /\ UNCHANGED <<fr, lock>>
    BY <1>1, <1>4, <2>4, UnchangedKept, Zenon DEF Submit, Kept
  <2> QED BY <1>3, <2>5, Zenon
<1>5. ASSUME NEW r \in Runs, NEW c \in Cases, ImportLate(r, c)
      PROVE  JobInv' /\ EvidenceKept
  BY <1>1, <1>3, <1>5, ImportKept, UnchangedKept, Zenon DEF ImportLate, Kept
<1>6. ASSUME NEW r \in Runs, NEW j \in DOMAIN process[r], Exit(r, j)
      PROVE  JobInv' /\ EvidenceKept
  BY <1>1, <1>3, <1>6, WriteProcess, UnchangedKept, Zenon DEF Exit, jobStore, Kept
<1>7. ASSUME NEW w \in Workers, WorkerStep(w)
      PROVE  JobInv' /\ EvidenceKept
  BY <1>7, WorkerInv, Zenon
<1>8. ASSUME NEW w \in Workers, Deadline(w) \/ Idle(w)
      PROVE  JobInv' /\ EvidenceKept
  BY <1>1, <1>3, <1>8, UnchangedKept, Zenon DEF Deadline, Idle, vars, jobStore, Kept
<1>9. ASSUME NEW w \in Workers, Crash(w)
      PROVE  JobInv' /\ EvidenceKept
  <2>1. Kept
    BY <1>1, <1>9, UnchangedKept, LoseKept, Zenon DEF Crash, jobStore, Kept
  <2> QED BY <1>9, <2>1, CrashInv, KeptEvidence, Zenon
<1>10. ASSUME NEW a \in Clients, Service(a) \/ LocalStep(a)
       PROVE  JobInv' /\ EvidenceKept
  BY <1>2, <1>10, ServiceGood, LocalGood, Zenon DEF Actors
<1>11. ASSUME NEW a \in Clients, NEW r \in Runs, NEW reason \in BOOLEAN, Cancel(a, r, reason)
       PROVE  JobInv' /\ EvidenceKept
  <2> DEFINE pc == IF a \in LocalClients THEN "jobCancel" ELSE "cancel"
             f == [Blank(pc) EXCEPT !.r = r, !.flag = reason]
  <2>1. Step(a, f)
    BY <1>11, Zenon DEF Cancel
  <2>2. Sound(f) /\ f.pc # "prepare"
    BY BlankSound, Zenon DEF Sound
  <2> HIDE DEF f
  <2>3. Moves(a)
    BY <2>1, <2>2, StepMoves, Zenon
  <2>4. Kept
    BY <1>1, <1>11, UnchangedKept, Zenon DEF Cancel, jobStore, Kept
  <2> QED BY <1>2, <2>3, <2>4, ActorsAssumption, Zenon DEF Good, Actors
<1> QED BY <1>4, <1>5, <1>6, <1>7, <1>8, <1>9, <1>10, <1>11, Zenon DEF Next

LEMMA JobInitInv == Init => JobInv
<1> SUFFICES ASSUME Init PROVE JobInv
  OBVIOUS
<1>1. /\ jobs = [r \in Runs |-> <<>>] /\ process = [r \in Runs |-> <<>>]
      /\ records = [r \in Runs |-> <<>>] /\ trials = [r \in Runs |-> [c \in Cases |-> "unplanned"]]
  BY Zenon DEF Init, JobStoreInit
<1>2. TableInv
  BY <1>1 DEF TableInv, AtMostOne
<1>3. /\ fr = [a \in Actors |-> Blank(IF a \in Workers THEN "down" ELSE "idle")]
      /\ lock = NoActor
  BY Zenon DEF Init
<1>4. \A a \in Actors : Sound(fr[a]) /\ fr[a].pc \in Resting
  BY <1>3, BlankSound, Zenon DEF Resting
<1>5. LaunchInv
  BY <1>3, <1>4, Zenon DEF LaunchInv, Actors, Resting
<1> QED BY <1>2, <1>5, Zenon DEF JobInv

LEMMA JobInvariant == Spec => []JobInv
<1>1. JobInv /\ UNCHANGED vars => JobInv'
  BY DEF vars, jobStore, JobInv, LaunchInv, TableInv, Sound, AtMostOne
<1>2. JobInv /\ [Next]_vars => JobInv'
  BY <1>1, StepInv, Zenon
<1> QED BY <1>2, JobInitInv, PTL DEF Spec

-----------------------------------------------------------------------------
(* DurableExternalJobRunner never starts a second external process for a     *)
(* Run: the intent is stored first, and a Run that has one is only observed  *)
(* or replayed, whoever claims it after however many crashes.                *)
THEOREM LaunchedOnce == Spec => []StartedOnce
<1>1. JobInv => StartedOnce
  <2> SUFFICES ASSUME JobInv, NEW r \in Runs
               PROVE  Cardinality({j \in DOMAIN process[r] : process[r][j].state # "none"}) <= 1
    BY Zenon DEF StartedOnce
  <2> DEFINE started == {j \in DOMAIN process[r] : process[r][j].state # "none"}
  <2>1. started \subseteq {1}
    BY OneEntry, Zenon DEF JobInv, TableInv
  <2>2. started = {} \/ started = {1}
    BY <2>1, Zenon
  <2>3. Cardinality({}) = 0 /\ Cardinality({1}) = 1
    BY FS_EmptySet, FS_Singleton, Zenon
  <2>4. Cardinality(started) <= 1
    <3> HIDE DEF started
    <3> QED BY <2>2, <2>3
  <2> QED BY <2>4, Zenon
<1> QED BY <1>1, JobInvariant, PTL

(* import_record and put_result never replace what came from the runner, in  *)
(* no interleaving with replays, late imports, cancellations and crashes.    *)
THEOREM EvidenceStays == Spec => EvidenceIsFinal
<1>1. JobInv /\ [Next]_vars => [EvidenceKept]_vars
  BY StepInv, Zenon
<1>2. EvidenceIsFinal <=> [][EvidenceKept]_vars
  BY PTL DEF EvidenceIsFinal, EvidenceKept
<1> QED BY <1>1, <1>2, JobInvariant, PTL DEF Spec
=============================================================================
