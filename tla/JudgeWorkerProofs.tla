------------------------- MODULE JudgeWorkerProofs -------------------------
(***************************************************************************)
(* What holds of JudgeWorker for any jobs, plans, Workers, clients,        *)
(* requests and crashes, with a lock that may be lost at any time: no call *)
(* is sent twice, what is published was judged, no job is closed over an   *)
(* open call, and every step is one of JudgeStore.                         *)
(*                                                                         *)
(* The invariant does not mention the executor lock.  Two Workers on one   *)
(* job are kept apart by the ledger alone: begin_call commits only a call  *)
(* that is not in it yet, and every write compares the revision.           *)
(*                                                                         *)
(* The first part is about JudgeStore alone: what its transactions         *)
(* guarantee to any caller, for any number of jobs, calls, Runs and Cases. *)
(***************************************************************************)
EXTENDS JudgeWorker, WellFoundedInduction, TLAPS

(* The types the argument rests on. *)
Types ==
  /\ run \in [Runs -> RunRecord]
  /\ passes \in [Runs -> Seq(Pass)]
  /\ JobTypeOK

(* PublishedOnce is inductive once the tables have their types: a job that   *)
(* can publish is not completed, so it has no receipt, and a new receipt is  *)
(* beyond the passes that the others name.                                   *)
JudgeInv == Types /\ PublishedOnce

(* The Run that the jobs score is one of the Runs. *)
LEMMA SubjectIsRun == Subject \in Runs
BY NRunsAssumption DEF Subject, Runs

(* What NextJob does to the jobs. *)
LEMMA NextJobFacts ==
  ASSUME JobTypeOK, NEW j \in Jobs, NEW status \in JobStatus, NEW cancel \in BOOLEAN,
         NEW calls \in [Plans -> CallStatus], NEW receipt \in Nat,
         NextJob(j, status, cancel, calls, receipt)
  PROVE  /\ JobTypeOK'
         /\ job'[j].status = status
         /\ job'[j].calls = calls
         /\ job'[j].receipt = receipt
         /\ \A i \in Jobs : i # j => job'[i] = job[i]
<1> DEFINE new == [status |-> status, revision |-> job[j].revision + 1,
                   cancel |-> cancel, calls |-> calls, receipt |-> receipt]
<1>1. new \in JobRecord
  BY DEF JobTypeOK, JobRecord
<1>2. job' = [job EXCEPT ![j] = new]
  BY Zenon DEF NextJob
<1> HIDE DEF new
<1>3. JobTypeOK' /\ job'[j] = new /\ \A i \in Jobs : i # j => job'[i] = job[i]
  BY <1>1, <1>2, Zenon DEF JobTypeOK
<1> QED
  BY <1>3 DEF new

(* The fields of a job. *)
LEMMA JobFields ==
  ASSUME JobTypeOK, NEW j \in Jobs
  PROVE  /\ job[j].status \in JobStatus
         /\ job[j].cancel \in BOOLEAN
         /\ job[j].calls \in [Plans -> CallStatus]
         /\ job[j].receipt \in Nat
BY Zenon DEF JobTypeOK, JobRecord

(* No receipt changes and no job becomes or stops being completed. *)
QuietJobs ==
  \A i \in Jobs : /\ job'[i].receipt = job[i].receipt
                  /\ job'[i].status = "completed" <=> job[i].status = "completed"

(* A step that publishes nothing keeps PublishedOnce. *)
LEMMA QuietInv ==
  ASSUME PublishedOnce, QuietJobs, UNCHANGED passes
  PROVE  PublishedOnce'
BY DEF PublishedOnce, QuietJobs

(* A transaction on one job that is not a publication. *)
LEMMA OneJobQuiet ==
  ASSUME Types, NEW j \in Jobs, NEW status \in JobStatus, NEW cancel \in BOOLEAN,
         NEW calls \in [Plans -> CallStatus],
         NextJob(j, status, cancel, calls, job[j].receipt),
         status = "completed" <=> job[j].status = "completed",
         UNCHANGED store
  PROVE  Types' /\ QuietJobs /\ UNCHANGED passes
<1>1. job[j].receipt \in Nat
  BY JobFields, Zenon DEF Types
<1>2. JobTypeOK' /\ job'[j].status = status /\ job'[j].receipt = job[j].receipt
      /\ \A i \in Jobs : i # j => job'[i] = job[i]
  BY <1>1, NextJobFacts DEF Types
<1> QED
  BY <1>2, Zenon DEF Types, QuietJobs, store

-----------------------------------------------------------------------------
(* Appending keeps the passes that are there and adds one at the end. *)
LEMMA AppendFacts ==
  ASSUME passes \in [Runs -> Seq(Pass)], NEW r \in Runs, NEW pass \in Pass,
         passes' = [passes EXCEPT ![r] = Append(passes[r], pass)]
  PROVE  /\ passes' \in [Runs -> Seq(Pass)]
         /\ Len(passes[r]) \in Nat
         /\ DOMAIN passes[r] = 1..Len(passes[r])
         /\ DOMAIN passes'[r] = 1..(Len(passes[r]) + 1)
         /\ \A k \in DOMAIN passes[r] : passes'[r][k] = passes[r][k]
         /\ passes'[r][Len(passes[r]) + 1] = pass
         /\ \A q \in Runs : q # r => passes'[q] = passes[q]
<1> DEFINE old == passes[r]
           new == Append(old, pass)
<1>1. old \in Seq(Pass)
  OBVIOUS
<1>2. passes'[r] = new /\ \A q \in Runs : q # r => passes'[q] = passes[q]
  OBVIOUS
<1> HIDE DEF old
<1>3. /\ new \in Seq(Pass)
      /\ Len(old) \in Nat
      /\ DOMAIN old = 1..Len(old)
      /\ DOMAIN new = 1..(Len(old) + 1)
      /\ \A k \in DOMAIN old : new[k] = old[k]
      /\ new[Len(old) + 1] = pass
  BY <1>1
<1>4. passes' \in [Runs -> Seq(Pass)]
  BY <1>3, Zenon DEF old
<1> QED
  BY <1>2, <1>3, <1>4, Zenon DEF old

(* The parts of a transaction of another client that matter here: the Runs   *)
(* keep their type and at most one pass, not a judge's, is appended.         *)
LEMMA NextRunTyped ==
  ASSUME run \in [Runs -> RunRecord], NEW r \in Runs, NEW status \in RunStatus,
         NEW cancellation \in BOOLEAN, NEW current \in Nat,
         NextRun(r, status, cancellation, current)
  PROVE  run' \in [Runs -> RunRecord]
BY DEF NextRun, RunRecord

(* The fields of a Run. *)
LEMMA RunFields ==
  ASSUME run \in [Runs -> RunRecord], NEW r \in Runs, NEW b \in BOOLEAN
  PROVE  /\ run[r].status \in RunStatus
         /\ run[r].current \in Nat
         /\ run[r].cancellation \in BOOLEAN
         /\ (run[r].cancellation \/ b) \in BOOLEAN
BY Zenon DEF RunRecord

(* The transactions on one Run keep its type and append no pass. *)
LEMMA RunStepTyped ==
  ASSUME run \in [Runs -> RunRecord], NEW r \in Runs, RunStep(r)
  PROVE  run' \in [Runs -> RunRecord] /\ UNCHANGED passes
<1>0. {"queued", "preparing", "needs_review"} \subseteq RunStatus
  BY Zenon DEF RunStatus, INTERRUPTED_STATES, TERMINAL
<1>1. CASE create(r)
  BY <1>0, <1>1, Zenon DEF create, RunRecord
<1>2. CASE claim(r)
  BY <1>0, <1>2, RunFields, NextRunTyped, Zenon DEF claim
<1>3. CASE update(r, run[r].revision, run[r].status)
  BY <1>3, RunFields, NextRunTyped, Zenon DEF update
<1>4. ASSUME NEW to \in RunStatus \ {"absent"}, NEW cancellation \in BOOLEAN,
             transition(r, run[r].revision, run[r].status, to, cancellation)
      PROVE  run' \in [Runs -> RunRecord] /\ UNCHANGED passes
  BY <1>4, RunFields, NextRunTyped, Zenon DEF transition
<1>5. CASE quarantine_indeterminate(r, run[r].revision, run[r].status)
  BY <1>0, <1>5, RunFields, NextRunTyped, Zenon DEF quarantine_indeterminate
<1> QED
  BY <1>1, <1>2, <1>3, <1>4, <1>5, Zenon DEF RunStep

(* A pass that is not a judge's changes no receipt and needs none. *)
LEMMA PassStepInv ==
  ASSUME JudgeInv, NEW r \in Runs, PassStep(r), UNCHANGED job
  PROVE  JudgeInv'
<1>1. PICK source \in PassSource \ {"judge"}, scored \in SUBSET Cases,
           synthetic \in SUBSET Cases, final \in RunStatus \ {"absent"},
           cancellation \in BOOLEAN :
        append(r, run[r].revision, run[r].status,
               [source |-> source, scored |-> scored, previous |-> run[r].current],
               synthetic, final, cancellation)
  BY Zenon DEF PassStep
<1> DEFINE pass == [source |-> source, scored |-> scored, previous |-> run[r].current]
<1>2. run \in [Runs -> RunRecord] /\ passes \in [Runs -> Seq(Pass)]
  BY Zenon DEF JudgeInv, Types
<1>3. pass \in Pass /\ pass.source # "judge"
  BY <1>2, RunFields, Zenon DEF Pass
<1>4. /\ passes' = [passes EXCEPT ![r] = Append(passes[r], pass)]
      /\ NextRun(r, final, run[r].cancellation \/ cancellation, Len(passes[r]) + 1)
  BY <1>1, Zenon DEF append
<1> HIDE DEF pass
<1>5. /\ passes' \in [Runs -> Seq(Pass)]
      /\ Len(passes[r]) \in Nat
      /\ DOMAIN passes[r] = 1..Len(passes[r])
      /\ DOMAIN passes'[r] = 1..(Len(passes[r]) + 1)
      /\ \A k \in DOMAIN passes[r] : passes'[r][k] = passes[r][k]
      /\ passes'[r][Len(passes[r]) + 1] = pass
      /\ \A q \in Runs : q # r => passes'[q] = passes[q]
  BY <1>2, <1>3, <1>4, AppendFacts, Zenon
<1>6. run' \in [Runs -> RunRecord]
  BY <1>2, <1>4, <1>5, RunFields, NextRunTyped
<1>7. PublishedOnce'
  <2>1. CASE r # Subject
    BY <1>5, <2>1, SubjectIsRun, Zenon DEF JudgeInv, PublishedOnce
  <2>2. CASE r = Subject
    <3>1. \A k \in DOMAIN passes'[Subject] :
            passes'[Subject][k].source = "judge" =>
              k \in DOMAIN passes[Subject] /\ passes[Subject][k].source = "judge"
      BY <1>3, <1>5, <2>2
    <3>2. \A k \in DOMAIN passes[Subject] :
            k \in DOMAIN passes'[Subject] /\ passes'[Subject][k] = passes[Subject][k]
      BY <1>5, <2>2
    <3> QED
      BY <3>1, <3>2 DEF JudgeInv, PublishedOnce
  <2> QED
    BY <2>1, <2>2, Zenon
<1> QED
  BY <1>5, <1>6, <1>7, Zenon DEF JudgeInv, Types, JobTypeOK

(* The steps of the other clients. *)
LEMMA OtherInv ==
  ASSUME JudgeInv, OtherStep
  PROVE  JudgeInv'
<1> USE DEF OtherStep
<1>1. run \in [Runs -> RunRecord]
  BY Zenon DEF JudgeInv, Types
<1>2. ASSUME run' \in [Runs -> RunRecord], UNCHANGED passes PROVE JudgeInv'
  BY <1>2, QuietInv, Zenon DEF JudgeInv, Types, JobTypeOK, QuietJobs
<1>3. CASE requeue_interrupted
  <2>1. "queued" \in RunStatus
    BY Zenon DEF RunStatus, INTERRUPTED_STATES, TERMINAL
  <2>2. run' \in [Runs -> RunRecord] /\ UNCHANGED passes
    BY <1>1, <1>3, <2>1 DEF requeue_interrupted, RunRecord
  <2> QED
    BY <1>2, <2>2, Zenon
<1>4. ASSUME NEW r \in Runs, RunStep(r) PROVE JudgeInv'
  BY <1>1, <1>2, <1>4, RunStepTyped, Zenon
<1>5. ASSUME NEW r \in Runs, PassStep(r) PROVE JudgeInv'
  BY <1>5, PassStepInv, Zenon
<1>6. ASSUME NEW r \in Runs, NEW c \in Cases, CaseStep(r, c) PROVE JudgeInv'
  <2>1. UNCHANGED <<run, passes>>
    BY <1>6, Zenon DEF CaseStep, upsert, begin, dispatch, attempt_transition, complete
  <2> QED
    BY <1>1, <1>2, <2>1, Zenon
<1> QED
  BY <1>3, <1>4, <1>5, <1>6, Zenon DEF StoreNext

-----------------------------------------------------------------------------
(* What a transaction on jobs alone may do: the types stay, nothing is       *)
(* published, and a final job keeps its outcome.                             *)
Final(j) == job[j].status \in TERMINAL_JOB_STATES \ {"failed"}

Harmless ==
  /\ Types'
  /\ QuietJobs
  /\ UNCHANGED passes
  /\ \A j \in Jobs : Final(j) => KeepsOutcome(j)

(* A transaction that writes one job, not a completed one. *)
LEMMA OneJobHarmless ==
  ASSUME Types, NEW j \in Jobs, NEW status \in JobStatus \ {"completed"},
         NEW cancel \in BOOLEAN, NEW calls \in [Plans -> CallStatus],
         NextJob(j, status, cancel, calls, job[j].receipt),
         job[j].status # "completed",
         Final(j) => status = job[j].status /\ calls = job[j].calls,
         UNCHANGED store
  PROVE  Harmless
<1>1. job[j].receipt \in Nat
  BY JobFields, Zenon DEF Types
<1>2. /\ job'[j].status = status
      /\ job'[j].calls = calls
      /\ job'[j].receipt = job[j].receipt
      /\ \A i \in Jobs : i # j => job'[i] = job[i]
  BY <1>1, NextJobFacts DEF Types
<1>3. Types' /\ QuietJobs /\ UNCHANGED passes
  BY OneJobQuiet, Zenon
<1> QED
  BY <1>2, <1>3, Zenon DEF Harmless, KeepsOutcome

(* Recovery touches only prepared and dispatching jobs. *)
LEMMA RecoverHarmless ==
  ASSUME Types, recover_jobs
  PROVE  Harmless
<1>1. job \in [Jobs -> JobRecord]
  BY Zenon DEF Types, JobTypeOK
<1>2. \A j \in Jobs :
        /\ job'[j] \in JobRecord
        /\ job'[j].receipt = job[j].receipt
        /\ job'[j] = job[j] \/ (/\ job[j].status \in {"prepared", "dispatching"}
                                /\ job'[j].status \in {"queued", "indeterminate"})
  BY <1>1 DEF recover_jobs, JobRecord, JobStatus, CallStatus, Outcome, TERMINAL_JOB_STATES
<1>3. job' \in [Jobs -> JobRecord]
  <2>1. job' = [j \in Jobs |-> job'[j]]
    BY Zenon DEF recover_jobs
  <2> QED
    BY <1>2, <2>1, Zenon
<1> QED
  BY <1>2, <1>3, Zenon DEF recover_jobs, Harmless, Types, JobTypeOK, QuietJobs, KeepsOutcome, Final,
     TERMINAL_JOB_STATES, store

(* Every transaction on one job but the publication. *)
LEMMA JobStepHarmless ==
  ASSUME JudgeInv, NEW j \in Jobs,
         \/ submit(j)
         \/ claim_job(j)
         \/ cancel_job(j)
         \/ \E to \in JobStatus \ {"completed"} :
              job_transition(j, job[j].revision, job[j].status, to)
         \/ \E p \in Plans :
              \/ begin_call(j, p, job[j].revision)
              \/ \E outcome \in Outcome, to \in JobStatus :
                   settle_call(j, p, job[j].revision, outcome, to)
  PROVE  Harmless
<1> USE DEF JudgeInv
<1>0. /\ {"queued", "prepared", "dispatching", "settled", "cancelled"} \subseteq JobStatus
      /\ "none" \in CallStatus /\ "dispatching" \in CallStatus /\ Outcome \subseteq CallStatus
  BY Zenon DEF JobStatus, TERMINAL_JOB_STATES, CallStatus
<1>f. /\ job[j].status \in JobStatus /\ job[j].cancel \in BOOLEAN
      /\ job[j].calls \in [Plans -> CallStatus]
  BY JobFields, Zenon DEF Types
<1>t. /\ JOB_TRANSITIONS["dispatching"] = {"settled", "failed", "indeterminate", "cancelled"}
      /\ \A s \in {"completed", "cancelled", "indeterminate"} : JOB_TRANSITIONS[s] = {}
  BY Zenon DEF JOB_TRANSITIONS, JobStatus, TERMINAL_JOB_STATES
<1>1. CASE submit(j)
  <2>1. [p \in Plans |-> "none"] \in [Plans -> CallStatus]
    BY <1>0, Zenon
  <2>2. job[j].receipt = 0
    BY <1>1, Zenon DEF submit, PublishedOnce
  <2>3. NextJob(j, "queued", FALSE, [p \in Plans |-> "none"], job[j].receipt)
    BY <1>1, <2>2, Zenon DEF submit
  <2> QED
    BY <1>0, <1>1, <2>1, <2>3, OneJobHarmless, Zenon DEF submit, Final, TERMINAL_JOB_STATES
<1>2. CASE claim_job(j)
  BY <1>0, <1>f, <1>2, OneJobHarmless, Zenon DEF claim_job, Final, TERMINAL_JOB_STATES
<1>3. CASE cancel_job(j)
  BY <1>0, <1>f, <1>3, OneJobHarmless, Zenon DEF cancel_job, can_cancel, Final, TERMINAL_JOB_STATES
<1>4. ASSUME NEW to \in JobStatus \ {"completed"},
             job_transition(j, job[j].revision, job[j].status, to)
      PROVE  Harmless
  BY <1>f, <1>t, <1>4, OneJobHarmless DEF job_transition, Final, TERMINAL_JOB_STATES
<1>5. ASSUME NEW p \in Plans, begin_call(j, p, job[j].revision)
      PROVE  Harmless
  <2>1. [job[j].calls EXCEPT ![p] = "dispatching"] \in [Plans -> CallStatus]
    BY <1>0, <1>f, Zenon
  <2> QED
    BY <1>0, <1>5, <2>1, OneJobHarmless, Zenon
       DEF begin_call, can_begin_call, Final, TERMINAL_JOB_STATES
<1>6. ASSUME NEW p \in Plans, NEW outcome \in Outcome, NEW to \in JobStatus,
             settle_call(j, p, job[j].revision, outcome, to)
      PROVE  Harmless
  <2>1. [job[j].calls EXCEPT ![p] = outcome] \in [Plans -> CallStatus]
    BY <1>0, <1>f, Zenon
  <2> QED
    BY <1>f, <1>t, <1>6, <2>1, OneJobHarmless
       DEF settle_call, can_settle_call, Final, TERMINAL_JOB_STATES
<1> QED
  BY <1>1, <1>2, <1>3, <1>4, <1>5, <1>6, Zenon

(* The publication: the new receipt is the place of the new pass, which is   *)
(* beyond every pass that another job names.                                 *)
LEMMA PublishInv ==
  ASSUME JudgeInv, NEW j \in Jobs, NEW previous \in 0..Len(passes[Subject]),
         publish(j, job[j].revision, previous, run[Subject].revision, run[Subject].status)
  PROVE  JudgeInv' /\ \A i \in Jobs : Final(i) => KeepsOutcome(i)
<1> USE SubjectIsRun
<1>1. /\ run \in [Runs -> RunRecord] /\ passes \in [Runs -> Seq(Pass)]
      /\ JobTypeOK /\ PublishedOnce
  BY Zenon DEF JudgeInv, Types
<1> DEFINE pass == [source |-> "judge", scored |-> Cases, previous |-> previous]
           n == Len(passes[Subject]) + 1
<1>2. /\ can_publish(j, job[j].revision)
      /\ passes' = [passes EXCEPT ![Subject] = Append(passes[Subject], pass)]
      /\ NextRun(Subject, run[Subject].status, run[Subject].cancellation \/ FALSE, n)
      /\ NextJob(j, "completed", job[j].cancel, job[j].calls, n)
  BY Zenon DEF publish, append
<1>3. Len(passes[Subject]) \in Nat
  BY <1>1
<1>4. pass \in Pass /\ pass.source = "judge"
  BY <1>3 DEF Pass, PassSource
<1> HIDE DEF pass
<1>5. /\ passes' \in [Runs -> Seq(Pass)]
      /\ DOMAIN passes[Subject] = 1..Len(passes[Subject])
      /\ DOMAIN passes'[Subject] = 1..n
      /\ \A k \in DOMAIN passes[Subject] : passes'[Subject][k] = passes[Subject][k]
      /\ passes'[Subject][n] = pass
  BY <1>1, <1>2, <1>4, AppendFacts, Zenon
<1>n. n \in Nat /\ n # 0 /\ n \notin 1..Len(passes[Subject])
  BY <1>3
<1> HIDE DEF n
<1>6. run' \in [Runs -> RunRecord]
  BY <1>1, <1>2, <1>n, RunFields, NextRunTyped, Zenon
<1>7. /\ JobTypeOK'
      /\ job'[j].status = "completed" /\ job'[j].receipt = n
      /\ \A i \in Jobs : i # j => job'[i] = job[i]
  <2>1. "completed" \in JobStatus
    BY Zenon DEF JobStatus, TERMINAL_JOB_STATES
  <2>2. job[j].cancel \in BOOLEAN /\ job[j].calls \in [Plans -> CallStatus]
    BY <1>1, JobFields, Zenon
  <2>3. JobTypeOK /\ NextJob(j, "completed", job[j].cancel, job[j].calls, n)
    BY <1>1, <1>2, Zenon
  <2> QED
    BY <1>n, <2>1, <2>2, <2>3, NextJobFacts
<1>8. job[j].status \in {"prepared", "settled"} /\ job[j].receipt = 0
  BY <1>1, <1>2, Zenon DEF can_publish, PublishedOnce
<1>9. PublishedOnce'
  <2>1. ASSUME NEW i \in Jobs
        PROVE  /\ job'[i].status = "completed" <=> job'[i].receipt # 0
               /\ job'[i].receipt # 0 =>
                    /\ job'[i].receipt \in DOMAIN passes'[Subject]
                    /\ passes'[Subject][job'[i].receipt].source = "judge"
    <3>1. CASE i = j
      <4>1. n \in DOMAIN passes'[Subject]
        BY <1>3, <1>5, <1>n DEF n
      <4> QED
        BY <1>n, <1>4, <1>5, <1>7, <3>1, <4>1, Zenon
    <3>2. CASE i # j
      <4>1. DOMAIN passes[Subject] \subseteq DOMAIN passes'[Subject]
        BY <1>3, <1>5 DEF n
      <4> QED
        BY <1>1, <1>5, <1>7, <3>2, <4>1 DEF PublishedOnce
    <3> QED
      BY <3>1, <3>2, Zenon
  <2>2. ASSUME NEW i \in Jobs, NEW k \in Jobs,
               job'[i].receipt = job'[k].receipt, job'[i].receipt # 0
        PROVE  i = k
    <3>1. ASSUME NEW h \in Jobs, h # j PROVE job'[h].receipt # n
      <4>1. job[h].receipt = 0 \/ job[h].receipt \in 1..Len(passes[Subject])
        BY <1>1, <1>5, Zenon DEF PublishedOnce
      <4>2. job[h].receipt # n
        BY <1>n, <4>1, Zenon
      <4> QED
        BY <1>7, <3>1, <4>2, Zenon
    <3> QED
      BY <1>1, <1>7, <2>2, <3>1 DEF PublishedOnce
  <2>3. ASSUME NEW k \in DOMAIN passes'[Subject], passes'[Subject][k].source = "judge"
        PROVE  \E i \in Jobs : job'[i].receipt = k
    <3>1. CASE k = n
      BY <1>7, <3>1, Zenon
    <3>2. CASE k # n
      <4>1. k \in DOMAIN passes[Subject] /\ passes[Subject][k].source = "judge"
        BY <1>3, <1>5, <2>3, <3>2 DEF n
      <4>2. PICK i \in Jobs : job[i].receipt = k
        BY <1>1, <4>1, Zenon DEF PublishedOnce
      <4>3. k # 0
        BY <1>3, <1>5, <4>1
      <4> QED
        BY <1>7, <1>8, <4>2, <4>3, Zenon
    <3> QED
      BY <3>1, <3>2, Zenon
  <2> QED
    BY <2>1, <2>2, <2>3, Zenon DEF PublishedOnce
<1> QED
  BY <1>5, <1>6, <1>7, <1>8, <1>9, Zenon
     DEF JudgeInv, Types, Final, KeepsOutcome, TERMINAL_JOB_STATES

(* Every step keeps the invariant and the outcome of the final jobs. *)
LEMMA JudgeStep ==
  ASSUME JudgeInv, JudgeNext
  PROVE  JudgeInv' /\ \A j \in Jobs : Final(j) => KeepsOutcome(j)
<1>1. ASSUME Harmless PROVE JudgeInv' /\ \A j \in Jobs : Final(j) => KeepsOutcome(j)
  BY <1>1, QuietInv, Zenon DEF JudgeInv, Harmless
<1>2. CASE recover_jobs
  BY <1>1, <1>2, RecoverHarmless, Zenon DEF JudgeInv
<1>3. CASE OtherStep
  BY <1>3, OtherInv, Zenon DEF OtherStep, KeepsOutcome
<1>4. ASSUME NEW j \in Jobs, JobStep(j)
      PROVE  JudgeInv' /\ \A i \in Jobs : Final(i) => KeepsOutcome(i)
  BY <1>1, <1>4, JobStepHarmless, PublishInv, Zenon DEF JobStep
<1> QED
  BY <1>2, <1>3, <1>4, Zenon DEF JudgeNext

(* Before a job is submitted the invariant holds. *)
LEMMA JudgeInitInv == JudgeInit => JudgeInv
BY DEF JudgeInit, TypeOK, JudgeInv, Types, JobTypeOK, PublishedOnce, NoJob, JobRecord,
   JobStatus, TERMINAL_JOB_STATES, CallStatus

(* The invariant holds throughout. *)
LEMMA JudgeInvariant == JudgeStoreSpec => []JudgeInv
<1>1. JudgeInv /\ [JudgeNext]_judge => JudgeInv'
  <2>1. JudgeInv /\ UNCHANGED judge => JudgeInv'
    BY DEF judge, store, JudgeInv, Types, JobTypeOK, PublishedOnce
  <2> QED
    BY <2>1, JudgeStep, Zenon
<1> QED
  BY <1>1, JudgeInitInv, PTL DEF JudgeStoreSpec

(* The job records keep their types under every sequence of transactions. *)
THEOREM JobsTyped == JudgeStoreSpec => []JobTypeOK
<1>1. JudgeInv => JobTypeOK
  BY Zenon DEF JudgeInv, Types
<1> QED
  BY <1>1, JudgeInvariant, PTL

(* A judge job publishes at most one pass and is completed exactly then, and *)
(* no judge pass is without its completed job: publish is one transaction,   *)
(* and no claim, cancellation, late settlement or recovery undoes it.        *)
THEOREM JobsPublishOnce == JudgeStoreSpec => []PublishedOnce
<1>1. JudgeInv => PublishedOnce
  BY Zenon DEF JudgeInv
<1> QED
  BY <1>1, JudgeInvariant, PTL

(* A completed, cancelled or indeterminate job keeps its status, its ledger  *)
(* of calls and its receipt, whatever transaction comes later.               *)
THEOREM OutcomesStay == JudgeStoreSpec => JobIsFinal
<1>1. JudgeInv /\ [JudgeNext]_judge =>
        [\A j \in Jobs : job[j].status \in TERMINAL_JOB_STATES \ {"failed"} =>
            KeepsOutcome(j)]_judge
  BY JudgeStep, Zenon DEF Final
<1> QED
  BY <1>1, JudgeInvariant, PTL DEF JudgeStoreSpec, JobIsFinal

-----------------------------------------------------------------------------
(* The judge Worker above the store. *)
WorkerPc == {"down", "recover", "idle", "next", "claim", "roles", "load", "begin", "send", "wait",
             "reload", "settle", "callFailed", "finalizeCancellation", "finalize", "readRun",
             "publish", "conflict"}
WorkerFrame == [pc : WorkerPc, j : Jobs, p : Plans, queue : {"queued", "settled"}, outcome : Outcome,
                current : JobRecord, latest : JobRecord, prev : Nat, run : RunRecord]

(* The ledger of a job is filled in the order of its plan, and its status    *)
(* says how far: k is the call that is open or comes next.                   *)
Shape(status, calls) ==
  /\ status \in {"absent", "queued", "prepared"} => \A p \in Plans : calls[p] = "none"
  /\ status = "dispatching" =>
       \E k \in Plans : /\ calls[k] \in {"none", "dispatching"}
                        /\ \A q \in Plans : /\ q < k => calls[q] = "succeeded"
                                            /\ q > k => calls[q] = "none"
  /\ status \in {"settled", "completed"} => \A p \in Plans : calls[p] = "succeeded"
  /\ status \in {"failed", "cancelled", "indeterminate"} =>
       \A p \in Plans : calls[p] # "dispatching"

LedgerInv(j) ==
  /\ job[j].revision = 0 => job[j] = NoJob
  /\ Shape(job[j].status, job[j].calls)

(* What was sent is in the ledger, and what succeeded was sent. *)
SentInv ==
  /\ sent \in [Jobs -> [Plans -> {0, 1}]]
  /\ \A j \in Jobs, p \in Plans :
       /\ sent[j][p] = 1 => job[j].calls[p] # "none"
       /\ job[j].calls[p] = "succeeded" => sent[j][p] = 1

(* A copy of a job is older than the job, or still true. *)
Copy(rec, now) ==
  /\ rec.revision <= now.revision
  /\ rec.revision = now.revision => rec = now

Publishing == {"finalize", "readRun", "publish", "conflict"}

(* What a Worker knows by its step, whether or not it holds the lock, of the *)
(* job as it is now, the times its call was sent and the number of passes.   *)
Frame(f, now, times, npasses) ==
  /\ f \in WorkerFrame
  /\ Copy(f.current, now) /\ Copy(f.latest, now)
  /\ f.pc \in {"next", "claim"} => f.current = NoJob /\ f.latest = NoJob
  /\ f.pc \in {"next", "claim", "roles"} => f.p = 1
  /\ f.pc = "roles" => f.current.status = "prepared"
  /\ f.pc \in {"load", "begin"} \cup Publishing =>
       f.current.status \in {"prepared", "dispatching", "settled"}
  /\ \A q \in Plans : q < f.p \/ f.pc \in Publishing => now.calls[q] \in Outcome
  /\ f.pc = "send" => times = 0 /\ now.calls[f.p] # "none"
  /\ f.pc \in {"wait", "reload", "settle"} => times = 1
  /\ f.pc = "callFailed" => f.outcome \in {"failed", "indeterminate"}
  /\ f.pc \in {"readRun", "publish"} => f.prev <= npasses

FrameInv(f) == Frame(f, job[f.j], sent[f.j][f.p], Len(passes[Subject]))
WorkerInv(w) == FrameInv(jf[w])

(* No two Workers are about to send the same call. *)
SenderInv ==
  \A v, w \in Workers :
    jf[v].pc = "send" /\ jf[w].pc = "send" /\ jf[v].j = jf[w].j /\ jf[v].p = jf[w].p => v = w

(* A client that rescores: the previous pass it read is the current one as   *)
(* long as the Run is as it loaded it.                                       *)
ClientInv(a) ==
  LET f == fr[a] IN
  /\ f.pc \in {"idle", "rescore", "rescoreRows", "append", "appendPrevious", "appendCommit"}
  /\ f.exc = "die" /\ f.to = "none" /\ f.flag = FALSE /\ f.synth = {}
  /\ f.pc # "idle" => f.r = Subject
  /\ f.pc \in {"append", "appendPrevious", "appendCommit"} => f.src = "rescore" /\ f.done \subseteq Cases
  /\ f.pc \in {"appendPrevious", "appendCommit"} =>
       f.snap.revision \in Nat /\ f.snap.revision <= run[Subject].revision
  /\ f.pc = "appendCommit" /\ f.snap.revision = run[Subject].revision => f.prev = run[Subject].current

StoreInvs ==
  /\ JudgeInv
  /\ run[Subject].current <= Len(passes[Subject])

Frames ==
  /\ DOMAIN jf = Workers /\ DOMAIN fr = Actors
  /\ \A a \in Clients : DOMAIN fr[a] = DOMAIN Blank("idle")

JudgeWorkerInv ==
  /\ StoreInvs /\ Frames
  /\ \A j \in Jobs : LedgerInv(j)
  /\ SentInv
  /\ \A w \in Workers : WorkerInv(w)
  /\ SenderInv
  /\ \A a \in Clients : ClientInv(a)

-----------------------------------------------------------------------------
LEMMA MinIn == ASSUME NEW S \in SUBSET Nat, S # {} PROVE Min(S) \in S
<1>1. PICK x \in S : \A y \in S : ~(<<y, x>> \in OpToRel(<, Nat))
  BY WFMin, NatLessThanWellFounded, Zenon
<1>2. ASSUME NEW y \in S PROVE x <= y
  <2>1. SUFFICES ASSUME y < x PROVE FALSE
    OBVIOUS
  <2>2. <<y, x>> \in Nat \X Nat /\ <<y, x>>[1] < <<y, x>>[2]
    BY <2>1, Zenon
  <2>. QED BY <1>1, <2>2, Zenon DEF OpToRel
<1>. QED BY <1>2, Zenon DEF Min

LEMMA JobsArePositive ==
  /\ 1 \in Jobs /\ 1 \in Plans /\ NPlans \in Plans /\ Jobs \subseteq Nat /\ Plans \subseteq Nat
  /\ \A q \in Plans : ~(q < 1)
BY NJobsAssumption, NPlansAssumption DEF Jobs, Plans

(* What every transaction does to the jobs: a changed job has a higher       *)
(* revision, and a call that is in the ledger, or settled, stays so.         *)
Kept ==
  \A i \in Jobs :
    /\ job'[i] = job[i] \/ job'[i].revision > job[i].revision
    /\ \A p \in Plans : /\ job[i].calls[p] \in Outcome => job'[i].calls[p] \in Outcome
                        /\ job[i].calls[p] # "none" => job'[i].calls[p] # "none"

(* What is left to show of a transaction. *)
Sound ==
  /\ Kept
  /\ \A i \in Jobs : LedgerInv(i)'
  /\ \A i \in Jobs, p \in Plans : job'[i].calls[p] = "succeeded" => sent[i][p] = 1

Ledgers == JobTypeOK /\ SentInv /\ \A i \in Jobs : LedgerInv(i)

LEMMA NoWrite == ASSUME Ledgers, UNCHANGED job PROVE Sound
BY Zenon DEF Ledgers, Sound, Kept, LedgerInv, SentInv, JobTypeOK, JobRecord, NoJob

LEMMA Write ==
  ASSUME Ledgers, NEW j \in Jobs, NEW status \in JobStatus, NEW cancel \in BOOLEAN,
         NEW calls \in [Plans -> CallStatus], NEW receipt \in Nat,
         NextJob(j, status, cancel, calls, receipt),
         Shape(status, calls),
         \A p \in Plans : /\ job[j].calls[p] \in Outcome => calls[p] \in Outcome
                          /\ job[j].calls[p] # "none" => calls[p] # "none"
                          /\ calls[p] = "succeeded" => sent[j][p] = 1
  PROVE  Sound
<1>1. /\ job'[j].status = status /\ job'[j].calls = calls
      /\ job'[j].revision = job[j].revision + 1 /\ job[j].revision \in Nat
      /\ \A i \in Jobs \ {j} : job'[i] = job[i]
  BY Zenon DEF Ledgers, NextJob, JobTypeOK, JobRecord
<1>2. Kept
  BY <1>1 DEF Kept
<1>3. ASSUME NEW i \in Jobs PROVE LedgerInv(i)'
  <2>1. CASE i = j
    BY <1>1, <2>1 DEF LedgerInv, Shape
  <2>2. CASE i # j
    BY <1>1, <2>2, Zenon DEF LedgerInv, Ledgers, NoJob
  <2>. QED BY <2>1, <2>2, Zenon
<1>4. \A i \in Jobs, p \in Plans : job'[i].calls[p] = "succeeded" => sent[i][p] = 1
  BY <1>1, Zenon DEF Ledgers, SentInv
<1>. QED BY <1>2, <1>3, <1>4, Zenon DEF Sound

(* A job's fields. *)
LEMMA Fields ==
  ASSUME Ledgers, NEW j \in Jobs
  PROVE  /\ job[j].status \in JobStatus /\ job[j].cancel \in BOOLEAN
         /\ job[j].calls \in [Plans -> CallStatus] /\ job[j].receipt \in Nat
         /\ job[j].revision \in Nat
         /\ LedgerInv(j)
         /\ \A p \in Plans : job[j].calls[p] = "succeeded" => sent[j][p] = 1
BY Zenon DEF Ledgers, JobTypeOK, JobRecord, SentInv

(* A write that changes no call. *)
LEMMA Rewrite ==
  ASSUME Ledgers, NEW j \in Jobs, NEW status \in JobStatus, NEW cancel \in BOOLEAN,
         NEW receipt \in Nat, NextJob(j, status, cancel, job[j].calls, receipt),
         Shape(status, job[j].calls)
  PROVE  Sound
BY Fields, Write

LEMMA SubmitSound == ASSUME Ledgers, NEW j \in Jobs, submit(j) PROVE Sound
<1>. DEFINE calls == [p \in Plans |-> "none"]
<1>1. /\ calls \in [Plans -> CallStatus] /\ \A p \in Plans : calls[p] = "none" /\ job[j].calls[p] = "none"
      /\ Shape("queued", calls) /\ "queued" \in JobStatus /\ 0 \in Nat /\ FALSE \in BOOLEAN
  BY Fields, Zenon DEF submit, LedgerInv, Shape, CallStatus, JobStatus
<1>2. NextJob(j, "queued", FALSE, calls, 0)
  BY Zenon DEF submit
<1>. HIDE DEF calls
<1>3. \A p \in Plans : /\ job[j].calls[p] \in Outcome => calls[p] \in Outcome
                       /\ job[j].calls[p] # "none" => calls[p] # "none"
                       /\ calls[p] = "succeeded" => sent[j][p] = 1
  BY <1>1, Zenon DEF Outcome
<1>. QED BY <1>1, <1>2, <1>3, Write, Zenon

LEMMA ClaimSound == ASSUME Ledgers, NEW j \in Jobs, claim_job(j) PROVE Sound
<1>1. CASE job[j].status = "queued"
  BY <1>1, Fields, Rewrite DEF claim_job, LedgerInv, Shape, JobStatus
<1>2. CASE job[j].status = "settled"
  BY <1>2, Fields, Rewrite DEF claim_job, LedgerInv, Shape, JobStatus
<1>. QED BY <1>1, <1>2, Zenon DEF claim_job

LEMMA CancelSound == ASSUME Ledgers, NEW j \in Jobs, cancel_job(j) PROVE Sound
<1>1. CASE job[j].status = "dispatching"
  <2>1. NextJob(j, "dispatching", TRUE, job[j].calls, job[j].receipt) /\ TRUE \in BOOLEAN
    BY <1>1, Zenon DEF cancel_job
  <2>2. Shape("dispatching", job[j].calls) /\ "dispatching" \in JobStatus
    BY <1>1, Fields, Zenon DEF LedgerInv
  <2>. QED BY <2>1, <2>2, Fields, Rewrite, Zenon
<1>2. CASE job[j].status # "dispatching"
  <2>1. Shape("cancelled", job[j].calls)
    BY <1>2, Fields, Zenon DEF cancel_job, can_cancel, LedgerInv, Shape
  <2>2. NextJob(j, "cancelled", TRUE, job[j].calls, job[j].receipt)
    BY <1>2, Zenon DEF cancel_job
  <2>. QED BY <2>1, <2>2, Fields, Rewrite, Zenon DEF JobStatus, TERMINAL_JOB_STATES
<1>. QED BY <1>1, <1>2, Zenon

LEMMA TransitionSound ==
  ASSUME Ledgers, NEW j \in Jobs, NEW revision, NEW from, NEW to \in JobStatus,
         job_transition(j, revision, from, to), Shape(to, job[j].calls)
  PROVE  Sound
BY Fields, Rewrite, Zenon DEF job_transition

LEMMA BeginSound ==
  ASSUME Ledgers, NEW j \in Jobs, NEW p \in Plans, NEW revision, begin_call(j, p, revision),
         \A q \in Plans : q < p => job[j].calls[q] \in Outcome
  PROVE  Sound
<1>. DEFINE calls == [job[j].calls EXCEPT ![p] = "dispatching"]
<1>1. /\ calls \in [Plans -> CallStatus] /\ calls[p] = "dispatching" /\ job[j].calls[p] = "none"
      /\ \A q \in Plans \ {p} : calls[q] = job[j].calls[q]
  BY Fields, Zenon DEF CallStatus, begin_call, can_begin_call
<1>2. \A q \in Plans : /\ q < p => job[j].calls[q] = "succeeded"
                       /\ q > p => job[j].calls[q] = "none"
  <2>1. CASE job[j].status = "prepared"
    BY <2>1, Fields, Zenon DEF LedgerInv, Shape, Outcome
  <2>2. CASE job[j].status = "dispatching"
    <3>1. PICK k \in Plans : /\ job[j].calls[k] \in {"none", "dispatching"}
                             /\ \A q \in Plans : /\ q < k => job[j].calls[q] = "succeeded"
                                                 /\ q > k => job[j].calls[q] = "none"
      BY <2>2, Fields, Zenon DEF LedgerInv, Shape
    <3>2. k = p
      BY <1>1, <3>1, JobsArePositive DEF Outcome
    <3>. QED BY <3>1, <3>2, Zenon
  <2>. QED BY <2>1, <2>2, Zenon DEF begin_call, can_begin_call
<1>3. Shape("dispatching", calls)
  BY <1>1, <1>2, JobsArePositive DEF Shape
<1>4. NextJob(j, "dispatching", FALSE, calls, job[j].receipt)
  BY Zenon DEF begin_call
<1>. HIDE DEF calls
<1>5. \A q \in Plans : /\ job[j].calls[q] \in Outcome => calls[q] \in Outcome
                       /\ job[j].calls[q] # "none" => calls[q] # "none"
                       /\ calls[q] = "succeeded" => sent[j][q] = 1
  BY <1>1, Fields, Zenon DEF Outcome
<1>. QED BY <1>1, <1>3, <1>4, <1>5, Fields, Write, Zenon DEF JobStatus

(* An answer settles the call; the last one settles the job.  A failure      *)
(* closes the job.                                                           *)
LEMMA SettleSound ==
  ASSUME Ledgers, NEW j \in Jobs, NEW p \in Plans, NEW revision, NEW outcome \in Outcome, NEW to,
         settle_call(j, p, revision, outcome, to),
         \/ /\ outcome = "succeeded" /\ sent[j][p] = 1
            /\ to = IF p = NPlans THEN "settled" ELSE "dispatching"
         \/ outcome # "succeeded" /\ to = outcome
  PROVE  Sound
<1>. DEFINE calls == [job[j].calls EXCEPT ![p] = outcome]
<1>1. /\ calls \in [Plans -> CallStatus] /\ calls[p] = outcome /\ job[j].calls[p] = "dispatching"
      /\ \A q \in Plans \ {p} : calls[q] = job[j].calls[q]
  BY Fields, Zenon DEF CallStatus, settle_call, can_settle_call
<1>2. \A q \in Plans : /\ q < p => job[j].calls[q] = "succeeded"
                       /\ q > p => job[j].calls[q] = "none"
  <2>1. PICK k \in Plans : /\ job[j].calls[k] \in {"none", "dispatching"}
                           /\ \A q \in Plans : /\ q < k => job[j].calls[q] = "succeeded"
                                               /\ q > k => job[j].calls[q] = "none"
    BY Fields, Zenon DEF LedgerInv, Shape, settle_call, can_settle_call
  <2>2. k = p
    BY <1>1, <2>1, JobsArePositive
  <2>. QED BY <2>1, <2>2, Zenon
<1>3. to \in JobStatus
  BY Zenon DEF Outcome, JobStatus, TERMINAL_JOB_STATES
<1>4. Shape(to, calls)
  <2>1. CASE outcome = "succeeded" /\ p = NPlans
    BY <1>1, <1>2, <2>1 DEF Shape, Plans
  <2>2. CASE outcome = "succeeded" /\ p # NPlans
    <3>1. p + 1 \in Plans /\ p < p + 1
      BY <2>2, NPlansAssumption DEF Plans
    <3>2. calls[p + 1] = "none" /\ \A q \in Plans : /\ q < p + 1 => calls[q] = "succeeded"
                                                    /\ q > p + 1 => calls[q] = "none"
      BY <1>1, <1>2, <2>2, <3>1, JobsArePositive
    <3>. QED BY <2>2, <3>1, <3>2, Zenon DEF Shape
  <2>3. CASE outcome # "succeeded"
    BY <1>1, <1>2, <2>3, JobsArePositive DEF Shape, Outcome
  <2>. QED BY <2>1, <2>2, <2>3, Zenon
<1>5. NextJob(j, to, job[j].cancel, calls, job[j].receipt)
  BY Zenon DEF settle_call
<1>. HIDE DEF calls
<1>6. \A q \in Plans : /\ job[j].calls[q] \in Outcome => calls[q] \in Outcome
                       /\ job[j].calls[q] # "none" => calls[q] # "none"
                       /\ calls[q] = "succeeded" => sent[j][q] = 1
  BY <1>1, Fields, Zenon DEF Outcome
<1>. QED BY <1>1, <1>3, <1>4, <1>5, <1>6, Fields, Write, Zenon

LEMMA PublishSound ==
  ASSUME Ledgers, StoreInvs, NEW j \in Jobs, NEW revision, NEW previous, NEW runRevision, NEW runStatus,
         publish(j, revision, previous, runRevision, runStatus),
         \A q \in Plans : job[j].calls[q] \in Outcome
  PROVE  Sound
<1>1. Shape("completed", job[j].calls)
  BY Fields, JobsArePositive, Zenon DEF publish, can_publish, LedgerInv, Shape, Outcome
<1>2. Len(passes[Subject]) + 1 \in Nat
  BY SubjectIsRun DEF StoreInvs, JudgeInv, Types
<1>3. NextJob(j, "completed", job[j].cancel, job[j].calls, Len(passes[Subject]) + 1)
  BY Zenon DEF publish
<1>. QED BY <1>1, <1>2, <1>3, Fields, Rewrite, Zenon DEF JobStatus, TERMINAL_JOB_STATES

LEMMA RecoverSound == ASSUME Ledgers, recover_jobs PROVE Sound
<1>1. ASSUME NEW i \in Jobs
      PROVE  /\ job'[i] = job[i] \/ job'[i].revision > job[i].revision
             /\ \A p \in Plans : /\ job[i].calls[p] \in Outcome => job'[i].calls[p] \in Outcome
                                 /\ job[i].calls[p] # "none" => job'[i].calls[p] # "none"
             /\ LedgerInv(i)'
             /\ \A p \in Plans : job'[i].calls[p] = "succeeded" => sent[i][p] = 1
  <2>0. /\ job[i].revision \in Nat /\ LedgerInv(i)
        /\ \A p \in Plans : job[i].calls[p] = "succeeded" => sent[i][p] = 1
    BY Fields, Zenon
  <2>1. CASE job[i].status = "prepared" /\ ~InFlight(i)
    <3>1. /\ job'[i].status = "queued" /\ job'[i].calls = job[i].calls
          /\ job'[i].revision = job[i].revision + 1
      BY <2>1, Zenon DEF recover_jobs
    <3>. QED BY <2>0, <2>1, <3>1 DEF LedgerInv, Shape
  <2>2. CASE job[i].status = "dispatching"
    <3>1. /\ job'[i].status = "indeterminate" /\ job'[i].revision = job[i].revision + 1
          /\ \A p \in Plans : job'[i].calls[p] = IF job[i].calls[p] = "dispatching"
                                                   THEN "indeterminate" ELSE job[i].calls[p]
      BY <2>2, Zenon DEF recover_jobs
    <3>. QED BY <2>0, <3>1 DEF LedgerInv, Shape, Outcome
  <2>3. CASE ~(job[i].status = "prepared" /\ ~InFlight(i)) /\ job[i].status # "dispatching"
    <3>1. job'[i] = job[i]
      BY <2>3, Zenon DEF recover_jobs
    <3>. QED BY <2>0, <3>1, Zenon DEF LedgerInv, NoJob
  <2>. QED BY <2>1, <2>2, <2>3, Zenon
<1>. QED BY <1>1, Zenon DEF Sound, Kept

-----------------------------------------------------------------------------
(* What a step leaves of the rest. *)

Grows ==
  /\ JudgeInv'
  /\ run'[Subject] = run[Subject] \/ run'[Subject].revision > run[Subject].revision
  /\ Len(passes[Subject]) <= Len(passes'[Subject])
  /\ run'[Subject].current <= Len(passes'[Subject])

LEMMA LenType == ASSUME JudgeInv PROVE /\ Len(passes[Subject]) \in Nat /\ run[Subject] \in RunRecord
                                       /\ run[Subject].revision \in Nat /\ run[Subject].current \in Nat
BY SubjectIsRun DEF JudgeInv, Types, RunRecord

LEMMA Bystander ==
  ASSUME JudgeWorkerInv, NEW f, FrameInv(f), Sound, JobTypeOK', Grows,
         f.pc \in {"send", "wait", "reload", "settle"} => sent'[f.j][f.p] = sent[f.j][f.p]
  PROVE  FrameInv(f)'
<1>0. f \in WorkerFrame /\ f.j \in Jobs /\ f.p \in Plans /\ f.current \in JobRecord /\ f.latest \in JobRecord
      /\ f.prev \in Nat
  BY Zenon DEF FrameInv, Frame, WorkerFrame
<1>1. /\ job[f.j].revision \in Nat /\ job'[f.j].revision \in Nat
      /\ f.current.revision \in Nat /\ f.latest.revision \in Nat
  BY <1>0, Zenon DEF JudgeWorkerInv, StoreInvs, JudgeInv, Types, JobTypeOK, JobRecord
<1>2. job'[f.j] = job[f.j] \/ job'[f.j].revision > job[f.j].revision
  BY <1>0, Zenon DEF Sound, Kept
<1>3. Copy(f.current, job'[f.j]) /\ Copy(f.latest, job'[f.j])
  BY <1>1, <1>2 DEF FrameInv, Frame, Copy
<1>4. \A q \in Plans : /\ job[f.j].calls[q] \in Outcome => job'[f.j].calls[q] \in Outcome
                       /\ job[f.j].calls[q] # "none" => job'[f.j].calls[q] # "none"
  BY <1>0, Zenon DEF Sound, Kept
<1>5. f.pc \in {"readRun", "publish"} => f.prev <= Len(passes'[Subject])
  BY <1>0, LenType DEF FrameInv, Frame, Grows, JudgeInv, Types, JudgeWorkerInv, StoreInvs
<1>6. PICK now, t, n : now = job'[f.j] /\ t = sent'[f.j][f.p] /\ n = Len(passes'[Subject])
  BY Zenon
<1>7. Frame(f, now, t, n)
  BY <1>0, <1>3, <1>4, <1>5, <1>6, Zenon DEF FrameInv, Frame
<1>. QED BY <1>6, <1>7, Zenon DEF FrameInv

LEMMA ClientKept ==
  ASSUME JudgeWorkerInv, NEW a \in Clients, fr'[a] = fr[a], Grows
  PROVE  ClientInv(a)'
<1>1. run[Subject].revision \in Nat /\ run'[Subject].revision \in Nat
  BY SubjectIsRun, Zenon DEF JudgeWorkerInv, StoreInvs, Grows, JudgeInv, Types, RunRecord
<1>2. PICK f : f = fr[a]
  OBVIOUS
<1>3. f = fr[a] /\ fr'[a] = f /\ ClientInv(a)
  BY <1>2, Zenon DEF JudgeWorkerInv
<1>. QED BY <1>1, <1>3 DEF ClientInv, Grows

(* The goal: every step keeps the invariant and is one of JudgeStore. *)
Good == JudgeWorkerInv' /\ (JudgeNext \/ UNCHANGED judge)

LEMMA Has ==
  ASSUME JudgeWorkerInv
  PROVE  Ledgers /\ JudgeInv /\ JobTypeOK
BY Zenon DEF JudgeWorkerInv, StoreInvs, JudgeInv, Types, Ledgers

LEMMA QuietGrows == ASSUME JudgeWorkerInv, UNCHANGED <<store, job>> PROVE Grows /\ Sound
<1>1. UNCHANGED judge
  BY Zenon DEF judge
<1>2. JudgeInv'
  BY <1>1 DEF JudgeWorkerInv, StoreInvs, judge, store, JudgeInv, Types, JobTypeOK, PublishedOnce
<1>3. Len(passes[Subject]) \in Nat
  BY LenType, Zenon DEF JudgeWorkerInv, StoreInvs
<1>. QED BY <1>2, <1>3, Has, NoWrite DEF Grows, store, JudgeWorkerInv, StoreInvs

LEMMA WriteGrows == ASSUME JudgeWorkerInv, JudgeNext, UNCHANGED store PROVE Grows
<1>1. JudgeInv'
  BY Has, JudgeStep, Zenon
<1>2. Len(passes[Subject]) \in Nat
  BY LenType, Zenon DEF JudgeWorkerInv, StoreInvs
<1>. QED BY <1>1, <1>2 DEF Grows, store, JudgeWorkerInv, StoreInvs

(* A step of one Worker that sends nothing. *)
LEMMA Move ==
  ASSUME JudgeWorkerInv, NEW w \in Workers, NEW g, jf' = [jf EXCEPT ![w] = g], FrameInv(g)',
         UNCHANGED <<fr, sent>>, Sound, Grows,
         g.pc = "send" => \A v \in Workers \ {w} :
                            ~(jf[v].pc = "send" /\ jf[v].j = g.j /\ jf[v].p = g.p)
  PROVE  JudgeWorkerInv'
<1>1. DOMAIN jf = Workers /\ DOMAIN jf' = Workers /\ jf'[w] = g /\ \A v \in Workers \ {w} : jf'[v] = jf[v]
  BY Zenon DEF JudgeWorkerInv, Frames
<1>2. JobTypeOK'
  BY Zenon DEF Grows, JudgeInv, Types
<1>3. ASSUME NEW v \in Workers PROVE WorkerInv(v)'
  <2>1. CASE v = w
    BY <1>1, <2>1, Zenon DEF WorkerInv, FrameInv
  <2>2. CASE v # w
    <3>1. FrameInv(jf[v]) /\ jf'[v] = jf[v]
      BY <1>1, <2>2, Zenon DEF JudgeWorkerInv, WorkerInv
    <3>. DEFINE f == jf[v]
    <3>2. \A x : FrameInv(x) => FrameInv(x)'
      BY <1>2, Bystander, Zenon
    <3>. QED BY <3>1, <3>2, Zenon DEF WorkerInv, FrameInv
  <2>. QED BY <2>1, <2>2, Zenon
<1>4. \A a \in Clients : ClientInv(a)'
  BY ClientKept, Zenon
<1>5. SenderInv'
  BY <1>1, Zenon DEF JudgeWorkerInv, SenderInv
<1>6. SentInv' /\ \A j \in Jobs : LedgerInv(j)'
  BY Zenon DEF JudgeWorkerInv, SentInv, Sound, Kept
<1>7. StoreInvs' /\ Frames'
  BY <1>1, Zenon DEF StoreInvs, Frames, Grows, JudgeWorkerInv
<1>. QED BY <1>3, <1>4, <1>5, <1>6, <1>7, Zenon DEF JudgeWorkerInv

LEMMA QuietMove ==
  ASSUME JudgeWorkerInv, NEW w \in Workers, NEW g, jf' = [jf EXCEPT ![w] = g], FrameInv(g),
         UNCHANGED <<judge, fr, sent>>, g.pc # "send"
  PROVE  Good
<1>1. UNCHANGED <<store, job>> /\ Grows /\ Sound
  BY QuietGrows, Zenon DEF judge
<1>2. FrameInv(g)'
  BY <1>1, Zenon DEF FrameInv, store
<1>. QED BY <1>1, <1>2, Move, Zenon DEF Good

LEMMA WriteMove ==
  ASSUME JudgeWorkerInv, NEW w \in Workers, NEW g, jf' = [jf EXCEPT ![w] = g], FrameInv(g)',
         UNCHANGED <<store, fr, sent>>, Sound, JudgeNext,
         g.pc = "send" => \A v \in Workers \ {w} :
                            ~(jf[v].pc = "send" /\ jf[v].j = g.j /\ jf[v].p = g.p)
  PROVE  Good
<1>1. Grows
  BY WriteGrows, Zenon
<1>. QED BY <1>1, Move, Zenon DEF Good

(* A Worker without a job. *)
LEMMA IdleFrame ==
  ASSUME JobTypeOK, \A i \in Jobs : LedgerInv(i), NEW pc \in {"down", "recover", "idle", "next"}
  PROVE  FrameInv(Idle(pc))
<1>1. Idle(pc) \in WorkerFrame
  <2>1. NoJob \in JobRecord /\ NoRun \in RunRecord
    BY Zenon DEF NoJob, JobRecord, NoRun, RunRecord, JobStatus, CallStatus, RunStatus
  <2>. QED BY <2>1, JobsArePositive, Zenon DEF Idle, WorkerFrame, WorkerPc, Outcome
<1>2. /\ Idle(pc).pc = pc /\ Idle(pc).j = 1 /\ Idle(pc).p = 1
      /\ Idle(pc).current = NoJob /\ Idle(pc).latest = NoJob
  BY Zenon DEF Idle
<1>3. Copy(NoJob, job[1])
  BY JobsArePositive DEF Copy, NoJob, LedgerInv, JobTypeOK, JobRecord
<1>. QED BY <1>1, <1>2, <1>3, JobsArePositive, Zenon DEF FrameInv, Frame, Publishing

LEMMA IdleFrames ==
  ASSUME Ledgers
  PROVE  \A pc \in {"down", "recover", "idle", "next"} : FrameInv(Idle(pc))
BY IdleFrame, Zenon DEF Ledgers

LEMMA IdleMove ==
  ASSUME JudgeWorkerInv, NEW w \in Workers, NEW pc \in {"down", "recover", "idle", "next"},
         jf' = [jf EXCEPT ![w] = Idle(pc)], UNCHANGED <<fr, sent>>, Sound, Grows,
         JudgeNext \/ UNCHANGED judge
  PROVE  Good
<1>. DEFINE g == Idle(pc)
<1>1. FrameInv(g) /\ g.pc = pc /\ g.pc # "send" /\ g.pc \notin {"send", "wait", "reload", "settle"}
  BY Has, IdleFrames, Zenon DEF Idle
<1>2. JobTypeOK'
  BY Zenon DEF Grows, JudgeInv, Types
<1>. HIDE DEF g
<1>3. FrameInv(g)'
  BY <1>1, <1>2, Bystander, Zenon
<1>. QED BY <1>1, <1>3, Move, Zenon DEF Good, g

(* A Worker ends its work on a job, with or without a last write to it. *)
LEMMA LeaveMove ==
  ASSUME JudgeWorkerInv, NEW w \in Workers, LeaveJob(w), UNCHANGED <<fr, sent>>,
         UNCHANGED judge \/ (UNCHANGED store /\ Sound /\ JudgeNext)
  PROVE  Good
<1>1. Sound /\ Grows /\ (JudgeNext \/ UNCHANGED judge)
  BY QuietGrows, WriteGrows, Zenon DEF judge
<1>2. PICK pc \in {"down", "idle"} : jf' = [jf EXCEPT ![w] = Idle(pc)]
  BY Zenon DEF LeaveJob
<1>. QED BY <1>1, <1>2, IdleMove, Zenon

-----------------------------------------------------------------------------
(* The steps of a Worker. *)

LEMMA StartStep ==
  ASSUME JudgeWorkerInv, NEW w \in Workers,
         Start(w) \/ Acquire(w) \/ Crash(w) \/ RecoverInterrupted(w)
  PROVE  Good
<1>1. CASE Start(w)
  BY <1>1, QuietGrows, IdleMove, Zenon DEF Start, Rest, judge
<1>2. CASE Acquire(w)
  BY <1>2, QuietGrows, IdleMove, Zenon DEF Acquire, Rest, judge
<1>3. CASE Crash(w)
  BY <1>3, QuietGrows, IdleMove, Zenon DEF Crash, judge
<1>4. CASE RecoverInterrupted(w)
  <2>1. recover_jobs /\ UNCHANGED store /\ LeaveJob(w) /\ UNCHANGED <<fr, sent>>
    BY <1>4, Zenon DEF RecoverInterrupted, Rest, recover_jobs
  <2>. QED BY <2>1, Has, RecoverSound, LeaveMove, Zenon DEF JudgeNext
<1>. QED BY <1>1, <1>2, <1>3, <1>4, Zenon

(* What is known of the Worker that takes a step. *)
LEMMA Own ==
  ASSUME JudgeWorkerInv, NEW w \in Workers
  PROVE  /\ FrameInv(jf[w]) /\ jf[w] \in WorkerFrame /\ jf[w].j \in Jobs /\ jf[w].p \in Plans
         /\ jf[w].current \in JobRecord /\ jf[w].latest \in JobRecord
         /\ job[jf[w].j] \in JobRecord /\ job[jf[w].j].revision \in Nat
         /\ JobOf(w) = job[jf[w].j]
BY Zenon
   DEF JudgeWorkerInv, WorkerInv, FrameInv, Frame, WorkerFrame, StoreInvs, JudgeInv, Types, JobTypeOK, JobRecord, JobOf

LEMMA ClaimNextStep == ASSUME JudgeWorkerInv, NEW w \in Workers, ClaimNext(w) PROVE Good
<1>. DEFINE f == jf[w]
            S == {j \in Jobs : job[j].status = f.queue}
<1>0. FrameInv(f) /\ f \in WorkerFrame /\ f.pc = "next" /\ UNCHANGED <<judge, fr, sent>>
  BY Own, Zenon DEF ClaimNext, At, Rest
<1>1. CASE S # {}
  <2>. DEFINE g == [f EXCEPT !.pc = "claim", !.j = Min(S)]
  <2>1. Min(S) \in Jobs
    BY <1>1, JobsArePositive, MinIn, Zenon
  <2>2. jf' = [jf EXCEPT ![w] = g]
    BY <1>1, Zenon DEF ClaimNext, Goto
  <2>3. /\ g \in WorkerFrame /\ g.pc = "claim" /\ g.j = Min(S) /\ g.p = f.p /\ g.current = f.current
        /\ g.latest = f.latest
    BY <1>0, <2>1, Zenon DEF WorkerFrame, WorkerPc
  <2>4. Copy(NoJob, job[Min(S)])
    <3>1. job[Min(S)].revision \in Nat /\ LedgerInv(Min(S)) /\ NoJob.revision = 0
      BY <2>1, Has, Fields, Zenon DEF NoJob
    <3>. HIDE DEF S
    <3>. QED BY <3>1 DEF Copy, LedgerInv
  <2>. HIDE DEF g, S
  <2>5. FrameInv(g)
    BY <1>0, <2>3, <2>4, JobsArePositive, Zenon DEF FrameInv, Frame, Publishing
  <2>. QED BY <1>0, <2>2, <2>3, <2>5, QuietMove, Zenon
<1>2. CASE S = {} /\ f.queue = "queued"
  <2>. DEFINE g == [f EXCEPT !.pc = "next", !.queue = "settled"]
  <2>1. jf' = [jf EXCEPT ![w] = g]
    BY <1>2, Zenon DEF ClaimNext, NextQueue, Goto
  <2>2. FrameInv(g) /\ g.pc = "next"
    BY <1>0, Zenon DEF FrameInv, Frame, WorkerFrame, WorkerPc, Publishing
  <2>. QED BY <1>0, <2>1, <2>2, QuietMove, Zenon
<1>3. CASE S = {} /\ f.queue # "queued"
  BY <1>0, <1>3, LeaveMove, Zenon DEF ClaimNext, NextQueue
<1>. QED BY <1>1, <1>2, <1>3, Zenon

LEMMA ClaimStep == ASSUME JudgeWorkerInv, NEW w \in Workers, Claim(w) PROVE Good
<1>a. PICK f : f = jf[w]
  OBVIOUS
<1>0. f = jf[w] /\ FrameInv(f) /\ f \in WorkerFrame /\ f.pc = "claim" /\ UNCHANGED <<fr, sent>> /\ f.j \in Jobs /\ Ledgers
  BY <1>a, Own, Has, Zenon DEF Claim, At, Rest
<1>1. CASE job[f.j].status \in {"queued", "settled"}
  <2>. DEFINE pc == IF job[f.j].status = "queued" THEN "roles" ELSE "finalize"
  <2>0. PICK g : g = [f EXCEPT !.pc = pc, !.current = job'[f.j]]
    OBVIOUS
  <2>1. claim_job(f.j) /\ UNCHANGED store /\ jf' = [jf EXCEPT ![w] = g] /\ Sound /\ JudgeNext
    BY <1>0, <1>1, <2>0, ClaimSound, Zenon DEF Claim, JobOf, Goto, claim_job, JudgeNext, JobStep
  <2>2. Grows /\ JobTypeOK' /\ job'[f.j] \in JobRecord
    BY <1>0, <2>1, WriteGrows, Zenon DEF Grows, JudgeInv, Types, JobTypeOK
  <2>3. /\ g \in WorkerFrame /\ g.pc = pc /\ g.j = f.j /\ g.p = f.p /\ g.current = job'[f.j]
        /\ g.latest = f.latest /\ pc \in {"roles", "finalize"}
    BY <1>0, <2>0, <2>2, Zenon DEF WorkerFrame, WorkerPc
  <2>4. /\ job'[f.j].status = IF job[f.j].status = "queued" THEN "prepared" ELSE "settled"
        /\ job'[f.j].calls = job[f.j].calls /\ job'[f.j].revision \in Nat
    BY <1>0, <2>1, <2>2, Fields, Zenon DEF claim_job, NextJob, JobTypeOK, JobRecord
  <2>5. FrameInv(f)'
    <3>1. sent'[f.j][f.p] = sent[f.j][f.p]
      BY <1>0, Zenon
    <3>. QED BY <1>0, <2>1, <2>2, <3>1, Bystander, Zenon
  <2>6. pc = "finalize" => \A q \in Plans : job'[f.j].calls[q] = "succeeded"
    <3>1. Shape(job[f.j].status, job[f.j].calls)
      BY <1>0, Fields, Zenon DEF LedgerInv
    <3>2. pc = "finalize" => job[f.j].status = "settled"
      BY <1>1, Zenon
    <3>. HIDE DEF pc
    <3>. QED BY <2>4, <3>1, <3>2, Zenon DEF Shape
  <2>7. FrameInv(g)'
    <3>1. PICK now, t, n : now = job'[f.j] /\ t = sent'[f.j][f.p] /\ n = Len(passes'[Subject])
      BY Zenon
    <3>2. Frame(f, now, t, n) /\ Copy(now, now)
      BY <2>4, <2>5, <3>1 DEF FrameInv, Copy
    <3>3. /\ f.pc = "claim" /\ g \in WorkerFrame /\ g.p = f.p /\ g.current = now /\ g.latest = f.latest
          /\ \/ g.pc = "roles" /\ now.status = "prepared"
             \/ /\ g.pc = "finalize" /\ now.status = "settled"
                /\ \A q \in Plans : now.calls[q] \in Outcome
      BY <1>0, <1>1, <2>3, <2>4, <2>6, <3>1, Zenon DEF Outcome
    <3>4. Frame(g, now, t, n)
      BY <3>2, <3>3, Zenon DEF Frame, Publishing
    <3>. QED BY <2>3, <3>1, <3>4, Zenon DEF FrameInv
  <2>. QED BY <1>0, <2>1, <2>3, <2>7, WriteMove, Zenon
<1>2. CASE job[f.j].status \notin {"queued", "settled"}
  <2>1. UNCHANGED judge /\ NextQueue(w)
    BY <1>0, <1>2, Zenon DEF Claim, JobOf
  <2>2. CASE f.queue = "queued"
    <3>. DEFINE g == [f EXCEPT !.pc = "next", !.queue = "settled"]
    <3>1. jf' = [jf EXCEPT ![w] = g]
      BY <1>0, <2>1, <2>2, Zenon DEF NextQueue, Goto
    <3>2. FrameInv(g) /\ g.pc = "next"
      BY <1>0, Zenon DEF FrameInv, Frame, WorkerFrame, WorkerPc, Publishing
    <3>. QED BY <1>0, <2>1, <3>1, <3>2, QuietMove, Zenon
  <2>3. CASE f.queue # "queued"
    BY <1>0, <2>1, <2>3, LeaveMove, Zenon DEF NextQueue
  <2>. QED BY <2>2, <2>3, Zenon
<1>. QED BY <1>1, <1>2, Zenon

(* A transition that closes no open call, as RoleFailure, cancellation and   *)
(* the note of a conflict make it.                                           *)
LEMMA TransitionWrites ==
  ASSUME JudgeWorkerInv, NEW j \in Jobs, NEW revision, NEW from, NEW to \in JobStatus \ {"completed"},
         job_transition(j, revision, from, to), Shape(to, job[j].calls)
  PROVE  UNCHANGED store /\ Sound /\ JudgeNext
<1>1. job_transition(j, job[j].revision, job[j].status, to) /\ UNCHANGED store
  BY Zenon DEF job_transition
<1>. QED BY <1>1, Has, TransitionSound, Zenon DEF JudgeNext, JobStep

LEMMA RoleFailureStep ==
  ASSUME JudgeWorkerInv, NEW w \in Workers, RolesFail(w) \/ FinalizeFails(w)
  PROVE  Good
<1>. DEFINE f == jf[w]
<1>0. /\ FrameInv(f) /\ f.j \in Jobs /\ f.pc \in {"roles", "finalize"} /\ LeaveJob(w)
      /\ RoleFailure(w) /\ UNCHANGED <<fr, sent>> /\ Ledgers
  BY Own, Has, Zenon DEF RolesFail, FinalizeFails, At, Rest
<1>1. CASE UNCHANGED judge
  BY <1>0, <1>1, LeaveMove, Zenon
<1>2. CASE job_transition(f.j, f.current.revision, f.current.status, "failed")
  <2>1. \A q \in Plans : job[f.j].calls[q] # "dispatching"
    <3>1. CASE f.pc = "roles"
      <4>1. f.current.status = "prepared"
        BY <1>0, <3>1, Zenon DEF FrameInv, Frame
      <4>2. job[f.j].status = "prepared"
        BY <1>2, <4>1, Zenon DEF job_transition
      <4>. QED BY <1>0, <4>2, Fields, Zenon DEF LedgerInv, Shape
    <3>2. CASE f.pc = "finalize"
      BY <1>0, <3>2, Zenon DEF FrameInv, Frame, Publishing, Outcome
    <3>. QED BY <1>0, <3>1, <3>2, SMTT(20)
  <2>2. Shape("failed", job[f.j].calls) /\ "failed" \in JobStatus \ {"completed"}
    BY <2>1, Zenon DEF Shape, JobStatus, TERMINAL_JOB_STATES
  <2>3. UNCHANGED store /\ Sound /\ JudgeNext
    BY <1>0, <1>2, <2>2, TransitionWrites, Zenon
  <2>. QED BY <1>0, <2>3, LeaveMove, Zenon
<1>. QED BY <1>0, <1>1, <1>2, Zenon DEF RoleFailure

(* The steps that only go on. *)
LEMMA RolesHoldStep == ASSUME JudgeWorkerInv, NEW w \in Workers, RolesHold(w) PROVE Good
<1>. DEFINE f == jf[w]
            g == [f EXCEPT !.pc = "load"]
<1>0. FrameInv(f) /\ f.pc = "roles" /\ jf' = [jf EXCEPT ![w] = g] /\ UNCHANGED <<judge, fr, sent>>
  BY Own, Zenon DEF RolesHold, At, Rest, Goto
<1>1. FrameInv(g) /\ g.pc = "load"
  BY <1>0, Zenon DEF FrameInv, Frame, WorkerFrame, WorkerPc, Publishing
<1>. QED BY <1>0, <1>1, QuietMove, Zenon

LEMMA NextPlan ==
  ASSUME NEW p \in Plans
  PROVE  /\ p = NPlans => \A q \in Plans : q < p \/ q = p
         /\ p # NPlans => p + 1 \in Plans /\ \A q \in Plans : q < p + 1 => q < p \/ q = p
BY NPlansAssumption DEF Plans

LEMMA LoadStep == ASSUME JudgeWorkerInv, NEW w \in Workers, Load(w) PROVE Good
<1>. DEFINE f == jf[w]
            call == job[f.j].calls[f.p]
<1>0. /\ FrameInv(f) /\ f \in WorkerFrame /\ f.pc = "load" /\ f.j \in Jobs /\ f.p \in Plans
      /\ job[f.j] \in JobRecord /\ job[f.j].revision \in Nat
      /\ UNCHANGED <<judge, fr, sent>> /\ Ledgers /\ call \in CallStatus
  BY Own, Has, Fields, Zenon DEF Load, At, Rest
<1>1. Copy(job[f.j], job[f.j])
  BY <1>0 DEF Copy
<1>a. /\ \A q \in Plans : q < f.p => job[f.j].calls[q] \in Outcome
      /\ call \notin {"dispatching", "none"} => job[f.j].calls[f.p] \in Outcome
  BY <1>0, Zenon DEF FrameInv, Frame, CallStatus
<1>2. CASE job[f.j].cancel
  <2>. DEFINE g == [f EXCEPT !.pc = "finalizeCancellation", !.latest = job[f.j]]
  <2>1. jf' = [jf EXCEPT ![w] = g]
    BY <1>2, Zenon DEF Load, Goto, JobOf
  <2>2. FrameInv(g) /\ g.pc = "finalizeCancellation"
    BY <1>0, <1>1, Zenon DEF FrameInv, Frame, WorkerFrame, WorkerPc, Publishing
  <2>. QED BY <1>0, <2>1, <2>2, QuietMove, Zenon
<1>3. CASE ~job[f.j].cancel /\ call = "dispatching"
  <2>. DEFINE g == [f EXCEPT !.pc = "callFailed", !.current = job[f.j], !.outcome = "indeterminate"]
  <2>1. jf' = [jf EXCEPT ![w] = g]
    BY <1>3, Zenon DEF Load, Goto, JobOf
  <2>2. FrameInv(g) /\ g.pc = "callFailed"
    BY <1>0, <1>1, Zenon DEF FrameInv, Frame, WorkerFrame, WorkerPc, Publishing, Outcome
  <2>. QED BY <1>0, <2>1, <2>2, QuietMove, Zenon
<1>4. CASE ~job[f.j].cancel /\ call = "none"
  <2>. DEFINE g == [f EXCEPT !.pc = "begin"]
  <2>1. jf' = [jf EXCEPT ![w] = g]
    BY <1>4, Zenon DEF Load, Goto, JobOf
  <2>2. FrameInv(g) /\ g.pc = "begin"
    BY <1>0, Zenon DEF FrameInv, Frame, WorkerFrame, WorkerPc, Publishing
  <2>. QED BY <1>0, <2>1, <2>2, QuietMove, Zenon
<1>5. CASE ~job[f.j].cancel /\ call \notin {"dispatching", "none"} /\ f.p = NPlans
  <2>. DEFINE g == [f EXCEPT !.pc = "finalize"]
  <2>1. jf' = [jf EXCEPT ![w] = g]
    BY <1>5, Zenon DEF Load, Goto, JobOf
  <2>2. \A q \in Plans : job[f.j].calls[q] \in Outcome
    <3>1. \A q \in Plans : q < f.p \/ q = f.p
      BY <1>0, <1>5, NextPlan, Zenon
    <3>. QED BY <1>5, <1>a, <3>1, Zenon
  <2>3. FrameInv(g) /\ g.pc = "finalize"
    BY <1>0, <2>2, SMTT(20) DEF FrameInv, Frame, WorkerFrame, WorkerPc, Publishing
  <2>. QED BY <1>0, <2>1, <2>3, QuietMove, Zenon
<1>6. CASE ~job[f.j].cancel /\ call \notin {"dispatching", "none"} /\ f.p # NPlans
  <2>. DEFINE g == [f EXCEPT !.p = f.p + 1]
  <2>1. jf' = [jf EXCEPT ![w] = g]
    BY <1>6, Zenon DEF Load, Goto, JobOf
  <2>2. f.p + 1 \in Plans /\ \A q \in Plans : q < f.p + 1 => job[f.j].calls[q] \in Outcome
    <3>1. f.p + 1 \in Plans /\ \A q \in Plans : q < f.p + 1 => q < f.p \/ q = f.p
      BY <1>0, <1>6, NextPlan, Zenon
    <3>. QED BY <1>6, <1>a, <3>1, Zenon
  <2>3. FrameInv(g) /\ g.pc = "load"
    BY <1>0, <2>2, Zenon DEF FrameInv, Frame, WorkerFrame, Publishing
  <2>. QED BY <1>0, <2>1, <2>3, QuietMove, Zenon
<1>. QED BY <1>2, <1>3, <1>4, <1>5, <1>6, Zenon

LEMMA BeginCallStep == ASSUME JudgeWorkerInv, NEW w \in Workers, BeginCall(w) PROVE Good
<1>a. PICK f : f = jf[w]
  OBVIOUS
<1>0. /\ f = jf[w] /\ FrameInv(f) /\ f \in WorkerFrame /\ f.pc = "begin" /\ f.j \in Jobs /\ f.p \in Plans
      /\ UNCHANGED <<fr, sent>> /\ Ledgers
  BY <1>a, Own, Has, Zenon DEF BeginCall, At, Rest
<1>1. CASE ~can_begin_call(f.j, f.p, f.current.revision)
  BY <1>0, <1>1, LeaveMove, Zenon DEF BeginCall
<1>2. CASE can_begin_call(f.j, f.p, f.current.revision)
  <2>0. PICK g : g = [f EXCEPT !.pc = "send", !.current = job'[f.j]]
    OBVIOUS
  <2>1. begin_call(f.j, f.p, f.current.revision) /\ UNCHANGED store /\ jf' = [jf EXCEPT ![w] = g]
    BY <1>0, <1>2, <2>0, Zenon DEF BeginCall, Goto, begin_call
  <2>2. Sound
    BY <1>0, <2>1, BeginSound, Zenon DEF FrameInv, Frame
  <2>3. JudgeNext
    <3>1. begin_call(f.j, f.p, job[f.j].revision)
      BY <2>1, Zenon DEF begin_call, can_begin_call
    <3>. QED BY <1>0, <3>1, Zenon DEF JudgeNext, JobStep
  <2>4. Grows /\ JobTypeOK' /\ job'[f.j] \in JobRecord /\ job'[f.j].revision \in Nat
    BY <1>0, <2>1, <2>3, WriteGrows, Zenon DEF Grows, JudgeInv, Types, JobTypeOK, JobRecord
  <2>5. FrameInv(f)'
    <3>1. sent'[f.j][f.p] = sent[f.j][f.p]
      BY <1>0, Zenon
    <3>. QED BY <1>0, <2>2, <2>4, <3>1, Bystander, Zenon
  <2>6. /\ job[f.j].calls[f.p] = "none" /\ sent'[f.j][f.p] = 0 /\ job'[f.j].calls[f.p] # "none"
    <3>1. job[f.j].calls[f.p] = "none" /\ sent[f.j][f.p] = 0
      BY <1>0, <1>2 DEF can_begin_call, Ledgers, SentInv
    <3>2. job'[f.j].calls[f.p] = "dispatching"
      BY <1>0, <2>1, Fields, Zenon DEF begin_call, NextJob, Ledgers, JobTypeOK
    <3>. QED BY <1>0, <3>1, <3>2, Zenon
  <2>7. /\ g \in WorkerFrame /\ g.pc = "send" /\ g.j = f.j /\ g.p = f.p /\ g.current = job'[f.j]
        /\ g.latest = f.latest
    BY <1>0, <2>0, <2>4, Zenon DEF WorkerFrame, WorkerPc
  <2>8. FrameInv(g)'
    <3>1. PICK now, t, n : now = job'[f.j] /\ t = sent'[f.j][f.p] /\ n = Len(passes'[Subject])
      BY Zenon
    <3>2. Frame(f, now, t, n) /\ Copy(now, now)
      BY <2>4, <2>5, <3>1 DEF FrameInv, Copy
    <3>3. /\ g \in WorkerFrame /\ g.p = f.p /\ g.current = now /\ g.latest = f.latest /\ g.pc = "send"
          /\ t = 0 /\ now.calls[f.p] # "none"
      BY <2>6, <2>7, <3>1, Zenon
    <3>4. Frame(g, now, t, n)
      BY <3>2, <3>3, Zenon DEF Frame, Publishing
    <3>. QED BY <2>7, <3>1, <3>4, Zenon DEF FrameInv
  <2>9. \A v \in Workers \ {w} : ~(jf[v].pc = "send" /\ jf[v].j = g.j /\ jf[v].p = g.p)
    <3>1. SUFFICES ASSUME NEW v \in Workers, jf[v].pc = "send", jf[v].j = f.j, jf[v].p = f.p PROVE FALSE
      BY <2>7, Zenon
    <3>2. FrameInv(jf[v])
      BY Zenon DEF JudgeWorkerInv, WorkerInv
    <3>3. job[f.j].calls[f.p] # "none"
      BY <3>1, <3>2, Zenon DEF FrameInv, Frame
    <3>. QED BY <2>6, <3>3, Zenon
  <2>. QED BY <1>0, <2>1, <2>2, <2>3, <2>8, <2>9, WriteMove, Zenon
<1>. QED BY <1>1, <1>2, Zenon

LEMMA CountSent ==
  ASSUME NEW times \in [Jobs -> [Plans -> {0, 1}]], NEW j \in Jobs, NEW p \in Plans, times[j][p] = 0,
         NEW new, new = [times EXCEPT ![j][p] = times[j][p] + 1]
  PROVE  /\ new \in [Jobs -> [Plans -> {0, 1}]] /\ new[j][p] = 1
         /\ \A i \in Jobs, q \in Plans : i # j \/ q # p => new[i][q] = times[i][q]
OBVIOUS

LEMMA SendStep == ASSUME JudgeWorkerInv, NEW w \in Workers, Send(w) PROVE Good
<1>a. PICK f : f = jf[w]
  OBVIOUS
<1>b. PICK g : g = [f EXCEPT !.pc = "wait"]
  BY Zenon
<1>0. /\ f = jf[w] /\ FrameInv(f) /\ f \in WorkerFrame /\ f.pc = "send" /\ f.j \in Jobs /\ f.p \in Plans
      /\ jf' = [jf EXCEPT ![w] = g] /\ UNCHANGED <<judge, fr>> /\ Ledgers
      /\ sent' = [sent EXCEPT ![f.j][f.p] = sent[f.j][f.p] + 1]
  BY <1>a, <1>b, Own, Has, Zenon DEF Send, At, Goto
<1>1. UNCHANGED <<store, job>> /\ Grows /\ Sound /\ JobTypeOK'
  BY <1>0, QuietGrows, Zenon DEF judge, Grows, JudgeInv, Types
<1>2. sent[f.j][f.p] = 0 /\ job[f.j].calls[f.p] # "none" /\ sent \in [Jobs -> [Plans -> {0, 1}]]
  BY <1>0, Zenon DEF FrameInv, Frame, Ledgers, SentInv
<1>3. /\ sent' \in [Jobs -> [Plans -> {0, 1}]] /\ sent'[f.j][f.p] = 1
      /\ \A i \in Jobs, q \in Plans : i # f.j \/ q # f.p => sent'[i][q] = sent[i][q]
  <2>1. PICK j \in Jobs, p \in Plans : j = f.j /\ p = f.p
    BY <1>0, Zenon
  <2>2. /\ sent[j][p] = 0 /\ sent \in [Jobs -> [Plans -> {0, 1}]]
        /\ sent' = [sent EXCEPT ![j][p] = sent[j][p] + 1]
    BY <1>0, <1>2, <2>1, Zenon
  <2>3. /\ sent' \in [Jobs -> [Plans -> {0, 1}]] /\ sent'[j][p] = 1
        /\ \A i \in Jobs, q \in Plans : i # j \/ q # p => sent'[i][q] = sent[i][q]
    BY <2>2, CountSent
  <2>. QED BY <2>1, <2>3, Zenon
<1>4. SentInv'
  <2>1. ASSUME NEW i \in Jobs, NEW q \in Plans
        PROVE  /\ sent'[i][q] = 1 => job[i].calls[q] # "none"
               /\ job[i].calls[q] = "succeeded" => sent'[i][q] = 1
    <3>1. /\ sent[i][q] = 1 => job[i].calls[q] # "none"
          /\ job[i].calls[q] = "succeeded" => sent[i][q] = 1
      BY <1>0, Zenon DEF Ledgers, SentInv
    <3>2. CASE i = f.j /\ q = f.p
      BY <1>2, <1>3, <3>2, Zenon
    <3>3. CASE i # f.j \/ q # f.p
      BY <1>3, <3>1, <3>3, Zenon
    <3>. QED BY <3>2, <3>3, Zenon
  <2>. QED BY <1>1, <1>3, <2>1, Zenon DEF SentInv
<1>5. DOMAIN jf = Workers /\ DOMAIN jf' = Workers /\ jf'[w] = g /\ \A v \in Workers \ {w} : jf'[v] = jf[v]
  BY <1>0, Zenon DEF JudgeWorkerInv, Frames
<1>6. /\ g \in WorkerFrame /\ g.pc = "wait" /\ g.j = f.j /\ g.p = f.p /\ g.current = f.current
      /\ g.latest = f.latest
  BY <1>0, <1>b, Zenon DEF WorkerFrame, WorkerPc
<1>7. ASSUME NEW v \in Workers PROVE WorkerInv(v)'
  <2>1. CASE v = w
    <3>1. FrameInv(g)'
      <4>1. Frame(f, job[f.j], sent[f.j][f.p], Len(passes[Subject]))
        BY <1>0, Zenon DEF FrameInv
      <4>2. Frame(g, job[f.j], 1, Len(passes[Subject]))
        BY <1>0, <1>6, <4>1, Zenon DEF Frame, Publishing
      <4>. QED BY <1>1, <1>3, <1>6, <4>2, Zenon DEF FrameInv, store
    <3>. QED BY <1>5, <2>1, <3>1, Zenon DEF WorkerInv, FrameInv
  <2>2. CASE v # w
    <3>1. PICK h : h = jf[v]
      OBVIOUS
    <3>2. FrameInv(h) /\ jf'[v] = h /\ h.j \in Jobs /\ h.p \in Plans
      BY <1>5, <2>2, <3>1, Own, Zenon
    <3>3. h.pc \in {"send", "wait", "reload", "settle"} => sent'[h.j][h.p] = sent[h.j][h.p]
      <4>1. CASE h.pc = "send"
        <5>1. h.j # f.j \/ h.p # f.p
          BY <1>0, <2>2, <3>1, <4>1, SMTT(20) DEF JudgeWorkerInv, SenderInv
        <5>. QED BY <1>3, <3>2, <5>1, Zenon
      <4>2. CASE h.pc \in {"wait", "reload", "settle"}
        <5>1. sent[h.j][h.p] = 1
          BY <3>2, <4>2, Zenon DEF FrameInv, Frame
        <5>2. h.j # f.j \/ h.p # f.p
          BY <1>2, <5>1
        <5>. QED BY <1>3, <3>2, <5>2, Zenon
      <4>. QED BY <4>1, <4>2, Zenon
    <3>4. FrameInv(h)'
      BY <1>1, <3>2, <3>3, Bystander, Zenon
    <3>. QED BY <3>2, <3>4, Zenon DEF WorkerInv, FrameInv
  <2>. QED BY <2>1, <2>2, Zenon
<1>8. SenderInv'
  BY <1>5, <1>6, Zenon DEF JudgeWorkerInv, SenderInv
<1>9. \A a \in Clients : ClientInv(a)'
  BY <1>0, <1>1, ClientKept, Zenon
<1>10. StoreInvs' /\ Frames' /\ \A j \in Jobs : LedgerInv(j)'
  BY <1>0, <1>1, <1>5, Zenon DEF StoreInvs, Frames, Grows, JudgeWorkerInv, Sound
<1>. QED BY <1>0, <1>4, <1>7, <1>8, <1>9, <1>10, Zenon DEF Good, JudgeWorkerInv

LEMMA AnswerStep ==
  ASSUME JudgeWorkerInv, NEW w \in Workers, Responds(w) \/ Errs(w) \/ Reload(w)
  PROVE  Good
<1>. DEFINE f == jf[w]
<1>0. /\ FrameInv(f) /\ f \in WorkerFrame /\ f.pc \in {"wait", "reload"} /\ f.j \in Jobs
      /\ job[f.j] \in JobRecord /\ job[f.j].revision \in Nat /\ UNCHANGED <<judge, fr, sent>>
  BY Own, Zenon DEF Responds, Errs, Reload, At, Rest
<1>1. CASE Responds(w)
  <2>. DEFINE g == [f EXCEPT !.pc = "reload"]
  <2>1. jf' = [jf EXCEPT ![w] = g] /\ f.pc = "wait"
    BY <1>1, Zenon DEF Responds, Goto, At
  <2>2. FrameInv(g) /\ g.pc = "reload"
    BY <1>0, Zenon DEF FrameInv, Frame, WorkerFrame, WorkerPc, Publishing
  <2>. QED BY <1>0, <2>1, <2>2, QuietMove, Zenon
<1>2. CASE Errs(w)
  <2>1. PICK outcome \in {"failed", "indeterminate"} :
          jf' = [jf EXCEPT ![w] = [f EXCEPT !.pc = "callFailed", !.outcome = outcome]]
    BY <1>2, Zenon DEF Errs, Goto
  <2>. DEFINE g == [f EXCEPT !.pc = "callFailed", !.outcome = outcome]
  <2>2. FrameInv(g) /\ g.pc = "callFailed"
    BY <1>0, Zenon DEF FrameInv, Frame, WorkerFrame, WorkerPc, Publishing, Outcome
  <2>. QED BY <1>0, <2>1, <2>2, QuietMove, Zenon
<1>3. CASE Reload(w)
  <2>. DEFINE pc == IF job[f.j].status = "dispatching" THEN "settle" ELSE "finalizeCancellation"
              g == [f EXCEPT !.latest = job[f.j], !.pc = pc]
  <2>1. jf' = [jf EXCEPT ![w] = g] /\ f.pc = "reload"
    BY <1>3, Zenon DEF Reload, Goto, At, JobOf
  <2>2. Copy(job[f.j], job[f.j]) /\ pc \in {"settle", "finalizeCancellation"}
    BY <1>0, SMTT(20) DEF Copy
  <2>. HIDE DEF pc
  <2>3. FrameInv(g) /\ g.pc # "send"
    BY <1>0, <2>2, Zenon DEF FrameInv, Frame, WorkerFrame, WorkerPc, Publishing
  <2>. QED BY <1>0, <2>1, <2>3, QuietMove, Zenon
<1>. QED BY <1>1, <1>2, <1>3, Zenon

LEMMA SettleStep == ASSUME JudgeWorkerInv, NEW w \in Workers, Settle(w) PROVE Good
<1>a. PICK f : f = jf[w]
  OBVIOUS
<1>0. /\ f = jf[w] /\ FrameInv(f) /\ f \in WorkerFrame /\ f.pc = "settle" /\ f.j \in Jobs /\ f.p \in Plans
      /\ UNCHANGED <<fr, sent>> /\ Ledgers /\ sent[f.j][f.p] = 1
  BY <1>a, Own, Has, Zenon DEF Settle, At, Rest, FrameInv, Frame
<1>1. CASE ~can_settle_call(f.j, f.p, f.latest.revision)
  BY <1>0, <1>1, LeaveMove, Zenon DEF Settle
<1>2. CASE can_settle_call(f.j, f.p, f.latest.revision)
  <2>. DEFINE to == IF f.p = NPlans THEN "settled" ELSE "dispatching"
              pc == IF f.p = NPlans THEN "finalize" ELSE "load"
              p == IF f.p = NPlans THEN f.p ELSE f.p + 1
  <2>0. PICK g : g = [f EXCEPT !.pc = pc, !.p = p, !.current = job'[f.j], !.latest = NoJob]
    OBVIOUS
  <2>1. /\ settle_call(f.j, f.p, f.latest.revision, "succeeded", to) /\ UNCHANGED store
        /\ jf' = [jf EXCEPT ![w] = g]
    BY <1>0, <1>2, <2>0, Zenon DEF Settle, Goto, settle_call
  <2>2. Sound
    BY <1>0, <2>1, SettleSound, Zenon DEF Outcome
  <2>3. JudgeNext
    <3>1. settle_call(f.j, f.p, job[f.j].revision, "succeeded", to)
      BY <2>1, Zenon DEF settle_call, can_settle_call
    <3>2. "succeeded" \in Outcome /\ to \in JobStatus
      BY Zenon DEF Outcome, JobStatus
    <3>. QED BY <1>0, <3>1, <3>2, Zenon DEF JudgeNext, JobStep
  <2>4. Grows /\ JobTypeOK' /\ job'[f.j] \in JobRecord /\ job'[f.j].revision \in Nat
    BY <1>0, <2>1, <2>3, WriteGrows, Zenon DEF Grows, JudgeInv, Types, JobTypeOK, JobRecord
  <2>5. FrameInv(f)'
    <3>1. sent'[f.j][f.p] = sent[f.j][f.p]
      BY <1>0, Zenon
    <3>. QED BY <1>0, <2>2, <2>4, <3>1, Bystander, Zenon
  <2>6. /\ job'[f.j].calls[f.p] = "succeeded" /\ job'[f.j].status = to
    BY <1>0, <2>1, Fields, Zenon DEF settle_call, NextJob, Ledgers, JobTypeOK
  <2>7. p \in Plans /\ pc \in {"finalize", "load"}
    BY <1>0, NPlansAssumption, SMTT(20) DEF Plans
  <2>8. \A q \in Plans : q < p \/ pc = "finalize" => job'[f.j].calls[q] \in Outcome
    <3>1. \A q \in Plans : q < f.p => job'[f.j].calls[q] \in Outcome
      BY <2>5, Zenon DEF FrameInv, Frame
    <3>2. \A q \in Plans : q < p \/ pc = "finalize" => q < f.p \/ q = f.p
      BY <1>0, NPlansAssumption DEF Plans
    <3>. QED BY <2>6, <3>1, <3>2, Zenon DEF Outcome
  <2>9. NoJob \in JobRecord /\ NoJob.revision = 0
    BY Zenon DEF NoJob, JobRecord, JobStatus, CallStatus
  <2>10. job'[f.j].revision = 0 => job'[f.j] = NoJob
    BY <1>0, <2>2, Zenon DEF Sound, LedgerInv, NoJob
  <2>11. /\ g \in WorkerFrame /\ g.pc = pc /\ g.j = f.j /\ g.p = p /\ g.current = job'[f.j]
         /\ g.latest = NoJob
    BY <1>0, <2>0, <2>4, <2>7, <2>9, Zenon DEF WorkerFrame, WorkerPc
  <2>12. to \in {"settled", "dispatching"}
    OBVIOUS
  <2>. HIDE DEF pc, p, to
  <2>13. FrameInv(g)'
    <3>1. PICK now, t, n : now = job'[f.j] /\ t = sent'[f.j][p] /\ n = Len(passes'[Subject])
      BY Zenon
    <3>2. Copy(now, now) /\ Copy(NoJob, now)
      BY <2>4, <2>9, <2>10, <3>1 DEF Copy
    <3>3. /\ g \in WorkerFrame /\ g.p = p /\ g.current = now /\ g.latest = NoJob
          /\ g.pc \in {"finalize", "load"} /\ now.status \in {"settled", "dispatching"}
          /\ \A q \in Plans : q < p \/ g.pc = "finalize" => now.calls[q] \in Outcome
      BY <2>6, <2>7, <2>8, <2>11, <2>12, <3>1, Zenon
    <3>4. Frame(g, now, t, n)
      BY <3>2, <3>3, Zenon DEF Frame, Publishing
    <3>. QED BY <2>11, <3>1, <3>4, Zenon DEF FrameInv
  <2>. QED BY <1>0, <2>1, <2>2, <2>3, <2>7, <2>11, <2>13, WriteMove, Zenon
<1>. QED BY <1>1, <1>2, Zenon

LEMMA CallFailedStep == ASSUME JudgeWorkerInv, NEW w \in Workers, CallFailed(w) PROVE Good
<1>. DEFINE f == jf[w]
<1>0. /\ FrameInv(f) /\ f \in WorkerFrame /\ f.pc = "callFailed" /\ f.j \in Jobs /\ f.p \in Plans
      /\ LeaveJob(w) /\ UNCHANGED <<fr, sent>> /\ Ledgers
  BY Own, Has, Zenon DEF CallFailed, At, Rest
<1>1. CASE UNCHANGED judge
  BY <1>0, <1>1, LeaveMove, Zenon
<1>2. CASE settle_call(f.j, f.p, f.current.revision, f.outcome, f.outcome)
  <2>1. f.outcome \in {"failed", "indeterminate"} /\ f.outcome \in Outcome /\ f.outcome \in JobStatus
    BY <1>0, Zenon DEF FrameInv, Frame, Outcome, JobStatus, TERMINAL_JOB_STATES
  <2>2. UNCHANGED store /\ settle_call(f.j, f.p, job[f.j].revision, f.outcome, f.outcome)
    BY <1>2, Zenon DEF settle_call, can_settle_call
  <2>3. Sound
    BY <1>0, <1>2, <2>1, SettleSound, Zenon
  <2>4. JudgeNext
    BY <1>0, <2>1, <2>2, Zenon DEF JudgeNext, JobStep
  <2>. QED BY <1>0, <2>2, <2>3, <2>4, LeaveMove, Zenon
<1>. QED BY <1>1, <1>2, Zenon DEF CallFailed

LEMMA FinalizeCancellationStep ==
  ASSUME JudgeWorkerInv, NEW w \in Workers, FinalizeCancellation(w)
  PROVE  Good
<1>. DEFINE f == jf[w]
<1>0. /\ FrameInv(f) /\ f.j \in Jobs /\ JobOf(w) = job[f.j]
      /\ LeaveJob(w) /\ UNCHANGED <<fr, sent>> /\ Ledgers
  BY Own, Has, Zenon DEF FinalizeCancellation, At, Rest
<1>1. CASE UNCHANGED judge
  BY <1>0, <1>1, LeaveMove, Zenon
<1>2. CASE /\ \A p \in Plans : f.latest.calls[p] # "dispatching"
           /\ JobOf(w).revision = f.latest.revision
           /\ job_transition(f.j, f.latest.revision, "dispatching", "cancelled")
  <2>1. f.latest = job[f.j]
    BY <1>0, <1>2, Zenon DEF FrameInv, Frame, Copy
  <2>2. Shape("cancelled", job[f.j].calls) /\ "cancelled" \in JobStatus \ {"completed"}
    BY <1>2, <2>1, Zenon DEF Shape, JobStatus, TERMINAL_JOB_STATES
  <2>3. UNCHANGED store /\ Sound /\ JudgeNext
    BY <1>0, <1>2, <2>2, TransitionWrites, Zenon
  <2>. QED BY <1>0, <2>3, LeaveMove, Zenon
<1>3. CASE cancel_job(f.j)
  <2>1. UNCHANGED store /\ Sound /\ JudgeNext
    BY <1>0, <1>3, CancelSound, Zenon DEF cancel_job, JudgeNext, JobStep
  <2>. QED BY <1>0, <2>1, LeaveMove, Zenon
<1>. QED BY <1>1, <1>2, <1>3, Zenon DEF FinalizeCancellation

LEMMA FinalizeStep ==
  ASSUME JudgeWorkerInv, NEW w \in Workers, Finalize(w) \/ ReadRun(w)
  PROVE  Good
<1>. DEFINE f == jf[w]
<1>0. /\ FrameInv(f) /\ f \in WorkerFrame /\ f.pc \in {"finalize", "readRun"} /\ f.j \in Jobs
      /\ f.current \in JobRecord /\ UNCHANGED <<judge, fr, sent>>
      /\ run[Subject] \in RunRecord /\ run[Subject].current \in Nat
      /\ run[Subject].current <= Len(passes[Subject])
  BY Own, LenType, Zenon DEF Finalize, ReadRun, At, Rest, JudgeWorkerInv, StoreInvs
<1>1. CASE Finalize(w) /\ f.current.cancel
  <2>. DEFINE g == [f EXCEPT !.pc = "finalizeCancellation", !.latest = f.current]
  <2>1. jf' = [jf EXCEPT ![w] = g]
    BY <1>1, Zenon DEF Finalize, Goto
  <2>2. FrameInv(g) /\ g.pc = "finalizeCancellation"
    BY <1>0, Zenon DEF FrameInv, Frame, WorkerFrame, WorkerPc, Publishing
  <2>. QED BY <1>0, <2>1, <2>2, QuietMove, Zenon
<1>2. CASE Finalize(w) /\ ~f.current.cancel
  <2>. DEFINE g == [f EXCEPT !.pc = "readRun", !.prev = run[Subject].current]
  <2>1. jf' = [jf EXCEPT ![w] = g] /\ f.pc = "finalize"
    BY <1>2, Zenon DEF Finalize, Goto, At
  <2>2. FrameInv(g) /\ g.pc = "readRun"
    BY <1>0, <2>1, Zenon DEF FrameInv, Frame, WorkerFrame, WorkerPc, Publishing
  <2>. QED BY <1>0, <2>1, <2>2, QuietMove, Zenon
<1>3. CASE ReadRun(w)
  <2>. DEFINE g == [f EXCEPT !.pc = "publish", !.run = run[Subject]]
  <2>1. jf' = [jf EXCEPT ![w] = g] /\ f.pc = "readRun"
    BY <1>3, Zenon DEF ReadRun, Goto, At
  <2>2. FrameInv(g) /\ g.pc = "publish"
    BY <1>0, <2>1, Zenon DEF FrameInv, Frame, WorkerFrame, WorkerPc, Publishing
  <2>. QED BY <1>0, <2>1, <2>2, QuietMove, Zenon
<1>. QED BY <1>1, <1>2, <1>3, Zenon

(* An append to the passes of the subject Run. *)
LEMMA AppendGrows ==
  ASSUME JudgeWorkerInv, JudgeNext, NEW revision, NEW status, NEW pass, NEW synthetic, NEW final,
         NEW cancellation, append(Subject, revision, status, pass, synthetic, final, cancellation)
  PROVE  Grows
<1>1. JudgeInv'
  BY Has, JudgeStep, Zenon
<1>2. /\ run \in [Runs -> RunRecord] /\ passes \in [Runs -> Seq(Pass)] /\ Subject \in Runs
      /\ Len(passes[Subject]) \in Nat /\ run[Subject].revision \in Nat
  BY Has, SubjectIsRun, LenType, Zenon DEF JudgeInv, Types
<1>3. run'[Subject].revision = run[Subject].revision + 1 /\ run'[Subject].current = Len(passes[Subject]) + 1
  BY <1>2, Zenon DEF append, NextRun
<1>4. passes'[Subject] = Append(passes[Subject], pass) /\ passes[Subject] \in Seq(Pass)
  BY <1>2, Zenon DEF append
<1>5. Len(passes'[Subject]) = Len(passes[Subject]) + 1
  BY <1>4
<1>6. run'[Subject].revision > run[Subject].revision
  BY <1>2, <1>3
<1>7. Len(passes[Subject]) <= Len(passes'[Subject]) /\ run'[Subject].current <= Len(passes'[Subject])
  BY <1>2, <1>3, <1>5
<1>. QED BY <1>1, <1>6, <1>7, Zenon DEF Grows

LEMMA PublishStep ==
  ASSUME JudgeWorkerInv, NEW w \in Workers, Publish(w) \/ PublishConflict(w)
  PROVE  Good
<1>. DEFINE f == jf[w]
<1>0. /\ FrameInv(f) /\ f \in WorkerFrame /\ f.pc \in {"publish", "conflict"} /\ f.j \in Jobs
      /\ f.prev \in Nat /\ JobOf(w) = job[f.j] /\ UNCHANGED <<fr, sent>> /\ Ledgers
      /\ Len(passes[Subject]) \in Nat
  BY Own, Has, LenType, Zenon DEF Publish, PublishConflict, At, Rest, WorkerFrame
<1>1. CASE Publish(w) /\ publish(f.j, f.current.revision, f.prev, f.run.revision, f.run.status)
                      /\ LeaveJob(w)
  <2>1. f.prev \in 0..Len(passes[Subject]) /\ \A q \in Plans : job[f.j].calls[q] \in Outcome
    BY <1>0, <1>1, SMTT(20) DEF Publish, At, FrameInv, Frame, Publishing
  <2>2. publish(f.j, job[f.j].revision, f.prev, run[Subject].revision, run[Subject].status)
    BY <1>1, Zenon DEF publish, can_publish, append, can_append, Matches
  <2>3. JudgeNext
    BY <1>0, <2>1, <2>2, Zenon DEF JudgeNext, JobStep
  <2>4. Grows
    BY <2>2, <2>3, AppendGrows, Zenon DEF publish
  <2>5. Sound
    BY <1>0, <1>1, <2>1, PublishSound, Zenon DEF JudgeWorkerInv
  <2>6. PICK pc \in {"down", "idle"} : jf' = [jf EXCEPT ![w] = Idle(pc)]
    BY <1>1, Zenon DEF LeaveJob
  <2>. QED BY <1>0, <2>3, <2>4, <2>5, <2>6, IdleMove, Zenon
<1>2. CASE UNCHANGED judge /\ LeaveJob(w)
  BY <1>0, <1>2, LeaveMove, Zenon
<1>3. CASE Publish(w) /\ UNCHANGED judge /\ Goto(w, [f EXCEPT !.pc = "conflict"])
  <2>. DEFINE g == [f EXCEPT !.pc = "conflict"]
  <2>1. jf' = [jf EXCEPT ![w] = g] /\ f.pc = "publish"
    BY <1>3, Zenon DEF Publish, Goto, At
  <2>2. FrameInv(g) /\ g.pc = "conflict"
    BY <1>0, <2>1, Zenon DEF FrameInv, Frame, WorkerFrame, WorkerPc, Publishing
  <2>. QED BY <1>0, <1>3, <2>1, <2>2, QuietMove, Zenon
<1>4. CASE /\ LeaveJob(w) /\ f.pc = "conflict"
           /\ job_transition(f.j, f.current.revision, f.current.status, f.current.status)
  <2>1. f.current.status \in JobStatus \ {"completed"} /\ job[f.j].status = f.current.status
    BY <1>0, <1>4, Zenon DEF FrameInv, Frame, Publishing, JobStatus, job_transition
  <2>2. Shape(f.current.status, job[f.j].calls)
    BY <1>0, <2>1, Fields, Zenon DEF LedgerInv
  <2>3. UNCHANGED store /\ Sound /\ JudgeNext
    BY <1>0, <1>4, <2>1, <2>2, TransitionWrites, Zenon
  <2>. QED BY <1>0, <1>4, <2>3, LeaveMove, Zenon
<1>5. CASE Publish(w)
  BY <1>1, <1>2, <1>3, <1>5, Zenon DEF Publish
<1>6. CASE PublishConflict(w)
  BY <1>2, <1>4, <1>6, Zenon DEF PublishConflict, At
<1>. QED BY <1>5, <1>6, Zenon

-----------------------------------------------------------------------------
(* The steps of the clients, and those that leave every frame alone. *)

LEMMA Elsewhere ==
  ASSUME JudgeWorkerInv, UNCHANGED <<jf, fr, sent>>, Sound, Grows, JudgeNext \/ UNCHANGED judge
  PROVE  Good
<1>1. JobTypeOK'
  BY Zenon DEF Grows, JudgeInv, Types
<1>2. ASSUME NEW v \in Workers PROVE WorkerInv(v)'
  <2>1. PICK h : h = jf[v]
    OBVIOUS
  <2>2. FrameInv(h) /\ jf'[v] = h
    BY <2>1, Zenon DEF JudgeWorkerInv, WorkerInv
  <2>3. FrameInv(h)'
    BY <1>1, <2>2, Bystander, Zenon
  <2>. QED BY <2>2, <2>3, Zenon DEF WorkerInv, FrameInv
<1>3. \A a \in Clients : ClientInv(a)'
  BY ClientKept, Zenon
<1>4. SenderInv' /\ SentInv' /\ StoreInvs' /\ Frames' /\ \A j \in Jobs : LedgerInv(j)'
  BY Zenon DEF JudgeWorkerInv, SenderInv, SentInv, StoreInvs, Frames, Grows, Sound, Kept
<1>. QED BY <1>2, <1>3, <1>4, Zenon DEF Good, JudgeWorkerInv

LEMMA RequestStep ==
  ASSUME JudgeWorkerInv, Submit \/ CancelJob \/ \E w \in Workers : LoseLock(w)
  PROVE  Good
<1>1. CASE Submit
  <2>1. PICK j \in Jobs : submit(j)
    BY <1>1, Zenon DEF Submit
  <2>2. UNCHANGED <<jf, fr, sent>> /\ UNCHANGED store /\ Sound /\ JudgeNext
    BY <1>1, <2>1, Has, SubmitSound, Zenon DEF Submit, submit, JudgeNext, JobStep
  <2>. QED BY <2>2, WriteGrows, Elsewhere, Zenon
<1>2. CASE CancelJob
  <2>1. PICK j \in Jobs : cancel_job(j)
    BY <1>2, Zenon DEF CancelJob
  <2>2. UNCHANGED <<jf, fr, sent>> /\ UNCHANGED store /\ Sound /\ JudgeNext
    BY <1>2, <2>1, Has, CancelSound, Zenon DEF CancelJob, cancel_job, JudgeNext, JobStep
  <2>. QED BY <2>2, WriteGrows, Elsewhere, Zenon
<1>3. CASE \E w \in Workers : LoseLock(w)
  BY <1>3, QuietGrows, Elsewhere, Zenon DEF LoseLock, judge
<1>. QED BY <1>1, <1>2, <1>3, Zenon

(* A step of one client. *)
LEMMA ClientMove ==
  ASSUME JudgeWorkerInv, NEW a \in Clients, NEW g, fr' = [fr EXCEPT ![a] = g],
         DOMAIN g = DOMAIN Blank("idle"), UNCHANGED <<jf, sent, job>>, Grows,
         JudgeNext \/ UNCHANGED judge, ClientInv(a)'
  PROVE  Good
<1>1. JobTypeOK' /\ Sound
  BY Has, NoWrite, Zenon DEF Grows, JudgeInv, Types
<1>2. ASSUME NEW v \in Workers PROVE WorkerInv(v)'
  <2>1. PICK h : h = jf[v]
    OBVIOUS
  <2>2. FrameInv(h) /\ jf'[v] = h
    BY <2>1, Zenon DEF JudgeWorkerInv, WorkerInv
  <2>3. FrameInv(h)'
    BY <1>1, <2>2, Bystander, Zenon
  <2>. QED BY <2>2, <2>3, Zenon DEF WorkerInv, FrameInv
<1>3. /\ DOMAIN fr' = Actors /\ fr'[a] = g /\ \A b \in Clients \ {a} : fr'[b] = fr[b]
  BY Zenon DEF JudgeWorkerInv, Frames, Actors
<1>4. \A b \in Clients : ClientInv(b)'
  BY <1>3, ClientKept, Zenon
<1>5. SenderInv' /\ SentInv' /\ StoreInvs' /\ \A j \in Jobs : LedgerInv(j)'
  BY <1>1, Zenon DEF JudgeWorkerInv, SenderInv, SentInv, StoreInvs, Grows, Sound
<1>6. Frames'
  BY <1>3, Zenon DEF JudgeWorkerInv, Frames
<1>. QED BY <1>2, <1>4, <1>5, <1>6, Zenon DEF Good, JudgeWorkerInv

(* The fields of a client's frame. *)
LEMMA BlankFields ==
  DOMAIN Blank("idle") = {"pc", "r", "c", "att", "snap", "done", "synth", "pend", "stop", "to", "flag",
                          "src", "prev", "ret", "exc", "list", "seen"}
BY Zenon DEF Blank

LEMMA GivesUp ==
  ASSUME JudgeWorkerInv, NEW a \in Clients, fr' = [fr EXCEPT ![a] = Blank("idle")],
         UNCHANGED <<jf, sent, job>>, Grows, JudgeNext \/ UNCHANGED judge
  PROVE  Good
<1>1. PICK b : b = Blank("idle")
  OBVIOUS
<1>2. /\ b.pc = "idle" /\ b.exc = "die" /\ b.to = "none" /\ b.flag = FALSE /\ b.synth = {}
      /\ DOMAIN b = DOMAIN Blank("idle")
  BY <1>1, Zenon DEF Blank
<1>3. fr' = [fr EXCEPT ![a] = b] /\ fr'[a] = b
  BY <1>1, Zenon DEF JudgeWorkerInv, Frames, Actors
<1>4. ClientInv(a)'
  BY <1>2, <1>3, Zenon DEF ClientInv
<1>. QED BY <1>2, <1>3, <1>4, ClientMove, Zenon

LEMMA RequestRescoreStep == ASSUME JudgeWorkerInv, NEW a \in Clients, RequestRescore(a) PROVE Good
<1>. DEFINE b == Blank("rescore")
            g == [b EXCEPT !.r = Subject]
<1>0. UNCHANGED <<jf, sent, job, store, judge>> /\ fr' = [fr EXCEPT ![a] = g] /\ Grows
  BY QuietGrows, Zenon DEF RequestRescore, Step, judge
<1>1. fr'[a] = g
  BY <1>0, Zenon DEF JudgeWorkerInv, Frames, Actors
<1>2. /\ DOMAIN g = DOMAIN Blank("idle") /\ g.pc = "rescore" /\ g.exc = "die" /\ g.to = "none"
      /\ g.flag = FALSE /\ g.synth = {} /\ g.r = Subject
  BY Zenon DEF Blank
<1>. HIDE DEF g
<1>3. ClientInv(a)'
  BY <1>1, <1>2, Zenon DEF ClientInv
<1>. QED BY <1>0, <1>2, <1>3, ClientMove, Zenon

LEMMA RescoreSteps == ASSUME JudgeWorkerInv, NEW a \in Clients, RescoreStep(a) PROVE Good
<1>. DEFINE f == fr[a]
<1>0. /\ ClientInv(a) /\ DOMAIN f = DOMAIN Blank("idle") /\ a \notin Workers /\ a \in Actors
      /\ UNCHANGED <<jf, sent, job>> /\ run[Subject].revision \in Nat /\ Run(a) = run[f.r]
      /\ DOMAIN fr = Actors
  BY Has, LenType, ActorsAssumption, Zenon DEF JudgeWorkerInv, Frames, Actors, RescoreStep, Run
<1>1. ASSUME UNCHANGED store, Raise(a) PROVE Good
  <2>1. fr' = [fr EXCEPT ![a] = Blank("idle")]
    BY <1>0, <1>1, Zenon DEF Raise, Die, ClientInv
  <2>. QED BY <1>0, <1>1, <2>1, QuietGrows, GivesUp, Zenon DEF judge
<1>2. ASSUME NEW g, UNCHANGED store, fr' = [fr EXCEPT ![a] = g], DOMAIN g = DOMAIN f, ClientInv(a)'
      PROVE  Good
  BY <1>0, <1>2, QuietGrows, ClientMove, Zenon DEF judge
<1>3. CASE Rescore(a)
  <2>1. CASE Step(a, [f EXCEPT !.pc = "rescoreRows"])
    <3>. DEFINE g == [f EXCEPT !.pc = "rescoreRows"]
    <3>1. fr' = [fr EXCEPT ![a] = g] /\ UNCHANGED store /\ f.pc = "rescore" /\ fr'[a] = g /\ DOMAIN g = DOMAIN f
      BY <1>0, <1>3, <2>1, Zenon DEF Rescore, Step
    <3>2. /\ g.pc = "rescoreRows" /\ g.exc = f.exc /\ g.to = f.to /\ g.flag = f.flag
          /\ g.synth = f.synth /\ g.r = f.r
      BY <1>0, BlankFields, Zenon
    <3>. HIDE DEF g
    <3>3. ClientInv(a)'
      BY <1>0, <3>1, <3>2, Zenon DEF ClientInv
    <3>. QED BY <1>2, <3>1, <3>3, Zenon
  <2>. QED BY <1>1, <1>3, <2>1, Zenon DEF Rescore
<1>4. CASE RescoreRows(a)
  <2>. DEFINE g == [f EXCEPT !.pc = "append", !.done = Persisted(f.r), !.src = "rescore"]
  <2>1. fr' = [fr EXCEPT ![a] = g] /\ UNCHANGED store /\ f.pc = "rescoreRows" /\ fr'[a] = g /\ DOMAIN g = DOMAIN f
    BY <1>0, <1>4, Zenon DEF RescoreRows, Step
  <2>2. /\ g.pc = "append" /\ g.exc = f.exc /\ g.to = f.to /\ g.flag = f.flag
        /\ g.synth = f.synth /\ g.r = f.r /\ g.src = "rescore" /\ g.done = Persisted(f.r)
    BY <1>0, BlankFields, Zenon
  <2>. HIDE DEF g
  <2>3. ClientInv(a)'
    BY <1>0, <2>1, <2>2, Zenon DEF ClientInv, Persisted
  <2>. QED BY <1>2, <2>1, <2>3, Zenon
<1>5. CASE AppendLoad(a)
  <2>. DEFINE g == [f EXCEPT !.pc = "appendPrevious", !.snap = run[f.r]]
  <2>1. fr' = [fr EXCEPT ![a] = g] /\ UNCHANGED store /\ f.pc = "append" /\ fr'[a] = g /\ DOMAIN g = DOMAIN f
    BY <1>0, <1>5, Zenon DEF AppendLoad, Step, Run
  <2>2. /\ g.pc = "appendPrevious" /\ g.exc = f.exc /\ g.to = f.to /\ g.flag = f.flag
        /\ g.synth = f.synth /\ g.r = f.r /\ g.src = f.src /\ g.done = f.done /\ g.snap = run[f.r]
    BY <1>0, BlankFields, Zenon
  <2>. HIDE DEF g
  <2>3. ClientInv(a)'
    <3>1. /\ f.exc = "die" /\ f.to = "none" /\ f.flag = FALSE /\ f.synth = {} /\ f.r = Subject
          /\ f.src = "rescore" /\ f.done \subseteq Cases
      BY <1>0, <2>1, Zenon DEF ClientInv
    <3>2. run'[Subject] = run[Subject] /\ g.snap = run[Subject] /\ fr'[a] = g
      BY <2>1, <2>2, <3>1, Zenon DEF store
    <3>3. g.snap.revision \in Nat /\ g.snap.revision <= run'[Subject].revision
      <4>1. run[Subject].revision \in Nat
        BY Has, LenType, Zenon
      <4>2. g.snap.revision = run[Subject].revision /\ run'[Subject].revision = run[Subject].revision
        BY <3>2, Zenon
      <4>. QED BY <4>1, <4>2
    <3>4. /\ g.pc = "appendPrevious" /\ g.exc = "die" /\ g.to = "none" /\ g.flag = FALSE /\ g.synth = {}
          /\ g.r = Subject /\ g.src = "rescore" /\ g.done \subseteq Cases
      BY <2>2, <3>1, Zenon
    <3>. QED BY <3>2, <3>3, <3>4, Zenon DEF ClientInv
  <2>. QED BY <1>2, <2>1, <2>3, Zenon
<1>6. CASE AppendPrevious(a)
  <2>. DEFINE g == [f EXCEPT !.pc = "appendCommit", !.prev = run[f.r].current]
  <2>1. fr' = [fr EXCEPT ![a] = g] /\ UNCHANGED store /\ f.pc = "appendPrevious" /\ fr'[a] = g /\ DOMAIN g = DOMAIN f
    BY <1>0, <1>6, Zenon DEF AppendPrevious, Step, Run
  <2>2. /\ g.pc = "appendCommit" /\ g.exc = f.exc /\ g.to = f.to /\ g.flag = f.flag
        /\ g.synth = f.synth /\ g.r = f.r /\ g.src = f.src /\ g.done = f.done /\ g.snap = f.snap
        /\ g.prev = run[f.r].current
    BY <1>0, BlankFields, Zenon
  <2>. HIDE DEF g
  <2>3. ClientInv(a)'
    <3>1. /\ f.exc = "die" /\ f.to = "none" /\ f.flag = FALSE /\ f.synth = {} /\ f.r = Subject
          /\ f.src = "rescore" /\ f.done \subseteq Cases
          /\ f.snap.revision \in Nat /\ f.snap.revision <= run[Subject].revision
      BY <1>0, <2>1, Zenon DEF ClientInv
    <3>2. run' = run /\ fr'[a] = g
      BY <2>1, Zenon DEF store
    <3>. QED BY <2>2, <3>1, <3>2, Zenon DEF ClientInv
  <2>. QED BY <1>2, <2>1, <2>3, Zenon
<1>7. CASE AppendRaises(a)
  BY <1>1, <1>7, Zenon DEF AppendRaises
<1>8. CASE AppendCommit(a)
  <2>. DEFINE s == f.snap
              pass == [source |-> f.src, scored |-> f.done, previous |-> f.prev]
  <2>0. f.pc = "appendCommit" /\ f.r = Subject /\ f.to = "none" /\ f.src = "rescore"
        /\ f.done \subseteq Cases /\ f.synth = {} /\ f.flag = FALSE
    BY <1>0, <1>8, Zenon DEF AppendCommit, ClientInv
  <2>1. CASE can_append(f.r, s.revision, s.status, f.src, f.synth)
    <3>1. append(Subject, s.revision, s.status, pass, {}, s.status, f.flag) /\ Leave(a)
      BY <1>8, <2>0, <2>1, Zenon DEF AppendCommit
    <3>2. Matches(Subject, s.revision, s.status)
      BY <2>0, <2>1, Zenon DEF can_append
    <3>3. /\ s.revision = run[Subject].revision /\ s.status = run[Subject].status
          /\ run[Subject].status \in RunStatus \ {"absent"} /\ f.prev = run[Subject].current
      <4>1. run[Subject].status \in RunStatus
        BY Has, LenType, Zenon DEF RunRecord
      <4>. QED BY <1>0, <2>0, <3>2, <4>1, Zenon DEF Matches, Created, ClientInv
    <3>4. PassStep(Subject)
      <4>1. f.flag \in BOOLEAN /\ "rescore" \in PassSource \ {"judge"} /\ {} \in SUBSET Cases
            /\ f.done \in SUBSET Cases
        BY <2>0, Zenon DEF PassSource
      <4>2. append(Subject, run[Subject].revision, run[Subject].status,
                   [source |-> "rescore", scored |-> f.done, previous |-> run[Subject].current],
                   {}, run[Subject].status, f.flag)
        BY <2>0, <3>1, <3>3, Zenon
      <4>. QED BY <3>3, <4>1, <4>2, Zenon DEF PassStep
    <3>5. JudgeNext
      BY <1>0, <3>4, SubjectIsRun, Zenon DEF JudgeNext, OtherStep, StoreNext
    <3>6. Grows
      BY <3>1, <3>5, AppendGrows, Zenon
    <3>7. fr' = [fr EXCEPT ![a] = Blank("idle")]
      BY <1>0, <3>1, Zenon DEF Leave
    <3>. QED BY <1>0, <3>5, <3>6, <3>7, GivesUp, Zenon
  <2>2. CASE ~can_append(f.r, s.revision, s.status, f.src, f.synth)
    BY <1>1, <1>8, <2>0, <2>2, Zenon DEF AppendCommit
  <2>. QED BY <2>1, <2>2, Zenon
<1>. QED BY <1>3, <1>4, <1>5, <1>6, <1>7, <1>8, Zenon DEF RescoreStep

-----------------------------------------------------------------------------
LEMMA InitHolds == Init => JudgeWorkerInv /\ JudgeInit
<1>. SUFFICES ASSUME Init PROVE JudgeWorkerInv /\ JudgeInit
  OBVIOUS
<1>0. Saved \in RunRecord /\ [source |-> "initial", scored |-> Cases, previous |-> 0] \in Pass
  BY Zenon DEF Saved, RunRecord, RunStatus, TERMINAL, Pass, PassSource
<1>1. TypeOK
  BY <1>0 DEF Init, TypeOK, AttemptStatus, RowKind
<1>2. JudgeInit
  <2>1. passes[Subject] = <<[source |-> "initial", scored |-> Cases, previous |-> 0]>>
    BY SubjectIsRun, Zenon DEF Init
  <2>2. \A k \in DOMAIN passes[Subject] : passes[Subject][k].source # "judge"
    BY <2>1
  <2>. QED BY <1>1, <2>2, Zenon DEF Init, JudgeInit
<1>3. JudgeInv /\ run[Subject].current <= Len(passes[Subject])
  BY <1>2, JudgeInitInv, SubjectIsRun DEF Init, Saved
<1>4. ASSUME NEW j \in Jobs PROVE LedgerInv(j) /\ job[j] = NoJob /\ \A p \in Plans : job[j].calls[p] = "none"
  BY Zenon DEF Init, NoJob, LedgerInv, Shape
<1>5. SentInv
  <2>1. sent \in [Jobs -> [Plans -> {0, 1}]] /\ \A j \in Jobs, p \in Plans : sent[j][p] = 0
    BY Zenon DEF Init
  <2>. QED BY <1>4, <2>1 DEF SentInv
<1>6. \A w \in Workers : WorkerInv(w) /\ jf[w].pc = "down"
  <2>1. Ledgers
    BY <1>3, <1>4, <1>5, Zenon DEF Ledgers, JudgeInv, Types
  <2>2. FrameInv(Idle("down")) /\ Idle("down").pc = "down"
    BY <2>1, IdleFrames, Zenon DEF Idle
  <2>. QED BY <2>2, Zenon DEF Init, WorkerInv
<1>7. SenderInv /\ Frames
  BY <1>6, Zenon DEF SenderInv, Frames, Init, Actors
<1>8. \A a \in Clients : ClientInv(a)
  <2>1. ASSUME NEW a \in Clients
        PROVE  fr[a].pc = "idle" /\ fr[a].exc = "die" /\ fr[a].to = "none" /\ fr[a].flag = FALSE /\ fr[a].synth = {}
    BY Zenon DEF Init, Actors, Blank
  <2>. QED BY <2>1, Zenon DEF ClientInv
<1>. QED BY <1>2, <1>3, <1>4, <1>5, <1>6, <1>7, <1>8, Zenon DEF JudgeWorkerInv, StoreInvs

LEMMA NextHolds == ASSUME JudgeWorkerInv, [Next]_vars PROVE Good
<1>1. CASE UNCHANGED vars
  BY <1>1, QuietGrows, Elsewhere, Zenon DEF vars, judge
<1>2. ASSUME NEW w \in Workers, WorkerStep(w) PROVE Good
  BY <1>2, StartStep, ClaimNextStep, ClaimStep, RoleFailureStep, RolesHoldStep, LoadStep, BeginCallStep,
     SendStep, AnswerStep, SettleStep, CallFailedStep, FinalizeCancellationStep, FinalizeStep, PublishStep,
     Zenon DEF WorkerStep
<1>3. ASSUME NEW w \in Workers, Crash(w) PROVE Good
  BY <1>3, StartStep, Zenon
<1>4. CASE Submit \/ CancelJob \/ \E w \in Workers : LoseLock(w)
  BY <1>4, RequestStep, Zenon
<1>5. ASSUME NEW a \in Clients, RequestRescore(a) \/ RescoreStep(a) PROVE Good
  BY <1>5, RequestRescoreStep, RescoreSteps, Zenon
<1>. QED BY <1>1, <1>2, <1>3, <1>4, <1>5, Zenon DEF Next

(* The inductive invariant holds in every state. *)
THEOREM JudgeWorkerIsInvariant == Spec => []JudgeWorkerInv
<1>1. JudgeWorkerInv /\ [Next]_vars => JudgeWorkerInv'
  BY NextHolds, Zenon DEF Good
<1>. QED BY <1>1, InitHolds, PTL DEF Spec

(* run_claimed, recovery, cancellation and rescoring use the store of judge  *)
(* jobs as it is meant to be used: every step is one of its transactions or  *)
(* changes nothing durable.                                                  *)
THEOREM JudgeWorkerImplementsStore == Spec => JudgeStoreSpec
<1>1. JudgeWorkerInv /\ [Next]_vars => [JudgeNext]_judge
  BY NextHolds, Zenon DEF Good
<1>. QED BY <1>1, InitHolds, JudgeWorkerIsInvariant, PTL DEF Spec, JudgeStoreSpec

(* begin_call commits a call before _call sends it, and nobody begins a call *)
(* that is in the ledger: no judge call is sent twice.                       *)
THEOREM CallsSentOnce == Spec => []NoResentCall
<1>1. JudgeWorkerInv => NoResentCall
  BY DEF JudgeWorkerInv, SentInv, NoResentCall
<1>. QED BY <1>1, JudgeWorkerIsInvariant, PTL

(* publish completes a job only when every call of its plan was sent and     *)
(* succeeded.                                                                *)
THEOREM PublishedIsJudged == Spec => []CompletedIsJudged
<1>1. JudgeWorkerInv => CompletedIsJudged
  BY DEF JudgeWorkerInv, LedgerInv, Shape, SentInv, CompletedIsJudged
<1>. QED BY <1>1, JudgeWorkerIsInvariant, PTL

(* cancel, fail and recover close no job over an open call, and at most one  *)
(* call of a job is open.                                                    *)
THEOREM OpenCallsAreDispatching == Spec => []OpenCallIsDispatching
<1>1. ASSUME JudgeWorkerInv, NEW j \in Jobs
      PROVE  /\ InFlight(j) => job[j].status = "dispatching"
             /\ \A p, q \in Plans :
                  job[j].calls[p] = "dispatching" /\ job[j].calls[q] = "dispatching" => p = q
  <2>1. job[j].status \in JobStatus /\ Shape(job[j].status, job[j].calls)
    BY <1>1, Has, Fields, Zenon DEF LedgerInv
  <2>2. InFlight(j) => job[j].status = "dispatching"
    BY <2>1, Zenon DEF Shape, InFlight, JobStatus, TERMINAL_JOB_STATES
  <2>3. ASSUME NEW p \in Plans, NEW q \in Plans,
               job[j].calls[p] = "dispatching", job[j].calls[q] = "dispatching"
        PROVE  p = q
    <3>1. job[j].status = "dispatching"
      BY <2>2, <2>3, Zenon DEF InFlight
    <3>2. PICK k \in Plans : \A i \in Plans : /\ i < k => job[j].calls[i] = "succeeded"
                                              /\ i > k => job[j].calls[i] = "none"
      BY <2>1, <3>1, Zenon DEF Shape
    <3>3. p = k /\ q = k
      BY <2>3, <3>2, JobsArePositive
    <3>. QED BY <3>3, Zenon
  <2>. QED BY <2>2, <2>3, Zenon
<1>2. JudgeWorkerInv => OpenCallIsDispatching
  BY <1>1, Zenon DEF OpenCallIsDispatching
<1>. QED BY <1>2, JudgeWorkerIsInvariant, PTL

(* The receipts of the jobs and the judge passes of the subject Run match    *)
(* one to one, whichever Workers resume a publication.                       *)
THEOREM WorkersPublishOnce == Spec => []PublishedOnce
BY JudgeWorkerImplementsStore, JobsPublishOnce, PTL

(* A late answer, cancellation or resumed publication by any Worker leaves a *)
(* completed, cancelled or indeterminate job as it is.                       *)
THEOREM WorkersKeepOutcomes == Spec => JobIsFinal
BY JudgeWorkerImplementsStore, OutcomesStay, PTL
=============================================================================
