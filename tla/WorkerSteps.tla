----------------------------- MODULE WorkerSteps ----------------------------
(***************************************************************************)
(* First the store invariants of RunStore, for any number of Runs and      *)
(* Cases and any number of Attempts, passes and revisions.                 *)
(*                                                                         *)
(* Then what a step of RunService does when Workers and API clients        *)
(* interleave, crash and lose the executor lock (Worker), for any number   *)
(* of them: one lemma per step says that the activation record it leaves   *)
(* is one the code can go on with (Frame), and that what it writes is a    *)
(* transaction of RunStore that un-settles no Run and takes back no call   *)
(* (Writes).  WorkerProofs adds the steps of an execution and of recovery, *)
(* and draws the theorems from them.                                       *)
(***************************************************************************)
EXTENDS Worker, WellFoundedInduction, TLAPS

(* A Run that was not created yet has no pass and no revision. *)
AbsentIsBlank == \A r \in Runs : ~Created(r) => run[r].current = 0 /\ run[r].revision = 0

(* The inductive invariant.  begin needs SucceededHasRow: only with it does  *)
(* "no row and no open Attempt" mean that every Attempt of the Case failed.  *)
(* create needs AbsentIsBlank: it writes a whole new record.                 *)
StoreInv ==
  /\ TypeOK
  /\ OnlyLastAttemptCounts
  /\ SucceededHasRow
  /\ PassChain
  /\ AbsentIsBlank

(* What Advance does to the Attempts. *)
LEMMA AdvanceFacts ==
  ASSUME TypeOK, NEW r \in Runs, NEW c \in Cases, NEW n \in DOMAIN attempts[r][c],
         NEW to \in AttemptStatus, Advance(r, c, n, to)
  PROVE  /\ attempts' \in [Runs -> [Cases -> Seq(AttemptStatus)]]
         /\ \A q \in Runs, d \in Cases : Len(attempts'[q][d]) = Len(attempts[q][d])
         /\ \A q \in Runs, d \in Cases : DOMAIN attempts'[q][d] = DOMAIN attempts[q][d]
         /\ \A q \in Runs, d \in Cases : \A m \in DOMAIN attempts[q][d] :
              attempts'[q][d][m] = IF q = r /\ d = c /\ m = n THEN to ELSE attempts[q][d][m]
<1> DEFINE old == attempts[r][c]
           new == [old EXCEPT ![n] = to]
<1>1. old \in Seq(AttemptStatus)
  BY Zenon DEF TypeOK
<1>2. new \in Seq(AttemptStatus) /\ Len(new) = Len(old) /\ DOMAIN new = DOMAIN old
  BY <1>1
<1>3. attempts' = [attempts EXCEPT ![r][c] = new]
  BY Zenon DEF Advance
<1>4. \A q \in Runs, d \in Cases :
        attempts'[q][d] = IF q = r /\ d = c THEN new ELSE attempts[q][d]
  BY <1>3, Zenon DEF TypeOK
<1>5. attempts' \in [Runs -> [Cases -> Seq(AttemptStatus)]]
  BY <1>2, <1>3, Zenon DEF TypeOK
<1>6. \A m \in DOMAIN old : new[m] = IF m = n THEN to ELSE old[m]
  BY <1>1, Zenon
<1> HIDE DEF new
<1> QED
  BY <1>2, <1>4, <1>5, <1>6, Zenon

(* The empty store satisfies the invariant. *)
LEMMA InitInv == StoreInit => StoreInv
BY DEF StoreInit, StoreInv, TypeOK, OnlyLastAttemptCounts, SucceededHasRow, PassChain,
       AbsentIsBlank, RunRecord, RunStatus, RowKind

(* What quarantine_indeterminate does to the Attempts. *)
LEMMA QuarantineFacts ==
  ASSUME TypeOK, NEW r \in Runs, NEW revision, NEW status,
         quarantine_indeterminate(r, revision, status)
  PROVE  /\ attempts' \in [Runs -> [Cases -> Seq(AttemptStatus)]]
         /\ \A p \in Runs, c \in Cases : /\ Len(attempts'[p][c]) = Len(attempts[p][c])
                                         /\ DOMAIN attempts'[p][c] = DOMAIN attempts[p][c]
         /\ \A p \in Runs, c \in Cases : \A n \in DOMAIN attempts[p][c] :
              \/ attempts'[p][c][n] = attempts[p][c][n]
              \/ attempts'[p][c][n] = "indeterminate" /\ attempts[p][c][n] = "dispatching"
<1> DEFINE q(c) == [n \in DOMAIN attempts[r][c] |->
                      IF attempts[r][c][n] = "dispatching"
                        THEN "indeterminate" ELSE attempts[r][c][n]]
<1>1. \A c \in Cases : /\ q(c) \in Seq(AttemptStatus)
                       /\ Len(q(c)) = Len(attempts[r][c])
                       /\ DOMAIN q(c) = DOMAIN attempts[r][c]
  <2> TAKE c \in Cases
  <2>1. /\ attempts[r][c] \in Seq(AttemptStatus)
        /\ Len(attempts[r][c]) \in Nat
        /\ DOMAIN attempts[r][c] = 1..Len(attempts[r][c])
    BY DEF TypeOK
  <2>2. \A n \in 1..Len(attempts[r][c]) :
          (IF attempts[r][c][n] = "dispatching" THEN "indeterminate" ELSE attempts[r][c][n])
            \in AttemptStatus
    BY <2>1 DEF AttemptStatus
  <2>3. q(c) \in [1..Len(attempts[r][c]) -> AttemptStatus]
    BY <2>1, <2>2, Zenon
  <2> HIDE DEF q
  <2> QED
    BY <2>1, <2>3
<1>2. attempts' = [attempts EXCEPT ![r] = [c \in Cases |-> q(c)]]
  BY Zenon DEF quarantine_indeterminate
<1>3. \A p \in Runs, c \in Cases :
        attempts'[p][c] = IF p = r THEN q(c) ELSE attempts[p][c]
  BY <1>2, Zenon DEF TypeOK
<1>4. attempts' \in [Runs -> [Cases -> Seq(AttemptStatus)]]
  BY <1>1, <1>2, Zenon DEF TypeOK
<1>5. \A p \in Runs, c \in Cases : /\ Len(attempts'[p][c]) = Len(attempts[p][c])
                                   /\ DOMAIN attempts'[p][c] = DOMAIN attempts[p][c]
  BY <1>1, <1>3, Zenon
<1>6. \A p \in Runs, c \in Cases : \A n \in DOMAIN attempts[p][c] :
        \/ attempts'[p][c][n] = attempts[p][c][n]
        \/ attempts'[p][c][n] = "indeterminate" /\ attempts[p][c][n] = "dispatching"
  <2> TAKE p \in Runs, c \in Cases
  <2> TAKE n \in DOMAIN attempts[p][c]
  <2>1. CASE p = r
    <3>1. attempts'[p][c] = q(c) /\ attempts[p][c] = attempts[r][c]
      BY <1>3, <2>1, Zenon
    <3> QED
      BY <3>1, Zenon
  <2>2. CASE p # r
    BY <1>3, <2>2, Zenon
  <2> QED
    BY <2>1, <2>2, Zenon
<1> QED
  BY <1>4, <1>5, <1>6, Zenon

(* The invariant is inductive. *)
LEMMA StepInv == StoreInv /\ [StoreNext]_store => StoreInv'
<1> SUFFICES ASSUME StoreInv, [StoreNext]_store
             PROVE  StoreInv'
  OBVIOUS

(* What NextRun does to the Runs. *)
<1>NextRunFacts.
  ASSUME TypeOK, NEW r \in Runs, NEW status \in RunStatus, NEW cancellation \in BOOLEAN,
         NEW current \in Nat, NextRun(r, status, cancellation, current)
  PROVE  /\ run' \in [Runs -> RunRecord]
         /\ \A q \in Runs : run'[q].current = IF q = r THEN current ELSE run[q].current
         /\ \A q \in Runs : q # r => run'[q] = run[q]
         /\ run'[r].revision = run[r].revision + 1
  BY <1>NextRunFacts DEF TypeOK, NextRun, RunRecord

(* A step that only rewrites Runs and keeps their current pass. *)
<1>RunsOnlyInv.
  ASSUME StoreInv, UNCHANGED <<attempts, rows, passes>>, run' \in [Runs -> RunRecord],
         \A q \in Runs : run'[q].current = run[q].current,
         \A q \in Runs : Created(q)' \/ (~Created(q) /\ run'[q] = run[q])
  PROVE  StoreInv'
  <2>. USE <1>RunsOnlyInv
  <2>1. TypeOK'
    BY DEF StoreInv, TypeOK
  <2>2. OnlyLastAttemptCounts' /\ SucceededHasRow'
    BY DEF StoreInv, OnlyLastAttemptCounts, SucceededHasRow
  <2>3. PassChain'
    BY DEF StoreInv, PassChain
  <2>4. AbsentIsBlank'
    BY DEF StoreInv, AbsentIsBlank
  <2>. QED BY <2>1, <2>2, <2>3, <2>4, Zenon DEF StoreInv

(* create adds a Run that has no pass yet. *)
<1>CreateInv.
  ASSUME StoreInv, NEW r \in Runs, create(r)
  PROVE  StoreInv'
  <2>. USE <1>CreateInv
  <2>1. run' \in [Runs -> RunRecord]
    BY Zenon DEF StoreInv, TypeOK, create, RunRecord, RunStatus
  <2>2. /\ \A q \in Runs : run'[q].current = run[q].current
        /\ \A q \in Runs : Created(q)' \/ (~Created(q) /\ run'[q] = run[q])
    BY Zenon DEF StoreInv, TypeOK, create, AbsentIsBlank, Created
  <2> QED
    BY <2>1, <2>2, <1>RunsOnlyInv, Zenon DEF create

(* A compare-and-set of status and cancellation only. *)
<1>NextRunInv.
  ASSUME StoreInv, NEW r \in Runs, NEW status \in RunStatus \ {"absent"},
         NEW cancellation \in BOOLEAN, NextRun(r, status, cancellation, run[r].current),
         UNCHANGED <<attempts, rows, passes>>
  PROVE  StoreInv'
  <2>. USE <1>NextRunInv
  <2>1. run[r].current \in Nat
    BY Zenon DEF StoreInv, TypeOK, RunRecord
  <2>2. /\ run' \in [Runs -> RunRecord]
        /\ \A q \in Runs : run'[q].current = run[q].current
    BY <2>1, <1>NextRunFacts DEF StoreInv
  <2>3. \A q \in Runs : Created(q)' \/ (~Created(q) /\ run'[q] = run[q])
    BY Zenon DEF StoreInv, TypeOK, NextRun, Created
  <2> QED
    BY <2>2, <2>3, <1>RunsOnlyInv, Zenon

(* The merged cancellation flag is Boolean. *)
<1>CancellationType.
  ASSUME TypeOK, NEW r \in Runs, NEW b \in BOOLEAN
  PROVE  run[r].cancellation \in BOOLEAN /\ (run[r].cancellation \/ b) \in BOOLEAN
  BY <1>CancellationType, Zenon DEF TypeOK, RunRecord

(* Attempts that keep their number and, where they failed, their status. *)
<1>SameLengthInv.
  ASSUME TypeOK, OnlyLastAttemptCounts,
         attempts' \in [Runs -> [Cases -> Seq(AttemptStatus)]],
         \A q \in Runs, d \in Cases : Len(attempts'[q][d]) = Len(attempts[q][d]),
         \A q \in Runs, d \in Cases : \A m \in DOMAIN attempts[q][d] :
            attempts[q][d][m] = "failed" => attempts'[q][d][m] = "failed"
  PROVE  OnlyLastAttemptCounts'
  <2>. USE <1>SameLengthInv
  <2> SUFFICES ASSUME NEW q \in Runs, NEW d \in Cases,
                      NEW m \in 1..(Len(attempts'[q][d]) - 1)
               PROVE  attempts'[q][d][m] = "failed"
    BY Zenon DEF OnlyLastAttemptCounts
  <2>1. /\ attempts[q][d] \in Seq(AttemptStatus)
        /\ Len(attempts[q][d]) \in Nat
        /\ DOMAIN attempts[q][d] = 1..Len(attempts[q][d])
    BY DEF TypeOK
  <2>2. m \in 1..(Len(attempts[q][d]) - 1) /\ m \in DOMAIN attempts[q][d]
    BY <2>1
  <2> QED
    BY <2>2, Zenon DEF OnlyLastAttemptCounts

(* quarantine_indeterminate only moves open Attempts to indeterminate. *)
<1>QuarantineInv.
  ASSUME StoreInv, NEW r \in Runs, NEW revision, NEW status,
         quarantine_indeterminate(r, revision, status)
  PROVE  StoreInv'
  <2>. USE <1>QuarantineInv
  <2> USE DEF StoreInv
  <2>1. /\ attempts' \in [Runs -> [Cases -> Seq(AttemptStatus)]]
        /\ \A p \in Runs, c \in Cases : /\ Len(attempts'[p][c]) = Len(attempts[p][c])
                                        /\ DOMAIN attempts'[p][c] = DOMAIN attempts[p][c]
        /\ \A p \in Runs, c \in Cases : \A n \in DOMAIN attempts[p][c] :
             \/ attempts'[p][c][n] = attempts[p][c][n]
             \/ attempts'[p][c][n] = "indeterminate" /\ attempts[p][c][n] = "dispatching"
    BY QuarantineFacts, Zenon
  <2>2. OnlyLastAttemptCounts'
    BY <2>1, <1>SameLengthInv
  <2>3. SucceededHasRow'
    BY <2>1 DEF SucceededHasRow, quarantine_indeterminate
  <2>4. /\ run' \in [Runs -> RunRecord]
        /\ \A p \in Runs : run'[p].current = run[p].current
        /\ \A p \in Runs : Created(p)' \/ (~Created(p) /\ run'[p] = run[p])
    <3>1. CASE run' = run
      BY <3>1, Zenon DEF TypeOK, Created
    <3>2. CASE NextRun(r, "needs_review", run[r].cancellation, run[r].current)
      <4>1. /\ run[r].current \in Nat
            /\ run[r].cancellation \in BOOLEAN
            /\ "needs_review" \in RunStatus
        BY Zenon DEF TypeOK, RunRecord, RunStatus, TERMINAL
      <4>2. /\ run' \in [Runs -> RunRecord]
            /\ \A p \in Runs : run'[p].current = run[p].current
        BY <3>2, <4>1, <1>NextRunFacts
      <4> QED
        BY <3>2, <4>2, Zenon DEF NextRun, Created, TypeOK
    <3> QED
      BY <3>1, <3>2, Zenon DEF quarantine_indeterminate
  <2> QED
    BY <2>1, <2>2, <2>3, <2>4
       DEF quarantine_indeterminate, TypeOK, PassChain, AbsentIsBlank

(* Every write that touches one Run record keeps the invariant. *)
<1>RunStepInv.
  ASSUME StoreInv, NEW r \in Runs, RunStep(r)
  PROVE  StoreInv'
  <2>. USE <1>RunStepInv
  <2> USE DEF StoreInv
  <2>1. CASE create(r)
    BY <2>1, <1>CreateInv, Zenon
  <2>2. CASE claim(r)
    BY <2>2, <1>NextRunInv, <1>CancellationType, Zenon DEF claim, RunStatus, INTERRUPTED_STATES
  <2>3. CASE update(r, run[r].revision, run[r].status)
    BY <2>3, <1>NextRunInv, Zenon DEF update, Matches, Created, TypeOK, RunRecord
  <2>4. ASSUME NEW to \in RunStatus \ {"absent"}, NEW cancellation \in BOOLEAN,
               transition(r, run[r].revision, run[r].status, to, cancellation)
        PROVE  StoreInv'
    BY <2>4, <1>NextRunInv, <1>CancellationType, Zenon DEF transition
  <2>5. CASE quarantine_indeterminate(r, run[r].revision, run[r].status)
    BY <2>5, <1>QuarantineInv, Zenon
  <2> QED
    BY <2>1, <2>2, <2>3, <2>4, <2>5, Zenon DEF RunStep

(* begin appends an Attempt only after every earlier one has failed. *)
<1>BeginInv.
  ASSUME StoreInv, NEW r \in Runs, NEW c \in Cases, NEW n, NEW revision, NEW status,
         begin(r, c, n, revision, status)
  PROVE  StoreInv'
  <2>. USE <1>BeginInv
  <2> USE DEF StoreInv
  <2> DEFINE old == attempts[r][c]
             new == Append(old, "prepared")
  <2>1. /\ old \in Seq(AttemptStatus)
        /\ Len(old) \in Nat
        /\ DOMAIN old = 1..Len(old)
    BY DEF TypeOK
  <2>2. /\ new \in Seq(AttemptStatus)
        /\ Len(new) = Len(old) + 1
        /\ DOMAIN new = 1..(Len(old) + 1)
        /\ \A m \in 1..Len(old) : new[m] = old[m]
        /\ new[Len(old) + 1] = "prepared"
    BY <2>1 DEF AttemptStatus
  <2>3. attempts' = [attempts EXCEPT ![r][c] = new]
    BY Zenon DEF begin
  <2>4. \A m \in 1..Len(old) : old[m] = "failed"
    <3> TAKE m \in 1..Len(old)
    <3>1. old[m] \in AttemptStatus /\ old[m] \notin OpenStatus
      BY <2>1 DEF begin, can_begin, list_open, WithStatus
    <3>2. old[m] # "succeeded"
      BY <2>1, Zenon DEF begin, can_begin, SucceededHasRow
    <3> QED
      BY <3>1, <3>2, Zenon DEF AttemptStatus, OpenStatus
  <2>5. \A p \in Runs, d \in Cases :
          attempts'[p][d] = IF p = r /\ d = c THEN new ELSE attempts[p][d]
    BY <2>3, Zenon DEF TypeOK
  <2>6. attempts' \in [Runs -> [Cases -> Seq(AttemptStatus)]]
    BY <2>2, <2>3, Zenon DEF TypeOK
  <2> HIDE DEF new
  <2>7. OnlyLastAttemptCounts'
    <3> SUFFICES ASSUME NEW p \in Runs, NEW d \in Cases,
                        NEW m \in 1..(Len(attempts'[p][d]) - 1)
                 PROVE  attempts'[p][d][m] = "failed"
      BY Zenon DEF OnlyLastAttemptCounts
    <3>1. CASE p = r /\ d = c
      <4>1. attempts'[p][d] = new
        BY <2>5, <3>1, Zenon
      <4>. HIDE <1>BeginInv
      <4>. QED BY <2>1, <2>2, <2>4, <4>1
    <3>2. CASE ~(p = r /\ d = c)
      <4>1. attempts'[p][d] = attempts[p][d]
        BY <2>5, <3>2, Zenon
      <4>. QED BY <4>1, Zenon DEF OnlyLastAttemptCounts
    <3> QED
      BY <3>1, <3>2, Zenon
  <2>8. SucceededHasRow'
    <3> SUFFICES ASSUME NEW p \in Runs, NEW d \in Cases, NEW m \in DOMAIN attempts'[p][d],
                        attempts'[p][d][m] = "succeeded"
                 PROVE  rows'[p][d] # "none"
      BY Zenon DEF SucceededHasRow
    <3>1. CASE p = r /\ d = c
      <4>1. attempts'[p][d] = new
        BY <2>5, <3>1, Zenon
      <4>2. m \in 1..Len(old) \/ m = Len(old) + 1
        BY <2>1, <2>2, <4>1
      <4>3. new[m] = "failed" \/ new[m] = "prepared"
        BY <2>2, <2>4, <4>2, Zenon
      <4> QED
        BY <4>1, <4>3, Zenon
    <3>2. CASE ~(p = r /\ d = c)
      <4>1. attempts'[p][d] = attempts[p][d] /\ rows' = rows
        BY <2>5, <3>2, Zenon DEF begin
      <4> QED
        BY <4>1, Zenon DEF SucceededHasRow
    <3> QED
      BY <3>1, <3>2, Zenon
  <2> QED
    BY <2>6, <2>7, <2>8, Zenon DEF begin, TypeOK, PassChain, AbsentIsBlank, Created

(* An Attempt that moves on, with the row of its Case, if it succeeds. *)
<1>AdvanceInv.
  ASSUME StoreInv, NEW r \in Runs, NEW c \in Cases, NEW n \in DOMAIN attempts[r][c],
         NEW to \in AttemptStatus, Advance(r, c, n, to), attempts[r][c][n] # "failed",
         rows' \in [Runs -> [Cases -> RowKind]],
         \A p \in Runs, d \in Cases : rows[p][d] # "none" => rows'[p][d] # "none",
         to = "succeeded" => rows'[r][c] # "none",
         UNCHANGED <<run, passes>>
  PROVE  StoreInv'
  <2>. USE <1>AdvanceInv
  <2> USE DEF StoreInv
  <2>1. /\ attempts' \in [Runs -> [Cases -> Seq(AttemptStatus)]]
        /\ \A q \in Runs, d \in Cases : Len(attempts'[q][d]) = Len(attempts[q][d])
        /\ \A q \in Runs, d \in Cases : DOMAIN attempts'[q][d] = DOMAIN attempts[q][d]
        /\ \A q \in Runs, d \in Cases : \A m \in DOMAIN attempts[q][d] :
             attempts'[q][d][m] = IF q = r /\ d = c /\ m = n THEN to ELSE attempts[q][d][m]
    BY AdvanceFacts
  <2>2. OnlyLastAttemptCounts'
    BY <2>1, <1>SameLengthInv, Zenon
  <2>3. SucceededHasRow'
    <3> SUFFICES ASSUME NEW q \in Runs, NEW d \in Cases, NEW m \in DOMAIN attempts[q][d],
                        attempts'[q][d][m] = "succeeded"
                 PROVE  rows'[q][d] # "none"
      BY <2>1, Zenon DEF SucceededHasRow
    <3>1. CASE q = r /\ d = c /\ m = n
      BY <2>1, <3>1, Zenon
    <3>2. CASE ~(q = r /\ d = c /\ m = n)
      BY <2>1, <3>2 DEF SucceededHasRow
    <3> QED
      BY <3>1, <3>2, Zenon
  <2> QED
    BY <2>1, <2>2, <2>3, Zenon DEF TypeOK, PassChain, AbsentIsBlank, Created

(* complete writes the row in the transaction that settles the Attempt. *)
<1>CompleteInv.
  ASSUME StoreInv, NEW r \in Runs, NEW c \in Cases, NEW n \in DOMAIN attempts[r][c],
         NEW to \in {"succeeded", "failed"}, NEW kind \in RowKind \ {"none"},
         complete(r, c, n, to, kind)
  PROVE  StoreInv'
  <2>. USE <1>CompleteInv
  <2>1. rows' = [rows EXCEPT ![r][c] = kind] /\ rows \in [Runs -> [Cases -> RowKind]]
    BY Zenon DEF complete, StoreInv, TypeOK
  <2>2. /\ rows' \in [Runs -> [Cases -> RowKind]]
        /\ rows'[r][c] # "none"
        /\ \A p \in Runs, d \in Cases : rows[p][d] # "none" => rows'[p][d] # "none"
    BY <2>1, Zenon
  <2>3. /\ to \in AttemptStatus
        /\ Advance(r, c, n, to)
        /\ attempts[r][c][n] # "failed"
        /\ UNCHANGED <<run, passes>>
    BY Zenon DEF complete, can_complete, AttemptStatus
  <2> QED
    BY <2>2, <2>3, <1>AdvanceInv, Zenon

(* Every write to the Attempts and the row of one Case keeps the invariant. *)
<1>CaseStepInv.
  ASSUME StoreInv, NEW r \in Runs, NEW c \in Cases, CaseStep(r, c)
  PROVE  StoreInv'
  <2>. USE <1>CaseStepInv
  <2>1. ASSUME Created(r), NEW kind \in RowKind \ {"none"}, upsert(r, c, kind)
        PROVE  StoreInv'
    <3>1. rows' = [rows EXCEPT ![r][c] = IF rows[r][c] = "none" THEN kind ELSE rows[r][c]]
      BY <2>1, Zenon DEF upsert
    <3>2. /\ rows' \in [Runs -> [Cases -> RowKind]]
          /\ \A p \in Runs, d \in Cases : rows[p][d] # "none" => rows'[p][d] # "none"
      BY <3>1, Zenon DEF StoreInv, TypeOK, RowKind
    <3> QED
      BY <2>1, <3>2 DEF upsert, StoreInv, TypeOK, OnlyLastAttemptCounts, SucceededHasRow,
                        PassChain, AbsentIsBlank, Created
  <2>2. CASE begin(r, c, Len(attempts[r][c]) + 1, run[r].revision, run[r].status)
    BY <2>2, <1>BeginInv, Zenon
  <2>3. ASSUME NEW n \in DOMAIN attempts[r][c],
               dispatch(r, c, n, run[r].revision, run[r].status)
        PROVE  StoreInv'
    BY <2>3, <1>AdvanceInv, Zenon DEF dispatch, can_dispatch, AttemptStatus, StoreInv, TypeOK
  <2>4. ASSUME NEW n \in DOMAIN attempts[r][c], NEW to \in AttemptStatus \ {"succeeded"},
               attempt_transition(r, c, n, attempts[r][c][n], to)
        PROVE  StoreInv'
    <3>1. /\ attempts[r][c] \in Seq(AttemptStatus)
          /\ rows \in [Runs -> [Cases -> RowKind]]
      BY Zenon DEF StoreInv, TypeOK
    <3>2. attempts[r][c][n] \in AttemptStatus /\ attempts[r][c][n] # "failed"
      BY <2>4, <3>1 DEF attempt_transition, ATTEMPT_TRANSITIONS, AttemptStatus
    <3> QED
      BY <2>4, <3>1, <3>2, <1>AdvanceInv, Zenon DEF attempt_transition
  <2>5. ASSUME NEW n \in DOMAIN attempts[r][c], NEW to \in {"succeeded", "failed"},
               NEW kind \in RowKind \ {"none"}, complete(r, c, n, to, kind)
        PROVE  StoreInv'
    BY <2>5, <1>CompleteInv, Zenon
  <2> QED
    BY <2>1, <2>2, <2>3, <2>4, <2>5, Zenon DEF CaseStep

(* append chains the new pass to the one the Run names as current. *)
<1>PassStepInv.
  ASSUME StoreInv, NEW r \in Runs, PassStep(r)
  PROVE  StoreInv'
  <2>. USE <1>PassStepInv
  <2> USE DEF StoreInv
  <2>1. PICK source \in PassSource \ {"judge"}, scored \in SUBSET Cases, synthetic \in SUBSET Cases,
             final \in RunStatus \ {"absent"}, cancellation \in BOOLEAN :
          append(r, run[r].revision, run[r].status,
                 [source |-> source, scored |-> scored, previous |-> run[r].current],
                 synthetic, final, cancellation)
    BY Zenon DEF PassStep
  <2> DEFINE pass == [source |-> source, scored |-> scored, previous |-> run[r].current]
             old == passes[r]
             new == Append(old, pass)
  <2>2. /\ old \in Seq(Pass)
        /\ Len(old) \in Nat
        /\ run[r].current = Len(old)
        /\ pass \in Pass
    <3>1. passes[r] \in Seq(Pass) /\ run[r].current \in Nat
      BY DEF TypeOK, RunRecord
    <3>2. run[r].current = Len(old)
      BY Zenon DEF PassChain
    <3>. QED BY <3>1, <3>2 DEF Pass
  <2>3. /\ new \in Seq(Pass)
        /\ Len(new) = Len(old) + 1
        /\ DOMAIN new = 1..(Len(old) + 1)
        /\ DOMAIN old = 1..Len(old)
        /\ \A k \in 1..Len(old) : new[k] = old[k]
        /\ new[Len(old) + 1] = pass
    BY <2>2
  <2>4. passes' = [passes EXCEPT ![r] = new]
    BY <2>1, Zenon DEF append
  <2>5. /\ rows' \in [Runs -> [Cases -> RowKind]]
        /\ \A p \in Runs, d \in Cases : rows[p][d] # "none" => rows'[p][d] # "none"
    BY <2>1, Zenon DEF append, TypeOK, RowKind
  <2>6. /\ run' \in [Runs -> RunRecord]
        /\ \A q \in Runs : run'[q].current = IF q = r THEN Len(old) + 1 ELSE run[q].current
        /\ \A q \in Runs : Created(q)' \/ (~Created(q) /\ run'[q] = run[q])
    <3>1. NextRun(r, final, run[r].cancellation \/ cancellation, Len(old) + 1)
      BY <2>1, Zenon DEF append
    <3>2. Len(old) + 1 \in Nat /\ (run[r].cancellation \/ cancellation) \in BOOLEAN
      BY <2>2, <1>CancellationType
    <3>3. /\ run' \in [Runs -> RunRecord]
          /\ \A q \in Runs : run'[q].current = IF q = r THEN Len(old) + 1 ELSE run[q].current
      BY <3>1, <3>2, <1>NextRunFacts, Zenon
    <3> QED
      BY <3>1, <3>3, Zenon DEF NextRun, Created, TypeOK
  <2>7. TypeOK'
    BY <2>1, <2>3, <2>4, <2>5, <2>6 DEF append, TypeOK
  <2>8. PassChain'
    <3> SUFFICES ASSUME NEW q \in Runs
                 PROVE  /\ run'[q].current = Len(passes'[q])
                        /\ \A k \in DOMAIN passes'[q] : passes'[q][k].previous = k - 1
      BY Zenon DEF PassChain
    <3>1. CASE q = r
      <4>1. passes'[q] = new
        BY <2>4, <3>1, Zenon DEF TypeOK
      <4>2. \A k \in 1..Len(old) : new[k].previous = k - 1
        BY <2>3, Zenon DEF PassChain
      <4>3. new[Len(old) + 1].previous = (Len(old) + 1) - 1
        BY <2>2, <2>3
      <4>4. \A k \in 1..(Len(old) + 1) : k \in 1..Len(old) \/ k = Len(old) + 1
        BY <2>2
      <4> HIDE DEF new, old
      <4> QED
        BY <2>3, <2>6, <3>1, <4>1, <4>2, <4>3, <4>4, Zenon
    <3>2. CASE q # r
      <4>1. passes'[q] = passes[q]
        BY <2>4, <3>2, Zenon DEF TypeOK
      <4> QED
        BY <2>6, <3>2, <4>1, Zenon DEF PassChain
    <3> QED
      BY <3>1, <3>2, Zenon
  <2>9. OnlyLastAttemptCounts' /\ SucceededHasRow'
    BY <2>1, <2>5 DEF append, OnlyLastAttemptCounts, SucceededHasRow
  <2>10. AbsentIsBlank'
    BY <2>1, <2>6, Zenon DEF append, Matches, AbsentIsBlank, NextRun, Created
  <2> QED
    BY <2>7, <2>8, <2>9, <2>10, Zenon

(* requeue_interrupted changes the status of Runs and nothing else. *)
<1>RequeueInv.
  ASSUME StoreInv, requeue_interrupted
  PROVE  StoreInv'
  <2>. USE <1>RequeueInv
  <2>1. /\ run' \in [Runs -> RunRecord]
        /\ \A q \in Runs : run'[q].current = run[q].current
        /\ \A q \in Runs : Created(q)' \/ (~Created(q) /\ run'[q] = run[q])
    BY DEF requeue_interrupted, StoreInv, TypeOK, RunRecord, RunStatus, Created
  <2> QED
    BY <2>1, <1>RunsOnlyInv, Zenon DEF requeue_interrupted
<1>1. CASE requeue_interrupted
  BY <1>1, <1>RequeueInv, Zenon
<1>2. ASSUME NEW r \in Runs, RunStep(r) PROVE StoreInv'
  BY <1>2, <1>RunStepInv, Zenon
<1>3. ASSUME NEW r \in Runs, PassStep(r) PROVE StoreInv'
  BY <1>3, <1>PassStepInv, Zenon
<1>4. ASSUME NEW r \in Runs, NEW c \in Cases, CaseStep(r, c) PROVE StoreInv'
  BY <1>4, <1>CaseStepInv, Zenon
<1>5. CASE UNCHANGED store
  BY <1>5 DEF store, StoreInv, TypeOK, OnlyLastAttemptCounts, SucceededHasRow, PassChain,
              AbsentIsBlank, Created
<1> QED
  BY <1>1, <1>2, <1>3, <1>4, <1>5, Zenon DEF StoreNext

-----------------------------------------------------------------------------
(* The store is always well typed: the four tables hold records of the       *)
(* shapes the code writes, whatever sequence of transactions committed.      *)
THEOREM TypeCorrect == StoreSpec => []TypeOK
<1>1. StoreInv => TypeOK
  BY Zenon DEF StoreInv
<1> QED
  BY <1>1, InitInv, StepInv, PTL DEF StoreSpec

(* At most one Attempt of a Case is ever live, uncertain or successful: the  *)
(* storage half of "a Case is not called twice", from begin and complete.    *)
THEOREM OnlyLastAttempt == StoreSpec => []OnlyLastAttemptCounts
<1>1. StoreInv => OnlyLastAttemptCounts
  BY Zenon DEF StoreInv
<1> QED
  BY <1>1, InitInv, StepInv, PTL DEF StoreSpec

(* A succeeded Attempt always has its result row: complete is atomic. *)
THEOREM SucceededRow == StoreSpec => []SucceededHasRow
<1>1. StoreInv => SucceededHasRow
  BY Zenon DEF StoreInv
<1> QED
  BY <1>1, InitInv, StepInv, PTL DEF StoreSpec

(* The ScoringPasses of a Run form one chain that ends in the current pass:  *)
(* append's compare-and-set with the pointer written in the same transaction. *)
THEOREM PassesChained == StoreSpec => []PassChain
<1>1. StoreInv => PassChain
  BY Zenon DEF StoreInv
<1> QED
  BY <1>1, InitInv, StepInv, PTL DEF StoreSpec

-----------------------------------------------------------------------------
(* The four parts of NothingRewritten, one per table. *)
RowsKept == \A r \in Runs, c \in Cases : rows[r][c] # "none" => rows'[r][c] = rows[r][c]
AttemptsKept ==
  \A r \in Runs, c \in Cases : \A n \in DOMAIN attempts[r][c] :
    /\ n \in DOMAIN attempts'[r][c]
    /\ \/ attempts'[r][c][n] = attempts[r][c][n]
       \/ attempts'[r][c][n] \in ATTEMPT_TRANSITIONS[attempts[r][c][n]]
PassesKept ==
  \A r \in Runs : \A k \in DOMAIN passes[r] :
    k \in DOMAIN passes'[r] /\ passes'[r][k] = passes[r][k]
RevisionCounts == \A r \in Runs : run'[r] # run[r] => run'[r].revision = run[r].revision + 1

(* The parts give the whole. *)
LEMMA KeptParts ==
  ASSUME RowsKept, AttemptsKept, PassesKept, RevisionCounts
  PROVE  NothingRewritten
BY Zenon DEF RowsKept, AttemptsKept, PassesKept, RevisionCounts, NothingRewritten

(* A table that does not change keeps its part. *)
LEMMA UnchangedKept ==
  /\ UNCHANGED rows => RowsKept
  /\ UNCHANGED attempts => AttemptsKept
  /\ UNCHANGED passes => PassesKept
  /\ UNCHANGED run => RevisionCounts
BY Zenon DEF RowsKept, AttemptsKept, PassesKept, RevisionCounts

(* NextRun advances the revision of the Run it rewrites. *)
LEMMA NextRunKept ==
  ASSUME TypeOK, NEW r \in Runs, NEW status, NEW cancellation, NEW current,
         NextRun(r, status, cancellation, current)
  PROVE  RevisionCounts
BY Zenon DEF TypeOK, NextRun, RevisionCounts

(* An Attempt that moves along ATTEMPT_TRANSITIONS is the only one to move. *)
LEMMA AdvanceKept ==
  ASSUME TypeOK, NEW r \in Runs, NEW c \in Cases, NEW n \in DOMAIN attempts[r][c],
         NEW to \in AttemptStatus, Advance(r, c, n, to),
         to \in ATTEMPT_TRANSITIONS[attempts[r][c][n]]
  PROVE  AttemptsKept
<1>1. /\ \A q \in Runs, d \in Cases : DOMAIN attempts'[q][d] = DOMAIN attempts[q][d]
      /\ \A q \in Runs, d \in Cases : \A m \in DOMAIN attempts[q][d] :
           attempts'[q][d][m] = IF q = r /\ d = c /\ m = n THEN to ELSE attempts[q][d][m]
  BY AdvanceFacts
<1> QED
  BY <1>1 DEF AttemptsKept

(* The writes to a Run record rewrite nothing. *)
LEMMA RunStepKept ==
  ASSUME StoreInv, NEW r \in Runs, RunStep(r)
  PROVE  NothingRewritten
<1> USE DEF StoreInv
<1>1. CASE create(r)
  <2>1. RevisionCounts
    BY <1>1 DEF create, TypeOK, AbsentIsBlank, Created, RevisionCounts
  <2> QED
    BY <1>1, <2>1, KeptParts, UnchangedKept, Zenon DEF create
<1>2. CASE claim(r)
  BY <1>2, KeptParts, UnchangedKept, NextRunKept, Zenon DEF claim
<1>3. CASE update(r, run[r].revision, run[r].status)
  BY <1>3, KeptParts, UnchangedKept, NextRunKept, Zenon DEF update
<1>4. ASSUME NEW to \in RunStatus \ {"absent"}, NEW cancellation \in BOOLEAN,
             transition(r, run[r].revision, run[r].status, to, cancellation)
      PROVE  NothingRewritten
  BY <1>4, KeptParts, UnchangedKept, NextRunKept, Zenon DEF transition
<1>5. CASE quarantine_indeterminate(r, run[r].revision, run[r].status)
  <2>1. /\ \A p \in Runs, c \in Cases : DOMAIN attempts'[p][c] = DOMAIN attempts[p][c]
        /\ \A p \in Runs, c \in Cases : \A n \in DOMAIN attempts[p][c] :
             \/ attempts'[p][c][n] = attempts[p][c][n]
             \/ attempts'[p][c][n] = "indeterminate" /\ attempts[p][c][n] = "dispatching"
    BY <1>5, QuarantineFacts
  <2>2. "indeterminate" \in ATTEMPT_TRANSITIONS["dispatching"]
    BY Zenon DEF ATTEMPT_TRANSITIONS, AttemptStatus
  <2>3. AttemptsKept
    BY <2>1, <2>2 DEF AttemptsKept
  <2>4. RevisionCounts
    BY <1>5, UnchangedKept, NextRunKept, Zenon DEF quarantine_indeterminate
  <2> QED
    BY <1>5, <2>3, <2>4, KeptParts, UnchangedKept, Zenon DEF quarantine_indeterminate
<1> QED
  BY <1>1, <1>2, <1>3, <1>4, <1>5, Zenon DEF RunStep

(* The writes to the Attempts and the row of a Case rewrite nothing. *)
LEMMA CaseStepKept ==
  ASSUME StoreInv, NEW r \in Runs, NEW c \in Cases, CaseStep(r, c)
  PROVE  NothingRewritten
<1> USE DEF StoreInv
<1>1. ASSUME Created(r), NEW kind \in RowKind \ {"none"}, upsert(r, c, kind)
      PROVE  NothingRewritten
  <2>1. RowsKept
    BY <1>1, Zenon DEF upsert, TypeOK, RowsKept
  <2> QED
    BY <1>1, <2>1, KeptParts, UnchangedKept, Zenon DEF upsert
<1>2. CASE begin(r, c, Len(attempts[r][c]) + 1, run[r].revision, run[r].status)
  <2> DEFINE old == attempts[r][c]
             new == Append(old, "prepared")
  <2>1. old \in Seq(AttemptStatus) /\ "prepared" \in AttemptStatus
    BY Zenon DEF TypeOK, AttemptStatus
  <2>2. \A n \in DOMAIN old : n \in DOMAIN new /\ new[n] = old[n]
    BY <2>1
  <2>3. attempts' = [attempts EXCEPT ![r][c] = new]
    BY <1>2, Zenon DEF begin
  <2> HIDE DEF new
  <2>4. \A q \in Runs, d \in Cases :
          attempts'[q][d] = IF q = r /\ d = c THEN new ELSE attempts[q][d]
    BY <2>3, Zenon DEF TypeOK
  <2>5. AttemptsKept
    BY <2>2, <2>4, Zenon DEF AttemptsKept
  <2> QED
    BY <1>2, <2>5, KeptParts, UnchangedKept, Zenon DEF begin
<1>3. ASSUME NEW n \in DOMAIN attempts[r][c],
             dispatch(r, c, n, run[r].revision, run[r].status)
      PROVE  NothingRewritten
  <2>1. /\ "dispatching" \in AttemptStatus
        /\ "dispatching" \in ATTEMPT_TRANSITIONS[attempts[r][c][n]]
    BY <1>3, Zenon DEF dispatch, can_dispatch, ATTEMPT_TRANSITIONS, AttemptStatus
  <2> QED
    BY <1>3, <2>1, AdvanceKept, KeptParts, UnchangedKept, Zenon DEF dispatch
<1>4. ASSUME NEW n \in DOMAIN attempts[r][c], NEW to \in AttemptStatus \ {"succeeded"},
             attempt_transition(r, c, n, attempts[r][c][n], to)
      PROVE  NothingRewritten
  BY <1>4, AdvanceKept, KeptParts, UnchangedKept, Zenon DEF attempt_transition
<1>5. ASSUME NEW n \in DOMAIN attempts[r][c], NEW to \in {"succeeded", "failed"},
             NEW kind \in RowKind \ {"none"}, complete(r, c, n, to, kind)
      PROVE  NothingRewritten
  <2>1. to \in AttemptStatus /\ to \in ATTEMPT_TRANSITIONS[attempts[r][c][n]]
    BY <1>5, Zenon DEF complete, can_complete, ATTEMPT_TRANSITIONS, AttemptStatus
  <2>2. AttemptsKept
    BY <1>5, <2>1, AdvanceKept, Zenon DEF complete
  <2>3. RowsKept
    BY <1>5, Zenon DEF complete, can_complete, TypeOK, RowsKept
  <2> QED
    BY <1>5, <2>2, <2>3, KeptParts, UnchangedKept, Zenon DEF complete
<1> QED
  BY <1>1, <1>2, <1>3, <1>4, <1>5, Zenon DEF CaseStep

(* append adds a pass behind the others and rows only where there were none. *)
LEMMA PassStepKept ==
  ASSUME StoreInv, NEW r \in Runs, PassStep(r)
  PROVE  NothingRewritten
<1> USE DEF StoreInv
<1>1. PICK source \in PassSource \ {"judge"}, scored \in SUBSET Cases, synthetic \in SUBSET Cases,
           final \in RunStatus \ {"absent"}, cancellation \in BOOLEAN :
        append(r, run[r].revision, run[r].status,
               [source |-> source, scored |-> scored, previous |-> run[r].current],
               synthetic, final, cancellation)
  BY Zenon DEF PassStep
<1> DEFINE pass == [source |-> source, scored |-> scored, previous |-> run[r].current]
           new == Append(passes[r], pass)
<1>2. passes[r] \in Seq(Pass) /\ pass \in Pass
  BY Zenon DEF TypeOK, Pass, RunRecord
<1>3. \A k \in DOMAIN passes[r] : k \in DOMAIN new /\ new[k] = passes[r][k]
  BY <1>2
<1>4. passes' = [passes EXCEPT ![r] = new]
  BY <1>1, Zenon DEF append
<1> HIDE DEF new
<1>5. PassesKept
  BY <1>3, <1>4, Zenon DEF TypeOK, PassesKept
<1>6. RowsKept
  BY <1>1, Zenon DEF append, can_append, TypeOK, RowsKept
<1>7. RevisionCounts
  BY <1>1, NextRunKept, Zenon DEF append
<1> QED
  BY <1>1, <1>5, <1>6, <1>7, KeptParts, UnchangedKept, Zenon DEF append

(* No transaction rewrites what another one stored: rows and passes stay,    *)
(* an Attempt only moves along ATTEMPT_TRANSITIONS, and every change of a    *)
(* Run advances the revision that the compare-and-sets look at.              *)
THEOREM NothingIsRewritten == StoreSpec => AppendOnly
<1>1. StoreInv /\ [StoreNext]_store => [NothingRewritten]_store
  <2> SUFFICES ASSUME StoreInv, StoreNext PROVE NothingRewritten
    OBVIOUS
  <2>1. CASE requeue_interrupted
    <3>1. RevisionCounts
      BY <2>1, Zenon DEF requeue_interrupted, StoreInv, TypeOK, RevisionCounts
    <3> QED
      BY <2>1, <3>1, KeptParts, UnchangedKept, Zenon DEF requeue_interrupted
  <2>2. ASSUME NEW r \in Runs, RunStep(r) PROVE NothingRewritten
    BY <2>2, RunStepKept, Zenon
  <2>3. ASSUME NEW r \in Runs, PassStep(r) PROVE NothingRewritten
    BY <2>3, PassStepKept, Zenon
  <2>4. ASSUME NEW r \in Runs, NEW c \in Cases, CaseStep(r, c) PROVE NothingRewritten
    BY <2>4, CaseStepKept, Zenon
  <2> QED
    BY <2>1, <2>2, <2>3, <2>4, Zenon DEF StoreNext
<1> QED
  BY <1>1, InitInv, StepInv, PTL DEF StoreSpec, AppendOnly

-----------------------------------------------------------------------------
(* Where an actor may be. *)
Resting == {"down", "idle"}
RecoverPc == {"recover", "recoverPrepared", "recoverUncertain", "recoverSafe",
              "recoverQuarantine", "requeue"}
CasePc == {"skip", "beginLoad", "beginPrevious", "begin", "dispatch", "dispatchAbort", "invoke",
           "calling", "second", "secondCalling"}
HonorPc == {"honor", "checkpoint", "settle"}
HonorRet == {"skip", "beginLoad", "second", "sweep", "results", "beginRaise", "toScoring",
             "score", "append"}
TransitionPc == {"transition", "transitionCommit"}
AppendPc == {"append", "appendPrevious", "appendCommit"}

(* The types of an activation record. *)
FrameType(f) ==
  /\ DOMAIN f = DOMAIN Blank("idle")
  /\ f.r \in 0..(NRuns + 1)
  /\ f.c \in Nat
  /\ f.att \in [Cases -> Nat]
  /\ f.snap \in RunRecord
  /\ f.done \subseteq Cases
  /\ f.synth \subseteq Cases
  /\ f.pend \subseteq Cases
  /\ f.stop \in BOOLEAN
  /\ f.flag \in BOOLEAN
  /\ f.prev \in Nat
  /\ f.exc \in {"die", "foq"}
  /\ f.seen \subseteq Cases \X Nat

(* What an actor at work on a Run knows by its step alone. *)
Going(f) ==
  /\ f.pc \in CasePc => f.c \in Cases
  /\ f.pc \in HonorPc => /\ f.ret \in HonorRet
                         /\ f.ret \in CasePc => f.c \in Cases
                         /\ f.ret = "append" => f.src = "initial" /\ f.to \in TERMINAL
  /\ f.pc \in TransitionPc => f.ret \in {"toRunning", "rows", "collected", "scored", "leave"}
  /\ f.pc = "transitionCommit" => f.to \in TRANSITIONS[f.snap.status]
  /\ f.pc \in {"unattempted", "unattemptedOpen"} => f.to \in TERMINAL
  /\ f.pc \in {"rescore", "rescoreRows"} => f.to = "none"
  /\ f.pc \in AppendPc => /\ f.src \in {"initial", "rescore", "terminal-unattempted"}
                          /\ f.to \in TERMINAL \cup {"none"}

(* And one that recovers; only the first kind has Cases waiting for their    *)
(* second chance.                                                            *)
Control(f) ==
  /\ Going(f)
  /\ f.pc = "recoverSafe" => f.r \in SafeRuns
  /\ f.pc \in RecoverPc => f.list \in [Runs -> RunRecord]
  /\ f.pc \in RecoverPc \ {"recover", "requeue"} => f.r \in Runs
  /\ f.pend # {} => f.r \in SecondChanceRuns /\ f.pc \notin RecoverPc \cup Resting

(* What it knows of the Run: it exists, and the pass that was current when   *)
(* the actor looked is current as long as the Run is as it was loaded.       *)
Knows(f, runs) ==
  /\ f.pc \notin Resting \cup RecoverPc => f.r \in Runs /\ runs[f.r].status # "absent"
  /\ f.pc \in {"appendPrevious", "appendCommit"} => f.snap.revision <= runs[f.r].revision
  /\ f.pc = "appendCommit" /\ f.snap.revision = runs[f.r].revision =>
       f.prev = runs[f.r].current

Frame(f, runs) == FrameType(f) /\ Control(f) /\ Knows(f, runs)

ActorsInv ==
  /\ DOMAIN fr = Actors
  /\ lock \in Workers \cup {NoActor}
  /\ \A a \in Actors : Frame(fr[a], run)

(* The inductive invariant: that of the store, and of every actor its record. *)
WorkerInv == StoreInv /\ ActorsInv

-----------------------------------------------------------------------------
(* A Case whose call was begun: it has its row, or an Attempt that may have  *)
(* reached the provider.                                                     *)
Spent(r, c) == rows[r][c] # "none" \/ c \in uncertain(r)

(* A Case with an Attempt that can be dispatched. *)
Ready(r, c) == c \in WithStatus(r, {"prepared"})

-----------------------------------------------------------------------------
LEMMA BlankFields ==
  /\ DOMAIN Blank("idle") = {"pc", "r", "c", "att", "snap", "done", "synth", "pend", "stop", "to",
                             "flag", "src", "prev", "ret", "exc", "list", "seen"}
  /\ \A pc : /\ DOMAIN Blank(pc) = DOMAIN Blank("idle") /\ Blank(pc).pc = pc
             /\ Blank(pc).pend = {}
             /\ FrameType(Blank(pc))
<1>1. NoRun \in RunRecord /\ 0 \in 0..(NRuns + 1) /\ [c \in Cases |-> 0] \in [Cases -> Nat]
  BY NRunsAssumption DEF NoRun, RunRecord, RunStatus
<1>2. \A pc : DOMAIN Blank(pc) = {"pc", "r", "c", "att", "snap", "done", "synth", "pend", "stop", "to",
                             "flag", "src", "prev", "ret", "exc", "list", "seen"}
  BY Zenon DEF Blank
<1>3. ASSUME NEW pc PROVE Blank(pc).pc = pc /\ Blank(pc).pend = {} /\ FrameType(Blank(pc))
  BY <1>1, <1>2, Zenon DEF Blank, FrameType
<1>. QED BY <1>2, <1>3, Zenon

(* What a step may do to the record f of its actor: no step but a dispatch   *)
(* leads to a call, and only a claim or a request to an execution.           *)
Follows(f, g) ==
  /\ g.pend \subseteq f.pend
  /\ g.pend # {} => g.r = f.r
  /\ g.pc \notin {"invoke", "calling"}
  /\ f.pc \in Resting \cup RecoverPc => g.pc \in Resting \cup RecoverPc

Moves(a) ==
  \E g : /\ fr' = [fr EXCEPT ![a] = g]
         /\ Frame(g, run)
         /\ Follows(fr[a], g)
         /\ lock' \in Workers \cup {NoActor}

LEMMA StepMoves ==
  ASSUME ActorsInv, NEW a, NEW g, Step(a, g), Frame(g, run), Follows(fr[a], g)
  PROVE  Moves(a)
BY Zenon DEF ActorsInv, Moves, Step

LEMMA RestFrame ==
  ASSUME NEW f, NEW pc \in Resting
  PROVE  Frame(Blank(pc), run) /\ Follows(f, Blank(pc))
BY BlankFields, Zenon
   DEF Frame, Follows, Control, Going, Knows, Resting, RecoverPc, CasePc, HonorPc, TransitionPc, AppendPc

LEMMA RestMoves ==
  ASSUME ActorsInv, NEW a \in Actors, NEW pc \in Resting, fr' = [fr EXCEPT ![a] = Blank(pc)], Release(a)
  PROVE  Moves(a)
<1>1. lock' \in Workers \cup {NoActor}
  BY Zenon DEF ActorsInv, Release
<1>. QED BY <1>1, RestFrame, Zenon DEF Moves

LEMMA DieMoves == ASSUME ActorsInv, NEW a \in Actors, Die(a) PROVE Moves(a)
BY RestMoves, Zenon DEF Die, Resting

LEMMA LeaveMoves == ASSUME ActorsInv, NEW a \in Actors, Leave(a) PROVE Moves(a)
BY RestMoves, DieMoves, Zenon DEF Leave, Resting

(* The record of an actor that is past the start and not recovering. *)
Active(f) == f.pc \notin Resting \cup RecoverPc

Plain(pc) ==
  /\ pc \notin Resting \cup RecoverPc \cup CasePc \cup HonorPc \cup TransitionPc \cup AppendPc
  /\ pc \notin {"unattempted", "unattemptedOpen", "rescore", "rescoreRows"}

LEMMA ActiveFrame ==
  ASSUME NEW f, Frame(f, run), Active(f), NEW g, FrameType(g), g.r = f.r, g.pend \subseteq f.pend,
         g.pc \notin Resting \cup RecoverPc \cup {"invoke", "calling"},
         Going(g),
         g.pc \in {"appendPrevious", "appendCommit"} => g.snap.revision <= run[g.r].revision,
         g.pc = "appendCommit" /\ g.snap.revision = run[g.r].revision => g.prev = run[g.r].current
  PROVE  Frame(g, run) /\ Follows(f, g)
<1>1. f.r \in Runs /\ run[f.r].status # "absent" /\ (f.pend # {} => f.r \in SecondChanceRuns)
  BY Zenon DEF Frame, Knows, Control, Active
<1>2. Knows(g, run)
  BY <1>1, Zenon DEF Knows
<1>3. g.pend # {} => g.r \in SecondChanceRuns /\ g.pc \notin RecoverPc \cup Resting
  BY <1>1, Zenon
<1>4. g.pc \notin RecoverPc /\ g.pc # "recoverSafe"
  BY Zenon DEF RecoverPc
<1>5. Control(g)
  BY <1>3, <1>4, Zenon DEF Control
<1>. QED BY <1>2, <1>5, Zenon DEF Frame, Follows, Active

LEMMA PlainFrame ==
  ASSUME NEW f, Frame(f, run), Active(f), NEW g, FrameType(g), g.r = f.r, g.pend \subseteq f.pend, Plain(g.pc)
  PROVE  Frame(g, run) /\ Follows(f, g)
<1>1. /\ g.pc \notin Resting \cup RecoverPc \cup {"invoke", "calling"}
      /\ g.pc \notin CasePc /\ g.pc \notin HonorPc /\ g.pc \notin TransitionPc /\ g.pc # "transitionCommit"
      /\ g.pc \notin {"unattempted", "unattemptedOpen"} /\ g.pc \notin {"rescore", "rescoreRows"} /\ g.pc \notin AppendPc
      /\ g.pc \notin {"appendPrevious", "appendCommit"} /\ g.pc # "appendCommit"
  BY Zenon DEF Plain, CasePc, TransitionPc, AppendPc
<1>2. Going(g)
  BY <1>1, Zenon DEF Going
<1>. QED BY <1>1, <1>2, ActiveFrame, Zenon

LEMMA PlainPcs ==
  /\ Plain("foq") /\ Plain("unsupported") /\ Plain("cancel") /\ Plain("cancelOpen") /\ Plain("cancelDefer")
  /\ Plain("cancelRace") /\ Plain("fail") /\ Plain("quarantine") /\ Plain("quarantineCommit")
  /\ Plain("stale") /\ Plain("retry") /\ Plain("retryOpen")
  /\ Plain("build") /\ Plain("execute") /\ Plain("toRunning") /\ Plain("rows") /\ Plain("loop")
  /\ Plain("sweep") /\ Plain("results") /\ Plain("score") /\ Plain("beginRaise")
BY Zenon DEF Plain, Resting, RecoverPc, CasePc, HonorPc, TransitionPc, AppendPc

LEMMA HonorFrame ==
  ASSUME NEW f, Frame(f, run), Active(f), NEW g, FrameType(g), g.r = f.r, g.pend \subseteq f.pend,
         g.pc \in HonorPc, g.ret \in HonorRet, g.ret \in CasePc => g.c \in Cases,
         g.ret = "append" => g.src = "initial" /\ g.to \in TERMINAL
  PROVE  Frame(g, run) /\ Follows(f, g)
<1>1. /\ g.pc \notin Resting \cup RecoverPc \cup {"invoke", "calling"}
      /\ g.pc \notin CasePc /\ g.pc \notin TransitionPc /\ g.pc # "transitionCommit"
      /\ g.pc \notin {"unattempted", "unattemptedOpen"} /\ g.pc \notin {"rescore", "rescoreRows"} /\ g.pc \notin AppendPc
      /\ g.pc \notin {"appendPrevious", "appendCommit"} /\ g.pc # "appendCommit"
  BY Zenon DEF HonorPc, Resting, RecoverPc, CasePc, TransitionPc, AppendPc
<1>2. Going(g)
  BY <1>1, Zenon DEF Going
<1>. QED BY <1>1, <1>2, ActiveFrame, Zenon

LEMMA TransitionFrame ==
  ASSUME NEW f, Frame(f, run), Active(f), NEW to,
         NEW ret \in {"toRunning", "rows", "collected", "scored", "leave"}
  PROVE  Frame(Transition(f, to, ret), run) /\ Follows(f, Transition(f, to, ret))
<1>. DEFINE g == Transition(f, to, ret)
<1>1. FrameType(g) /\ g.pc = "transition" /\ g.ret = ret /\ g.r = f.r /\ g.pend = f.pend
  BY BlankFields, Zenon DEF Frame, FrameType, Transition
<1>. HIDE DEF g
<1>2. /\ g.pc \notin Resting \cup RecoverPc \cup {"invoke", "calling"}
      /\ g.pc \notin CasePc /\ g.pc \notin HonorPc /\ g.pc # "transitionCommit"
      /\ g.pc \notin {"unattempted", "unattemptedOpen"} /\ g.pc \notin {"rescore", "rescoreRows"} /\ g.pc \notin AppendPc
      /\ g.pc \notin {"appendPrevious", "appendCommit"} /\ g.pc # "appendCommit"
  BY <1>1, Zenon DEF HonorPc, Resting, RecoverPc, CasePc, AppendPc
<1>3. g.pend \subseteq f.pend /\ g.ret \in {"toRunning", "rows", "collected", "scored", "leave"}
  BY <1>1, Zenon
<1>4. Going(g)
  BY <1>2, <1>3, Zenon DEF Going
<1>5. Frame(g, run) /\ Follows(f, g)
  BY <1>1, <1>2, <1>3, <1>4, ActiveFrame, Zenon
<1>. QED BY <1>5, Zenon DEF g

LEMMA NoRunType == NoRun \in RunRecord
BY Zenon DEF NoRun, RunRecord, RunStatus

(* The record after an exception that a handler catches. *)
LEMMA RaisedFrame ==
  ASSUME NEW f, Frame(f, run), Active(f), NEW pc \in {"foq", "unsupported"}
  PROVE  LET g == [f EXCEPT !.pc = pc, !.exc = "die", !.snap = NoRun]
         IN  Frame(g, run) /\ Follows(f, g)
<1>. DEFINE g == [f EXCEPT !.pc = pc, !.exc = "die", !.snap = NoRun]
<1>1. FrameType(g) /\ g.pc = pc /\ g.r = f.r /\ g.pend = f.pend
  BY NoRunType, BlankFields, Zenon DEF Frame, FrameType
<1>2. Plain(pc)
  BY PlainPcs, Zenon
<1>. HIDE DEF g
<1>3. Frame(g, run) /\ Follows(f, g)
  BY <1>1, <1>2, PlainFrame, Zenon
<1>. QED BY <1>3, Zenon DEF g

LEMMA RaiseMoves ==
  ASSUME ActorsInv, NEW a \in Actors, Active(fr[a]), Raise(a)
  PROVE  Moves(a)
<1>1. Frame(fr[a], run) /\ fr[a].exc \in {"die", "foq"}
  BY Zenon DEF ActorsInv, Frame, FrameType
<1>2. CASE fr[a].exc = "foq"
  BY <1>1, <1>2, RaisedFrame, StepMoves, Zenon DEF Raise
<1>3. CASE fr[a].exc = "die"
  BY <1>1, <1>3, DieMoves, Zenon DEF Raise
<1>. QED BY <1>1, <1>2, <1>3, Zenon

LEMMA RejectMoves ==
  ASSUME ActorsInv, NEW a \in Actors, Active(fr[a]), Reject(a)
  PROVE  Moves(a)
<1>1. Frame(fr[a], run)
  BY Zenon DEF ActorsInv
<1>. QED BY <1>1, RaisedFrame, StepMoves, RaiseMoves, Zenon DEF Reject

(* The record after a call returns to its label. *)
LEMMA EnterFrame ==
  ASSUME NEW f, Frame(f, run), Active(f), f.pc \in HonorPc \cup TransitionPc, f.ret # "leave"
  PROVE  LET g == Enter([f EXCEPT !.snap = NoRun], f.ret)
         IN  Frame(g, run) /\ Follows(f, g)
<1>. DEFINE h == [f EXCEPT !.snap = NoRun]
            g == Enter(h, f.ret)
<1>1. FrameType(h) /\ \A x \in DOMAIN f \ {"snap"} : h[x] = f[x]
  BY NoRunType, BlankFields, Zenon DEF Frame, FrameType
<1>2. h.pc = f.pc /\ h.ret = f.ret /\ h.r = f.r /\ h.pend = f.pend /\ h.c = f.c /\ h.src = f.src /\ h.to = f.to
  BY <1>1, BlankFields, Zenon DEF Frame, FrameType
<1>. HIDE DEF h
<1>3. CASE f.ret = "collected"
  <2>1. g = Honor(h, "toScoring", "die")
    BY <1>3, Zenon DEF Enter
  <2>2. FrameType(g) /\ g.r = f.r /\ g.pend = f.pend /\ g.pc = "honor" /\ g.ret = "toScoring"
    BY <1>1, <1>2, <2>1, BlankFields DEF Honor, FrameType
  <2>. HIDE DEF g
  <2>3. Frame(g, run) /\ Follows(f, g)
    BY <2>2, HonorFrame, Zenon DEF HonorPc, HonorRet, CasePc
  <2>. QED BY <2>3, Zenon DEF g, h
<1>4. CASE f.ret = "scored"
  <2>1. g = Honor(h, "score", "die")
    BY <1>4, Zenon DEF Enter
  <2>2. FrameType(g) /\ g.r = f.r /\ g.pend = f.pend /\ g.pc = "honor" /\ g.ret = "score"
    BY <1>1, <1>2, <2>1, BlankFields DEF Honor, FrameType
  <2>. HIDE DEF g
  <2>3. Frame(g, run) /\ Follows(f, g)
    BY <2>2, HonorFrame, Zenon DEF HonorPc, HonorRet, CasePc
  <2>. QED BY <2>3, Zenon DEF g, h
<1>5. CASE f.ret = "toScoring"
  <2>1. g = Transition(h, "scoring", "scored")
    BY <1>5, Zenon DEF Enter
  <2>2. FrameType(g) /\ g.r = f.r /\ g.pend = f.pend /\ g.pc = "transition" /\ g.ret = "scored"
    BY <1>1, <1>2, <2>1, BlankFields DEF Transition, FrameType
  <2>. HIDE DEF g
  <2>3. Frame(g, run) /\ Follows(f, g)
    BY <2>2, ActiveFrame, Zenon DEF Going, HonorPc, CasePc, Resting, RecoverPc, AppendPc
  <2>. QED BY <2>3, Zenon DEF g, h
<1>6. CASE f.ret \in {"toRunning", "rows", "skip", "beginLoad", "second", "sweep", "results",
                       "beginRaise", "score", "append"}
  <2>1. g = [h EXCEPT !.pc = f.ret, !.ret = "none"]
    BY <1>6, Zenon DEF Enter
  <2>2. /\ FrameType(g) /\ g.r = f.r /\ g.pend = f.pend /\ g.pc = f.ret
        /\ g.c = f.c /\ g.src = f.src /\ g.to = f.to
    BY <1>1, <1>2, <2>1, BlankFields DEF FrameType
  <2>. HIDE DEF g
  <2>3. Control(f)
    BY Zenon DEF Frame
  <2>4. CASE f.ret \in {"skip", "beginLoad", "second"}
    <3>1. f.c \in Cases
      BY <2>3, <2>4, Zenon DEF Control, Going, CasePc, HonorPc, TransitionPc
    <3>. QED BY <2>2, <2>4, <3>1, ActiveFrame, Zenon
                DEF Going, HonorPc, CasePc, Resting, RecoverPc, AppendPc, TransitionPc, g, h
  <2>5. CASE f.ret = "append"
    <3>1. f.src = "initial" /\ f.to \in TERMINAL
      BY <2>3, <2>5, Zenon DEF Control, Going, HonorPc, TransitionPc
    <3>. QED BY <2>2, <2>5, <3>1, ActiveFrame, Zenon
                DEF Going, HonorPc, CasePc, Resting, RecoverPc, AppendPc, TransitionPc, g, h
  <2>6. CASE f.ret \in {"toRunning", "rows", "sweep", "results", "beginRaise", "score"}
    <3>1. Plain(g.pc)
      BY <2>2, <2>6, PlainPcs, Zenon
    <3>2. Frame(g, run) /\ Follows(f, g)
      BY <2>2, <3>1, PlainFrame, Zenon
    <3>. QED BY <3>2, Zenon DEF g, h
  <2>. QED BY <1>6, <2>4, <2>5, <2>6, Zenon
<1>7. f.ret \in HonorRet \cup {"toRunning", "rows", "collected", "scored"}
  BY Zenon DEF Frame, Control, Going
<1>. QED BY <1>3, <1>4, <1>5, <1>6, <1>7, Zenon DEF HonorRet

LEMMA ReturnMoves ==
  ASSUME ActorsInv, NEW a \in Actors, fr[a].pc \in HonorPc \cup TransitionPc, Return(a)
  PROVE  Moves(a)
<1>1. Frame(fr[a], run) /\ Active(fr[a])
  BY Zenon DEF ActorsInv, Active, Resting, RecoverPc, HonorPc, TransitionPc
<1>. QED BY <1>1, LeaveMoves, EnterFrame, StepMoves, Zenon DEF Return

-----------------------------------------------------------------------------
(* What a step may do to the tables: a transaction of the store or nothing,  *)
(* a settled Run stays settled, and a Case of a Run that is not              *)
(* safe_to_repeat stays spent and gets no further Attempt once it is spent.  *)
StaysSettled == \A r \in Runs : run[r].status \in TERMINAL => run'[r].status \in TERMINAL

StaysSpent ==
  \A r \in Runs \ SafeRuns, c \in Cases :
    /\ Spent(r, c) => Spent(r, c)'
    /\ Ready(r, c)' => Ready(r, c) \/ ~Spent(r, c)

Writes == (StoreNext \/ UNCHANGED store) /\ StaysSettled /\ StaysSpent

LEMMA SpentFacts ==
  ASSUME NEW r, NEW c \in Cases
  PROVE  /\ Spent(r, c) <=> \/ rows[r][c] # "none"
                            \/ \E n \in DOMAIN attempts[r][c] :
                                 attempts[r][c][n] \in {"dispatching", "indeterminate"}
         /\ Ready(r, c) <=> \E n \in DOMAIN attempts[r][c] : attempts[r][c][n] = "prepared"
BY Zenon DEF Spent, Ready, uncertain, WithStatus

LEMMA SpentFactsNext ==
  ASSUME NEW r, NEW c \in Cases
  PROVE  /\ Spent(r, c)' <=> \/ rows'[r][c] # "none"
                             \/ \E n \in DOMAIN attempts'[r][c] :
                                  attempts'[r][c][n] \in {"dispatching", "indeterminate"}
         /\ Ready(r, c)' <=> \E n \in DOMAIN attempts'[r][c] : attempts'[r][c][n] = "prepared"
BY Zenon DEF Spent, Ready, uncertain, WithStatus

LEMMA Quiet == ASSUME UNCHANGED store PROVE Writes
<1>1. run' = run /\ attempts' = attempts /\ rows' = rows
  BY Zenon DEF store
<1>2. StaysSettled
  BY <1>1, Zenon DEF StaysSettled
<1>3. StaysSpent
  BY <1>1, SpentFacts, SpentFactsNext DEF StaysSpent
<1>. QED BY <1>2, <1>3, Zenon DEF Writes

(* Attempts that stay and rows that only come keep spent Cases spent. *)
LEMMA RowsGrow ==
  ASSUME UNCHANGED attempts, RowsKept
  PROVE  StaysSpent
<1> SUFFICES ASSUME NEW r \in Runs \ SafeRuns, NEW c \in Cases
             PROVE  /\ Spent(r, c) => Spent(r, c)'
                    /\ Ready(r, c)' => Ready(r, c) \/ ~Spent(r, c)
  BY Zenon DEF StaysSpent
<1>1. rows[r][c] # "none" => rows'[r][c] # "none"
  BY Zenon DEF RowsKept
<1>. QED BY <1>1, SpentFacts, SpentFactsNext

LEMMA RunWrites ==
  ASSUME UNCHANGED <<attempts, rows, passes>>, NEW r \in Runs, RunStep(r), StaysSettled
  PROVE  Writes
<1>1. StaysSpent
  BY RowsGrow, UnchangedKept, Zenon
<1>. QED BY <1>1, Zenon DEF Writes, StoreNext

LEMMA CreateWrites == ASSUME TypeOK, NEW r \in Runs, create(r) PROVE Writes
<1>1. StaysSettled
  BY Zenon DEF create, StaysSettled, TypeOK, TERMINAL
<1>. QED BY <1>1, RunWrites, Zenon DEF create, RunStep

LEMMA ClaimWrites == ASSUME TypeOK, NEW r \in Runs, claim(r) PROVE Writes
<1>1. StaysSettled
  BY Zenon DEF claim, NextRun, StaysSettled, TypeOK, TERMINAL
<1>. QED BY <1>1, RunWrites, Zenon DEF claim, RunStep

LEMMA UpdateWrites ==
  ASSUME TypeOK, NEW r \in Runs, NEW revision, NEW status, update(r, revision, status)
  PROVE  Writes
<1>1. run[r].revision = revision /\ run[r].status = status
  BY Zenon DEF update, Matches
<1>2. StaysSettled
  BY <1>1, Zenon DEF update, NextRun, StaysSettled, TypeOK
<1>. QED BY <1>1, <1>2, RunWrites, Zenon DEF update, RunStep

LEMMA TransitionWrites ==
  ASSUME TypeOK, NEW r \in Runs, NEW revision, NEW status, NEW to \in TRANSITIONS[status],
         NEW cancellation \in BOOLEAN, transition(r, revision, status, to, cancellation)
  PROVE  Writes
<1>1. run[r].revision = revision /\ run[r].status = status /\ status \in RunStatus
  BY Zenon DEF transition, Matches, TypeOK, RunRecord
<1>2. to \in RunStatus \ {"absent"} /\ status \notin TERMINAL
  BY <1>1, Zenon DEF TRANSITIONS, RunStatus, TERMINAL, INTERRUPTED_STATES
<1>3. StaysSettled
  BY <1>1, <1>2, Zenon DEF transition, NextRun, StaysSettled, TypeOK
<1>4. RunStep(r)
  BY <1>1, <1>2, Zenon DEF RunStep
<1>. QED BY <1>3, <1>4, RunWrites, Zenon DEF transition

LEMMA RequeueWrites == ASSUME TypeOK, requeue_interrupted PROVE Writes
<1>1. StaysSettled
  BY Zenon DEF requeue_interrupted, StaysSettled, TypeOK, TERMINAL, INTERRUPTED_STATES
<1>2. StaysSpent
  BY RowsGrow, UnchangedKept, Zenon DEF requeue_interrupted
<1>. QED BY <1>1, <1>2, Zenon DEF Writes, StoreNext

LEMMA QuarantineWrites ==
  ASSUME TypeOK, NEW r \in Runs, NEW revision, NEW status,
         quarantine_indeterminate(r, revision, status)
  PROVE  Writes
<1>1. run[r].revision = revision /\ run[r].status = status
  BY Zenon DEF quarantine_indeterminate, Matches
<1>2. StaysSettled
  <2>1. CASE run' = run
    BY <2>1, Zenon DEF StaysSettled
  <2>2. CASE NextRun(r, "needs_review", run[r].cancellation, run[r].current)
    <3>1. \A q \in Runs : run'[q].status = IF q = r THEN "needs_review" ELSE run[q].status
      BY <2>2, Zenon DEF NextRun, TypeOK
    <3>. QED BY <3>1, Zenon DEF StaysSettled, TERMINAL
  <2>. QED BY <2>1, <2>2, Zenon DEF quarantine_indeterminate
<1>3. \A p \in Runs, c \in Cases :
        /\ DOMAIN attempts'[p][c] = DOMAIN attempts[p][c]
        /\ \A n \in DOMAIN attempts[p][c] :
             attempts'[p][c][n] = IF p = r /\ attempts[p][c][n] = "dispatching"
                                    THEN "indeterminate" ELSE attempts[p][c][n]
  BY Zenon DEF quarantine_indeterminate, TypeOK
<1>4. StaysSpent
  <2> SUFFICES ASSUME NEW q \in Runs \ SafeRuns, NEW c \in Cases
               PROVE  /\ Spent(q, c) => Spent(q, c)'
                      /\ Ready(q, c)' => Ready(q, c) \/ ~Spent(q, c)
    BY Zenon DEF StaysSpent
  <2>1. rows' = rows
    BY Zenon DEF quarantine_indeterminate
  <2>. QED BY <1>3, <2>1, SpentFacts, SpentFactsNext
<1>5. StoreNext
  BY <1>1, Zenon DEF StoreNext, RunStep
<1>. QED BY <1>2, <1>4, <1>5, Zenon DEF Writes

LEMMA CaseWrites ==
  ASSUME NEW r \in Runs, NEW c \in Cases, CaseStep(r, c), UNCHANGED run, StaysSpent
  PROVE  Writes
BY Zenon DEF Writes, StaysSettled, StoreNext

LEMMA UpsertWrites ==
  ASSUME TypeOK, NEW r \in Runs, NEW c \in Cases, NEW kind \in RowKind \ {"none"}, Created(r),
         upsert(r, c, kind)
  PROVE  Writes
<1>1. RowsKept
  BY Zenon DEF upsert, RowsKept, TypeOK
<1>2. StaysSpent
  BY <1>1, RowsGrow, Zenon DEF upsert
<1>3. CaseStep(r, c)
  BY Zenon DEF CaseStep
<1>. QED BY <1>2, <1>3, CaseWrites, Zenon DEF upsert

LEMMA BeginWrites ==
  ASSUME TypeOK, NEW r \in Runs, NEW c \in Cases, NEW n, NEW revision, NEW status,
         begin(r, c, n, revision, status)
  PROVE  Writes
<1>1. /\ run[r].revision = revision /\ run[r].status = status /\ n = Len(attempts[r][c]) + 1
      /\ rows[r][c] = "none" /\ c \notin list_open(r) /\ rows' = rows
  BY Zenon DEF begin, can_begin, Matches
<1>2. ~Spent(r, c)
  BY <1>1, Zenon DEF Spent, list_open, uncertain, WithStatus, OpenStatus
<1>3. \A q \in Runs, d \in Cases : <<q, d>> # <<r, c>> => attempts'[q][d] = attempts[q][d]
  BY Zenon DEF begin, TypeOK
<1>4. StaysSpent
  <2> SUFFICES ASSUME NEW q \in Runs \ SafeRuns, NEW d \in Cases
               PROVE  /\ Spent(q, d) => Spent(q, d)'
                      /\ Ready(q, d)' => Ready(q, d) \/ ~Spent(q, d)
    BY Zenon DEF StaysSpent
  <2>1. CASE q = r /\ d = c
    BY <1>2, <2>1, Zenon
  <2>2. CASE <<q, d>> # <<r, c>>
    BY <1>1, <1>3, <2>2, SpentFacts, SpentFactsNext
  <2>. QED BY <2>1, <2>2, Zenon
<1>5. CaseStep(r, c)
  BY <1>1, Zenon DEF CaseStep
<1>. QED BY <1>4, <1>5, CaseWrites, Zenon DEF begin

(* An Attempt moves on, and its Case stays spent. *)
LEMMA AdvanceWrites ==
  ASSUME TypeOK, NEW r \in Runs, NEW c \in Cases, NEW n \in DOMAIN attempts[r][c],
         NEW to \in AttemptStatus, Advance(r, c, n, to), RowsKept, to # "prepared",
         r \in SafeRuns \/ attempts[r][c][n] = "prepared" \/ rows'[r][c] # "none",
         CaseStep(r, c), UNCHANGED run
  PROVE  Writes
<1>1. \A q \in Runs, d \in Cases :
        /\ DOMAIN attempts'[q][d] = DOMAIN attempts[q][d]
        /\ \A m \in DOMAIN attempts[q][d] :
             attempts'[q][d][m] = IF q = r /\ d = c /\ m = n THEN to ELSE attempts[q][d][m]
  BY AdvanceFacts
<1>2. StaysSpent
  <2> SUFFICES ASSUME NEW q \in Runs \ SafeRuns, NEW d \in Cases
               PROVE  /\ Spent(q, d) => Spent(q, d)'
                      /\ Ready(q, d)' => Ready(q, d) \/ ~Spent(q, d)
    BY Zenon DEF StaysSpent
  <2>1. rows[q][d] # "none" => rows'[q][d] # "none"
    BY Zenon DEF RowsKept
  <2>2. Ready(q, d)' => Ready(q, d)
    BY <1>1, SpentFacts, SpentFactsNext
  <2>3. ASSUME NEW m \in DOMAIN attempts[q][d], attempts[q][d][m] \in {"dispatching", "indeterminate"}
        PROVE  Spent(q, d)'
    <3>1. CASE q = r /\ d = c /\ m = n
      BY <2>3, <3>1, SpentFactsNext, Zenon
    <3>2. CASE ~(q = r /\ d = c /\ m = n)
      BY <1>1, <2>3, <3>2, SpentFactsNext
    <3>. QED BY <3>1, <3>2, Zenon
  <2>. QED BY <2>1, <2>2, <2>3, SpentFacts, SpentFactsNext, Zenon
<1>. QED BY <1>2, CaseWrites, Zenon

(* A pass and what goes with it: the Run keeps its status or is settled. *)
LEMMA AppendWrites ==
  ASSUME StoreInv, NEW r \in Runs, NEW revision, NEW status, NEW source \in PassSource \ {"judge"},
         NEW scored \in SUBSET Cases, NEW synthetic \in SUBSET Cases,
         NEW final \in TERMINAL \cup {status}, NEW cancellation \in BOOLEAN,
         append(r, revision, status,
                [source |-> source, scored |-> scored, previous |-> run[r].current],
                synthetic, final, cancellation)
  PROVE  Writes
<1>1. /\ run[r].revision = revision /\ run[r].status = status /\ status \in RunStatus \ {"absent"}
      /\ TypeOK /\ UNCHANGED attempts
  BY Zenon DEF append, can_append, Matches, Created, StoreInv, TypeOK, RunRecord
<1>2. final \in RunStatus \ {"absent"}
  BY <1>1, Zenon DEF RunStatus, TERMINAL
<1>3. PassStep(r)
  BY <1>1, <1>2, Zenon DEF PassStep
<1>4. RowsKept
  BY <1>3, PassStepKept, Zenon DEF NothingRewritten, RowsKept
<1>5. StaysSpent
  BY <1>1, <1>4, RowsGrow, Zenon
<1>6. \A q \in Runs : run'[q].status = IF q = r THEN final ELSE run[q].status
  BY <1>1, Zenon DEF append, NextRun, TypeOK
<1>7. StaysSettled
  BY <1>1, <1>6, Zenon DEF StaysSettled
<1>. QED BY <1>3, <1>5, <1>7, Zenon DEF Writes, StoreNext

-----------------------------------------------------------------------------
Does(a) == Moves(a) /\ Writes

LEMMA Own ==
  ASSUME WorkerInv, NEW a \in Actors, Active(fr[a])
  PROVE  /\ ActorsInv /\ StoreInv /\ TypeOK
         /\ Frame(fr[a], run) /\ FrameType(fr[a])
         /\ fr[a].r \in Runs /\ Created(fr[a].r) /\ Run(a) \in RunRecord
BY Zenon DEF WorkerInv, ActorsInv, StoreInv, Frame, Knows, Active, Created, Run, TypeOK

(* Steps that write nothing. *)
LEMMA QuietPlain ==
  ASSUME WorkerInv, NEW a \in Actors, Active(fr[a]), UNCHANGED store, NEW g, Step(a, g),
         FrameType(g), g.r = fr[a].r, g.pend \subseteq fr[a].pend, Plain(g.pc)
  PROVE  Does(a)
<1>1. Frame(g, run) /\ Follows(fr[a], g)
  BY Own, PlainFrame, Zenon
<1>. QED BY <1>1, Own, StepMoves, Quiet, Zenon DEF Does

LEMMA QuietTransition ==
  ASSUME WorkerInv, NEW a \in Actors, Active(fr[a]), UNCHANGED store, NEW to,
         NEW ret \in {"toRunning", "rows", "collected", "scored", "leave"},
         Step(a, Transition(fr[a], to, ret))
  PROVE  Does(a)
<1>1. Frame(Transition(fr[a], to, ret), run) /\ Follows(fr[a], Transition(fr[a], to, ret))
  BY Own, TransitionFrame, Zenon
<1>. QED BY <1>1, Own, StepMoves, Quiet, Zenon DEF Does

LEMMA QuietLeave ==
  ASSUME WorkerInv, NEW a \in Actors, Leave(a) \/ Die(a), UNCHANGED store
  PROVE  Does(a)
BY LeaveMoves, DieMoves, Quiet, Zenon DEF Does, WorkerInv

LEMMA QuietRaise ==
  ASSUME WorkerInv, NEW a \in Actors, Active(fr[a]), Raise(a) \/ Reject(a), UNCHANGED store
  PROVE  Does(a)
BY RaiseMoves, RejectMoves, Quiet, Zenon DEF Does, WorkerInv

(* Min of a set of Runs or Cases is the least of them. *)
LEMMA MinIn ==
  ASSUME NEW S \in SUBSET Nat, S # {}
  PROVE  Min(S) \in S /\ \A y \in S : Min(S) <= y
<1>1. PICK x \in S : \A y \in S : ~(<<y, x>> \in OpToRel(<, Nat))
  BY WFMin, NatLessThanWellFounded, Zenon
<1>2. ASSUME NEW y \in S PROVE x <= y
  <2>1. SUFFICES ASSUME y < x PROVE FALSE
    OBVIOUS
  <2>2. <<y, x>> \in Nat \X Nat /\ <<y, x>>[1] < <<y, x>>[2]
    BY <2>1, Zenon
  <2>. QED BY <1>1, <2>2, Zenon DEF OpToRel
<1>. QED BY <1>2, Zenon DEF Min

(* Steps within a Case that lead to no call. *)
LEMMA CaseFrame ==
  ASSUME NEW f, Frame(f, run), Active(f), NEW g, FrameType(g), g.r = f.r, g.pend \subseteq f.pend,
         g.pc \in CasePc \ {"invoke", "calling"}, g.c \in Cases
  PROVE  Frame(g, run) /\ Follows(f, g)
<1>1. Going(g)
  BY Zenon DEF Going, CasePc, HonorPc, TransitionPc, AppendPc
<1>2. /\ g.pc \notin Resting \cup RecoverPc \cup {"invoke", "calling"}
      /\ g.pc \notin {"appendPrevious", "appendCommit"} /\ g.pc # "appendCommit"
  BY Zenon DEF CasePc, Resting, RecoverPc
<1>. QED BY <1>1, <1>2, ActiveFrame, Zenon

LEMMA QuietCase ==
  ASSUME WorkerInv, NEW a \in Actors, Active(fr[a]), UNCHANGED store, NEW g, Step(a, g),
         FrameType(g), g.r = fr[a].r, g.pend \subseteq fr[a].pend,
         g.pc \in CasePc \ {"invoke", "calling"}, g.c \in Cases
  PROVE  Does(a)
<1>1. Frame(g, run) /\ Follows(fr[a], g)
  BY Own, CaseFrame, Zenon
<1>. QED BY <1>1, Own, StepMoves, Quiet, Zenon DEF Does

LEMMA OwnCase ==
  ASSUME WorkerInv, NEW a \in Actors, fr[a].pc \in CasePc
  PROVE  Active(fr[a]) /\ fr[a].c \in Cases
<1>1. Active(fr[a])
  BY Zenon DEF Active, Resting, RecoverPc, CasePc
<1>. QED BY <1>1, Own, Zenon DEF Frame, Control, Going

(* The cancellation check before a Case, or in place of a conflict. *)
LEMMA CheckpointFrame ==
  ASSUME NEW f, Frame(f, run), Active(f), NEW h, FrameType(h), h.r = f.r, h.pend \subseteq f.pend,
         NEW ret \in HonorRet \ {"append"}, ret \in CasePc => h.c \in Cases, NEW exc \in {"die", "foq"}
  PROVE  Frame(Checkpoint(h, ret, exc), run) /\ Follows(f, Checkpoint(h, ret, exc))
<1>. DEFINE g == Checkpoint(h, ret, exc)
<1>1. /\ FrameType(g) /\ g.r = h.r /\ g.pend = h.pend /\ g.pc \in HonorPc /\ g.ret = ret
      /\ g.c = h.c
  BY BlankFields, Zenon DEF FrameType, Checkpoint, Honor, HonorPc
<1>. HIDE DEF g
<1>2. Frame(g, run) /\ Follows(f, g)
  BY <1>1, HonorFrame, Zenon
<1>. QED BY <1>2, Zenon DEF g

LEMMA ConflictMoves ==
  ASSUME WorkerInv, NEW a \in Actors, Active(fr[a]), BeginConflict(a)
  PROVE  Moves(a)
<1>1. PICK exc \in {"die", "foq"} :
        Step(a, [Checkpoint(fr[a], "beginRaise", exc) EXCEPT !.snap = NoRun])
  BY Zenon DEF BeginConflict
<1>. DEFINE f == fr[a]
            h == Checkpoint(f, "beginRaise", exc)
            g == [h EXCEPT !.snap = NoRun]
<1>2. /\ FrameType(h) /\ h.r = f.r /\ h.pend = f.pend /\ h.pc \in HonorPc /\ h.ret = "beginRaise"
  BY Own, BlankFields, Zenon DEF FrameType, Checkpoint, Honor, HonorPc
<1>3. Step(a, g)
  BY <1>1, Zenon
<1>. HIDE DEF h
<1>4. FrameType(g) /\ g.r = f.r /\ g.pend = f.pend /\ g.pc \in HonorPc /\ g.ret = "beginRaise"
  BY <1>2, NoRunType, BlankFields, Zenon DEF FrameType
<1>. HIDE DEF g
<1>5. Frame(g, run) /\ Follows(f, g)
  BY <1>4, Own, HonorFrame, Zenon DEF HonorRet, CasePc
<1>. QED BY <1>3, <1>5, Own, StepMoves, Zenon

(* A prepared Attempt is closed without a call. *)
LEMMA AbandonWrites ==
  ASSUME TypeOK, NEW r \in Runs, NEW c \in Cases, NEW n,
         attempt_transition(r, c, n, "prepared", "failed")
  PROVE  Writes
<1>1. n \in DOMAIN attempts[r][c] /\ attempts[r][c][n] = "prepared"
  BY Zenon DEF attempt_transition
<1>2. "failed" \in AttemptStatus \ {"succeeded"}
  BY Zenon DEF AttemptStatus
<1>3. CaseStep(r, c)
  BY <1>1, <1>2, Zenon DEF CaseStep
<1>4. RowsKept
  BY UnchangedKept, Zenon DEF attempt_transition
<1>. QED BY <1>1, <1>2, <1>3, <1>4, AdvanceWrites, Zenon DEF attempt_transition

LEMMA OwnPend ==
  ASSUME WorkerInv, NEW a \in Actors, fr[a].pc \in CasePc
  PROVE  /\ Active(fr[a]) /\ FrameType(fr[a]) /\ TypeOK /\ fr[a].r \in Runs /\ fr[a].c \in Cases
         /\ fr[a].pend \subseteq Cases /\ (fr[a].pend # {} => fr[a].r \in SecondChanceRuns)
BY OwnCase, Own, Zenon DEF Frame, FrameType, Control

(* A dispatch that goes ahead, the one step after which a call may follow. *)
Dispatched(a) ==
  LET f == fr[a] IN
    /\ f.pc = "dispatch"
    /\ dispatch(f.r, f.c, f.att[f.c], f.snap.revision, f.snap.status)
    /\ Step(a, [f EXCEPT !.pc = "invoke", !.snap = NoRun])

(* Every step of RunService. *)
LEMMA ServiceDoes ==
  ASSUME WorkerInv, NEW a \in Actors, ServiceStep(a)
  PROVE  Does(a) \/ Dispatched(a)

<1>TransitionLoadDoes. ASSUME TransitionLoad(a) PROVE Does(a)
  <2>. USE <1>TransitionLoadDoes
  <2>. DEFINE g == [fr[a] EXCEPT !.pc = "transitionCommit", !.snap = Run(a)]
  <2>1. /\ fr[a].pc = "transition" /\ Active(fr[a]) /\ UNCHANGED store
        /\ \/ fr[a].to \in TRANSITIONS[Run(a).status] /\ Step(a, g)
           \/ Reject(a)
    BY Zenon DEF TransitionLoad, Active, Resting, RecoverPc
  <2>2. CASE fr[a].to \in TRANSITIONS[Run(a).status] /\ Step(a, g)
    <3>1. /\ FrameType(g) /\ g.r = fr[a].r /\ g.pend = fr[a].pend /\ g.pc = "transitionCommit"
          /\ g.ret = fr[a].ret /\ g.to \in TRANSITIONS[g.snap.status]
      BY <2>1, <2>2, Own, BlankFields, Zenon DEF FrameType
    <3>2. fr[a].ret \in {"toRunning", "rows", "collected", "scored", "leave"}
      BY <2>1, Own, Zenon DEF Frame, Control, Going, TransitionPc
    <3>. HIDE DEF g
    <3>3. Going(g)
      BY <3>1, <3>2, Zenon DEF Going, CasePc, HonorPc, TransitionPc, AppendPc
    <3>4. Frame(g, run) /\ Follows(fr[a], g)
      BY <2>1, <3>1, <3>3, Own, ActiveFrame, Zenon DEF Resting, RecoverPc
    <3>. QED BY <2>1, <2>2, <3>4, Own, StepMoves, Quiet, Zenon DEF Does
  <2>3. CASE Reject(a)
    BY <2>1, <2>3, QuietRaise, Zenon
  <2>. QED BY <2>1, <2>2, <2>3, Zenon

<1>TransitionCommitDoes. ASSUME TransitionCommit(a) PROVE Does(a)
  <2>. USE <1>TransitionCommitDoes
  <2>. DEFINE f == fr[a]
  <2>1. /\ f.pc = "transitionCommit" /\ Active(f)
        /\ \/ transition(f.r, f.snap.revision, f.snap.status, f.to, f.flag) /\ Return(a)
           \/ Raise(a) /\ UNCHANGED store
    BY Zenon DEF TransitionCommit, Active, Resting, RecoverPc
  <2>2. CASE transition(f.r, f.snap.revision, f.snap.status, f.to, f.flag) /\ Return(a)
    <3>1. f.to \in TRANSITIONS[f.snap.status] /\ f.flag \in BOOLEAN
      BY <2>1, Own, Zenon DEF Frame, FrameType, Control, Going
    <3>2. Writes
      BY <2>1, <2>2, <3>1, Own, TransitionWrites, Zenon
    <3>3. Moves(a)
      BY <2>1, <2>2, Own, ReturnMoves, Zenon DEF TransitionPc
    <3>. QED BY <3>2, <3>3, Zenon DEF Does
  <2>3. CASE Raise(a) /\ UNCHANGED store
    BY <2>1, <2>3, QuietRaise, Zenon
  <2>. QED BY <2>1, <2>2, <2>3, Zenon

<1>HonorCancellationDoes. ASSUME HonorCancellation(a) PROVE Does(a)
  <2>. USE <1>HonorCancellationDoes
  <2>. DEFINE g == [fr[a] EXCEPT !.pc = "cancel", !.flag = FALSE]
  <2>1. /\ fr[a].pc = "honor" /\ Active(fr[a]) /\ UNCHANGED store
        /\ Leave(a) \/ Return(a) \/ Step(a, g)
    BY Zenon DEF HonorCancellation, Active, Resting, RecoverPc
  <2>2. CASE Leave(a)
    BY <2>1, <2>2, QuietLeave, Zenon
  <2>3. CASE Return(a)
    BY <2>1, <2>3, Own, ReturnMoves, Quiet, Zenon DEF Does, HonorPc
  <2>4. CASE Step(a, g)
    <3>1. FrameType(g) /\ g.r = fr[a].r /\ g.pend = fr[a].pend /\ g.pc = "cancel"
      BY <2>1, Own, BlankFields, Zenon DEF FrameType
    <3>. HIDE DEF g
    <3>. QED BY <2>1, <2>4, <3>1, QuietPlain, PlainPcs, Zenon
  <2>. QED BY <2>1, <2>2, <2>3, <2>4, Zenon

<1>CancelLoadDoes. ASSUME CancelLoad(a) PROVE Does(a)
  <2>. USE <1>CancelLoadDoes
  <2>. DEFINE g == [fr[a] EXCEPT !.pc = "cancelOpen", !.snap = Run(a)]
  <2>1. Active(fr[a]) /\ UNCHANGED store /\ (Leave(a) \/ Step(a, g))
    BY Zenon DEF CancelLoad, Active, Resting, RecoverPc
  <2>2. FrameType(g) /\ g.r = fr[a].r /\ g.pend = fr[a].pend /\ g.pc = "cancelOpen"
    BY <2>1, Own, BlankFields, Zenon DEF FrameType
  <2>. HIDE DEF g
  <2>. QED BY <2>1, <2>2, QuietLeave, QuietPlain, PlainPcs, Zenon

(* The way to _finish_unattempted. *)
<1>QuietUnattempted.
  ASSUME Active(fr[a]), UNCHANGED store, NEW to \in TERMINAL,
         Step(a, [fr[a] EXCEPT !.pc = "unattempted", !.to = to])
  PROVE  Does(a)
  <2>. USE <1>QuietUnattempted
  <2>. DEFINE g == [fr[a] EXCEPT !.pc = "unattempted", !.to = to]
  <2>1. FrameType(g) /\ g.r = fr[a].r /\ g.pend = fr[a].pend /\ g.pc = "unattempted" /\ g.to = to
    BY Own, BlankFields, Zenon DEF FrameType
  <2>2. Step(a, g)
    OBVIOUS
  <2>. HIDE DEF g
  <2>3. Going(g)
    BY <2>1, Zenon DEF Going, CasePc, HonorPc, TransitionPc, AppendPc
  <2>4. Frame(g, run) /\ Follows(fr[a], g)
    BY <2>1, <2>3, Own, ActiveFrame, Zenon DEF Resting, RecoverPc
  <2>. QED BY <2>2, <2>4, Own, StepMoves, Quiet, Zenon DEF Does

<1>CancelOpenDoes. ASSUME CancelOpen(a) PROVE Does(a)
  <2>. USE <1>CancelOpenDoes
  <2>. DEFINE g == [fr[a] EXCEPT !.pc = "cancelDefer"]
  <2>1. /\ Active(fr[a]) /\ UNCHANGED store
        /\ \/ Step(a, g)
           \/ Step(a, [fr[a] EXCEPT !.pc = "unattempted", !.to = "cancelled"])
           \/ Step(a, Transition(fr[a], "cancelled", "leave"))
    BY Zenon DEF CancelOpen, Active, Resting, RecoverPc
  <2>2. FrameType(g) /\ g.r = fr[a].r /\ g.pend = fr[a].pend /\ g.pc = "cancelDefer"
    BY <2>1, Own, BlankFields, Zenon DEF FrameType
  <2>. HIDE DEF g
  <2>3. CASE Step(a, g)
    BY <2>1, <2>2, <2>3, QuietPlain, PlainPcs, Zenon
  <2>4. CASE Step(a, [fr[a] EXCEPT !.pc = "unattempted", !.to = "cancelled"])
    BY <2>1, <2>4, <1>QuietUnattempted, Zenon DEF TERMINAL
  <2>5. CASE Step(a, Transition(fr[a], "cancelled", "leave"))
    BY <2>1, <2>5, QuietTransition, Zenon
  <2>. QED BY <2>1, <2>3, <2>4, <2>5, Zenon

<1>CancelDeferDoes. ASSUME CancelDefer(a) PROVE Does(a)
  <2>. USE <1>CancelDeferDoes
  <2>1. /\ Active(fr[a])
        /\ \/ update(fr[a].r, fr[a].snap.revision, fr[a].snap.status) /\ Leave(a)
           \/ Raise(a) /\ UNCHANGED store
    BY Zenon DEF CancelDefer, Active, Resting, RecoverPc
  <2>2. CASE update(fr[a].r, fr[a].snap.revision, fr[a].snap.status) /\ Leave(a)
    BY <2>1, <2>2, Own, UpdateWrites, LeaveMoves, Zenon DEF Does
  <2>. QED BY <2>1, <2>2, QuietRaise, Zenon

<1>CancelRaceDoes. ASSUME CancelRace(a) PROVE Does(a)
  <2>. USE <1>CancelRaceDoes
  <2>. DEFINE g == [fr[a] EXCEPT !.pc = "cancelDefer", !.snap = Run(a)]
  <2>1. Active(fr[a]) /\ UNCHANGED store /\ (Leave(a) \/ Step(a, g))
    BY Zenon DEF CancelRace, Active, Resting, RecoverPc
  <2>2. FrameType(g) /\ g.r = fr[a].r /\ g.pend = fr[a].pend /\ g.pc = "cancelDefer"
    BY <2>1, Own, BlankFields, Zenon DEF FrameType
  <2>. HIDE DEF g
  <2>. QED BY <2>1, <2>2, QuietLeave, QuietPlain, PlainPcs, Zenon

<1>UnattemptedRowsDoes. ASSUME UnattemptedRows(a) PROVE Does(a)
  <2>. USE <1>UnattemptedRowsDoes
  <2>. DEFINE g == [fr[a] EXCEPT !.pc = "unattemptedOpen", !.done = Persisted(fr[a].r)]
  <2>1. Active(fr[a]) /\ UNCHANGED store /\ Step(a, g) /\ fr[a].pc = "unattempted"
    BY Zenon DEF UnattemptedRows, Active, Resting, RecoverPc
  <2>2. /\ FrameType(g) /\ g.r = fr[a].r /\ g.pend = fr[a].pend /\ g.pc = "unattemptedOpen"
        /\ g.to = fr[a].to
    BY <2>1, Own, BlankFields, Zenon DEF FrameType, Persisted
  <2>3. fr[a].to \in TERMINAL
    BY <2>1, Own, Zenon DEF Frame, Control, Going
  <2>. HIDE DEF g
  <2>4. Going(g)
    BY <2>2, <2>3, Zenon DEF Going, CasePc, HonorPc, TransitionPc, AppendPc
  <2>5. Frame(g, run) /\ Follows(fr[a], g)
    BY <2>1, <2>2, <2>4, Own, ActiveFrame, Zenon DEF Resting, RecoverPc
  <2>. QED BY <2>1, <2>5, Own, StepMoves, Quiet, Zenon DEF Does

(* The way to _append_scoring_pass. *)
<1>QuietAppend.
  ASSUME Active(fr[a]), UNCHANGED store, NEW g, Step(a, g),
         FrameType(g), g.r = fr[a].r, g.pend \subseteq fr[a].pend, g.pc = "append",
         g.src \in {"initial", "rescore", "terminal-unattempted"}, g.to \in TERMINAL \cup {"none"}
  PROVE  Does(a)
  <2>. USE <1>QuietAppend
  <2>1. Going(g)
    BY Zenon DEF Going, CasePc, HonorPc, TransitionPc, AppendPc
  <2>2. Frame(g, run) /\ Follows(fr[a], g)
    BY <2>1, Own, ActiveFrame, Zenon DEF Resting, RecoverPc
  <2>. QED BY <2>2, Own, StepMoves, Quiet, Zenon DEF Does

<1>UnattemptedOpenDoes. ASSUME UnattemptedOpen(a) PROVE Does(a)
  <2>. USE <1>UnattemptedOpenDoes
  <2>. DEFINE synthetic == Cases \ (fr[a].done \cup list_open(fr[a].r))
              g == [fr[a] EXCEPT !.pc = "append", !.src = "terminal-unattempted",
                                 !.synth = synthetic, !.done = fr[a].done \cup synthetic]
  <2>1. Active(fr[a]) /\ UNCHANGED store /\ Step(a, g) /\ fr[a].pc = "unattemptedOpen"
    BY Zenon DEF UnattemptedOpen, Active, Resting, RecoverPc
  <2>2. synthetic \subseteq Cases /\ fr[a].done \cup synthetic \subseteq Cases
    BY <2>1, Own, Zenon DEF FrameType
  <2>. HIDE DEF synthetic
  <2>3. /\ FrameType(g) /\ g.r = fr[a].r /\ g.pend = fr[a].pend /\ g.pc = "append"
        /\ g.src = "terminal-unattempted" /\ g.to = fr[a].to
    BY <2>1, <2>2, Own, BlankFields, Zenon DEF FrameType
  <2>4. fr[a].to \in TERMINAL
    BY <2>1, Own, Zenon DEF Frame, Control, Going
  <2>. HIDE DEF g
  <2>. QED BY <2>1, <2>3, <2>4, <1>QuietAppend, Zenon

<1>AppendLoadDoes. ASSUME AppendLoad(a) PROVE Does(a)
  <2>. USE <1>AppendLoadDoes
  <2>. DEFINE g == [fr[a] EXCEPT !.pc = "appendPrevious", !.snap = Run(a)]
  <2>1. Active(fr[a]) /\ UNCHANGED store /\ Step(a, g) /\ fr[a].pc = "append"
    BY Zenon DEF AppendLoad, Active, Resting, RecoverPc
  <2>2. /\ FrameType(g) /\ g.r = fr[a].r /\ g.pend = fr[a].pend /\ g.pc = "appendPrevious"
        /\ g.to = fr[a].to /\ g.src = fr[a].src /\ g.snap = Run(a)
    BY <2>1, Own, BlankFields, Zenon DEF FrameType
  <2>3. fr[a].src \in {"initial", "rescore", "terminal-unattempted"} /\ fr[a].to \in TERMINAL \cup {"none"}
    BY <2>1, Own, Zenon DEF Frame, Control, Going, AppendPc
  <2>. HIDE DEF g
  <2>4. Going(g)
    BY <2>2, <2>3, Zenon DEF Going, CasePc, HonorPc, TransitionPc, AppendPc
  <2>5. g.snap.revision <= run[g.r].revision
    BY <2>1, <2>2, Own DEF Run, RunRecord
  <2>6. Frame(g, run) /\ Follows(fr[a], g)
    BY <2>1, <2>2, <2>4, <2>5, Own, ActiveFrame, Zenon DEF Resting, RecoverPc
  <2>. QED BY <2>1, <2>6, Own, StepMoves, Quiet, Zenon DEF Does

<1>AppendPreviousDoes. ASSUME AppendPrevious(a) PROVE Does(a)
  <2>. USE <1>AppendPreviousDoes
  <2>. DEFINE g == [fr[a] EXCEPT !.pc = "appendCommit", !.prev = Run(a).current]
  <2>1. Active(fr[a]) /\ UNCHANGED store /\ Step(a, g) /\ fr[a].pc = "appendPrevious"
    BY Zenon DEF AppendPrevious, Active, Resting, RecoverPc
  <2>2. Run(a).current \in Nat
    BY <2>1, Own, Zenon DEF RunRecord
  <2>3. /\ FrameType(g) /\ g.r = fr[a].r /\ g.pend = fr[a].pend /\ g.pc = "appendCommit"
        /\ g.to = fr[a].to /\ g.src = fr[a].src /\ g.snap = fr[a].snap /\ g.prev = Run(a).current
    BY <2>1, <2>2, Own, BlankFields, Zenon DEF FrameType
  <2>4. /\ fr[a].src \in {"initial", "rescore", "terminal-unattempted"}
        /\ fr[a].to \in TERMINAL \cup {"none"}
        /\ fr[a].snap.revision <= run[fr[a].r].revision
    BY <2>1, Own, Zenon DEF Frame, Control, Going, Knows, AppendPc
  <2>. HIDE DEF g
  <2>5. Going(g)
    BY <2>3, <2>4, Zenon DEF Going, CasePc, HonorPc, TransitionPc, AppendPc
  <2>6. g.snap.revision <= run[g.r].revision /\ g.prev = run[g.r].current
    BY <2>3, <2>4, Zenon DEF Run
  <2>7. Frame(g, run) /\ Follows(fr[a], g)
    BY <2>1, <2>3, <2>5, <2>6, Own, ActiveFrame, Zenon DEF Resting, RecoverPc
  <2>. QED BY <2>1, <2>7, Own, StepMoves, Quiet, Zenon DEF Does

<1>AppendRaisesDoes. ASSUME AppendRaises(a) PROVE Does(a)
  <2>. USE <1>AppendRaisesDoes
  <2>1. Active(fr[a]) /\ UNCHANGED store /\ Raise(a)
    BY Zenon DEF AppendRaises, Active, Resting, RecoverPc
  <2>. QED BY <2>1, QuietRaise, Zenon

<1>AppendCommitDoes. ASSUME AppendCommit(a) PROVE Does(a)
  <2>. USE <1>AppendCommitDoes
  <2>. DEFINE f == fr[a]
              pass == [source |-> f.src, scored |-> f.done, previous |-> f.prev]
              final == IF f.to = "none" THEN f.snap.status ELSE f.to
              g == [f EXCEPT !.pc = "cancelRace", !.snap = NoRun]
  <2>1. /\ Active(f) /\ f.pc = "appendCommit"
        /\ \/ append(f.r, f.snap.revision, f.snap.status, pass, f.synth, final, f.flag) /\ Leave(a)
           \/ Step(a, g) /\ UNCHANGED store
           \/ Raise(a) /\ UNCHANGED store
    BY Zenon DEF AppendCommit, Active, Resting, RecoverPc
  <2>2. CASE append(f.r, f.snap.revision, f.snap.status, pass, f.synth, final, f.flag) /\ Leave(a)
    <3>1. /\ f.src \in PassSource \ {"judge"} /\ f.done \in SUBSET Cases /\ f.synth \in SUBSET Cases
          /\ final \in TERMINAL \cup {f.snap.status} /\ f.flag \in BOOLEAN
      BY <2>1, Own, Zenon DEF Frame, FrameType, Control, Going, AppendPc, PassSource
    <3>2. f.snap.revision = run[f.r].revision
      BY <2>2, Zenon DEF append, can_append, Matches
    <3>3. pass = [source |-> f.src, scored |-> f.done, previous |-> run[f.r].current]
      BY <2>1, <3>2, Own, Zenon DEF Frame, Knows
    <3>. HIDE DEF pass, final
    <3>4. append(f.r, f.snap.revision, f.snap.status,
                 [source |-> f.src, scored |-> f.done, previous |-> run[f.r].current],
                 f.synth, final, f.flag)
      BY <2>2, <3>3, Zenon
    <3>5. f.r \in Runs /\ StoreInv /\ ActorsInv
      BY <2>1, Own, Zenon
    <3>. HIDE DEF f
    <3>6. Writes
      BY <3>1, <3>4, <3>5, AppendWrites
    <3>. QED BY <2>2, <3>5, <3>6, LeaveMoves, Zenon DEF Does
  <2>3. CASE Step(a, g) /\ UNCHANGED store
    <3>1. FrameType(g) /\ g.r = fr[a].r /\ g.pend = fr[a].pend /\ g.pc = "cancelRace"
      BY <2>1, Own, NoRunType, BlankFields, Zenon DEF FrameType
    <3>. HIDE DEF g
    <3>. QED BY <2>1, <2>3, <3>1, QuietPlain, PlainPcs, Zenon
  <2>4. CASE Raise(a) /\ UNCHANGED store
    BY <2>1, <2>4, QuietRaise, Zenon
  <2>. QED BY <2>1, <2>2, <2>3, <2>4, Zenon

<1>FailOrQuarantineDoes. ASSUME FailOrQuarantine(a) PROVE Does(a)
  <2>. USE <1>FailOrQuarantineDoes
  <2>1. PICK pc \in {"fail", "quarantine"} :
          Active(fr[a]) /\ UNCHANGED store /\ Step(a, [fr[a] EXCEPT !.pc = pc])
    BY Zenon DEF FailOrQuarantine, Active, Resting, RecoverPc
  <2>. DEFINE g == [fr[a] EXCEPT !.pc = pc]
  <2>2. FrameType(g) /\ g.r = fr[a].r /\ g.pend = fr[a].pend /\ g.pc = pc
    BY <2>1, Own, BlankFields, Zenon DEF FrameType
  <2>3. Step(a, g)
    BY <2>1, Zenon
  <2>. HIDE DEF g
  <2>. QED BY <2>1, <2>2, <2>3, QuietPlain, PlainPcs, Zenon

<1>FailDoes. ASSUME Fail(a) PROVE Does(a)
  <2>. USE <1>FailDoes
  <2>1. /\ Active(fr[a]) /\ UNCHANGED store
        /\ \/ Leave(a)
           \/ Step(a, [fr[a] EXCEPT !.pc = "unattempted", !.to = "failed"])
           \/ Step(a, Transition(fr[a], "failed", "leave"))
    BY Zenon DEF Fail, Active, Resting, RecoverPc
  <2>2. "failed" \in TERMINAL /\ "leave" \in {"toRunning", "rows", "collected", "scored", "leave"}
    BY Zenon DEF TERMINAL
  <2>. QED BY <2>1, <2>2, QuietLeave, <1>QuietUnattempted, QuietTransition, Zenon

<1>QuarantineLoadDoes. ASSUME QuarantineLoad(a) PROVE Does(a)
  <2>. USE <1>QuarantineLoadDoes
  <2>. DEFINE g == [fr[a] EXCEPT !.pc = "quarantineCommit", !.snap = Run(a)]
  <2>1. Active(fr[a]) /\ UNCHANGED store /\ (Step(a, g))
    BY Zenon DEF QuarantineLoad, Active, Resting, RecoverPc
  <2>2. FrameType(g) /\ g.r = fr[a].r /\ g.pend = fr[a].pend /\ g.pc = "quarantineCommit"
    BY <2>1, Own, BlankFields, Zenon DEF FrameType
  <2>. HIDE DEF g
  <2>. QED BY <2>1, <2>2, QuietPlain, PlainPcs, Zenon

<1>QuarantineCommitDoes. ASSUME QuarantineCommit(a) PROVE Does(a)
  <2>. USE <1>QuarantineCommitDoes
  <2>1. /\ Active(fr[a])
        /\ \/ /\ quarantine_indeterminate(fr[a].r, fr[a].snap.revision, fr[a].snap.status)
              /\ Leave(a)
           \/ Die(a) /\ UNCHANGED store
    BY Zenon DEF QuarantineCommit, Active, Resting, RecoverPc
  <2>2. CASE Die(a) /\ UNCHANGED store
    BY <2>2, QuietLeave, Zenon
  <2>. QED BY <2>1, <2>2, Own, QuarantineWrites, LeaveMoves, Zenon DEF Does

<1>MarkUnsupportedDoes. ASSUME MarkUnsupported(a) PROVE Does(a)
  <2>. USE <1>MarkUnsupportedDoes
  <2>1. /\ Active(fr[a]) /\ UNCHANGED store
        /\ \/ Leave(a)
           \/ Step(a, [fr[a] EXCEPT !.pc = "unattempted", !.to = "unsupported"])
           \/ Step(a, Transition(fr[a], "unsupported", "leave"))
    BY Zenon DEF MarkUnsupported, Active, Resting, RecoverPc
  <2>2. "unsupported" \in TERMINAL /\ "leave" \in {"toRunning", "rows", "collected", "scored", "leave"}
    BY Zenon DEF TERMINAL
  <2>. QED BY <2>1, <2>2, QuietLeave, <1>QuietUnattempted, QuietTransition, Zenon

<1>MarkProfileStaleDoes. ASSUME MarkProfileStale(a) PROVE Does(a)
  <2>. USE <1>MarkProfileStaleDoes
  <2>1. /\ Active(fr[a]) /\ UNCHANGED store
        /\ \/ Leave(a) \/ Raise(a)
           \/ Step(a, [fr[a] EXCEPT !.pc = "unattempted", !.to = "profile_stale"])
           \/ Step(a, Transition(fr[a], "profile_stale", "leave"))
    BY Zenon DEF MarkProfileStale, Active, Resting, RecoverPc
  <2>2. "profile_stale" \in TERMINAL /\ "leave" \in {"toRunning", "rows", "collected", "scored", "leave"}
    BY Zenon DEF TERMINAL
  <2>. QED BY <2>1, <2>2, QuietLeave, QuietRaise, <1>QuietUnattempted, QuietTransition, Zenon

<1>RescoreDoes. ASSUME Rescore(a) PROVE Does(a)
  <2>. USE <1>RescoreDoes
  <2>. DEFINE g == [fr[a] EXCEPT !.pc = "rescoreRows"]
  <2>1. Active(fr[a]) /\ fr[a].pc = "rescore" /\ UNCHANGED store /\ (Raise(a) \/ Step(a, g))
    BY Zenon DEF Rescore, Active, Resting, RecoverPc
  <2>2. fr[a].to = "none"
    BY <2>1, Own, Zenon DEF Frame, Control, Going
  <2>3. /\ FrameType(g) /\ g.r = fr[a].r /\ g.pend = fr[a].pend /\ g.pc = "rescoreRows"
        /\ g.to = "none"
    BY <2>1, <2>2, Own, BlankFields, Zenon DEF FrameType
  <2>. HIDE DEF g
  <2>4. Going(g)
    BY <2>3, Zenon DEF Going, CasePc, HonorPc, TransitionPc, AppendPc
  <2>5. Frame(g, run) /\ Follows(fr[a], g)
    BY <2>1, <2>3, <2>4, Own, ActiveFrame, Zenon DEF Resting, RecoverPc
  <2>6. CASE Step(a, g)
    BY <2>1, <2>5, <2>6, Own, StepMoves, Quiet, Zenon DEF Does
  <2>. QED BY <2>1, <2>6, QuietRaise, Zenon

<1>RescoreRowsDoes. ASSUME RescoreRows(a) PROVE Does(a)
  <2>. USE <1>RescoreRowsDoes
  <2>. DEFINE g == [fr[a] EXCEPT !.pc = "append", !.done = Persisted(fr[a].r), !.src = "rescore"]
  <2>1. Active(fr[a]) /\ UNCHANGED store /\ Step(a, g) /\ fr[a].pc = "rescoreRows"
    BY Zenon DEF RescoreRows, Active, Resting, RecoverPc
  <2>2. /\ FrameType(g) /\ g.r = fr[a].r /\ g.pend = fr[a].pend /\ g.pc = "append"
        /\ g.src = "rescore" /\ g.to = fr[a].to
    BY <2>1, Own, BlankFields, Zenon DEF FrameType, Persisted
  <2>3. fr[a].to = "none"
    BY <2>1, Own, Zenon DEF Frame, Control, Going
  <2>. HIDE DEF g
  <2>. QED BY <2>1, <2>2, <2>3, <1>QuietAppend, Zenon

<1>RetryLoadDoes. ASSUME RetryLoad(a) PROVE Does(a)
  <2>. USE <1>RetryLoadDoes
  <2>. DEFINE g == [fr[a] EXCEPT !.pc = "retryOpen", !.snap = Run(a)]
  <2>1. Active(fr[a]) /\ UNCHANGED store /\ (Raise(a) \/ Step(a, g))
    BY Zenon DEF RetryLoad, Active, Resting, RecoverPc
  <2>2. FrameType(g) /\ g.r = fr[a].r /\ g.pend = fr[a].pend /\ g.pc = "retryOpen"
    BY <2>1, Own, BlankFields, Zenon DEF FrameType
  <2>. HIDE DEF g
  <2>. QED BY <2>1, <2>2, QuietRaise, QuietPlain, PlainPcs, Zenon

<1>RetryOpenDoes. ASSUME RetryOpen(a) PROVE Does(a)
  <2>. USE <1>RetryOpenDoes
  <2>. DEFINE free == {r \in Runs : ~Created(r) /\ SameKind(fr[a].r, r)}
  <2>1. /\ Active(fr[a])
        /\ \/ Raise(a) /\ UNCHANGED store
           \/ free # {} /\ create(Min(free)) /\ Leave(a)
    BY Zenon DEF RetryOpen, Active, Resting, RecoverPc
  <2>2. CASE Raise(a) /\ UNCHANGED store
    BY <2>1, <2>2, QuietRaise, Zenon
  <2>3. CASE free # {} /\ create(Min(free)) /\ Leave(a)
    <3>1. free \in SUBSET Nat /\ free \subseteq Runs
      BY NRunsAssumption DEF Runs
    <3>. HIDE DEF free
    <3>2. Min(free) \in Runs
      BY <2>3, <3>1, MinIn, Zenon
    <3>. QED BY <2>1, <2>3, <3>2, Own, CreateWrites, LeaveMoves, Zenon DEF Does
  <2>. QED BY <2>1, <2>2, <2>3, Zenon

<1>BeginLoadDoes. ASSUME BeginLoad(a) PROVE Does(a)
  <2>. USE <1>BeginLoadDoes
  <2>. DEFINE g == [fr[a] EXCEPT !.pc = "beginPrevious", !.snap = Run(a)]
  <2>1. fr[a].pc \in CasePc /\ UNCHANGED store /\ Step(a, g)
    BY Zenon DEF BeginLoad, CasePc
  <2>2. Active(fr[a]) /\ fr[a].c \in Cases
    BY <2>1, OwnCase, Zenon
  <2>3. /\ FrameType(g) /\ g.r = fr[a].r /\ g.pend = fr[a].pend /\ g.pc = "beginPrevious"
        /\ g.c \in Cases
    BY <2>2, Own, BlankFields, Zenon DEF FrameType
  <2>. HIDE DEF g
  <2>. QED BY <2>1, <2>2, <2>3, QuietCase, Zenon DEF CasePc

<1>BeginPreviousDoes. ASSUME BeginPrevious(a) PROVE Does(a)
  <2>. USE <1>BeginPreviousDoes
  <2>. DEFINE f == fr[a]
              n == Len(attempts[f.r][f.c]) + 1
              g == [f EXCEPT !.pc = "begin", !.att[f.c] = n]
  <2>1. fr[a].pc \in CasePc /\ UNCHANGED store /\ Step(a, g)
    BY Zenon DEF BeginPrevious, CasePc
  <2>2. Active(f) /\ f.c \in Cases /\ f.r \in Runs /\ FrameType(f) /\ TypeOK
    BY <2>1, OwnCase, Own, Zenon
  <2>3. n \in Nat
    BY <2>2 DEF TypeOK
  <2>. HIDE DEF n
  <2>4. FrameType(g) /\ g.r = f.r /\ g.pend = f.pend /\ g.pc = "begin" /\ g.c \in Cases
    BY <2>2, <2>3, BlankFields, Zenon DEF FrameType
  <2>. HIDE DEF g
  <2>. QED BY <2>1, <2>2, <2>4, QuietCase, Zenon DEF CasePc

<1>BeginDoes. ASSUME Begin(a) PROVE Does(a)
  <2>. USE <1>BeginDoes
  <2>. DEFINE f == fr[a]
              g == [f EXCEPT !.pc = "dispatch"]
  <2>1. /\ f.pc \in CasePc
        /\ \/ begin(f.r, f.c, f.att[f.c], f.snap.revision, f.snap.status) /\ Step(a, g)
           \/ BeginConflict(a) /\ UNCHANGED store
    BY Zenon DEF Begin, CasePc
  <2>2. Active(f) /\ f.c \in Cases /\ f.r \in Runs /\ FrameType(f) /\ TypeOK
    BY <2>1, OwnCase, Own, Zenon
  <2>3. CASE begin(f.r, f.c, f.att[f.c], f.snap.revision, f.snap.status) /\ Step(a, g)
    <3>1. FrameType(g) /\ g.r = f.r /\ g.pend = f.pend /\ g.pc = "dispatch" /\ g.c \in Cases
      BY <2>2, BlankFields, Zenon DEF FrameType
    <3>2. Writes
      BY <2>2, <2>3, BeginWrites, Zenon
    <3>. HIDE DEF g
    <3>3. Frame(g, run) /\ Follows(f, g)
      BY <2>2, <3>1, Own, CaseFrame, Zenon DEF CasePc
    <3>. QED BY <2>2, <2>3, <3>2, <3>3, Own, StepMoves, Zenon DEF Does
  <2>4. CASE BeginConflict(a) /\ UNCHANGED store
    BY <2>2, <2>4, ConflictMoves, Quiet, Zenon DEF Does
  <2>. QED BY <2>1, <2>3, <2>4, Zenon

<1>DispatchDoes.
  ASSUME Dispatch(a)
  PROVE  Does(a) \/ Dispatched(a)
  <2>. USE <1>DispatchDoes
  <2>. DEFINE f == fr[a]
              g == [f EXCEPT !.pc = "dispatchAbort"]
  <2>1. f.pc \in CasePc /\ (Dispatched(a) \/ (Step(a, g) /\ UNCHANGED store))
    BY Zenon DEF Dispatch, Dispatched, CasePc
  <2>2. FrameType(f) /\ f.c \in Cases /\ Active(f)
    BY <2>1, OwnPend, Zenon
  <2>3. FrameType(g) /\ g.r = f.r /\ g.pend = f.pend /\ g.pc = "dispatchAbort" /\ g.c = f.c
    BY <2>2, BlankFields, Zenon DEF FrameType
  <2>. HIDE DEF g
  <2>. QED BY <2>1, <2>2, <2>3, QuietCase, Zenon DEF CasePc

<1>DispatchAbortDoes. ASSUME DispatchAbort(a) PROVE Does(a)
  <2>. USE <1>DispatchAbortDoes
  <2>. DEFINE f == fr[a]
  <2>1. /\ f.pc \in CasePc /\ BeginConflict(a)
        /\ \/ attempt_transition(f.r, f.c, f.att[f.c], "prepared", "failed")
           \/ UNCHANGED store
    BY Zenon DEF DispatchAbort, CasePc
  <2>2. Active(f) /\ f.c \in Cases /\ f.r \in Runs /\ TypeOK
    BY <2>1, OwnCase, Own, Zenon
  <2>3. Writes
    BY <2>1, <2>2, AbandonWrites, Quiet, Zenon
  <2>. QED BY <2>1, <2>2, <2>3, ConflictMoves, Zenon DEF Does

<1>BeginRaiseDoes. ASSUME BeginRaise(a) PROVE Does(a)
  <2>. USE <1>BeginRaiseDoes
  <2>1. Active(fr[a]) /\ UNCHANGED store /\ Raise(a)
    BY Zenon DEF BeginRaise, Active, Resting, RecoverPc
  <2>. QED BY <2>1, QuietRaise, Zenon
<1>1. CASE \/ TransitionLoad(a) \/ TransitionCommit(a)
           \/ HonorCancellation(a) \/ CancelLoad(a) \/ CancelOpen(a) \/ CancelDefer(a) \/ CancelRace(a)
  BY <1>1, <1>TransitionLoadDoes, <1>TransitionCommitDoes, <1>HonorCancellationDoes, <1>CancelLoadDoes,
     <1>CancelOpenDoes, <1>CancelDeferDoes, <1>CancelRaceDoes, Zenon
<1>2. CASE \/ UnattemptedRows(a) \/ UnattemptedOpen(a)
           \/ AppendLoad(a) \/ AppendPrevious(a) \/ AppendRaises(a) \/ AppendCommit(a)
  BY <1>2, <1>UnattemptedRowsDoes, <1>UnattemptedOpenDoes, <1>AppendLoadDoes, <1>AppendPreviousDoes,
     <1>AppendRaisesDoes, <1>AppendCommitDoes, Zenon
<1>3. CASE \/ FailOrQuarantine(a) \/ Fail(a) \/ QuarantineLoad(a) \/ QuarantineCommit(a)
           \/ MarkUnsupported(a) \/ MarkProfileStale(a)
  BY <1>3, <1>FailOrQuarantineDoes, <1>FailDoes, <1>QuarantineLoadDoes, <1>QuarantineCommitDoes,
     <1>MarkUnsupportedDoes, <1>MarkProfileStaleDoes, Zenon
<1>4. CASE Rescore(a) \/ RescoreRows(a) \/ RetryLoad(a) \/ RetryOpen(a)
  BY <1>4, <1>RescoreDoes, <1>RescoreRowsDoes, <1>RetryLoadDoes, <1>RetryOpenDoes, Zenon
<1>5. CASE \/ BeginLoad(a) \/ BeginPrevious(a) \/ Begin(a) \/ Dispatch(a) \/ DispatchAbort(a)
           \/ BeginRaise(a)
  BY <1>5, <1>BeginLoadDoes, <1>BeginPreviousDoes, <1>BeginDoes, <1>DispatchDoes, <1>DispatchAbortDoes,
     <1>BeginRaiseDoes, Zenon
<1>. QED BY <1>1, <1>2, <1>3, <1>4, <1>5, Zenon DEF ServiceStep
=============================================================================
