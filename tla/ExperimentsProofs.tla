------------------------- MODULE ExperimentsProofs --------------------------
(***************************************************************************)
(* Experiments keeps the promises of CellLedger, and its allocation is     *)
(* complete while the lock is not lost, for any number of cells, services, *)
(* operators, calls and faults.                                            *)
(***************************************************************************)
EXTENDS Experiments, TLAPS

AtOneCell == {"reset", "claim", "create", "complete", "fail"}
Allocating == {"cell"} \cup AtOneCell

(* What a call knows at each of its steps. *)
FlowInv ==
  /\ \A s \in Services :
       /\ sf[s].pc \in {"bind", "publish"} => sf[s].content \in Contents
       /\ sf[s].pc \in Allocating => spec # None
       /\ sf[s].pc \in AtOneCell => sf[s].at \in Cells
       /\ sf[s].pc = "complete" => run[sf[s].at] # "absent"
  /\ \A o \in Operators :
       /\ of[o].pc # "idle" => spec # None /\ of[o].at \in Cells
       /\ of[o].pc = "create" => cell[of[o].at].owned
  /\ \A c \in Cells :
       cell[c].owned => run[c] # "absent" /\ cell[c].status \in {"allocated", "cancelled"}

(* The retry Runs are numbered without gaps; the last may be unlisted. *)
RetryInv ==
  /\ \A c \in Cells : \A i \in 1..Len(cell[c].superseding) :
       cell[c].superseding[i] = i /\ i \in retries[c]
  /\ \A o \in Operators :
       LET n == Len(cell[of[o].at].superseding)
       IN  /\ of[o].pc = "create" => of[o].no \in 1..(n + 1)
           /\ of[o].pc = "record" => of[o].no = n + 1 /\ n + 1 \in retries[of[o].at]
  /\ \A o, q \in Operators :
       of[o].pc = "record" /\ of[q].pc = "record" /\ of[o].at = of[q].at => o = q

(* While the lock is not lost, only its holder is in a call, and what it    *)
(* read stays true except for cancellations.                                *)
Progress(s) ==
  /\ sf[s].pc # "idle" => lock = s
  /\ sf[s].pc = "reset" => run[sf[s].at] = "absent"
  /\ sf[s].pc = "claim" => cell[sf[s].at].status # "allocating"
  /\ sf[s].pc = "create" => cell[sf[s].at].status # "pending"
  /\ sf[s].pc \in Allocating => \A c \in Cells :
       /\ c < sf[s].at => cell[c].status \in Settled
       /\ c > sf[s].at \/ (c = sf[s].at /\ sf[s].pc = "cell") =>
            cell[c].status \in {sf[s].seen[c], "cancelled"}

LockInv ==
  ~used.lost =>
    /\ \A s \in Services : Progress(s)
    /\ \A c \in Cells : cell[c].status = "pending" => run[c] = "absent"

ExpInv == ExpTypeOK /\ FlowInv /\ RetryInv /\ LockInv

-----------------------------------------------------------------------------
(* What the control operators do to the activation records. *)
LEMMA ServiceGotoFacts ==
  ASSUME ExpTypeOK, NEW s \in Services, NEW pc \in ServiceStep, ServiceGoto(s, pc)
  PROVE  /\ sf' \in [Services -> ServiceFrame]
         /\ \A q \in Services : q # s => sf'[q] = sf[q]
         /\ sf'[s].pc = pc
         /\ sf'[s].content = sf[s].content
         /\ sf'[s].seen = sf[s].seen
         /\ sf'[s].at = sf[s].at
BY Zenon DEF ExpTypeOK, ServiceGoto, ServiceFrame

LEMMA NextCellFacts ==
  ASSUME ExpTypeOK, NEW s \in Services, sf[s].at \in Cells, NextCell(s)
  PROVE  /\ sf' \in [Services -> ServiceFrame]
         /\ \A q \in Services : q # s => sf'[q] = sf[q]
         /\ sf'[s].pc = "cell"
         /\ sf'[s].seen = sf[s].seen
         /\ sf'[s].at = sf[s].at + 1
<1> DEFINE new == [sf[s] EXCEPT !.pc = "cell", !.at = sf[s].at + 1]
<1>1. sf[s] \in ServiceFrame
  BY Zenon DEF ExpTypeOK
<1>2. sf[s].at + 1 \in 1..(NCells + 1)
  BY NCellsAssumption DEF Cells
<1>3. new \in ServiceFrame
  BY <1>1, <1>2, Zenon DEF ServiceFrame, ServiceStep
<1>4. new.pc = "cell" /\ new.seen = sf[s].seen /\ new.at = sf[s].at + 1
  BY <1>1, Zenon DEF ServiceFrame
<1>5. sf' = [sf EXCEPT ![s] = new]
  BY Zenon DEF NextCell
<1> HIDE DEF new
<1> QED
  BY <1>3, <1>4, <1>5, Zenon DEF ExpTypeOK

LEMMA LeaveFacts ==
  ASSUME ExpTypeOK, NEW s \in Services, Leave(s)
  PROVE  /\ sf' \in [Services -> ServiceFrame]
         /\ \A q \in Services : q # s => sf'[q] = sf[q]
         /\ sf'[s].pc = "idle"
         /\ lock' \in Services \cup {None}
         /\ lock # s => lock' = lock
BY NCellsAssumption
   DEF ExpTypeOK, Leave, Unlocked, ServiceFrame, ServiceStep, Cells, Idle, CellStatus

LEMMA ListFacts ==
  ASSUME ExpTypeOK, NEW s \in Services,
         sf' = [sf EXCEPT ![s] = [sf[s] EXCEPT !.pc = "cell", !.seen = Statuses, !.at = 1]]
  PROVE  /\ sf' \in [Services -> ServiceFrame]
         /\ \A q \in Services : q # s => sf'[q] = sf[q]
         /\ sf'[s].pc = "cell"
         /\ \A c \in Cells : sf'[s].seen[c] = cell[c].status
         /\ sf'[s].at = 1
<1> DEFINE new == [sf[s] EXCEPT !.pc = "cell", !.seen = Statuses, !.at = 1]
<1>1. sf[s] \in ServiceFrame
  BY Zenon DEF ExpTypeOK
<1>2. Statuses \in [Cells -> CellStatus]
  BY Zenon DEF Statuses, ExpTypeOK, CellRecord
<1>3. 1 \in 1..(NCells + 1)
  BY NCellsAssumption
<1>4. new \in ServiceFrame
  BY <1>1, <1>2, <1>3, Zenon DEF ServiceFrame, ServiceStep
<1>5. new.pc = "cell" /\ new.seen = Statuses /\ new.at = 1
  BY <1>1, Zenon DEF ServiceFrame
<1>6. \A c \in Cells : Statuses[c] = cell[c].status
  BY Zenon DEF Statuses
<1>7. sf' = [sf EXCEPT ![s] = new]
  OBVIOUS
<1> HIDE DEF new
<1>8. sf' \in [Services -> ServiceFrame] /\ sf'[s] = new
  BY <1>4, <1>7, Zenon DEF ExpTypeOK
<1>9. \A q \in Services : q # s => sf'[q] = sf[q]
  BY <1>7, Zenon DEF ExpTypeOK
<1> QED
  BY <1>5, <1>6, <1>8, <1>9, Zenon

(* While the lock is not lost, the other services are idle during a call. *)
LEMMA OthersIdle ==
  ASSUME ExpInv, NEW s \in Services, sf[s].pc # "idle", ~used.lost,
         \A q \in Services : q # s => sf'[q] = sf[q]
  PROVE  \A q \in Services : q # s => Progress(q)'
BY Zenon DEF ExpInv, LockInv, Progress, Allocating, AtOneCell

(* A step by which a service leaves its call, and that changes no cell. *)
LEMMA LeaveInv ==
  ASSUME ExpInv, NEW s \in Services, Leave(s),
         UNCHANGED <<spec, cell, run, retries, of>>, key' \in Contents \cup {None},
         used' \in [calls : Nat, faults : Nat, lost : BOOLEAN], used'.lost = used.lost
  PROVE  ExpInv'
<1> USE DEF ExpInv
<1>1. ExpTypeOK'
  BY LeaveFacts, Zenon DEF ExpTypeOK
<1>2. FlowInv'
  BY LeaveFacts DEF FlowInv, Allocating, AtOneCell
<1>3. RetryInv'
  BY Zenon DEF RetryInv
<1>4. LockInv'
  BY LeaveFacts DEF LockInv, Progress, Allocating, AtOneCell
<1> QED
  BY <1>1, <1>2, <1>3, <1>4, Zenon

LEMMA RejectInv ==
  ASSUME ExpInv, NEW s \in Services, Reject(s) \/ Return(s) \/ CrashService(s)
  PROVE  ExpInv'
<1>1. Leave(s) /\ UNCHANGED <<spec, key, cell, run, retries, of>>
  BY Zenon DEF Reject, Return, CrashService, matrix, runs
<1>2. used' \in [calls : Nat, faults : Nat, lost : BOOLEAN] /\ used'.lost = used.lost
  BY DEF Reject, Return, CrashService, ExpInv, ExpTypeOK
<1>3. key' \in Contents \cup {None}
  BY <1>1, Zenon DEF ExpInv, ExpTypeOK
<1> QED
  BY <1>1, <1>2, <1>3, LeaveInv, Zenon

LEMMA StartInv ==
  ASSUME ExpInv, NEW s \in Services, NEW content \in Contents \cup {None}, Start(s, content)
  PROVE  ExpInv'
<1> USE DEF ExpInv
<1> DEFINE new == [Idle EXCEPT !.pc = IF content = None THEN "list" ELSE "bind",
                               !.content = content]
<1>1. new \in ServiceFrame /\ new.content = content
  <2>1. 1 \in 1..(NCells + 1)
    BY NCellsAssumption
  <2>2. Idle \in ServiceFrame
    BY <2>1, Zenon DEF Idle, ServiceFrame, ServiceStep, CellStatus
  <2> QED
    BY <2>2, Zenon DEF ServiceFrame, ServiceStep
<1>2. new.pc = IF content = None THEN "list" ELSE "bind"
  BY Zenon DEF Idle
<1>3. sf' = [sf EXCEPT ![s] = new] /\ lock' = s /\ lock = None
  BY Zenon DEF Start
<1>4. used' \in [calls : Nat, faults : Nat, lost : BOOLEAN] /\ used'.lost = used.lost
  BY DEF Start, ExpTypeOK
<1>5. UNCHANGED <<spec, key, cell, run, retries, of>>
  BY Zenon DEF Start, matrix, runs
<1> HIDE DEF new
<1>6. ExpTypeOK'
  BY <1>1, <1>3, <1>4, <1>5, Zenon DEF ExpTypeOK
<1>7. FlowInv'
  BY <1>1, <1>2, <1>3, <1>5, Zenon DEF FlowInv, Allocating, AtOneCell, ExpTypeOK
<1>8. RetryInv'
  BY <1>5, Zenon DEF RetryInv
<1>9. LockInv'
  BY <1>1, <1>2, <1>3, <1>4, <1>5, NoneAssumption
     DEF LockInv, Progress, Allocating, AtOneCell, ExpTypeOK
<1> QED
  BY <1>6, <1>7, <1>8, <1>9, Zenon

(* A step within a call, before the cells are read. *)
LEMMA PrepareInv ==
  ASSUME ExpInv, NEW s \in Services, sf[s].pc # "idle", NEW pc \in {"publish", "list"},
         pc = "publish" => sf[s].pc = "bind",
         ServiceGoto(s, pc), lock' = lock, UNCHANGED <<cell, run, retries, of, used>>,
         spec' \in Contents \cup {None}, spec # None => spec' = spec,
         key' \in Contents \cup {None}
  PROVE  ExpInv'
<1> USE DEF ExpInv
<1>1. pc \in ServiceStep
  BY Zenon DEF ServiceStep
<1>2. ExpTypeOK'
  BY <1>1, ServiceGotoFacts, Zenon DEF ExpTypeOK
<1>3. FlowInv'
  BY <1>1, ServiceGotoFacts DEF FlowInv, Allocating, AtOneCell
<1>4. RetryInv'
  BY Zenon DEF RetryInv
<1>5. LockInv'
  BY <1>1, ServiceGotoFacts, OthersIdle DEF LockInv, Progress, Allocating, AtOneCell
<1> QED
  BY <1>2, <1>3, <1>4, <1>5, Zenon

LEMMA BindInv ==
  ASSUME ExpInv, NEW s \in Services, NEW keyed \in BOOLEAN, Bind(s, keyed)
  PROVE  ExpInv'
<1>1. sf[s].pc = "bind" /\ sf[s].content \in Contents
  BY Zenon DEF Bind, ExpInv, FlowInv
<1>2. UNCHANGED <<spec, cell, run, retries, of, used>> /\ key' \in Contents \cup {None}
  BY <1>1, Zenon DEF Bind, ExpInv, ExpTypeOK, runs
<1>3. CASE Leave(s)
  BY <1>2, <1>3, LeaveInv, Zenon DEF ExpInv, ExpTypeOK
<1>4. CASE ServiceGoto(s, "publish") /\ lock' = lock
  BY <1>1, <1>2, <1>4, PrepareInv, Zenon DEF ExpInv, ExpTypeOK
<1> QED
  BY <1>3, <1>4, Zenon DEF Bind

LEMMA PublishInv ==
  ASSUME ExpInv, NEW s \in Services, publish_spec_and_cells(s)
  PROVE  ExpInv'
<1>1. sf[s].pc = "publish" /\ sf[s].content \in Contents
  BY Zenon DEF publish_spec_and_cells, ExpInv, FlowInv
<1>2. UNCHANGED <<key, cell, run, retries, of, used>>
  BY Zenon DEF publish_spec_and_cells, runs
<1>3. spec' \in Contents \cup {None} /\ (spec # None => spec' = spec)
  BY <1>1, Zenon DEF publish_spec_and_cells, ExpInv, ExpTypeOK
<1>4. CASE spec \in {None, sf[s].content}
  BY <1>1, <1>2, <1>3, <1>4, PrepareInv, Zenon DEF publish_spec_and_cells, ExpInv, ExpTypeOK
<1>5. CASE spec \notin {None, sf[s].content}
  BY <1>2, <1>3, <1>5, LeaveInv, Zenon DEF publish_spec_and_cells, ExpInv, ExpTypeOK
<1> QED
  BY <1>4, <1>5, Zenon

(* _allocate_locked reads the cells. *)
LEMMA ListInv ==
  ASSUME ExpInv, NEW s \in Services, List(s)
  PROVE  ExpInv'
<1>1. UNCHANGED <<spec, key, cell, run, retries, of, used>> /\ sf[s].pc = "list"
  BY Zenon DEF List, matrix, runs
<1>2. CASE Leave(s)
  BY <1>1, <1>2, LeaveInv, Zenon DEF ExpInv, ExpTypeOK
<1>3. CASE spec # None
  <2> USE DEF ExpInv
  <2>1. /\ sf' = [sf EXCEPT ![s] = [sf[s] EXCEPT !.pc = "cell", !.seen = Statuses, !.at = 1]]
        /\ lock' = lock
    BY <1>3, Zenon DEF List
  <2>2. ExpTypeOK'
    BY <1>1, <2>1, ListFacts, Zenon DEF ExpTypeOK
  <2>3. FlowInv'
    BY <1>1, <1>3, <2>1, ListFacts, Zenon DEF FlowInv, Allocating, AtOneCell
  <2>4. RetryInv'
    BY <1>1, Zenon DEF RetryInv
  <2>5. LockInv'
    <3> SUFFICES ASSUME ~used.lost PROVE LockInv'
      BY <1>1, Zenon DEF LockInv
    <3>1. ASSUME NEW c \in Cells PROVE ~(c < 1) /\ cell[c].status = sf'[s].seen[c]
      <4>1. ~(c < 1)
        BY NCellsAssumption DEF Cells
      <4> QED
        BY <2>1, <4>1, ListFacts, Zenon
    <3>2. sf'[s].pc = "cell" /\ sf'[s].at = 1 /\ lock' = s
      BY <1>1, <2>1, ListFacts, Zenon DEF LockInv, Progress
    <3>3. Progress(s)'
      BY <1>1, <3>1, <3>2, Zenon DEF Progress
    <3> QED
      BY <1>1, <2>1, <3>3, ListFacts, OthersIdle, Zenon DEF LockInv
  <2> QED
    BY <2>2, <2>3, <2>4, <2>5, Zenon
<1> QED
  BY <1>2, <1>3, Zenon DEF List

(* Recover moves to the step that the Run's existence calls for. *)
LEMMA RecoverInv ==
  ASSUME ExpInv, NEW s \in Services, Recover(s)
  PROVE  ExpInv'
<1> USE DEF ExpInv
<1> DEFINE pc == IF run[sf[s].at] # "absent" THEN "complete" ELSE "reset"
<1>1. UNCHANGED <<spec, key, cell, run, retries, lock, of, used>>
  BY Zenon DEF Recover, matrix, runs
<1>2. sf[s].pc = "cell" /\ sf[s].at \in Cells /\ pc \in ServiceStep /\ ServiceGoto(s, pc)
  BY Zenon DEF Recover, AtCell, ServiceStep
<1>3. ExpTypeOK'
  BY <1>1, <1>2, ServiceGotoFacts, Zenon DEF ExpTypeOK
<1>4. FlowInv'
  BY <1>1, <1>2, ServiceGotoFacts DEF FlowInv, Allocating, AtOneCell
<1>5. RetryInv'
  BY <1>1, Zenon DEF RetryInv
<1>6. LockInv'
  BY <1>1, <1>2, ServiceGotoFacts, OthersIdle DEF LockInv, Progress, Allocating, AtOneCell
<1> QED
  BY <1>3, <1>4, <1>5, <1>6, Zenon

(* A step that leaves retries and operators alone. *)
LEMMA SupersedingKept ==
  ASSUME FlowInv, RetryInv, UNCHANGED <<retries, of>>,
         \A c \in Cells : cell'[c].superseding = cell[c].superseding
  PROVE  RetryInv'
<1>1. \A o \in Operators : of[o].pc \in {"create", "record"} =>
        cell'[of[o].at].superseding = cell[of[o].at].superseding
  BY Zenon DEF FlowInv
<1>2. \A c \in Cells : \A i \in 1..Len(cell'[c].superseding) :
        cell'[c].superseding[i] = i /\ i \in retries'[c]
  BY DEF RetryInv
<1> QED
  BY <1>1, <1>2, Zenon DEF RetryInv

(* The service goes on to the next cell; the current one is settled. *)
LEMMA NextCellInv ==
  ASSUME ExpInv, NEW s \in Services, sf[s].pc \in Allocating, sf[s].at \in Cells,
         NextCell(s), UNCHANGED <<spec, key, run, retries, lock, of, used>>,
         cell' \in [Cells -> CellRecord],
         \A c \in Cells : c # sf[s].at => cell'[c] = cell[c],
         ~used.lost => cell'[sf[s].at].status \in Settled,
         \A c \in Cells : cell'[c].superseding = cell[c].superseding,
         \A c \in Cells : cell[c].owned => cell'[c].owned,
         \A c \in Cells : cell'[c].owned =>
            run[c] # "absent" /\ cell'[c].status \in {"allocated", "cancelled"}
  PROVE  ExpInv'
<1> USE DEF ExpInv
<1>1. ExpTypeOK'
  BY NextCellFacts, Zenon DEF ExpTypeOK
<1>2. FlowInv'
  BY NextCellFacts DEF FlowInv, Allocating, AtOneCell
<1>3. RetryInv'
  BY SupersedingKept, Zenon
<1>4. LockInv'
  <2> SUFFICES ASSUME ~used.lost PROVE LockInv'
    BY Zenon DEF LockInv
  <2>1. sf[s].pc # "idle" /\ lock = s
    BY Zenon DEF LockInv, Progress, Allocating, AtOneCell
  <2>2. ASSUME NEW c \in Cells
        PROVE  /\ c < sf[s].at + 1 => cell'[c].status \in Settled
               /\ c > sf[s].at => cell'[c].status \in {sf[s].seen[c], "cancelled"}
    BY DEF LockInv, Progress, Cells
  <2>3. Progress(s)'
    BY <2>1, <2>2, NextCellFacts DEF Progress, Cells
  <2>4. \A c \in Cells : cell'[c].status = "pending" => run[c] = "absent"
    BY Zenon DEF LockInv, Settled
  <2> QED
    BY <2>1, <2>3, <2>4, NextCellFacts, OthersIdle, Zenon DEF LockInv
<1> QED
  BY <1>1, <1>2, <1>3, <1>4, Zenon

LEMMA SkipInv ==
  ASSUME ExpInv, NEW s \in Services, Skip(s)
  PROVE  ExpInv'
<1>1. sf[s].pc = "cell" /\ sf[s].at \in Cells /\ NextCell(s)
  BY Zenon DEF Skip, AtCell
<1>2. UNCHANGED <<spec, key, cell, run, retries, lock, of, used>>
  BY Zenon DEF Skip, matrix, runs
<1>3. ~used.lost => cell[sf[s].at].status \in Settled
  BY <1>1, Zenon DEF Skip, Seen, ExpInv, LockInv, Progress, Allocating, Settled
<1> QED
  BY <1>1, <1>2, <1>3, NextCellInv, Zenon DEF ExpInv, ExpTypeOK, FlowInv, Allocating

(* What a transaction on the status of a cell does. *)
LEMMA SetStatusFacts ==
  ASSUME ExpTypeOK, NEW c \in Cells, NEW status \in CellStatus, SetStatus(c, status)
  PROVE  /\ cell' \in [Cells -> CellRecord]
         /\ \A d \in Cells : d # c => cell'[d] = cell[d]
         /\ \A d \in Cells : cell'[d].superseding = cell[d].superseding
         /\ \A d \in Cells : cell'[d].owned = cell[d].owned
         /\ cell'[c].status = status
BY Zenon DEF ExpTypeOK, SetStatus, CellRecord

LEMMA CompleteFacts ==
  ASSUME ExpTypeOK, NEW c \in Cells,
         cell' = [cell EXCEPT ![c] = [cell[c] EXCEPT !.status = "allocated", !.owned = TRUE]]
  PROVE  /\ cell' \in [Cells -> CellRecord]
         /\ \A d \in Cells : d # c => cell'[d] = cell[d]
         /\ \A d \in Cells : cell'[d].superseding = cell[d].superseding
         /\ cell'[c].owned
         /\ cell'[c].status = "allocated"
<1> DEFINE new == [cell[c] EXCEPT !.status = "allocated", !.owned = TRUE]
<1>1. cell[c] \in CellRecord
  BY Zenon DEF ExpTypeOK
<1>2. /\ new \in CellRecord
      /\ new.status = "allocated" /\ new.owned /\ new.superseding = cell[c].superseding
  BY <1>1, Zenon DEF CellRecord, CellStatus, Settled
<1>3. cell' = [cell EXCEPT ![c] = new]
  OBVIOUS
<1> HIDE DEF new
<1>4. cell' \in [Cells -> CellRecord] /\ cell'[c] = new
  BY <1>2, <1>3 DEF ExpTypeOK
<1>5. \A d \in Cells : d # c => cell'[d] = cell[d]
  BY <1>3, Zenon DEF ExpTypeOK
<1> QED
  BY <1>2, <1>4, <1>5, Zenon

LEMMA CompleteInv ==
  ASSUME ExpInv, NEW s \in Services, complete_claimed_cell(s)
  PROVE  ExpInv'
<1> USE DEF ExpInv
<1>1. sf[s].pc = "complete" /\ sf[s].at \in Cells /\ run[sf[s].at] # "absent"
  BY Zenon DEF complete_claimed_cell, FlowInv, AtOneCell
<1>2. UNCHANGED <<spec, key, run, retries, of, used>>
  BY Zenon DEF complete_claimed_cell, matrix, runs
<1>3. CASE cell[sf[s].at].status = "allocating"
  <2>1. /\ cell' = [cell EXCEPT ![sf[s].at] =
                     [cell[sf[s].at] EXCEPT !.status = "allocated", !.owned = TRUE]]
        /\ NextCell(s) /\ lock' = lock
    BY <1>3, Zenon DEF complete_claimed_cell
  <2> QED
    BY <1>1, <1>2, <2>1, CompleteFacts, NextCellInv, Zenon DEF FlowInv, Allocating, AtOneCell, Settled
<1>4. CASE cell[sf[s].at].status = "allocated"
  <2>1. cell' = cell /\ NextCell(s) /\ lock' = lock
    BY <1>4, Zenon DEF complete_claimed_cell
  <2> QED
    BY <1>1, <1>2, <1>4, <2>1, NextCellInv, Zenon
       DEF FlowInv, Allocating, AtOneCell, Settled, ExpTypeOK
<1>5. CASE cell[sf[s].at].status \notin {"allocating", "allocated"}
  <2>1. cell' = cell /\ Leave(s)
    BY <1>5, Zenon DEF complete_claimed_cell
  <2> QED
    BY <1>2, <2>1, LeaveInv, Zenon DEF ExpTypeOK
<1> QED
  BY <1>3, <1>4, <1>5, Zenon

LEMMA FailInv ==
  ASSUME ExpInv, NEW s \in Services, fail_cell_safely(s)
  PROVE  ExpInv'
<1> USE DEF ExpInv
<1>1. sf[s].pc = "fail" /\ sf[s].at \in Cells
  BY Zenon DEF fail_cell_safely, FlowInv, AtOneCell
<1>2. UNCHANGED <<spec, key, run, retries, of, used>>
  BY Zenon DEF fail_cell_safely, matrix, runs
<1>3. CASE cell[sf[s].at].status = "allocating"
  <2>1. SetStatus(sf[s].at, "failed") /\ NextCell(s) /\ lock' = lock
    BY <1>3, Zenon DEF fail_cell_safely
  <2>2. ~cell[sf[s].at].owned
    BY <1>1, <1>3, Zenon DEF FlowInv
  <2>3. "failed" \in CellStatus /\ "failed" \in Settled
    BY Zenon DEF CellStatus, Settled
  <2> QED
    BY <1>1, <1>2, <2>1, <2>2, <2>3, SetStatusFacts, NextCellInv
       DEF FlowInv, Allocating, AtOneCell
<1>4. CASE cell[sf[s].at].status \in {"allocated", "failed"}
  <2>1. cell' = cell /\ NextCell(s) /\ lock' = lock
    BY <1>4, Zenon DEF fail_cell_safely
  <2> QED
    BY <1>1, <1>2, <1>4, <2>1, NextCellInv, Zenon
       DEF FlowInv, Allocating, AtOneCell, Settled, ExpTypeOK
<1>5. CASE cell[sf[s].at].status \notin {"allocating", "allocated", "failed"}
  <2>1. cell' = cell /\ Leave(s)
    BY <1>5, Zenon DEF fail_cell_safely
  <2> QED
    BY <1>2, <2>1, LeaveInv, Zenon DEF ExpTypeOK
<1> QED
  BY <1>3, <1>4, <1>5, Zenon

(* A step at one cell that sets its status and stays there. *)
LEMMA StayInv ==
  ASSUME ExpInv, NEW s \in Services, sf[s].pc \in Allocating, sf[s].at \in Cells,
         NEW pc \in {"claim", "create"}, ServiceGoto(s, pc),
         UNCHANGED <<spec, key, run, retries, lock, of, used>>,
         cell' \in [Cells -> CellRecord],
         \A d \in Cells : d # sf[s].at => cell'[d] = cell[d],
         \A d \in Cells : cell'[d].superseding = cell[d].superseding,
         \A d \in Cells : cell'[d].owned = cell[d].owned,
         cell[sf[s].at].owned => cell'[sf[s].at].status = cell[sf[s].at].status,
         ~used.lost =>
           /\ pc = "claim" => cell'[sf[s].at].status # "allocating"
           /\ pc = "create" => cell'[sf[s].at].status # "pending"
           /\ cell'[sf[s].at].status = "pending" => run[sf[s].at] = "absent"
  PROVE  ExpInv'
<1> USE DEF ExpInv
<1>1. pc \in ServiceStep
  BY Zenon DEF ServiceStep
<1>2. ExpTypeOK'
  BY <1>1, ServiceGotoFacts, Zenon DEF ExpTypeOK
<1>3. FlowInv'
  BY <1>1, ServiceGotoFacts DEF FlowInv, Allocating, AtOneCell
<1>4. RetryInv'
  BY SupersedingKept, Zenon
<1>5. LockInv'
  <2> SUFFICES ASSUME ~used.lost PROVE LockInv'
    BY Zenon DEF LockInv
  <2>1. sf[s].pc # "idle" /\ lock = s
    BY Zenon DEF LockInv, Progress, Allocating, AtOneCell
  <2>2. ASSUME NEW c \in Cells
        PROVE  /\ c < sf[s].at => cell'[c].status \in Settled
               /\ c > sf[s].at => cell'[c].status \in {sf[s].seen[c], "cancelled"}
    BY DEF LockInv, Progress, Cells
  <2>3. Progress(s)'
    BY <1>1, <2>1, <2>2, ServiceGotoFacts, Zenon DEF Progress
  <2>4. \A c \in Cells : cell'[c].status = "pending" => run[c] = "absent"
    BY Zenon DEF LockInv
  <2> QED
    BY <1>1, <2>1, <2>3, <2>4, ServiceGotoFacts, OthersIdle, Zenon DEF LockInv
<1> QED
  BY <1>2, <1>3, <1>4, <1>5, Zenon

LEMMA ResetInv ==
  ASSUME ExpInv, NEW s \in Services, reset_allocating(s)
  PROVE  ExpInv'
<1> USE DEF ExpInv
<1>1. sf[s].pc = "reset" /\ sf[s].at \in Cells /\ ServiceGoto(s, "claim")
  BY Zenon DEF reset_allocating, FlowInv, AtOneCell
<1>2. UNCHANGED <<spec, key, run, retries, lock, of, used>>
  BY Zenon DEF reset_allocating, matrix, runs
<1>3. ~used.lost => run[sf[s].at] = "absent"
  BY <1>1, Zenon DEF LockInv, Progress
<1>4. CASE cell[sf[s].at].status = "allocating"
  <2>1. SetStatus(sf[s].at, "pending") /\ "pending" \in CellStatus
    BY <1>4, Zenon DEF reset_allocating, CellStatus
  <2>2. ~cell[sf[s].at].owned
    BY <1>1, <1>4, Zenon DEF FlowInv
  <2> QED
    BY <1>1, <1>2, <1>3, <2>1, <2>2, SetStatusFacts, StayInv, Zenon DEF Allocating, AtOneCell
<1>5. CASE cell[sf[s].at].status # "allocating"
  <2>1. cell' = cell
    BY <1>5, Zenon DEF reset_allocating
  <2> QED
    BY <1>1, <1>2, <1>3, <1>5, <2>1, StayInv, Zenon DEF Allocating, AtOneCell, ExpTypeOK
<1> QED
  BY <1>4, <1>5, Zenon

LEMMA ClaimInv ==
  ASSUME ExpInv, NEW s \in Services, claim_cell(s)
  PROVE  ExpInv'
<1> USE DEF ExpInv
<1>1. sf[s].pc \in {"claim", "cell"} /\ sf[s].at \in Cells
  BY Zenon DEF claim_cell, FlowInv, AtOneCell, AtCell
<1>2. UNCHANGED <<spec, key, run, retries, lock, of, used>>
  BY Zenon DEF claim_cell, matrix, runs
<1>3. CASE cell[sf[s].at].status = "pending"
  <2>1. SetStatus(sf[s].at, "allocating") /\ "allocating" \in CellStatus /\ ServiceGoto(s, "create")
    BY <1>3, Zenon DEF claim_cell, CellStatus
  <2>2. ~cell[sf[s].at].owned
    BY <1>1, <1>3, Zenon DEF FlowInv
  <2> QED
    BY <1>1, <1>2, <2>1, <2>2, SetStatusFacts, StayInv, Zenon DEF Allocating, AtOneCell
<1>4. CASE cell[sf[s].at].status # "pending"
  <2>1. cell' = cell /\ NextCell(s)
    BY <1>4, Zenon DEF claim_cell
  <2>2. ~used.lost => cell[sf[s].at].status \notin {"pending", "allocating"}
    BY <1>1, <1>4, Zenon DEF claim_cell, AtCell, Seen, LockInv, Progress, Allocating
  <2>3. ~used.lost => cell[sf[s].at].status \in Settled
    BY <1>1, <2>2, Zenon DEF ExpTypeOK, CellRecord, CellStatus
  <2> QED
    BY <1>1, <1>2, <2>1, <2>3, NextCellInv, Zenon DEF FlowInv, Allocating, AtOneCell, ExpTypeOK
<1> QED
  BY <1>3, <1>4, Zenon

LEMMA CreateInv ==
  ASSUME ExpInv, NEW s \in Services, create_cell_run(s)
  PROVE  ExpInv'
<1> USE DEF ExpInv
<1> DEFINE c == sf[s].at
<1>1. sf[s].pc = "create" /\ c \in Cells
  BY Zenon DEF create_cell_run, FlowInv, AtOneCell
<1>2. UNCHANGED <<spec, key, cell, retries, lock, of, used>>
  BY Zenon DEF create_cell_run, matrix
<1>3. PICK stored \in BOOLEAN, raises \in BOOLEAN :
        /\ stored \/ raises
        /\ run' = IF stored /\ run[c] = "absent" THEN [run EXCEPT ![c] = "queued"] ELSE run
        /\ ServiceGoto(s, IF raises THEN "fail" ELSE "complete")
  BY Zenon DEF create_cell_run
<1>4. PICK pc \in {"fail", "complete"} : ServiceGoto(s, pc) /\ (pc = "complete" => stored)
  BY <1>3, Zenon
<1>5. pc \in ServiceStep
  BY Zenon DEF ServiceStep
<1>6. /\ run' \in [Cells -> RunStatus]
      /\ \A d \in Cells : d # c => run'[d] = run[d]
      /\ \A d \in Cells : run[d] # "absent" => run'[d] # "absent"
      /\ pc = "complete" => run'[c] # "absent"
  BY <1>1, <1>3, <1>4, Zenon DEF ExpTypeOK, RunStatus
<1>7. ExpTypeOK'
  BY <1>2, <1>4, <1>5, <1>6, ServiceGotoFacts, Zenon DEF ExpTypeOK
<1>8. FlowInv'
  BY <1>1, <1>2, <1>4, <1>5, <1>6, ServiceGotoFacts DEF FlowInv, Allocating, AtOneCell
<1>9. RetryInv'
  BY <1>2, Zenon DEF RetryInv
<1>10. LockInv'
  <2> SUFFICES ASSUME ~used.lost PROVE LockInv'
    BY <1>2, Zenon DEF LockInv
  <2>1. \A q \in Services : q # s => Progress(q)'
    BY <1>1, <1>4, <1>5, ServiceGotoFacts, OthersIdle, Zenon
  <2>2. Progress(s)'
    BY <1>1, <1>2, <1>4, <1>5, ServiceGotoFacts, Zenon DEF LockInv, Progress, Allocating, AtOneCell
  <2>3. cell[c].status # "pending"
    BY <1>1, Zenon DEF LockInv, Progress
  <2> QED
    BY <1>2, <1>6, <2>1, <2>2, <2>3, Zenon DEF LockInv
<1> QED
  BY <1>7, <1>8, <1>9, <1>10, Zenon

-----------------------------------------------------------------------------
(* Operators and the Worker act while a service allocates.  What they do to *)
(* a cell is to cancel it, and a Run never disappears.                      *)
LEMMA OutsideKeepsLock ==
  ASSUME ExpInv, UNCHANGED <<lock, sf>>, used'.lost = used.lost,
         \A c \in Cells : cell'[c].status \in {cell[c].status, "cancelled"},
         \A c \in Cells : run'[c] = "absent" <=> run[c] = "absent"
  PROVE  LockInv'
<1> SUFFICES ASSUME ~used.lost PROVE LockInv'
  BY Zenon DEF LockInv
<1>1. ASSUME NEW s \in Services PROVE Progress(s)'
  <2>1. sf[s].pc \in AtOneCell => sf[s].at \in Cells
    BY Zenon DEF ExpInv, FlowInv
  <2>2. Progress(s)
    BY Zenon DEF ExpInv, LockInv
  <2>3. sf[s].pc \in Allocating => \A c \in Cells :
          /\ c < sf[s].at => cell'[c].status \in Settled
          /\ c > sf[s].at \/ (c = sf[s].at /\ sf[s].pc = "cell") =>
               cell'[c].status \in {sf[s].seen[c], "cancelled"}
    BY <2>2, Zenon DEF Progress, Settled
  <2> QED
    BY <2>1, <2>2, <2>3, Zenon DEF Progress, AtOneCell
<1> QED
  BY <1>1, Zenon DEF ExpInv, LockInv

(* A step of an operator that lists no retry: it may cancel cells and Runs, *)
(* and it goes on, or starts a call, or ends it.                            *)
LEMMA OperatorInv ==
  ASSUME ExpInv, NEW o \in Operators, UNCHANGED <<spec, key, retries, lock, sf>>,
         spec # None, NEW frame \in OperatorFrame, of' = [of EXCEPT ![o] = frame],
         frame.pc # "idle" => frame.at \in Cells,
         frame.pc # "record",
         frame.pc = "create" => /\ cell[frame.at].owned
                                /\ frame.no = Len(cell[frame.at].superseding) + 1,
         cell' \in [Cells -> CellRecord],
         \A c \in Cells : cell'[c].status \in {cell[c].status, "cancelled"},
         \A c \in Cells : cell'[c].superseding = cell[c].superseding,
         \A c \in Cells : cell'[c].owned = cell[c].owned,
         run' \in [Cells -> RunStatus],
         \A c \in Cells : run'[c] = "absent" <=> run[c] = "absent",
         used' \in [calls : Nat, faults : Nat, lost : BOOLEAN], used'.lost = used.lost
  PROVE  ExpInv'
<1> USE DEF ExpInv
<1>1. of'[o] = frame /\ of' \in [Operators -> OperatorFrame]
  BY Zenon DEF ExpTypeOK
<1>2. \A q \in Operators : q # o => of'[q] = of[q]
  BY Zenon DEF ExpTypeOK
<1>3. ExpTypeOK'
  BY <1>1, Zenon DEF ExpTypeOK
<1>4. FlowInv'
  BY <1>1, <1>2 DEF FlowInv, AtOneCell
<1>5. RetryInv'
  <2>1. \A c \in Cells : \A i \in 1..Len(cell'[c].superseding) :
          cell'[c].superseding[i] = i /\ i \in retries'[c]
    BY DEF RetryInv
  <2>2. ASSUME NEW q \in Operators, of'[q].pc \in {"create", "record"}
        PROVE  LET n == Len(cell'[of'[q].at].superseding)
               IN  /\ of'[q].pc = "create" => of'[q].no \in 1..(n + 1)
                   /\ of'[q].pc = "record" => of'[q].no = n + 1 /\ n + 1 \in retries'[of'[q].at]
    <3>1. CASE q = o
      <4>1. Len(cell[frame.at].superseding) \in Nat
        BY <1>1, <2>2, <3>1 DEF ExpTypeOK, CellRecord
      <4> QED
        BY <1>1, <2>2, <3>1, <4>1
    <3>2. CASE q # o
      <4>1. of'[q] = of[q] /\ of[q].at \in Cells
        BY <1>2, <2>2, <3>2, Zenon DEF FlowInv
      <4>2. cell'[of[q].at].superseding = cell[of[q].at].superseding
        BY <4>1, Zenon
      <4>3. LET n == Len(cell[of[q].at].superseding)
            IN  /\ of[q].pc = "create" => of[q].no \in 1..(n + 1)
                /\ of[q].pc = "record" => of[q].no = n + 1 /\ n + 1 \in retries[of[q].at]
        BY Zenon DEF RetryInv
      <4>4. retries' = retries
        OBVIOUS
      <4> QED
        BY <4>1, <4>2, <4>3, <4>4, Zenon
    <3> QED
      BY <3>1, <3>2, Zenon
  <2>3. \A p, q \in Operators :
          of'[p].pc = "record" /\ of'[q].pc = "record" /\ of'[p].at = of'[q].at => p = q
    BY <1>1, <1>2 DEF RetryInv
  <2> QED
    BY <2>1, <2>2, <2>3, Zenon DEF RetryInv
<1>6. LockInv'
  BY OutsideKeepsLock, Zenon
<1> QED
  BY <1>3, <1>4, <1>5, <1>6, Zenon

LEMMA AtRestFrame == AtRest \in OperatorFrame /\ AtRest.pc = "idle"
<1>1. 1 \in 1..(NCells + 1)
  BY NCellsAssumption
<1> QED
  BY <1>1, Zenon DEF AtRest, OperatorFrame, OperatorStep, CellStatus

LEMMA StatusesTyped ==
  ASSUME ExpTypeOK PROVE Statuses \in [Cells -> CellStatus]
BY Zenon DEF Statuses, ExpTypeOK, CellRecord

LEMMA CancelInv ==
  ASSUME ExpInv, NEW o \in Operators, Cancel(o)
  PROVE  ExpInv'
<1> DEFINE frame == [AtRest EXCEPT !.pc = "cell", !.seen = Statuses]
<1>1. Statuses \in [Cells -> CellStatus] /\ AtRest \in OperatorFrame
  BY StatusesTyped, AtRestFrame, Zenon DEF ExpInv
<1>2. frame \in OperatorFrame
  BY <1>1, Zenon DEF OperatorFrame, OperatorStep
<1>3. frame.pc = "cell" /\ frame.at = 1
  BY Zenon DEF AtRest
<1>4. 1 \in Cells
  BY NCellsAssumption DEF Cells
<1>5. of' = [of EXCEPT ![o] = frame] /\ spec # None
  BY Zenon DEF Cancel, Call
<1>6. used' \in [calls : Nat, faults : Nat, lost : BOOLEAN] /\ used'.lost = used.lost
  BY DEF Cancel, Call, ExpInv, ExpTypeOK
<1>7. UNCHANGED <<spec, key, cell, run, retries, lock, sf>>
  BY Zenon DEF Cancel, Call, matrix, runs
<1> HIDE DEF frame
<1> QED
  BY <1>2, <1>3, <1>4, <1>5, <1>6, <1>7, OperatorInv, Zenon DEF ExpInv, ExpTypeOK

LEMMA RetryCallInv ==
  ASSUME ExpInv, NEW o \in Operators, NEW c \in Cells, retry_cell(o, c)
  PROVE  ExpInv'
<1> DEFINE n == Len(cell[c].superseding) + 1
           frame == [AtRest EXCEPT !.pc = "create", !.at = c, !.no = n]
<1>1. n \in Nat /\ c \in 1..(NCells + 1) /\ AtRest \in OperatorFrame
  BY AtRestFrame, NCellsAssumption DEF ExpInv, ExpTypeOK, CellRecord, Cells
<1> HIDE DEF n
<1>2. frame \in OperatorFrame
  BY <1>1, Zenon DEF OperatorFrame, OperatorStep
<1>3. frame.pc = "create" /\ frame.at = c /\ frame.no = n
  BY Zenon DEF AtRest
<1>4. of' = [of EXCEPT ![o] = frame] /\ spec # None /\ cell[c].owned
  BY Zenon DEF retry_cell, Call, n
<1>5. used' \in [calls : Nat, faults : Nat, lost : BOOLEAN] /\ used'.lost = used.lost
  BY DEF retry_cell, Call, ExpInv, ExpTypeOK
<1>6. UNCHANGED <<spec, key, cell, run, retries, lock, sf>>
  BY Zenon DEF retry_cell, Call, matrix, runs
<1> HIDE DEF frame
<1> QED
  BY <1>2, <1>3, <1>4, <1>5, <1>6, OperatorInv, Zenon DEF ExpInv, ExpTypeOK, n

(* The frames by which an operator's call goes on or ends. *)
LEMMA OnwardFrame ==
  ASSUME ExpTypeOK, NEW o \in Operators, of[o].at \in Cells, Onward(o) \/ Done(o)
  PROVE  \E frame \in OperatorFrame :
           /\ of' = [of EXCEPT ![o] = frame]
           /\ frame.pc # "idle" => frame.at \in Cells
           /\ frame.pc \in {"idle", "cell"}
<1>1. CASE Done(o) \/ of[o].at = NCells
  BY <1>1, AtRestFrame, Zenon DEF Done, Onward
<1>2. CASE ~Done(o) /\ of[o].at # NCells
  <2> DEFINE frame == [of[o] EXCEPT !.pc = "cell", !.at = of[o].at + 1]
  <2>1. of[o].at + 1 \in Cells /\ of[o].at + 1 \in 1..(NCells + 1)
    BY <1>2, NCellsAssumption DEF Cells
  <2>2. of[o] \in OperatorFrame
    BY Zenon DEF ExpTypeOK
  <2>3. frame \in OperatorFrame
    BY <2>1, <2>2, Zenon DEF OperatorFrame, OperatorStep
  <2>4. frame.pc = "cell" /\ frame.at = of[o].at + 1
    BY <2>2, Zenon DEF OperatorFrame
  <2>5. of' = [of EXCEPT ![o] = frame]
    BY <1>2, Zenon DEF Onward
  <2> HIDE DEF frame
  <2> QED
    BY <2>1, <2>3, <2>4, <2>5, Zenon
<1> QED
  BY <1>1, <1>2, Zenon

LEMMA MarkFrame ==
  ASSUME ExpTypeOK, NEW o \in Operators, NEW pc \in OperatorStep, OperatorGoto(o, pc)
  PROVE  \E frame \in OperatorFrame :
           /\ of' = [of EXCEPT ![o] = frame]
           /\ frame.pc = pc /\ frame.at = of[o].at /\ frame.no = of[o].no
<1> DEFINE frame == [of[o] EXCEPT !.pc = pc]
<1>1. of[o] \in OperatorFrame
  BY Zenon DEF ExpTypeOK
<1>2. /\ frame \in OperatorFrame
      /\ frame.pc = pc /\ frame.at = of[o].at /\ frame.no = of[o].no
  BY <1>1, Zenon DEF OperatorFrame
<1>3. of' = [of EXCEPT ![o] = frame]
  BY Zenon DEF OperatorGoto
<1> HIDE DEF frame
<1> QED
  BY <1>2, <1>3, Zenon

LEMMA OperatorStepInv ==
  ASSUME ExpInv, NEW o \in Operators,
         PassOver(o) \/ cancel_owned_run(o) \/ cancel_cell(o) \/ CrashOperator(o)
  PROVE  ExpInv'
<1> USE DEF ExpInv
<1>1. of[o].pc # "idle" /\ spec # None /\ of[o].at \in Cells
  BY Zenon DEF PassOver, cancel_owned_run, cancel_cell, CrashOperator, FlowInv
<1>2. UNCHANGED <<spec, key, retries, lock, sf>>
  BY Zenon DEF PassOver, cancel_owned_run, cancel_cell, CrashOperator, matrix, runs
<1>3. used' \in [calls : Nat, faults : Nat, lost : BOOLEAN] /\ used'.lost = used.lost
  BY DEF PassOver, cancel_owned_run, cancel_cell, CrashOperator, ExpTypeOK
<1>4. /\ cell' \in [Cells -> CellRecord]
      /\ \A c \in Cells : cell'[c].status \in {cell[c].status, "cancelled"}
      /\ \A c \in Cells : cell'[c].superseding = cell[c].superseding
      /\ \A c \in Cells : cell'[c].owned = cell[c].owned
  <2>1. CASE cell' = cell
    BY <2>1, Zenon DEF ExpTypeOK
  <2>2. CASE SetStatus(of[o].at, "cancelled")
    <3>1. "cancelled" \in CellStatus
      BY Zenon DEF CellStatus, Settled
    <3> QED
      BY <1>1, <2>2, <3>1, SetStatusFacts, Zenon
  <2> QED
    BY <2>1, <2>2, Zenon DEF PassOver, cancel_owned_run, cancel_cell, CrashOperator
<1>5. /\ run' \in [Cells -> RunStatus]
      /\ \A c \in Cells : run'[c] = "absent" <=> run[c] = "absent"
  <2>1. CASE run' = run
    BY <2>1, Zenon DEF ExpTypeOK
  <2>2. CASE run' = [run EXCEPT ![of[o].at] = CancelledRun(run[of[o].at])]
    <3>1. run[of[o].at] \in RunStatus
      BY <1>1, Zenon DEF ExpTypeOK
    <3>2. /\ CancelledRun(run[of[o].at]) \in RunStatus
          /\ CancelledRun(run[of[o].at]) = "absent" <=> run[of[o].at] = "absent"
      BY <3>1, Zenon DEF CancelledRun, RunStatus
    <3> QED
      BY <1>1, <2>2, <3>2, Zenon DEF ExpTypeOK
  <2> QED
    BY <2>1, <2>2, Zenon DEF PassOver, cancel_owned_run, cancel_cell, CrashOperator, runs
<1>6. \E frame \in OperatorFrame :
        /\ of' = [of EXCEPT ![o] = frame]
        /\ frame.pc # "idle" => frame.at \in Cells
        /\ frame.pc \in {"idle", "cell", "mark"}
  <2>1. CASE Onward(o) \/ Done(o)
    BY <1>1, <2>1, OnwardFrame, Zenon
  <2>2. CASE OperatorGoto(o, "mark")
    BY <1>1, <2>2, MarkFrame, Zenon DEF OperatorStep
  <2> QED
    BY <2>1, <2>2, Zenon DEF PassOver, cancel_owned_run, cancel_cell, CrashOperator
<1> QED
  BY <1>1, <1>2, <1>3, <1>4, <1>5, <1>6, OperatorInv, Zenon

(* A retry Run is created under the number after the listed ones. *)
LEMMA NewRetryNumber ==
  ASSUME ExpInv, NEW o \in Operators, of[o].pc = "create", of[o].no \notin retries[of[o].at]
  PROVE  of[o].no = Len(cell[of[o].at].superseding) + 1
<1>1. of[o].at \in Cells
  BY Zenon DEF ExpInv, FlowInv
<1>2. Len(cell[of[o].at].superseding) \in Nat
  BY <1>1 DEF ExpInv, ExpTypeOK, CellRecord
<1>3. of[o].no \in 1..(Len(cell[of[o].at].superseding) + 1)
  BY Zenon DEF ExpInv, RetryInv
<1>4. of[o].no \notin 1..Len(cell[of[o].at].superseding)
  BY <1>1, Zenon DEF ExpInv, RetryInv
<1> QED
  BY <1>2, <1>3, <1>4

LEMMA CreateRetryInv ==
  ASSUME ExpInv, NEW o \in Operators, CreateRetry(o)
  PROVE  ExpInv'
<1> USE DEF ExpInv
<1> DEFINE c == of[o].at
           no == of[o].no
<1>1. of[o].pc = "create" /\ spec # None /\ c \in Cells
  BY Zenon DEF CreateRetry, FlowInv
<1>2. UNCHANGED <<spec, key, cell, run, lock, sf, used>>
  BY Zenon DEF CreateRetry, matrix
<1>3. CASE no \in retries[c]
  <2>1. of' = [of EXCEPT ![o] = AtRest] /\ retries' = retries
    BY <1>3, Zenon DEF CreateRetry, Done
  <2> QED
    BY <1>1, <1>2, <2>1, AtRestFrame, OperatorInv, Zenon DEF ExpTypeOK
<1>4. CASE no \notin retries[c]
  <2>1. retries' = [retries EXCEPT ![c] = retries[c] \cup {no}] /\ OperatorGoto(o, "record")
    BY <1>4, Zenon DEF CreateRetry
  <2>2. PICK frame \in OperatorFrame : of' = [of EXCEPT ![o] = frame] /\
          frame.pc = "record" /\ frame.at = c /\ frame.no = no
    BY <2>1, MarkFrame, Zenon DEF OperatorStep
  <2>3. /\ of' \in [Operators -> OperatorFrame]
        /\ of'[o].pc = "record" /\ of'[o].at = c /\ of'[o].no = no
        /\ \A q \in Operators : q # o => of'[q] = of[q]
    BY <2>2, Zenon DEF ExpTypeOK
  <2>4. no = Len(cell[c].superseding) + 1 /\ no \in Nat
    BY <1>1, <1>4, NewRetryNumber, Zenon DEF ExpTypeOK, OperatorFrame
  <2>5. /\ retries' \in [Cells -> SUBSET Nat]
        /\ \A d \in Cells : retries[d] \subseteq retries'[d]
        /\ no \in retries'[c]
    BY <1>1, <2>1, <2>4, Zenon DEF ExpTypeOK
  <2>6. ExpTypeOK'
    BY <1>2, <2>3, <2>5, Zenon DEF ExpTypeOK
  <2>7. FlowInv'
    BY <1>1, <1>2, <2>3, Zenon DEF FlowInv
  <2>8. RetryInv'
    <3>1. ASSUME NEW q \in Operators, q # o, of[q].pc = "record" PROVE of[q].at # c
      BY <1>4, <2>4, <3>1 DEF RetryInv
    <3>2. \A d \in Cells : \A i \in 1..Len(cell'[d].superseding) :
            cell'[d].superseding[i] = i /\ i \in retries'[d]
      BY <1>2, <2>5, Zenon DEF RetryInv
    <3>3. \A p, q \in Operators :
            of'[p].pc = "record" /\ of'[q].pc = "record" /\ of'[p].at = of'[q].at => p = q
      BY <2>3, <3>1 DEF RetryInv
    <3>4. ASSUME NEW q \in Operators
          PROVE  LET n == Len(cell'[of'[q].at].superseding)
                 IN  /\ of'[q].pc = "create" => of'[q].no \in 1..(n + 1)
                     /\ of'[q].pc = "record" => of'[q].no = n + 1 /\ n + 1 \in retries'[of'[q].at]
      <4>1. CASE q = o
        BY <1>2, <2>3, <2>4, <2>5, <4>1, Zenon
      <4>2. CASE q # o
        BY <1>2, <2>3, <2>5, <4>2, Zenon DEF RetryInv, FlowInv
      <4> QED
        BY <4>1, <4>2, Zenon
    <3> QED
      BY <3>2, <3>3, <3>4, Zenon DEF RetryInv
  <2>9. LockInv'
    BY <1>2, OutsideKeepsLock, Zenon
  <2> QED
    BY <2>6, <2>7, <2>8, <2>9, Zenon
<1> QED
  BY <1>3, <1>4, Zenon

LEMMA AppendFacts ==
  ASSUME NEW list \in Seq(Nat), NEW x \in Nat
  PROVE  /\ Append(list, x) \in Seq(Nat)
         /\ Len(Append(list, x)) = Len(list) + 1
         /\ \A i \in 1..(Len(list) + 1) :
              Append(list, x)[i] = IF i = Len(list) + 1 THEN x ELSE list[i]
OBVIOUS

(* What record_superseding does to the cells. *)
LEMMA RecordFacts ==
  ASSUME ExpInv, NEW o \in Operators, record_superseding(o)
  PROVE  LET c == of[o].at
             n == Len(cell[c].superseding)
         IN  /\ c \in Cells /\ n \in Nat /\ of[o].no = n + 1 /\ n + 1 \in retries[c]
             /\ cell' \in [Cells -> CellRecord]
             /\ \A d \in Cells : d # c => cell'[d] = cell[d]
             /\ cell'[c].status = cell[c].status /\ cell'[c].owned = cell[c].owned
             /\ cell'[c].superseding = Append(cell[c].superseding, n + 1)
<1> USE DEF ExpInv
<1> DEFINE c == of[o].at
           list == cell[c].superseding
           n == Len(list)
           new == [cell[c] EXCEPT !.superseding = Append(list, of[o].no)]
<1>1. of[o].pc = "record" /\ c \in Cells
  BY Zenon DEF record_superseding, FlowInv
<1>2. cell[c] \in CellRecord /\ list \in Seq(Nat) /\ n \in Nat
  BY <1>1 DEF ExpTypeOK, CellRecord
<1>3. of[o].no = n + 1 /\ n + 1 \in retries[c]
  BY <1>1, Zenon DEF RetryInv
<1>4. of[o].no \notin Listed(c)
  <2>1. \A i \in DOMAIN list : list[i] = i /\ i \in 1..n
    BY <1>1, <1>2 DEF RetryInv
  <2>2. \A i \in 1..n : i # n + 1
    BY <1>2
  <2> QED
    BY <1>3, <2>1, <2>2, Zenon DEF Listed
<1>5. Append(list, of[o].no) \in Seq(Nat)
  BY <1>2, <1>3
<1> HIDE DEF list, n
<1>6. /\ new \in CellRecord /\ new.superseding = Append(list, of[o].no)
      /\ new.status = cell[c].status /\ new.owned = cell[c].owned
  BY <1>2, <1>5, Zenon DEF CellRecord
<1>7. cell' = [cell EXCEPT ![c] = new]
  <2>1. cell' = [cell EXCEPT ![c].superseding = Append(list, of[o].no)]
    BY <1>4, Zenon DEF record_superseding, list
  <2> QED
    BY <2>1, Zenon
<1> HIDE DEF new
<1>8. cell' \in [Cells -> CellRecord] /\ cell'[c] = new
  BY <1>1, <1>6, <1>7, Zenon DEF ExpTypeOK
<1>9. \A d \in Cells : d # c => cell'[d] = cell[d]
  BY <1>7, Zenon DEF ExpTypeOK
<1> QED
  BY <1>1, <1>2, <1>3, <1>6, <1>8, <1>9, Zenon DEF list, n

LEMMA SuccessorIsNat == \A k \in Nat : k + 1 \in Nat
OBVIOUS

LEMMA RecordInv ==
  ASSUME ExpInv, NEW o \in Operators, record_superseding(o)
  PROVE  ExpInv'
<1> USE DEF ExpInv
<1> DEFINE c == of[o].at
           list == cell[c].superseding
           n == Len(list)
<1>1. /\ c \in Cells /\ n \in Nat /\ of[o].no = n + 1 /\ n + 1 \in retries[c]
      /\ cell' \in [Cells -> CellRecord]
      /\ \A d \in Cells : d # c => cell'[d] = cell[d]
      /\ cell'[c].status = cell[c].status /\ cell'[c].owned = cell[c].owned
      /\ cell'[c].superseding = Append(list, n + 1)
  BY RecordFacts, Zenon
<1>2. UNCHANGED <<spec, key, run, retries, lock, sf, used>> /\ of[o].pc = "record"
  BY Zenon DEF record_superseding, matrix, runs
<1>3. /\ of' \in [Operators -> OperatorFrame]
      /\ of'[o].pc = "idle"
      /\ \A q \in Operators : q # o => of'[q] = of[q]
  BY AtRestFrame, Zenon DEF record_superseding, Done, ExpTypeOK
<1>4. list \in Seq(Nat)
  BY <1>1, Zenon DEF ExpTypeOK, CellRecord
<1>5. /\ Len(cell'[c].superseding) = n + 1
      /\ \A i \in 1..(n + 1) : cell'[c].superseding[i] = IF i = n + 1 THEN n + 1 ELSE list[i]
  <2>0. n \in Nat
    BY <1>1, Zenon
  <2>1. n + 1 \in Nat
    BY <2>0, SuccessorIsNat, Zenon
  <2>2. /\ Len(Append(list, n + 1)) = n + 1
        /\ \A i \in 1..(n + 1) : Append(list, n + 1)[i] = IF i = n + 1 THEN n + 1 ELSE list[i]
    BY <1>4, <2>1, AppendFacts, Zenon
  <2>3. cell'[c].superseding = Append(list, n + 1)
    BY <1>1, Zenon
  <2> HIDE DEF c, list, n
  <2> QED
    BY <2>2, <2>3, Zenon
<1> HIDE DEF n, list
<1>6. ExpTypeOK'
  BY <1>1, <1>2, <1>3, Zenon DEF ExpTypeOK
<1>7. FlowInv'
  <2>1. \A d \in Cells : cell'[d].status = cell[d].status /\ cell'[d].owned = cell[d].owned
    BY <1>1, Zenon
  <2> QED
    BY <1>2, <1>3, <2>1, Zenon DEF FlowInv
<1>8. RetryInv'
  <2>1. \A i \in 1..n : list[i] = i /\ i \in retries[c]
    BY <1>1, Zenon DEF RetryInv, n, list
  <2>2. \A i \in 1..(n + 1) : cell'[c].superseding[i] = i /\ i \in retries[c]
    <3>1. n \in Nat
      BY <1>1, Zenon
    <3>2. \A i \in 1..(n + 1) : i = n + 1 \/ i \in 1..n
      BY <3>1
    <3>3. n + 1 \in retries[c]
      BY <1>1, Zenon
    <3>. QED BY <1>5, <2>1, <3>2, <3>3, Zenon
  <2>3. \A d \in Cells : \A i \in 1..Len(cell'[d].superseding) :
          cell'[d].superseding[i] = i /\ i \in retries'[d]
    BY <1>1, <1>2, <1>5, <2>2 DEF RetryInv
  <2>4. \A p, q \in Operators :
          of'[p].pc = "record" /\ of'[q].pc = "record" /\ of'[p].at = of'[q].at => p = q
    BY <1>3 DEF RetryInv
  <2>5. ASSUME NEW q \in Operators, of'[q].pc \in {"create", "record"}
        PROVE  LET m == Len(cell'[of'[q].at].superseding)
               IN  /\ of'[q].pc = "create" => of'[q].no \in 1..(m + 1)
                   /\ of'[q].pc = "record" => of'[q].no = m + 1 /\ m + 1 \in retries'[of'[q].at]
    <3>1. q # o /\ of'[q] = of[q] /\ of[q].at \in Cells
      BY <1>3, <2>5, Zenon DEF FlowInv
    <3>2. CASE of[q].at = c
      <4>1. of[q].pc = "create" /\ of[q].no \in 1..(n + 1)
        BY <1>2, <2>5, <3>1, <3>2, Zenon DEF RetryInv, n, list
      <4> QED
        BY <1>1, <1>5, <3>1, <3>2, <4>1
    <3>3. CASE of[q].at # c
      <4>1. cell'[of[q].at] = cell[of[q].at]
        BY <1>1, <3>1, <3>3, Zenon
      <4> QED
        BY <1>2, <3>1, <4>1, Zenon DEF RetryInv
    <3> QED
      BY <3>2, <3>3, Zenon
  <2> QED
    BY <2>3, <2>4, <2>5, Zenon DEF RetryInv
<1>9. LockInv'
  <2>1. \A d \in Cells : cell'[d].status \in {cell[d].status, "cancelled"}
    BY <1>1, Zenon
  <2> QED
    BY <1>2, <2>1, OutsideKeepsLock, Zenon
<1> QED
  BY <1>6, <1>7, <1>8, <1>9, Zenon

LEMMA WorkInv ==
  ASSUME ExpInv, NEW c \in Cells, Work(c)
  PROVE  ExpInv'
<1> USE DEF ExpInv
<1>1. UNCHANGED <<spec, key, cell, retries, lock, sf, of, used>>
  BY Zenon DEF Work, matrix
<1>2. /\ run' \in [Cells -> RunStatus]
      /\ \A d \in Cells : run'[d] = "absent" <=> run[d] = "absent"
  BY Zenon DEF Work, ExpTypeOK, RunStatus
<1>3. ExpTypeOK'
  BY <1>1, <1>2, Zenon DEF ExpTypeOK
<1>4. FlowInv'
  BY <1>1, <1>2, Zenon DEF FlowInv, AtOneCell
<1>5. RetryInv'
  BY <1>1, Zenon DEF RetryInv
<1>6. LockInv'
  BY <1>1, <1>2, OutsideKeepsLock, Zenon
<1> QED
  BY <1>3, <1>4, <1>5, <1>6, Zenon

LEMMA LoseLockInv ==
  ASSUME ExpInv, LoseLock
  PROVE  ExpInv'
<1> USE DEF ExpInv
<1>1. UNCHANGED <<spec, key, cell, run, retries, sf, of>>
  BY Zenon DEF LoseLock, matrix, runs
<1>2. used' \in [calls : Nat, faults : Nat, lost : BOOLEAN] /\ used'.lost /\ lock' = None
  <2>1. used \in [calls : Nat, faults : Nat, lost : BOOLEAN] /\ used.faults + 1 \in Nat
    BY DEF ExpTypeOK
  <2>2. used' = [used EXCEPT !.faults = used.faults + 1, !.lost = TRUE] /\ lock' = None
    BY Zenon DEF LoseLock
  <2>3. used' \in [calls : Nat, faults : Nat, lost : BOOLEAN] /\ used'.lost = TRUE
    BY <2>1, <2>2, Zenon
  <2> QED
    BY <2>2, <2>3, Zenon
<1>3. ExpTypeOK'
  BY <1>1, <1>2, Zenon DEF ExpTypeOK
<1>4. FlowInv' /\ RetryInv'
  BY <1>1, Zenon DEF FlowInv, RetryInv
<1>5. LockInv'
  BY <1>2, Zenon DEF LockInv
<1> QED
  BY <1>3, <1>4, <1>5, Zenon

LEMMA ExpStep ==
  ASSUME ExpInv, [Next]_vars
  PROVE  ExpInv'
<1>1. CASE UNCHANGED vars
  <2>1. UNCHANGED <<spec, key, cell, run, retries, lock, sf, of, used>>
    BY <1>1, Zenon DEF vars, matrix, runs
  <2>2. ExpTypeOK'
    BY <2>1, Zenon DEF ExpInv, ExpTypeOK
  <2>3. FlowInv'
    BY <2>1, Zenon DEF ExpInv, FlowInv
  <2>4. RetryInv'
    BY <2>1, Zenon DEF ExpInv, RetryInv
  <2>5. LockInv'
    BY <2>1, Zenon DEF ExpInv, LockInv, Progress
  <2> QED
    BY <2>2, <2>3, <2>4, <2>5, Zenon DEF ExpInv
<1>2. ASSUME NEW s \in Services,
             \/ \E content \in Contents \cup {None} : Start(s, content)
             \/ ServiceNext(s)
             \/ CrashService(s)
      PROVE  ExpInv'
  BY <1>2, StartInv, RejectInv, BindInv, PublishInv, ListInv, SkipInv, RecoverInv, ResetInv,
     ClaimInv, CreateInv, CompleteInv, FailInv, Zenon DEF ServiceNext
<1>3. ASSUME NEW o \in Operators,
             \/ Cancel(o)
             \/ \E c \in Cells : retry_cell(o, c)
             \/ OperatorNext(o)
             \/ CrashOperator(o)
      PROVE  ExpInv'
  BY <1>3, CancelInv, RetryCallInv, OperatorStepInv, CreateRetryInv, RecordInv, Zenon
     DEF OperatorNext
<1> QED
  BY <1>1, <1>2, <1>3, WorkInv, LoseLockInv, Zenon DEF Next

LEMMA ExpInitInv == Init => ExpInv
<1> SUFFICES ASSUME Init PROVE ExpInv
  OBVIOUS
<1>1. 1 \in 1..(NCells + 1)
  BY NCellsAssumption
<1>2. Idle \in ServiceFrame /\ Idle.pc = "idle"
  BY <1>1, Zenon DEF Idle, ServiceFrame, ServiceStep, CellStatus
<1>3. ExpTypeOK
  BY <1>2, AtRestFrame DEF Init, ExpTypeOK, CellRecord, CellStatus, RunStatus
<1>4. FlowInv
  BY <1>2, AtRestFrame, Zenon DEF Init, FlowInv, Allocating, AtOneCell
<1>5. RetryInv
  BY AtRestFrame DEF Init, RetryInv
<1>6. LockInv
  BY <1>2, Zenon DEF Init, LockInv, Progress, Allocating, AtOneCell
<1> QED
  BY <1>3, <1>4, <1>5, <1>6, Zenon DEF ExpInv

LEMMA ExpInvariant == Spec => []ExpInv
<1>1. ExpInv /\ [Next]_vars => ExpInv'
  BY ExpStep, Zenon
<1> QED
  BY <1>1, ExpInitInv, PTL DEF Spec

(* The cells, Runs and activation records keep their types. *)
THEOREM ExperimentsTyped == Spec => []ExpTypeOK
<1>1. ExpInv => ExpTypeOK
  BY Zenon DEF ExpInv
<1> QED
  BY <1>1, ExpInvariant, PTL

(* While the allocation lock is not lost, allocation is never offered a     *)
(* cell that already has its Run, for any number of services and operators. *)
THEOREM NoSecondAllocation == Spec => []PendingHasNoRun
<1>1. ExpInv => PendingHasNoRun
  BY Zenon DEF ExpInv, LockInv, PendingHasNoRun
<1> QED
  BY <1>1, ExpInvariant, PTL

(* While the allocation lock is not lost, a create or allocate that gets to *)
(* its end has settled every cell, whatever crashed before it.              *)
THEOREM AllocationCompletes == Spec => []AllocationIsComplete
<1>1. ExpInv => AllocationIsComplete
  <2> SUFFICES ASSUME ExpInv, NEW s \in Services, AllDone(s), ~used.lost, NEW c \in Cells
               PROVE  cell[c].status \in Settled
    BY Zenon DEF AllocationIsComplete
  <2>1. c < NCells + 1
    BY NCellsAssumption DEF Cells
  <2> QED
    BY <2>1, Zenon DEF ExpInv, LockInv, Progress, AllDone, Allocating
<1> QED
  BY <1>1, ExpInvariant, PTL

-----------------------------------------------------------------------------
(* The refinement.  Outcome(c) is what CellLedger sees of a cell's status. *)
Outcome(c) == IF cell[c].status \in Settled THEN cell[c].status ELSE "open"

LEMMA LedgerInit == Init => Ledger!Init
<1> SUFFICES ASSUME Init PROVE Ledger!Init
  OBVIOUS
<1>1. \A c \in Cells : cell[c].status = "pending" /\ cell[c].superseding = <<>>
  BY Zenon DEF Init
<1>2. [c \in Cells |-> IF cell[c].status \in Settled THEN cell[c].status ELSE "open"]
        = [c \in Cells |-> "open"]
  BY <1>1, Zenon DEF Settled
<1>3. [c \in Cells |-> cell[c].superseding] = [c \in Cells |-> <<>>]
  BY <1>1, Zenon
<1>4. [c \in Cells |-> run[c] # "absent"] = [c \in Cells |-> FALSE]
  BY Zenon DEF Init
<1> QED
  BY <1>2, <1>3, <1>4, Zenon DEF Init, Ledger!Init

LEMMA LedgerStutter ==
  ASSUME spec' = spec, retries' = retries,
         \A c \in Cells : Outcome(c)' = Outcome(c),
         \A c \in Cells : cell'[c].superseding = cell[c].superseding,
         \A c \in Cells : run'[c] = "absent" <=> run[c] = "absent"
  PROVE  UNCHANGED Ledger!ledger
<1>1. [c \in Cells |-> IF cell'[c].status \in Settled THEN cell'[c].status ELSE "open"]
        = [c \in Cells |-> IF cell[c].status \in Settled THEN cell[c].status ELSE "open"]
  BY Zenon DEF Outcome
<1>2. [c \in Cells |-> run'[c] # "absent"] = [c \in Cells |-> run[c] # "absent"]
  OBVIOUS
<1>3. [c \in Cells |-> cell'[c].superseding] = [c \in Cells |-> cell[c].superseding]
  OBVIOUS
<1> QED
  BY <1>1, <1>2, <1>3, Zenon DEF Ledger!ledger

(* A step that changes the status of one cell. *)
LEMMA LedgerDecide ==
  ASSUME NEW c \in Cells, NEW decision, Outcome(c)' = decision,
         spec' = spec, spec # None, UNCHANGED <<run, retries>>,
         \A d \in Cells : d # c => Outcome(d)' = Outcome(d),
         \A d \in Cells : cell'[d].superseding = cell[d].superseding,
         \/ decision = Outcome(c)
         \/ Outcome(c) = "open" /\ decision = "allocated" /\ run[c] # "absent"
         \/ Outcome(c) = "open" /\ decision = "failed"
         \/ Outcome(c) \in {"open", "allocated"} /\ decision = "cancelled"
  PROVE  [Ledger!Next]_(Ledger!ledger)
<1>1. CASE decision = Outcome(c)
  <2>1. UNCHANGED Ledger!ledger
    BY <1>1, LedgerStutter, Zenon
  <2> QED
    BY <2>1, Zenon
<1>2. CASE decision # Outcome(c)
  <2>1. [d \in Cells |-> IF cell'[d].status \in Settled THEN cell'[d].status ELSE "open"]
          = [[d \in Cells |-> IF cell[d].status \in Settled THEN cell[d].status ELSE "open"]
               EXCEPT ![c] = decision]
    BY Zenon DEF Outcome
  <2>2. [d \in Cells |-> run'[d] # "absent"] = [d \in Cells |-> run[d] # "absent"]
    OBVIOUS
  <2>3. [d \in Cells |-> cell'[d].superseding] = [d \in Cells |-> cell[d].superseding]
    OBVIOUS
  <2>4. Ledger!Decide(c, decision)
    BY <2>1, <2>2, <2>3, Zenon DEF Ledger!Decide
  <2>5. Ledger!Allocate(c) \/ Ledger!Fail(c) \/ Ledger!Cancel(c)
    BY <1>2, <2>4, Zenon DEF Ledger!Allocate, Ledger!Fail, Ledger!Cancel, Outcome
  <2> QED
    BY <2>5, Zenon DEF Ledger!Next
<1> QED
  BY <1>1, <1>2, Zenon

(* The same for SetStatus. *)
LEMMA LedgerSetStatus ==
  ASSUME ExpTypeOK, NEW c \in Cells, NEW status \in CellStatus, SetStatus(c, status),
         spec' = spec, spec # None, UNCHANGED <<run, retries>>,
         \/ cell[c].status \notin Settled /\ status \in {"pending", "allocating", "failed"}
         \/ cell[c].status \in {"pending", "allocating", "allocated"} /\ status = "cancelled"
  PROVE  [Ledger!Next]_(Ledger!ledger)
<1> DEFINE decision == IF status \in Settled THEN status ELSE "open"
<1>1. /\ \A d \in Cells : d # c => cell'[d] = cell[d]
      /\ \A d \in Cells : cell'[d].superseding = cell[d].superseding
      /\ cell'[c].status = status
  BY SetStatusFacts, Zenon
<1>2. Outcome(c)' = decision /\ \A d \in Cells : d # c => Outcome(d)' = Outcome(d)
  BY <1>1, Zenon DEF Outcome
<1>3. \/ decision = Outcome(c)
      \/ Outcome(c) = "open" /\ decision = "failed"
      \/ Outcome(c) \in {"open", "allocated"} /\ decision = "cancelled"
  BY Zenon DEF Outcome, Settled
<1> HIDE DEF decision
<1> QED
  BY <1>1, <1>2, <1>3, LedgerDecide, Zenon

(* A step that leaves the cells, the Runs and the specification alone. *)
LEMMA LedgerIdle ==
  ASSUME UNCHANGED <<spec, cell, run, retries>>
  PROVE  [Ledger!Next]_(Ledger!ledger)
<1>1. UNCHANGED Ledger!ledger
  BY LedgerStutter, Zenon DEF Outcome
<1> QED
  BY <1>1, Zenon

(* A step that leaves all but the specification alone. *)
LEMMA LedgerPublish ==
  ASSUME ExpInv, NEW s \in Services, publish_spec_and_cells(s)
  PROVE  [Ledger!Next]_(Ledger!ledger)
<1>1. UNCHANGED <<cell, run, retries>>
  BY Zenon DEF publish_spec_and_cells, runs
<1>2. CASE spec' = spec
  BY <1>1, <1>2, LedgerIdle, Zenon
<1>3. CASE spec' # spec
  <2>1. spec = None /\ spec' = sf[s].content /\ sf[s].content \in Contents
    BY <1>3, Zenon DEF publish_spec_and_cells, ExpInv, FlowInv
  <2>2. Ledger!Publish(sf[s].content)
    BY <1>1, <2>1, Zenon DEF Ledger!Publish
  <2> QED
    BY <2>1, <2>2, Zenon DEF Ledger!Next
<1> QED
  BY <1>2, <1>3, Zenon

(* create_cell_run creates the initial Run or reuses it. *)
LEMMA LedgerCreate ==
  ASSUME ExpInv, NEW s \in Services, create_cell_run(s)
  PROVE  [Ledger!Next]_(Ledger!ledger)
<1>0. sf[s].at \in Cells
  BY Zenon DEF create_cell_run, ExpInv, FlowInv, AtOneCell
<1> PICK c \in Cells : c = sf[s].at
  BY <1>0, Zenon
<1>1. spec # None
  BY Zenon DEF create_cell_run, ExpInv, FlowInv, AtOneCell, Allocating
<1>2. UNCHANGED <<spec, cell, retries>>
  BY Zenon DEF create_cell_run, matrix
<1>3. run' = run \/ (run[c] = "absent" /\ run' = [run EXCEPT ![c] = "queued"])
  BY Zenon DEF create_cell_run
<1>4. CASE run' = run
  BY <1>2, <1>4, LedgerIdle, Zenon
<1>5. CASE run[c] = "absent" /\ run' = [run EXCEPT ![c] = "queued"]
  <2>1. run \in [Cells -> RunStatus]
    BY Zenon DEF ExpInv, ExpTypeOK
  <2>2. [d \in Cells |-> run'[d] # "absent"]
          = [[d \in Cells |-> run[d] # "absent"] EXCEPT ![c] = TRUE]
    BY <1>1, <1>5, <2>1, Zenon
  <2>3. Ledger!CreateInitial(c)
    BY <1>1, <1>2, <1>5, <2>2, Zenon DEF Ledger!CreateInitial
  <2> QED
    BY <1>1, <2>3, Zenon DEF Ledger!Next
<1> QED
  BY <1>3, <1>4, <1>5, Zenon

(* Everything else a service does. *)
LEMMA LedgerService ==
  ASSUME ExpInv, NEW s \in Services,
         \/ \E content \in Contents \cup {None} : Start(s, content)
         \/ ServiceNext(s)
         \/ CrashService(s)
  PROVE  [Ledger!Next]_(Ledger!ledger)
<1>1. CASE \/ \E content \in Contents \cup {None} : Start(s, content)
           \/ CrashService(s) \/ Reject(s) \/ List(s) \/ Skip(s) \/ Recover(s) \/ Return(s)
           \/ \E keyed \in BOOLEAN : Bind(s, keyed)
  <2>1. UNCHANGED <<spec, cell, run, retries>>
    BY <1>1, Zenon DEF Start, CrashService, Reject, List, Skip, Recover, Return, Bind, matrix, runs
  <2> QED
    BY <2>1, LedgerIdle, Zenon
<1>2. CASE publish_spec_and_cells(s)
  BY <1>2, LedgerPublish, Zenon
<1>3. CASE create_cell_run(s)
  BY <1>3, LedgerCreate, Zenon
<1>4. CASE reset_allocating(s) \/ claim_cell(s) \/ fail_cell_safely(s)
  <2>0. sf[s].at \in Cells
    BY <1>4, Zenon DEF reset_allocating, claim_cell, fail_cell_safely, AtCell, ExpInv, FlowInv,
                AtOneCell
  <2> PICK c \in Cells : c = sf[s].at
    BY <2>0, Zenon
  <2>1. spec # None
    BY <1>4, Zenon DEF reset_allocating, claim_cell, fail_cell_safely, AtCell, ExpInv, FlowInv,
                AtOneCell, Allocating
  <2>2. UNCHANGED <<spec, run, retries>>
    BY <1>4, Zenon DEF reset_allocating, claim_cell, fail_cell_safely, matrix, runs
  <2>3. \/ cell' = cell
        \/ /\ cell[c].status \notin Settled
           /\ \E status \in {"pending", "allocating", "failed"} : SetStatus(c, status)
    BY <1>4, Zenon DEF reset_allocating, claim_cell, fail_cell_safely, Settled
  <2>4. CASE cell' = cell
    BY <2>2, <2>4, LedgerIdle, Zenon
  <2>5. ASSUME NEW status \in {"pending", "allocating", "failed"}, SetStatus(c, status),
               cell[c].status \notin Settled
        PROVE  [Ledger!Next]_(Ledger!ledger)
    <3>1. status \in CellStatus
      BY Zenon DEF CellStatus, Settled
    <3> QED
      BY <2>1, <2>2, <2>5, <3>1, LedgerSetStatus, Zenon DEF ExpInv
  <2> QED
    BY <2>3, <2>4, <2>5, Zenon
<1>5. CASE complete_claimed_cell(s)
  <2>0. sf[s].at \in Cells
    BY <1>5, Zenon DEF complete_claimed_cell, ExpInv, FlowInv, AtOneCell
  <2> PICK c \in Cells : c = sf[s].at
    BY <2>0, Zenon
  <2>1. spec # None /\ run[c] # "absent"
    BY <1>5, Zenon DEF complete_claimed_cell, ExpInv, FlowInv, AtOneCell, Allocating
  <2>2. UNCHANGED <<spec, run, retries>>
    BY <1>5, Zenon DEF complete_claimed_cell, matrix, runs
  <2>3. CASE cell' = cell
    BY <2>2, <2>3, LedgerIdle, Zenon
  <2>4. CASE /\ cell[c].status = "allocating"
             /\ cell' = [cell EXCEPT ![c] = [cell[c] EXCEPT !.status = "allocated", !.owned = TRUE]]
    <3>1. /\ \A d \in Cells : d # c => cell'[d] = cell[d]
          /\ \A d \in Cells : cell'[d].superseding = cell[d].superseding
          /\ cell'[c].status = "allocated"
      BY <2>1, <2>4, CompleteFacts, Zenon DEF ExpInv
    <3>2. Outcome(c)' = "allocated" /\ \A d \in Cells : d # c => Outcome(d)' = Outcome(d)
      BY <3>1, Zenon DEF Outcome, Settled
    <3>3. Outcome(c) = "open"
      BY <2>4, Zenon DEF Outcome, Settled
    <3> QED
      BY <2>1, <2>2, <3>1, <3>2, <3>3, LedgerDecide, Zenon
  <2> QED
    BY <1>5, <2>3, <2>4, Zenon DEF complete_claimed_cell
<1> QED
  BY <1>1, <1>2, <1>3, <1>4, <1>5, Zenon DEF ServiceNext

(* cancel_owned_run and the Worker move Runs that exist. *)
LEMMA LedgerMoveRun ==
  ASSUME ExpInv, NEW c \in Cells, NEW status \in RunStatus \ {"absent"}, run[c] # "absent",
         run' = [run EXCEPT ![c] = status], UNCHANGED <<spec, cell, retries>>
  PROVE  [Ledger!Next]_(Ledger!ledger)
<1>1. run \in [Cells -> RunStatus]
  BY Zenon DEF ExpInv, ExpTypeOK
<1>2. \A d \in Cells : run'[d] = "absent" <=> run[d] = "absent"
  BY <1>1, Zenon
<1>3. UNCHANGED Ledger!ledger
  BY <1>2, LedgerStutter, Zenon DEF Outcome
<1> QED
  BY <1>3, Zenon

LEMMA LedgerCancelRun ==
  ASSUME ExpInv, NEW o \in Operators, cancel_owned_run(o)
  PROVE  [Ledger!Next]_(Ledger!ledger)
<1>0. of[o].at \in Cells
  BY Zenon DEF cancel_owned_run, ExpInv, FlowInv
<1> PICK c \in Cells : c = of[o].at
  BY <1>0, Zenon
<1>1. UNCHANGED <<spec, cell, retries>>
  BY Zenon DEF cancel_owned_run, matrix
<1>2. run \in [Cells -> RunStatus]
  BY Zenon DEF ExpInv, ExpTypeOK
<1>3. CASE run' = run
  BY <1>1, <1>3, LedgerIdle, Zenon
<1>4. CASE run' = [run EXCEPT ![c] = CancelledRun(run[c])] /\ run[c] = "absent"
  <2>1. run' = run
    BY <1>2, <1>4, Zenon DEF CancelledRun
  <2> QED
    BY <1>1, <2>1, LedgerIdle, Zenon
<1>5. CASE run' = [run EXCEPT ![c] = CancelledRun(run[c])] /\ run[c] # "absent"
  <2>1. CancelledRun(run[c]) \in RunStatus \ {"absent"}
    BY <1>2, <1>5, Zenon DEF CancelledRun, RunStatus
  <2> QED
    BY <1>1, <1>5, <2>1, LedgerMoveRun, Zenon
<1> QED
  BY <1>3, <1>4, <1>5, Zenon DEF cancel_owned_run

(* CreateRetry creates the next number or finds it taken. *)
LEMMA LedgerRetry ==
  ASSUME ExpInv, NEW o \in Operators, CreateRetry(o)
  PROVE  [Ledger!Next]_(Ledger!ledger)
<1>0. of[o].at \in Cells /\ of[o].pc = "create"
  BY Zenon DEF CreateRetry, ExpInv, FlowInv
<1> PICK c \in Cells : c = of[o].at
  BY <1>0, Zenon
<1>1. UNCHANGED <<spec, cell, run>>
  BY Zenon DEF CreateRetry, matrix
<1>2. CASE retries' = retries
  BY <1>1, <1>2, LedgerIdle, Zenon
<1>3. CASE /\ of[o].no \notin retries[c]
           /\ retries' = [retries EXCEPT ![c] = retries[c] \cup {of[o].no}]
  <2>1. of[o].no = Len(cell[c].superseding) + 1
    BY <1>0, <1>3, NewRetryNumber, Zenon
  <2>2. run[c] # "absent" /\ cell[c].status \in {"allocated", "cancelled"}
    BY <1>0, Zenon DEF ExpInv, FlowInv
  <2>3. [d \in Cells |-> IF cell'[d].status \in Settled THEN cell'[d].status ELSE "open"]
          = [d \in Cells |-> IF cell[d].status \in Settled THEN cell[d].status ELSE "open"]
    BY <1>1, Zenon
  <2>4. /\ [d \in Cells |-> run'[d] # "absent"] = [d \in Cells |-> run[d] # "absent"]
        /\ [d \in Cells |-> cell'[d].superseding] = [d \in Cells |-> cell[d].superseding]
    BY <1>1, Zenon
  <2>5. Ledger!CreateRetry(c)
    BY <1>1, <1>3, <2>1, <2>2, <2>3, <2>4, Zenon DEF Ledger!CreateRetry, Settled
  <2> QED
    BY <2>5, Zenon DEF Ledger!Next
<1> QED
  BY <1>2, <1>3, Zenon DEF CreateRetry

(* record_superseding lists the retry Run its call created. *)
LEMMA LedgerRecord ==
  ASSUME ExpInv, NEW o \in Operators, record_superseding(o)
  PROVE  [Ledger!Next]_(Ledger!ledger)
<1>0. of[o].at \in Cells
  BY Zenon DEF record_superseding, ExpInv, FlowInv
<1> PICK c \in Cells : c = of[o].at
  BY <1>0, Zenon
<1>1. UNCHANGED <<spec, run, retries>>
  BY Zenon DEF record_superseding, matrix, runs
<1>2. /\ Len(cell[c].superseding) + 1 \in retries[c]
      /\ \A d \in Cells : d # c => cell'[d] = cell[d]
      /\ cell'[c].status = cell[c].status
      /\ cell'[c].superseding = Append(cell[c].superseding, Len(cell[c].superseding) + 1)
  BY RecordFacts, Zenon
<1>3. [d \in Cells |-> IF cell'[d].status \in Settled THEN cell'[d].status ELSE "open"]
        = [d \in Cells |-> IF cell[d].status \in Settled THEN cell[d].status ELSE "open"]
  BY <1>2, Zenon
<1>4. [d \in Cells |-> run'[d] # "absent"] = [d \in Cells |-> run[d] # "absent"]
  BY <1>1, Zenon
<1>5. [d \in Cells |-> cell'[d].superseding]
        = [[d \in Cells |-> cell[d].superseding] EXCEPT
             ![c] = Append(cell[c].superseding, Len(cell[c].superseding) + 1)]
  BY <1>2, Zenon
<1>6. Ledger!ListRetry(c)
  BY <1>1, <1>2, <1>3, <1>4, <1>5, Zenon DEF Ledger!ListRetry
<1> QED
  BY <1>6, Zenon DEF Ledger!Next

LEMMA LedgerStep ==
  ASSUME ExpInv, [Next]_vars
  PROVE  [Ledger!Next]_(Ledger!ledger)
<1>1. CASE UNCHANGED vars
  BY <1>1, LedgerIdle, Zenon DEF vars
<1>2. ASSUME NEW s \in Services,
             \/ \E content \in Contents \cup {None} : Start(s, content)
             \/ ServiceNext(s)
             \/ CrashService(s)
      PROVE  [Ledger!Next]_(Ledger!ledger)
  BY <1>2, LedgerService, Zenon
<1>3. ASSUME NEW o \in Operators,
             Cancel(o) \/ (\E c \in Cells : retry_cell(o, c)) \/ PassOver(o) \/ CrashOperator(o)
      PROVE  [Ledger!Next]_(Ledger!ledger)
  <2>1. UNCHANGED <<spec, cell, run, retries>>
    BY <1>3, Zenon DEF Cancel, retry_cell, Call, PassOver, CrashOperator, matrix, runs
  <2> QED
    BY <2>1, LedgerIdle, Zenon
<1>4. ASSUME NEW o \in Operators, cancel_cell(o)
      PROVE  [Ledger!Next]_(Ledger!ledger)
  <2>0. of[o].at \in Cells /\ spec # None
    BY <1>4, Zenon DEF cancel_cell, ExpInv, FlowInv
  <2> PICK c \in Cells : c = of[o].at
    BY <2>0, Zenon
  <2>1. UNCHANGED <<spec, run, retries>>
    BY <1>4, Zenon DEF cancel_cell, matrix, runs
  <2>2. CASE cell' = cell
    BY <2>1, <2>2, LedgerIdle, Zenon
  <2>3. CASE /\ cell[c].status \in {"pending", "allocating", "allocated"}
             /\ SetStatus(c, "cancelled")
    <3>1. "cancelled" \in CellStatus
      BY Zenon DEF CellStatus, Settled
    <3> QED
      BY <2>0, <2>1, <2>3, <3>1, LedgerSetStatus, Zenon DEF ExpInv
  <2> QED
    BY <1>4, <2>2, <2>3, Zenon DEF cancel_cell
<1>5. ASSUME NEW c \in Cells, Work(c)
      PROVE  [Ledger!Next]_(Ledger!ledger)
  <2>1. UNCHANGED <<spec, cell, retries>>
    BY <1>5, Zenon DEF Work, matrix
  <2>2. run[c] # "absent" /\ \E status \in {"running", "over"} : run' = [run EXCEPT ![c] = status]
    BY <1>5, Zenon DEF Work
  <2> QED
    BY <2>1, <2>2, LedgerMoveRun, Zenon DEF RunStatus
<1>6. CASE LoseLock
  BY <1>6, LedgerIdle, Zenon DEF LoseLock, matrix, runs
<1> QED
  BY <1>1, <1>2, <1>3, <1>4, <1>5, <1>6, LedgerCancelRun, LedgerRetry, LedgerRecord, Zenon
     DEF Next, OperatorNext

(* Whatever services, operators, crashes and a lost lock do, the cells and  *)
(* their Runs keep the promises of CellLedger: the matrix is published once *)
(* (publish_spec_and_cells), a cell has one initial Run (_allocate_one), is *)
(* allocated only to a Run that exists, and its retries are numbered        *)
(* without gaps and listed one by one (retry_cell).                         *)
THEOREM ExperimentsImplementLedger == Spec => ImplementsLedger
<1>1. ExpInv /\ [Next]_vars => [Ledger!Next]_(Ledger!ledger)
  BY LedgerStep, Zenon
<1> QED
  BY <1>1, LedgerInit, ExpInvariant, PTL DEF Spec, ImplementsLedger, Ledger!Spec
=============================================================================
