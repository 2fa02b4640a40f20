---------------------------- MODULE Experiments -----------------------------
(***************************************************************************)
(* Experiments (motte_storage/experiments.py, motte_sdk/experiments.py).   *)
(* An experiment is a matrix of cells; allocation gives every cell one     *)
(* initial Run.  Services create and allocate under the experiment's       *)
(* allocation lock; operators cancel the experiment and retry cells        *)
(* without it.  There is one step per transaction and one per read whose   *)
(* value is used later; any service may crash between two of them, and     *)
(* the PostgreSQL session that holds the lock may go away.                 *)
(*                                                                         *)
(* Abstractions.  One experiment_id@version, with the contents clients     *)
(* submit for it, and one request key.  The initial Run of a cell has the  *)
(* deterministic id, so it is known by its cell; a retry Run by its cell   *)
(* and the number in its id.  A Run is queued, running, running with a     *)
(* stored cancellation request ("asked") or over.  Compilation, previews   *)
(* and admission either succeed or reject the call (Reject).               *)
(***************************************************************************)
EXTENDS Integers, Sequences, FiniteSets

CONSTANTS NCells,      \* number of cells of the matrix
          Contents,    \* contents clients submit for the specification
          Services,    \* service processes that create and allocate
          Operators,   \* callers of cancel and retry_cell
          None,        \* no content, no lock holder
          MaxCalls,    \* bound: calls of create and allocate, and of operators
          MaxFaults    \* bound: crashes and lost locks

ASSUME NCellsAssumption == NCells \in Nat \ {0}
ASSUME NoneAssumption == None \notin Contents \cup Services
ASSUME BoundsAssumption == MaxCalls \in Nat /\ MaxFaults \in Nat

Cells == 1..NCells

VARIABLES spec,      \* the published specification, None before
          key,       \* the content the request key is bound to
          cell,      \* cell[c]: allocation_status, run_id set, superseding_run_ids
          run,       \* run[c]: the initial Run
          retries,   \* retries[c]: numbers of the retry Runs that exist
          lock,      \* holder of experiment_allocation_lock
          sf,        \* sf[s]: activation record of a service's call
          of,        \* of[o]: activation record of an operator's call
          used       \* calls and faults so far, and whether a lock was lost

vars == <<spec, key, cell, run, retries, lock, sf, of, used>>
matrix == <<spec, key>>
runs == <<run, retries>>

-----------------------------------------------------------------------------
Settled == {"allocated", "failed", "cancelled"}
CellStatus == {"pending", "allocating"} \cup Settled
RunStatus == {"absent", "queued", "running", "asked", "over"}
ServiceStep == {"idle", "bind", "publish", "list", "cell", "reset", "claim", "create",
                "complete", "fail"}
OperatorStep == {"idle", "cell", "mark", "create", "record"}

Idle == [pc |-> "idle", content |-> None, seen |-> [c \in Cells |-> "pending"], at |-> 1]
AtRest == [pc |-> "idle", seen |-> [c \in Cells |-> "pending"], at |-> 1, no |-> 0]

ServiceFrame == [pc : ServiceStep, content : Contents \cup {None},
                 seen : [Cells -> CellStatus], at : 1..(NCells + 1)]
OperatorFrame == [pc : OperatorStep, seen : [Cells -> CellStatus], at : 1..(NCells + 1),
                  no : Nat]
CellRecord == [status : CellStatus, owned : BOOLEAN, superseding : Seq(Nat)]

Init ==
  /\ spec = None
  /\ key = None
  /\ cell = [c \in Cells |-> [status |-> "pending", owned |-> FALSE, superseding |-> <<>>]]
  /\ run = [c \in Cells |-> "absent"]
  /\ retries = [c \in Cells |-> {}]
  /\ lock = None
  /\ sf = [s \in Services |-> Idle]
  /\ of = [o \in Operators |-> AtRest]
  /\ used = [calls |-> 0, faults |-> 0, lost |-> FALSE]

Statuses == [c \in Cells |-> cell[c].status]

(* A transaction of SQLiteExperiments that sets the status of a cell. *)
SetStatus(c, status) == cell' = [cell EXCEPT ![c].status = status]

-----------------------------------------------------------------------------
(* Control of a service's call. *)
ServiceGoto(s, pc) == sf' = [sf EXCEPT ![s].pc = pc]
NextCell(s) ==
  sf' = [sf EXCEPT ![s] = [sf[s] EXCEPT !.pc = "cell", !.at = sf[s].at + 1]]
Unlocked(s) == IF lock = s THEN None ELSE lock

(* The call ends: it returns or an exception leaves it. *)
Leave(s) ==
  /\ sf' = [sf EXCEPT ![s] = Idle]
  /\ lock' = Unlocked(s)

(* create() and allocate() take the allocation lock. *)
Start(s, content) ==
  /\ sf[s].pc = "idle"
  /\ lock = None
  /\ used.calls < MaxCalls
  /\ lock' = s
  /\ sf' = [sf EXCEPT ![s] = [Idle EXCEPT !.pc = IF content = None THEN "list" ELSE "bind",
                                           !.content = content]]
  /\ used' = [used EXCEPT !.calls = used.calls + 1]
  /\ UNCHANGED <<matrix, cell, runs, of>>

(* Compilation, a stale preview, inputs that are not admitted: the call is *)
(* rejected before it writes.                                              *)
Reject(s) ==
  /\ sf[s].pc \in {"bind", "list"}
  /\ Leave(s)
  /\ UNCHANGED <<matrix, cell, runs, of, used>>

(* A specification that is already published must have this content; the   *)
(* request key, if there is one, is bound to it before anything is made.   *)
Bind(s, keyed) ==
  LET fits == /\ spec \in {None, sf[s].content}
              /\ keyed => key \in {None, sf[s].content}
  IN  /\ sf[s].pc = "bind"
      /\ IF fits THEN ServiceGoto(s, "publish") /\ UNCHANGED lock ELSE Leave(s)
      /\ key' = IF fits /\ keyed THEN sf[s].content ELSE key
      /\ UNCHANGED <<spec, cell, runs, of, used>>

(* publish_spec_and_cells: one transaction, never over existing progress. *)
publish_spec_and_cells(s) ==
  /\ sf[s].pc = "publish"
  /\ spec' = IF spec = None THEN sf[s].content ELSE spec
  /\ IF spec \in {None, sf[s].content}
       THEN ServiceGoto(s, "list") /\ UNCHANGED lock
       ELSE Leave(s)
  /\ UNCHANGED <<key, cell, runs, of, used>>

(* _allocate_locked reads the cells once. *)
List(s) ==
  /\ sf[s].pc = "list"
  /\ IF spec = None
       THEN Leave(s)
       ELSE /\ sf' = [sf EXCEPT ![s] = [sf[s] EXCEPT !.pc = "cell", !.seen = Statuses, !.at = 1]]
            /\ UNCHANGED lock
  /\ UNCHANGED <<matrix, cell, runs, of, used>>

-----------------------------------------------------------------------------
(* _allocate_one, on the status that List saw. *)
AtCell(s) == sf[s].pc = "cell" /\ sf[s].at \in Cells
Seen(s) == sf[s].seen[sf[s].at]

Skip(s) ==
  /\ AtCell(s)
  /\ Seen(s) \in Settled
  /\ NextCell(s)
  /\ UNCHANGED <<matrix, cell, runs, lock, of, used>>

(* Mutant: an interrupted allocation is taken for somebody else's. *)
SkipInterrupted(s) ==
  /\ AtCell(s)
  /\ Seen(s) = "allocating"
  /\ NextCell(s)
  /\ UNCHANGED <<matrix, cell, runs, lock, of, used>>

(* A cell seen allocating was left by a crash: look for its Run. *)
Recover(s) ==
  /\ AtCell(s)
  /\ Seen(s) = "allocating"
  /\ ServiceGoto(s, IF run[sf[s].at] # "absent" THEN "complete" ELSE "reset")
  /\ UNCHANGED <<matrix, cell, runs, lock, of, used>>

reset_allocating(s) ==
  LET c == sf[s].at
  IN  /\ sf[s].pc = "reset"
      /\ IF cell[c].status = "allocating" THEN SetStatus(c, "pending") ELSE UNCHANGED cell
      /\ ServiceGoto(s, "claim")
      /\ UNCHANGED <<matrix, runs, lock, of, used>>

claim_cell(s) ==
  LET c == sf[s].at
  IN  /\ sf[s].pc = "claim" \/ (AtCell(s) /\ Seen(s) = "pending")
      /\ IF cell[c].status = "pending"
           THEN SetStatus(c, "allocating") /\ ServiceGoto(s, "create")
           ELSE UNCHANGED cell /\ NextCell(s)
      /\ UNCHANGED <<matrix, runs, lock, of, used>>

(* create_run under the deterministic id.  A Run that exists is reused.     *)
(* Any other error fails the cell, whether it came before the Run was       *)
(* stored or after it.                                                      *)
create_cell_run(s) ==
  LET c == sf[s].at
  IN  /\ sf[s].pc = "create"
      /\ \E stored, raises \in BOOLEAN :
           /\ stored \/ raises
           /\ run' = IF stored /\ run[c] = "absent" THEN [run EXCEPT ![c] = "queued"] ELSE run
           /\ ServiceGoto(s, IF raises THEN "fail" ELSE "complete")
      /\ UNCHANGED <<matrix, cell, retries, lock, of, used>>

(* Mutant: complete_cell accepts a cell in any state. *)
CompleteAnyway(s) ==
  LET c == sf[s].at
  IN  /\ sf[s].pc = "complete"
      /\ cell' = [cell EXCEPT ![c] = [cell[c] EXCEPT !.status = "allocated", !.owned = TRUE]]
      /\ NextCell(s)
      /\ UNCHANGED <<matrix, runs, lock, of, used>>

(* complete_cell; when it refuses, the call goes on only if the cell is     *)
(* already allocated to this Run.                                           *)
complete_claimed_cell(s) ==
  LET c == sf[s].at
  IN  /\ sf[s].pc = "complete"
      /\ IF cell[c].status = "allocating"
           THEN cell' = [cell EXCEPT ![c] = [cell[c] EXCEPT !.status = "allocated", !.owned = TRUE]]
           ELSE UNCHANGED cell
      /\ IF cell[c].status \in {"allocating", "allocated"}
           THEN NextCell(s) /\ UNCHANGED lock
           ELSE Leave(s)
      /\ UNCHANGED <<matrix, runs, of, used>>

fail_cell_safely(s) ==
  LET c == sf[s].at
  IN  /\ sf[s].pc = "fail"
      /\ IF cell[c].status = "allocating" THEN SetStatus(c, "failed") ELSE UNCHANGED cell
      /\ IF cell[c].status \in {"allocating", "allocated", "failed"}
           THEN NextCell(s) /\ UNCHANGED lock
           ELSE Leave(s)
      /\ UNCHANGED <<matrix, runs, of, used>>

AllDone(s) == sf[s].pc = "cell" /\ sf[s].at = NCells + 1

Return(s) ==
  /\ AllDone(s)
  /\ Leave(s)
  /\ UNCHANGED <<matrix, cell, runs, of, used>>

-----------------------------------------------------------------------------
(* Control of an operator's call. *)
OperatorGoto(o, pc) == of' = [of EXCEPT ![o].pc = pc]
Done(o) == of' = [of EXCEPT ![o] = AtRest]
Onward(o) ==
  IF of[o].at = NCells
    THEN Done(o)
    ELSE of' = [of EXCEPT ![o] = [of[o] EXCEPT !.pc = "cell", !.at = of[o].at + 1]]

(* A call of an operator: cancel reads the cells once, retry_cell its cell. *)
Call(o, frame) ==
  /\ of[o].pc = "idle"
  /\ spec # None
  /\ used.calls < MaxCalls
  /\ of' = [of EXCEPT ![o] = frame]
  /\ used' = [used EXCEPT !.calls = used.calls + 1]
  /\ UNCHANGED <<matrix, cell, runs, lock, sf>>

Cancel(o) == Call(o, [AtRest EXCEPT !.pc = "cell", !.seen = Statuses])

PassOver(o) ==
  /\ of[o].pc = "cell"
  /\ of[o].seen[of[o].at] \in {"failed", "cancelled"}
  /\ Onward(o)
  /\ UNCHANGED <<matrix, cell, runs, lock, sf, used>>

(* RunService.cancel: a Run in execution gets a request, a queued one is    *)
(* cancelled, no Run or a finished one is left alone.                       *)
CancelledRun(status) ==
  CASE status = "running" -> "asked"
    [] status = "queued" -> "over"
    [] OTHER -> status

(* The Run of a cell that was seen allocating or allocated is cancelled     *)
(* first.  The compare-and-set can lose against the Worker, which ends the  *)
(* whole call.                                                              *)
cancel_owned_run(o) ==
  LET c == of[o].at
  IN  /\ of[o].pc = "cell"
      /\ of[o].seen[c] \in {"allocating", "allocated"}
      /\ \/ run' = [run EXCEPT ![c] = CancelledRun(run[c])] /\ OperatorGoto(o, "mark")
         \/ run[c] \in {"queued", "running", "asked"} /\ Done(o) /\ UNCHANGED run
      /\ UNCHANGED <<matrix, cell, retries, lock, sf, used>>

(* cancel_cell for a cell seen pending or allocating, cancel_allocated_cell *)
(* for one seen allocated.  A cell that moved on in between raises, and the *)
(* cells after it are not looked at.                                        *)
cancel_cell(o) ==
  LET c == of[o].at
      expected == IF of[o].seen[c] = "allocated" THEN {"allocated"} ELSE {"pending", "allocating"}
  IN  /\ of[o].pc = "mark" \/ (of[o].pc = "cell" /\ of[o].seen[c] = "pending")
      /\ IF cell[c].status \in expected
           THEN SetStatus(c, "cancelled") /\ Onward(o)
           ELSE UNCHANGED cell /\ Done(o)
      /\ UNCHANGED <<matrix, runs, lock, sf, used>>

(* retry_cell numbers the new Run by what the cell lists. *)
retry_cell(o, c) ==
  /\ cell[c].owned
  /\ run[c] # "absent"
  /\ Call(o, [AtRest EXCEPT !.pc = "create", !.at = c, !.no = Len(cell[c].superseding) + 1])

(* create_run under that number: a Run of this id raises RunConflictError. *)
CreateRetry(o) ==
  LET c == of[o].at
  IN  /\ of[o].pc = "create"
      /\ IF of[o].no \in retries[c]
           THEN Done(o) /\ UNCHANGED retries
           ELSE /\ retries' = [retries EXCEPT ![c] = retries[c] \cup {of[o].no}]
                /\ OperatorGoto(o, "record")
      /\ UNCHANGED <<matrix, cell, run, lock, sf, used>>

Listed(c) == {cell[c].superseding[i] : i \in DOMAIN cell[c].superseding}

record_superseding(o) ==
  LET c == of[o].at
  IN  /\ of[o].pc = "record"
      /\ cell' = IF of[o].no \in Listed(c)
                   THEN cell
                   ELSE [cell EXCEPT ![c].superseding = Append(cell[c].superseding, of[o].no)]
      /\ Done(o)
      /\ UNCHANGED <<matrix, runs, lock, sf, used>>

-----------------------------------------------------------------------------
(* The Worker claims, finishes or gives up initial Runs (see module Worker). *)
Work(c) ==
  /\ \/ run[c] = "queued" /\ run' = [run EXCEPT ![c] = "running"]
     \/ run[c] \in {"running", "asked"} /\ run' = [run EXCEPT ![c] = "over"]
  /\ UNCHANGED <<matrix, cell, retries, lock, sf, of, used>>

Fault == used.faults < MaxFaults

(* A service dies: its call and its lock are gone. *)
CrashService(s) ==
  /\ Fault
  /\ sf[s].pc # "idle"
  /\ Leave(s)
  /\ used' = [used EXCEPT !.faults = used.faults + 1]
  /\ UNCHANGED <<matrix, cell, runs, of>>

CrashOperator(o) ==
  /\ Fault
  /\ of[o].pc # "idle"
  /\ Done(o)
  /\ used' = [used EXCEPT !.faults = used.faults + 1]
  /\ UNCHANGED <<matrix, cell, runs, lock, sf>>

(* The session of pg_advisory_lock is gone; its service goes on. *)
LoseLock ==
  /\ Fault
  /\ lock # None
  /\ lock' = None
  /\ used' = [used EXCEPT !.faults = used.faults + 1, !.lost = TRUE]
  /\ UNCHANGED <<matrix, cell, runs, sf, of>>

ServiceNext(s) ==
  \/ Reject(s)
  \/ \E keyed \in BOOLEAN : Bind(s, keyed)
  \/ publish_spec_and_cells(s)
  \/ List(s)
  \/ Skip(s)
  \/ Recover(s)
  \/ reset_allocating(s)
  \/ claim_cell(s)
  \/ create_cell_run(s)
  \/ complete_claimed_cell(s)
  \/ fail_cell_safely(s)
  \/ Return(s)

OperatorNext(o) ==
  \/ PassOver(o)
  \/ cancel_owned_run(o)
  \/ cancel_cell(o)
  \/ CreateRetry(o)
  \/ record_superseding(o)

Next ==
  \/ \E s \in Services :
       \/ \E content \in Contents \cup {None} : Start(s, content)
       \/ ServiceNext(s)
       \/ CrashService(s)
  \/ \E o \in Operators :
       \/ Cancel(o)
       \/ \E c \in Cells : retry_cell(o, c)
       \/ OperatorNext(o)
       \/ CrashOperator(o)
  \/ \E c \in Cells : Work(c)
  \/ LoseLock

Spec == Init /\ [][Next]_vars

-----------------------------------------------------------------------------
(* Type invariant. *)
ExpTypeOK ==
  /\ spec \in Contents \cup {None}
  /\ key \in Contents \cup {None}
  /\ cell \in [Cells -> CellRecord]
  /\ run \in [Cells -> RunStatus]
  /\ retries \in [Cells -> SUBSET Nat]
  /\ lock \in Services \cup {None}
  /\ sf \in [Services -> ServiceFrame]
  /\ of \in [Operators -> OperatorFrame]
  /\ used \in [calls : Nat, faults : Nat, lost : BOOLEAN]

(* The cells and their Runs keep the promises of CellLedger, whatever the   *)
(* interleaving of services, operators, crashes and a lost lock: pending    *)
(* and allocating are both undecided.                                       *)
Ledger == INSTANCE CellLedger WITH
  NoSpec <- None,
  outcome <- [c \in Cells |-> IF cell[c].status \in Settled THEN cell[c].status ELSE "open"],
  initial <- [c \in Cells |-> run[c] # "absent"],
  retried <- retries,
  listed <- [c \in Cells |-> cell[c].superseding]

ImplementsLedger == Ledger!Spec

(* A call of create or allocate that gets to its end leaves no cell behind: *)
(* each is allocated, failed or cancelled, those that an earlier call left  *)
(* when it crashed included (allocate(): the re-entrant recovery entry).    *)
AllocationIsComplete ==
  \A s \in Services :
    AllDone(s) /\ ~used.lost => \A c \in Cells : cell[c].status \in Settled

(* While the lock is not lost, a cell whose Run exists is never offered for *)
(* allocation again: reset_allocating needs the caller to have made sure    *)
(* that there is no Run.                                                    *)
PendingHasNoRun ==
  ~used.lost => \A c \in Cells : cell[c].status = "pending" => run[c] = "absent"

(* cancel(): a cell is set to cancelled once its own Run was cancelled or   *)
(* is over, so that no result of it is still to come.                       *)
CancelledIsOver ==
  \A c \in Cells : cell[c].status = "cancelled" => run[c] \in {"absent", "asked", "over"}
=============================================================================
