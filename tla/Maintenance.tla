---------------------------- MODULE Maintenance ----------------------------
(***************************************************************************)
(* The evidence files beside the database and the operations an operator   *)
(* runs on them: garbage collection (packages/storage/motte_storage/gc.py, *)
(* deletion_audit.py), backup and the maintenance barrier (maintenance.py, *)
(* operation_locks.py), and the retention of Trace events                  *)
(* (trace_retention.py, trace_archives.py), against Workers and importers  *)
(* that write files and refer to them, and API clients that append events  *)
(* and switch the barrier (apps/api/app/main.py).                          *)
(*                                                                         *)
(* Abstractions.  This is the SQLite deployment: the three locks are file  *)
(* locks, which a crash frees, while the barrier, a row of motte_meta,     *)
(* stays.  A file is known by its id, and its content by whether it is     *)
(* whole.  One Run has Trace events; an event or a record is reduced to    *)
(* the file it refers to, and which files have a reference with a hash is  *)
(* any set when a backup looks for it.  The TTL of files and the retention *)
(* cutoff are the operator's, so any files may be old enough, and a cutoff *)
(* is known by the last event before it.  An event that a baseline or a    *)
(* report points at ends a prefix as the cutoff does, and is left out; so  *)
(* is a retention plan without a prefix.                                   *)
(***************************************************************************)
EXTENDS Naturals, FiniteSets

CONSTANTS Workers,      \* processes that execute Runs, under the executor lock
          Importers,    \* processes that import results, under no lock
          Operators,    \* processes of the maintenance commands
          Files,        \* the ids of evidence files
          Imports,      \* those under imports/
          NoOne, NoFile,
          MaxEvents, MaxOps, MaxCrashes     \* bounds

ASSUME MaintAssumption ==
  /\ Imports \subseteq Files
  /\ NoFile \notin Files
  /\ NoOne \notin Workers \cup Importers \cup Operators
  /\ Workers \cap Importers = {}
  /\ (Workers \cup Importers) \cap Operators = {}
  /\ MaxEvents \in Nat /\ MaxOps \in Nat /\ MaxCrashes \in Nat

VARIABLES files,        \* the state of each file
          recs,         \* the files that records refer to
          live,         \* the rows of trace_events
          over,         \* whether the Run is terminal
          receipts,     \* trace_archive_receipts
          archives,     \* the files under trace-archives/
          tombstones,   \* motte_gc_tombstones, per collection and file
          meta,         \* the maintenance keys of motte_meta
          guards,       \* whether the barrier's triggers are installed
          maintenance, executor, artifacts,    \* the holders of the locks
          writer,       \* the step of each Worker and importer
          op,           \* the step of each operator
          plan,         \* the saved retention plan
          ops, crashes, \* counters for the bounds
          appended,     \* history: the events appended so far
          gone          \* history: the files each collection has unlinked

tables == <<recs, live, over, receipts>>
locks == <<maintenance, executor, artifacts>>
barrier == <<meta, guards>>
audits == <<tombstones, gone>>
counters == <<crashes, appended>>
operators == <<op, plan, ops, audits>>
vars == <<files, archives, tables, locks, barrier, writer, operators, counters>>

-----------------------------------------------------------------------------
FileState == {"absent", "torn", "whole"}
NoMeta == [active |-> FALSE, owner |-> 0, tombs |-> FALSE]
NoPlan == [first |-> 0, last |-> 0, keep |-> 0]
NoSnapshot == [recs |-> {}, live |-> {}, receipts |-> {}, appended |-> 0]
Idle == [pc |-> "idle", kind |-> "none", token |-> 0, todo |-> {}, refs |-> {},
         file |-> NoFile, snap |-> NoSnapshot, hashed |-> {}, copied |-> {}, plan |-> NoPlan]

(* Referring to a file: from a record, from a live event, or from a receipt, *)
(* which carries the references of the events that it replaced.              *)
EventFiles(rows) == {e.file : e \in rows} \ {NoFile}
Seqs(rows) == {e.seq : e \in rows}
ReceiptFiles(R) == UNION {r.files : r \in R}
referenced == recs \cup EventFiles(live) \cup ReceiptFiles(receipts)

(* SELECT MAX(seq): the numbering looks at the live rows only. *)
Latest(S) == IF S = {} THEN 0 ELSE CHOOSE n \in S : \A m \in S : m <= n
last_seq == Latest(Seqs(live))

boundary == Latest({r.plan.last : r \in receipts})

(* The prefixes follow each other from the first event on. *)
contiguous ==
  \A r \in receipts :
    /\ \A q \in receipts : q.plan.first = r.plan.first => q = r
    /\ r.plan.first = 1 + Latest({q.plan.last : q \in {p \in receipts : p.plan.first < r.plan.first}})

verify_trace_archives ==
  /\ contiguous
  /\ \A r \in receipts : [prefix |-> r.plan, whole |-> TRUE] \in archives
  /\ receipts # {} => Seqs(live) # {}
  /\ \A n \in Seqs(live) : n > boundary
  /\ \A r \in receipts : last_seq >= r.plan.keep

(* Mutant: the newest row may go too. *)
ExpiredAll(cutoff) == {n \in Seqs(live) : /\ boundary < n /\ n <= cutoff
                                           /\ (boundary + 1)..n \subseteq Seqs(live)}

(* The longest run of expired rows after the last archived one, without the  *)
(* newest row.                                                               *)
expired(cutoff) == {n \in Seqs(live) : /\ boundary < n /\ n # last_seq /\ n <= cutoff
                                        /\ (boundary + 1)..n \subseteq Seqs(live)}
plan_at_cutoff(cutoff) ==
  IF over /\ expired(cutoff) # {}
  THEN [first |-> boundary + 1, last |-> Latest(expired(cutoff)), keep |-> last_seq]
  ELSE NoPlan

barred == meta.active /\ guards

-----------------------------------------------------------------------------
(* Every event of the Run gets the next number in its own transaction. *)
append_event(f) ==
  /\ appended < MaxEvents
  /\ live' = live \cup {[seq |-> last_seq + 1, file |-> f]}
  /\ appended' = appended + 1

Goto(w, pc, f) == writer' = [writer EXCEPT ![w] = [pc |-> pc, file |-> f]]
Home(w) == Goto(w, IF w \in Workers THEN "ready" ELSE "idle", NoFile)

StartWorker(w) ==
  /\ w \in Workers /\ writer[w].pc = "idle" /\ executor = NoOne
  /\ executor' = w
  /\ Goto(w, "ready", NoFile)
  /\ UNCHANGED <<files, archives, tables, maintenance, artifacts, barrier, operators, counters>>

StopWorker(w) ==
  /\ w \in Workers /\ writer[w].pc = "ready"
  /\ executor' = NoOne
  /\ Goto(w, "idle", NoFile)
  /\ UNCHANGED <<files, archives, tables, maintenance, artifacts, barrier, operators, counters>>

(* A Worker looks at the barrier before it claims work, and not again. *)
Claim(w) ==
  /\ w \in Workers /\ writer[w].pc = "ready" /\ ~meta.active
  /\ \E f \in Files \ Imports : Goto(w, "put", f)
  /\ UNCHANGED <<files, archives, tables, locks, barrier, operators, counters>>

(* A unit that is in the ledger is not imported again. *)
StartImport(w) ==
  /\ w \in Importers /\ writer[w].pc = "idle"
  /\ \E f \in Imports \ recs : Goto(w, "put", f)
  /\ UNCHANGED <<files, archives, tables, locks, barrier, operators, counters>>

(* put_bytes holds the shared lock while it writes, and is refused while a   *)
(* maintenance operation holds the lock alone.                               *)
put_bytes(w) ==
  /\ writer[w].pc = "put"
  /\ IF artifacts = NoOne
     THEN /\ files' = [files EXCEPT ![writer[w].file] = "whole"]
          /\ Goto(w, "refer", writer[w].file)
     ELSE Home(w) /\ UNCHANGED files
  /\ UNCHANGED <<archives, tables, locks, barrier, operators, counters>>

(* The transaction that refers to the file; the triggers abort it behind the *)
(* barrier, and the file stays as an orphan.                                 *)
Refer(w) ==
  /\ writer[w].pc = "refer"
  /\ Home(w)
  /\ IF barred
     THEN UNCHANGED <<recs, live, appended>>
     ELSE IF w \in Workers
          THEN append_event(writer[w].file) /\ UNCHANGED recs
          ELSE recs' = recs \cup {writer[w].file} /\ UNCHANGED <<live, appended>>
  /\ UNCHANGED <<files, archives, over, receipts, locks, barrier, operators, crashes>>

(* The Worker settles the Run; other processes append events at any time. *)
FinishRun(w) ==
  /\ w \in Workers /\ writer[w].pc = "ready" /\ ~over /\ ~barred
  /\ over' = TRUE
  /\ append_event(NoFile)
  /\ UNCHANGED <<files, archives, recs, receipts, locks, barrier, writer, operators, crashes>>

AppendEvent ==
  /\ ~barred
  /\ append_event(NoFile)
  /\ UNCHANGED <<files, archives, recs, over, receipts, locks, barrier, writer, operators, crashes>>

(* The process of a writer ends; a file that it was writing is torn. *)
CrashWriter(w) ==
  /\ writer[w].pc # "idle" /\ crashes < MaxCrashes
  /\ crashes' = crashes + 1
  /\ executor' = IF executor = w THEN NoOne ELSE executor
  /\ Goto(w, "idle", NoFile)
  /\ \/ UNCHANGED files
     \/ /\ writer[w].pc = "put" /\ artifacts = NoOne
        /\ files' = [files EXCEPT ![writer[w].file] = "torn"]
  /\ UNCHANGED <<archives, tables, maintenance, artifacts, barrier, operators, appended>>

-----------------------------------------------------------------------------
(* The API's own switch of the barrier: the flag and nothing else. *)
maintenance_begin ==
  /\ ~meta.active
  /\ meta' = [meta EXCEPT !.active = TRUE]
  /\ UNCHANGED <<files, archives, tables, locks, guards, writer, operators, counters>>

maintenance_end ==
  /\ meta.active
  /\ meta' = [meta EXCEPT !.active = FALSE]
  /\ UNCHANGED <<files, archives, tables, locks, guards, writer, operators, counters>>

-----------------------------------------------------------------------------
Step(o, r) == op' = [op EXCEPT ![o] = r]
At(o, pc) == op[o].pc = pc
To(o, pc) == Step(o, [op[o] EXCEPT !.pc = pc])

StartOp(o, kind, todo) ==
  /\ At(o, "idle") /\ ops < MaxOps
  /\ ops' = ops + 1
  /\ Step(o, [Idle EXCEPT !.pc = "begin", !.kind = kind, !.token = ops + 1, !.todo = todo,
                         !.plan = IF kind = "trace" THEN plan ELSE NoPlan])

(* plan_gc: the files to delete, with the content they had.  gc apply plans  *)
(* and applies in one command.                                               *)
deletable == {f \in Files \ Imports : files[f] # "absent" /\ f \notin referenced}

GC(o) ==
  /\ verify_trace_archives
  /\ \E S \in SUBSET deletable : StartOp(o, "gc", {<<f, files[f]>> : f \in S})
  /\ UNCHANGED <<files, archives, tables, locks, barrier, writer, plan, audits, counters>>

Backup(o) ==
  /\ StartOp(o, "backup", {})
  /\ UNCHANGED <<files, archives, tables, locks, barrier, writer, plan, audits, counters>>

(* motte maintenance begin: the process ends once the barrier is up. *)
Hold(o) ==
  /\ StartOp(o, "hold", {})
  /\ UNCHANGED <<files, archives, tables, locks, barrier, writer, plan, audits, counters>>

(* A retention plan is saved to a file, and applied later and any number of  *)
(* times.                                                                    *)
plan_trace_retention(o) ==
  /\ At(o, "idle")
  /\ \E cutoff \in Seqs(live) :
       plan_at_cutoff(cutoff) # NoPlan /\ plan' = plan_at_cutoff(cutoff)
  /\ UNCHANGED <<files, archives, tables, locks, barrier, writer, op, ops, audits, counters>>

apply_trace_retention(o) ==
  /\ plan # NoPlan
  /\ StartOp(o, "trace", {})
  /\ UNCHANGED <<files, archives, tables, locks, barrier, writer, plan, audits, counters>>

-----------------------------------------------------------------------------
(* begin_maintenance.  The maintenance lock, taken first, is held by one     *)
(* operator, so taking the others with it in one step loses no interleaving; *)
(* a lock that is taken ends the command.                                    *)
acquire_operation_locks(o) ==
  /\ At(o, "begin")
  /\ IF maintenance = NoOne /\ executor = NoOne
     THEN /\ maintenance' = o
          /\ executor' = o
          /\ artifacts' = IF op[o].kind = "hold" THEN artifacts ELSE o
          /\ To(o, "activate")
     ELSE /\ Step(o, Idle)
          /\ UNCHANGED locks
  /\ UNCHANGED <<files, archives, tables, barrier, writer, plan, ops, audits, counters>>

Free(o) ==
  /\ maintenance' = IF maintenance = o THEN NoOne ELSE maintenance
  /\ executor' = IF executor = o THEN NoOne ELSE executor
  /\ artifacts' = IF artifacts = o THEN NoOne ELSE artifacts

begin_maintenance(o) ==
  /\ At(o, "activate")
  /\ IF meta.active
     THEN Free(o) /\ Step(o, Idle) /\ UNCHANGED barrier
     ELSE /\ meta' = [active |-> TRUE, owner |-> op[o].token, tombs |-> op[o].kind = "gc"]
          /\ guards' = TRUE
          /\ IF op[o].kind = "hold" THEN Free(o) /\ Step(o, Idle)
                                    ELSE To(o, op[o].kind) /\ UNCHANGED locks
  /\ UNCHANGED <<files, archives, tables, writer, plan, ops, audits, counters>>

(* end_maintenance of the operation itself: it clears all keys, unless the   *)
(* flag is up for another owner.                                             *)
end_maintenance(o) ==
  /\ At(o, "end")
  /\ meta' = IF meta.active /\ meta.owner # op[o].token THEN meta ELSE NoMeta
  /\ Free(o)
  /\ Step(o, Idle)
  /\ UNCHANGED <<files, archives, tables, guards, writer, plan, ops, audits, counters>>

(* end_maintenance with the token of an operation whose process is gone: it  *)
(* takes the maintenance and the executor lock while it clears the keys.     *)
Release(o) ==
  /\ At(o, "idle") /\ meta.active
  /\ maintenance = NoOne /\ executor = NoOne
  /\ meta' = NoMeta
  /\ UNCHANGED <<files, archives, tables, locks, guards, writer, operators, counters>>

CrashOp(o) ==
  /\ op[o].pc # "idle" /\ crashes < MaxCrashes
  /\ crashes' = crashes + 1
  /\ Free(o)
  /\ Step(o, Idle)
  /\ archives' \in {archives} \cup
       (IF At(o, "archive") /\ \A a \in archives : a.prefix # op[o].plan
        THEN {archives \cup {[prefix |-> op[o].plan, whole |-> FALSE]}} ELSE {})
  /\ UNCHANGED <<files, tables, barrier, writer, plan, ops, audits, appended>>

-----------------------------------------------------------------------------
(* Mutant: the plan is taken at its word. *)
TrustPlan(o) ==
  /\ At(o, "gc")
  /\ To(o, IF verify_trace_archives THEN "sweep" ELSE "end")
  /\ UNCHANGED <<files, archives, tables, locks, barrier, writer, plan, ops, audits, counters>>

(* apply_gc: the references are collected again behind the barrier. *)
collect_references(o) ==
  /\ At(o, "gc")
  /\ IF verify_trace_archives
     THEN Step(o, [op[o] EXCEPT !.pc = "sweep", !.refs = referenced])
     ELSE To(o, "end")
  /\ UNCHANGED <<files, archives, tables, locks, barrier, writer, plan, ops, audits, counters>>

audit(o, f, status) == tombstones' = [tombstones EXCEPT ![op[o].token][f] = status]

(* Mutant: the deletion is recorded before it is made. *)
SweepAhead(o, e) ==
  /\ At(o, "sweep") /\ e \in op[o].todo
  /\ LET f == e[1]
         skip == f \in op[o].refs \/ files[f] # e[2]
     IN  /\ Step(o, [op[o] EXCEPT !.todo = @ \ {e}, !.file = IF skip THEN NoFile ELSE f,
                                  !.pc = IF skip THEN "sweep" ELSE "unlink"])
         /\ IF skip THEN UNCHANGED tombstones ELSE audit(o, f, "deleted")
  /\ UNCHANGED <<files, archives, tables, locks, barrier, writer, plan, ops, gone, counters>>

(* One entry of the plan: it is skipped if it is referenced or has changed,  *)
(* an absent file is recorded as such, and the intent comes before the       *)
(* deletion.                                                                 *)
Sweep(o, e) ==
  /\ At(o, "sweep") /\ e \in op[o].todo
  /\ LET f == e[1]
         skip == f \in op[o].refs \/ files[f] \notin {"absent", e[2]}
     IN  /\ Step(o, [op[o] EXCEPT !.todo = @ \ {e},
                                  !.file = IF skip \/ files[f] = "absent" THEN NoFile ELSE f,
                                  !.pc = IF skip \/ files[f] = "absent" THEN "sweep" ELSE "unlink"])
         /\ IF skip THEN UNCHANGED tombstones
                    ELSE audit(o, f, IF files[f] = "absent" THEN "missing" ELSE "deleting")
  /\ UNCHANGED <<files, archives, tables, locks, barrier, writer, plan, ops, gone, counters>>

unlink(o) ==
  /\ At(o, "unlink")
  /\ files' = [files EXCEPT ![op[o].file] = "absent"]
  /\ gone' = gone \cup {<<op[o].token, op[o].file>>}
  /\ To(o, "record")
  /\ UNCHANGED <<archives, tables, locks, barrier, writer, plan, ops, tombstones, counters>>

(* The unlink fails, or the check of the directory after it does: then the   *)
(* file is gone.  The failure is recorded and ends the operation.            *)
UnlinkFails(o) ==
  /\ At(o, "unlink")
  /\ audit(o, op[o].file, "failed")
  /\ \/ UNCHANGED <<files, gone>>
     \/ /\ files' = [files EXCEPT ![op[o].file] = "absent"]
        /\ gone' = gone \cup {<<op[o].token, op[o].file>>}
  /\ To(o, "end")
  /\ UNCHANGED <<archives, tables, locks, barrier, writer, plan, ops, counters>>

RecordDeletion(o) ==
  /\ At(o, "record")
  /\ audit(o, op[o].file, "deleted")
  /\ Step(o, [op[o] EXCEPT !.pc = "sweep", !.file = NoFile])
  /\ UNCHANGED <<files, archives, tables, locks, barrier, writer, plan, ops, gone, counters>>

SweepDone(o) ==
  /\ At(o, "sweep") /\ op[o].todo = {}
  /\ To(o, "end")
  /\ UNCHANGED <<files, archives, tables, locks, barrier, writer, plan, ops, audits, counters>>

-----------------------------------------------------------------------------
(* consistent_backup: the references come from the snapshot, not from the    *)
(* live database.  No other process changes a file while the copy is made.   *)
snapshot(o) ==
  /\ At(o, "backup")
  /\ IF verify_trace_archives
     THEN Step(o, [op[o] EXCEPT !.pc = "copy",
            !.snap = [recs |-> recs, live |-> live, receipts |-> receipts, appended |-> appended]])
     ELSE To(o, "end")
  /\ UNCHANGED <<files, archives, tables, locks, barrier, writer, plan, ops, audits, counters>>

snapshot_refs(s) == s.recs \cup EventFiles(s.live) \cup ReceiptFiles(s.receipts)

(* What can be copied for the references: the hash is compared only for the  *)
(* files that have a reference with one.                                     *)
copies(refs, hashed) ==
  {<<f, files[f]>> : f \in {g \in refs : files[g] = "whole" \/ (files[g] = "torn" /\ g \notin hashed)}}

CopyRefs(o, refs) ==
  \E hashed \in SUBSET refs :
    Step(o, [op[o] EXCEPT !.pc = "manifest", !.refs = refs, !.hashed = hashed,
                          !.copied = copies(refs, hashed)])

(* Mutant: the references that receipts carry are forgotten. *)
CopyWithoutReceipts(o) ==
  /\ At(o, "copy")
  /\ CopyRefs(o, op[o].snap.recs \cup EventFiles(op[o].snap.live))
  /\ UNCHANGED <<files, archives, tables, locks, barrier, writer, plan, ops, audits, counters>>

(* Files that are missing or do not have the hash of their reference make    *)
(* the manifest incomplete: copied holds the others, with their content.     *)
copy_files(o) ==
  /\ At(o, "copy")
  /\ CopyRefs(o, snapshot_refs(op[o].snap))
  /\ UNCHANGED <<files, archives, tables, locks, barrier, writer, plan, ops, audits, counters>>

complete(o) == op[o].pc = "manifest" /\ op[o].refs \subseteq {c[1] : c \in op[o].copied}

write_manifest(o) ==
  /\ At(o, "manifest")
  /\ To(o, "end")
  /\ UNCHANGED <<files, archives, tables, locks, barrier, writer, plan, ops, audits, counters>>

-----------------------------------------------------------------------------
(* apply_trace_retention: a plan that was committed is confirmed and nothing *)
(* more; a plan that no longer describes the rows is refused.                *)
check_plan(o) ==
  /\ At(o, "trace")
  /\ To(o, IF /\ \A r \in receipts : r.plan # op[o].plan
              /\ verify_trace_archives
              /\ plan_at_cutoff(op[o].plan.last) = op[o].plan
           THEN "archive" ELSE "end")
  /\ UNCHANGED <<files, archives, tables, locks, barrier, writer, plan, ops, audits, counters>>

(* The archive is created once and never written again: one that an earlier  *)
(* attempt left torn is refused.                                             *)
put_trace_archive(o) ==
  /\ At(o, "archive")
  /\ LET a == [prefix |-> op[o].plan, whole |-> TRUE]
     IN  IF [a EXCEPT !.whole = FALSE] \in archives
         THEN To(o, "end") /\ UNCHANGED archives
         ELSE archives' = archives \cup {a} /\ To(o, "commit")
  /\ UNCHANGED <<files, tables, locks, barrier, writer, plan, ops, audits, counters>>

(* One transaction: the owner and the rows are checked, the receipt is       *)
(* stored, the rows go and the barrier comes down.                           *)
commit_trace_retention(o) ==
  /\ At(o, "commit")
  /\ LET p == op[o].plan
         trimmed == {e \in live : e.seq \in p.first..p.last}
     IN  IF /\ meta.active /\ meta.owner = op[o].token /\ ~meta.tombs
            /\ verify_trace_archives
            /\ plan_at_cutoff(p.last) = p
         THEN /\ receipts' = receipts \cup
                   {[plan |-> p, files |-> EventFiles(trimmed)]}
              /\ live' = live \ trimmed
              /\ meta' = NoMeta
              /\ Free(o)
              /\ Step(o, Idle)
         ELSE /\ To(o, "end")
              /\ UNCHANGED <<receipts, live, meta, locks>>
  /\ UNCHANGED <<files, archives, recs, over, guards, writer, plan, ops, audits, counters>>

-----------------------------------------------------------------------------
Init ==
  /\ files = [f \in Files |-> "absent"]
  /\ recs = {} /\ live = {} /\ over = FALSE
  /\ receipts = {} /\ archives = {}
  /\ tombstones = [t \in 1..MaxOps |-> [f \in Files |-> "none"]]
  /\ meta = NoMeta /\ guards = FALSE
  /\ maintenance = NoOne /\ executor = NoOne /\ artifacts = NoOne
  /\ writer = [w \in Workers \cup Importers |-> [pc |-> "idle", file |-> NoFile]]
  /\ op = [o \in Operators |-> Idle] /\ plan = NoPlan
  /\ ops = 0 /\ crashes = 0 /\ appended = 0 /\ gone = {}

WriterStep(w) ==
  \/ StartWorker(w) \/ StopWorker(w) \/ Claim(w) \/ StartImport(w)
  \/ put_bytes(w) \/ Refer(w) \/ FinishRun(w)

(* An operation that was started goes on. *)
OperationStep(o) ==
  \/ acquire_operation_locks(o) \/ begin_maintenance(o) \/ end_maintenance(o)
  \/ collect_references(o) \/ (\E e \in op[o].todo : Sweep(o, e))
  \/ unlink(o) \/ UnlinkFails(o) \/ RecordDeletion(o) \/ SweepDone(o)
  \/ snapshot(o) \/ copy_files(o) \/ write_manifest(o)
  \/ check_plan(o) \/ put_trace_archive(o) \/ commit_trace_retention(o)

Command(o) ==
  \/ GC(o) \/ Backup(o) \/ Hold(o) \/ plan_trace_retention(o) \/ apply_trace_retention(o)
  \/ Release(o)

Next ==
  \/ \E w \in Workers \cup Importers : WriterStep(w) \/ CrashWriter(w)
  \/ \E o \in Operators : OperationStep(o) \/ Command(o) \/ CrashOp(o)
  \/ AppendEvent \/ maintenance_begin \/ maintenance_end

Spec == Init /\ [][Next]_vars

-----------------------------------------------------------------------------
Plan == [first : Nat, last : Nat, keep : Nat]
Row == [seq : Nat, file : Files \cup {NoFile}]
Receipt == [plan : Plan, files : SUBSET Files]
Snapshot == [recs : SUBSET Files, live : SUBSET Row, receipts : SUBSET Receipt, appended : Nat]
Operation == [pc : {"idle", "begin", "activate", "gc", "sweep", "unlink", "record", "backup", "copy",
                    "manifest", "trace", "archive", "commit", "end"},
              kind : {"none", "gc", "backup", "hold", "trace"}, token : Nat,
              todo : SUBSET (Files \X FileState), refs : SUBSET Files, file : Files \cup {NoFile},
              snap : Snapshot, hashed : SUBSET Files, copied : SUBSET (Files \X FileState),
              plan : Plan]

(* Type correctness. *)
MaintTypeOK ==
  /\ files \in [Files -> FileState]
  /\ recs \subseteq Files /\ live \subseteq Row /\ over \in BOOLEAN /\ receipts \subseteq Receipt
  /\ archives \subseteq [prefix : Plan, whole : BOOLEAN]
  /\ tombstones \in [1..MaxOps -> [Files -> {"none", "deleting", "failed", "deleted", "missing"}]]
  /\ meta \in [active : BOOLEAN, owner : Nat, tombs : BOOLEAN] /\ guards \in BOOLEAN
  /\ maintenance \in Operators \cup {NoOne}
  /\ executor \in Workers \cup Operators \cup {NoOne}
  /\ artifacts \in Operators \cup {NoOne}
  /\ writer \in [Workers \cup Importers ->
                   [pc : {"idle", "ready", "put", "refer"}, file : Files \cup {NoFile}]]
  /\ op \in [Operators -> Operation]
  /\ plan \in Plan
  /\ ops \in 0..MaxOps /\ crashes \in 0..MaxCrashes /\ appended \in 0..MaxEvents
  /\ gone \subseteq (1..MaxOps) \X Files

(* No file that a record, an event or an archived event refers to is ever    *)
(* deleted, whatever was written between the plan of a collection and its    *)
(* end (apply_gc: "never deletes a file that is still referenced").  It      *)
(* takes the executor lock for the files of Workers, the imports/ prefix for *)
(* those of importers, and the references kept in receipts.                  *)
NoDanglingReference == \A f \in referenced : files[f] # "absent"

(* Every event that was ever appended has its own number and is either a     *)
(* live row or in a whole archive that a receipt names.  The next number is  *)
(* MAX(seq) + 1 of the live rows, so this rests on retention always keeping  *)
(* the newest row.                                                           *)
Archived(R) == UNION {r.plan.first..r.plan.last : r \in R}

NoEventLost ==
  /\ Seqs(live) \cup Archived(receipts) = 1..appended
  /\ Seqs(live) \cap Archived(receipts) = {}
  /\ \A r \in receipts : [prefix |-> r.plan, whole |-> TRUE] \in archives

(* The tombstones tell the truth across crashes: a file said to be deleted   *)
(* by a collection was deleted by it, and every deletion left at least its   *)
(* intent, or the failure of a step after it (delete_with_audit).            *)
DeletionsAreAudited ==
  \A t \in 1..MaxOps, f \in Files :
    /\ tombstones[t][f] = "deleted" => <<t, f>> \in gone
    /\ <<t, f>> \in gone => tombstones[t][f] \in {"deleting", "deleted", "failed"}

(* A backup whose manifest says complete holds every event of the Run up to  *)
(* its snapshot, live or in a whole archive, and a copy of every file they   *)
(* refer to, which is whole if the reference carries a hash, even if the     *)
(* barrier came down or a Run went on while it was made (consistent_backup). *)
BackupIsClosed ==
  \A o \in Operators : complete(o) =>
    LET s == op[o].snap
    IN  /\ Seqs(s.live) \cup Archived(s.receipts) = 1..s.appended
        /\ \A r \in s.receipts : [prefix |-> r.plan, whole |-> TRUE] \in archives
        /\ \A f \in snapshot_refs(s) : \E c \in op[o].copied :
             c[1] = f /\ (f \in op[o].hashed => c[2] = "whole")

(* Every copy in a complete backup is whole.  It does not hold: a torn file  *)
(* whose references carry no hash is copied as it is.                        *)
CopiesAreWhole ==
  \A o \in Operators : complete(o) => \A c \in op[o].copied : c[2] = "whole"

(* Writers are barred for the whole window of an operation, as the docstring *)
(* of begin_maintenance says.  It does not hold: the maintenance/end request *)
(* of the API takes the barrier of any owner down.                           *)
WindowIsBarred ==
  \A o \in Operators : op[o].pc \notin {"idle", "begin", "activate"} => meta.active
=============================================================================
