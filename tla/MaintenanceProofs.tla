-------------------------- MODULE MaintenanceProofs --------------------------
(***************************************************************************)
(* What holds of Maintenance for any processes, files and bounds: no       *)
(* referenced file is deleted, no event is lost, tombstones are true, and  *)
(* a complete backup is closed.                                            *)
(*                                                                         *)
(* The theorems rest on one inductive invariant, MaintInv.  LockInv says   *)
(* who may be at work: a Worker or an operation past its locks holds the   *)
(* executor lock, so a collection meets no Worker between a file and its   *)
(* reference.  RefInv says that the references a collection has collected  *)
(* stay all there are, but for imports, which it never deletes.  TraceInv  *)
(* describes the live rows as an interval after the last archived event.   *)
(***************************************************************************)
EXTENDS Maintenance, TLAPS

Writers == Workers \cup Importers

LockInv ==
  /\ \A w \in Workers : writer[w].pc # "idle" => executor = w
  /\ \A o \in Operators : op[o].pc \notin {"idle", "begin"} => executor = o

WriterInv ==
  /\ recs \subseteq Imports
  /\ \A w \in Writers : writer[w].pc \in {"put", "refer"} =>
       /\ writer[w].file \in Files
       /\ writer[w].file \in Imports <=> w \notin Workers
       /\ writer[w].pc = "refer" => files[writer[w].file] # "absent"

(* What the steps of one operation rest on. *)
KindInv(o) ==
  /\ op[o].pc # "idle" => op[o].kind # "none" /\ op[o].token \in 1..ops
  /\ op[o].pc = "idle" => op[o].todo = {}
  /\ op[o].pc \in {"trace", "archive", "commit"} => op[o].kind = "trace"
  /\ op[o].kind = "trace" => op[o].plan.first >= 1
  /\ op[o].pc = "commit" => [prefix |-> op[o].plan, whole |-> TRUE] \in archives

RefInv(o) ==
  /\ \A e \in op[o].todo : e[1] \in Files \ Imports
  /\ op[o].pc \in {"sweep", "unlink", "record"} => referenced \subseteq op[o].refs \cup Imports
  /\ op[o].pc \in {"unlink", "record"} => op[o].file \in Files \ (Imports \cup op[o].refs)

(* Each file is in the hands of one entry of a collection. *)
AuditInv(o) ==
  /\ \A e \in op[o].todo : <<op[o].token, e[1]>> \notin gone
  /\ \A e, d \in op[o].todo : e[1] = d[1] => e = d
  /\ op[o].pc \in {"unlink", "record"} => \A e \in op[o].todo : e[1] # op[o].file
  /\ op[o].pc = "unlink" => /\ tombstones[op[o].token][op[o].file] = "deleting"
                            /\ <<op[o].token, op[o].file>> \notin gone
  /\ op[o].pc = "record" => <<op[o].token, op[o].file>> \in gone

CopyInv(o) ==
  /\ op[o].pc \in {"copy", "manifest"} =>
       /\ Seqs(op[o].snap.live) \cup Archived(op[o].snap.receipts) = 1..op[o].snap.appended
       /\ \A r \in op[o].snap.receipts : [prefix |-> r.plan, whole |-> TRUE] \in archives
  /\ op[o].pc = "manifest" =>
       /\ op[o].refs = snapshot_refs(op[o].snap)
       /\ \A c \in op[o].copied : c[1] \in op[o].hashed => c[2] = "whole"

LocalInv(o) == KindInv(o) /\ RefInv(o) /\ AuditInv(o) /\ CopyInv(o)

(* The saved plan, and the tokens: the collections that have deleted a file  *)
(* have begun, and no two operations share one.                              *)
SharedInv ==
  /\ plan # NoPlan => plan.first >= 1
  /\ \A g \in gone : g[1] <= ops
  /\ \A o, p \in Operators : o # p /\ op[o].pc # "idle" /\ op[p].pc # "idle"
                               => op[o].token # op[p].token

(* b is the number of archived events. *)
TraceAt(b) ==
  /\ receipts = {} => b = 0
  /\ receipts # {} => \E r \in receipts : r.plan.last = b
  /\ \A r \in receipts : r.plan.last <= b
  /\ Seqs(live) = (b + 1)..appended
  /\ b < appended \/ (b = 0 /\ appended = 0)
  /\ Archived(receipts) = 1..b
  /\ \A r \in receipts : [prefix |-> r.plan, whole |-> TRUE] \in archives
TraceInv == \E b \in 0..MaxEvents : TraceAt(b)

MaintInv ==
  /\ MaintTypeOK /\ LockInv /\ WriterInv /\ SharedInv /\ TraceInv
  /\ \A o \in Operators : LocalInv(o)
  /\ NoDanglingReference /\ DeletionsAreAudited

-----------------------------------------------------------------------------
(* Latest is the greatest element. *)
LEMMA LatestIs ==
  ASSUME NEW S \in SUBSET Nat, NEW n \in S, \A m \in S : m <= n
  PROVE  Latest(S) = n
<1>. DEFINE Q(x) == \A m \in S : m <= x
<1>1. \A x \in S : Q(x) => x = n
  OBVIOUS
<1>2. (CHOOSE x \in S : Q(x)) \in S /\ Q(CHOOSE x \in S : Q(x))
  BY Zenon
<1>. QED BY <1>1, <1>2, Zenon DEF Latest

(* The numbers behind the Trace: the live rows are the interval after the   *)
(* last archived event, up to the last one appended.                        *)
LEMMA TraceFacts ==
  ASSUME MaintTypeOK, MaintAssumption, NEW b \in 0..MaxEvents, TraceAt(b)
  PROVE  boundary = b /\ last_seq = appended
<1>1. boundary = b
  <2>1. CASE receipts = {}
    BY <2>1 DEF boundary, Latest, TraceAt
  <2>2. CASE receipts # {}
    <3>. DEFINE S == {r.plan.last : r \in receipts}
    <3>1. S \in SUBSET Nat
      BY DEF MaintTypeOK, Receipt, Plan
    <3>2. b \in S /\ \A m \in S : m <= b
      BY <2>2, Zenon DEF TraceAt
    <3>. QED BY <3>1, <3>2, LatestIs, Zenon DEF boundary
  <2>. QED BY <2>1, <2>2, Zenon
<1>2. last_seq = appended
  <2>. DEFINE S == Seqs(live)
  <2>0. appended \in Nat /\ b \in Nat
    BY DEF MaintTypeOK, MaintAssumption
  <2>1. CASE appended = 0
    <3>1. S = {}
      BY <2>1, <2>0 DEF TraceAt
    <3>. QED BY <3>1, <2>1, Zenon DEF last_seq, Latest
  <2>2. CASE appended # 0
    <3>1. S \in SUBSET Nat /\ appended \in S /\ \A m \in S : m <= appended
      BY <2>2, <2>0 DEF TraceAt
    <3>. QED BY <3>1, LatestIs, Zenon DEF last_seq
  <2>. QED BY <2>1, <2>2, Zenon
<1>. QED BY <1>1, <1>2, Zenon

(* A plan is a nonempty part of the live rows that leaves out the newest. *)
LEMMA PlanFacts ==
  ASSUME MaintTypeOK, MaintAssumption, NEW b \in 0..MaxEvents, TraceAt(b), NEW c \in Nat
  PROVE  /\ plan_at_cutoff(c) \in Plan
         /\ plan_at_cutoff(c) # NoPlan =>
              /\ plan_at_cutoff(c).first = b + 1
              /\ plan_at_cutoff(c).last \in (b + 1)..(appended - 1)
<1>0. appended \in Nat /\ b \in Nat /\ boundary = b /\ last_seq = appended
  BY TraceFacts DEF MaintTypeOK, MaintAssumption
<1>1. CASE expired(c) = {}
  BY <1>1, Zenon DEF plan_at_cutoff, NoPlan, Plan
<1>2. CASE expired(c) # {}
  <2>. DEFINE n == IF c < appended - 1 THEN c ELSE appended - 1
  <2>1. \A m \in expired(c) : m \in (b + 1)..(appended - 1) /\ m <= c
    BY <1>0 DEF expired, TraceAt
  <2>2. n \in (b + 1)..(appended - 1) /\ n <= c
    BY <1>0, <1>2, <2>1
  <2>3. n \in expired(c)
    <3>1. n \in Seqs(live) /\ (b + 1)..n \subseteq Seqs(live)
      BY <1>0, <2>2 DEF TraceAt
    <3>. QED BY <1>0, <2>2, <3>1 DEF expired
  <2>4. expired(c) \in SUBSET Nat /\ \A m \in expired(c) : m <= n
    BY <1>0, <2>1
  <2>5. Latest(expired(c)) = n
    BY <2>3, <2>4, LatestIs, Zenon
  <2>. QED BY <1>0, <2>2, <2>5 DEF plan_at_cutoff, NoPlan, Plan
<1>. QED BY <1>1, <1>2, Zenon

-----------------------------------------------------------------------------
(* What the control operators do. *)
LEMMA GotoFacts ==
  ASSUME MaintTypeOK, NEW w \in Writers, NEW pc \in {"idle", "ready", "put", "refer"},
         NEW f \in Files \cup {NoFile}, Goto(w, pc, f)
  PROVE  /\ writer' \in [Writers -> [pc : {"idle", "ready", "put", "refer"}, file : Files \cup {NoFile}]]
         /\ writer'[w].pc = pc /\ writer'[w].file = f
         /\ \A v \in Writers : v # w => writer'[v] = writer[v]
BY Zenon DEF Goto, MaintTypeOK, Writers

LEMMA StepFacts ==
  ASSUME MaintTypeOK, NEW o \in Operators, NEW r \in Operation, Step(o, r)
  PROVE  /\ op' \in [Operators -> Operation] /\ op'[o] = r
         /\ \A p \in Operators : p # o => op'[p] = op[p]
BY Zenon DEF Step, MaintTypeOK

LEMMA IdleFacts ==
  ASSUME MaintAssumption
  PROVE  Idle \in Operation /\ Idle.pc = "idle" /\ Idle.kind = "none" /\ Idle.todo = {}
BY Zenon DEF Idle, Operation, NoSnapshot, Snapshot, NoPlan, Plan

OperationPc == {"idle", "begin", "activate", "gc", "sweep", "unlink", "record", "backup", "copy",
                "manifest", "trace", "archive", "commit", "end"}

LEMMA ToFacts ==
  ASSUME MaintTypeOK, NEW o \in Operators, NEW pc \in OperationPc, To(o, pc)
  PROVE  /\ op' \in [Operators -> Operation]
         /\ op'[o].pc = pc /\ op'[o].kind = op[o].kind /\ op'[o].token = op[o].token
         /\ op'[o].todo = op[o].todo /\ op'[o].refs = op[o].refs /\ op'[o].file = op[o].file
         /\ op'[o].snap = op[o].snap /\ op'[o].copied = op[o].copied /\ op'[o].plan = op[o].plan
         /\ \A p \in Operators : p # o => op'[p] = op[p]
<1>. DEFINE r == [op[o] EXCEPT !.pc = pc]
<1>1. op[o] \in Operation
  BY Zenon DEF MaintTypeOK
<1>2. /\ r \in Operation /\ r.pc = pc /\ r.kind = op[o].kind /\ r.token = op[o].token
      /\ r.todo = op[o].todo /\ r.refs = op[o].refs /\ r.file = op[o].file
      /\ r.snap = op[o].snap /\ r.copied = op[o].copied /\ r.plan = op[o].plan
  BY <1>1, Zenon DEF Operation, OperationPc
<1>. QED BY <1>2, StepFacts, Zenon DEF To

-----------------------------------------------------------------------------
(* Steps that leave the tables, the archives and the operators alone. *)
LEMMA QuietFrame ==
  ASSUME MaintInv, UNCHANGED <<archives, tables, operators, appended>>
  PROVE  (\A o \in Operators : LocalInv(o)') /\ SharedInv' /\ TraceInv' /\ DeletionsAreAudited'
<1>1. /\ UNCHANGED <<archives, recs, live, receipts, op, plan, ops, tombstones, gone, appended>>
      /\ referenced' = referenced
  BY Zenon DEF tables, operators, audits, referenced
<1>2. ASSUME NEW o \in Operators PROVE LocalInv(o)'
  <2>0. LocalInv(o)
    BY Zenon DEF MaintInv
  <2>1. KindInv(o)' /\ RefInv(o)'
    BY <1>1, <2>0, Zenon DEF LocalInv, KindInv, RefInv
  <2>2. AuditInv(o)' /\ CopyInv(o)'
    BY <1>1, <2>0, Zenon DEF LocalInv, AuditInv, CopyInv
  <2>. QED BY <2>1, <2>2, Zenon DEF LocalInv
<1>3. SharedInv' /\ DeletionsAreAudited'
  BY <1>1, Zenon DEF MaintInv, SharedInv, DeletionsAreAudited
<1>4. TraceInv'
  BY <1>1, Zenon DEF MaintInv, TraceInv, TraceAt
<1>. QED BY <1>2, <1>3, <1>4, Zenon

(* What a Worker may do while it holds the executor lock, and an importer at *)
(* any time.                                                                 *)
LEMMA GotoKeeps ==
  ASSUME MaintAssumption, MaintInv, NEW w \in Writers, NEW pc \in {"idle", "ready", "put", "refer"},
         NEW f \in Files \cup {NoFile}, Goto(w, pc, f), UNCHANGED <<executor, op, recs, files>>,
         w \in Workers => executor = w,
         pc \in {"put", "refer"} => f \in Files /\ (f \in Imports <=> w \notin Workers),
         pc = "refer" => files[f] # "absent"
  PROVE  LockInv' /\ WriterInv'
<1>1. /\ writer'[w].pc = pc /\ writer'[w].file = f
      /\ \A v \in Writers : v # w => writer'[v] = writer[v]
  BY GotoFacts DEF MaintInv
<1>2. LockInv'
  BY <1>1, Zenon DEF MaintInv, LockInv, Writers
<1>3. WriterInv'
  BY <1>1, Zenon DEF MaintInv, WriterInv
<1>. QED BY <1>2, <1>3, Zenon

LEMMA StartWorkerStep ==
  ASSUME MaintAssumption, MaintInv, NEW w \in Writers, StartWorker(w)
  PROVE  MaintInv'
<1>. USE DEF StartWorker
<1>1. /\ writer' \in [Writers -> [pc : {"idle", "ready", "put", "refer"}, file : Files \cup {NoFile}]]
      /\ writer'[w].pc = "ready"
      /\ \A v \in Writers : v # w => writer'[v] = writer[v]
  BY GotoFacts, Zenon DEF MaintInv
<1>2. (\A o \in Operators : LocalInv(o)') /\ SharedInv' /\ TraceInv' /\ DeletionsAreAudited'
  BY QuietFrame, Zenon DEF counters
<1>3. MaintTypeOK'
  BY <1>1, Zenon DEF MaintInv, MaintTypeOK, tables, operators, audits, barrier, counters, Writers
<1>4. LockInv'
  <2>1. \A v \in Workers : writer[v].pc = "idle"
    BY Zenon DEF MaintInv, LockInv, MaintAssumption
  <2>2. \A o \in Operators : op[o].pc \in {"idle", "begin"}
    BY Zenon DEF MaintInv, LockInv, MaintAssumption
  <2>. QED BY <1>1, <2>1, <2>2, Zenon DEF LockInv, operators, Writers
<1>5. WriterInv'
  BY <1>1, Zenon DEF MaintInv, WriterInv, tables
<1>6. NoDanglingReference'
  BY Zenon DEF MaintInv, NoDanglingReference, referenced, tables
<1>. QED BY <1>2, <1>3, <1>4, <1>5, <1>6, Zenon DEF MaintInv

LEMMA StopWorkerStep ==
  ASSUME MaintAssumption, MaintInv, NEW w \in Writers, StopWorker(w)
  PROVE  MaintInv'
<1>. USE DEF StopWorker
<1>1. /\ writer' \in [Writers -> [pc : {"idle", "ready", "put", "refer"}, file : Files \cup {NoFile}]]
      /\ writer'[w].pc = "idle"
      /\ \A v \in Writers : v # w => writer'[v] = writer[v]
  BY GotoFacts, Zenon DEF MaintInv
<1>2. (\A o \in Operators : LocalInv(o)') /\ SharedInv' /\ TraceInv' /\ DeletionsAreAudited'
  BY QuietFrame, Zenon DEF counters
<1>3. MaintTypeOK'
  BY <1>1, Zenon DEF MaintInv, MaintTypeOK, tables, operators, audits, barrier, counters, Writers
<1>4. LockInv'
  <2>1. executor = w
    BY Zenon DEF MaintInv, LockInv
  <2>2. \A o \in Operators : op[o].pc \in {"idle", "begin"}
    BY <2>1, Zenon DEF MaintInv, LockInv, MaintAssumption
  <2>3. \A v \in Workers : v # w => writer[v].pc = "idle"
    BY <2>1, Zenon DEF MaintInv, LockInv
  <2>. QED BY <1>1, <2>2, <2>3, Zenon DEF LockInv, operators, Writers
<1>5. WriterInv'
  BY <1>1, Zenon DEF MaintInv, WriterInv, tables
<1>6. NoDanglingReference'
  BY Zenon DEF MaintInv, NoDanglingReference, referenced, tables
<1>. QED BY <1>2, <1>3, <1>4, <1>5, <1>6, Zenon DEF MaintInv

LEMMA ClaimStep ==
  ASSUME MaintAssumption, MaintInv, NEW w \in Writers, Claim(w)
  PROVE  MaintInv'
<1>. USE DEF Claim
<1>1. PICK f \in Files \ Imports : Goto(w, "put", f)
  OBVIOUS
<1>2. (\A o \in Operators : LocalInv(o)') /\ SharedInv' /\ TraceInv' /\ DeletionsAreAudited'
  BY QuietFrame, Zenon DEF counters
<1>3. UNCHANGED <<files, archives, recs, live, over, receipts, maintenance, executor, artifacts, meta,
                  guards, op, plan, ops, tombstones, gone, crashes, appended>>
  BY Zenon DEF tables, locks, operators, audits, barrier, counters
<1>4. MaintTypeOK'
  BY <1>1, <1>3, GotoFacts, Zenon DEF MaintInv, MaintTypeOK, Writers
<1>5. LockInv' /\ WriterInv'
  <2>1. executor = w
    BY Zenon DEF MaintInv, LockInv
  <2>. QED BY <1>1, <1>3, <2>1, GotoKeeps, Zenon
<1>6. NoDanglingReference'
  BY <1>3, Zenon DEF MaintInv, NoDanglingReference, referenced
<1>. QED BY <1>2, <1>4, <1>5, <1>6, Zenon DEF MaintInv

LEMMA StartImportStep ==
  ASSUME MaintAssumption, MaintInv, NEW w \in Writers, StartImport(w)
  PROVE  MaintInv'
<1>. USE DEF StartImport
<1>1. PICK f \in Imports \ recs : Goto(w, "put", f)
  OBVIOUS
<1>2. (\A o \in Operators : LocalInv(o)') /\ SharedInv' /\ TraceInv' /\ DeletionsAreAudited'
  BY QuietFrame, Zenon DEF counters
<1>3. UNCHANGED <<files, archives, recs, live, over, receipts, maintenance, executor, artifacts, meta,
                  guards, op, plan, ops, tombstones, gone, crashes, appended>>
  BY Zenon DEF tables, locks, operators, audits, barrier, counters
<1>4. f \in Files /\ w \notin Workers
  BY Zenon DEF MaintAssumption
<1>5. MaintTypeOK'
  BY <1>1, <1>3, <1>4, GotoFacts DEF MaintInv, MaintTypeOK, Writers
<1>6. LockInv' /\ WriterInv'
  BY <1>1, <1>3, <1>4, GotoKeeps, Zenon
<1>7. NoDanglingReference'
  BY <1>3, Zenon DEF MaintInv, NoDanglingReference, referenced
<1>. QED BY <1>2, <1>5, <1>6, <1>7, Zenon DEF MaintInv

LEMMA PutBytesStep ==
  ASSUME MaintAssumption, MaintInv, NEW w \in Writers, put_bytes(w)
  PROVE  MaintInv'
<1>. USE DEF put_bytes
<1>. DEFINE f == writer[w].file
<1>0. f \in Files /\ (f \in Imports <=> w \notin Workers) /\ (w \in Workers => executor = w)
  BY Zenon DEF MaintInv, WriterInv, LockInv
<1>1. (\A o \in Operators : LocalInv(o)') /\ SharedInv' /\ TraceInv' /\ DeletionsAreAudited'
  BY QuietFrame, Zenon DEF counters
<1>2. UNCHANGED <<archives, recs, live, over, receipts, maintenance, executor, artifacts, meta,
                  guards, op, plan, ops, tombstones, gone, crashes, appended>>
  BY Zenon DEF tables, locks, operators, audits, barrier, counters
<1>3. CASE artifacts = NoOne
  <2>1. Goto(w, "refer", f) /\ files' = [files EXCEPT ![f] = "whole"]
    BY <1>3, Zenon
  <2>2. /\ writer' \in [Writers -> [pc : {"idle", "ready", "put", "refer"}, file : Files \cup {NoFile}]]
        /\ writer'[w].pc = "refer" /\ writer'[w].file = f
        /\ \A v \in Writers : v # w => writer'[v] = writer[v]
    BY <1>0, <2>1, GotoFacts, Zenon DEF MaintInv
  <2>3. /\ files' \in [Files -> FileState] /\ files'[f] = "whole"
        /\ \A g \in Files : files[g] # "absent" => files'[g] # "absent"
    BY <1>0, <2>1, Zenon DEF MaintInv, MaintTypeOK, FileState
  <2>4. MaintTypeOK'
    BY <1>2, <2>2, <2>3, Zenon DEF MaintInv, MaintTypeOK, Writers
  <2>5. LockInv'
    BY <1>0, <1>2, <2>2, Zenon DEF MaintInv, LockInv, Writers
  <2>6. WriterInv'
    BY <1>0, <1>2, <2>2, <2>3, Zenon DEF MaintInv, WriterInv
  <2>7. NoDanglingReference'
    <3>1. referenced' = referenced /\ referenced \subseteq Files
      BY <1>2 DEF referenced, EventFiles, ReceiptFiles, MaintInv, MaintTypeOK, Row, Receipt
    <3>. QED BY <2>3, <3>1, Zenon DEF MaintInv, NoDanglingReference
  <2>. QED BY <1>1, <2>4, <2>5, <2>6, <2>7, Zenon DEF MaintInv
<1>4. CASE artifacts # NoOne
  <2>. DEFINE pc == IF w \in Workers THEN "ready" ELSE "idle"
  <2>1. Goto(w, pc, NoFile) /\ UNCHANGED files
    BY <1>4, Zenon DEF Home
  <2>2. MaintTypeOK'
    BY <1>2, <2>1, GotoFacts, SMTT(15) DEF MaintInv, MaintTypeOK, Writers
  <2>3. LockInv' /\ WriterInv'
    BY <1>0, <1>2, <2>1, GotoKeeps, Zenon
  <2>4. NoDanglingReference'
    BY <1>2, <2>1, Zenon DEF MaintInv, NoDanglingReference, referenced
  <2>. QED BY <1>1, <2>2, <2>3, <2>4, Zenon DEF MaintInv
<1>. QED BY <1>3, <1>4, Zenon

LEMMA CrashWriterStep ==
  ASSUME MaintAssumption, MaintInv, NEW w \in Writers, CrashWriter(w)
  PROVE  MaintInv'
<1>. USE DEF CrashWriter
<1>1. (\A o \in Operators : LocalInv(o)') /\ SharedInv' /\ TraceInv' /\ DeletionsAreAudited'
  BY QuietFrame, Zenon
<1>2. UNCHANGED <<archives, recs, live, over, receipts, maintenance, artifacts, meta,
                  guards, op, plan, ops, tombstones, gone, appended>>
  BY Zenon DEF tables, operators, audits, barrier
<1>3. /\ writer' \in [Writers -> [pc : {"idle", "ready", "put", "refer"}, file : Files \cup {NoFile}]]
      /\ writer'[w].pc = "idle"
      /\ \A v \in Writers : v # w => writer'[v] = writer[v]
  BY GotoFacts, Zenon DEF MaintInv
<1>4. /\ files' \in [Files -> FileState]
      /\ \A g \in Files : files[g] # "absent" => files'[g] # "absent"
  BY Zenon DEF MaintInv, MaintTypeOK, FileState
<1>5. MaintTypeOK'
  BY <1>2, <1>3, <1>4 DEF MaintInv, MaintTypeOK, Writers, MaintAssumption
<1>6. LockInv'
  <2>1. \A v \in Workers : v # w /\ writer[v].pc # "idle" => executor' = v
    BY Zenon DEF MaintInv, LockInv
  <2>2. \A o \in Operators : op[o].pc \notin {"idle", "begin"} => executor' = o
    <3>. SUFFICES ASSUME NEW o \in Operators, executor = o, executor = w PROVE FALSE
      BY Zenon DEF MaintInv, LockInv
    <3>1. w \in Workers \/ w \in Importers
      BY Zenon DEF Writers
    <3>. QED BY <3>1, Zenon DEF MaintAssumption
  <2>. QED BY <1>2, <1>3, <2>1, <2>2, Zenon DEF LockInv, Writers
<1>7. WriterInv'
  BY <1>2, <1>3, <1>4 DEF MaintInv, WriterInv
<1>8. NoDanglingReference'
  <2>1. referenced' = referenced /\ referenced \subseteq Files
    BY <1>2 DEF referenced, EventFiles, ReceiptFiles, MaintInv, MaintTypeOK, Row, Receipt
  <2>. QED BY <1>4, <2>1, Zenon DEF MaintInv, NoDanglingReference
<1>. QED BY <1>1, <1>5, <1>6, <1>7, <1>8, Zenon DEF MaintInv

(* The requests of the API, and the release of a barrier that was left       *)
(* behind: nothing but the keys changes.                                     *)
LEMMA MetaStep ==
  ASSUME MaintAssumption, MaintInv,
         meta' \in [active : BOOLEAN, owner : Nat, tombs : BOOLEAN],
         UNCHANGED <<files, archives, tables, locks, guards, writer, operators, counters>>
  PROVE  MaintInv'
<1>1. (\A o \in Operators : LocalInv(o)') /\ SharedInv' /\ TraceInv' /\ DeletionsAreAudited'
  BY QuietFrame, Zenon DEF counters
<1>2. UNCHANGED <<files, archives, recs, live, over, receipts, maintenance, executor, artifacts, guards,
                  writer, op, plan, ops, tombstones, gone, crashes, appended>>
  BY Zenon DEF tables, locks, operators, audits, counters
<1>3. MaintTypeOK'
  BY <1>2, Zenon DEF MaintInv, MaintTypeOK
<1>4. LockInv' /\ WriterInv'
  BY <1>2, Zenon DEF MaintInv, LockInv, WriterInv
<1>5. NoDanglingReference'
  BY <1>2, Zenon DEF MaintInv, NoDanglingReference, referenced
<1>. QED BY <1>1, <1>3, <1>4, <1>5, Zenon DEF MaintInv

LEMMA BarrierSteps ==
  ASSUME MaintAssumption, MaintInv, maintenance_begin \/ maintenance_end \/ \E o \in Operators : Release(o)
  PROVE  MaintInv'
<1>1. meta' \in [active : BOOLEAN, owner : Nat, tombs : BOOLEAN]
  <2>1. meta \in [active : BOOLEAN, owner : Nat, tombs : BOOLEAN]
    BY Zenon DEF MaintInv, MaintTypeOK
  <2>2. \/ meta' = [meta EXCEPT !.active = TRUE]
        \/ meta' = [meta EXCEPT !.active = FALSE]
        \/ meta' = [active |-> FALSE, owner |-> 0, tombs |-> FALSE]
    BY Zenon DEF maintenance_begin, maintenance_end, Release, NoMeta
  <2>3. [meta EXCEPT !.active = TRUE] \in [active : BOOLEAN, owner : Nat, tombs : BOOLEAN]
    BY <2>1, Zenon
  <2>4. [meta EXCEPT !.active = FALSE] \in [active : BOOLEAN, owner : Nat, tombs : BOOLEAN]
    BY <2>1, Zenon
  <2>5. [active |-> FALSE, owner |-> 0, tombs |-> FALSE]
          \in [active : BOOLEAN, owner : Nat, tombs : BOOLEAN]
    OBVIOUS
  <2>. DEFINE M == [active : BOOLEAN, owner : Nat, tombs : BOOLEAN]
  <2>. HIDE DEF M
  <2>. QED BY <2>2, <2>3, <2>4, <2>5, Zenon DEF M
<1>. QED BY <1>1, MetaStep, Zenon DEF maintenance_begin, maintenance_end, Release

-----------------------------------------------------------------------------
(* An appended event extends the interval of live rows. *)
LEMMA AppendFacts ==
  ASSUME MaintAssumption, MaintInv, NEW f \in Files \cup {NoFile}, append_event(f),
         UNCHANGED <<receipts, archives>>
  PROVE  /\ live' \subseteq Row /\ appended' \in 0..MaxEvents /\ TraceInv'
         /\ EventFiles(live)' = EventFiles(live) \cup ({f} \ {NoFile})
<1>. USE DEF append_event
<1>1. PICK b \in 0..MaxEvents : TraceAt(b)
  BY Zenon DEF MaintInv, TraceInv
<1>2. last_seq = appended /\ appended \in Nat /\ MaxEvents \in Nat
  BY <1>1, TraceFacts DEF MaintInv, MaintTypeOK, MaintAssumption
<1>3. live' \subseteq Row /\ appended' \in 0..MaxEvents
  BY <1>2 DEF MaintInv, MaintTypeOK, Row
<1>4. Seqs(live)' = Seqs(live) \cup {appended + 1}
  <2>. DEFINE e == [seq |-> appended + 1, file |-> f]
  <2>1. live' = live \cup {e} /\ e.seq = appended + 1
    BY <1>2, Zenon
  <2>. HIDE DEF append_event, e
  <2>. QED BY <2>1, Zenon DEF Seqs
<1>5. Seqs(live)' = (b + 1)..appended'
  <2>1. b \in Nat /\ b <= appended /\ appended' = appended + 1 /\ Seqs(live) = (b + 1)..appended
    BY <1>1, <1>2 DEF TraceAt
  <2>. HIDE DEF append_event
  <2>. QED BY <1>2, <1>4, <2>1
<1>6. TraceAt(b)'
  BY <1>1, <1>2, <1>5 DEF TraceAt
<1>7. EventFiles(live)' = EventFiles(live) \cup ({f} \ {NoFile})
  <2>. DEFINE e == [seq |-> last_seq + 1, file |-> f]
  <2>1. live' = live \cup {e} /\ e.file = f
    OBVIOUS
  <2>. HIDE DEF append_event, e
  <2>. QED BY <2>1, Zenon DEF EventFiles
<1>. QED BY <1>3, <1>6, <1>7, Zenon DEF TraceInv

(* New references do not disturb an operation, unless a collection is at     *)
(* work; then they are imports.                                              *)
LEMMA NewReferences ==
  ASSUME MaintInv, UNCHANGED <<archives, operators>>,
         \A o \in Operators : op[o].pc \in {"sweep", "unlink", "record"} =>
                               referenced' \subseteq referenced \cup Imports
  PROVE  (\A o \in Operators : LocalInv(o)') /\ SharedInv' /\ DeletionsAreAudited'
<1>1. UNCHANGED <<archives, op, plan, ops, tombstones, gone>>
  BY Zenon DEF operators, audits
<1>2. ASSUME NEW o \in Operators PROVE LocalInv(o)'
  <2>0. LocalInv(o)
    BY Zenon DEF MaintInv
  <2>1. KindInv(o)' /\ AuditInv(o)'
    BY <1>1, <2>0, Zenon DEF LocalInv, KindInv, AuditInv
  <2>2. RefInv(o)'
    <3>. HIDE DEF referenced
    <3>. QED BY <1>1, <2>0, Zenon DEF LocalInv, RefInv
  <2>3. CopyInv(o)'
    BY <1>1, <2>0, Zenon DEF LocalInv, CopyInv
  <2>. QED BY <2>1, <2>2, <2>3, Zenon DEF LocalInv
<1>3. SharedInv' /\ DeletionsAreAudited'
  BY <1>1, Zenon DEF MaintInv, SharedInv, DeletionsAreAudited
<1>. QED BY <1>2, <1>3, Zenon

LEMMA ReferenceType ==
  ASSUME MaintTypeOK
  PROVE  referenced \subseteq Files
BY DEF referenced, EventFiles, ReceiptFiles, MaintTypeOK, Row, Receipt

LEMMA ReferStep ==
  ASSUME MaintAssumption, MaintInv, NEW w \in Writers, Refer(w)
  PROVE  MaintInv'
<1>. USE DEF Refer
<1>. DEFINE f == writer[w].file
            pc == IF w \in Workers THEN "ready" ELSE "idle"
<1>0. /\ f \in Files /\ (f \in Imports <=> w \notin Workers) /\ files[f] # "absent"
      /\ (w \in Workers => executor = w)
  BY Zenon DEF MaintInv, WriterInv, LockInv
<1>1. UNCHANGED <<files, archives, over, receipts, maintenance, executor, artifacts, meta, guards, op, plan,
                  ops, tombstones, gone, crashes>>
  BY Zenon DEF locks, barrier, operators, audits
<1>2. /\ Goto(w, pc, NoFile) /\ pc \in {"ready", "idle"}
      /\ writer' \in [Writers -> [pc : {"idle", "ready", "put", "refer"}, file : Files \cup {NoFile}]]
      /\ writer'[w].pc = pc
      /\ \A v \in Writers : v # w => writer'[v] = writer[v]
  BY GotoFacts, Zenon DEF Home, MaintInv
<1>3. /\ recs' \subseteq Imports /\ live' \subseteq Row /\ appended' \in 0..MaxEvents /\ TraceInv'
      /\ referenced' \subseteq referenced \cup {f}
  <2>1. CASE barred
    <3>1. UNCHANGED <<recs, live, appended>>
      BY <2>1, Zenon
    <3>. QED BY <1>1, <3>1, Zenon
                DEF MaintInv, MaintTypeOK, WriterInv, TraceInv, TraceAt, referenced
  <2>2. CASE ~barred /\ w \in Workers
    <3>1. append_event(f) /\ UNCHANGED recs
      BY <2>2, Zenon
    <3>2. /\ live' \subseteq Row /\ appended' \in 0..MaxEvents /\ TraceInv'
          /\ EventFiles(live)' = EventFiles(live) \cup ({f} \ {NoFile})
      BY <1>0, <1>1, <3>1, AppendFacts, Zenon
    <3>3. referenced' \subseteq referenced \cup {f}
      BY <1>1, <3>1, <3>2, Zenon DEF referenced
    <3>. QED BY <3>1, <3>2, <3>3, Zenon DEF MaintInv, WriterInv
  <2>3. CASE ~barred /\ w \notin Workers
    <3>1. recs' = recs \cup {f} /\ UNCHANGED <<live, appended>>
      BY <2>3, Zenon
    <3>2. referenced' \subseteq referenced \cup {f}
      BY <1>1, <3>1, Zenon DEF referenced
    <3>3. TraceInv' /\ recs' \subseteq Imports
      BY <1>0, <1>1, <2>3, <3>1, Zenon DEF MaintInv, TraceInv, TraceAt, WriterInv
    <3>. QED BY <3>1, <3>2, <3>3, Zenon DEF MaintInv, MaintTypeOK
  <2>. QED BY <2>1, <2>2, <2>3, Zenon
<1>4. (\A o \in Operators : LocalInv(o)') /\ SharedInv' /\ DeletionsAreAudited'
  <2>. SUFFICES ASSUME NEW o \in Operators, op[o].pc \in {"sweep", "unlink", "record"}
                PROVE  referenced' \subseteq referenced \cup Imports
    BY NewReferences, Zenon
  <2>1. executor = o
    BY Zenon DEF MaintInv, LockInv
  <2>2. w \notin Workers
    BY <1>0, <2>1, Zenon DEF MaintAssumption
  <2>. QED BY <1>0, <1>3, <2>2, Zenon
<1>5. MaintTypeOK'
  BY <1>1, <1>2, <1>3, Zenon DEF MaintInv, MaintTypeOK, MaintAssumption, Writers
<1>6. LockInv' /\ WriterInv'
  <2>1. LockInv'
    BY <1>0, <1>1, <1>2, Zenon DEF MaintInv, LockInv, Writers
  <2>2. WriterInv'
    BY <1>1, <1>2, <1>3, Zenon DEF MaintInv, WriterInv
  <2>. QED BY <2>1, <2>2, Zenon
<1>7. NoDanglingReference'
  BY <1>0, <1>1, <1>3, Zenon DEF MaintInv, NoDanglingReference
<1>. QED BY <1>3, <1>4, <1>5, <1>6, <1>7, Zenon DEF MaintInv

LEMMA AppendSteps ==
  ASSUME MaintAssumption, MaintInv, append_event(NoFile), over' \in BOOLEAN,
         UNCHANGED <<files, archives, recs, receipts, locks, barrier, writer, operators, crashes>>
  PROVE  MaintInv'
<1>1. UNCHANGED <<files, archives, recs, receipts, maintenance, executor, artifacts, meta, guards, writer,
                  op, plan, ops, tombstones, gone, crashes>>
  BY Zenon DEF locks, barrier, operators, audits
<1>2. /\ live' \subseteq Row /\ appended' \in 0..MaxEvents /\ TraceInv'
      /\ EventFiles(live)' = EventFiles(live) \cup ({NoFile} \ {NoFile})
  BY <1>1, AppendFacts, Zenon
<1>3. referenced' = referenced
  BY <1>1, <1>2, Zenon DEF referenced
<1>4. (\A o \in Operators : LocalInv(o)') /\ SharedInv' /\ DeletionsAreAudited'
  BY <1>3, NewReferences, Zenon
<1>5. MaintTypeOK'
  BY <1>1, <1>2, Zenon DEF MaintInv, MaintTypeOK
<1>6. LockInv' /\ WriterInv'
  BY <1>1, Zenon DEF MaintInv, LockInv, WriterInv
<1>7. NoDanglingReference'
  BY <1>1, <1>3, Zenon DEF MaintInv, NoDanglingReference
<1>. QED BY <1>2, <1>4, <1>5, <1>6, <1>7, Zenon DEF MaintInv

(* One step per action of the writers. *)
LEMMA WriterSteps ==
  ASSUME MaintAssumption, MaintInv, NEW w \in Writers, WriterStep(w) \/ CrashWriter(w)
  PROVE  MaintInv'
<1>1. ASSUME FinishRun(w) PROVE MaintInv'
  BY <1>1, AppendSteps, Zenon DEF FinishRun
<1>. QED BY <1>1, StartWorkerStep, StopWorkerStep, ClaimStep, StartImportStep, PutBytesStep, ReferStep,
            CrashWriterStep, Zenon
            DEF WriterStep

LEMMA AppendEventStep ==
  ASSUME MaintAssumption, MaintInv, AppendEvent
  PROVE  MaintInv'
<1>1. over' \in BOOLEAN
  BY Zenon DEF AppendEvent, MaintInv, MaintTypeOK
<1>. QED BY <1>1, AppendSteps, Zenon DEF AppendEvent

-----------------------------------------------------------------------------
(* Whoever is past the locks is alone: no Worker is at work, and the other   *)
(* operators have not begun.                                                 *)
LEMMA Alone ==
  ASSUME MaintAssumption, MaintInv, NEW o \in Operators, op[o].pc \notin {"idle", "begin"}
  PROVE  /\ executor = o
         /\ \A p \in Operators : p # o => op[p].pc \in {"idle", "begin"}
         /\ \A w \in Workers : writer[w].pc = "idle"
BY Zenon DEF MaintInv, LockInv, MaintAssumption

(* An operation that does not step keeps its part of the invariant, as long  *)
(* as what it rests on is kept.                                              *)
LEMMA KindStays ==
  ASSUME NEW p, KindInv(p), op'[p] = op[p], ops \in Nat, ops' \in Nat, ops <= ops',
         archives \subseteq archives'
  PROVE  KindInv(p)'
<1>1. \A t \in 1..ops : t \in 1..ops'
  OBVIOUS
<1>2. op'[p].pc # "idle" => op'[p].kind # "none" /\ op'[p].token \in 1..ops'
  BY <1>1, Zenon DEF KindInv
<1>3. /\ op'[p].pc = "idle" => op'[p].todo = {}
      /\ op'[p].pc \in {"trace", "archive", "commit"} => op'[p].kind = "trace"
      /\ op'[p].kind = "trace" => op'[p].plan.first >= 1
  BY Zenon DEF KindInv
<1>4. op'[p].pc = "commit" => [prefix |-> op'[p].plan, whole |-> TRUE] \in archives'
  BY Zenon DEF KindInv
<1>. QED BY <1>2, <1>3, <1>4, Zenon DEF KindInv

LEMMA RefStays ==
  ASSUME NEW p, RefInv(p), op'[p] = op[p], referenced' = referenced
  PROVE  RefInv(p)'
BY Zenon DEF RefInv

LEMMA AuditStays ==
  ASSUME NEW p, AuditInv(p), op'[p] = op[p], gone' = gone, tombstones' = tombstones
  PROVE  AuditInv(p)'
BY Zenon DEF AuditInv

LEMMA CopyStays ==
  ASSUME NEW p, CopyInv(p), op'[p] = op[p], archives \subseteq archives'
  PROVE  CopyInv(p)'
BY Zenon DEF CopyInv

(* A step of an operator that changes neither files nor tables nor           *)
(* tombstones keeps the invariant if its own part of it holds afterwards.    *)
LEMMA OwnStep ==
  ASSUME MaintInv, NEW o \in Operators, \A p \in Operators : p # o => op'[p] = op[p],
         UNCHANGED <<files, tables, writer, audits, appended>>,
         ops' \in Nat, ops <= ops', archives \subseteq archives', plan' # NoPlan => plan'.first >= 1,
         MaintTypeOK', LockInv', LocalInv(o)',
         op'[o].pc # "idle" =>
           \A p \in Operators : p # o /\ op[p].pc # "idle" => op[p].token # op'[o].token
  PROVE  MaintInv'
<1>1. /\ UNCHANGED <<recs, live, receipts, tombstones, gone>>
      /\ referenced' = referenced
  BY Zenon DEF tables, audits, referenced
<1>2. ASSUME NEW p \in Operators PROVE LocalInv(p)'
  <2>1. CASE p = o
    BY <2>1, Zenon
  <2>2. CASE p # o
    <3>0. LocalInv(p) /\ op'[p] = op[p] /\ ops \in Nat
      BY <2>2 DEF MaintInv, MaintTypeOK
    <3>1. KindInv(p) /\ RefInv(p) /\ AuditInv(p) /\ CopyInv(p)
      BY <3>0, Zenon DEF LocalInv
    <3>2. KindInv(p)'
      BY <3>0, <3>1, KindStays, Zenon
    <3>3. RefInv(p)'
      BY <1>1, <3>0, <3>1, RefStays, Zenon
    <3>4. AuditInv(p)'
      BY <1>1, <3>0, <3>1, AuditStays, Zenon
    <3>5. CopyInv(p)'
      BY <3>0, <3>1, CopyStays, Zenon
    <3>. QED BY <3>2, <3>3, <3>4, <3>5, Zenon DEF LocalInv
  <2>. QED BY <2>1, <2>2, Zenon
<1>3. SharedInv'
  <2>1. \A g \in gone' : g[1] <= ops'
    <3>. SUFFICES ASSUME NEW g \in gone PROVE g[1] <= ops'
      BY <1>1, Zenon
    <3>1. g[1] \in Nat /\ g[1] <= ops /\ ops \in Nat
      BY DEF MaintInv, SharedInv, MaintTypeOK
    <3>. QED BY <3>1
  <2>2. \A q, p \in Operators : q # p /\ op'[q].pc # "idle" /\ op'[p].pc # "idle"
                               => op'[q].token # op'[p].token
    BY Zenon DEF MaintInv, SharedInv
  <2>. QED BY <2>1, <2>2, Zenon DEF SharedInv
<1>4. DeletionsAreAudited'
  BY <1>1, Zenon DEF MaintInv, DeletionsAreAudited
<1>5. TraceInv'
  BY <1>1, Zenon DEF MaintInv, TraceInv, TraceAt
<1>6. WriterInv' /\ NoDanglingReference'
  BY <1>1, Zenon DEF MaintInv, WriterInv, NoDanglingReference
<1>. QED BY <1>2, <1>3, <1>4, <1>5, <1>6, Zenon DEF MaintInv

(* An operation that is over. *)
LEMMA IdleLocal ==
  ASSUME MaintAssumption, NEW o \in Operators, op'[o] = Idle
  PROVE  LocalInv(o)' /\ op'[o].pc = "idle"
<1>1. op'[o].pc = "idle" /\ op'[o].kind = "none" /\ op'[o].todo = {}
  BY IdleFacts, Zenon
<1>2. KindInv(o)' /\ RefInv(o)' /\ AuditInv(o)' /\ CopyInv(o)'
  BY <1>1, Zenon DEF KindInv, RefInv, AuditInv, CopyInv
<1>. QED BY <1>1, <1>2, Zenon DEF LocalInv

(* An operation that goes on to a step at which nothing new is known. *)
LEMMA ToLocal ==
  ASSUME MaintInv, NEW o \in Operators,
         NEW pc \in {"activate", "gc", "backup", "trace", "archive", "end"}, To(o, pc),
         op[o].pc # "idle", pc \in {"trace", "archive"} => op[o].kind = "trace",
         UNCHANGED <<tables, ops, audits>>
  PROVE  LocalInv(o)'
<1>1. /\ op'[o].pc = pc /\ op'[o].kind = op[o].kind /\ op'[o].token = op[o].token
      /\ op'[o].todo = op[o].todo /\ op'[o].plan = op[o].plan
  BY ToFacts, Zenon DEF MaintInv, OperationPc
<1>2. LocalInv(o) /\ UNCHANGED <<tombstones, gone>>
  BY Zenon DEF MaintInv, audits
<1>3. KindInv(o)'
  BY <1>1, <1>2, Zenon DEF LocalInv, KindInv
<1>4. RefInv(o)' /\ AuditInv(o)' /\ CopyInv(o)'
  BY <1>1, <1>2, Zenon DEF LocalInv, RefInv, AuditInv, CopyInv
<1>. QED BY <1>3, <1>4, Zenon DEF LocalInv

(* The lock invariant after a step of one operator. *)
LEMMA LockStep ==
  ASSUME MaintAssumption, MaintInv, NEW o \in Operators, UNCHANGED writer,
         \A p \in Operators : p # o => op'[p] = op[p],
         \/ UNCHANGED executor /\ (op'[o].pc \in {"idle", "begin"} \/ executor = o)
         \/ executor = NoOne /\ executor' = o
         \/ op'[o].pc = "idle" /\ executor' = IF executor = o THEN NoOne ELSE executor
  PROVE  LockInv'
BY Zenon DEF MaintInv, LockInv, MaintAssumption

LEMMA StartOpStep ==
  ASSUME MaintAssumption, MaintInv, NEW o \in Operators, NEW kind \in {"gc", "backup", "hold", "trace"},
         NEW todo \in SUBSET (Files \X FileState), StartOp(o, kind, todo), kind = "trace" => plan # NoPlan,
         \A e \in todo : e[1] \in Files \ Imports, \A e, d \in todo : e[1] = d[1] => e = d,
         UNCHANGED <<files, archives, tables, locks, barrier, writer, plan, audits, counters>>
  PROVE  MaintInv'
<1>. DEFINE p == IF kind = "trace" THEN plan ELSE NoPlan
            r == [Idle EXCEPT !.pc = "begin", !.kind = kind, !.token = ops + 1, !.todo = todo, !.plan = p]
<1>1. UNCHANGED <<files, archives, recs, live, over, receipts, maintenance, executor, artifacts, meta, guards,
                  writer, plan, tombstones, gone, crashes, appended>>
  BY Zenon DEF tables, locks, barrier, audits, counters
<1>2. ops \in Nat /\ MaxOps \in Nat /\ ops' = ops + 1 /\ ops' \in 0..MaxOps /\ op[o].pc = "idle" /\ Step(o, r)
  BY DEF StartOp, At, MaintInv, MaintTypeOK, MaintAssumption
<1>3. /\ r \in Operation /\ r.pc = "begin" /\ r.kind = kind /\ r.token = ops + 1
      /\ r.todo = todo /\ r.plan = p
  <2>1. p \in Plan
    BY Zenon DEF MaintInv, MaintTypeOK, NoPlan, Plan
  <2>2. Idle \in Operation /\ ops + 1 \in Nat
    BY <1>2, IdleFacts
  <2>. HIDE DEF p
  <2>. QED BY <2>1, <2>2, Zenon DEF Operation
<1>. HIDE DEF r
<1>4. op' \in [Operators -> Operation] /\ op'[o] = r /\ \A q \in Operators : q # o => op'[q] = op[q]
  BY <1>2, <1>3, StepFacts, Zenon DEF MaintInv
<1>5. MaintTypeOK'
  BY <1>1, <1>2, <1>4, Zenon DEF MaintInv, MaintTypeOK
<1>6. LockInv'
  BY <1>1, <1>3, <1>4, LockStep, Zenon
<1>7. LocalInv(o)'
  <2>1. KindInv(o)'
    <3>1. kind = "trace" => p.first >= 1
      BY Zenon DEF MaintInv, SharedInv
    <3>2. ops + 1 \in 1..ops'
      BY <1>2
    <3>3. op'[o].plan = p /\ op'[o].kind = kind /\ op'[o].pc = "begin" /\ op'[o].token = ops + 1
      BY <1>3, <1>4, Zenon
    <3>. HIDE DEF p
    <3>4. kind # "none"
      OBVIOUS
    <3>. QED BY <3>1, <3>2, <3>3, <3>4, Zenon DEF KindInv
  <2>2. RefInv(o)' /\ CopyInv(o)'
    BY <1>3, <1>4, Zenon DEF RefInv, CopyInv
  <2>3. AuditInv(o)'
    <3>1. \A e \in todo : <<ops + 1, e[1]>> \notin gone
      BY <1>2 DEF MaintInv, SharedInv
    <3>. QED BY <1>1, <1>3, <1>4, <3>1, Zenon DEF AuditInv
  <2>. QED BY <2>1, <2>2, <2>3, Zenon DEF LocalInv
<1>8. \A q \in Operators : q # o /\ op[q].pc # "idle" => op[q].token # op'[o].token
  <2>1. \A q \in Operators : op[q].pc # "idle" => op[q].token \in 1..ops
    BY Zenon DEF MaintInv, LocalInv, KindInv
  <2>2. op'[o].token = ops + 1
    BY <1>3, <1>4, Zenon
  <2>. QED BY <1>2, <2>1, <2>2
<1>9. plan' # NoPlan => plan'.first >= 1
  BY <1>1, Zenon DEF MaintInv, SharedInv
<1>10. ops' \in Nat /\ ops <= ops' /\ archives \subseteq archives'
  BY <1>1, <1>2
<1>. HIDE DEF p
<1>. QED BY <1>1, <1>4, <1>5, <1>6, <1>7, <1>8, <1>9, <1>10, OwnStep, Zenon

LEMMA CommandSteps ==
  ASSUME MaintAssumption, MaintInv, NEW o \in Operators, Command(o)
  PROVE  MaintInv'
<1>1. CASE GC(o)
  <2>1. PICK S \in SUBSET deletable : StartOp(o, "gc", {<<f, files[f]>> : f \in S})
    BY <1>1, Zenon DEF GC
  <2>. DEFINE todo == {<<f, files[f]>> : f \in S}
  <2>2. S \subseteq Files \ Imports
    BY Zenon DEF deletable
  <2>3. \A e \in todo : \E f \in S : e = <<f, files[f]>>
    OBVIOUS
  <2>4. /\ \A e \in todo : e[1] \in Files \ Imports /\ e = <<e[1], files[e[1]]>>
        /\ todo \in SUBSET (Files \X FileState)
    BY <2>2, <2>3 DEF MaintInv, MaintTypeOK
  <2>. HIDE DEF todo
  <2>5. \A e, d \in todo : e[1] = d[1] => e = d
    BY <2>4, Zenon
  <2>6. StartOp(o, "gc", todo)
    BY <2>1, Zenon DEF todo
  <2>. QED BY <1>1, <2>4, <2>5, <2>6, StartOpStep DEF GC
<1>2. CASE Backup(o)
  BY <1>2, StartOpStep, Zenon DEF Backup
<1>3. CASE Hold(o)
  BY <1>3, StartOpStep, Zenon DEF Hold
<1>4. CASE apply_trace_retention(o)
  BY <1>4, StartOpStep, Zenon DEF apply_trace_retention
<1>5. CASE plan_trace_retention(o)
  <2>1. UNCHANGED <<files, archives, tables, recs, live, over, receipts, maintenance, executor, artifacts, meta,
                    guards, writer, op, ops, tombstones, gone, audits, crashes, appended>>
    BY <1>5, Zenon DEF plan_trace_retention, tables, locks, barrier, audits, counters
  <2>2. PICK b \in 0..MaxEvents : TraceAt(b)
    BY Zenon DEF MaintInv, TraceInv
  <2>3. PICK cutoff \in Seqs(live) : plan_at_cutoff(cutoff) # NoPlan /\ plan' = plan_at_cutoff(cutoff)
    BY <1>5, Zenon DEF plan_trace_retention
  <2>4. cutoff \in Nat /\ MaintTypeOK /\ b \in Nat
    <3>1. MaintTypeOK /\ live \subseteq Row
      BY Zenon DEF MaintInv, MaintTypeOK
    <3>2. cutoff \in Nat
      BY <3>1, Zenon DEF Seqs, Row
    <3>3. MaxEvents \in Nat
      BY Zenon DEF MaintAssumption
    <3>. QED BY <3>1, <3>2, <3>3
  <2>5. plan' \in Plan /\ plan'.first = b + 1
    BY <2>2, <2>3, <2>4, PlanFacts, Zenon
  <2>6. MaintTypeOK'
    BY <2>1, <2>5, Zenon DEF MaintInv, MaintTypeOK
  <2>7. LockInv'
    BY <2>1, Zenon DEF MaintInv, LockInv
  <2>8. LocalInv(o)'
    <3>1. LocalInv(o) /\ referenced' = referenced
      BY <2>1, Zenon DEF MaintInv, referenced
    <3>2. KindInv(o) /\ RefInv(o) /\ AuditInv(o) /\ CopyInv(o) /\ op'[o] = op[o]
      BY <2>1, <3>1, Zenon DEF LocalInv
    <3>3. ops \in Nat /\ ops' \in Nat /\ ops <= ops' /\ archives \subseteq archives'
          /\ gone' = gone /\ tombstones' = tombstones
      BY <2>1 DEF MaintInv, MaintTypeOK
    <3>. QED BY <3>1, <3>2, <3>3, KindStays, RefStays, AuditStays, CopyStays, Zenon DEF LocalInv
  <2>9. \A p \in Operators : p # o /\ op[p].pc # "idle" /\ op'[o].pc # "idle" => op[p].token # op'[o].token
    BY <2>1, Zenon DEF MaintInv, SharedInv
  <2>10. /\ ops \in Nat /\ ops' \in Nat /\ ops <= ops' /\ archives \subseteq archives'
         /\ \A p \in Operators : p # o => op'[p] = op[p]
    <3>1. ops \in Nat
      BY DEF MaintInv, MaintTypeOK
    <3>2. ops' = ops /\ archives' = archives /\ op' = op
      BY <2>1, Zenon
    <3>. QED BY <3>1, <3>2
  <2>11. plan' # NoPlan => plan'.first >= 1
    BY <2>4, <2>5
  <2>12. UNCHANGED <<files, tables, writer, audits, appended>>
    BY <2>1, Zenon
  <2>13. op'[o].pc # "idle" =>
           \A p \in Operators : p # o /\ op[p].pc # "idle" => op[p].token # op'[o].token
    BY <2>9, Zenon
  <2>. QED BY <2>6, <2>7, <2>8, <2>10, <2>11, <2>12, <2>13, OwnStep, Zenon
<1>6. CASE Release(o)
  BY <1>6, BarrierSteps, Zenon
<1>. QED BY <1>1, <1>2, <1>3, <1>4, <1>5, <1>6, Zenon DEF Command

-----------------------------------------------------------------------------
(* An operation goes on under its locks. *)
LEMMA GoOn ==
  ASSUME MaintAssumption, MaintInv, NEW o \in Operators, op[o].pc \notin {"idle", "begin"},
         op' \in [Operators -> Operation], \A p \in Operators : p # o => op'[p] = op[p],
         op'[o].token = op[o].token, LocalInv(o)',
         archives \subseteq archives', archives' \subseteq [prefix : Plan, whole : BOOLEAN],
         UNCHANGED <<files, tables, locks, barrier, writer, plan, ops, audits, counters>>
  PROVE  MaintInv'
<1>1. UNCHANGED <<files, recs, live, over, receipts, maintenance, executor, artifacts, meta, guards,
                  writer, plan, ops, tombstones, gone, crashes, appended>>
  BY Zenon DEF tables, locks, barrier, audits, counters
<1>2. executor = o /\ ops \in Nat
  BY Alone DEF MaintInv, MaintTypeOK
<1>3. MaintTypeOK'
  BY <1>1, Zenon DEF MaintInv, MaintTypeOK
<1>4. LockInv'
  BY <1>1, <1>2, LockStep, Zenon
<1>5. \A p \in Operators : p # o /\ op[p].pc # "idle" => op[p].token # op'[o].token
  BY Zenon DEF MaintInv, SharedInv
<1>6. plan' # NoPlan => plan'.first >= 1
  BY <1>1, Zenon DEF MaintInv, SharedInv
<1>. QED BY <1>1, <1>2, <1>3, <1>4, <1>5, <1>6, OwnStep

(* An operation ends, and its locks with it. *)
LEMMA Quit ==
  ASSUME MaintAssumption, MaintInv, NEW o \in Operators, Step(o, Idle), Free(o) \/ UNCHANGED locks,
         meta' \in [active : BOOLEAN, owner : Nat, tombs : BOOLEAN], guards' \in BOOLEAN,
         crashes' \in 0..MaxCrashes,
         archives \subseteq archives', archives' \subseteq [prefix : Plan, whole : BOOLEAN],
         UNCHANGED <<files, tables, writer, plan, ops, audits, appended>>
  PROVE  MaintInv'
<1>1. UNCHANGED <<files, recs, live, over, receipts, writer, plan, ops, tombstones, gone, appended>>
  BY Zenon DEF tables, audits
<1>2. op' \in [Operators -> Operation] /\ op'[o] = Idle /\ \A p \in Operators : p # o => op'[p] = op[p]
  BY StepFacts, IdleFacts, Zenon DEF MaintInv
<1>3. LocalInv(o)' /\ op'[o].pc = "idle"
  BY <1>2, IdleLocal, Zenon
<1>4. \/ UNCHANGED executor
      \/ executor' = IF executor = o THEN NoOne ELSE executor
  BY Zenon DEF Free, locks
<1>5. LockInv'
  <2>1. UNCHANGED executor => LockInv'
    BY <1>1, <1>2, <1>3, LockStep, Zenon
  <2>2. executor' = (IF executor = o THEN NoOne ELSE executor) => LockInv'
    BY <1>1, <1>2, <1>3, LockStep, Zenon
  <2>. QED BY <1>4, <2>1, <2>2, Zenon
<1>6. /\ maintenance' \in Operators \cup {NoOne} /\ artifacts' \in Operators \cup {NoOne}
      /\ executor' \in Workers \cup Operators \cup {NoOne}
  BY Zenon DEF Free, locks, MaintInv, MaintTypeOK
<1>7. MaintTypeOK'
  BY <1>1, <1>2, <1>6, Zenon DEF MaintInv, MaintTypeOK
<1>8. (plan' # NoPlan => plan'.first >= 1) /\ ops \in Nat
  BY <1>1 DEF MaintInv, SharedInv, MaintTypeOK
<1>. QED BY <1>1, <1>2, <1>3, <1>5, <1>7, <1>8, OwnStep

LEMMA AcquireStep ==
  ASSUME MaintAssumption, MaintInv, NEW o \in Operators, acquire_operation_locks(o)
  PROVE  MaintInv'
<1>. USE DEF acquire_operation_locks
<1>1. UNCHANGED <<files, archives, recs, live, over, receipts, meta, guards,
                  writer, plan, ops, tombstones, gone, crashes, appended>>
  BY Zenon DEF tables, barrier, audits, counters
<1>2. CASE maintenance = NoOne /\ executor = NoOne
  <2>1. /\ maintenance' = o /\ executor' = o /\ artifacts' \in {o, artifacts}
        /\ To(o, "activate") /\ op[o].pc = "begin"
    BY <1>2, Zenon DEF At
  <2>2. /\ op' \in [Operators -> Operation] /\ op'[o].pc = "activate" /\ op'[o].token = op[o].token
        /\ \A p \in Operators : p # o => op'[p] = op[p]
    BY <2>1, ToFacts, Zenon DEF MaintInv, OperationPc
  <2>3. LocalInv(o)'
    BY <2>1, ToLocal, Zenon
  <2>4. MaintTypeOK'
    BY <1>1, <2>1, <2>2, Zenon DEF MaintInv, MaintTypeOK
  <2>5. LockInv'
    BY <1>1, <1>2, <2>1, <2>2, LockStep, Zenon
  <2>6. \A p \in Operators : p # o /\ op[p].pc # "idle" => op[p].token # op'[o].token
    BY <2>1, <2>2, Zenon DEF MaintInv, SharedInv
  <2>7. (plan' # NoPlan => plan'.first >= 1) /\ ops \in Nat
    BY <1>1 DEF MaintInv, SharedInv, MaintTypeOK
  <2>. QED BY <1>1, <2>2, <2>3, <2>4, <2>5, <2>6, <2>7, OwnStep
<1>3. CASE ~(maintenance = NoOne /\ executor = NoOne)
  <2>1. Step(o, Idle) /\ UNCHANGED locks
    BY <1>3, Zenon
  <2>2. /\ meta' \in [active : BOOLEAN, owner : Nat, tombs : BOOLEAN] /\ guards' \in BOOLEAN
        /\ crashes' \in 0..MaxCrashes /\ archives' \subseteq [prefix : Plan, whole : BOOLEAN]
    BY <1>1, Zenon DEF MaintInv, MaintTypeOK
  <2>. QED BY <1>1, <2>1, <2>2, Quit, Zenon
<1>. QED BY <1>2, <1>3, Zenon

LEMMA BeginStep ==
  ASSUME MaintAssumption, MaintInv, NEW o \in Operators, begin_maintenance(o)
  PROVE  MaintInv'
<1>. USE DEF begin_maintenance
<1>1. UNCHANGED <<files, archives, recs, live, over, receipts,
                  writer, plan, ops, tombstones, gone, crashes, appended>>
  BY Zenon DEF tables, audits, counters
<1>2. /\ guards' \in BOOLEAN
      /\ crashes' \in 0..MaxCrashes /\ archives' \subseteq [prefix : Plan, whole : BOOLEAN]
  BY <1>1, Zenon DEF MaintInv, MaintTypeOK, barrier
<1>3. /\ op[o].token \in Nat /\ op[o].kind \in {"gc", "backup", "hold", "trace"} /\ op[o].pc = "activate"
  BY Zenon DEF MaintInv, MaintTypeOK, LocalInv, KindInv, At, Operation
<1>4. meta' \in [active : BOOLEAN, owner : Nat, tombs : BOOLEAN]
  <2>. DEFINE M == [active : BOOLEAN, owner : Nat, tombs : BOOLEAN]
              m == [active |-> TRUE, owner |-> op[o].token, tombs |-> op[o].kind = "gc"]
  <2>1. m \in M /\ meta \in M
    BY <1>3, Zenon DEF MaintInv, MaintTypeOK
  <2>2. meta' = meta \/ meta' = m
    BY Zenon DEF barrier
  <2>. HIDE DEF M, m
  <2>3. meta' \in M
    BY <2>1, <2>2, Zenon
  <2>. QED BY <2>3, Zenon DEF M
<1>5. CASE meta.active \/ op[o].kind = "hold"
  <2>1. Free(o) /\ Step(o, Idle)
    BY <1>5, Zenon
  <2>. QED BY <1>1, <1>2, <1>4, <2>1, Quit, Zenon
<1>6. CASE ~meta.active /\ op[o].kind # "hold"
  <2>1. To(o, op[o].kind) /\ UNCHANGED locks
    BY <1>6, Zenon
  <2>2. op[o].kind \in {"gc", "backup", "trace"}
    BY <1>3, <1>6, Zenon
  <2>3. /\ op' \in [Operators -> Operation] /\ op'[o].token = op[o].token
        /\ \A p \in Operators : p # o => op'[p] = op[p]
    BY <2>1, <2>2, ToFacts DEF MaintInv, OperationPc
  <2>4. LocalInv(o)'
    BY <1>3, <2>1, <2>2, ToLocal, Zenon
  <2>5. UNCHANGED <<maintenance, executor, artifacts>> /\ executor = o
    BY <1>3, <2>1, Alone, Zenon DEF locks
  <2>6. MaintTypeOK'
    BY <1>1, <1>2, <1>4, <2>3, <2>5, Zenon DEF MaintInv, MaintTypeOK
  <2>7. LockInv'
    BY <1>1, <2>3, <2>5, LockStep, Zenon
  <2>8. \A p \in Operators : p # o /\ op[p].pc # "idle" => op[p].token # op'[o].token
    BY <1>3, <2>3, Zenon DEF MaintInv, SharedInv
  <2>9. (plan' # NoPlan => plan'.first >= 1) /\ ops \in Nat
    BY <1>1 DEF MaintInv, SharedInv, MaintTypeOK
  <2>. QED BY <1>1, <2>3, <2>4, <2>6, <2>7, <2>8, <2>9, OwnStep
<1>. QED BY <1>5, <1>6, Zenon

LEMMA EndStep ==
  ASSUME MaintAssumption, MaintInv, NEW o \in Operators, end_maintenance(o)
  PROVE  MaintInv'
<1>. USE DEF end_maintenance
<1>1. /\ guards' \in BOOLEAN /\ UNCHANGED <<archives, crashes, appended>>
      /\ crashes' \in 0..MaxCrashes /\ archives' \subseteq [prefix : Plan, whole : BOOLEAN]
  BY Zenon DEF MaintInv, MaintTypeOK, counters
<1>2. meta' \in [active : BOOLEAN, owner : Nat, tombs : BOOLEAN]
  <2>. DEFINE M == [active : BOOLEAN, owner : Nat, tombs : BOOLEAN]
  <2>1. NoMeta \in M /\ meta \in M
    BY Zenon DEF NoMeta, MaintInv, MaintTypeOK
  <2>2. meta' = meta \/ meta' = NoMeta
    OBVIOUS
  <2>. HIDE DEF M
  <2>3. meta' \in M
    BY <2>1, <2>2, Zenon
  <2>. QED BY <2>3, Zenon DEF M
<1>. QED BY <1>1, <1>2, Quit, Zenon

LEMMA CrashOpStep ==
  ASSUME MaintAssumption, MaintInv, NEW o \in Operators, CrashOp(o)
  PROVE  MaintInv'
<1>. USE DEF CrashOp
<1>1. UNCHANGED <<meta, guards>>
  BY Zenon DEF barrier
<1>2. /\ meta' \in [active : BOOLEAN, owner : Nat, tombs : BOOLEAN] /\ guards' \in BOOLEAN
      /\ crashes' \in 0..MaxCrashes
  BY <1>1 DEF MaintInv, MaintTypeOK, MaintAssumption
<1>3. archives \subseteq archives' /\ archives' \subseteq [prefix : Plan, whole : BOOLEAN]
  <2>. DEFINE a == [prefix |-> op[o].plan, whole |-> FALSE]
  <2>1. a \in [prefix : Plan, whole : BOOLEAN] /\ archives \subseteq [prefix : Plan, whole : BOOLEAN]
    BY Zenon DEF MaintInv, MaintTypeOK, Operation
  <2>2. archives' = archives \/ archives' = archives \cup {a}
    OBVIOUS
  <2>. HIDE DEF a
  <2>. QED BY <2>1, <2>2, Zenon
<1>. QED BY <1>2, <1>3, Quit, Zenon

(* Steps that only move an operation on. *)
LEMMA ToStep ==
  ASSUME MaintAssumption, MaintInv, NEW o \in Operators, op[o].pc \notin {"idle", "begin"},
         NEW pc \in {"archive", "end"}, To(o, pc), pc = "archive" => op[o].kind = "trace",
         UNCHANGED <<files, archives, tables, locks, barrier, writer, plan, ops, audits, counters>>
  PROVE  MaintInv'
<1>1. /\ op' \in [Operators -> Operation] /\ op'[o].token = op[o].token
      /\ \A p \in Operators : p # o => op'[p] = op[p]
  BY ToFacts, Zenon DEF MaintInv, OperationPc
<1>2. LocalInv(o)'
  BY ToLocal, Zenon
<1>3. archives' \subseteq [prefix : Plan, whole : BOOLEAN]
  BY Zenon DEF MaintInv, MaintTypeOK
<1>. QED BY <1>1, <1>2, <1>3, GoOn, Zenon

LEMMA MoveSteps ==
  ASSUME MaintAssumption, MaintInv, NEW o \in Operators, SweepDone(o) \/ write_manifest(o) \/ check_plan(o)
  PROVE  MaintInv'
<1>1. CASE SweepDone(o)
  BY <1>1, ToStep, Zenon DEF SweepDone, At
<1>2. CASE write_manifest(o)
  BY <1>2, ToStep, Zenon DEF write_manifest, At
<1>3. CASE check_plan(o)
  <2>1. op[o].kind = "trace" /\ op[o].pc = "trace"
    BY <1>3, Zenon DEF check_plan, At, MaintInv, LocalInv, KindInv
  <2>2. PICK pc \in {"archive", "end"} : To(o, pc)
    BY <1>3, Zenon DEF check_plan
  <2>. QED BY <1>3, <2>1, <2>2, ToStep, Zenon DEF check_plan
<1>. QED BY <1>1, <1>2, <1>3, Zenon

LEMMA CollectStep ==
  ASSUME MaintAssumption, MaintInv, NEW o \in Operators, collect_references(o)
  PROVE  MaintInv'
<1>. USE DEF collect_references
<1>0. op[o].pc = "gc" /\ archives' \subseteq [prefix : Plan, whole : BOOLEAN]
  BY Zenon DEF At, MaintInv, MaintTypeOK
<1>1. CASE ~verify_trace_archives
  BY <1>0, <1>1, ToStep, Zenon
<1>2. CASE verify_trace_archives
  <2>. DEFINE r == [op[o] EXCEPT !.pc = "sweep", !.refs = referenced]
  <2>1. Step(o, r) /\ UNCHANGED <<ops, tombstones, gone>> /\ referenced' = referenced
    BY <1>2, Zenon DEF referenced, tables, audits
  <2>2. referenced \subseteq Files /\ op[o] \in Operation
    BY ReferenceType, Zenon DEF MaintInv, MaintTypeOK
  <2>3. /\ r \in Operation /\ r.pc = "sweep" /\ r.kind = op[o].kind /\ r.token = op[o].token
        /\ r.todo = op[o].todo /\ r.refs = referenced /\ r.plan = op[o].plan
    BY <2>2, Zenon DEF Operation
  <2>. HIDE DEF r
  <2>4. op' \in [Operators -> Operation] /\ op'[o] = r /\ \A p \in Operators : p # o => op'[p] = op[p]
    BY <2>1, <2>3, StepFacts, Zenon DEF MaintInv
  <2>5. LocalInv(o)
    BY Zenon DEF MaintInv
  <2>6. KindInv(o)' /\ CopyInv(o)'
    BY <1>0, <2>1, <2>3, <2>4, <2>5, Zenon DEF LocalInv, KindInv, CopyInv
  <2>7. RefInv(o)'
    BY <2>1, <2>3, <2>4, <2>5, Zenon DEF LocalInv, RefInv
  <2>8. AuditInv(o)'
    BY <2>1, <2>3, <2>4, <2>5, Zenon DEF LocalInv, AuditInv
  <2>9. LocalInv(o)'
    BY <2>6, <2>7, <2>8, Zenon DEF LocalInv
  <2>. QED BY <1>0, <2>3, <2>4, <2>9, GoOn, Zenon
<1>. QED BY <1>1, <1>2, Zenon

LEMMA SnapshotStep ==
  ASSUME MaintAssumption, MaintInv, NEW o \in Operators, snapshot(o)
  PROVE  MaintInv'
<1>. USE DEF snapshot
<1>0. op[o].pc = "backup" /\ archives' \subseteq [prefix : Plan, whole : BOOLEAN]
  BY Zenon DEF At, MaintInv, MaintTypeOK
<1>1. CASE ~verify_trace_archives
  BY <1>0, <1>1, ToStep, Zenon
<1>2. CASE verify_trace_archives
  <2>. DEFINE s == [recs |-> recs, live |-> live, receipts |-> receipts, appended |-> appended]
              r == [op[o] EXCEPT !.pc = "copy", !.snap = s]
  <2>1. Step(o, r) /\ UNCHANGED <<archives, ops, tombstones, gone>>
    BY <1>2, Zenon DEF audits
  <2>2. /\ s \in Snapshot /\ s.live = live /\ s.receipts = receipts /\ s.appended = appended
        /\ op[o] \in Operation
    BY DEF MaintInv, MaintTypeOK, Snapshot
  <2>. HIDE DEF s
  <2>3. /\ r \in Operation /\ r.pc = "copy" /\ r.kind = op[o].kind /\ r.token = op[o].token
        /\ r.todo = op[o].todo /\ r.snap = s /\ r.plan = op[o].plan
    BY <2>2, Zenon DEF Operation
  <2>. HIDE DEF r
  <2>4. op' \in [Operators -> Operation] /\ op'[o] = r /\ \A p \in Operators : p # o => op'[p] = op[p]
    BY <2>1, <2>3, StepFacts, Zenon DEF MaintInv
  <2>5. LocalInv(o)
    BY Zenon DEF MaintInv
  <2>6. KindInv(o)' /\ RefInv(o)' /\ AuditInv(o)'
    BY <1>0, <2>1, <2>3, <2>4, <2>5, Zenon DEF LocalInv, KindInv, RefInv, AuditInv
  <2>7. CopyInv(o)'
    <3>1. PICK b \in 0..MaxEvents : TraceAt(b)
      BY Zenon DEF MaintInv, TraceInv
    <3>2. b \in Nat /\ appended \in Nat /\ b <= appended
      BY <3>1 DEF TraceAt, MaintInv, MaintTypeOK, MaintAssumption
    <3>3. Seqs(live) = (b + 1)..appended /\ Archived(receipts) = 1..b
      BY <3>1, Zenon DEF TraceAt
    <3>4. Seqs(live) \cup Archived(receipts) = 1..appended
      BY <3>2, <3>3
    <3>5. \A q \in receipts : [prefix |-> q.plan, whole |-> TRUE] \in archives
      BY <3>1, Zenon DEF TraceAt
    <3>. QED BY <2>1, <2>2, <2>3, <2>4, <3>4, <3>5, Zenon DEF CopyInv
  <2>8. LocalInv(o)'
    BY <2>6, <2>7, Zenon DEF LocalInv
  <2>. QED BY <1>0, <2>3, <2>4, <2>8, GoOn, Zenon
<1>. QED BY <1>1, <1>2, Zenon

LEMMA CopyStep ==
  ASSUME MaintAssumption, MaintInv, NEW o \in Operators, copy_files(o)
  PROVE  MaintInv'
<1>. USE DEF copy_files
<1>. DEFINE s == op[o].snap
<1>1. op[o].pc = "copy" /\ archives' \subseteq [prefix : Plan, whole : BOOLEAN]
  BY Zenon DEF At, MaintInv, MaintTypeOK
<1>2. PICK H \in SUBSET snapshot_refs(s) :
        Step(o, [op[o] EXCEPT !.pc = "manifest", !.refs = snapshot_refs(s), !.hashed = H,
                              !.copied = copies(snapshot_refs(s), H)])
  BY Zenon DEF CopyRefs
<1>. DEFINE C == copies(snapshot_refs(s), H)
            r == [op[o] EXCEPT !.pc = "manifest", !.refs = snapshot_refs(s), !.hashed = H, !.copied = C]
<1>3. Step(o, r) /\ UNCHANGED <<archives, ops, tombstones, gone>>
  BY <1>2, Zenon DEF audits
<1>4. /\ op[o] \in Operation /\ snapshot_refs(s) \subseteq Files /\ H \subseteq Files
      /\ C \subseteq Files \X FileState
  <2>1. op[o] \in Operation /\ s \in Snapshot /\ files \in [Files -> FileState]
    BY DEF MaintInv, MaintTypeOK, Operation
  <2>2. snapshot_refs(s) \subseteq Files
    BY <2>1 DEF Snapshot, snapshot_refs, EventFiles, ReceiptFiles, Row, Receipt
  <2>3. C \subseteq Files \X FileState
    BY <2>1, <2>2 DEF copies
  <2>. QED BY <2>1, <2>2, <2>3, Zenon
<1>5. \A c \in C : c[1] \in H => c[2] = "whole"
  BY DEF copies
<1>. HIDE DEF C, s
<1>6. /\ r \in Operation /\ r.pc = "manifest" /\ r.kind = op[o].kind /\ r.token = op[o].token
      /\ r.todo = op[o].todo /\ r.snap = op[o].snap /\ r.plan = op[o].plan /\ r.refs = snapshot_refs(s)
      /\ r.hashed = H /\ r.copied = C
  BY <1>4, Zenon DEF Operation
<1>. HIDE DEF r
<1>7. op' \in [Operators -> Operation] /\ op'[o] = r /\ \A p \in Operators : p # o => op'[p] = op[p]
  BY <1>3, <1>6, StepFacts, Zenon DEF MaintInv
<1>8. LocalInv(o)
  BY Zenon DEF MaintInv
<1>9. KindInv(o)' /\ RefInv(o)' /\ AuditInv(o)'
  BY <1>1, <1>3, <1>6, <1>7, <1>8, Zenon DEF LocalInv, KindInv, RefInv, AuditInv
<1>10. CopyInv(o)'
  BY <1>1, <1>3, <1>5, <1>6, <1>7, <1>8, Zenon DEF LocalInv, CopyInv, s
<1>11. LocalInv(o)'
  BY <1>9, <1>10, Zenon DEF LocalInv
<1>. QED BY <1>1, <1>6, <1>7, <1>11, GoOn, Zenon

LEMMA ArchiveStep ==
  ASSUME MaintAssumption, MaintInv, NEW o \in Operators, put_trace_archive(o)
  PROVE  MaintInv'
<1>. USE DEF put_trace_archive
<1>. DEFINE a == [prefix |-> op[o].plan, whole |-> TRUE]
<1>1. /\ op[o].pc = "archive" /\ op[o].kind = "trace" /\ archives \subseteq [prefix : Plan, whole : BOOLEAN]
      /\ a \in [prefix : Plan, whole : BOOLEAN]
  BY Zenon DEF At, MaintInv, MaintTypeOK, LocalInv, KindInv, Operation
<1>2. CASE [a EXCEPT !.whole = FALSE] \in archives
  BY <1>1, <1>2, ToStep, Zenon
<1>3. CASE [a EXCEPT !.whole = FALSE] \notin archives
  <2>1. archives' = archives \cup {a} /\ To(o, "commit") /\ UNCHANGED <<ops, tombstones, gone>>
    BY <1>3, Zenon DEF audits
  <2>2. /\ op' \in [Operators -> Operation]
        /\ op'[o].pc = "commit" /\ op'[o].kind = op[o].kind /\ op'[o].token = op[o].token
        /\ op'[o].todo = op[o].todo /\ op'[o].plan = op[o].plan
        /\ \A p \in Operators : p # o => op'[p] = op[p]
    BY <2>1, ToFacts, Zenon DEF MaintInv, OperationPc
  <2>3. LocalInv(o)
    BY Zenon DEF MaintInv
  <2>4. KindInv(o)'
    BY <1>1, <2>1, <2>2, <2>3, Zenon DEF LocalInv, KindInv
  <2>5. RefInv(o)' /\ AuditInv(o)' /\ CopyInv(o)'
    BY <2>1, <2>2, <2>3, Zenon DEF LocalInv, RefInv, AuditInv, CopyInv
  <2>6. archives \subseteq archives' /\ archives' \subseteq [prefix : Plan, whole : BOOLEAN]
    BY <1>1, <2>1, Zenon
  <2>7. LocalInv(o)'
    BY <2>4, <2>5, Zenon DEF LocalInv
  <2>. QED BY <1>1, <2>2, <2>6, <2>7, GoOn, Zenon
<1>. QED BY <1>2, <1>3, Zenon

-----------------------------------------------------------------------------
(* What a tombstone of one file changes. *)
LEMMA AuditFacts ==
  ASSUME MaintAssumption, MaintInv, NEW o \in Operators, op[o].pc # "idle", NEW f \in Files,
         NEW status \in {"none", "deleting", "failed", "deleted", "missing"}, audit(o, f, status)
  PROVE  /\ tombstones' \in [1..MaxOps -> [Files -> {"none", "deleting", "failed", "deleted", "missing"}]]
         /\ op[o].token \in 1..MaxOps /\ tombstones'[op[o].token][f] = status
         /\ \A t \in 1..MaxOps, g \in Files :
              t # op[o].token \/ g # f => tombstones'[t][g] = tombstones[t][g]
<1>. DEFINE T == op[o].token
            Status == {"none", "deleting", "failed", "deleted", "missing"}
<1>1. T \in 1..MaxOps
  <2>1. op[o].token \in 1..ops /\ ops \in 0..MaxOps
    BY Zenon DEF MaintInv, MaintTypeOK, LocalInv, KindInv
  <2>. QED BY <2>1 DEF MaintAssumption
<1>2. tombstones \in [1..MaxOps -> [Files -> Status]]
  BY Zenon DEF MaintInv, MaintTypeOK
<1>3. tombstones' = [tombstones EXCEPT ![T][f] = status]
  BY Zenon DEF audit
<1>. HIDE DEF T
<1>4. tombstones' \in [1..MaxOps -> [Files -> Status]]
  BY <1>1, <1>2, <1>3, Zenon
<1>5. tombstones'[T][f] = status
  BY <1>1, <1>2, <1>3, Zenon
<1>6. \A t \in 1..MaxOps, g \in Files : t # T \/ g # f => tombstones'[t][g] = tombstones[t][g]
  BY <1>1, <1>2, <1>3, Zenon
<1>. QED BY <1>1, <1>4, <1>5, <1>6, Zenon DEF T

(* A step of a collection that deletes or records keeps the invariant if its *)
(* own part of it holds afterwards: no Worker and no other operation is at   *)
(* work, and importers write other files.                                    *)
LEMMA CollectionStep ==
  ASSUME MaintAssumption, MaintInv, NEW o \in Operators, op[o].pc \in {"sweep", "unlink", "record"},
         op' \in [Operators -> Operation], \A p \in Operators : p # o => op'[p] = op[p],
         op'[o].token = op[o].token, LocalInv(o)', DeletionsAreAudited',
         files' \in [Files -> FileState],
         \A f \in Files : files'[f] = files[f] \/ f \notin referenced \cup Imports,
         tombstones' \in [1..MaxOps -> [Files -> {"none", "deleting", "failed", "deleted", "missing"}]],
         NEW f0 \in Files, gone' = gone \/ gone' = gone \cup {<<op[o].token, f0>>},
         UNCHANGED <<archives, tables, locks, barrier, writer, plan, ops, counters>>
  PROVE  MaintInv'
<1>1. /\ UNCHANGED <<archives, recs, live, over, receipts, maintenance, executor, artifacts, meta, guards,
                     writer, plan, ops, crashes, appended>>
      /\ referenced' = referenced
  BY Zenon DEF tables, locks, barrier, counters, referenced
<1>2. /\ executor = o /\ \A p \in Operators : p # o => op[p].pc \in {"idle", "begin"}
      /\ \A w \in Workers : writer[w].pc = "idle"
  BY Alone, Zenon
<1>3. ops \in Nat /\ op[o].token \in 1..ops /\ op[o].token \in 1..MaxOps
  <2>1. op[o].token \in 1..ops /\ ops \in 0..MaxOps
    BY Zenon DEF MaintInv, MaintTypeOK, LocalInv, KindInv
  <2>. QED BY <2>1 DEF MaintAssumption
<1>4. gone' \subseteq (1..MaxOps) \X Files
  BY <1>3 DEF MaintInv, MaintTypeOK
<1>5. MaintTypeOK'
  BY <1>1, <1>4, Zenon DEF MaintInv, MaintTypeOK
<1>6. LockInv'
  BY <1>1, <1>2, LockStep, Zenon
<1>7. ASSUME NEW p \in Operators PROVE LocalInv(p)'
  <2>1. CASE p = o
    BY <2>1, Zenon
  <2>2. CASE p # o
    <3>0. LocalInv(p) /\ op'[p] = op[p] /\ op[p].pc \in {"idle", "begin"}
      BY <1>2, <2>2, Zenon DEF MaintInv
    <3>1. KindInv(p)' /\ RefInv(p)' /\ CopyInv(p)'
      <4>1. KindInv(p)'
        <5>1. ops \in Nat /\ ops' = ops /\ archives' = archives
          BY <1>1 DEF MaintInv, MaintTypeOK
        <5>2. KindInv(p) /\ ops <= ops' /\ archives \subseteq archives' /\ ops' \in Nat
          BY <3>0, <5>1 DEF LocalInv
        <5>. QED BY <3>0, <5>1, <5>2, KindStays, Zenon
      <4>2. RefInv(p)'
        BY <1>1, <3>0, Zenon DEF LocalInv, RefInv
      <4>3. CopyInv(p)'
        BY <1>1, <3>0, Zenon DEF LocalInv, CopyInv
      <4>. QED BY <4>1, <4>2, <4>3, Zenon
    <3>2. AuditInv(p)'
      <4>1. ASSUME NEW e \in op[p].todo PROVE <<op[p].token, e[1]>> \notin gone'
        <5>1. op[p].pc # "idle"
          BY <3>0, <4>1, Zenon DEF LocalInv, KindInv
        <5>2. op[p].token # op[o].token /\ <<op[p].token, e[1]>> \notin gone
          BY <2>2, <3>0, <4>1, <5>1 DEF MaintInv, SharedInv, LocalInv, AuditInv
        <5>. QED BY <5>2
      <4>. QED BY <3>0, <4>1, Zenon DEF LocalInv, AuditInv
    <3>. QED BY <3>1, <3>2, Zenon DEF LocalInv
  <2>. QED BY <2>1, <2>2, Zenon
<1>8. SharedInv'
  <2>1. \A g \in gone' : g[1] <= ops'
    BY <1>1, <1>3 DEF MaintInv, SharedInv
  <2>2. \A p, q \in Operators : p # q /\ op'[p].pc # "idle" /\ op'[q].pc # "idle"
                               => op'[p].token # op'[q].token
    BY DEF MaintInv, SharedInv
  <2>. QED BY <1>1, <2>1, <2>2, Zenon DEF MaintInv, SharedInv
<1>9. TraceInv'
  BY <1>1, Zenon DEF MaintInv, TraceInv, TraceAt
<1>10. WriterInv'
  BY <1>1, <1>2 DEF MaintInv, WriterInv
<1>11. NoDanglingReference'
  <2>1. referenced \subseteq Files
    BY ReferenceType, Zenon DEF MaintInv
  <2>. QED BY <1>1, <2>1, Zenon DEF MaintInv, NoDanglingReference
<1>. QED BY <1>5, <1>6, <1>7, <1>8, <1>9, <1>10, <1>11, Zenon DEF MaintInv

LEMMA SweepStep ==
  ASSUME MaintAssumption, MaintInv, NEW o \in Operators, NEW e \in op[o].todo, Sweep(o, e)
  PROVE  MaintInv'
<1>. USE DEF Sweep
<1>. DEFINE f == e[1]
            T == op[o].token
            skip == f \in op[o].refs \/ files[f] \notin {"absent", e[2]}
            pass == skip \/ files[f] = "absent"
            file == IF pass THEN NoFile ELSE f
            pc == IF pass THEN "sweep" ELSE "unlink"
            r == [op[o] EXCEPT !.todo = @ \ {e}, !.file = file, !.pc = pc]
            status == IF files[f] = "absent" THEN "missing" ELSE "deleting"
<1>0. op[o].pc = "sweep" /\ LocalInv(o) /\ op[o] \in Operation
  BY Zenon DEF At, MaintInv, MaintTypeOK
<1>1. f \in Files \ Imports /\ <<T, f>> \notin gone /\ (~pass => f \notin op[o].refs)
  BY <1>0, Zenon DEF LocalInv, RefInv, AuditInv
<1>2. /\ Step(o, r) /\ UNCHANGED <<files, archives, ops, gone>>
      /\ IF skip THEN UNCHANGED tombstones ELSE audit(o, f, status)
      /\ referenced' = referenced
  BY Zenon DEF referenced, tables
<1>. HIDE DEF file, pc
<1>3. /\ r \in Operation /\ r.pc = pc /\ r.kind = op[o].kind /\ r.token = T
      /\ r.todo = op[o].todo \ {e} /\ r.refs = op[o].refs /\ r.plan = op[o].plan /\ r.file = file
  <2>1. file \in Files \cup {NoFile} /\ pc \in {"sweep", "unlink"}
    BY <1>1, Zenon DEF file, pc
  <2>. QED BY <1>0, <2>1, Zenon DEF Operation
<1>. HIDE DEF r
<1>4. op' \in [Operators -> Operation] /\ op'[o] = r /\ \A p \in Operators : p # o => op'[p] = op[p]
  BY <1>2, <1>3, StepFacts, Zenon DEF MaintInv
<1>5. /\ tombstones' \in [1..MaxOps -> [Files -> {"none", "deleting", "failed", "deleted", "missing"}]]
      /\ ~skip => tombstones'[T][f] = status
      /\ \A t \in 1..MaxOps, g \in Files :
           t # T \/ g # f => tombstones'[t][g] = tombstones[t][g]
      /\ skip => tombstones' = tombstones
  <2>1. CASE skip
    BY <1>2, <2>1, Zenon DEF MaintInv, MaintTypeOK
  <2>2. CASE ~skip
    <3>1. audit(o, f, status) /\ status \in {"none", "deleting", "failed", "deleted", "missing"}
      BY <1>2, <2>2, Zenon
    <3>. HIDE DEF status, skip, f, T
    <3>2. f \in Files /\ op[o].pc # "idle"
      BY <1>0, <1>1, Zenon
    <3>. QED BY <2>2, <3>1, <3>2, AuditFacts DEF T
  <2>. QED BY <2>1, <2>2, Zenon
<1>6. DeletionsAreAudited'
  <2>. SUFFICES ASSUME NEW t \in 1..MaxOps, NEW g \in Files
                PROVE  /\ tombstones'[t][g] = "deleted" => <<t, g>> \in gone
                       /\ <<t, g>> \in gone => tombstones'[t][g] \in {"deleting", "deleted", "failed"}
    BY <1>2, Zenon DEF DeletionsAreAudited
  <2>1. /\ tombstones[t][g] = "deleted" => <<t, g>> \in gone
        /\ <<t, g>> \in gone => tombstones[t][g] \in {"deleting", "deleted", "failed"}
    BY Zenon DEF MaintInv, DeletionsAreAudited
  <2>2. CASE t = T /\ g = f /\ ~skip
    BY <1>1, <1>5, <2>2, Zenon
  <2>3. CASE ~(t = T /\ g = f /\ ~skip)
    <3>1. tombstones'[t][g] = tombstones[t][g]
      BY <1>5, <2>3, Zenon
    <3>. QED BY <2>1, <3>1, Zenon
  <2>. QED BY <2>2, <2>3, Zenon
<1>7. LocalInv(o)'
  <2>1. KindInv(o)' /\ CopyInv(o)'
    <3>1. pc \in {"sweep", "unlink"}
      BY Zenon DEF pc
    <3>. QED BY <1>0, <1>2, <1>3, <1>4, <3>1, Zenon DEF LocalInv, KindInv, CopyInv
  <2>2. RefInv(o)'
    <3>1. pc \in {"sweep", "unlink"} /\ (pc = "unlink" => ~pass /\ file = f)
      BY Zenon DEF pc, file
    <3>. QED BY <1>0, <1>1, <1>2, <1>3, <1>4, <3>1, Zenon DEF LocalInv, RefInv
  <2>3. AuditInv(o)'
    <3>1. pc \in {"sweep", "unlink"} /\ (pc = "unlink" => ~skip /\ file = f /\ status = "deleting")
      BY Zenon DEF pc, file
    <3>2. \A d \in op[o].todo \ {e} : d[1] # f
      BY <1>0, Zenon DEF LocalInv, AuditInv
    <3>. HIDE DEF skip, status, f
    <3>. QED BY <1>0, <1>1, <1>2, <1>3, <1>4, <1>5, <3>1, <3>2, Zenon DEF LocalInv, AuditInv
  <2>. QED BY <2>1, <2>2, <2>3, Zenon DEF LocalInv
<1>8. files' \in [Files -> FileState]
  BY <1>2, Zenon DEF MaintInv, MaintTypeOK
<1>. QED BY <1>0, <1>1, <1>2, <1>3, <1>4, <1>5, <1>6, <1>7, <1>8, CollectionStep, Zenon

LEMMA UnlinkStep ==
  ASSUME MaintAssumption, MaintInv, NEW o \in Operators, unlink(o)
  PROVE  MaintInv'
<1>. USE DEF unlink
<1>. DEFINE f == op[o].file
            T == op[o].token
<1>0. op[o].pc = "unlink" /\ LocalInv(o)
  BY Zenon DEF At, MaintInv
<1>1. /\ f \in Files \ Imports /\ f \notin referenced /\ <<T, f>> \notin gone
      /\ tombstones[T][f] = "deleting" /\ \A e \in op[o].todo : e[1] # f
  BY <1>0, Zenon DEF LocalInv, RefInv, AuditInv
<1>2. /\ UNCHANGED <<archives, ops, tombstones>> /\ referenced' = referenced
      /\ gone' = gone \cup {<<T, f>>}
  BY Zenon DEF referenced, tables
<1>3. /\ op' \in [Operators -> Operation]
      /\ op'[o].pc = "record" /\ op'[o].kind = op[o].kind /\ op'[o].token = T
      /\ op'[o].todo = op[o].todo /\ op'[o].refs = op[o].refs /\ op'[o].file = f
      /\ op'[o].plan = op[o].plan
      /\ \A p \in Operators : p # o => op'[p] = op[p]
  BY ToFacts, Zenon DEF MaintInv, OperationPc
<1>4. files' \in [Files -> FileState] /\ \A g \in Files : files'[g] = files[g] \/ g = f
  BY <1>1, Zenon DEF MaintInv, MaintTypeOK, FileState
<1>5. DeletionsAreAudited'
  BY <1>1, <1>2, Zenon DEF MaintInv, DeletionsAreAudited
<1>6. LocalInv(o)'
  <2>1. KindInv(o)' /\ CopyInv(o)'
    BY <1>0, <1>2, <1>3, Zenon DEF LocalInv, KindInv, CopyInv
  <2>2. RefInv(o)'
    BY <1>0, <1>2, <1>3, Zenon DEF LocalInv, RefInv
  <2>3. AuditInv(o)'
    BY <1>0, <1>1, <1>2, <1>3, Zenon DEF LocalInv, AuditInv
  <2>. QED BY <2>1, <2>2, <2>3, Zenon DEF LocalInv
<1>7. tombstones' \in [1..MaxOps -> [Files -> {"none", "deleting", "failed", "deleted", "missing"}]]
  BY <1>2, Zenon DEF MaintInv, MaintTypeOK
<1>8. /\ UNCHANGED <<archives, tables, locks, barrier, writer, plan, ops, counters>>
      /\ op[o].file \in Files /\ gone' = gone \cup {<<op[o].token, op[o].file>>}
      /\ \A g \in Files : files'[g] = files[g] \/ g \notin referenced \cup Imports
  BY <1>1, <1>2, <1>4, Zenon
<1>. HIDE DEF unlink, f, T
<1>9. op'[o].token = op[o].token
  BY <1>3, Zenon DEF T
<1>. QED BY <1>0, <1>3, <1>4, <1>5, <1>6, <1>7, <1>8, <1>9, CollectionStep, Zenon

LEMMA UnlinkFailsStep ==
  ASSUME MaintAssumption, MaintInv, NEW o \in Operators, UnlinkFails(o)
  PROVE  MaintInv'
<1>. USE DEF UnlinkFails
<1>. DEFINE f == op[o].file
            T == op[o].token
<1>0. op[o].pc = "unlink" /\ LocalInv(o)
  BY Zenon DEF At, MaintInv
<1>1. /\ f \in Files \ Imports /\ f \notin referenced /\ <<T, f>> \notin gone
      /\ \A e \in op[o].todo : e[1] # f
  BY <1>0, Zenon DEF LocalInv, RefInv, AuditInv
<1>2. /\ tombstones' \in [1..MaxOps -> [Files -> {"none", "deleting", "failed", "deleted", "missing"}]]
      /\ tombstones'[T][f] = "failed"
      /\ \A t \in 1..MaxOps, g \in Files : t # T \/ g # f => tombstones'[t][g] = tombstones[t][g]
  BY <1>0, <1>1, AuditFacts, Zenon
<1>3. /\ op' \in [Operators -> Operation]
      /\ op'[o].pc = "end" /\ op'[o].kind = op[o].kind /\ op'[o].token = T
      /\ op'[o].todo = op[o].todo /\ op'[o].plan = op[o].plan
      /\ \A p \in Operators : p # o => op'[p] = op[p]
  BY ToFacts, Zenon DEF MaintInv, OperationPc
<1>4. gone' = gone \/ gone' = gone \cup {<<T, f>>}
  BY Zenon
<1>5. DeletionsAreAudited'
  <2>. SUFFICES ASSUME NEW t \in 1..MaxOps, NEW g \in Files
                PROVE  /\ tombstones'[t][g] = "deleted" => <<t, g>> \in gone'
                       /\ <<t, g>> \in gone' => tombstones'[t][g] \in {"deleting", "deleted", "failed"}
    BY Zenon DEF DeletionsAreAudited
  <2>1. CASE t = T /\ g = f
    BY <1>2, <2>1, Zenon
  <2>2. CASE t # T \/ g # f
    <3>1. <<t, g>> \in gone' <=> <<t, g>> \in gone
      BY <1>4, <2>2, Zenon
    <3>. QED BY <1>2, <2>2, <3>1, Zenon DEF MaintInv, DeletionsAreAudited
  <2>. QED BY <2>1, <2>2, Zenon
<1>6. LocalInv(o)'
  <2>1. KindInv(o)' /\ CopyInv(o)'
    BY <1>0, <1>3, Zenon DEF LocalInv, KindInv, CopyInv
  <2>2. RefInv(o)'
    BY <1>0, <1>3, Zenon DEF LocalInv, RefInv
  <2>3. AuditInv(o)'
    BY <1>0, <1>1, <1>3, <1>4, Zenon DEF LocalInv, AuditInv
  <2>. QED BY <2>1, <2>2, <2>3, Zenon DEF LocalInv
<1>7. files' \in [Files -> FileState] /\ \A g \in Files : files'[g] = files[g] \/ g = f
  <2>0. files \in [Files -> FileState]
    BY Zenon DEF MaintInv, MaintTypeOK
  <2>1. CASE files' = files
    BY <2>0, <2>1, Zenon
  <2>2. CASE files' = [files EXCEPT ![f] = "absent"]
    BY <1>1, <2>0, <2>2, Zenon DEF FileState
  <2>. QED BY <2>1, <2>2, Zenon
<1>8. /\ UNCHANGED <<archives, tables, locks, barrier, writer, plan, ops, counters>>
      /\ op[o].file \in Files /\ (gone' = gone \/ gone' = gone \cup {<<op[o].token, op[o].file>>})
      /\ \A g \in Files : files'[g] = files[g] \/ g \notin referenced \cup Imports
  BY <1>1, <1>4, <1>7, Zenon
<1>. HIDE DEF UnlinkFails, f, T
<1>9. op'[o].token = op[o].token
  BY <1>3, Zenon DEF T
<1>. QED BY <1>0, <1>2, <1>3, <1>5, <1>6, <1>7, <1>8, <1>9, CollectionStep, Zenon

LEMMA RecordStep ==
  ASSUME MaintAssumption, MaintInv, NEW o \in Operators, RecordDeletion(o)
  PROVE  MaintInv'
<1>. USE DEF RecordDeletion
<1>. DEFINE f == op[o].file
            T == op[o].token
            r == [op[o] EXCEPT !.pc = "sweep", !.file = NoFile]
<1>0. op[o].pc = "record" /\ LocalInv(o) /\ op[o] \in Operation
  BY Zenon DEF At, MaintInv, MaintTypeOK
<1>1. f \in Files /\ <<T, f>> \in gone /\ UNCHANGED <<ops, gone>> /\ referenced' = referenced
  BY <1>0, Zenon DEF LocalInv, RefInv, AuditInv, referenced, tables
<1>2. /\ tombstones' \in [1..MaxOps -> [Files -> {"none", "deleting", "failed", "deleted", "missing"}]]
      /\ tombstones'[T][f] = "deleted"
      /\ \A t \in 1..MaxOps, g \in Files : t # T \/ g # f => tombstones'[t][g] = tombstones[t][g]
  BY <1>0, <1>1, AuditFacts, Zenon
<1>3. /\ r \in Operation /\ r.pc = "sweep" /\ r.kind = op[o].kind /\ r.token = T
      /\ r.todo = op[o].todo /\ r.refs = op[o].refs /\ r.plan = op[o].plan
  BY <1>0, Zenon DEF Operation
<1>. HIDE DEF r
<1>4. op' \in [Operators -> Operation] /\ op'[o] = r /\ \A p \in Operators : p # o => op'[p] = op[p]
  BY <1>3, StepFacts, Zenon DEF MaintInv, r
<1>5. DeletionsAreAudited'
  <2>. SUFFICES ASSUME NEW t \in 1..MaxOps, NEW g \in Files
                PROVE  /\ tombstones'[t][g] = "deleted" => <<t, g>> \in gone
                       /\ <<t, g>> \in gone => tombstones'[t][g] \in {"deleting", "deleted", "failed"}
    BY Zenon DEF DeletionsAreAudited
  <2>1. CASE t = T /\ g = f
    BY <1>1, <1>2, <2>1, Zenon
  <2>2. CASE t # T \/ g # f
    BY <1>2, <2>2 DEF MaintInv, DeletionsAreAudited
  <2>. QED BY <2>1, <2>2, Zenon
<1>6. LocalInv(o)'
  <2>1. KindInv(o)' /\ CopyInv(o)'
    BY <1>0, <1>1, <1>3, <1>4, Zenon DEF LocalInv, KindInv, CopyInv
  <2>2. RefInv(o)' /\ AuditInv(o)'
    BY <1>0, <1>1, <1>3, <1>4, Zenon DEF LocalInv, RefInv, AuditInv
  <2>. QED BY <2>1, <2>2, Zenon DEF LocalInv
<1>7. files' \in [Files -> FileState]
  BY Zenon DEF MaintInv, MaintTypeOK
<1>. QED BY <1>0, <1>1, <1>2, <1>3, <1>4, <1>5, <1>6, <1>7, CollectionStep, Zenon

-----------------------------------------------------------------------------
(* The rows that a retention plan trims are those after the last archived    *)
(* event, up to a later one that is not the newest: what is left is again an *)
(* interval, and the archived events are those before it.                    *)
LEMMA TrimFacts ==
  ASSUME MaintAssumption, MaintInv, NEW p \in Plan, p.first >= 1, plan_at_cutoff(p.last) = p,
         live' = live \ {e \in live : e.seq \in p.first..p.last},
         receipts' = receipts \cup
           {[plan |-> p, files |-> EventFiles({e \in live : e.seq \in p.first..p.last})]},
         [prefix |-> p, whole |-> TRUE] \in archives, UNCHANGED <<archives, recs, appended>>
  PROVE  /\ TraceInv' /\ live' \subseteq Row /\ receipts' \subseteq Receipt
         /\ referenced' \subseteq referenced
<1>. DEFINE cut == {e \in live : e.seq \in p.first..p.last}
            rc == [plan |-> p, files |-> EventFiles(cut)]
<1>0. p.first \in Nat /\ p.last \in Nat /\ appended \in Nat /\ MaxEvents \in Nat /\ appended <= MaxEvents
      /\ live \subseteq Row /\ receipts \subseteq Receipt
  BY DEF Plan, MaintInv, MaintTypeOK, MaintAssumption
<1>1. PICK b \in 0..MaxEvents : TraceAt(b)
  BY Zenon DEF MaintInv, TraceInv
<1>2. p.first = b + 1 /\ p.last \in (b + 1)..(appended - 1) /\ b \in Nat
  <2>1. p # NoPlan
    BY DEF NoPlan
  <2>2. MaintTypeOK
    BY Zenon DEF MaintInv
  <2>3. p.first = b + 1 /\ p.last \in (b + 1)..(appended - 1)
    BY <1>0, <1>1, <2>1, <2>2, PlanFacts
  <2>. QED BY <1>0, <2>3
<1>3. EventFiles(cut) \subseteq EventFiles(live) /\ EventFiles(cut) \subseteq Files
  BY <1>0, Zenon DEF EventFiles, Row
<1>4. rc \in Receipt /\ rc.plan = p /\ rc.files = EventFiles(cut)
  BY <1>3, Zenon DEF Receipt
<1>5. receipts' = receipts \cup {rc} /\ live' = live \ cut
  OBVIOUS
<1>. HIDE DEF rc
<1>6. live' \subseteq Row /\ receipts' \subseteq Receipt
  BY <1>0, <1>4, <1>5, Zenon
<1>7. referenced' \subseteq referenced
  <2>1. EventFiles(live)' \subseteq EventFiles(live)
    BY <1>5, Zenon DEF EventFiles
  <2>2. ReceiptFiles(receipts)' \subseteq ReceiptFiles(receipts) \cup EventFiles(live)
    BY <1>3, <1>4, <1>5, Zenon DEF ReceiptFiles
  <2>. QED BY <2>1, <2>2, Zenon DEF referenced
<1>8. Seqs(live)' = (p.last + 1)..appended
  <2>1. Seqs(live)' = Seqs(live) \ (p.first..p.last)
    BY <1>5, Zenon DEF Seqs
  <2>2. Seqs(live) = (b + 1)..appended
    BY <1>1, Zenon DEF TraceAt
  <2>. HIDE DEF cut
  <2>3. \A n : n \in Seqs(live)' <=> n \in (p.last + 1)..appended
    BY <1>0, <1>2, <2>1, <2>2
  <2>. QED BY <2>3, Zenon
<1>9. Archived(receipts)' = 1..p.last
  <2>1. Archived(receipts)' = Archived(receipts) \cup p.first..p.last
    BY <1>4, <1>5 DEF Archived
  <2>2. Archived(receipts) = 1..b
    BY <1>1, Zenon DEF TraceAt
  <2>. HIDE DEF cut
  <2>3. \A n : n \in 1..b \cup p.first..p.last <=> n \in 1..p.last
    BY <1>0, <1>2
  <2>. QED BY <2>1, <2>2, <2>3, Zenon
<1>10. \A r \in receipts' : r.plan.last <= p.last
  <2>1. \A r \in receipts : r.plan.last \in Nat /\ r.plan.last <= b
    BY <1>0, <1>1, Zenon DEF TraceAt, Receipt, Plan
  <2>. QED BY <1>0, <1>2, <1>4, <1>5, <2>1
<1>11. \A r \in receipts' : [prefix |-> r.plan, whole |-> TRUE] \in archives'
  BY <1>1, <1>4, <1>5, Zenon DEF TraceAt
<1>12. TraceAt(p.last)'
  <2>1. receipts' # {} /\ \E r \in receipts' : r.plan.last = p.last
    BY <1>4, <1>5, Zenon
  <2>2. p.last < appended'
    BY <1>0, <1>2
  <2>. HIDE DEF cut
  <2>. QED BY <1>8, <1>9, <1>10, <1>11, <2>1, <2>2, Zenon DEF TraceAt
<1>13. p.last \in 0..MaxEvents
  BY <1>0, <1>2
<1>14. TraceInv'
  BY <1>12, <1>13, Zenon DEF TraceInv
<1>. QED BY <1>6, <1>7, <1>14, Zenon

(* The snapshot of an operation that has not taken one yet is not used. *)
LEMMA RefRests ==
  ASSUME NEW p, RefInv(p), op'[p] = op[p], op[p].pc \in {"idle", "begin"}
  PROVE  RefInv(p)'
<1>1. \A e \in op'[p].todo : e[1] \in Files \ Imports
  BY Zenon DEF RefInv
<1>2. op'[p].pc \notin {"sweep", "unlink", "record"}
  OBVIOUS
<1>. QED BY <1>1, <1>2, Zenon DEF RefInv

LEMMA CommitStep ==
  ASSUME MaintAssumption, MaintInv, NEW o \in Operators, commit_trace_retention(o)
  PROVE  MaintInv'
<1>. USE DEF commit_trace_retention
<1>. DEFINE p == op[o].plan
            cut == {e \in live : e.seq \in p.first..p.last}
            ok == /\ meta.active /\ meta.owner = op[o].token /\ ~meta.tombs
                  /\ verify_trace_archives
                  /\ plan_at_cutoff(p.last) = p
<1>0. /\ op[o].pc = "commit" /\ LocalInv(o) /\ p \in Plan /\ p.first >= 1
      /\ [prefix |-> p, whole |-> TRUE] \in archives
  BY Zenon DEF At, MaintInv, MaintTypeOK, LocalInv, KindInv, Operation
<1>1. /\ UNCHANGED <<files, archives, recs, over, guards, writer, plan, ops, tombstones, gone, crashes, appended>>
      /\ archives' \subseteq [prefix : Plan, whole : BOOLEAN]
  BY Zenon DEF audits, counters, MaintInv, MaintTypeOK
<1>2. CASE ~ok
  <2>1. To(o, "end") /\ UNCHANGED <<receipts, live, meta, locks>>
    BY <1>2, Zenon
  <2>2. UNCHANGED <<tables, barrier, audits, counters>>
    BY <1>1, <2>1, Zenon DEF tables, barrier, audits, counters
  <2>. QED BY <1>0, <1>1, <2>1, <2>2, ToStep, Zenon
<1>3. CASE ok
  <2>1. /\ receipts' = receipts \cup {[plan |-> p, files |-> EventFiles(cut)]}
        /\ live' = live \ cut /\ meta' = NoMeta /\ Free(o) /\ Step(o, Idle)
        /\ plan_at_cutoff(p.last) = p
    BY <1>3, Zenon
  <2>2. TraceInv' /\ live' \subseteq Row /\ receipts' \subseteq Receipt /\ referenced' \subseteq referenced
    BY <1>0, <1>1, <2>1, TrimFacts, Zenon
  <2>3. op' \in [Operators -> Operation] /\ op'[o] = Idle /\ \A q \in Operators : q # o => op'[q] = op[q]
    BY <2>1, StepFacts, IdleFacts, Zenon DEF MaintInv
  <2>4. LocalInv(o)' /\ op'[o].pc = "idle"
    BY <2>3, IdleLocal, Zenon
  <2>5. LockInv'
    BY <1>1, <2>1, <2>3, <2>4, LockStep, Zenon DEF Free
  <2>6. /\ maintenance' \in Operators \cup {NoOne} /\ artifacts' \in Operators \cup {NoOne}
        /\ executor' \in Workers \cup Operators \cup {NoOne}
    BY <2>1, Zenon DEF Free, MaintInv, MaintTypeOK
  <2>7. meta' \in [active : BOOLEAN, owner : Nat, tombs : BOOLEAN]
    BY <2>1, Zenon DEF NoMeta
  <2>8. MaintTypeOK'
    BY <1>1, <2>2, <2>3, <2>6, <2>7, Zenon DEF MaintInv, MaintTypeOK
  <2>9. ASSUME NEW q \in Operators PROVE LocalInv(q)'
    <3>1. CASE q = o
      BY <2>4, <3>1, Zenon
    <3>2. CASE q # o
      <4>1. LocalInv(q) /\ op'[q] = op[q] /\ op[q].pc \in {"idle", "begin"}
        BY <1>0, <2>3, <3>2, Alone, Zenon DEF MaintInv
      <4>. HIDE DEF commit_trace_retention
      <4>0. UNCHANGED <<archives, ops, gone, tombstones, op[q]>>
        BY <1>1, <4>1, Zenon
      <4>. HIDE DEF p, cut, ok
      <4>a. KindInv(q) /\ CopyInv(q) /\ RefInv(q) /\ AuditInv(q)
        BY <4>1, Zenon DEF LocalInv
      <4>b. ops \in Nat /\ ops' \in Nat /\ ops <= ops' /\ archives \subseteq archives'
        BY <4>0 DEF MaintInv, MaintTypeOK
      <4>2. KindInv(q)'
        BY <4>1, <4>a, <4>b, KindStays, Zenon
      <4>3. CopyInv(q)'
        BY <4>1, <4>a, <4>b, CopyStays, Zenon
      <4>4. RefInv(q)'
        BY <4>1, <4>a, RefRests, Zenon
      <4>5. AuditInv(q)'
        BY <4>0, <4>1, <4>a, AuditStays, Zenon
      <4>. QED BY <4>2, <4>3, <4>4, <4>5, Zenon DEF LocalInv
    <3>. QED BY <3>1, <3>2, Zenon
  <2>10. SharedInv' /\ DeletionsAreAudited'
    BY <1>1, <2>3, <2>4 DEF MaintInv, SharedInv, DeletionsAreAudited
  <2>11. WriterInv' /\ NoDanglingReference'
    BY <1>1, <2>2, Zenon DEF MaintInv, WriterInv, NoDanglingReference
  <2>. QED BY <2>2, <2>5, <2>8, <2>9, <2>10, <2>11, Zenon DEF MaintInv
<1>. QED BY <1>2, <1>3, Zenon

-----------------------------------------------------------------------------
LEMMA InitHolds ==
  ASSUME MaintAssumption, Init
  PROVE  MaintInv
<1>. USE DEF Init
<1>1. \A o \in Operators : op[o] = Idle /\ op[o].pc = "idle" /\ op[o].kind = "none" /\ op[o].todo = {}
  BY IdleFacts, Zenon
<1>2. MaintTypeOK
  <2>1. op \in [Operators -> Operation]
    BY IdleFacts, Zenon
  <2>2. meta \in [active : BOOLEAN, owner : Nat, tombs : BOOLEAN]
    BY Zenon DEF NoMeta
  <2>3. /\ files \in [Files -> FileState] /\ recs \subseteq Files /\ live \subseteq Row
        /\ receipts \subseteq Receipt /\ archives \subseteq [prefix : Plan, whole : BOOLEAN]
    BY Zenon DEF FileState
  <2>4. tombstones \in [1..MaxOps -> [Files -> {"none", "deleting", "failed", "deleted", "missing"}]]
    OBVIOUS
  <2>5. writer \in [Workers \cup Importers ->
                      [pc : {"idle", "ready", "put", "refer"}, file : Files \cup {NoFile}]]
    OBVIOUS
  <2>6. /\ over \in BOOLEAN /\ guards \in BOOLEAN /\ plan \in Plan
        /\ maintenance \in Operators \cup {NoOne} /\ executor \in Workers \cup Operators \cup {NoOne}
        /\ artifacts \in Operators \cup {NoOne} /\ gone \subseteq (1..MaxOps) \X Files
    BY Zenon DEF NoPlan, Plan
  <2>7. ops \in 0..MaxOps /\ crashes \in 0..MaxCrashes /\ appended \in 0..MaxEvents
    BY DEF MaintAssumption
  <2>. QED BY <2>1, <2>2, <2>3, <2>4, <2>5, <2>6, <2>7, Zenon DEF MaintTypeOK
<1>3. \A w \in Writers : writer[w].pc = "idle"
  BY Zenon DEF Writers
<1>4. LockInv /\ WriterInv /\ SharedInv
  BY <1>1, <1>3, Zenon DEF LockInv, WriterInv, SharedInv, Writers
<1>5. ASSUME NEW o \in Operators PROVE LocalInv(o)
  BY <1>1, Zenon DEF LocalInv, KindInv, RefInv, AuditInv, CopyInv
<1>6. TraceInv
  <2>1. Seqs(live) = {} /\ Archived(receipts) = {}
    BY Zenon DEF Seqs, Archived
  <2>2. TraceAt(0)
    BY <2>1 DEF TraceAt
  <2>3. 0 \in 0..MaxEvents
    BY DEF MaintAssumption
  <2>. QED BY <2>2, <2>3, Zenon DEF TraceInv
<1>7. NoDanglingReference
  BY Zenon DEF NoDanglingReference, referenced, EventFiles, ReceiptFiles
<1>8. DeletionsAreAudited
  BY Zenon DEF DeletionsAreAudited
<1>. QED BY <1>2, <1>4, <1>5, <1>6, <1>7, <1>8, Zenon DEF MaintInv

LEMMA StutterStep ==
  ASSUME MaintInv, UNCHANGED vars
  PROVE  MaintInv'
<1>1. UNCHANGED <<files, archives, recs, live, over, receipts, maintenance, executor, artifacts, meta, guards,
                  writer, op, plan, ops, tombstones, gone, crashes, appended>>
  BY Zenon DEF vars, tables, locks, barrier, operators, audits, counters
<1>2. UNCHANGED <<archives, tables, operators, appended>>
  BY <1>1, Zenon DEF tables, operators, audits
<1>3. (\A o \in Operators : LocalInv(o)') /\ SharedInv' /\ TraceInv' /\ DeletionsAreAudited'
  BY <1>2, QuietFrame, Zenon
<1>4. MaintTypeOK'
  BY <1>1, Zenon DEF MaintInv, MaintTypeOK
<1>5. LockInv' /\ WriterInv' /\ NoDanglingReference'
  BY <1>1, Zenon DEF MaintInv, LockInv, WriterInv, NoDanglingReference, referenced
<1>. QED BY <1>3, <1>4, <1>5, Zenon DEF MaintInv

(* One case per action of an operation. *)
LEMMA OperationSteps ==
  ASSUME MaintAssumption, MaintInv, NEW o \in Operators, OperationStep(o)
  PROVE  MaintInv'
<1>1. CASE \E e \in op[o].todo : Sweep(o, e)
  BY <1>1, SweepStep, Zenon
<1>2. CASE SweepDone(o) \/ write_manifest(o) \/ check_plan(o)
  BY <1>2, MoveSteps, Zenon
<1>. QED BY <1>1, <1>2, AcquireStep, BeginStep, EndStep, CollectStep, UnlinkStep, UnlinkFailsStep,
            RecordStep, SnapshotStep, CopyStep, ArchiveStep, CommitStep, Zenon DEF OperationStep

LEMMA NextStep ==
  ASSUME MaintAssumption, MaintInv, [Next]_vars
  PROVE  MaintInv'
<1>1. ASSUME NEW w \in Workers \cup Importers, WriterStep(w) \/ CrashWriter(w) PROVE MaintInv'
  BY <1>1, WriterSteps, Zenon DEF Writers
<1>2. ASSUME NEW o \in Operators, OperationStep(o) \/ Command(o) \/ CrashOp(o) PROVE MaintInv'
  BY <1>2, OperationSteps, CommandSteps, CrashOpStep, Zenon
<1>3. CASE maintenance_begin \/ maintenance_end
  BY <1>3, BarrierSteps, Zenon
<1>. QED BY <1>1, <1>2, <1>3, AppendEventStep, StutterStep, Zenon DEF Next

(* The inductive invariant. *)
LEMMA MaintInvariant == Spec => []MaintInv
<1>1. Init => MaintInv
  BY InitHolds, MaintAssumption, Zenon
<1>2. MaintInv /\ [Next]_vars => MaintInv'
  BY NextStep, MaintAssumption, Zenon
<1>. QED BY <1>1, <1>2, PTL DEF Spec

(* No garbage collection deletes a file that a record, an event or an        *)
(* archived event refers to, whatever Workers, importers and operators do    *)
(* meanwhile (apply_gc, put_bytes, begin_maintenance).                       *)
THEOREM ReferencedFilesStay == Spec => []NoDanglingReference
<1>1. MaintInv => NoDanglingReference
  BY Zenon DEF MaintInv
<1>. QED BY <1>1, MaintInvariant, PTL

(* No event is lost or numbered twice by the retention of the Trace, over    *)
(* crashes and stale plans (commit_trace_retention, _append_event).          *)
THEOREM EventsStay == Spec => []NoEventLost
<1>1. MaintInv => NoEventLost
  <2>. SUFFICES ASSUME MaintInv PROVE NoEventLost
    OBVIOUS
  <2>1. PICK b \in 0..MaxEvents : TraceAt(b)
    BY Zenon DEF MaintInv, TraceInv
  <2>2. b \in Nat /\ appended \in Nat /\ b <= appended
    BY <2>1, MaintAssumption DEF TraceAt, MaintInv, MaintTypeOK, MaintAssumption
  <2>3. /\ Seqs(live) = (b + 1)..appended /\ Archived(receipts) = 1..b
        /\ \A r \in receipts : [prefix |-> r.plan, whole |-> TRUE] \in archives
    BY <2>1, Zenon DEF TraceAt
  <2>. QED BY <2>2, <2>3 DEF NoEventLost
<1>. QED BY <1>1, MaintInvariant, PTL

(* The tombstones of a collection say what it deleted, over crashes and      *)
(* failed deletions (delete_with_audit).                                     *)
THEOREM TombstonesAreTrue == Spec => []DeletionsAreAudited
<1>1. MaintInv => DeletionsAreAudited
  BY Zenon DEF MaintInv
<1>. QED BY <1>1, MaintInvariant, PTL

(* A backup whose manifest says complete holds every event and every file    *)
(* that its snapshot refers to, each whole if a reference carries its hash   *)
(* (consistent_backup, _backup_artifact_files).                              *)
THEOREM CompleteBackupsAreClosed == Spec => []BackupIsClosed
<1>1. MaintInv => BackupIsClosed
  <2>. SUFFICES ASSUME MaintInv, NEW o \in Operators, complete(o)
                PROVE  LET s == op[o].snap
                       IN  /\ Seqs(s.live) \cup Archived(s.receipts) = 1..s.appended
                           /\ \A r \in s.receipts : [prefix |-> r.plan, whole |-> TRUE] \in archives
                           /\ \A f \in snapshot_refs(s) : \E c \in op[o].copied :
                                c[1] = f /\ (f \in op[o].hashed => c[2] = "whole")
    BY Zenon DEF BackupIsClosed
  <2>1. CopyInv(o) /\ op[o].pc = "manifest" /\ op[o].refs \subseteq {c[1] : c \in op[o].copied}
    BY Zenon DEF MaintInv, LocalInv, complete
  <2>. QED BY <2>1, Zenon DEF CopyInv
<1>. QED BY <1>1, MaintInvariant, PTL
=============================================================================
