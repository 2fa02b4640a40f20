---------------------------- MODULE WorkerProofs ----------------------------
(***************************************************************************)
(* The Worker against the Run store, for any number of Workers, clients,   *)
(* Runs and Cases, with crashes and lost locks: every step of the service  *)
(* is a transaction of the store or leaves the store alone, a settled Run  *)
(* stays settled, and a provider call is not repeated.                     *)
(*                                                                         *)
(* WorkerInv (WorkerSteps) says of every activation record what the code   *)
(* that goes on with it relies on, above all that the pass read last is    *)
(* still current when the Run still has the revision read before.  Nothing *)
(* weaker gives the chain of passes, as the previous pass is read after    *)
(* the Run the compare-and-set compares with.                              *)
(***************************************************************************)
EXTENDS WorkerSteps

-----------------------------------------------------------------------------
(* What a call needs of the store. *)
LEMMA CompleteWrites ==
  ASSUME TypeOK, NEW r \in Runs, NEW c \in Cases, NEW n, NEW to \in {"succeeded", "failed"},
         NEW kind \in RowKind \ {"none"}, complete(r, c, n, to, kind)
  PROVE  Writes
<1>1. n \in DOMAIN attempts[r][c] /\ to \in AttemptStatus /\ rows[r][c] = "none" /\ run' = run
  BY Zenon DEF complete, can_complete, AttemptStatus
<1>2. CaseStep(r, c)
  BY <1>1, Zenon DEF CaseStep
<1>3. \A q \in Runs, d \in Cases : rows'[q][d] = IF q = r /\ d = c THEN kind ELSE rows[q][d]
  BY Zenon DEF complete, TypeOK
<1>4. RowsKept /\ rows'[r][c] # "none"
  BY <1>1, <1>3, Zenon DEF RowsKept
<1>5. Advance(r, c, n, to)
  BY Zenon DEF complete
<1>. QED BY <1>1, <1>2, <1>4, <1>5, AdvanceWrites, Zenon

(* The rows a call leaves. *)
LEMMA RowKinds == {"ok", "error", "stop"} \subseteq RowKind \ {"none"}
BY DEF RowKind

LEMMA DispatchWrites ==
  ASSUME TypeOK, NEW r \in Runs, NEW c \in Cases, NEW n, NEW revision, NEW status,
         dispatch(r, c, n, revision, status)
  PROVE  Writes
<1>1. /\ n \in DOMAIN attempts[r][c] /\ attempts[r][c][n] = "prepared"
      /\ run[r].revision = revision /\ run[r].status = status /\ run' = run
  BY Zenon DEF dispatch, can_dispatch, Matches
<1>2. CaseStep(r, c)
  BY <1>1, Zenon DEF CaseStep
<1>3. RowsKept
  BY UnchangedKept, Zenon DEF dispatch
<1>4. Advance(r, c, n, "dispatching") /\ "dispatching" \in AttemptStatus
  BY Zenon DEF dispatch, AttemptStatus
<1>. QED BY <1>1, <1>2, <1>3, <1>4, AdvanceWrites, Zenon

-----------------------------------------------------------------------------
(* The steps around a call change what the actor may do to it, and are taken *)
(* one by one.                                                               *)
Turns(a) ==
  \E g : /\ fr' = [fr EXCEPT ![a] = g]
         /\ Frame(g, run)
         /\ lock' \in Workers \cup {NoActor}

LEMMA CallFrame ==
  ASSUME WorkerInv, NEW a \in Actors, fr[a].pc \in CasePc, NEW g, FrameType(g), g.r = fr[a].r,
         g.pend # {} => g.r \in SecondChanceRuns,
         Plain(g.pc) \/ (g.pc \in CasePc /\ g.c \in Cases), Step(a, g)
  PROVE  Turns(a)
<1>1. fr[a].r \in Runs /\ run[fr[a].r].status # "absent" /\ lock \in Workers \cup {NoActor}
  BY OwnCase, Own, Zenon DEF Created, ActorsInv
<1>2. Going(g)
  BY Zenon DEF Going, Plain, CasePc, HonorPc, TransitionPc, AppendPc
<1>3. g.pc \notin RecoverPc \cup Resting /\ g.pc # "recoverSafe"
  BY Zenon DEF Plain, CasePc, Resting, RecoverPc
<1>4. Control(g)
  BY <1>2, <1>3, Zenon DEF Control
<1>5. g.pc \notin {"appendPrevious", "appendCommit"}
  BY Zenon DEF Plain, CasePc, AppendPc
<1>6. Knows(g, run)
  BY <1>1, <1>5, Zenon DEF Knows
<1>7. Frame(g, run)
  BY <1>4, <1>6, Zenon DEF Frame
<1>. QED BY <1>1, <1>7, Zenon DEF Turns, Step

LEMMA DispatchedTurns ==
  ASSUME WorkerInv, NEW a \in Actors, Dispatched(a)
  PROVE  Turns(a) /\ Writes
<1>. DEFINE f == fr[a]
            g == [f EXCEPT !.pc = "invoke", !.snap = NoRun]
<1>1. /\ f.pc \in CasePc /\ Step(a, g)
      /\ dispatch(f.r, f.c, f.att[f.c], f.snap.revision, f.snap.status)
  BY Zenon DEF Dispatched, CasePc
<1>2. /\ FrameType(f) /\ f.c \in Cases /\ f.r \in Runs /\ TypeOK
      /\ (f.pend # {} => f.r \in SecondChanceRuns)
  BY <1>1, OwnPend, Zenon
<1>3. FrameType(g) /\ g.r = f.r /\ g.pend = f.pend /\ g.pc = "invoke" /\ g.c = f.c
  BY <1>2, NoRunType, BlankFields, Zenon DEF FrameType
<1>4. Writes
  BY <1>1, <1>2, DispatchWrites, Zenon
<1>. HIDE DEF g
<1>. QED BY <1>1, <1>2, <1>3, <1>4, CallFrame, Zenon DEF CasePc

LEMMA InvokeTurns ==
  ASSUME WorkerInv, NEW a \in Actors, Invoke(a)
  PROVE  Turns(a) /\ Writes
<1>. DEFINE f == fr[a]
            g == [f EXCEPT !.pc = "calling"]
<1>1. f.pc \in CasePc /\ Step(a, g) /\ UNCHANGED store
  BY Zenon DEF Invoke, CasePc
<1>2. FrameType(f) /\ f.c \in Cases /\ (f.pend # {} => f.r \in SecondChanceRuns)
  BY <1>1, OwnPend, Zenon
<1>3. FrameType(g) /\ g.r = f.r /\ g.pend = f.pend /\ g.pc = "calling" /\ g.c = f.c
  BY <1>2, BlankFields, Zenon DEF FrameType
<1>. HIDE DEF g
<1>. QED BY <1>1, <1>2, <1>3, Quiet, CallFrame, Zenon DEF CasePc

LEMMA CallFailsTransientlyTurns ==
  ASSUME WorkerInv, NEW a \in Actors, CallFailsTransiently(a)
  PROVE  Turns(a) /\ Writes
<1>. DEFINE f == fr[a]
            h == [f EXCEPT !.pend = f.pend \cup {f.c}]
            g == [h EXCEPT !.pc = "loop", !.c = h.c + 1]
<1>1. f.pc \in CasePc /\ f.r \in SecondChanceRuns /\ Step(a, g) /\ UNCHANGED store
  BY Zenon DEF CallFailsTransiently, NextCase, CasePc
<1>2. FrameType(f) /\ f.c \in Cases /\ f.pend \subseteq Cases
  BY <1>1, OwnPend, Zenon
<1>3. FrameType(h) /\ h.r = f.r
  BY <1>2, BlankFields, Zenon DEF FrameType
<1>. HIDE DEF h
<1>4. FrameType(g) /\ g.r = f.r /\ g.pc = "loop"
  BY <1>3, BlankFields DEF FrameType
<1>. HIDE DEF g
<1>. QED BY <1>1, <1>4, PlainPcs, Quiet, CallFrame, Zenon

CalledAgain(a) ==
  LET f == fr[a] IN
    /\ f.pc = "second" /\ f.c \in f.pend
    /\ CountCall(f.r, f.c)
    /\ Step(a, [f EXCEPT !.pc = "secondCalling", !.pend = @ \ {f.c}])
    /\ UNCHANGED store

LEMMA CalledAgainTurns ==
  ASSUME WorkerInv, NEW a \in Actors, CalledAgain(a)
  PROVE  Turns(a) /\ Writes
<1>. DEFINE f == fr[a]
            g == [f EXCEPT !.pc = "secondCalling", !.pend = f.pend \ {f.c}]
<1>1. f.pc \in CasePc /\ Step(a, g) /\ UNCHANGED store
  BY Zenon DEF CalledAgain, CasePc
<1>2. FrameType(f) /\ f.c \in Cases /\ (f.pend # {} => f.r \in SecondChanceRuns)
  BY <1>1, OwnPend, Zenon
<1>3. FrameType(g) /\ g.r = f.r /\ g.pend \subseteq f.pend /\ g.pc = "secondCalling" /\ g.c = f.c
  BY <1>2, BlankFields, Zenon DEF FrameType
<1>. HIDE DEF g
<1>. QED BY <1>1, <1>2, <1>3, Quiet, CallFrame, Zenon DEF CasePc

-----------------------------------------------------------------------------
(* Recovery *)
LEMMA RecoveryDoes ==
  ASSUME WorkerInv, NEW a \in Actors,
         \/ RecoverRun(a) \/ RecoverPrepared(a) \/ RecoverUncertain(a) \/ RecoverSafe(a)
         \/ RecoverQuarantine(a) \/ Requeue(a) \/ Build(a)
  PROVE  Does(a)

<1>RecoverFrame.
  ASSUME NEW f, Frame(f, run), f.pc \in RecoverPc, NEW g, FrameType(g), g.pc \in RecoverPc,
         g.list = f.list, g.pend = f.pend, g.pc = "recoverSafe" => g.r \in SafeRuns,
         g.pc \notin {"recover", "requeue"} => g.r \in Runs
  PROVE  Frame(g, run) /\ Follows(f, g)
  <2>. USE <1>RecoverFrame
  <2>1. f.pend = {} /\ f.list \in [Runs -> RunRecord]
    BY Zenon DEF Frame, Control
  <2>2. Going(g)
    BY Zenon DEF Going, RecoverPc, CasePc, HonorPc, TransitionPc, AppendPc
  <2>3. Control(g)
    BY <2>1, <2>2, Zenon DEF Control
  <2>4. Knows(g, run)
    BY Zenon DEF Knows, RecoverPc
  <2>5. g.pc \notin {"invoke", "calling"}
    BY Zenon DEF RecoverPc
  <2>. QED BY <2>1, <2>3, <2>4, <2>5, Zenon DEF Frame, Follows

<1>OwnRecovery.
  ASSUME fr[a].pc \in RecoverPc
  PROVE  /\ Frame(fr[a], run) /\ FrameType(fr[a]) /\ TypeOK /\ StoreInv /\ ActorsInv
         /\ fr[a].list \in [Runs -> RunRecord]
         /\ fr[a].pc \notin {"recover", "requeue"} => fr[a].r \in Runs
         /\ fr[a].pc = "recoverSafe" => fr[a].r \in SafeRuns
  BY <1>OwnRecovery, Zenon DEF WorkerInv, ActorsInv, StoreInv, Frame, Control

<1>RecoverMoves.
  ASSUME fr[a].pc \in RecoverPc, NEW g, Step(a, g), FrameType(g),
         g.pc \in RecoverPc, g.list = fr[a].list, g.pend = fr[a].pend,
         g.pc = "recoverSafe" => g.r \in SafeRuns, g.pc \notin {"recover", "requeue"} => g.r \in Runs
  PROVE  Moves(a)
  <2>. USE <1>RecoverMoves
  <2>1. Frame(g, run) /\ Follows(fr[a], g)
    BY <1>OwnRecovery, <1>RecoverFrame, Zenon
  <2>. QED BY <2>1, <1>OwnRecovery, StepMoves, Zenon

<1>NextRecoveredMoves.
  ASSUME fr[a].pc \in RecoverPc \ {"recover", "requeue"}, NextRecovered(a)
  PROVE  Moves(a)
  <2>. USE <1>NextRecoveredMoves
  <2>. DEFINE f == fr[a]
              g == [f EXCEPT !.pc = "recover", !.r = f.r + 1]
  <2>1. FrameType(f) /\ f.r \in Runs /\ Step(a, g)
    BY <1>OwnRecovery, Zenon DEF NextRecovered
  <2>2. f.r + 1 \in 0..(NRuns + 1)
    BY <2>1, NRunsAssumption DEF Runs
  <2>3. FrameType(g) /\ g.pc = "recover" /\ g.list = f.list /\ g.pend = f.pend
    BY <2>1, <2>2, BlankFields, Zenon DEF FrameType
  <2>. HIDE DEF g
  <2>. QED BY <2>1, <2>3, <1>RecoverMoves, Zenon DEF RecoverPc

<1>SlotsType.
  ASSUME TypeOK, NEW r \in Runs, NEW status
  PROVE  Slots(r, status) \subseteq Cases \X Nat
  <2>. USE <1>SlotsType
  <2> SUFFICES ASSUME NEW s \in Slots(r, status) PROVE s \in Cases \X Nat
    OBVIOUS
  <2>1. PICK c \in Cases : \E n \in DOMAIN attempts[r][c] : s = <<c, n>>
    BY Zenon DEF Slots
  <2>2. PICK n \in DOMAIN attempts[r][c] : s = <<c, n>>
    BY <2>1, Zenon
  <2>3. n \in Nat
    BY DEF TypeOK
  <2>. QED BY <2>2, <2>3, Zenon

<1>RecoverRunDoes. ASSUME RecoverRun(a) PROVE Does(a)
  <2>. USE <1>RecoverRunDoes
  <2>. DEFINE f == fr[a]
              left == {r \in Runs : r >= f.r /\ f.list[r].status # "absent"}
              r == Min(left)
              seen == Slots(r, "prepared")
              g == [f EXCEPT !.pc = "requeue"]
              h == [f EXCEPT !.pc = "recoverPrepared", !.r = r, !.seen = seen]
  <2>1. /\ f.pc \in RecoverPc /\ UNCHANGED store
        /\ Step(a, g) \/ (left # {} /\ Step(a, h))
    BY Zenon DEF RecoverRun, RecoverPc
  <2>2. FrameType(f) /\ TypeOK
    BY <2>1, <1>OwnRecovery, Zenon
  <2>3. CASE Step(a, g)
    <3>1. FrameType(g) /\ g.pc = "requeue" /\ g.list = f.list /\ g.pend = f.pend
      BY <2>2, BlankFields, Zenon DEF FrameType
    <3>. HIDE DEF g
    <3>. QED BY <2>1, <2>3, <3>1, <1>RecoverMoves, Quiet, Zenon DEF Does, RecoverPc
  <2>4. CASE left # {} /\ Step(a, h)
    <3>1. left \in SUBSET Nat /\ left \subseteq Runs
      BY NRunsAssumption DEF Runs
    <3>. HIDE DEF left
    <3>2. r \in Runs
      BY <2>4, <3>1, MinIn, Zenon
    <3>. HIDE DEF r
    <3>3. r \in 0..(NRuns + 1)
      BY <3>2, NRunsAssumption DEF Runs
    <3>4. seen \subseteq Cases \X Nat
      BY <2>2, <3>2, <1>SlotsType, Zenon
    <3>. HIDE DEF seen
    <3>5. FrameType(h) /\ h.pc = "recoverPrepared" /\ h.r = r /\ h.list = f.list /\ h.pend = f.pend
      BY <2>2, <3>3, <3>4, BlankFields, Zenon DEF FrameType
    <3>. HIDE DEF h
    <3>. QED BY <2>1, <2>4, <3>2, <3>5, <1>RecoverMoves, Quiet, Zenon DEF Does, RecoverPc
  <2>. QED BY <2>1, <2>3, <2>4, Zenon

<1>RecoverPreparedDoes. ASSUME RecoverPrepared(a) PROVE Does(a)
  <2>. USE <1>RecoverPreparedDoes
  <2>. DEFINE f == fr[a]
              g == [f EXCEPT !.pc = "recoverUncertain"]
              h(s) == [f EXCEPT !.seen = f.seen \ {s}]
  <2>1. /\ f.pc \in RecoverPc /\ f.pc = "recoverPrepared"
        /\ \/ Step(a, g) /\ UNCHANGED store
           \/ \E s \in f.seen :
                /\ \/ attempt_transition(f.r, s[1], s[2], "prepared", "failed")
                   \/ UNCHANGED store
                /\ Step(a, h(s))
    BY Zenon DEF RecoverPrepared, RecoverPc
  <2>2. FrameType(f) /\ TypeOK /\ f.r \in Runs
    BY <2>1, <1>OwnRecovery, Zenon
  <2>3. CASE Step(a, g) /\ UNCHANGED store
    <3>1. FrameType(g) /\ g.pc = "recoverUncertain" /\ g.r = f.r /\ g.list = f.list /\ g.pend = f.pend
      BY <2>2, BlankFields, Zenon DEF FrameType
    <3>. HIDE DEF g
    <3>. QED BY <2>1, <2>2, <2>3, <3>1, <1>RecoverMoves, Quiet, Zenon DEF Does, RecoverPc
  <2>4. ASSUME NEW s \in f.seen, Step(a, h(s)),
               attempt_transition(f.r, s[1], s[2], "prepared", "failed") \/ UNCHANGED store
        PROVE  Does(a)
    <3>1. s[1] \in Cases
      BY <2>2, <2>4, Zenon DEF FrameType
    <3>2. Writes
      BY <2>2, <2>4, <3>1, AbandonWrites, Quiet, Zenon
    <3>. DEFINE k == h(s)
    <3>3. FrameType(k) /\ k.pc = f.pc /\ k.r = f.r /\ k.list = f.list /\ k.pend = f.pend
      BY <2>2, BlankFields, Zenon DEF FrameType
    <3>4. Step(a, k)
      BY <2>4, Zenon
    <3>. HIDE DEF k
    <3>. QED BY <2>1, <2>2, <3>2, <3>3, <3>4, <1>RecoverMoves, Zenon DEF Does
  <2>. QED BY <2>1, <2>3, <2>4, Zenon

<1>RecoverUncertainDoes. ASSUME RecoverUncertain(a) PROVE Does(a)
  <2>. USE <1>RecoverUncertainDoes
  <2>. DEFINE f == fr[a]
              seen == Slots(f.r, "dispatching")
              g == [f EXCEPT !.pc = "recoverQuarantine"]
              h == [f EXCEPT !.pc = "recoverSafe", !.seen = seen]
  <2>1. /\ f.pc = "recoverUncertain" /\ f.pc \in RecoverPc \ {"recover", "requeue"} /\ UNCHANGED store
        /\ NextRecovered(a) \/ Step(a, g) \/ (f.r \in SafeRuns /\ Step(a, h))
    BY Zenon DEF RecoverUncertain, RecoverPc
  <2>2. FrameType(f) /\ TypeOK /\ f.r \in Runs
    BY <2>1, <1>OwnRecovery, Zenon
  <2>3. FrameType(g) /\ g.pc = "recoverQuarantine" /\ g.r = f.r /\ g.list = f.list /\ g.pend = f.pend
    BY <2>2, BlankFields, Zenon DEF FrameType
  <2>4. seen \subseteq Cases \X Nat
    BY <2>2, <1>SlotsType, Zenon
  <2>. HIDE DEF seen
  <2>5. FrameType(h) /\ h.pc = "recoverSafe" /\ h.r = f.r /\ h.list = f.list /\ h.pend = f.pend
    BY <2>2, <2>4, BlankFields, Zenon DEF FrameType
  <2>. HIDE DEF g, h
  <2>6. CASE NextRecovered(a)
    BY <2>1, <2>6, <1>NextRecoveredMoves, Quiet, Zenon DEF Does
  <2>7. CASE Step(a, g)
    BY <2>1, <2>2, <2>3, <2>7, <1>RecoverMoves, Quiet, Zenon DEF Does, RecoverPc
  <2>8. CASE f.r \in SafeRuns /\ Step(a, h)
    BY <2>1, <2>2, <2>5, <2>8, <1>RecoverMoves, Quiet, Zenon DEF Does, RecoverPc
  <2>. QED BY <2>1, <2>6, <2>7, <2>8, Zenon

<1>RecoverSafeDoes. ASSUME RecoverSafe(a) PROVE Does(a)
  <2>. USE <1>RecoverSafeDoes
  <2>. DEFINE f == fr[a]
              h(s) == [f EXCEPT !.seen = f.seen \ {s}]
  <2>1. /\ f.pc = "recoverSafe" /\ f.pc \in RecoverPc \ {"recover", "requeue"}
        /\ \/ NextRecovered(a) /\ UNCHANGED store
           \/ Die(a) /\ UNCHANGED store
           \/ \E s \in f.seen : /\ attempt_transition(f.r, s[1], s[2], "dispatching", "failed")
                                 /\ Step(a, h(s))
    BY Zenon DEF RecoverSafe, RecoverPc
  <2>2. FrameType(f) /\ TypeOK /\ f.r \in Runs /\ f.r \in SafeRuns
    BY <2>1, <1>OwnRecovery, Zenon
  <2>3. CASE NextRecovered(a) /\ UNCHANGED store
    BY <2>1, <2>3, <1>NextRecoveredMoves, Quiet, Zenon DEF Does
  <2>4. ASSUME NEW s \in f.seen, Step(a, h(s)),
               attempt_transition(f.r, s[1], s[2], "dispatching", "failed")
        PROVE  Does(a)
    <3>1. s[1] \in Cases
      BY <2>2, <2>4, Zenon DEF FrameType
    <3>2. /\ s[2] \in DOMAIN attempts[f.r][s[1]] /\ attempts[f.r][s[1]][s[2]] = "dispatching"
          /\ Advance(f.r, s[1], s[2], "failed") /\ UNCHANGED <<run, rows, passes>>
      BY <2>4, Zenon DEF attempt_transition
    <3>3. "failed" \in AttemptStatus \ {"succeeded"}
      BY Zenon DEF AttemptStatus
    <3>4. CaseStep(f.r, s[1])
      BY <2>4, <3>2, <3>3, Zenon DEF CaseStep
    <3>5. RowsKept
      BY <3>2, UnchangedKept, Zenon
    <3>6. Writes
      BY <2>2, <3>1, <3>2, <3>3, <3>4, <3>5, AdvanceWrites, Zenon
    <3>. DEFINE k == h(s)
    <3>7. FrameType(k) /\ k.pc = f.pc /\ k.r = f.r /\ k.list = f.list /\ k.pend = f.pend
      BY <2>2, BlankFields, Zenon DEF FrameType
    <3>8. Step(a, k)
      BY <2>4, Zenon
    <3>. HIDE DEF k
    <3>. QED BY <2>1, <2>2, <3>6, <3>7, <3>8, <1>RecoverMoves, Zenon DEF Does
  <2>. QED BY <2>1, <2>3, <2>4, QuietLeave, Zenon

<1>RecoverQuarantineDoes. ASSUME RecoverQuarantine(a) PROVE Does(a)
  <2>. USE <1>RecoverQuarantineDoes
  <2>. DEFINE f == fr[a]
              s == f.list[f.r]
  <2>1. /\ f.pc \in RecoverPc \ {"recover", "requeue"}
        /\ \/ quarantine_indeterminate(f.r, s.revision, s.status) /\ NextRecovered(a)
           \/ Die(a) /\ UNCHANGED store
    BY Zenon DEF RecoverQuarantine, RecoverPc
  <2>2. TypeOK /\ f.r \in Runs
    BY <2>1, <1>OwnRecovery, Zenon
  <2>3. CASE quarantine_indeterminate(f.r, s.revision, s.status) /\ NextRecovered(a)
    BY <2>1, <2>2, <2>3, QuarantineWrites, <1>NextRecoveredMoves, Zenon DEF Does
  <2>. QED BY <2>1, <2>3, QuietLeave, Zenon

<1>RequeueDoes. ASSUME Requeue(a) PROVE Does(a)
  BY <1>RequeueDoes, RequeueWrites, LeaveMoves, Zenon DEF Requeue, Does, WorkerInv, StoreInv

<1>BuildDoes. ASSUME Build(a) PROVE Does(a)
  <2>. USE <1>BuildDoes
  <2>1. PICK pc \in {"execute", "unsupported"} :
          Active(fr[a]) /\ UNCHANGED store /\ Step(a, [fr[a] EXCEPT !.pc = pc])
    BY Zenon DEF Build, Active, Resting, RecoverPc
  <2>. DEFINE g == [fr[a] EXCEPT !.pc = pc]
  <2>2. FrameType(g) /\ g.r = fr[a].r /\ g.pend = fr[a].pend /\ g.pc = pc
    BY <2>1, Own, BlankFields, Zenon DEF FrameType
  <2>3. Step(a, g)
    BY <2>1, Zenon
  <2>. HIDE DEF g
  <2>. QED BY <2>1, <2>2, <2>3, QuietPlain, PlainPcs, Zenon
<1>. QED BY <1>RecoverRunDoes, <1>RecoverPreparedDoes, <1>RecoverUncertainDoes, <1>RecoverSafeDoes,
           <1>RecoverQuarantineDoes, <1>RequeueDoes, <1>BuildDoes, Zenon

LEMMA StartDoes ==
  ASSUME WorkerInv, NEW a \in Workers, Start(a) PROVE Does(a)
<1>. DEFINE g == [Blank("recover") EXCEPT !.list = run, !.r = 1]
<1>1. /\ fr' = [fr EXCEPT ![a] = g] /\ lock' = a /\ UNCHANGED store /\ run \in [Runs -> RunRecord]
      /\ 1 \in 0..(NRuns + 1)
  BY NRunsAssumption DEF Start, WorkerInv, StoreInv, TypeOK
<1>2. FrameType(g) /\ g.pc = "recover" /\ g.list = run /\ g.pend = {}
  BY <1>1, BlankFields, Zenon DEF FrameType
<1>. HIDE DEF g
<1>3. Going(g) /\ Knows(g, run) /\ g.pc \in RecoverPc
  BY <1>2, Zenon DEF Going, Knows, RecoverPc, CasePc, HonorPc, TransitionPc, AppendPc
<1>4. Frame(g, run) /\ Follows(fr[a], g)
  BY <1>1, <1>2, <1>3, Zenon DEF Frame, Control, Follows
<1>5. Moves(a)
  BY <1>1, <1>4, Zenon DEF Moves
<1>. QED BY <1>1, <1>5, Quiet, Zenon DEF Does

-----------------------------------------------------------------------------
(* The invariant is kept: the records of the others stay right while the     *)
(* Runs only move on.                                                        *)
LEMMA WritesInv ==
  ASSUME StoreInv, Writes
  PROVE  StoreInv' /\ RevisionCounts
<1>1. [StoreNext]_store
  BY Zenon DEF Writes
<1>2. StoreInv'
  BY <1>1, StepInv, Zenon
<1>3. RevisionCounts
  <2>1. CASE UNCHANGED store
    BY <2>1, UnchangedKept, Zenon DEF store
  <2>2. CASE requeue_interrupted
    BY <2>2, Zenon DEF requeue_interrupted, RevisionCounts
  <2>3. ASSUME NEW r \in Runs, RunStep(r) \/ PassStep(r) \/ \E c \in Cases : CaseStep(r, c)
        PROVE  RevisionCounts
    <3>1. NothingRewritten
      BY <2>3, RunStepKept, PassStepKept, CaseStepKept, Zenon
    <3>. QED BY <3>1, Zenon DEF NothingRewritten, RevisionCounts
  <2>. QED BY <1>1, <2>1, <2>2, <2>3, Zenon DEF StoreNext
<1>. QED BY <1>2, <1>3, Zenon

LEMMA FrameKept ==
  ASSUME StoreInv, Writes, NEW f, Frame(f, run)
  PROVE  Frame(f, run')
<1>1. StoreInv' /\ RevisionCounts
  BY WritesInv, Zenon
<1>2. ASSUME NEW r \in Runs
      PROVE  /\ run[r].status # "absent" => run'[r].status # "absent"
             /\ run[r].revision \in Nat /\ run'[r].revision \in Nat
             /\ run'[r] = run[r] \/ run'[r].revision = run[r].revision + 1
  <2>1. run[r].revision \in Nat /\ run'[r].revision \in Nat
    BY <1>1, Zenon DEF StoreInv, TypeOK, RunRecord
  <2>2. run'[r] = run[r] \/ run'[r].revision = run[r].revision + 1
    BY <1>1, Zenon DEF RevisionCounts
  <2>3. run'[r].status = "absent" => run'[r].revision = 0
    BY <1>1, Zenon DEF StoreInv, AbsentIsBlank, Created
  <2>. QED BY <2>1, <2>2, <2>3
<1>3. f.snap.revision \in Nat
  BY Zenon DEF Frame, FrameType, RunRecord
<1>4. Knows(f, run')
  <2>1. Knows(f, run)
    BY Zenon DEF Frame
  <2>2. CASE f.pc \in Resting \cup RecoverPc
    BY <2>2, Zenon DEF Knows, Resting, RecoverPc
  <2>3. CASE f.pc \notin Resting \cup RecoverPc
    <3>1. f.r \in Runs /\ run[f.r].status # "absent"
      BY <2>1, <2>3, Zenon DEF Knows
    <3>2. /\ run'[f.r].status # "absent"
          /\ run[f.r].revision \in Nat /\ run'[f.r].revision \in Nat
          /\ run'[f.r] = run[f.r] \/ run'[f.r].revision = run[f.r].revision + 1
      BY <1>2, <3>1, Zenon
    <3>. QED BY <1>3, <2>1, <3>1, <3>2 DEF Knows
  <2>. QED BY <2>2, <2>3, Zenon
<1>. QED BY <1>4, Zenon DEF Frame

LEMMA TurnsInv ==
  ASSUME WorkerInv, NEW a \in Actors, Turns(a), Writes
  PROVE  WorkerInv'
<1>1. StoreInv'
  BY WritesInv, Zenon DEF WorkerInv
<1>2. PICK g : fr' = [fr EXCEPT ![a] = g] /\ Frame(g, run) /\ lock' \in Workers \cup {NoActor}
  BY Zenon DEF Turns
<1>3. DOMAIN fr = Actors /\ DOMAIN fr' = Actors
  BY <1>2, Zenon DEF WorkerInv, ActorsInv
<1>4. ASSUME NEW b \in Actors PROVE Frame(fr'[b], run')
  <2>1. fr'[b] = IF b = a THEN g ELSE fr[b]
    BY <1>2, <1>3, Zenon
  <2>2. Frame(fr'[b], run)
    BY <1>2, <2>1, Zenon DEF WorkerInv, ActorsInv
  <2>. QED BY <2>2, FrameKept, Zenon DEF WorkerInv
<1>. QED BY <1>1, <1>2, <1>3, <1>4, Zenon DEF WorkerInv, ActorsInv

LEMMA MovesTurns == ASSUME NEW a, Moves(a) PROVE Turns(a)
BY Zenon DEF Moves, Turns

(* A step in which no actor moves. *)
LEMMA StillInv ==
  ASSUME WorkerInv, UNCHANGED fr, lock' \in Workers \cup {NoActor}, Writes
  PROVE  WorkerInv'
<1>1. StoreInv'
  BY WritesInv, Zenon DEF WorkerInv
<1>2. ASSUME NEW b \in Actors PROVE Frame(fr'[b], run')
  BY FrameKept, Zenon DEF WorkerInv, ActorsInv
<1>. QED BY <1>1, <1>2, Zenon DEF WorkerInv, ActorsInv

(* A Worker takes the oldest queued Run, a client a Run it names. *)
LEMMA BeginsFrame ==
  ASSUME NEW g, FrameType(g), g.pend = {}, g.to = "none", g.r \in Runs, run[g.r].status # "absent",
         Plain(g.pc) \/ g.pc = "rescore"
  PROVE  Frame(g, run) /\ g.pc \notin {"invoke", "calling"}
<1>1. Going(g)
  BY Zenon DEF Going, Plain, CasePc, HonorPc, TransitionPc, AppendPc
<1>2. g.pc \notin RecoverPc \cup Resting /\ g.pc # "recoverSafe" /\ g.pc \notin {"invoke", "calling"}
  BY Zenon DEF Plain, Resting, RecoverPc, CasePc
<1>3. g.pc \notin {"appendPrevious", "appendCommit"}
  BY Zenon DEF Plain, AppendPc
<1>4. Control(g) /\ Knows(g, run)
  BY <1>1, <1>2, <1>3, Zenon DEF Control, Knows
<1>. QED BY <1>2, <1>4, Zenon DEF Frame

-----------------------------------------------------------------------------
(* The step begins no provider call. *)
Kept == UNCHANGED calls

(* execute and _execute_benchmark: all but the steps around a call keep the calls. *)
LEMMA ExecutionDoes ==
  ASSUME WorkerInv, NEW a \in Actors, ExecuteStep(a)
  PROVE  \/ Does(a) /\ Kept
         \/ Invoke(a) \/ CallFailsTransiently(a) \/ CalledAgain(a)

<1>ExecuteDoes. ASSUME Execute(a) PROVE Does(a)
  <2>. USE <1>ExecuteDoes
  <2>. DEFINE g == [fr[a] EXCEPT !.pc = "toRunning"]
  <2>1. /\ Active(fr[a]) /\ UNCHANGED store
        /\ \/ Leave(a) \/ Die(a) \/ Step(a, g)
           \/ Step(a, Transition(fr[a], "preparing", "toRunning"))
    BY Zenon DEF Execute, Active, Resting, RecoverPc
  <2>2. FrameType(g) /\ g.r = fr[a].r /\ g.pend = fr[a].pend /\ g.pc = "toRunning"
    BY <2>1, Own, BlankFields, Zenon DEF FrameType
  <2>. HIDE DEF g
  <2>. QED BY <2>1, <2>2, QuietLeave, QuietTransition, QuietPlain, PlainPcs, Zenon

<1>ToRunningDoes. ASSUME ToRunning(a) PROVE Does(a)
  <2>. USE <1>ToRunningDoes
  <2>. DEFINE g == [fr[a] EXCEPT !.pc = "rows"]
  <2>1. /\ Active(fr[a]) /\ UNCHANGED store
        /\ Step(a, g) \/ Step(a, Transition(fr[a], "running", "rows"))
    BY Zenon DEF ToRunning, Active, Resting, RecoverPc
  <2>2. FrameType(g) /\ g.r = fr[a].r /\ g.pend = fr[a].pend /\ g.pc = "rows"
    BY <2>1, Own, BlankFields, Zenon DEF FrameType
  <2>. HIDE DEF g
  <2>. QED BY <2>1, <2>2, QuietTransition, QuietPlain, PlainPcs, Zenon

<1>RowsDoes. ASSUME Rows(a) PROVE Does(a)
  <2>. USE <1>RowsDoes
  <2>. DEFINE stop == Bench(a) /\ \E c \in Cases : rows[fr[a].r][c] = "stop"
              g == [fr[a] EXCEPT !.pc = "loop", !.done = Persisted(fr[a].r), !.stop = stop]
  <2>1. Active(fr[a]) /\ UNCHANGED store /\ Step(a, g)
    BY Zenon DEF Rows, Active, Resting, RecoverPc
  <2>2. stop \in BOOLEAN /\ Persisted(fr[a].r) \subseteq Cases
    BY Zenon DEF Persisted
  <2>. HIDE DEF stop
  <2>3. FrameType(g) /\ g.r = fr[a].r /\ g.pend = fr[a].pend /\ g.pc = "loop"
    BY <2>1, <2>2, Own, BlankFields, Zenon DEF FrameType
  <2>. HIDE DEF g
  <2>. QED BY <2>1, <2>3, QuietPlain, PlainPcs, Zenon

<1>QuietCheckpoint.
  ASSUME Active(fr[a]), UNCHANGED store, NEW h, FrameType(h),
         h.r = fr[a].r, h.pend \subseteq fr[a].pend, NEW ret \in HonorRet \ {"append"},
         ret \in CasePc => h.c \in Cases, NEW exc \in {"die", "foq"},
         Step(a, Checkpoint(h, ret, exc))
  PROVE  Does(a)
  <2>. USE <1>QuietCheckpoint
  <2>1. Frame(Checkpoint(h, ret, exc), run) /\ Follows(fr[a], Checkpoint(h, ret, exc))
    BY Own, CheckpointFrame, Zenon
  <2>. QED BY <2>1, Own, StepMoves, Quiet, Zenon DEF Does

<1>LoopDoes. ASSUME Loop(a) PROVE Does(a)
  <2>. USE <1>LoopDoes
  <2>. DEFINE f == fr[a]
              left == {c \in Cases \ f.done : c >= f.c}
              h == [f EXCEPT !.c = Min(left)]
              k == [f EXCEPT !.done = {}]
  <2>1. PICK ret \in {"skip", "beginLoad"}, end \in {"sweep", "results"}, exc \in {"die", "foq"} :
          /\ Active(f) /\ UNCHANGED store
          /\ \/ left # {} /\ Step(a, Checkpoint(h, ret, exc))
             \/ Step(a, Checkpoint(k, end, "die"))
    BY Zenon DEF Loop, Active, Resting, RecoverPc
  <2>2. FrameType(f)
    BY <2>1, Own, Zenon
  <2>3. CASE left # {} /\ Step(a, Checkpoint(h, ret, exc))
    <3>1. left \in SUBSET Nat /\ left \subseteq Cases
      BY NCasesAssumption DEF Cases
    <3>2. Min(left) \in Cases /\ Min(left) \in Nat
      BY <2>3, <3>1, MinIn, Zenon
    <3>. HIDE DEF left
    <3>3. FrameType(h) /\ h.r = f.r /\ h.pend = f.pend /\ h.c \in Cases
      BY <2>2, <3>2, BlankFields, Zenon DEF FrameType
    <3>4. ret \in HonorRet \ {"append"}
      BY Zenon DEF HonorRet
    <3>. HIDE DEF h
    <3>. QED BY <2>1, <2>3, <3>3, <3>4, <1>QuietCheckpoint, Zenon
  <2>4. CASE Step(a, Checkpoint(k, end, "die"))
    <3>1. FrameType(k) /\ k.r = f.r /\ k.pend = f.pend
      BY <2>2, BlankFields, Zenon DEF FrameType
    <3>2. end \in HonorRet \ {"append"} /\ end \notin CasePc
      BY Zenon DEF HonorRet, CasePc
    <3>. HIDE DEF k
    <3>. QED BY <2>1, <2>4, <3>1, <3>2, <1>QuietCheckpoint, Zenon
  <2>. QED BY <2>1, <2>3, <2>4, Zenon

(* On to the next Case. *)
<1>NextCaseFrame.
  ASSUME Active(fr[a]), NEW h, FrameType(h),
         h.r = fr[a].r, h.pend \subseteq fr[a].pend, NextCase(a, h)
  PROVE  Moves(a)
  <2>. USE <1>NextCaseFrame
  <2>. DEFINE g == [h EXCEPT !.pc = "loop", !.c = h.c + 1]
  <2>1. FrameType(g) /\ g.r = h.r /\ g.pend = h.pend /\ g.pc = "loop"
    BY BlankFields DEF FrameType
  <2>2. Step(a, g)
    BY Zenon DEF NextCase
  <2>. HIDE DEF g
  <2>3. Frame(g, run) /\ Follows(fr[a], g)
    BY <2>1, Own, PlainFrame, PlainPcs, Zenon
  <2>. QED BY <2>2, <2>3, Own, StepMoves, Zenon

<1>SkipDoes. ASSUME Skip(a) PROVE Does(a)
  <2>. USE <1>SkipDoes
  <2>1. fr[a].pc \in CasePc /\ upsert(fr[a].r, fr[a].c, "skipped") /\ NextCase(a, fr[a])
    BY Zenon DEF Skip, CasePc
  <2>2. Active(fr[a]) /\ fr[a].c \in Cases
    BY <2>1, OwnCase, Zenon
  <2>3. Writes
    BY <2>1, <2>2, Own, UpsertWrites, Zenon DEF RowKind
  <2>4. Moves(a)
    BY <2>1, <2>2, Own, <1>NextCaseFrame, Zenon
  <2>. QED BY <2>3, <2>4, Zenon DEF Does

<1>OwnHonor.
  ASSUME fr[a].pc \in HonorPc
  PROVE  /\ Active(fr[a]) /\ fr[a].ret \in HonorRet
         /\ fr[a].ret \in CasePc => fr[a].c \in Cases
         /\ fr[a].ret = "append" => fr[a].src = "initial" /\ fr[a].to \in TERMINAL
  <2>. USE <1>OwnHonor
  <2>1. Active(fr[a])
    BY Zenon DEF Active, Resting, RecoverPc, HonorPc
  <2>. QED BY <2>1, Own, Zenon DEF Frame, Control, Going

<1>CancelCheckpointDoes. ASSUME CancelCheckpoint(a) PROVE Does(a)
  <2>. USE <1>CancelCheckpointDoes
  <2>. DEFINE f == fr[a]
  <2>1. PICK pc \in {"settle", "honor"} :
          f.pc \in HonorPc /\ UNCHANGED store /\ Step(a, [f EXCEPT !.pc = pc])
    BY Zenon DEF CancelCheckpoint, HonorPc
  <2>. DEFINE g == [f EXCEPT !.pc = pc]
  <2>2. FrameType(f) /\ Frame(f, run)
    BY <2>1, <1>OwnHonor, Own, Zenon
  <2>3. /\ FrameType(g) /\ g.r = f.r /\ g.pend = f.pend /\ g.pc \in HonorPc
        /\ g.ret = f.ret /\ g.c = f.c /\ g.src = f.src /\ g.to = f.to
    BY <2>2, BlankFields, Zenon DEF FrameType, HonorPc
  <2>4. Step(a, g)
    BY <2>1, Zenon
  <2>. HIDE DEF g
  <2>5. Frame(g, run) /\ Follows(f, g)
    BY <2>1, <2>2, <2>3, <1>OwnHonor, HonorFrame, Zenon
  <2>. QED BY <2>1, <2>4, <2>5, <1>OwnHonor, Own, StepMoves, Quiet, Zenon DEF Does

<1>SettlePendingDoes. ASSUME SettlePending(a) PROVE Does(a)
  <2>. USE <1>SettlePendingDoes
  <2>. DEFINE f == fr[a]
              c == Min(f.pend)
              g == [f EXCEPT !.pc = "honor"]
              h == [f EXCEPT !.pend = f.pend \ {c}]
  <2>1. /\ f.pc \in HonorPc /\ f.pc = "settle"
        /\ \/ Step(a, g) /\ UNCHANGED store
           \/ f.pend # {} /\ complete(f.r, c, f.att[c], "failed", "error") /\ Step(a, h)
           \/ Raise(a) /\ UNCHANGED store
    BY Zenon DEF SettlePending, HonorPc
  <2>2. FrameType(f) /\ Frame(f, run) /\ Active(f) /\ f.r \in Runs /\ TypeOK
    BY <2>1, <1>OwnHonor, Own, Zenon
  <2>3. CASE Step(a, g) /\ UNCHANGED store
    <3>1. /\ FrameType(g) /\ g.r = f.r /\ g.pend = f.pend /\ g.pc \in HonorPc
          /\ g.ret = f.ret /\ g.c = f.c /\ g.src = f.src /\ g.to = f.to
      BY <2>2, BlankFields, Zenon DEF FrameType, HonorPc
    <3>. HIDE DEF g
    <3>2. Frame(g, run) /\ Follows(f, g)
      BY <2>1, <2>2, <3>1, <1>OwnHonor, HonorFrame, Zenon
    <3>. QED BY <2>2, <2>3, <3>2, Own, StepMoves, Quiet, Zenon DEF Does
  <2>4. CASE f.pend # {} /\ complete(f.r, c, f.att[c], "failed", "error") /\ Step(a, h)
    <3>1. f.pend \in SUBSET Nat /\ f.pend \subseteq Cases
      BY <2>2, NCasesAssumption DEF FrameType, Cases
    <3>2. c \in Cases
      BY <2>4, <3>1, MinIn, Zenon
    <3>. HIDE DEF c
    <3>3. /\ FrameType(h) /\ h.r = f.r /\ h.pend \subseteq f.pend /\ h.pc \in HonorPc
          /\ h.ret = f.ret /\ h.c = f.c /\ h.src = f.src /\ h.to = f.to
      BY <2>1, <2>2, BlankFields, Zenon DEF FrameType
    <3>4. Writes
      BY <2>2, <2>4, <3>2, RowKinds, CompleteWrites, Zenon
    <3>. HIDE DEF h
    <3>5. Frame(h, run) /\ Follows(f, h)
      BY <2>1, <2>2, <3>3, <1>OwnHonor, HonorFrame, Zenon
    <3>. QED BY <2>2, <2>4, <3>4, <3>5, Own, StepMoves, Zenon DEF Does
  <2>5. CASE Raise(a) /\ UNCHANGED store
    BY <2>2, <2>5, QuietRaise, Zenon
  <2>. QED BY <2>1, <2>3, <2>4, <2>5, Zenon

<1>RespondDoes. ASSUME Respond(a) PROVE Does(a)
  <2>. USE <1>RespondDoes
  <2>. DEFINE f == fr[a]
  <2>1. /\ f.pc \in CasePc
        /\ \/ complete(f.r, f.c, f.att[f.c], "succeeded", "ok") /\ NextCase(a, f)
           \/ Raise(a) /\ UNCHANGED store
    BY Zenon DEF Respond, CasePc
  <2>2. Active(f) /\ f.c \in Cases /\ f.r \in Runs /\ FrameType(f) /\ TypeOK
    BY <2>1, OwnCase, Own, Zenon
  <2>3. CASE complete(f.r, f.c, f.att[f.c], "succeeded", "ok") /\ NextCase(a, f)
    <3>1. Writes
      BY <2>2, <2>3, RowKinds, CompleteWrites, Zenon
    <3>2. Moves(a)
      BY <2>2, <2>3, <1>NextCaseFrame, Zenon
    <3>. QED BY <3>1, <3>2, Zenon DEF Does
  <2>. QED BY <2>1, <2>2, <2>3, QuietRaise, Zenon

<1>CallFailsDoes. ASSUME CallFails(a) PROVE Does(a)
  <2>. USE <1>CallFailsDoes
  <2>. DEFINE f == fr[a]
              h == [f EXCEPT !.stop = TRUE]
              g == Honor(f, "beginRaise", "foq")
  <2>1. /\ f.pc \in CasePc
        /\ \/ /\ \E kind \in {"stop", "error"} : complete(f.r, f.c, f.att[f.c], "failed", kind)
              /\ NextCase(a, h) \/ Step(a, g)
           \/ Raise(a) /\ UNCHANGED store
    BY Zenon DEF CallFails, CasePc
  <2>2. Active(f) /\ f.c \in Cases /\ f.r \in Runs /\ FrameType(f) /\ TypeOK
    BY <2>1, OwnCase, Own, Zenon
  <2>3. CASE /\ \E kind \in {"stop", "error"} : complete(f.r, f.c, f.att[f.c], "failed", kind)
             /\ NextCase(a, h) \/ Step(a, g)
    <3>1. Writes
      BY <2>2, <2>3, CompleteWrites, Zenon DEF RowKind
    <3>2. CASE NextCase(a, h)
      <4>1. FrameType(h) /\ h.r = f.r /\ h.pend = f.pend
        BY <2>2, BlankFields, Zenon DEF FrameType
      <4>. HIDE DEF h
      <4>. QED BY <2>2, <3>1, <3>2, <4>1, <1>NextCaseFrame, Zenon DEF Does
    <3>3. CASE Step(a, g)
      <4>1. /\ FrameType(g) /\ g.r = f.r /\ g.pend = f.pend /\ g.pc \in HonorPc
            /\ g.ret = "beginRaise"
        BY <2>2, BlankFields, Zenon DEF FrameType, Honor, HonorPc
      <4>. HIDE DEF g
      <4>2. Frame(g, run) /\ Follows(f, g)
        BY <2>2, <4>1, Own, HonorFrame, Zenon DEF HonorRet, CasePc
      <4>. QED BY <2>2, <3>1, <3>3, <4>2, Own, StepMoves, Zenon DEF Does
    <3>. QED BY <2>3, <3>2, <3>3, Zenon
  <2>. QED BY <2>1, <2>2, <2>3, QuietRaise, Zenon

<1>CallQuarantinedDoes. ASSUME CallQuarantined(a) \/ ScoreRaises(a) PROVE Does(a)
  <2>. USE <1>CallQuarantinedDoes
  <2>. DEFINE g == [fr[a] EXCEPT !.pc = "foq"]
  <2>1. Active(fr[a]) /\ UNCHANGED store /\ Step(a, g)
    BY Zenon DEF CallQuarantined, ScoreRaises, Active, Resting, RecoverPc
  <2>2. FrameType(g) /\ g.r = fr[a].r /\ g.pend = fr[a].pend /\ g.pc = "foq"
    BY <2>1, Own, BlankFields, Zenon DEF FrameType
  <2>. HIDE DEF g
  <2>. QED BY <2>1, <2>2, QuietPlain, PlainPcs, Zenon

<1>SweepDoes. ASSUME Sweep(a) PROVE Does(a)
  <2>. USE <1>SweepDoes
  <2>. DEFINE f == fr[a]
              h == [f EXCEPT !.c = Min(f.pend)]
  <2>1. /\ Active(f) /\ UNCHANGED store
        /\ \/ Step(a, Transition(f, "collecting", "collected"))
           \/ f.pend # {} /\ Step(a, Checkpoint(h, "second", "die"))
    BY Zenon DEF Sweep, Active, Resting, RecoverPc
  <2>2. FrameType(f)
    BY <2>1, Own, Zenon
  <2>3. CASE Step(a, Transition(f, "collecting", "collected"))
    BY <2>1, <2>3, QuietTransition, Zenon
  <2>4. CASE f.pend # {} /\ Step(a, Checkpoint(h, "second", "die"))
    <3>1. f.pend \in SUBSET Nat /\ f.pend \subseteq Cases
      BY <2>2, NCasesAssumption DEF FrameType, Cases
    <3>2. Min(f.pend) \in Cases /\ Min(f.pend) \in Nat
      BY <2>4, <3>1, MinIn, Zenon
    <3>3. FrameType(h) /\ h.r = f.r /\ h.pend = f.pend /\ h.c \in Cases
      BY <2>2, <3>2, BlankFields, Zenon DEF FrameType
    <3>4. "second" \in HonorRet \ {"append"}
      BY Zenon DEF HonorRet
    <3>. HIDE DEF h
    <3>. QED BY <2>1, <2>4, <3>3, <3>4, <1>QuietCheckpoint, Zenon
  <2>. QED BY <2>1, <2>3, <2>4, Zenon

<1>SecondOutcomeDoes. ASSUME SecondOutcome(a) PROVE Does(a)
  <2>. USE <1>SecondOutcomeDoes
  <2>. DEFINE f == fr[a]
              g == [f EXCEPT !.pc = "sweep"]
  <2>1. /\ f.pc \in CasePc
        /\ \/ /\ \/ complete(f.r, f.c, f.att[f.c], "succeeded", "ok")
                 \/ complete(f.r, f.c, f.att[f.c], "failed", "stop")
              /\ Step(a, g)
           \/ Die(a) /\ UNCHANGED store
    BY Zenon DEF SecondOutcome, CasePc
  <2>2. Active(f) /\ f.c \in Cases /\ f.r \in Runs /\ FrameType(f) /\ TypeOK
    BY <2>1, OwnCase, Own, Zenon
  <2>3. CASE /\ \/ complete(f.r, f.c, f.att[f.c], "succeeded", "ok")
                \/ complete(f.r, f.c, f.att[f.c], "failed", "stop")
             /\ Step(a, g)
    <3>1. Writes
      BY <2>2, <2>3, RowKinds, CompleteWrites, Zenon
    <3>2. FrameType(g) /\ g.r = f.r /\ g.pend = f.pend /\ g.pc = "sweep"
      BY <2>2, BlankFields, Zenon DEF FrameType
    <3>. HIDE DEF g
    <3>3. Frame(g, run) /\ Follows(f, g)
      BY <2>2, <3>2, Own, PlainFrame, PlainPcs, Zenon
    <3>. QED BY <2>2, <2>3, <3>1, <3>3, Own, StepMoves, Zenon DEF Does
  <2>. QED BY <2>1, <2>2, <2>3, QuietLeave, Zenon

<1>ResultsDoes. ASSUME Results(a) PROVE Does(a)
  <2>. USE <1>ResultsDoes
  <2>. DEFINE f == fr[a]
              h == [f EXCEPT !.done = Persisted(f.r)]
              g == Transition(h, "collecting", "collected")
  <2>1. Active(f) /\ UNCHANGED store /\ Step(a, g)
    BY Zenon DEF Results, Active, Resting, RecoverPc
  <2>2. FrameType(f)
    BY <2>1, Own, Zenon
  <2>3. FrameType(h) /\ h.r = f.r /\ h.pend = f.pend
    BY <2>2, BlankFields, Zenon DEF FrameType, Persisted
  <2>. HIDE DEF h
  <2>4. FrameType(g) /\ g.r = f.r /\ g.pend = f.pend /\ g.pc = "transition" /\ g.ret = "collected"
    BY <2>3, BlankFields, Zenon DEF FrameType, Transition
  <2>. HIDE DEF g
  <2>5. Going(g)
    BY <2>4, Zenon DEF Going, CasePc, HonorPc, TransitionPc, AppendPc
  <2>6. Frame(g, run) /\ Follows(f, g)
    BY <2>1, <2>4, <2>5, Own, ActiveFrame, Zenon DEF Resting, RecoverPc
  <2>. QED BY <2>1, <2>6, Own, StepMoves, Quiet, Zenon DEF Does

<1>ScoreDoes. ASSUME Score(a) PROVE Does(a)
  <2>. USE <1>ScoreDoes
  <2>1. PICK done \in {Persisted(fr[a].r), fr[a].done}, final \in {"failed", "completed", "needs_review"} :
          /\ Active(fr[a]) /\ UNCHANGED store
          /\ Step(a, Honor([[fr[a] EXCEPT !.exc = "foq", !.src = "initial", !.done = done]
                              EXCEPT !.to = final], "append", "foq"))
    BY Zenon DEF Score, Active, Resting, RecoverPc
  <2>. DEFINE f == fr[a]
              e == [f EXCEPT !.exc = "foq", !.src = "initial", !.done = done]
              h == [e EXCEPT !.to = final]
              g == Honor(h, "append", "foq")
  <2>2. FrameType(f) /\ done \subseteq Cases
    BY <2>1, Own, Zenon DEF FrameType, Persisted
  <2>3. FrameType(e) /\ e.r = f.r /\ e.pend = f.pend /\ e.src = "initial"
    BY <2>2, BlankFields, Zenon DEF FrameType
  <2>4. Step(a, g)
    BY <2>1, Zenon
  <2>. HIDE DEF e
  <2>5. FrameType(h) /\ h.r = f.r /\ h.pend = f.pend /\ h.src = "initial" /\ h.to = final
    BY <2>3, BlankFields, Zenon DEF FrameType
  <2>. HIDE DEF h
  <2>6. /\ FrameType(g) /\ g.r = f.r /\ g.pend = f.pend /\ g.pc \in HonorPc /\ g.ret = "append"
        /\ g.src = "initial" /\ g.to \in TERMINAL
    BY <2>5, BlankFields, Zenon DEF FrameType, Honor, HonorPc, TERMINAL
  <2>. HIDE DEF g
  <2>7. Frame(g, run) /\ Follows(f, g)
    BY <2>1, <2>6, Own, HonorFrame, Zenon DEF HonorRet, CasePc
  <2>. QED BY <2>1, <2>4, <2>7, Own, StepMoves, Quiet, Zenon DEF Does

<1>SecondCallDoes.
  ASSUME SecondCall(a)
  PROVE  (Does(a) /\ UNCHANGED history) \/ CalledAgain(a)
  <2>. USE <1>SecondCallDoes
  <2>1. CalledAgain(a) \/ (Die(a) /\ UNCHANGED store /\ UNCHANGED history)
    BY Zenon DEF SecondCall, CalledAgain
  <2>. QED BY <2>1, QuietLeave, Zenon
<1>1. CASE \/ Execute(a) \/ ToRunning(a) \/ Rows(a) \/ Loop(a) \/ Skip(a)
           \/ CancelCheckpoint(a) \/ SettlePending(a)
  <2>1. Kept
    BY <1>1, Zenon
       DEF Kept, Execute, ToRunning, Rows, Loop, Skip, CancelCheckpoint, SettlePending, env, history
  <2>2. Does(a)
    BY <1>1, <1>ExecuteDoes, <1>ToRunningDoes, <1>RowsDoes, <1>LoopDoes, <1>SkipDoes,
       <1>CancelCheckpointDoes, <1>SettlePendingDoes
  <2>. QED BY <2>1, <2>2, Zenon
<1>2. CASE Respond(a) \/ CallFails(a) \/ CallQuarantined(a) \/ Sweep(a) \/ SecondOutcome(a)
  <2>1. Kept
    BY <1>2, Zenon DEF Kept, Respond, CallFails, CallQuarantined, Sweep, SecondOutcome, env, history
  <2>2. Does(a)
    BY <1>2, <1>RespondDoes, <1>CallFailsDoes, <1>CallQuarantinedDoes, <1>SweepDoes,
       <1>SecondOutcomeDoes, Zenon
  <2>. QED BY <2>1, <2>2, Zenon
<1>3. CASE Results(a) \/ Score(a) \/ ScoreRaises(a)
  <2>1. Kept
    BY <1>3, Zenon DEF Kept, Results, Score, ScoreRaises, env, history
  <2>2. Does(a)
    BY <1>3, <1>ResultsDoes, <1>ScoreDoes, <1>CallQuarantinedDoes, Zenon
  <2>. QED BY <2>1, <2>2, Zenon
<1>4. CASE SecondCall(a)
  <2>1. UNCHANGED history => Kept
    BY Zenon DEF history, Kept
  <2>. QED BY <1>4, <2>1, <1>SecondCallDoes, Zenon
<1>. QED BY <1>1, <1>2, <1>3, <1>4, Zenon DEF ExecuteStep

LEMMA WorkerDoes ==
  ASSUME WorkerInv, NEW w \in Workers, WorkerStep(w)
  PROVE  \/ (Does(w) \/ Dispatched(w)) /\ Kept
         \/ Invoke(w) \/ CallFailsTransiently(w) \/ CalledAgain(w)
         \/ Claim(w)
<1>. w \in Actors
  BY Zenon DEF Actors
<1>1. CASE ServiceStep(w) /\ UNCHANGED <<env, history>>
  <2>1. Kept
    BY <1>1, Zenon DEF Kept, env, history
  <2>. QED BY <1>1, <2>1, ServiceDoes, Zenon
<1>2. CASE ExecuteStep(w)
  BY <1>2, ExecutionDoes, Zenon
<1>3. CASE \/ Start(w) \/ RecoverRun(w) \/ RecoverPrepared(w) \/ RecoverUncertain(w)
           \/ RecoverSafe(w) \/ RecoverQuarantine(w) \/ Requeue(w)
  <2>1. Kept
    BY <1>3, Zenon DEF Kept, Start, RecoverRun, RecoverPrepared, RecoverUncertain, RecoverSafe,
                RecoverQuarantine, Requeue, env, history
  <2>2. Does(w)
    BY <1>3, StartDoes, RecoveryDoes, Zenon
  <2>. QED BY <2>1, <2>2, Zenon
<1>4. CASE AlreadyRunning(w)
  BY <1>4, QuietLeave, Zenon DEF AlreadyRunning, Kept, env, history
<1>5. CASE Build(w)
  <2>1. Kept
    BY <1>5, Zenon DEF Kept, Build, env, history
  <2>. QED BY <1>5, <2>1, RecoveryDoes, Zenon
<1>. QED BY <1>1, <1>2, <1>3, <1>4, <1>5, Zenon DEF WorkerStep

(* A request of an API client. *)
Asks(a) ==
  \E r \in Runs, pc \in {"cancel", "rescore", "retry", "stale"}, reason \in BOOLEAN :
    Request(a, r, pc, reason)

LEMMA ClientDoes ==
  ASSUME WorkerInv, NEW a \in Clients, ClientStep(a)
  PROVE  ((Does(a) \/ Dispatched(a)) /\ Kept) \/ Asks(a)
<1>. a \in Actors
  BY Zenon DEF Actors
<1>1. CASE ServiceStep(a) /\ UNCHANGED <<env, history>>
  <2>1. Kept
    BY <1>1, Zenon DEF Kept, env, history
  <2>. QED BY <1>1, <2>1, ServiceDoes, Zenon
<1>2. CASE \E r \in Runs : \/ \E reason \in BOOLEAN : Request(a, r, "cancel", reason)
                          \/ \E pc \in {"rescore", "retry", "stale"} : Request(a, r, pc, FALSE)
  BY <1>2, Zenon DEF Asks
<1>. QED BY <1>1, <1>2, Zenon DEF ClientStep

(* A step in which every actor stays where it is. *)
Still ==
  UNCHANGED <<fr, calls>> /\ lock' \in Workers \cup {NoActor} /\ Writes

LEMMA StillSteps ==
  ASSUME WorkerInv
  PROVE  /\ Submit \/ RestoreBackup \/ ClearGuard => Still
         /\ \A w \in Workers : Poll(w) \/ LoseLock(w) => Still
<1>. lock \in Workers \cup {NoActor} /\ TypeOK
  BY Zenon DEF WorkerInv, ActorsInv, StoreInv
<1>1. CASE Submit
  <2>1. PICK r \in Runs : create(r)
    BY <1>1, Zenon DEF Submit
  <2>2. UNCHANGED <<fr, calls, lock>>
    BY <1>1, Zenon DEF Submit, env, history
  <2>. QED BY <2>1, <2>2, CreateWrites, Zenon DEF Still
<1>2. CASE RestoreBackup \/ ClearGuard
  <2>1. UNCHANGED <<fr, calls, lock>> /\ UNCHANGED store
    BY <1>2, Zenon DEF RestoreBackup, ClearGuard, history
  <2>. QED BY <2>1, Quiet, Zenon DEF Still
<1>3. ASSUME NEW w \in Workers, Poll(w) \/ LoseLock(w) PROVE Still
  <2>1. UNCHANGED <<fr, calls>> /\ UNCHANGED store /\ lock' \in {lock, NoActor}
    BY <1>3, Zenon DEF Poll, LoseLock, vars, env, history
  <2>. QED BY <2>1, Quiet, Zenon DEF Still
<1>4. (Submit => Still) /\ (RestoreBackup \/ ClearGuard => Still)
  <2>1. Submit => Still
    BY <1>1, Zenon
  <2>2. RestoreBackup \/ ClearGuard => Still
    BY <1>2, Zenon
  <2>. QED BY <2>1, <2>2, Zenon
<1>. QED BY <1>3, <1>4, Zenon

LEMMA CrashDoes ==
  ASSUME WorkerInv, NEW w \in Workers, Crash(w)
  PROVE  Does(w) /\ Kept
<1>. w \in Actors
  BY Zenon DEF Actors
<1>. QED BY QuietLeave, Zenon DEF Crash, Kept, history

Turn(a) ==
  \/ (Does(a) \/ Dispatched(a)) /\ Kept
  \/ Invoke(a) \/ CallFailsTransiently(a) \/ CalledAgain(a)

LEMMA NextDoes ==
  ASSUME WorkerInv, Next
  PROVE  \/ Still
         \/ \E a \in Actors : Turn(a)
         \/ \E w \in Workers : Claim(w)
         \/ \E a \in Clients : Asks(a)
<1>1. ASSUME NEW w \in Workers, WorkerStep(w) \/ Poll(w) \/ Crash(w) \/ LoseLock(w)
      PROVE  Still \/ Turn(w) \/ Claim(w)
  BY <1>1, WorkerDoes, CrashDoes, StillSteps, Zenon DEF Turn
<1>2. ASSUME NEW a \in Clients, ClientStep(a) PROVE Turn(a) \/ Asks(a)
  BY <1>2, ClientDoes, Zenon DEF Turn
<1>3. Workers \subseteq Actors /\ Clients \subseteq Actors
  BY Zenon DEF Actors
<1>. QED BY <1>1, <1>2, <1>3, StillSteps, Zenon DEF Next

-----------------------------------------------------------------------------
(* What the turn of an actor writes, whichever it is. *)
LEMMA TurnTurns ==
  ASSUME WorkerInv, NEW a \in Actors, Turn(a)
  PROVE  Turns(a) /\ Writes
<1>1. Does(a) => Turns(a) /\ Writes
  BY MovesTurns, Zenon DEF Does
<1>. QED BY <1>1, DispatchedTurns, InvokeTurns, CallFailsTransientlyTurns, CalledAgainTurns, Zenon
            DEF Turn

Enters(a) ==
  /\ \E g : fr' = [fr EXCEPT ![a] = g] /\ g.pend = {} /\ g.pc \notin {"invoke", "calling"}
  /\ UNCHANGED calls

LEMMA ClaimEnters ==
  ASSUME WorkerInv, NEW w \in Workers, Claim(w)
  PROVE  Writes /\ Turns(w) /\ Enters(w)
<1>. DEFINE r == Min(Queued)
            g == [Blank("build") EXCEPT !.r = r]
<1>1. /\ UNCHANGED calls /\ claim(r) /\ fr' = [fr EXCEPT ![w] = g]
      /\ lock' = w /\ Queued # {}
  BY Zenon DEF Claim, env, history
<1>2. Queued \in SUBSET Nat /\ Queued \subseteq Runs
  BY NRunsAssumption DEF Queued, Runs
<1>3. r \in Queued
  BY <1>1, <1>2, MinIn, Zenon
<1>4. r \in Runs /\ run[r].status = "queued"
  BY <1>3, Zenon DEF Queued
<1>. HIDE DEF r
<1>5. r \in 0..(NRuns + 1) /\ Blank("build").to = "none"
  <2>1. Blank("build").to = "none"
    BY Zenon DEF Blank
  <2>2. r \in 0..(NRuns + 1)
    BY <1>4, NRunsAssumption DEF Runs
  <2>. QED BY <2>1, <2>2, Zenon
<1>6. FrameType(g) /\ g.pc = "build" /\ g.r = r /\ g.pend = {} /\ g.to = "none"
  BY <1>5, BlankFields, Zenon DEF FrameType
<1>7. Writes
  BY <1>1, <1>4, ClaimWrites, Zenon DEF WorkerInv, StoreInv
<1>. HIDE DEF g
<1>8. Frame(g, run) /\ g.pc \notin {"invoke", "calling"}
  BY <1>4, <1>6, BeginsFrame, PlainPcs, Zenon
<1>9. lock' \in Workers \cup {NoActor}
  BY <1>1, Zenon
<1>. QED BY <1>1, <1>6, <1>7, <1>8, <1>9, Zenon DEF Turns, Enters

LEMMA AsksEnters ==
  ASSUME WorkerInv, NEW a \in Clients, Asks(a)
  PROVE  Writes /\ Turns(a) /\ Enters(a)
<1>1. PICK r \in Runs, pc \in {"cancel", "rescore", "retry", "stale"}, flag \in BOOLEAN :
        Request(a, r, pc, flag)
  BY Zenon DEF Asks
<1>. DEFINE g == [Blank(pc) EXCEPT !.r = r, !.flag = flag]
<1>2. /\ Created(r) /\ fr' = [fr EXCEPT ![a] = g] /\ UNCHANGED store /\ UNCHANGED lock
      /\ UNCHANGED calls
  BY <1>1, Zenon DEF Request, history
<1>3. Plain(pc) \/ pc = "rescore"
  BY PlainPcs, Zenon
<1>4. r \in 0..(NRuns + 1) /\ Blank(pc).to = "none"
  BY NRunsAssumption DEF Runs, Blank
<1>5. FrameType(g) /\ g.pc = pc /\ g.r = r /\ g.pend = {} /\ g.to = "none"
  BY <1>4, BlankFields, Zenon DEF FrameType
<1>. HIDE DEF g
<1>6. Frame(g, run) /\ g.pc \notin {"invoke", "calling"}
  BY <1>2, <1>3, <1>5, BeginsFrame, Zenon DEF Created
<1>7. lock' \in Workers \cup {NoActor}
  BY <1>2, Zenon DEF WorkerInv, ActorsInv
<1>8. Turns(a) /\ Enters(a)
  BY <1>2, <1>5, <1>6, <1>7, Zenon DEF Turns, Enters
<1>. QED BY <1>2, <1>8, Quiet, Zenon

LEMMA NextWrites == ASSUME WorkerInv, Next PROVE WorkerInv' /\ Writes
<1>1. Workers \subseteq Actors /\ Clients \subseteq Actors
  BY Zenon DEF Actors
<1>2. CASE Still
  BY <1>2, StillInv, Zenon DEF Still
<1>3. ASSUME NEW a \in Actors, Turns(a), Writes PROVE WorkerInv' /\ Writes
  BY <1>3, TurnsInv, Zenon
<1>4. CASE \E a \in Actors : Turn(a)
  BY <1>3, <1>4, TurnTurns, Zenon
<1>5. CASE \E w \in Workers : Claim(w)
  BY <1>1, <1>3, <1>5, ClaimEnters, Zenon
<1>6. CASE \E a \in Clients : Asks(a)
  BY <1>1, <1>3, <1>6, AsksEnters, Zenon
<1>. QED BY <1>2, <1>4, <1>5, <1>6, NextDoes, Zenon

LEMMA WorkerInvInit == Init => WorkerInv
<1> SUFFICES ASSUME Init PROVE WorkerInv
  OBVIOUS
<1>1. StoreInv
  BY InitInv, Zenon DEF Init
<1>2. ASSUME NEW a \in Actors PROVE Frame(fr[a], run)
  <2>1. PICK pc \in Resting : fr[a] = Blank(pc)
    BY Zenon DEF Init, Resting
  <2>. QED BY <2>1, RestFrame, Zenon
<1>. QED BY <1>1, <1>2, Zenon DEF Init, WorkerInv, ActorsInv

LEMMA WorkerInvStep == WorkerInv /\ [Next]_vars => WorkerInv' /\ (Writes \/ UNCHANGED vars)
<1> SUFFICES ASSUME WorkerInv, [Next]_vars PROVE WorkerInv' /\ (Writes \/ UNCHANGED vars)
  OBVIOUS
<1>1. CASE Next
  BY <1>1, NextWrites, Zenon
<1>2. CASE UNCHANGED vars
  <2>1. UNCHANGED store /\ UNCHANGED fr /\ UNCHANGED lock
    BY <1>2, Zenon DEF vars
  <2>2. lock' \in Workers \cup {NoActor}
    BY <2>1, Zenon DEF WorkerInv, ActorsInv
  <2>. QED BY <1>2, <2>1, <2>2, Quiet, StillInv, Zenon
<1>. QED BY <1>1, <1>2, Zenon

(* However Workers and clients interleave, an activation record is one that  *)
(* the code can go on with, and the tables are in order.                     *)
LEMMA WorkerInvariant == Spec => []WorkerInv
BY WorkerInvInit, WorkerInvStep, PTL DEF Spec

-----------------------------------------------------------------------------
(* The locals of every service call and the tables have their types, in      *)
(* every interleaving of Workers and API clients.                            *)
THEOREM WorkerTypeCorrect == Spec => []WorkerTypeOK
<1>1. WorkerInv => WorkerTypeOK
  BY Zenon DEF WorkerInv, WorkerTypeOK, StoreInv, ActorsInv, Frame, FrameType
<1>. QED BY <1>1, WorkerInvariant, PTL

(* RunService and the Worker implement the store's specification: whatever   *)
(* a caller read before, each of its steps is one transaction of the store   *)
(* with arguments that are current, or changes nothing.                      *)
THEOREM WorkerRefinesStore == Spec => StoreSpec
<1>1. Init => StoreInit
  BY Zenon DEF Init
<1>2. WorkerInv /\ [Next]_vars => [StoreNext]_store
  <2> SUFFICES ASSUME WorkerInv, [Next]_vars PROVE [StoreNext]_store
    OBVIOUS
  <2>1. UNCHANGED vars => UNCHANGED store
    BY Zenon DEF vars
  <2>. QED BY <2>1, WorkerInvStep, Zenon DEF Writes
<1>. QED BY <1>1, <1>2, WorkerInvariant, PTL DEF Spec, StoreSpec

(* Under the service a Case never has two live, uncertain or successful      *)
(* Attempts (_begin_case_attempt and its conflicts, recovery, late answers). *)
THEOREM WorkerAttempts == Spec => []OnlyLastAttemptCounts
BY WorkerRefinesStore, OnlyLastAttempt, PTL

(* The passes the service appends form a chain, although _append_scoring_pass *)
(* reads the previous pass in a transaction of its own.                       *)
THEOREM WorkerPasses == Spec => []PassChain
BY WorkerRefinesStore, PassesChained, PTL

(* The service rewrites no row, no pass and no closed Attempt, and each of   *)
(* its changes to a Run shows in the revision.                               *)
THEOREM WorkerAppends == Spec => AppendOnly
BY WorkerRefinesStore, NothingIsRewritten, PTL

(* No claim, requeue, transition or pass takes a terminal Run back to work,  *)
(* with any number of Workers that lost the lock and do not know it.         *)
THEOREM SettledStaysSettled == Spec => NeverResurrected
<1>1. WorkerInv /\ [Next]_vars =>
        [\A r \in Runs : run[r].status \in TERMINAL => run'[r].status \in TERMINAL]_vars
  BY WorkerInvStep, Zenon DEF Writes, StaysSettled
<1>. QED BY <1>1, WorkerInvariant, PTL DEF Spec, NeverResurrected

-----------------------------------------------------------------------------
(* How often a provider is called. *)
(* The actor with record f may still begin a call of the Case without        *)
(* another dispatch, or has one open.                                        *)
Holds(f, r, c) ==
  f.r = r /\ (c \in f.pend \/ (f.pc \in {"invoke", "calling"} /\ f.c = c))

(* How often a Case was called, by what the store and the actors know of it. *)
(* Nobody holds a Case that can be dispatched, one actor holds one that was, *)
(* and before its first call the count is 0.                                 *)
Called(r, c) ==
  /\ calls[r][c] <= IF r \in SecondChanceRuns THEN 2 ELSE 1
  /\ calls[r][c] > 0 => Spent(r, c)
  /\ Ready(r, c) => calls[r][c] = 0
  /\ \A a \in Actors : Holds(fr[a], r, c) =>
       /\ Spent(r, c) /\ ~Ready(r, c)
       /\ calls[r][c] <= IF fr[a].pc = "invoke" /\ fr[a].c = c THEN 0 ELSE 1
       /\ \A b \in Actors : Holds(fr[b], r, c) => a = b

CallInv ==
  /\ calls \in [Runs -> [Cases -> Nat]]
  /\ \A r \in Runs \ SafeRuns, c \in Cases : Called(r, c)

(* For the Case c of the Run r, a step that begins no call and after which   *)
(* nobody may begin one who could not before:                                *)
Loosened(r, c) ==
  /\ calls'[r][c] = calls[r][c]
  /\ \A b \in Actors : Holds(fr'[b], r, c) =>
       /\ Holds(fr[b], r, c)
       /\ fr'[b].pc = "invoke" /\ fr'[b].c = c => fr[b].pc = "invoke" /\ fr[b].c = c

LEMMA UnheldCalled ==
  ASSUME NEW r, NEW c, calls'[r][c] <= (IF r \in SecondChanceRuns THEN 2 ELSE 1),
         Spent(r, c)', ~Ready(r, c)', \A b \in Actors : ~Holds(fr'[b], r, c)
  PROVE  Called(r, c)'
BY Zenon DEF Called

LEMMA HeldCalled ==
  ASSUME NEW r, NEW c, NEW a \in Actors, calls'[r][c] \in {0, 1},
         fr'[a].pc = "invoke" => calls'[r][c] = 0, Spent(r, c)', ~Ready(r, c)',
         \A b \in Actors : Holds(fr'[b], r, c) => b = a
  PROVE  Called(r, c)'
<1>1. calls'[r][c] <= IF r \in SecondChanceRuns THEN 2 ELSE 1
  OBVIOUS
<1>2. calls'[r][c] <= IF fr'[a].pc = "invoke" /\ fr'[a].c = c THEN 0 ELSE 1
  OBVIOUS
<1>. QED BY <1>1, <1>2, Zenon DEF Called

LEMMA CalledZero ==
  ASSUME NEW r, NEW c, calls[r][c] \in Nat, Called(r, c)
  PROVE  (~Spent(r, c) => calls[r][c] = 0) /\ (Ready(r, c) => calls[r][c] = 0)
BY DEF Called

LEMMA SpentSame ==
  ASSUME UNCHANGED store, NEW r, NEW c \in Cases
  PROVE  (Spent(r, c)' <=> Spent(r, c)) /\ (Ready(r, c)' <=> Ready(r, c))
BY SpentFacts, SpentFactsNext DEF store

LEMMA LoosenedKept ==
  ASSUME CallInv, StaysSpent, NEW r \in Runs \ SafeRuns, NEW c \in Cases, Loosened(r, c)
  PROVE  Called(r, c)'
<1>1. Called(r, c) /\ calls[r][c] \in Nat /\ calls'[r][c] = calls[r][c]
  BY Zenon DEF CallInv, Loosened
<1>2. (Spent(r, c) => Spent(r, c)') /\ (Ready(r, c)' => Ready(r, c) \/ ~Spent(r, c))
  BY Zenon DEF StaysSpent
<1>3. (calls'[r][c] > 0 => Spent(r, c)') /\ (Ready(r, c)' => calls'[r][c] = 0)
  <2>1. (~Spent(r, c) => calls[r][c] = 0) /\ (Ready(r, c) => calls[r][c] = 0)
    BY <1>1, CalledZero, Zenon
  <2>2. Ready(r, c)' => calls'[r][c] = 0
    BY <1>1, <1>2, <2>1, Zenon
  <2>3. ~Spent(r, c)' => ~(calls'[r][c] > 0)
    BY <1>1, <1>2, <2>1
  <2>. QED BY <2>2, <2>3, Zenon
<1>4. ASSUME NEW a \in Actors, Holds(fr'[a], r, c)
      PROVE  /\ Spent(r, c)' /\ ~Ready(r, c)'
             /\ calls'[r][c] <= IF fr'[a].pc = "invoke" /\ fr'[a].c = c THEN 0 ELSE 1
             /\ \A b \in Actors : Holds(fr'[b], r, c) => a = b
  <2>1. /\ Holds(fr[a], r, c)
        /\ fr'[a].pc = "invoke" /\ fr'[a].c = c => fr[a].pc = "invoke" /\ fr[a].c = c
    BY <1>4, Zenon DEF Loosened
  <2>2. /\ Spent(r, c) /\ ~Ready(r, c)
        /\ calls[r][c] <= IF fr[a].pc = "invoke" /\ fr[a].c = c THEN 0 ELSE 1
        /\ \A b \in Actors : Holds(fr[b], r, c) => a = b
    BY <1>1, <2>1, Zenon DEF Called
  <2>3. \A b \in Actors : Holds(fr'[b], r, c) => a = b
    BY <2>2, Zenon DEF Loosened
  <2>4. calls'[r][c] <= IF fr'[a].pc = "invoke" /\ fr'[a].c = c THEN 0 ELSE 1
    BY <1>1, <2>1, <2>2
  <2>. QED BY <1>2, <2>2, <2>3, <2>4, Zenon
<1>5. calls'[r][c] <= IF r \in SecondChanceRuns THEN 2 ELSE 1
  BY <1>1, Zenon DEF Called
<1>. QED BY <1>3, <1>4, <1>5, Zenon DEF Called

LEMMA AllLoosened ==
  ASSUME CallInv, StaysSpent, calls' = calls, \A r \in Runs, c \in Cases : Loosened(r, c)
  PROVE  CallInv'
BY LoosenedKept, Zenon DEF CallInv

LEMMA StepLoosens ==
  ASSUME WorkerInv, NEW a \in Actors, Moves(a) \/ Enters(a), calls' = calls,
         NEW r \in Runs, NEW c \in Cases
  PROVE  Loosened(r, c)
<1>1. PICK g : /\ fr' = [fr EXCEPT ![a] = g] /\ g.pend \subseteq fr[a].pend
               /\ g.pend # {} => g.r = fr[a].r
               /\ g.pc \notin {"invoke", "calling"}
  BY Zenon DEF Moves, Enters, Follows
<1>2. \A b \in Actors : fr'[b] = IF b = a THEN g ELSE fr[b]
  BY <1>1, Zenon DEF WorkerInv, ActorsInv
<1>3. Holds(g, r, c) => Holds(fr[a], r, c) /\ g.pc # "invoke"
  BY <1>1, Zenon DEF Holds
<1>. HIDE DEF Holds
<1>. QED BY <1>2, <1>3, Zenon DEF Loosened

(* A turn of an actor that is on one Case loosens every other. *)
LEMMA OthersLoosened ==
  ASSUME WorkerInv, NEW a \in Actors, NEW g, fr' = [fr EXCEPT ![a] = g], g.r = fr[a].r,
         g.pend \subseteq fr[a].pend \cup {fr[a].c},
         g.pc \in {"invoke", "calling"} => g.c = fr[a].c,
         NEW r \in Runs, NEW c \in Cases, r # fr[a].r \/ c # fr[a].c,
         calls'[r][c] = calls[r][c]
  PROVE  Loosened(r, c)
<1>1. \A b \in Actors : fr'[b] = IF b = a THEN g ELSE fr[b]
  BY Zenon DEF WorkerInv, ActorsInv
<1>2. Holds(g, r, c) => Holds(fr[a], r, c) /\ ~(g.pc = "invoke" /\ g.c = c)
  BY Zenon DEF Holds
<1>. QED BY <1>1, <1>2, Zenon DEF Loosened

(* What counting a call does to the counts. *)
LEMMA Counts ==
  ASSUME CallInv, NEW r \in Runs, NEW c \in Cases, CountCall(r, c)
  PROVE  /\ calls' \in [Runs -> [Cases -> Nat]]
         /\ calls'[r][c] = calls[r][c] + 1
         /\ \A q \in Runs, d \in Cases : q # r \/ d # c => calls'[q][d] = calls[q][d]
BY DEF CallInv, CountCall

LEMMA OneMore == \A n \in Nat : (n <= 0 => n + 1 = 1) /\ (n <= 1 => n + 1 <= 2)
OBVIOUS

(* No two Attempts of a Case are prepared. *)
LEMMA OnePrepared ==
  ASSUME StoreInv, NEW r \in Runs, NEW c \in Cases, NEW n \in DOMAIN attempts[r][c],
         attempts[r][c][n] = "prepared", NEW m \in DOMAIN attempts[r][c],
         attempts[r][c][m] = "prepared"
  PROVE  m = n
<1>1. /\ m \in 1..Len(attempts[r][c]) /\ n \in 1..Len(attempts[r][c]) /\ Len(attempts[r][c]) \in Nat
  BY DEF StoreInv, TypeOK
<1>2. m \notin 1..(Len(attempts[r][c]) - 1) /\ n \notin 1..(Len(attempts[r][c]) - 1)
  BY Zenon DEF StoreInv, OnlyLastAttemptCounts
<1>. QED BY <1>1, <1>2

LEMMA DispatchSpends ==
  ASSUME StoreInv, NEW r \in Runs, NEW c \in Cases, NEW n \in DOMAIN attempts[r][c],
         attempts[r][c][n] = "prepared", Advance(r, c, n, "dispatching")
  PROVE  Ready(r, c) /\ Spent(r, c)' /\ ~Ready(r, c)'
<1>1. /\ DOMAIN attempts'[r][c] = DOMAIN attempts[r][c]
      /\ \A m \in DOMAIN attempts[r][c] :
           attempts'[r][c][m] = IF m = n THEN "dispatching" ELSE attempts[r][c][m]
  <2>1. TypeOK /\ "dispatching" \in AttemptStatus
    BY Zenon DEF AttemptStatus, StoreInv
  <2>2. \A q \in Runs, d \in Cases : DOMAIN attempts'[q][d] = DOMAIN attempts[q][d]
    BY <2>1, AdvanceFacts, Zenon
  <2>3. \A q \in Runs, d \in Cases : \A m \in DOMAIN attempts[q][d] :
          attempts'[q][d][m] = IF q = r /\ d = c /\ m = n THEN "dispatching" ELSE attempts[q][d][m]
    BY <2>1, AdvanceFacts
  <2>. QED BY <2>2, <2>3, Zenon
<1>2. \A m \in DOMAIN attempts[r][c] : attempts[r][c][m] = "prepared" => m = n
  BY OnePrepared, Zenon
<1>3. Ready(r, c)
  BY SpentFacts, Zenon
<1>4. Spent(r, c)'
  BY <1>1, SpentFactsNext, Zenon
<1>5. ~Ready(r, c)'
  BY <1>1, <1>2, SpentFactsNext
<1>. QED BY <1>3, <1>4, <1>5, Zenon

LEMMA DispatchedKeeps ==
  ASSUME WorkerInv, CallInv, NEW a \in Actors, Dispatched(a), calls' = calls
  PROVE  CallInv'
<1>. DEFINE f == fr[a]
            g == [f EXCEPT !.pc = "invoke", !.snap = NoRun]
            n == f.att[f.c]
<1>1. /\ f.pc \in CasePc /\ fr' = [fr EXCEPT ![a] = g]
      /\ n \in DOMAIN attempts[f.r][f.c] /\ attempts[f.r][f.c][n] = "prepared"
      /\ Advance(f.r, f.c, n, "dispatching")
  BY Zenon DEF Dispatched, dispatch, can_dispatch, Step, CasePc
<1>2. FrameType(f) /\ f.c \in Cases /\ f.r \in Runs /\ StoreInv /\ DOMAIN fr = Actors
  BY <1>1, OwnPend, Zenon DEF WorkerInv, ActorsInv
<1>3. g.r = f.r /\ g.pend = f.pend /\ g.pc = "invoke" /\ g.c = f.c
  BY <1>2, BlankFields, Zenon DEF FrameType
<1>4. StaysSpent
  BY DispatchedTurns, Zenon DEF Writes
<1>. HIDE DEF g
<1>5. \A b \in Actors : fr'[b] = IF b = a THEN g ELSE fr[b]
  BY <1>1, <1>2, Zenon
<1>. HIDE DEF n
<1>6. ASSUME NEW r \in Runs \ SafeRuns, NEW c \in Cases, r = f.r /\ c = f.c PROVE Called(r, c)'
  <2>1. /\ n \in DOMAIN attempts[r][c] /\ attempts[r][c][n] = "prepared"
        /\ Advance(r, c, n, "dispatching")
    BY <1>1, <1>6, Zenon
  <2>2. Ready(r, c) /\ Spent(r, c)' /\ ~Ready(r, c)'
    BY <1>2, <2>1, DispatchSpends, Zenon
  <2>3. calls'[r][c] = 0 /\ \A b \in Actors : ~Holds(fr[b], r, c)
    BY <2>2, Zenon DEF Called, CallInv
  <2>4. \A b \in Actors : Holds(fr'[b], r, c) => b = a
    BY <1>5, <2>3, Zenon
  <2>5. calls'[r][c] \in {0, 1}
    BY <2>3, Zenon
  <2>. QED BY <2>2, <2>3, <2>4, <2>5, HeldCalled, Zenon
<1>7. ASSUME NEW r \in Runs \ SafeRuns, NEW c \in Cases, r # f.r \/ c # f.c PROVE Called(r, c)'
  <2>1. Loosened(r, c)
    BY <1>1, <1>3, <1>7, OthersLoosened, Zenon
  <2>. QED BY <1>4, <2>1, LoosenedKept, Zenon
<1>8. ASSUME NEW r \in Runs \ SafeRuns, NEW c \in Cases PROVE Called(r, c)'
  BY <1>6, <1>7, Zenon
<1>9. calls' \in [Runs -> [Cases -> Nat]]
  BY Zenon DEF CallInv
<1>. QED BY <1>8, <1>9, Zenon DEF CallInv

LEMMA InvokeKeeps ==
  ASSUME WorkerInv, CallInv, NEW a \in Actors, Invoke(a)
  PROVE  CallInv'
<1>. DEFINE f == fr[a]
            g == [f EXCEPT !.pc = "calling"]
<1>1. /\ f.pc = "invoke" /\ f.pc \in CasePc /\ fr' = [fr EXCEPT ![a] = g]
      /\ UNCHANGED store /\ CountCall(f.r, f.c)
  BY Zenon DEF Invoke, Step, CasePc
<1>2. FrameType(f) /\ f.c \in Cases /\ f.r \in Runs /\ DOMAIN fr = Actors
  BY <1>1, OwnPend, Zenon DEF WorkerInv, ActorsInv
<1>3. g.r = f.r /\ g.pend = f.pend /\ g.pc = "calling" /\ g.c = f.c
  BY <1>2, BlankFields, Zenon DEF FrameType
<1>. HIDE DEF g
<1>4. \A b \in Actors : fr'[b] = IF b = a THEN g ELSE fr[b]
  BY <1>1, <1>2, Zenon
<1>5. /\ calls' \in [Runs -> [Cases -> Nat]] /\ calls'[f.r][f.c] = calls[f.r][f.c] + 1
      /\ \A q \in Runs, d \in Cases : q # f.r \/ d # f.c => calls'[q][d] = calls[q][d]
  BY <1>1, <1>2, Counts, Zenon
<1>6. ASSUME NEW r \in Runs \ SafeRuns, NEW c \in Cases, r = f.r /\ c = f.c PROVE Called(r, c)'
  <2>1. Called(r, c) /\ Holds(f, r, c) /\ calls[r][c] \in Nat
    BY <1>1, <1>6, Zenon DEF CallInv, Holds
  <2>2. /\ Spent(r, c) /\ ~Ready(r, c) /\ calls[r][c] <= 0
        /\ \A b \in Actors : Holds(fr[b], r, c) => a = b
    BY <1>1, <1>6, <2>1, Zenon DEF Called
  <2>3. calls'[r][c] = 1
    <3>1. calls'[r][c] = calls[r][c] + 1
      BY <1>5, <1>6, Zenon
    <3>. QED BY <2>1, <2>2, <3>1, OneMore, Zenon
  <2>4. Spent(r, c)' /\ ~Ready(r, c)'
    BY <1>1, <2>2, SpentSame, Zenon
  <2>5. \A b \in Actors : Holds(fr'[b], r, c) => b = a /\ fr'[b].pc # "invoke"
    BY <1>3, <1>4, <2>2, Zenon
  <2>6. fr'[a].pc # "invoke" /\ calls'[r][c] \in {0, 1}
    BY <1>3, <1>4, <2>3, Zenon
  <2>. QED BY <2>4, <2>5, <2>6, HeldCalled, Zenon
<1>7. ASSUME NEW r \in Runs \ SafeRuns, NEW c \in Cases, r # f.r \/ c # f.c PROVE Called(r, c)'
  <2>1. Loosened(r, c)
    BY <1>1, <1>3, <1>5, <1>7, OthersLoosened, Zenon
  <2>2. StaysSpent
    BY InvokeTurns, Zenon DEF Writes
  <2>. QED BY <2>1, <2>2, LoosenedKept, Zenon
<1>8. ASSUME NEW r \in Runs \ SafeRuns, NEW c \in Cases PROVE Called(r, c)'
  BY <1>6, <1>7, Zenon
<1>. QED BY <1>5, <1>8, Zenon DEF CallInv

LEMMA CallFailsTransientlyKeeps ==
  ASSUME WorkerInv, CallInv, NEW a \in Actors, CallFailsTransiently(a)
  PROVE  CallInv'
<1>. DEFINE f == fr[a]
            h == [f EXCEPT !.pend = f.pend \cup {f.c}]
            g == [h EXCEPT !.pc = "loop", !.c = h.c + 1]
<1>1. /\ f.pc = "calling" /\ f.pc \in CasePc /\ fr' = [fr EXCEPT ![a] = g] /\ calls' = calls
  BY Zenon DEF CallFailsTransiently, NextCase, Step, CasePc, history
<1>2. FrameType(f) /\ DOMAIN fr = Actors
  BY <1>1, OwnPend, Zenon DEF WorkerInv, ActorsInv
<1>3. FrameType(h) /\ h.r = f.r /\ h.pend = f.pend \cup {f.c}
  BY <1>1, <1>2, OwnPend, BlankFields DEF FrameType
<1>. HIDE DEF h
<1>4. g.r = f.r /\ g.pend = f.pend \cup {f.c} /\ g.pc = "loop"
  BY <1>3, BlankFields, Zenon DEF FrameType
<1>. HIDE DEF g
<1>5. \A b \in Actors : fr'[b] = IF b = a THEN g ELSE fr[b]
  BY <1>1, <1>2, Zenon
<1>6. ASSUME NEW r \in Runs, NEW c \in Cases PROVE Loosened(r, c)
  <2>1. Holds(g, r, c) => Holds(f, r, c)
    BY <1>1, <1>4, Zenon DEF Holds
  <2>. QED BY <1>1, <1>4, <1>5, <2>1, Zenon DEF Loosened
<1>7. StaysSpent
  BY CallFailsTransientlyTurns, Zenon DEF Writes
<1>. QED BY <1>1, <1>6, <1>7, AllLoosened, Zenon

LEMMA CalledAgainKeeps ==
  ASSUME WorkerInv, CallInv, NEW a \in Actors, CalledAgain(a)
  PROVE  CallInv'
<1>. DEFINE f == fr[a]
            g == [f EXCEPT !.pc = "secondCalling", !.pend = f.pend \ {f.c}]
<1>1. /\ f.pc = "second" /\ f.pc \in CasePc /\ fr' = [fr EXCEPT ![a] = g] /\ f.c \in f.pend
      /\ UNCHANGED store /\ CountCall(f.r, f.c)
  BY Zenon DEF CalledAgain, Step, CasePc
<1>2. /\ FrameType(f) /\ f.c \in Cases /\ f.r \in Runs /\ DOMAIN fr = Actors
      /\ f.r \in SecondChanceRuns
  BY <1>1, OwnPend, Zenon DEF WorkerInv, ActorsInv
<1>3. g.r = f.r /\ g.pend = f.pend \ {f.c} /\ g.pc = "secondCalling"
  BY <1>2, BlankFields, Zenon DEF FrameType
<1>. HIDE DEF g
<1>4. \A b \in Actors : fr'[b] = IF b = a THEN g ELSE fr[b]
  BY <1>1, <1>2, Zenon
<1>5. /\ calls' \in [Runs -> [Cases -> Nat]] /\ calls'[f.r][f.c] = calls[f.r][f.c] + 1
      /\ \A q \in Runs, d \in Cases : q # f.r \/ d # f.c => calls'[q][d] = calls[q][d]
  BY <1>1, <1>2, Counts, Zenon
<1>6. ASSUME NEW r \in Runs \ SafeRuns, NEW c \in Cases, r = f.r /\ c = f.c PROVE Called(r, c)'
  <2>1. Called(r, c) /\ Holds(f, r, c) /\ calls[r][c] \in Nat
    BY <1>1, <1>6, Zenon DEF CallInv, Holds
  <2>2. /\ Spent(r, c) /\ ~Ready(r, c) /\ calls[r][c] <= 1
        /\ \A b \in Actors : Holds(fr[b], r, c) => a = b
    BY <1>1, <1>6, <2>1, Zenon DEF Called
  <2>3. calls'[r][c] <= IF r \in SecondChanceRuns THEN 2 ELSE 1
    <3>1. calls'[r][c] = calls[r][c] + 1 /\ r \in SecondChanceRuns
      BY <1>2, <1>5, <1>6, Zenon
    <3>. QED BY <2>1, <2>2, <3>1, OneMore, Zenon
  <2>4. Spent(r, c)' /\ ~Ready(r, c)'
    BY <1>1, <2>2, SpentSame, Zenon
  <2>5. ~Holds(g, r, c)
    BY <1>3, <1>6, Zenon DEF Holds
  <2>6. \A b \in Actors : ~Holds(fr'[b], r, c)
    BY <1>4, <2>2, <2>5, Zenon
  <2>. QED BY <2>3, <2>4, <2>6, UnheldCalled, Zenon
<1>7. ASSUME NEW r \in Runs \ SafeRuns, NEW c \in Cases, r # f.r \/ c # f.c PROVE Called(r, c)'
  <2>1. Loosened(r, c)
    BY <1>1, <1>3, <1>5, <1>7, OthersLoosened, Zenon
  <2>2. StaysSpent
    BY CalledAgainTurns, Zenon DEF Writes
  <2>. QED BY <2>1, <2>2, LoosenedKept, Zenon
<1>8. ASSUME NEW r \in Runs \ SafeRuns, NEW c \in Cases PROVE Called(r, c)'
  BY <1>6, <1>7, Zenon
<1>. QED BY <1>5, <1>8, Zenon DEF CallInv

LEMMA CallInvInit == Init => CallInv
<1> SUFFICES ASSUME Init PROVE CallInv
  OBVIOUS
<1>1. calls = [r \in Runs |-> [c \in Cases |-> 0]]
  BY Zenon DEF Init
<1>2. calls \in [Runs -> [Cases -> Nat]] /\ \A r \in Runs, c \in Cases : calls[r][c] = 0
  BY <1>1, Zenon
<1>3. \A a \in Actors, r \in Runs, c \in Cases : ~Holds(fr[a], r, c)
  <2>1. \A a \in Actors : fr[a].pend = {} /\ fr[a].pc \notin {"invoke", "calling"}
    BY BlankFields, Zenon DEF Init
  <2>. QED BY <2>1, Zenon DEF Holds
<1>4. ASSUME NEW r \in Runs, NEW c \in Cases PROVE Called(r, c)
  <2>1. calls[r][c] = 0
    BY <1>2, Zenon
  <2>. QED BY <1>3, <2>1 DEF Called
<1>. QED BY <1>2, <1>4, Zenon DEF CallInv

LEMMA CallInvStep == ASSUME WorkerInv, CallInv, Next PROVE CallInv'
<1>1. Writes
  BY NextWrites, Zenon
<1>2. StaysSpent
  BY <1>1, Zenon DEF Writes
<1>3. Workers \subseteq Actors /\ Clients \subseteq Actors
  BY Zenon DEF Actors
<1>4. ASSUME NEW a \in Actors, Moves(a) \/ Enters(a), calls' = calls PROVE CallInv'
  BY <1>2, <1>4, StepLoosens, AllLoosened, Zenon
<1>5. CASE Still
  <2>1. fr' = fr /\ calls' = calls
    BY <1>5, Zenon DEF Still
  <2>2. \A r \in Runs, c \in Cases : Loosened(r, c)
    BY <2>1, Zenon DEF Loosened
  <2>. QED BY <1>2, <2>1, <2>2, AllLoosened, Zenon
<1>6. ASSUME NEW a \in Actors, Turn(a) PROVE CallInv'
  <2>1. CASE (Does(a) \/ Dispatched(a)) /\ Kept
    <3>1. calls' = calls
      BY <2>1, Zenon DEF Kept
    <3>. QED BY <1>4, <2>1, <3>1, DispatchedKeeps, Zenon DEF Does
  <2>. QED BY <1>6, <2>1, InvokeKeeps, CallFailsTransientlyKeeps, CalledAgainKeeps, Zenon DEF Turn
<1>7. ASSUME NEW w \in Workers, Claim(w) PROVE CallInv'
  BY <1>3, <1>4, <1>7, ClaimEnters, Zenon DEF Enters
<1>8. ASSUME NEW a \in Clients, Asks(a) PROVE CallInv'
  BY <1>3, <1>4, <1>8, AsksEnters, Zenon DEF Enters
<1>. QED BY <1>5, <1>6, <1>7, <1>8, NextDoes, Zenon

(* A provider call is not repeated: a Case of a Run that is not              *)
(* safe_to_repeat is called once, or twice where the benchmark executor      *)
(* gives a second chance, across crashes, recoveries, requeues and Workers   *)
(* that execute the same Run because one of them lost the lock.              *)
THEOREM CallsAreNotRepeated == Spec => []NoRepeatedCall
<1>1. CallInv /\ UNCHANGED vars => CallInv'
  <2> SUFFICES ASSUME CallInv, UNCHANGED vars PROVE CallInv'
    OBVIOUS
  <2>1. calls' = calls /\ fr' = fr /\ UNCHANGED store
    BY Zenon DEF vars, history
  <2>2. \A r \in Runs, c \in Cases : Loosened(r, c)
    BY <2>1, Zenon DEF Loosened
  <2>3. StaysSpent
    BY <2>1, Quiet, Zenon DEF Writes
  <2>. QED BY <2>1, <2>2, <2>3, AllLoosened, Zenon
<1>2. WorkerInv /\ CallInv /\ [Next]_vars => CallInv'
  BY <1>1, CallInvStep, Zenon
<1>3. CallInv => NoRepeatedCall
  BY Zenon DEF CallInv, Called, NoRepeatedCall
<1>. QED BY <1>2, <1>3, CallInvInit, WorkerInvariant, PTL DEF Spec
=============================================================================
