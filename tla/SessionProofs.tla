---------------------------- MODULE SessionProofs ----------------------------
(***************************************************************************)
(* What holds of Session for any commands, approvals, queue length and     *)
(* number of crashes.                                                      *)
(*                                                                         *)
(* Three of the four properties are part of the inductive invariant;       *)
(* WrittenOnce is what CommandInv and ApprovalInv say of the wire.         *)
(* FlowInv ties the executor's step to the stored session, TurnInv to what *)
(* is known of the turn.  FrameInv says that a frame on its way is about   *)
(* something that happened.  CommandInv and ApprovalInv place each command *)
(* and each request between the store, the executor's memory and the wire; *)
(* TodoInv says what a list taken earlier is still worth.                  *)
(*                                                                         *)
(* There is a lemma for each step of the executor, and frame lemmas        *)
(* (Quiet, Frames, Bystander) for what a step leaves alone.                *)
(***************************************************************************)
EXTENDS Session, TLAPS

Opening == {"idle", "spawn", "starting", "thread", "intent", "turn"}

(* The executor's way through the session: Opening, then Looping, then its   *)
(* end.  Once it settles, the stored session is not active any more, so no   *)
(* client can add a command behind its back.                                 *)
FlowInv ==
  /\ ex.pc = "idle" => session.state = "none" /\ \A c \in Commands : command[c].status = "none"
  /\ ex.pc \in Opening => /\ session.state \in {"none", "prepared", "starting"}
                          /\ ~native.turn /\ ~ex.cancel /\ transport.stop_reply = "none"
  /\ Looping => (ex.cancel <=> transport.stop_reply # "none")
  /\ ex.cur # NoOne <=> ex.pc \in {"drain", "write"}
  /\ ex.stop => /\ ex.pc \in {"acks", "settle", "finish", "done"}
                /\ session.state \in {"stopping", "terminal"}
  /\ ex.pc \in {"settle", "finish"} => ex.stop
  /\ ex.pc \in {"done", "resettle"} => session.state # "active"
  /\ ex.pc = "over" => run.status # "running"
  /\ ex.pc \notin {"over", "down", "recover", "resettle"} => run.status = "running"

(* What the executor knows of the turn. *)
Known == native.done \/ run.cancelling \/ transport.stop_reply # "none"

TurnInv ==
  /\ ex.pc = "turn" => ex.dispatched
  /\ Looping \/ ex.stop \/ ex.pc = "finally" => (native.turn => ex.dispatched)
  /\ ex.terminal => native.done
  /\ ex.pc = "finally" \/ ex.stop => (native.turn /\ ~ex.error => Known)
  /\ ex.pc = "done" /\ ex.outcome \notin {"quarantined", "raised"} => (native.turn => Known)

(* The part of OutcomeKnown that is about the turn. *)
TurnKnown ==
  run.status = "settled" /\ native.turn =>
    native.done \/ run.cancelling \/ transport.stop_reply # "none"

(* A frame in the queue says what has happened. *)
FrameOK(f) ==
  /\ f.kind \in {"request", "resolved", "item"} => f.on \in Approvals
  /\ f.kind = "resolved" => native.request[f.on] = "resolved"
  /\ f.kind = "completed" => native.done
FrameInv == \A i \in 1..Len(transport.queue) : FrameOK(transport.queue[i])

(* Where a command is: claimed and not written yet (cur), waiting for its    *)
(* reply (pending), or answered by a resolution.                             *)
CommandInv(c) ==
  /\ command[c].kind = "decide" <=> command[c].on # NoApproval
  /\ native.wire[c] \in {0, 1}
  /\ command[c].status \in {"none", "queued", "rejected", "expired"} => native.wire[c] = 0
  /\ c = ex.cur => command[c].status = "delivered" /\ native.wire[c] = 0
  /\ c \in ex.pending => /\ c # ex.cur /\ command[c].status = "delivered"
                         /\ command[c].kind # "decide"
                         /\ command[c].kind = "user_message" => native.wire[c] = 1
  /\ c \in ex.resolutions => /\ c # ex.cur /\ command[c].status = "delivered"
                             /\ command[c].kind = "decide" /\ native.wire[c] = 1
                             /\ native.request[command[c].on] = "resolved"

(* What a list of commands holds, by the step that goes through it; and who  *)
(* settles commands waits for none.                                          *)
TodoInv(c) ==
  /\ ex.pc = "acks" /\ c \in ex.todo => c \in ex.pending \cup ex.resolutions
  /\ ex.pc \in {"commands", "drain", "write"} /\ c \in ex.todo => command[c].status = "queued"
  /\ ex.pc = "recover" /\ c \in ex.todo => command[c].status = "delivered"
  /\ ex.pc \in {"settle", "resettle"} => (c \in ex.todo <=> command[c].status \in Open)
  /\ ex.pc \in {"finish", "done", "over"} => command[c].status \notin Open
  /\ ex.pc = "finally" \/ (ex.pc = "acks" /\ ex.stop) => \A a \in Approvals : ex.sent[a] # c
  /\ ex.pc \in {"settle", "down", "recover", "resettle"} =>
       c \notin ex.pending \cup ex.resolutions /\ \A a \in Approvals : ex.sent[a] # c

(* An approval is answered at most once, by the command in sent. *)
ApprovalInv(a) ==
  /\ native.answers[a] \in {0, 1}
  /\ transport.incoming[a] # "answered" => native.answers[a] = 0
  /\ native.request[a] = "none" => transport.incoming[a] = "none"
  /\ ex.sent[a] # NoOne =>
       /\ ex.sent[a] # ex.cur /\ ex.sent[a] \notin ex.resolutions
       /\ native.wire[ex.sent[a]] = 1 /\ command[ex.sent[a]].status = "delivered"
       /\ command[ex.sent[a]].kind = "decide" /\ command[ex.sent[a]].on = a

SessionInv ==
  /\ SessionTypeOK /\ FlowInv /\ TurnInv /\ FrameInv
  /\ \A c \in Commands : CommandInv(c) /\ TodoInv(c)
  /\ \A a \in Approvals : ApprovalInv(a)
  /\ StatusIsTrue /\ NoneLeftOpen /\ TurnKnown

-----------------------------------------------------------------------------
(* Types. *)

LEMMA LeavesType ==
  ASSUME ex \in Executor, NEW cancels \in BOOLEAN, NEW error \in BOOLEAN, Leaves(cancels, error)
  PROVE  ex' \in Executor
<1>. DEFINE d == ex.cancel \/ cancels
<1>1. d \in BOOLEAN
  OBVIOUS
<1>2. ex' = [Fresh EXCEPT !.pc = "finally", !.pending = ex.pending, !.resolutions = ex.resolutions,
               !.terminal = ex.terminal, !.cancel = d, !.dispatched = ex.dispatched, !.error = error]
  BY Zenon DEF Leaves
<1>3. [Fresh EXCEPT !.pc = "finally"] \in Executor
  BY Zenon DEF Executor, Fresh, Step, Outcome, ApprovalState
<1>. DEFINE F == [Fresh EXCEPT !.pc = "finally"]
<1>4. ex' = [F EXCEPT !.pending = ex.pending, !.resolutions = ex.resolutions, !.terminal = ex.terminal,
                      !.cancel = d, !.dispatched = ex.dispatched, !.error = error]
  BY <1>2, Zenon DEF Fresh
<1>5. F \in Executor
  BY <1>3, Zenon
<1>. HIDE DEF d, F
<1>. QED BY <1>1, <1>4, <1>5, Zenon DEF Executor

LEMMA FreshType == \A pc \in Step : [Fresh EXCEPT !.pc = pc] \in Executor
  BY ZenonT(30) DEF Executor, Fresh, Step, Outcome, ApprovalState

LEMMA GoesType ==
  ASSUME ex \in Executor, NEW pc \in Step, Goes(pc)
  PROVE  ex' \in Executor
  BY Zenon DEF Goes, Executor

SessionRow == [state : SessionState, current : SUBSET Commands, approval : [Approvals -> ApprovalState]]

Transport == [queue : Seq(Frame), failure : BOOLEAN,
              incoming : [Approvals -> {"none", "open", "answered"}],
              reply : [Commands -> Reply], stop_reply : Reply]

LEMMA FailType == ASSUME transport \in Transport PROVE fail(transport) \in Transport
  BY Zenon DEF Transport, fail, Lost, Reply

LEMMA EventType ==
  ASSUME SessionInv, NEW f \in Frame, FrameOK(f)
  PROVE  /\ event_approvals(f) \in [Approvals -> ApprovalState]
         /\ event_memory(f) \in Executor
<1>1. event_approvals(f) \in [Approvals -> ApprovalState]
  BY Zenon DEF event_approvals, SessionInv, SessionTypeOK, SessionTables, Executor, ApprovalState
<1>2. event_memory(f) \in Executor
  <2>. DEFINE answered == f.kind = "resolved" /\ ex.sent[f.on] # NoOne
              cache == IF event_saves(f) THEN event_approvals(f) ELSE ex.cache
              terminal == f.kind = "completed"
              changed == IF f.kind = "item" THEN ex.changed \cup {f.on} ELSE ex.changed
              sent == [a \in Approvals |-> IF answered /\ a = f.on THEN NoOne ELSE ex.sent[a]]
              res == IF answered /\ ~ex.cancel THEN ex.resolutions \cup {ex.sent[f.on]}
                     ELSE ex.resolutions
  <2>1. cache \in [Approvals -> ApprovalState]
    BY <1>1, Zenon DEF SessionInv, SessionTypeOK, Executor
  <2>2. terminal \in BOOLEAN
    OBVIOUS
  <2>3. changed \subseteq Approvals /\ sent \in [Approvals -> Commands \cup {NoOne}]
    BY DEF SessionInv, SessionTypeOK, Executor, FrameOK
  <2>4. res \subseteq Commands
    BY DEF SessionInv, SessionTypeOK, Executor, FrameOK
  <2>5. event_memory(f) = [ex EXCEPT !.cache = cache, !.terminal = terminal, !.changed = changed,
                                     !.sent = sent, !.resolutions = res]
    BY Zenon DEF event_memory
  <2>. HIDE DEF cache, terminal, changed, sent, res
  <2>. QED BY <2>1, <2>2, <2>3, <2>4, <2>5, ZenonT(30) DEF SessionInv, SessionTypeOK, Executor
<1>. QED BY <1>1, <1>2, Zenon

-----------------------------------------------------------------------------
(* Frames: what a step leaves alone. *)

(* Stored commands and what the server got of them stay, and a reply that    *)
(* came stays the reply.                                                     *)
CommandsKept ==
  /\ UNCHANGED command
  /\ native'.wire = native.wire
  /\ \A a \in Approvals : native.request[a] = "resolved" => native'.request[a] = "resolved"
  /\ \A c \in Commands : transport.reply[c] \in {"ok", "refused"} =>
                           transport'.reply[c] = transport.reply[c]
  /\ transport.stop_reply \in {"ok", "refused"} => transport'.stop_reply = transport.stop_reply

(* The executor forgets at most what it knows of commands. *)
MemoryKept ==
  /\ ex'.pending \subseteq ex.pending /\ ex'.resolutions \subseteq ex.resolutions
  /\ ex'.cur \in {ex.cur, NoOne}
  /\ \A a \in Approvals : ex'.sent[a] \in {ex.sent[a], NoOne}

AnswersKept ==
  /\ native'.answers = native.answers
  /\ transport'.incoming = transport.incoming
  /\ \A a \in Approvals : native'.request[a] = "none" => native.request[a] = "none"

LEMMA QuietCommands ==
  ASSUME NoOneAssumption, SessionInv, CommandsKept, MemoryKept
  PROVE  StatusIsTrue' /\ \A c \in Commands : CommandInv(c)'
<1>1. ASSUME NEW c \in Commands PROVE CommandInv(c)'
  <2>1. CommandInv(c) /\ (command[c].kind = "decide" => command[c].on \in Approvals)
    BY DEF SessionInv, CommandInv, SessionTypeOK, SessionTables, CommandRecord
  <2>. QED BY <2>1, Zenon DEF CommandInv, CommandsKept, MemoryKept, NoOneAssumption
<1>2. StatusIsTrue'
  <2>. SUFFICES ASSUME NEW c \in Commands
                PROVE /\ command[c].status \in {"queued", "rejected", "expired"} => native'.wire[c] = 0
                      /\ command[c].status = "failed" => ReplyOf(c)' = "refused"
                      /\ command[c].status = "acknowledged" =>
                           IF command[c].kind = "decide"
                           THEN native'.wire[c] = 1 /\ native'.request[command[c].on] = "resolved"
                           ELSE ReplyOf(c)' = "ok" /\ (command[c].kind = "user_message" => native'.wire[c] = 1)
    BY Zenon DEF StatusIsTrue, CommandsKept
  <2>1. command[c].kind = "decide" => command[c].on \in Approvals
    BY DEF SessionInv, CommandInv, SessionTypeOK, SessionTables, CommandRecord
  <2>2. ReplyOf(c) \in {"ok", "refused"} => ReplyOf(c)' = ReplyOf(c)
    BY Zenon DEF ReplyOf, CommandsKept
  <2>. QED BY <2>1, <2>2, Zenon DEF SessionInv, StatusIsTrue, CommandsKept
<1>. QED BY <1>1, <1>2, Zenon

LEMMA Quiet ==
  ASSUME NoOneAssumption, SessionInv, CommandsKept, MemoryKept, AnswersKept
  PROVE  /\ \A c \in Commands : CommandInv(c)'
         /\ \A a \in Approvals : ApprovalInv(a)'
         /\ StatusIsTrue'
<1>1. ASSUME NEW a \in Approvals PROVE ApprovalInv(a)'
  <2>1. ApprovalInv(a)
    BY Zenon DEF SessionInv
  <2>. QED BY <2>1, Zenon DEF ApprovalInv, CommandsKept, MemoryKept, AnswersKept
<1>. QED BY <1>1, QuietCommands, Zenon

(* The queue stays, loses its first frame, or is emptied. *)
QueueKept ==
  /\ \/ transport'.queue = transport.queue
     \/ transport.queue # <<>> /\ transport'.queue = Tail(transport.queue)
     \/ transport'.queue = <<>>
  /\ \A a \in Approvals : native.request[a] = "resolved" => native'.request[a] = "resolved"
  /\ native.done => native'.done

LEMMA Frames == ASSUME SessionInv, QueueKept PROVE FrameInv'
<1>0. transport.queue \in Seq(Frame)
  BY Zenon DEF SessionInv, SessionTypeOK
<1>. SUFFICES ASSUME NEW i \in 1..Len(transport'.queue) PROVE FrameOK(transport.queue[i])'
  BY Zenon DEF FrameInv
<1>1. PICK j \in 1..Len(transport.queue) : transport'.queue[i] = transport.queue[j]
  <2>. DEFINE q == transport.queue
  <2>1. CASE transport'.queue = q
    BY <2>1, Zenon
  <2>2. CASE q # <<>> /\ transport'.queue = Tail(q)
    <3>. HIDE DEF q
    <3>1. q \in Seq(Frame)
      BY <1>0, Zenon DEF q
    <3>2. Len(Tail(q)) = Len(q) - 1 /\ \A k \in 1..Len(Tail(q)) : Tail(q)[k] = q[k + 1]
      BY <3>1, <2>2
    <3>3. Len(q) \in Nat
      BY <3>1
    <3>4. i + 1 \in 1..Len(q) /\ transport'.queue[i] = q[i + 1]
      BY <3>2, <3>3, <2>2
    <3>. QED BY <3>4, Zenon DEF q
  <2>3. CASE transport'.queue = <<>>
    BY <2>3
  <2>. QED BY <2>1, <2>2, <2>3, Zenon DEF QueueKept
<1>2. FrameOK(transport.queue[j])
  BY Zenon DEF SessionInv, FrameInv
<1>. QED BY <1>1, <1>2, Zenon DEF FrameOK, QueueKept

(* No command is accepted and nothing ends. *)
LEMMA StillOpen ==
  ASSUME SessionInv, \A c \in Commands : command'[c].status \in Open => command[c].status \in Open,
         run'.status = run.status, session'.state = "terminal" => session.state = "terminal"
  PROVE  NoneLeftOpen'
  BY Zenon DEF SessionInv, NoneLeftOpen

LEMMA StillKnown ==
  ASSUME SessionInv, run'.status = run.status, native'.turn => native.turn, Known => Known'
  PROVE  TurnKnown'
<1>1. run.status = "settled" /\ native.turn => Known
  BY Zenon DEF SessionInv, TurnKnown, Known
<1>2. run'.status = "settled" /\ native'.turn => Known'
  BY <1>1, Zenon
<1>. QED BY <1>2, Zenon DEF TurnKnown, Known

-----------------------------------------------------------------------------
(* Clients, the clock and the app server: the executor stays where it is. *)

(* What a session's part of the invariant looks at besides the executor. *)
LEMMA Bystander ==
  ASSUME SessionInv, UNCHANGED <<ex, run, command>>, session'.state = session.state,
         native'.turn = native.turn, native.done => native'.done,
         transport'.stop_reply = "none" <=> transport.stop_reply = "none"
  PROVE  /\ FlowInv' /\ TurnInv' /\ NoneLeftOpen' /\ TurnKnown'
         /\ \A c \in Commands : TodoInv(c)'
<1>1. FlowInv'
  BY Zenon DEF SessionInv, FlowInv, Looping
<1>2. Known => Known'
  BY Zenon DEF Known
<1>3. TurnInv'
  BY <1>2, Zenon DEF SessionInv, TurnInv, Looping
<1>4. NoneLeftOpen' /\ TurnKnown'
  BY <1>2, StillOpen, StillKnown, Zenon
<1>5. \A c \in Commands : TodoInv(c)'
  BY Zenon DEF SessionInv, TodoInv
<1>. QED BY <1>1, <1>3, <1>4, <1>5, Zenon

LEMMA SubmitStep ==
  ASSUME KindsAssumption, NoOneAssumption, SessionInv, NEW c \in Commands, NEW kind \in Kinds[c],
         NEW on \in Approvals \cup {NoApproval}, submit_command(c, kind, on)
  PROVE  SessionInv'
<1>. USE DEF submit_command, create_or_get, check_binding
<1>1. SessionTypeOK'
  BY Zenon DEF SessionInv, SessionTypeOK, SessionTables, KindsAssumption, CommandRecord, Open
<1>2. /\ command[c].status = "none" /\ native.wire[c] = 0
      /\ command'[c] = [status |-> "queued", kind |-> kind, on |-> on]
      /\ \A d \in Commands \ {c} : command'[d] = command[d]
      /\ session.state = "active" /\ session'.state = "active" /\ run.status = "running"
  BY DEF SessionInv, CommandInv, SessionTypeOK, SessionTables
<1>3. c \notin ex.pending \cup ex.resolutions /\ c # ex.cur /\ \A a \in Approvals : ex.sent[a] # c
  BY <1>2, NoOneAssumption DEF SessionInv, CommandInv, ApprovalInv
<1>4. FlowInv'
  BY <1>2, Zenon DEF SessionInv, FlowInv, Looping
<1>5. TurnInv' /\ FrameInv'
  BY Zenon DEF SessionInv, TurnInv, FrameInv, FrameOK, Looping, Known
<1>6. ASSUME NEW d \in Commands PROVE CommandInv(d)'
  <2>1. CommandInv(d)
    BY Zenon DEF SessionInv
  <2>. QED BY <1>2, <1>3, <2>1 DEF CommandInv
<1>7. ASSUME NEW d \in Commands PROVE TodoInv(d)'
  <2>1. TodoInv(d)
    BY Zenon DEF SessionInv
  <2>2. ex.pc \notin {"settle", "resettle", "finish", "done", "over"}
    BY <1>2, Zenon DEF SessionInv, FlowInv
  <2>. QED BY <1>2, <2>1, <2>2, Zenon DEF TodoInv
<1>8. ASSUME NEW a \in Approvals PROVE ApprovalInv(a)'
  <2>1. ApprovalInv(a) /\ ex.sent[a] \in Commands \cup {NoOne}
    BY Zenon DEF SessionInv, SessionTypeOK, Executor
  <2>. QED BY <1>2, <1>3, <2>1 DEF ApprovalInv
<1>9. StatusIsTrue'
  BY <1>2 DEF SessionInv, StatusIsTrue, ReplyOf
<1>10. NoneLeftOpen' /\ TurnKnown'
  BY <1>2, Zenon DEF SessionInv, NoneLeftOpen, TurnKnown
<1>. QED BY <1>1, <1>4, <1>5, <1>6, <1>7, <1>8, <1>9, <1>10, Zenon DEF SessionInv

LEMMA CancelStep ==
  ASSUME NoOneAssumption, SessionInv, cancel
  PROVE  SessionInv'
<1>. USE DEF cancel
<1>1. run' \in [status : RunStatus, cancelling : BOOLEAN]
  BY Zenon DEF SessionInv, SessionTypeOK, SessionTables
<1>2. SessionTypeOK'
  BY <1>1, Zenon DEF SessionInv, SessionTypeOK, SessionTables
<1>3. run'.status = run.status /\ run'.cancelling
  BY Zenon DEF SessionInv, SessionTypeOK, SessionTables
<1>4. CommandsKept /\ MemoryKept /\ AnswersKept
  BY Zenon DEF CommandsKept, MemoryKept, AnswersKept
<1>5. FlowInv'
  BY <1>3, Zenon DEF SessionInv, FlowInv, Looping
<1>6. TurnInv' /\ FrameInv'
  BY <1>3, Zenon DEF SessionInv, TurnInv, FrameInv, FrameOK, Looping, Known
<1>7. NoneLeftOpen' /\ TurnKnown' /\ \A c \in Commands : TodoInv(c)'
  BY <1>3, Zenon DEF SessionInv, NoneLeftOpen, TurnKnown, TodoInv
<1>. QED BY <1>2, <1>4, <1>5, <1>6, <1>7, Quiet, Zenon DEF SessionInv

LEMMA DeadlineStep ==
  ASSUME NoOneAssumption, SessionInv, NEW x \in Commands \cup Approvals, PassDeadline(x)
  PROVE  SessionInv'
<1>. USE DEF PassDeadline
<1>1. SessionTypeOK'
  BY Zenon DEF SessionInv, SessionTypeOK, SessionTables
<1>2. CommandsKept /\ MemoryKept /\ AnswersKept /\ QueueKept
  BY Zenon DEF CommandsKept, MemoryKept, AnswersKept, QueueKept
<1>. QED BY <1>1, <1>2, Quiet, Frames, Bystander, SMTT(30) DEF SessionInv

Native == [process : {"none", "running", "gone"}, turn : BOOLEAN, done : BOOLEAN,
           request : [Approvals -> {"none", "asked", "resolved"}],
           wire : [Commands -> Nat], answers : [Approvals -> Nat]]

LEMMA FailFacts ==
  ASSUME transport \in Transport
  PROVE  /\ fail(transport) \in Transport
         /\ fail(transport).queue = transport.queue
         /\ fail(transport).incoming = transport.incoming
         /\ \A c \in Commands : transport.reply[c] \in {"ok", "refused"} =>
                                  fail(transport).reply[c] = transport.reply[c]
         /\ transport.stop_reply \in {"ok", "refused"} =>
              fail(transport).stop_reply = transport.stop_reply
         /\ fail(transport).stop_reply = "none" <=> transport.stop_reply = "none"
  BY FailType, Zenon DEF Transport, fail, Lost

(* A frame of the server that says what has happened comes, or the queue is  *)
(* full and the transport fails.                                             *)
LEMMA ReadFrame ==
  ASSUME NoOneAssumption, SessionInv, NEW kind, NEW on, read_frame(kind, on),
         [kind |-> kind, on |-> on] \in Frame, FrameOK([kind |-> kind, on |-> on])',
         kind = "request" => native.request[on] = "none",
         native' \in Native, native'.wire = native.wire, native'.answers = native.answers,
         native'.turn = native.turn, native.done => native'.done,
         \A a \in Approvals : \/ native'.request[a] = native.request[a]
                              \/ native.request[a] = "none" /\ native'.request[a] = "asked"
                              \/ native.request[a] = "asked" /\ native'.request[a] = "resolved",
         kind = "request" => native'.request[on] = "asked"
  PROVE  SessionInv'
<1>. DEFINE f == [kind |-> kind, on |-> on]
            t == [transport EXCEPT !.queue = Append(transport.queue, f),
                    !.incoming = [a \in Approvals |-> IF kind = "request" /\ a = on THEN "open"
                                                      ELSE transport.incoming[a]]]
<1>0. transport \in Transport /\ transport.queue \in Seq(Frame)
  BY Zenon DEF SessionInv, SessionTypeOK, Transport
<1>1. transport' = fail(transport) \/ transport' = t
  BY Zenon DEF read_frame
<1>2. t \in Transport
  <2>. DEFINE q == Append(transport.queue, f)
              g == [a \in Approvals |-> IF kind = "request" /\ a = on THEN "open"
                                        ELSE transport.incoming[a]]
  <2>1. q \in Seq(Frame) /\ g \in [Approvals -> {"none", "open", "answered"}]
    BY <1>0 DEF Transport
  <2>2. t = [transport EXCEPT !.queue = q, !.incoming = g]
    OBVIOUS
  <2>. HIDE DEF q, g, t
  <2>. QED BY <1>0, <2>1, <2>2, Zenon DEF Transport
<1>3. transport' \in Transport
  BY <1>0, <1>1, <1>2, FailFacts, Zenon
<1>4. SessionTypeOK'
  BY <1>3, Zenon DEF SessionInv, SessionTypeOK, SessionTables, read_frame, Transport, Native
<1>5. CommandsKept /\ MemoryKept
  BY <1>0, <1>1, FailFacts DEF CommandsKept, MemoryKept, read_frame, Transport
<1>6. transport'.stop_reply = "none" <=> transport.stop_reply = "none"
  BY <1>0, <1>1, FailFacts, Zenon DEF Transport
<1>7. FrameInv'
  <2>1. CASE transport' = fail(transport)
    BY <2>1, <1>0, FailFacts, Frames, Zenon DEF QueueKept
  <2>2. CASE transport' = t
    <3>. SUFFICES ASSUME NEW i \in 1..Len(transport'.queue) PROVE FrameOK(transport.queue[i])'
      BY Zenon DEF FrameInv
    <3>. DEFINE q == transport.queue
    <3>1. transport'.queue = Append(q, f)
      BY <1>0, <2>2, Zenon DEF Transport
    <3>. HIDE DEF f, q, t
    <3>2. /\ Len(Append(q, f)) = Len(q) + 1 /\ Len(q) \in Nat /\ Append(q, f)[Len(q) + 1] = f
          /\ \A k \in 1..Len(q) : Append(q, f)[k] = q[k]
      BY <1>0 DEF q, f
    <3>3. CASE i = Len(q) + 1
      BY <3>1, <3>2, <3>3, Zenon DEF f, FrameOK
    <3>4. CASE i \in 1..Len(q)
      <4>1. FrameOK(q[i])
        BY <3>4, Zenon DEF SessionInv, FrameInv, q
      <4>. QED BY <3>1, <3>2, <3>4, <4>1 DEF FrameOK
    <3>. QED BY <3>1, <3>2, <3>3, <3>4
  <2>. QED BY <1>1, <2>1, <2>2, Zenon
<1>8. ASSUME NEW a \in Approvals PROVE ApprovalInv(a)'
  <2>1. ApprovalInv(a)
    BY Zenon DEF SessionInv
  <2>2. UNCHANGED <<ex, command>>
    BY Zenon DEF read_frame
  <2>3. \/ transport'.incoming[a] = transport.incoming[a]
        \/ transport'.incoming[a] = "open" /\ native'.request[a] = "asked" /\ native.request[a] = "none"
    <3>1. CASE transport' = fail(transport)
      BY <3>1, <1>0, FailFacts, Zenon
    <3>2. CASE transport' = t
      <4>1. transport'.incoming[a] = IF kind = "request" /\ a = on THEN "open"
                                     ELSE transport.incoming[a]
        BY <3>2, <1>0, Zenon DEF Transport
      <4>. QED BY <4>1, Zenon
    <3>. QED BY <1>1, <3>1, <3>2, Zenon
  <2>. QED BY <2>1, <2>2, <2>3, Zenon DEF ApprovalInv
<1>9. StatusIsTrue' /\ \A c \in Commands : CommandInv(c)'
  <2>. QED BY <1>5, QuietCommands, Zenon
<1>. QED BY <1>4, <1>6, <1>7, <1>8, <1>9, Bystander, Zenon DEF SessionInv, read_frame

LEMMA ServerStep ==
  ASSUME NoOneAssumption, NoApprovalAssumption, SessionInv,
         Complete \/ Misbehave \/ \E a \in Approvals : Ask(a) \/ Resolve(a) \/ Change(a)
  PROVE  SessionInv'
<1>0. native \in Native
  BY Zenon DEF SessionInv, SessionTypeOK, Native
<1>1. ASSUME NEW a \in Approvals, Ask(a) PROVE SessionInv'
  BY <1>0, <1>1, ReadFrame, Zenon DEF Ask, FrameOK, Native, Frame
<1>2. ASSUME NEW a \in Approvals, Resolve(a) PROVE SessionInv'
  BY <1>0, <1>2, ReadFrame, Zenon DEF Resolve, FrameOK, Native, Frame
<1>3. ASSUME NEW a \in Approvals, Change(a) PROVE SessionInv'
  BY <1>0, <1>3, ReadFrame, Zenon DEF Change, FrameOK, Native, Frame
<1>4. ASSUME Complete PROVE SessionInv'
  BY <1>0, <1>4, ReadFrame, Zenon DEF Complete, FrameOK, Native, Frame
<1>5. ASSUME Misbehave PROVE SessionInv'
  BY <1>0, <1>5, ReadFrame, Zenon DEF Misbehave, FrameOK, Native, Frame
<1>. QED BY <1>1, <1>2, <1>3, <1>4, <1>5, Zenon

LEMMA RespondStep ==
  ASSUME NoOneAssumption, SessionInv, NEW c \in Commands, NEW r \in {"ok", "refused"}, Respond(c, r)
  PROVE  SessionInv'
<1>. USE DEF Respond
<1>0. transport \in Transport
  BY Zenon DEF SessionInv, SessionTypeOK, Transport
<1>1. transport' \in Transport
  BY <1>0, Zenon DEF Transport, Reply
<1>2. SessionTypeOK'
  BY <1>1, Zenon DEF SessionInv, SessionTypeOK, SessionTables, Transport
<1>3. CommandsKept /\ MemoryKept /\ AnswersKept /\ QueueKept
  BY <1>0, Zenon DEF CommandsKept, MemoryKept, AnswersKept, QueueKept, ReplyOf, Transport
<1>4. transport'.stop_reply = "none" <=> transport.stop_reply = "none"
  BY <1>0, Zenon DEF Transport, ReplyOf
<1>. QED BY <1>2, <1>3, <1>4, Quiet, Frames, Bystander, Zenon DEF SessionInv

LEMMA ExitStep ==
  ASSUME NoOneAssumption, SessionInv, Exit
  PROVE  SessionInv'
<1>. USE DEF Exit
<1>0. transport \in Transport
  BY Zenon DEF SessionInv, SessionTypeOK, Transport
<1>1. SessionTypeOK'
  BY <1>0, FailFacts, Zenon DEF SessionInv, SessionTypeOK, SessionTables, Transport
<1>2. CommandsKept /\ MemoryKept /\ AnswersKept /\ QueueKept
  BY <1>0, FailFacts, Zenon DEF CommandsKept, MemoryKept, AnswersKept, QueueKept
<1>3. transport'.stop_reply = "none" <=> transport.stop_reply = "none"
  BY <1>0, FailFacts, Zenon
<1>. QED BY <1>1, <1>2, <1>3, Quiet, Frames, Bystander, Zenon DEF SessionInv

-----------------------------------------------------------------------------
(* The executor up to the first turn. *)

LEMMA LeavesFacts ==
  ASSUME SessionInv, NEW cancels \in BOOLEAN, NEW error \in BOOLEAN, Leaves(cancels, error)
  PROVE  /\ ex' \in Executor /\ MemoryKept
         /\ ex'.pc = "finally" /\ ex'.cur = NoOne /\ ~ex'.stop
         /\ ex'.pending = ex.pending /\ ex'.resolutions = ex.resolutions
         /\ ex'.terminal = ex.terminal /\ ex'.dispatched = ex.dispatched /\ ex'.error = error
         /\ \A a \in Approvals : ex'.sent[a] = NoOne
<1>1. ex \in Executor
  BY Zenon DEF SessionInv, SessionTypeOK
<1>2. ex' \in Executor
  BY <1>1, LeavesType, Zenon
<1>3. /\ ex'.pc = "finally" /\ ex'.cur = NoOne /\ ex'.stop = FALSE
      /\ ex'.pending = ex.pending /\ ex'.resolutions = ex.resolutions
      /\ ex'.terminal = ex.terminal /\ ex'.dispatched = ex.dispatched /\ ex'.error = error
      /\ \A a \in Approvals : ex'.sent[a] = NoOne
  BY Zenon DEF Leaves, Fresh
<1>. QED BY <1>1, <1>2, <1>3, Zenon DEF MemoryKept

(* The executor leaves for the end of the session. *)
LEMMA LeaveStep ==
  ASSUME SessionInv, NEW cancels \in BOOLEAN, NEW error \in BOOLEAN, Leaves(cancels, error),
         native'.turn => ex.dispatched, native.done => native'.done,
         native'.turn /\ ~error => Known', run'.status = "running", NoOneAssumption
  PROVE  FlowInv' /\ TurnInv' /\ \A c \in Commands : TodoInv(c)'
<1>1. FlowInv'
  BY LeavesFacts, Zenon DEF FlowInv, Looping, Opening
<1>2. TurnInv'
  <2>1. ex.terminal => native.done
    BY Zenon DEF SessionInv, TurnInv
  <2>. HIDE DEF Known
  <2>. QED BY <2>1, LeavesFacts, Zenon DEF TurnInv, Looping
<1>3. \A c \in Commands : TodoInv(c)'
  BY LeavesFacts, Zenon DEF TodoInv, NoOneAssumption
<1>. QED BY <1>1, <1>2, <1>3, Zenon

LEMMA PrepareStep ==
  ASSUME NoOneAssumption, SessionInv, Prepare
  PROVE  SessionInv'
<1>. USE DEF Prepare
<1>0. ex \in Executor /\ ex.pc = "idle" /\ ~native.turn /\ \A c \in Commands : command[c].status = "none"
  BY Zenon DEF SessionInv, SessionTypeOK, FlowInv, Opening
<1>1. /\ ex' \in Executor /\ ex'.pc \in {"spawn", "done"} /\ ex'.cur = ex.cur
      /\ ex'.pending = ex.pending /\ ex'.resolutions = ex.resolutions /\ ex'.sent = ex.sent
      /\ ex'.cancel = ex.cancel /\ ex'.stop = ex.stop /\ ex'.terminal = ex.terminal
  <2>1. CASE Goes("spawn")
    BY <1>0, <2>1, Zenon DEF Goes, Executor, Step
  <2>2. CASE Raises
    BY <1>0, <2>2, Zenon DEF Raises, Executor, Step, Outcome
  <2>. QED BY <2>1, <2>2, Zenon
<1>2. /\ session' \in SessionRow /\ session'.state # "active"
      /\ ex'.pc = "spawn" => session'.state = "prepared"
  <2>1. session \in SessionRow /\ session.state = "none"
    BY Zenon DEF SessionInv, SessionTypeOK, SessionTables, SessionRow
  <2>2. CASE create
    BY <2>2, Zenon DEF create, SessionRow, SessionState, ApprovalState
  <2>3. CASE session' = [session EXCEPT !.state = "terminal"] /\ ex'.pc = "done"
    BY <2>1, <2>3, Zenon DEF SessionRow, SessionState, Closed
  <2>4. CASE session' = session /\ ex'.pc = "done"
    BY <2>1, <2>4, Zenon
  <2>5. \/ create
        \/ session' = [session EXCEPT !.state = "terminal"] /\ ex'.pc = "done"
        \/ session' = session /\ ex'.pc = "done"
    BY <1>0, Zenon DEF Raises, Executor
  <2>. QED BY <2>2, <2>3, <2>4, <2>5, Zenon
<1>3. SessionTypeOK'
  BY <1>1, <1>2, Zenon DEF SessionInv, SessionTypeOK, SessionTables, SessionRow
<1>4. CommandsKept /\ MemoryKept /\ AnswersKept /\ QueueKept
  BY <1>1, Zenon DEF CommandsKept, MemoryKept, AnswersKept, QueueKept
<1>5. FlowInv' /\ TurnInv'
  BY <1>0, <1>1, <1>2, Zenon DEF SessionInv, FlowInv, TurnInv, Opening, Looping
<1>6. TurnKnown' /\ NoneLeftOpen' /\ \A c \in Commands : TodoInv(c)'
  BY <1>0, <1>1, Zenon DEF TurnKnown, NoneLeftOpen, TodoInv, Open
<1>. QED BY <1>3, <1>4, <1>5, <1>6, Quiet, Frames, Zenon DEF SessionInv

(* One more step towards the turn: the session moves on, and no command is   *)
(* touched.                                                                  *)
LEMMA OpeningStep ==
  ASSUME NoOneAssumption, SessionInv, NEW pc \in Opening \ {"idle"}, ex.pc \in Opening \ {"idle"},
         ex' = [ex EXCEPT !.pc = pc, !.dispatched = ex'.dispatched], ex'.dispatched \in BOOLEAN,
         pc = "turn" => ex'.dispatched, native' \in Native,
         native' = [native EXCEPT !.process = native'.process],
         session' \in SessionRow, session'.state \in {"none", "prepared", "starting"},
         UNCHANGED <<run, command, late, transport, crashes>>
  PROVE  SessionInv'
<1>0. ex \in Executor /\ native \in Native /\ pc \in Step
  BY Zenon DEF SessionInv, SessionTypeOK, Native, Opening, Step
<1>1. /\ ex' \in Executor /\ ex'.pc = pc /\ ex'.cur = ex.cur
      /\ ex'.pending = ex.pending /\ ex'.resolutions = ex.resolutions /\ ex'.sent = ex.sent
      /\ ex'.cancel = ex.cancel /\ ex'.stop = ex.stop /\ ex'.terminal = ex.terminal
  BY <1>0, Zenon DEF Executor
<1>2. /\ native'.turn = native.turn /\ native'.done = native.done /\ native'.wire = native.wire
      /\ native'.answers = native.answers /\ native'.request = native.request
  BY <1>0, Zenon DEF Native
<1>3. SessionTypeOK'
  BY <1>1, Zenon DEF SessionInv, SessionTypeOK, SessionTables, Native, SessionRow
<1>4. CommandsKept /\ MemoryKept /\ AnswersKept /\ QueueKept
  BY <1>1, <1>2, Zenon DEF CommandsKept, MemoryKept, AnswersKept, QueueKept
<1>5. FlowInv' /\ TurnInv'
  BY <1>1, <1>2 DEF SessionInv, FlowInv, TurnInv, Opening, Looping
<1>6. NoneLeftOpen' /\ TurnKnown'
  BY <1>2, StillOpen, StillKnown, Zenon DEF Known
<1>7. \A c \in Commands : TodoInv(c)'
  BY <1>1, Zenon DEF TodoInv, Opening
<1>. QED BY <1>3, <1>4, <1>5, <1>6, <1>7, Quiet, Frames, Zenon DEF SessionInv

LEMMA TransitionType ==
  ASSUME SessionInv, NEW state \in SessionState, NEW approvals \in [Approvals -> ApprovalState],
         NEW bound \in BOOLEAN, transition(state, approvals, bound)
  PROVE  session' \in SessionRow /\ session'.state = state
<1>. DEFINE cur == IF bound \/ state # session.state \/ approvals # session.approval
                   THEN {} ELSE session.current
<1>1. cur \in SUBSET Commands
  BY Zenon DEF SessionInv, SessionTypeOK, SessionTables
<1>2. session' = [state |-> state, approval |-> approvals, current |-> cur]
  BY Zenon DEF transition
<1>. HIDE DEF cur
<1>. QED BY <1>1, <1>2, Zenon DEF SessionRow

(* A step of the opening fails: the session goes to its end. *)
LEMMA OpeningFails ==
  ASSUME NoOneAssumption, SessionInv, ex.pc \in Opening \ {"idle"}, Fails,
         native' = [native EXCEPT !.turn = native'.turn], native'.turn \in BOOLEAN,
         native'.turn => ex.dispatched, UNCHANGED <<run, command, late, transport, crashes>>,
         session' = session \/ (session' \in SessionRow /\ session'.state = "starting")
  PROVE  SessionInv'
<1>0. native \in Native /\ ~native.turn /\ Leaves(FALSE, TRUE) /\ session' \in SessionRow
  BY Zenon DEF SessionInv, SessionTypeOK, SessionTables, SessionRow, Native, FlowInv, Fails
<1>1. ex' \in Executor /\ MemoryKept
  BY <1>0, LeavesFacts, Zenon
<1>2. /\ native' \in Native /\ native'.done = native.done /\ native'.wire = native.wire
      /\ native'.answers = native.answers /\ native'.request = native.request
  BY <1>0, Zenon DEF Native
<1>3. SessionTypeOK'
  BY <1>0, <1>1, <1>2, Zenon DEF SessionInv, SessionTypeOK, SessionTables, SessionRow, Native
<1>4. CommandsKept /\ AnswersKept /\ QueueKept
  BY <1>2, Zenon DEF CommandsKept, AnswersKept, QueueKept
<1>5. run.status = "running"
  BY Zenon DEF SessionInv, FlowInv, Opening
<1>6. NoneLeftOpen'
  BY StillOpen, Zenon
<1>7. FlowInv' /\ TurnInv' /\ \A c \in Commands : TodoInv(c)'
  BY <1>0, <1>2, <1>5, LeaveStep, Zenon
<1>8. TurnKnown'
  BY <1>5, Zenon DEF TurnKnown
<1>. QED BY <1>1, <1>3, <1>4, <1>6, <1>7, <1>8, Quiet, Frames, Zenon DEF SessionInv

LEMMA SpawnStep ==
  ASSUME NoOneAssumption, SessionInv, Spawn
  PROVE  SessionInv'
<1>. USE DEF Spawn
<1>0. /\ ex \in Executor /\ native \in Native /\ session \in SessionRow
      /\ ex.pc = "spawn" /\ ex.dispatched \in BOOLEAN /\ ~native.turn
  BY Zenon
     DEF SessionInv, SessionTypeOK, SessionTables, SessionRow, Executor, Native, FlowInv, Opening
<1>1. CASE native' = [native EXCEPT !.process = "running"] /\ Goes("starting")
  <2>1. /\ ex' = [ex EXCEPT !.pc = "starting", !.dispatched = ex'.dispatched]
        /\ ex'.dispatched \in BOOLEAN
    BY <1>0, <1>1, Zenon DEF Goes, Executor
  <2>2. native' \in Native /\ native' = [native EXCEPT !.process = native'.process]
    BY <1>0, <1>1, Zenon DEF Native
  <2>3. session.state \in {"none", "prepared", "starting"}
    BY <1>0, Zenon DEF SessionInv, FlowInv, Opening
  <2>. QED BY <1>0, <2>1, <2>2, <2>3, OpeningStep, Zenon DEF Opening
<1>2. CASE native' = native /\ Fails
  <2>1. native' = [native EXCEPT !.turn = native'.turn] /\ native'.turn \in BOOLEAN
    BY <1>0, <1>2, Zenon DEF Native
  <2>. QED BY <1>0, <1>2, <2>1, OpeningFails, Zenon DEF Opening
<1>. QED BY <1>1, <1>2, Zenon

LEMMA StartingStep ==
  ASSUME NoOneAssumption, SessionInv, Starting
  PROVE  SessionInv'
<1>. USE DEF Starting
<1>0. /\ ex \in Executor /\ native \in Native /\ ex.pc = "starting" /\ ex.dispatched \in BOOLEAN
      /\ session.approval \in [Approvals -> ApprovalState]
  BY Zenon DEF SessionInv, SessionTypeOK, SessionTables, Executor, Native
<1>1. session' \in SessionRow /\ session'.state = "starting"
  BY <1>0, TransitionType, Zenon DEF SessionState
<1>2. CASE Goes("thread")
  <2>1. /\ ex' = [ex EXCEPT !.pc = "thread", !.dispatched = ex'.dispatched]
        /\ ex'.dispatched \in BOOLEAN /\ native' = [native EXCEPT !.process = native'.process]
    BY <1>0, <1>2, Zenon DEF Goes, Executor, Native
  <2>. QED BY <1>0, <1>1, <2>1, OpeningStep, Zenon DEF Opening
<1>3. CASE Fails
  <2>1. /\ native' = [native EXCEPT !.turn = native'.turn] /\ native'.turn \in BOOLEAN
        /\ ~native'.turn
    BY <1>0, Zenon DEF SessionInv, FlowInv, Opening, Native
  <2>. QED BY <1>0, <1>1, <1>3, <2>1, OpeningFails, Zenon DEF Opening
<1>. QED BY <1>2, <1>3, Zenon

LEMMA StartThreadStep ==
  ASSUME NoOneAssumption, SessionInv, StartThread
  PROVE  SessionInv'
<1>. USE DEF StartThread
<1>0. /\ ex \in Executor /\ native \in Native /\ ex.pc = "thread" /\ ex.dispatched \in BOOLEAN
      /\ session.approval \in [Approvals -> ApprovalState] /\ session.state \in SessionState
      /\ ~native.turn /\ session.state \in {"none", "prepared", "starting"}
  BY Zenon DEF SessionInv, SessionTypeOK, SessionTables, Executor, Native, FlowInv, Opening
<1>1. native' = [native EXCEPT !.process = native'.process] /\ native' = [native EXCEPT !.turn = native'.turn]
  BY <1>0, Zenon DEF Native
<1>2. CASE Goes("intent") /\ transition(session.state, session.approval, TRUE)
  <2>1. session' \in SessionRow /\ session'.state = session.state
    BY <1>0, <1>2, TransitionType, Zenon
  <2>2. ex' = [ex EXCEPT !.pc = "intent", !.dispatched = ex'.dispatched] /\ ex'.dispatched \in BOOLEAN
    BY <1>0, <1>2, Zenon DEF Goes, Executor
  <2>. QED BY <1>0, <1>1, <2>1, <2>2, OpeningStep, ZenonT(30) DEF Opening
<1>3. CASE session' = session /\ Fails
  BY <1>0, <1>1, <1>3, OpeningFails, Zenon DEF Opening, Native
<1>. QED BY <1>2, <1>3, Zenon

LEMMA DispatchIntentStep ==
  ASSUME NoOneAssumption, SessionInv, DispatchIntent
  PROVE  SessionInv'
<1>. USE DEF DispatchIntent
<1>0. /\ ex \in Executor /\ native \in Native /\ ex.pc = "intent" /\ session \in SessionRow
      /\ ~native.turn /\ session.state \in {"none", "prepared", "starting"}
  BY Zenon DEF SessionInv, SessionTypeOK, SessionTables, SessionRow, Native, FlowInv, Opening
<1>1. native' = [native EXCEPT !.process = native'.process] /\ native' = [native EXCEPT !.turn = native'.turn]
  BY <1>0, Zenon DEF Native
<1>2. CASE Fails
  BY <1>0, <1>1, <1>2, OpeningFails, SMTT(30) DEF Opening, Native
<1>3. CASE ex' = [ex EXCEPT !.pc = "turn", !.dispatched = TRUE]
  <2>1. ex' = [ex EXCEPT !.pc = "turn", !.dispatched = ex'.dispatched] /\ ex'.dispatched = TRUE
    BY <1>0, <1>3, Zenon DEF Executor
  <2>. QED BY <1>0, <1>1, <2>1, OpeningStep, Zenon DEF Opening
<1>. QED BY <1>2, <1>3, Zenon

LEMMA StartTurnStep ==
  ASSUME NoOneAssumption, SessionInv, StartTurn
  PROVE  SessionInv'
<1>. USE DEF StartTurn
<1>0. /\ ex \in Executor /\ native \in Native /\ ex.pc = "turn" /\ ex.dispatched
      /\ ~native.turn /\ session.approval \in [Approvals -> ApprovalState] /\ run.status = "running"
  BY Zenon DEF SessionInv, SessionTypeOK, SessionTables, Native, FlowInv, TurnInv, Opening
<1>1. CASE /\ native' = [native EXCEPT !.turn = TRUE] /\ Goes("loop")
           /\ transition("active", session.approval, TRUE)
  <2>1. session' \in SessionRow /\ session'.state = "active"
    BY <1>0, <1>1, TransitionType, Zenon DEF SessionState
  <2>2. /\ ex' \in Executor /\ ex'.pc = "loop" /\ ex'.cur = ex.cur
        /\ ex'.pending = ex.pending /\ ex'.resolutions = ex.resolutions /\ ex'.sent = ex.sent
        /\ ex'.cancel = ex.cancel /\ ex'.stop = ex.stop /\ ex'.terminal = ex.terminal
        /\ ex'.dispatched = ex.dispatched
    BY <1>0, <1>1, Zenon DEF Goes, Executor, Step
  <2>3. /\ native' \in Native /\ native'.done = native.done /\ native'.wire = native.wire
        /\ native'.answers = native.answers /\ native'.request = native.request
    BY <1>0, <1>1, Zenon DEF Native
  <2>4. SessionTypeOK'
    BY <2>1, <2>2, <2>3, Zenon DEF SessionInv, SessionTypeOK, SessionTables, Native, SessionRow
  <2>5. CommandsKept /\ MemoryKept /\ AnswersKept /\ QueueKept
    BY <2>2, <2>3, Zenon DEF CommandsKept, MemoryKept, AnswersKept, QueueKept
  <2>6. FlowInv' /\ TurnInv'
    BY <1>0, <2>1, <2>2, <2>3, Zenon DEF SessionInv, FlowInv, TurnInv, Opening, Looping
  <2>7. NoneLeftOpen' /\ TurnKnown' /\ \A c \in Commands : TodoInv(c)'
    BY <1>0, <2>1, <2>2, Zenon DEF NoneLeftOpen, TurnKnown, TodoInv
  <2>. QED BY <2>4, <2>5, <2>6, <2>7, Quiet, Frames, Zenon DEF SessionInv
<1>2. CASE /\ session' = session /\ Fails
           /\ native' = native \/ native' = [native EXCEPT !.turn = TRUE]
  <2>1. native' = [native EXCEPT !.turn = native'.turn] /\ native'.turn \in BOOLEAN
    BY <1>0, <1>2, Zenon DEF Native
  <2>. QED BY <1>0, <1>2, <2>1, OpeningFails, Zenon DEF Opening
<1>. QED BY <1>1, <1>2, Zenon

-----------------------------------------------------------------------------
(* _event and the rounds of _loop. *)

LEMMA HeadFacts ==
  ASSUME SessionInv, transport.queue # <<>>
  PROVE  Head(transport.queue) \in Frame /\ FrameOK(Head(transport.queue))
<1>1. transport.queue \in Seq(Frame)
  BY Zenon DEF SessionInv, SessionTypeOK
<1>2. 1 \in 1..Len(transport.queue) /\ Head(transport.queue) = transport.queue[1]
  BY <1>1
<1>. QED BY <1>1, <1>2 DEF SessionInv, FrameInv

LEMMA TakeFrameFacts ==
  ASSUME SessionInv, transport.queue # <<>>, TakeFrame, UNCHANGED native
  PROVE  /\ transport' \in Transport /\ QueueKept
         /\ transport'.incoming = transport.incoming /\ transport'.reply = transport.reply
         /\ transport'.stop_reply = transport.stop_reply
<1>1. transport \in Transport /\ transport.queue \in Seq(Frame)
  BY Zenon DEF SessionInv, SessionTypeOK, Transport
<1>. DEFINE q == Tail(transport.queue)
<1>2. q \in Seq(Frame)
  BY <1>1
<1>3. transport' = [transport EXCEPT !.queue = q]
  BY Zenon DEF TakeFrame
<1>4. transport'.queue = Tail(transport.queue)
  BY <1>1, <1>3, Zenon DEF Transport
<1>. HIDE DEF q
<1>5. /\ transport' \in Transport
      /\ transport'.incoming = transport.incoming /\ transport'.reply = transport.reply
      /\ transport'.stop_reply = transport.stop_reply
  BY <1>1, <1>2, <1>3, Zenon DEF Transport
<1>. QED BY <1>4, <1>5, Zenon DEF QueueKept

LEMMA EventStep ==
  ASSUME NoOneAssumption, SessionInv, transport.queue # <<>>, TakeFrame, event(Head(transport.queue)),
         ex.pc \in {"loop", "drain"}, UNCHANGED <<run, command, late, native, crashes>>
  PROVE  SessionInv'
<1>. DEFINE f == Head(transport.queue)
<1>1. f \in Frame /\ FrameOK(f)
  BY HeadFacts, Zenon
<1>. HIDE DEF f
<1>2. /\ transport' \in Transport /\ QueueKept
      /\ transport'.incoming = transport.incoming /\ transport'.reply = transport.reply
      /\ transport'.stop_reply = transport.stop_reply
  BY TakeFrameFacts, Zenon
<1>3. ex \in Executor /\ session \in SessionRow
  BY Zenon DEF SessionInv, SessionTypeOK, SessionTables, SessionRow
<1>4. CASE ex.terminal
  <2>1. UNCHANGED <<session, ex>>
    BY <1>4, Zenon DEF event
  <2>2. SessionTypeOK'
    BY <1>2, <2>1, Zenon DEF SessionInv, SessionTypeOK, SessionTables, Transport
  <2>3. CommandsKept /\ MemoryKept /\ AnswersKept
    BY <1>2, <2>1, Zenon DEF CommandsKept, MemoryKept, AnswersKept
  <2>. QED BY <1>2, <2>1, <2>2, <2>3, Quiet, Frames, Bystander, Zenon DEF SessionInv
<1>5. CASE ~ex.terminal
  <2>1. transition(session.state, event_approvals(f), FALSE) /\ ex' = event_memory(f)
    BY <1>5, Zenon DEF event, f
  <2>2. event_approvals(f) \in [Approvals -> ApprovalState] /\ ex' \in Executor
    BY <1>1, <2>1, EventType, Zenon
  <2>3. session' \in SessionRow /\ session'.state = session.state
    BY <1>3, <2>1, <2>2, TransitionType, Zenon DEF SessionRow
  <2>4. /\ ex'.pc = ex.pc /\ ex'.cur = ex.cur /\ ex'.todo = ex.todo /\ ex'.pending = ex.pending
        /\ ex'.cancel = ex.cancel /\ ex'.dispatched = ex.dispatched /\ ex'.stop = ex.stop
        /\ ex'.terminal = (f.kind = "completed")
    BY <1>3, <2>1, Zenon DEF event_memory, Executor
  <2>5. \A a \in Approvals : ex'.sent[a] = IF f.kind = "resolved" /\ ex.sent[f.on] # NoOne /\ a = f.on
                                           THEN NoOne ELSE ex.sent[a]
    BY <1>3, <2>1, Zenon DEF event_memory, Executor
  <2>6. ex'.resolutions = IF f.kind = "resolved" /\ ex.sent[f.on] # NoOne /\ ~ex.cancel
                          THEN ex.resolutions \cup {ex.sent[f.on]} ELSE ex.resolutions
    BY <1>3, <2>1, Zenon DEF event_memory, Executor
  <2>7. SessionTypeOK'
    BY <1>2, <2>2, <2>3, Zenon DEF SessionInv, SessionTypeOK, SessionTables, Transport, SessionRow
  <2>8. FlowInv'
    BY <1>2, <2>3, <2>4, Zenon DEF SessionInv, FlowInv, Looping, Opening
  <2>9. TurnInv'
    BY <1>1, <1>2, <2>4, Zenon DEF SessionInv, FlowInv, TurnInv, Looping, FrameOK, Known
  <2>10. ASSUME NEW c \in Commands PROVE CommandInv(c)'
    <3>1. CommandInv(c)
      BY Zenon DEF SessionInv
    <3>2. CASE c \in ex.resolutions \/ c \notin ex'.resolutions
      BY <3>1, <3>2, <2>4, Zenon DEF CommandInv
    <3>3. CASE c \notin ex.resolutions /\ c \in ex'.resolutions
      <4>1. f.kind = "resolved" /\ f.on \in Approvals /\ c = ex.sent[f.on] /\ c # NoOne
        BY <3>3, <2>6, <1>1, NoOneAssumption, Zenon DEF FrameOK
      <4>2. ApprovalInv(f.on)
        BY <4>1, Zenon DEF SessionInv
      <4>. QED BY <3>1, <4>1, <4>2, <1>1, <2>4, Zenon DEF CommandInv, ApprovalInv, FrameOK
    <3>. QED BY <3>2, <3>3, Zenon
  <2>11. ASSUME NEW a \in Approvals PROVE ApprovalInv(a)'
    <3>1. ApprovalInv(a) /\ (f.kind = "resolved" => ApprovalInv(f.on) /\ f.on \in Approvals)
      BY <1>1, Zenon DEF SessionInv, FrameOK
    <3>2. ex'.sent[a] # NoOne => ex'.sent[a] = ex.sent[a] /\ ex.sent[a] \notin ex'.resolutions
      BY <3>1, <2>5, <2>6 DEF ApprovalInv
    <3>. QED BY <3>1, <3>2, <1>2, <2>4, Zenon DEF ApprovalInv
  <2>12. StatusIsTrue'
    BY <1>2 DEF SessionInv, StatusIsTrue, ReplyOf
  <2>13. NoneLeftOpen' /\ TurnKnown'
    BY <1>2, <2>3, StillOpen, StillKnown, Zenon DEF Known
  <2>14. \A c \in Commands : TodoInv(c)'
    BY <2>4, Zenon DEF SessionInv, TodoInv
  <2>. QED BY <1>2, <2>7, <2>8, <2>9, <2>10, <2>11, <2>12, <2>13, <2>14, Frames, Zenon
              DEF SessionInv
<1>. QED BY <1>4, <1>5, Zenon

(* The executor goes on in a round of _loop and touches no command. *)
LEMMA RoundStep ==
  ASSUME NoOneAssumption, SessionInv, Looping, ex' \in Executor,
         ex'.pc \in {"loop", "acks", "commands"}, ex'.cur = NoOne, ex'.pending = ex.pending,
         ex'.resolutions = ex.resolutions, ex'.sent = ex.sent, ex'.dispatched = ex.dispatched,
         ex'.terminal = ex.terminal, ex'.stop = ex.stop,
         UNCHANGED <<run, session, command, late, native, crashes>>,
         transport' \in Transport, CommandsKept, AnswersKept, QueueKept,
         ex'.cancel <=> transport'.stop_reply # "none", \A c \in Commands : TodoInv(c)'
  PROVE  SessionInv'
<1>1. SessionTypeOK'
  BY Zenon DEF SessionInv, SessionTypeOK, SessionTables, Transport
<1>2. MemoryKept /\ run.status = "running"
  BY Zenon DEF MemoryKept, SessionInv, FlowInv, Looping
<1>3. FlowInv'
  BY <1>2, Zenon DEF SessionInv, FlowInv, Looping, Opening
<1>4. TurnInv'
  BY Zenon DEF SessionInv, FlowInv, TurnInv, Looping
<1>5. NoneLeftOpen' /\ TurnKnown'
  BY <1>2, StillOpen, Zenon DEF TurnKnown
<1>. QED BY <1>1, <1>2, <1>3, <1>4, <1>5, Quiet, Frames, Zenon DEF SessionInv

(* The executor leaves _loop and has touched no command. *)
LEMMA LeaveRound ==
  ASSUME NoOneAssumption, SessionInv, Looping, NEW cancels \in BOOLEAN, NEW error \in BOOLEAN,
         Leaves(cancels, error), UNCHANGED <<run, session, command, late, native, crashes>>,
         transport' \in Transport, CommandsKept, AnswersKept, QueueKept,
         native.turn /\ ~error => Known'
  PROVE  SessionInv'
<1>1. ex' \in Executor /\ MemoryKept
  BY LeavesFacts, Zenon
<1>2. SessionTypeOK'
  BY <1>1, Zenon DEF SessionInv, SessionTypeOK, SessionTables, Transport
<1>3. run.status = "running" /\ (native.turn => ex.dispatched)
  BY Zenon DEF SessionInv, FlowInv, TurnInv, Looping
<1>4. FlowInv' /\ TurnInv' /\ \A c \in Commands : TodoInv(c)'
  BY <1>3, LeaveStep, Zenon
<1>5. NoneLeftOpen' /\ TurnKnown'
  BY <1>3, StillOpen, Zenon DEF TurnKnown
<1>. QED BY <1>1, <1>2, <1>4, <1>5, Quiet, Frames, Zenon DEF SessionInv

LEMMA PollStep ==
  ASSUME NoOneAssumption, SessionInv, Poll
  PROVE  SessionInv'
<1>. USE DEF Poll
<1>0. /\ ex \in Executor /\ transport \in Transport /\ ex.pc = "loop" /\ ex.cur = NoOne /\ Looping
      /\ (ex.cancel <=> transport.stop_reply # "none")
  BY Zenon DEF SessionInv, SessionTypeOK, Transport, FlowInv, Looping
<1>1. CASE transport.queue = <<>>
  <2>1. ex' = [ex EXCEPT !.pc = "acks", !.todo = ex.pending \cup ex.resolutions] /\ UNCHANGED <<session, transport>>
    BY <1>1, Zenon
  <2>2. /\ ex' \in Executor /\ ex'.pc = "acks" /\ ex'.cur = NoOne /\ ex'.pending = ex.pending
        /\ ex'.todo = ex.pending \cup ex.resolutions
        /\ ex'.resolutions = ex.resolutions /\ ex'.sent = ex.sent /\ ex'.dispatched = ex.dispatched
        /\ ex'.terminal = ex.terminal /\ ex'.stop = ex.stop /\ ex'.cancel = ex.cancel
    BY <1>0, <2>1, Zenon DEF Executor, Step
  <2>3. CommandsKept /\ AnswersKept /\ QueueKept
    BY <2>1, Zenon DEF CommandsKept, AnswersKept, QueueKept
  <2>4. \A c \in Commands : TodoInv(c)'
    BY <1>0, <2>2, Zenon DEF TodoInv, Looping
  <2>. QED BY <1>0, <2>1, <2>2, <2>3, <2>4, RoundStep, Zenon
<1>2. CASE transport.queue # <<>> /\ ~event_fails(Head(transport.queue))
  BY <1>0, <1>2, EventStep, Zenon
<1>3. CASE transport.queue # <<>> /\ event_fails(Head(transport.queue))
  <2>1. TakeFrame /\ session' = session /\ Leaves(FALSE, TRUE) /\ native' = native
    BY <1>3, Zenon DEF Fails
  <2>2. CommandsKept /\ AnswersKept /\ QueueKept /\ transport' \in Transport
    BY <1>3, <2>1, TakeFrameFacts, Zenon DEF CommandsKept, AnswersKept
  <2>. QED BY <1>0, <2>1, <2>2, LeaveRound, Zenon
<1>. QED BY <1>1, <1>2, <1>3, Zenon

-----------------------------------------------------------------------------
(* Steps that give one command its outcome. *)

(* Only c is touched, and the executor lets go of it. *)
OthersKept(c) ==
  /\ \A d \in Commands \ {c} : command'[d] = command[d] /\ native'.wire[d] = native.wire[d]
  /\ \A a \in Approvals : native.request[a] = "resolved" => native'.request[a] = "resolved"
  /\ \A d \in Commands : transport.reply[d] \in {"ok", "refused"} =>
                           transport'.reply[d] = transport.reply[d]
  /\ transport.stop_reply \in {"ok", "refused"} => transport'.stop_reply = transport.stop_reply

Released(c) ==
  /\ ex'.pending \subseteq ex.pending \ {c} /\ ex'.resolutions \subseteq ex.resolutions \ {c}
  /\ ex'.cur \in {ex.cur, NoOne} \ {c}
  /\ \A a \in Approvals : ex'.sent[a] \in {ex.sent[a], NoOne} \ {c}

(* The status that c gets is true. *)
Truthful(c, status) ==
  /\ status \in {"rejected", "expired"} => native'.wire[c] = 0
  /\ status = "failed" => ReplyOf(c) = "refused"
  /\ status = "acknowledged" =>
       IF command[c].kind = "decide"
       THEN native.wire[c] = 1 /\ native.request[command[c].on] = "resolved"
       ELSE ReplyOf(c) = "ok" /\ (command[c].kind = "user_message" => native.wire[c] = 1)
  /\ status # "delivery_unknown" => native'.wire[c] = native.wire[c]

LEMMA Marked ==
  ASSUME NoOneAssumption, SessionInv, NEW c \in Commands, NEW status \in Final,
         command' = [command EXCEPT ![c].status = status],
         OthersKept(c), Released(c), Truthful(c, status), native'.wire[c] \in {0, 1}
  PROVE  /\ command' \in [Commands -> CommandRecord]
         /\ \A d \in Commands : command'[d].status \in Open => command[d].status \in Open /\ d # c
         /\ \A d \in Commands \ {c} : command'[d] = command[d]
         /\ \A d \in Commands : CommandInv(d)'
         /\ StatusIsTrue'
<1>0. /\ command \in [Commands -> CommandRecord]
      /\ \A d \in Commands : command[d].kind = "decide" => command[d].on \in Approvals
  BY DEF SessionInv, CommandInv, SessionTypeOK, SessionTables, CommandRecord
<1>1. command' \in [Commands -> CommandRecord]
  BY <1>0, Zenon DEF CommandRecord
<1>2. /\ command'[c].status = status /\ command'[c].kind = command[c].kind /\ command'[c].on = command[c].on
      /\ \A d \in Commands \ {c} : command'[d] = command[d]
  BY <1>0, Zenon DEF CommandRecord
<1>3. ASSUME NEW d \in Commands PROVE CommandInv(d)'
  <2>1. CommandInv(d)
    BY Zenon DEF SessionInv
  <2>2. CASE d # c
    BY <1>0, <1>2, <2>1, <2>2 DEF CommandInv, OthersKept, Released, NoOneAssumption
  <2>3. CASE d = c
    BY <1>2, <2>1, <2>3, Zenon DEF CommandInv, Released, Truthful, Final
  <2>. QED BY <2>2, <2>3, Zenon
<1>4. StatusIsTrue'
  <2>. SUFFICES ASSUME NEW d \in Commands
                PROVE /\ command'[d].status \in {"queued", "rejected", "expired"} => native'.wire[d] = 0
                      /\ command'[d].status = "failed" => ReplyOf(d)' = "refused"
                      /\ command'[d].status = "acknowledged" =>
                           IF command'[d].kind = "decide"
                           THEN native'.wire[d] = 1 /\ native'.request[command'[d].on] = "resolved"
                           ELSE ReplyOf(d)' = "ok" /\ (command'[d].kind = "user_message" => native'.wire[d] = 1)
    BY Zenon DEF StatusIsTrue
  <2>1. ReplyOf(d) \in {"ok", "refused"} => ReplyOf(d)' = ReplyOf(d)
    BY <1>2 DEF ReplyOf, OthersKept
  <2>2. CASE d # c
    BY <1>0, <1>2, <2>1, <2>2 DEF SessionInv, StatusIsTrue, OthersKept
  <2>3. CASE d = c
    BY <1>0, <1>2, <2>1, <2>3 DEF Truthful, OthersKept, Final
  <2>. QED BY <2>2, <2>3, Zenon
<1>5. \A d \in Commands : command'[d].status \in Open => command[d].status \in Open /\ d # c
  BY <1>2, Zenon DEF Open, Final
<1>. QED BY <1>1, <1>2, <1>3, <1>4, <1>5, Zenon

LEMMA MarkedApprovals ==
  ASSUME SessionInv, NEW c \in Commands, OthersKept(c), Released(c), AnswersKept
  PROVE  \A a \in Approvals : ApprovalInv(a)'
<1>. SUFFICES ASSUME NEW a \in Approvals PROVE ApprovalInv(a)'
  OBVIOUS
<1>1. ApprovalInv(a) /\ ex.sent[a] \in Commands \cup {NoOne}
  BY Zenon DEF SessionInv, SessionTypeOK, Executor
<1>2. ex'.sent[a] # NoOne => ex'.sent[a] = ex.sent[a] /\ ex.sent[a] \in Commands \ {c}
  BY <1>1, Zenon DEF Released
<1>3. ex'.sent[a] # NoOne => ex'.sent[a] # ex'.cur /\ ex'.sent[a] \notin ex'.resolutions
  BY <1>1, <1>2, Zenon DEF ApprovalInv, Released
<1>. QED BY <1>1, <1>2, <1>3 DEF ApprovalInv, OthersKept, AnswersKept

(* transition_command allows what it is asked to do. *)
LEMMA TransitionCommand ==
  ASSUME NEW c, NEW status, transition_command(c, status)
  PROVE  command' = [command EXCEPT ![c].status = status]
  BY Zenon DEF transition_command

(* A command of the list gets a status that is true. *)
LEMMA AckStep ==
  ASSUME NoOneAssumption, SessionInv, NEW c \in Commands, Ack(c)
  PROVE  SessionInv'
<1>. USE DEF Ack
<1>0. /\ ex \in Executor /\ ex.pc = "acks" /\ c \in ex.todo /\ ex.cur = NoOne
      /\ CommandInv(c) /\ run.status = "running"
  BY Zenon DEF SessionInv, SessionTypeOK, FlowInv
<1>1. /\ ex' \in Executor /\ ex'.pc = "acks" /\ ex'.cur = NoOne /\ ex'.sent = ex.sent
      /\ ex'.todo = ex.todo \ {c} /\ ex'.dispatched = ex.dispatched /\ ex'.stop = ex.stop
      /\ ex'.terminal = ex.terminal /\ ex'.cancel = ex.cancel /\ ex'.error = ex.error
  <2>1. CASE ex' = [ex EXCEPT !.todo = ex.todo \ {c}, !.resolutions = ex.resolutions \ {c}]
    BY <1>0, <2>1, Zenon DEF Executor
  <2>2. CASE ex' = [ex EXCEPT !.todo = ex.todo \ {c}, !.pending = ex.pending \ {c}]
    BY <1>0, <2>2, Zenon DEF Executor
  <2>3. CASE ex' = [ex EXCEPT !.todo = ex.todo \ {c}]
    BY <1>0, <2>3, Zenon DEF Executor
  <2>. QED BY <2>1, <2>2, <2>3, Zenon DEF AckResolution, AckReply
<1>2. /\ \/ ex'.pending = ex.pending /\ ex'.resolutions = ex.resolutions
         \/ ex'.pending = ex.pending /\ ex'.resolutions = ex.resolutions \ {c} /\ c \in ex.resolutions
         \/ ex'.pending = ex.pending \ {c} /\ ex'.resolutions = ex.resolutions /\ c \in ex.pending
  BY <1>0, Zenon DEF AckResolution, AckReply, Executor
<1>3. FlowInv' /\ TurnInv'
  BY <1>0, <1>1, Zenon DEF SessionInv, FlowInv, TurnInv, Looping, Opening, Known
<1>4. \A d \in Commands : TodoInv(d)'
  <2>1. \A d \in ex.todo : d \in Commands => d \in ex.pending \cup ex.resolutions
    BY <1>0, Zenon DEF SessionInv, TodoInv
  <2>2. \A d \in Commands : d \in ex'.todo => d \in ex'.pending \cup ex'.resolutions
    BY <1>1, <1>2, <2>1, Zenon
  <2>3. ex.stop => \A d \in Commands, a \in Approvals : ex.sent[a] # d
    BY <1>0, Zenon DEF SessionInv, TodoInv
  <2>. QED BY <1>1, <2>2, <2>3, Zenon DEF TodoInv
<1>5. TurnKnown' /\ FrameInv'
  BY <1>0, Frames, Zenon DEF TurnKnown, QueueKept
<1>6. CASE UNCHANGED command
  <2>1. CommandsKept /\ MemoryKept /\ AnswersKept
    BY <1>1, <1>2, <1>6, Zenon DEF CommandsKept, MemoryKept, AnswersKept
  <2>2. SessionTypeOK'
    BY <1>1, <1>6, Zenon DEF SessionInv, SessionTypeOK, SessionTables
  <2>3. NoneLeftOpen'
    BY <1>6, StillOpen, Zenon
  <2>. QED BY <1>3, <1>4, <1>5, <2>1, <2>2, <2>3, Quiet, Zenon DEF SessionInv
<1>7. CASE \/ c \in ex.resolutions /\ transition_command(c, "acknowledged") /\ ex'.resolutions = ex.resolutions \ {c}
           \/ c \in ex.pending /\ transition_command(c, reply_status(ReplyOf(c))) /\ ex'.pending = ex.pending \ {c}
  <2>. DEFINE status == IF c \in ex.resolutions THEN "acknowledged" ELSE reply_status(ReplyOf(c))
  <2>0. ~(c \in ex.resolutions /\ c \in ex.pending)
    BY <1>0, Zenon DEF CommandInv
  <2>1. command' = [command EXCEPT ![c].status = status]
    BY <1>7, <2>0, TransitionCommand, Zenon
  <2>2. status \in Final /\ Truthful(c, status)
    BY <1>0, <1>7, <2>0, Zenon DEF reply_status, Final, Truthful, CommandInv
  <2>3. OthersKept(c)
    BY <2>1, Zenon DEF OthersKept, SessionInv, SessionTypeOK, SessionTables
  <2>4. ASSUME NEW a \in Approvals PROVE ex.sent[a] # c
    BY <1>0, <1>7, NoOneAssumption DEF SessionInv, ApprovalInv, CommandInv
  <2>5. Released(c)
    BY <1>1, <1>2, <1>7, <2>0, <2>4, NoOneAssumption, Zenon DEF Released
  <2>6. AnswersKept
    BY Zenon DEF AnswersKept
  <2>7. native'.wire[c] \in {0, 1}
    BY <1>0, Zenon DEF CommandInv
  <2>. HIDE DEF status
  <2>8. /\ command' \in [Commands -> CommandRecord]
        /\ \A d \in Commands : command'[d].status \in Open => command[d].status \in Open
        /\ \A d \in Commands : CommandInv(d)'
        /\ StatusIsTrue'
    BY <2>1, <2>2, <2>3, <2>5, <2>7, Marked, Zenon
  <2>9. SessionTypeOK'
    BY <1>1, <2>8, Zenon DEF SessionInv, SessionTypeOK, SessionTables
  <2>10. NoneLeftOpen'
    BY <2>8, StillOpen, Zenon
  <2>. QED BY <1>3, <1>4, <1>5, <2>3, <2>5, <2>6, <2>8, <2>9, <2>10, MarkedApprovals, Zenon
              DEF SessionInv
<1>8. \/ UNCHANGED command
      \/ c \in ex.resolutions /\ transition_command(c, "acknowledged") /\ ex'.resolutions = ex.resolutions \ {c}
      \/ c \in ex.pending /\ transition_command(c, reply_status(ReplyOf(c))) /\ ex'.pending = ex.pending \ {c}
  BY <1>0, Zenon DEF AckResolution, AckReply, Executor
<1>. QED BY <1>6, <1>7, <1>8, Zenon

(* A step of the loop, or of recovery, that gives c its outcome: what is     *)
(* left to show is the executor's own part.                                  *)
LEMMA OutcomeStep ==
  ASSUME NoOneAssumption, SessionInv, NEW c \in Commands, NEW status \in Final,
         command' = [command EXCEPT ![c].status = status], Truthful(c, status), native'.wire[c] \in {0, 1},
         OthersKept(c), Released(c), QueueKept, \A a \in Approvals : ApprovalInv(a)',
         UNCHANGED <<session, late, crashes>>, ex' \in Executor, transport' \in Transport,
         native' \in Native, run' = run, TurnKnown', FlowInv', TurnInv',
         \A d \in Commands : TodoInv(d)'
  PROVE  SessionInv'
<1>1. /\ command' \in [Commands -> CommandRecord]
      /\ \A d \in Commands : command'[d].status \in Open => command[d].status \in Open
      /\ \A d \in Commands : CommandInv(d)'
      /\ StatusIsTrue'
  BY Marked, Zenon
<1>2. SessionTypeOK'
  BY <1>1, Zenon DEF SessionInv, SessionTypeOK, SessionTables, Transport, Native
<1>3. NoneLeftOpen'
  BY <1>1, StillOpen, Zenon
<1>. QED BY <1>1, <1>2, <1>3, Frames, Zenon DEF SessionInv

LEMMA AckedStep ==
  ASSUME NoOneAssumption, SessionInv, Acked
  PROVE  SessionInv'
<1>. USE DEF Acked
<1>0. ex \in Executor /\ ex.pc = "acks" /\ ex.stop /\ ex.cur = NoOne /\ run.status = "running"
  BY Zenon DEF SessionInv, SessionTypeOK, FlowInv
<1>1. /\ ex' \in Executor /\ ex'.pc = "settle" /\ ex'.cur = NoOne /\ ex'.sent = ex.sent
      /\ ex'.pending = {} /\ ex'.resolutions = {}
      /\ ex'.todo = {c \in Commands : command[c].status \in Open}
      /\ ex'.dispatched = ex.dispatched /\ ex'.stop = ex.stop
      /\ ex'.terminal = ex.terminal /\ ex'.cancel = ex.cancel /\ ex'.error = ex.error
  BY <1>0, Zenon DEF Executor, Step
<1>2. CommandsKept /\ MemoryKept /\ AnswersKept /\ QueueKept
  BY <1>1, Zenon DEF CommandsKept, MemoryKept, AnswersKept, QueueKept
<1>3. SessionTypeOK'
  BY <1>1, Zenon DEF SessionInv, SessionTypeOK, SessionTables
<1>4. FlowInv' /\ TurnInv'
  BY <1>0, <1>1, Zenon DEF SessionInv, FlowInv, TurnInv, Looping, Opening, Known
<1>5. \A c \in Commands : TodoInv(c)'
  BY <1>0, <1>1 DEF SessionInv, TodoInv
<1>6. NoneLeftOpen' /\ TurnKnown'
  BY <1>0, StillOpen, Zenon DEF TurnKnown
<1>. QED BY <1>2, <1>3, <1>4, <1>5, <1>6, Quiet, Frames, SMTT(30) DEF SessionInv

LEMMA CheckStep ==
  ASSUME NoOneAssumption, SessionInv, Check
  PROVE  SessionInv'
<1>. USE DEF Check
<1>0. /\ ex \in Executor /\ transport \in Transport /\ ex.pc = "acks" /\ ex.cur = NoOne /\ Looping
      /\ (ex.cancel <=> transport.stop_reply # "none") /\ (ex.terminal => native.done)
  BY Zenon DEF SessionInv, SessionTypeOK, Transport, FlowInv, TurnInv, Looping
<1>1. AnswersKept /\ QueueKept /\ transport' \in Transport
  <2>1. CASE UNCHANGED transport
    BY <1>0, <2>1, Zenon DEF AnswersKept, QueueKept
  <2>2. CASE transport' = fail(transport)
    BY <1>0, <2>2, FailFacts, Zenon DEF AnswersKept, QueueKept
  <2>3. CASE transport' = [transport EXCEPT !.stop_reply = "open"]
    BY <1>0, <2>3, Zenon DEF AnswersKept, QueueKept, Transport, Reply
  <2>. QED BY <2>1, <2>2, <2>3, Zenon
<1>2. CASE /\ UNCHANGED transport
           /\ \/ Leaves(FALSE, TRUE)
              \/ (ex.terminal \/ ex.cancel) /\ Leaves(FALSE, FALSE)
              \/ Goes("loop")
              \/ ex' = [ex EXCEPT !.pc = "commands",
                                  !.todo = {c \in Commands : command[c].status = "queued"}]
  <2>1. CommandsKept
    BY <1>2, Zenon DEF CommandsKept
  <2>2. CASE Leaves(FALSE, TRUE) \/ ((ex.terminal \/ ex.cancel) /\ Leaves(FALSE, FALSE))
    <3>1. ex.terminal \/ ex.cancel => Known'
      BY <1>0, <1>2, Zenon DEF Known
    <3>. HIDE DEF Known
    <3>. QED BY <1>0, <1>1, <2>1, <2>2, <3>1, LeaveRound, Zenon
  <2>3. CASE Goes("loop")
    <3>1. /\ ex' \in Executor /\ ex'.pc = "loop" /\ ex'.cur = NoOne /\ ex'.pending = ex.pending
          /\ ex'.resolutions = ex.resolutions /\ ex'.sent = ex.sent /\ ex'.dispatched = ex.dispatched
          /\ ex'.terminal = ex.terminal /\ ex'.stop = ex.stop /\ ex'.cancel = ex.cancel
      BY <1>0, <2>3, Zenon DEF Goes, Executor, Step
    <3>2. \A c \in Commands : TodoInv(c)'
      BY <3>1, Zenon DEF TodoInv
    <3>. QED BY <1>0, <1>1, <1>2, <2>1, <3>1, <3>2, RoundStep, Zenon
  <2>4. CASE ex' = [ex EXCEPT !.pc = "commands", !.todo = {c \in Commands : command[c].status = "queued"}]
    <3>1. /\ ex' \in Executor /\ ex'.pc = "commands" /\ ex'.cur = NoOne /\ ex'.pending = ex.pending
          /\ ex'.todo = {c \in Commands : command[c].status = "queued"}
          /\ ex'.resolutions = ex.resolutions /\ ex'.sent = ex.sent /\ ex'.dispatched = ex.dispatched
          /\ ex'.terminal = ex.terminal /\ ex'.stop = ex.stop /\ ex'.cancel = ex.cancel
      BY <1>0, <2>4, Zenon DEF Executor, Step
    <3>2. \A c \in Commands : TodoInv(c)'
      BY <3>1, Zenon DEF TodoInv
    <3>. QED BY <1>0, <1>1, <1>2, <2>1, <3>1, <3>2, RoundStep, SMTT(30)
  <2>. QED BY <1>2, <2>2, <2>3, <2>4, Zenon
<1>3. CASE /\ ~ex.cancel /\ transport' = [transport EXCEPT !.stop_reply = "open"]
           /\ ex' = [ex EXCEPT !.pc = "loop", !.cancel = TRUE] \/ Leaves(TRUE, FALSE)
  <2>1. CommandsKept
    BY <1>0, <1>3, Zenon DEF CommandsKept, Transport
  <2>2. transport'.stop_reply = "open" /\ Known'
    BY <1>0, <1>3, Zenon DEF Known, Transport
  <2>3. CASE ex' = [ex EXCEPT !.pc = "loop", !.cancel = TRUE]
    <3>1. /\ ex' \in Executor /\ ex'.pc = "loop" /\ ex'.cur = NoOne /\ ex'.pending = ex.pending
          /\ ex'.resolutions = ex.resolutions /\ ex'.sent = ex.sent /\ ex'.dispatched = ex.dispatched
          /\ ex'.terminal = ex.terminal /\ ex'.stop = ex.stop /\ ex'.cancel = TRUE
      BY <1>0, <2>3, Zenon DEF Executor, Step
    <3>2. \A c \in Commands : TodoInv(c)'
      BY <3>1, Zenon DEF TodoInv
    <3>. QED BY <1>0, <1>1, <2>1, <2>2, <3>1, <3>2, RoundStep, Zenon
  <2>4. CASE Leaves(TRUE, FALSE)
    BY <1>0, <1>1, <2>1, <2>2, <2>4, LeaveRound, Zenon
  <2>. QED BY <1>3, <2>3, <2>4, Zenon
<1>4. CASE transport' = fail(transport) /\ Leaves(TRUE, TRUE)
  <2>1. CommandsKept
    BY <1>0, <1>4, FailFacts, Zenon DEF CommandsKept
  <2>. QED BY <1>0, <1>1, <1>4, <2>1, LeaveRound, Zenon
<1>. QED BY <1>2, <1>3, <1>4, Zenon DEF Fails

LEMMA ClaimStep ==
  ASSUME NoOneAssumption, SessionInv, NEW c \in Commands, Claim(c)
  PROVE  SessionInv'
<1>. USE DEF Claim
<1>0. /\ ex \in Executor /\ ex.pc = "commands" /\ c \in ex.todo /\ ex.cur = NoOne /\ Looping
      /\ session \in SessionRow /\ CommandInv(c) /\ command[c].status = "queued"
      /\ run.status = "running" /\ native.wire[c] = 0 /\ transport \in Transport /\ native \in Native
  BY Zenon
     DEF SessionInv, SessionTypeOK, SessionTables, SessionRow, FlowInv, TodoInv, CommandInv, Looping,
         Transport, Native
<1>1. c \notin ex.pending /\ c \notin ex.resolutions /\ \A a \in Approvals : ex.sent[a] # c
  BY <1>0, NoOneAssumption DEF SessionInv, CommandInv, ApprovalInv
<1>2. \A d \in ex.todo : d \in Commands /\ command[d].status = "queued"
  BY <1>0, Zenon DEF SessionInv, TodoInv, Executor
<1>3. QueueKept /\ AnswersKept
  BY Zenon DEF QueueKept, AnswersKept
<1>4. CASE /\ claim(c)
           /\ ex' = [ex EXCEPT !.pc = "drain", !.cur = c, !.todo = ex.todo \ {c}, !.cache = session.approval]
  <2>1. /\ ex' \in Executor /\ ex'.pc = "drain" /\ ex'.cur = c /\ ex'.todo = ex.todo \ {c}
        /\ ex'.pending = ex.pending /\ ex'.resolutions = ex.resolutions /\ ex'.sent = ex.sent
        /\ ex'.dispatched = ex.dispatched /\ ex'.terminal = ex.terminal /\ ex'.stop = ex.stop
        /\ ex'.cancel = ex.cancel
    BY <1>0, <1>4, Zenon DEF Executor, Step, SessionRow
  <2>2. session' \in SessionRow /\ session'.state = session.state
    BY <1>0, <1>4, Zenon DEF claim, SessionRow, ApprovalState
  <2>3. command \in [Commands -> CommandRecord]
    BY Zenon DEF SessionInv, SessionTypeOK, SessionTables
  <2>4. /\ command' \in [Commands -> CommandRecord] /\ command'[c].status = "delivered"
        /\ command'[c].kind = command[c].kind /\ command'[c].on = command[c].on
        /\ \A d \in Commands \ {c} : command'[d] = command[d]
    BY <1>4, <2>3, Zenon DEF claim, CommandRecord, Open
  <2>5. SessionTypeOK'
    BY <2>1, <2>2, <2>4, Zenon DEF SessionInv, SessionTypeOK, SessionTables, SessionRow
  <2>6. FlowInv' /\ TurnInv'
    BY <1>0, <2>1, <2>2, NoOneAssumption, Zenon DEF SessionInv, FlowInv, TurnInv, Looping, Opening
  <2>7. ASSUME NEW d \in Commands PROVE CommandInv(d)' /\ TodoInv(d)'
    <3>1. CommandInv(d)
      BY Zenon DEF SessionInv
    <3>2. TodoInv(d)'
      BY <1>2, <2>1, <2>4 DEF TodoInv
    <3>3. CASE d = c
      BY <3>1, <3>2, <3>3, <1>0, <1>1, <2>1, <2>4, Zenon DEF CommandInv
    <3>4. CASE d # c
      BY <3>1, <3>2, <3>4, <2>1, <2>4 DEF CommandInv
    <3>. QED BY <3>3, <3>4, Zenon
  <2>8. ASSUME NEW a \in Approvals PROVE ApprovalInv(a)'
    <3>1. ApprovalInv(a) /\ ex.sent[a] \in Commands \cup {NoOne}
      BY Zenon DEF SessionInv, SessionTypeOK, Executor
    <3>. QED BY <3>1, <1>1, <2>1, <2>4 DEF ApprovalInv
  <2>9. StatusIsTrue'
    BY <2>4 DEF SessionInv, StatusIsTrue, ReplyOf
  <2>10. NoneLeftOpen' /\ TurnKnown'
    BY <1>0, <2>2, <2>4, StillOpen, Zenon DEF TurnKnown, Open
  <2>. QED BY <1>3, <2>5, <2>6, <2>7, <2>8, <2>9, <2>10, Frames, Zenon DEF SessionInv
<1>5. CASE /\ UNCHANGED session
           /\ \E status \in {"expired", "rejected"} : transition_command(c, status)
           /\ \/ ex' = [ex EXCEPT !.todo = ex.todo \ {c}]
              \/ ex' = [ex EXCEPT !.todo = ex.todo \ {c}, !.cache = session.approval]
  <2>1. PICK status \in {"expired", "rejected"} : command' = [command EXCEPT ![c].status = status]
    BY <1>5, TransitionCommand, Zenon
  <2>2. /\ ex' \in Executor /\ ex'.pc = "commands" /\ ex'.cur = NoOne /\ ex'.todo = ex.todo \ {c}
        /\ ex'.pending = ex.pending /\ ex'.resolutions = ex.resolutions /\ ex'.sent = ex.sent
        /\ ex'.dispatched = ex.dispatched /\ ex'.terminal = ex.terminal /\ ex'.stop = ex.stop
        /\ ex'.cancel = ex.cancel
    <3>1. CASE ex' = [ex EXCEPT !.todo = ex.todo \ {c}]
      BY <1>0, <3>1, Zenon DEF Executor
    <3>2. CASE ex' = [ex EXCEPT !.todo = ex.todo \ {c}, !.cache = session.approval]
      BY <1>0, <3>2, Zenon DEF Executor, SessionRow
    <3>. QED BY <1>5, <3>1, <3>2, Zenon
  <2>3. status \in Final /\ Truthful(c, status)
    BY <1>0, Zenon DEF Final, Truthful
  <2>4. OthersKept(c) /\ Released(c)
    BY <1>1, <2>1, <2>2, <1>0, NoOneAssumption DEF OthersKept, Released, SessionInv, SessionTypeOK, SessionTables
  <2>5. \A a \in Approvals : ApprovalInv(a)'
    BY <2>4, <1>3, MarkedApprovals, Zenon
  <2>6. FlowInv' /\ TurnInv' /\ TurnKnown'
    BY <1>0, <1>5, <2>2, Zenon DEF SessionInv, FlowInv, TurnInv, Looping, Opening, TurnKnown
  <2>7. \A d \in ex'.todo : d \in Commands \ {c} /\ command'[d] = command[d]
    BY <1>2, <2>1, <2>2, <2>4, Zenon DEF OthersKept
  <2>8. \A d \in Commands : TodoInv(d)'
    BY <1>2, <2>2, <2>7 DEF TodoInv
  <2>. QED BY <1>0, <1>3, <1>5, <2>1, <2>2, <2>3, <2>4, <2>5, <2>6, <2>8, OutcomeStep, Zenon
<1>. QED BY <1>4, <1>5, Zenon

LEMMA ClaimedStep ==
  ASSUME NoOneAssumption, SessionInv, Claimed
  PROVE  SessionInv'
<1>. USE DEF Claimed
<1>0. /\ ex \in Executor /\ transport \in Transport /\ ex.cur = NoOne /\ Looping
      /\ (ex.cancel <=> transport.stop_reply # "none")
  BY Zenon DEF SessionInv, SessionTypeOK, Transport, FlowInv, Looping
<1>1. /\ ex' \in Executor /\ ex'.pc = "loop" /\ ex'.cur = NoOne /\ ex'.pending = ex.pending
      /\ ex'.resolutions = ex.resolutions /\ ex'.sent = ex.sent /\ ex'.dispatched = ex.dispatched
      /\ ex'.terminal = ex.terminal /\ ex'.stop = ex.stop /\ ex'.cancel = ex.cancel
  BY <1>0, Zenon DEF Goes, Executor, Step
<1>2. CommandsKept /\ AnswersKept /\ QueueKept
  BY Zenon DEF CommandsKept, AnswersKept, QueueKept
<1>3. \A c \in Commands : TodoInv(c)'
  BY <1>1, Zenon DEF TodoInv
<1>. QED BY <1>0, <1>1, <1>2, <1>3, RoundStep, Zenon

-----------------------------------------------------------------------------
(* Writing a claimed command. *)

(* What the server, the transport and an answer have to do with each other. *)
AnswerOK(a) ==
  /\ native.answers[a] \in {0, 1}
  /\ transport.incoming[a] # "answered" => native.answers[a] = 0
  /\ native.request[a] = "none" => transport.incoming[a] = "none"

LEMMA DecideOnApproval ==
  ASSUME SessionInv
  PROVE  \A d \in Commands : command[d].kind = "decide" => command[d].on \in Approvals
<1>1. ASSUME NEW d \in Commands PROVE CommandInv(d) /\ command[d].on \in Approvals \cup {NoApproval}
  BY Zenon DEF SessionInv, SessionTypeOK, SessionTables, CommandRecord
<1>. QED BY <1>1, Zenon DEF CommandInv

LEMMA CurFacts ==
  ASSUME NoOneAssumption, SessionInv, ex.pc \in {"drain", "write"}
  PROVE  /\ ex.cur \in Commands /\ Looping /\ run.status = "running"
         /\ ex \in Executor /\ transport \in Transport /\ native \in Native
         /\ command[ex.cur].status = "delivered" /\ native.wire[ex.cur] = 0
         /\ command[ex.cur].kind = "decide" <=> command[ex.cur].on \in Approvals
         /\ ex.cur \notin ex.pending /\ ex.cur \notin ex.resolutions
         /\ \A a \in Approvals : ex.sent[a] # ex.cur
         /\ ex.cancel <=> transport.stop_reply # "none"
<1>1. ex.cur \in Commands /\ ex.cur # NoOne
  BY Zenon DEF SessionInv, SessionTypeOK, FlowInv, Executor
<1>2. CommandInv(ex.cur) /\ command[ex.cur].on \in Approvals \cup {NoApproval}
  BY <1>1, Zenon DEF SessionInv, SessionTypeOK, SessionTables, CommandRecord
<1>3. Looping /\ run.status = "running" /\ (ex.cancel <=> transport.stop_reply # "none")
  BY Zenon DEF SessionInv, FlowInv, Looping
<1>4. \A a \in Approvals : ex.sent[a] # ex.cur
  BY <1>1, Zenon DEF SessionInv, ApprovalInv
<1>5. ex \in Executor /\ transport \in Transport /\ native \in Native
  BY Zenon DEF SessionInv, SessionTypeOK, Transport, Native
<1>. QED BY <1>1, <1>2, <1>3, <1>4, <1>5, NoApprovalAssumption, Zenon
            DEF CommandInv, NoApprovalAssumption

LEMMA WriteUnknownStep ==
  ASSUME NoOneAssumption, SessionInv, ex.pc \in {"drain", "write"}, WriteUnknown,
         UNCHANGED <<run, session, late, crashes>>, transport' \in Transport, native' \in Native,
         OthersKept(ex.cur), QueueKept, native'.wire[ex.cur] \in {0, 1},
         native'.turn = native.turn, \A a \in Approvals : AnswerOK(a)'
  PROVE  SessionInv'
<1>. DEFINE cancels == command[ex.cur].kind = "interrupt" /\ ex.pc = "write"
<1>0. /\ ex.cur \in Commands /\ run.status = "running" /\ (native.turn => ex.dispatched)
      /\ ex.cur \notin ex.pending /\ ex.cur \notin ex.resolutions
  BY CurFacts, Zenon DEF SessionInv, TurnInv
<1>1. /\ cancels \in BOOLEAN /\ Leaves(cancels, TRUE)
      /\ command' = [command EXCEPT ![ex.cur].status = "delivery_unknown"]
  BY TransitionCommand, Zenon DEF WriteUnknown
<1>. HIDE DEF cancels
<1>2. Released(ex.cur)
  BY <1>0, <1>1, LeavesFacts, NoOneAssumption, Zenon DEF Released, NoOneAssumption
<1>3. "delivery_unknown" \in Final /\ Truthful(ex.cur, "delivery_unknown")
  BY Zenon DEF Final, Truthful
<1>4. \A a \in Approvals : ApprovalInv(a)'
  BY <1>1, LeavesFacts, Zenon DEF AnswerOK, ApprovalInv
<1>5. FlowInv' /\ TurnInv' /\ \A d \in Commands : TodoInv(d)'
  BY <1>0, <1>1, LeaveStep, Zenon DEF QueueKept
<1>6. ex' \in Executor /\ TurnKnown'
  BY <1>0, <1>1, LeavesFacts, Zenon DEF TurnKnown
<1>. QED BY <1>0, <1>1, <1>2, <1>3, <1>4, <1>5, <1>6, OutcomeStep, Zenon

LEMMA DrainStep ==
  ASSUME NoOneAssumption, SessionInv, Drain
  PROVE  SessionInv'
<1>. USE DEF Drain
<1>1. CASE event_fails(Head(transport.queue))
  <2>1. WriteUnknown /\ session' = session
    BY <1>1, Zenon
  <2>2. /\ transport' \in Transport /\ QueueKept /\ native' \in Native
        /\ transport'.incoming = transport.incoming /\ transport'.reply = transport.reply
        /\ transport'.stop_reply = transport.stop_reply
    BY TakeFrameFacts, CurFacts, Zenon
  <2>3. OthersKept(ex.cur) /\ native'.wire[ex.cur] \in {0, 1}
    BY <2>1, <2>2, CurFacts, TransitionCommand
       DEF OthersKept, WriteUnknown, SessionInv, SessionTypeOK, SessionTables
  <2>4. \A a \in Approvals : AnswerOK(a)'
    BY <2>2 DEF AnswerOK, SessionInv, ApprovalInv
  <2>. QED BY <2>1, <2>2, <2>3, <2>4, WriteUnknownStep, Zenon
<1>2. CASE ~event_fails(Head(transport.queue))
  BY <1>2, EventStep, Zenon
<1>. QED BY <1>1, <1>2, Zenon

LEMMA BeforeWriteStep ==
  ASSUME NoOneAssumption, SessionInv, BeforeWrite
  PROVE  SessionInv'
<1>. DEFINE c == ex.cur
<1>0. /\ c \in Commands /\ Looping /\ run.status = "running" /\ ex.pc = "drain"
      /\ ex \in Executor /\ transport \in Transport /\ native \in Native
      /\ command[c].status = "delivered" /\ native.wire[c] = 0
      /\ c \notin ex.pending /\ c \notin ex.resolutions
      /\ \A a \in Approvals : ex.sent[a] # c
  BY CurFacts, Zenon DEF BeforeWrite
<1>1. UNCHANGED <<session, late, transport, native, crashes>>
  BY Zenon DEF BeforeWrite
<1>2. QueueKept /\ AnswersKept
  BY <1>1, Zenon DEF QueueKept, AnswersKept
<1>3. \A d \in ex.todo : d \in Commands /\ command[d].status = "queued"
  BY <1>0, Zenon DEF SessionInv, TodoInv, Executor
<1>4. CASE /\ \E status \in {"expired", "rejected"} : transition_command(c, status)
           /\ ex' = [ex EXCEPT !.pc = "commands", !.cur = NoOne] /\ UNCHANGED run
  <2>1. PICK status \in {"expired", "rejected"} : command' = [command EXCEPT ![c].status = status]
    BY <1>4, TransitionCommand, Zenon
  <2>2. /\ ex' \in Executor /\ ex'.pc = "commands" /\ ex'.cur = NoOne /\ ex'.todo = ex.todo
        /\ ex'.pending = ex.pending /\ ex'.resolutions = ex.resolutions /\ ex'.sent = ex.sent
        /\ ex'.dispatched = ex.dispatched /\ ex'.terminal = ex.terminal /\ ex'.stop = ex.stop
        /\ ex'.cancel = ex.cancel
    BY <1>0, <1>4, Zenon DEF Executor, Step
  <2>3. status \in Final /\ Truthful(c, status)
    BY <1>0, <1>1, Zenon DEF Final, Truthful
  <2>. HIDE DEF c
  <2>4. OthersKept(c) /\ Released(c)
    BY <1>0, <1>1, <2>1, <2>2, NoOneAssumption
       DEF OthersKept, Released, SessionInv, SessionTypeOK, SessionTables, NoOneAssumption
  <2>5. \A a \in Approvals : ApprovalInv(a)'
    BY <1>0, <1>2, <2>4, MarkedApprovals, Zenon
  <2>6. FlowInv' /\ TurnInv' /\ TurnKnown'
    BY <1>0, <1>1, <1>4, <2>2, Zenon
       DEF SessionInv, FlowInv, TurnInv, Looping, Opening, TurnKnown
  <2>7. \A d \in Commands : TodoInv(d)'
    BY <1>0, <1>3, <2>2, <2>4 DEF TodoInv, OthersKept
  <2>. QED BY <1>0, <1>1, <1>2, <1>4, <2>1, <2>2, <2>3, <2>4, <2>5, <2>6, <2>7, OutcomeStep, Zenon
<1>5. CASE /\ Goes("write") /\ UNCHANGED command
           /\ run' = [run EXCEPT !.cancelling = run.cancelling \/ command[c].kind = "interrupt"]
  <2>. DEFINE b == run.cancelling \/ command[c].kind = "interrupt"
  <2>1. b \in BOOLEAN /\ (run.cancelling => b)
    BY Zenon DEF SessionInv, SessionTypeOK, SessionTables
  <2>2. run' = [run EXCEPT !.cancelling = b]
    BY <1>5, Zenon
  <2>. HIDE DEF b
  <2>3. /\ run' \in [status : RunStatus, cancelling : BOOLEAN]
        /\ run'.status = run.status
    BY <2>1, <2>2, Zenon DEF SessionInv, SessionTypeOK, SessionTables
  <2>4. /\ ex' \in Executor /\ ex'.pc = "write" /\ ex'.cur = c /\ ex'.todo = ex.todo
        /\ ex'.pending = ex.pending /\ ex'.resolutions = ex.resolutions /\ ex'.sent = ex.sent
        /\ ex'.dispatched = ex.dispatched /\ ex'.terminal = ex.terminal /\ ex'.stop = ex.stop
        /\ ex'.cancel = ex.cancel
    BY <1>0, <1>5, Zenon DEF Goes, Executor, Step
  <2>5. SessionTypeOK'
    BY <1>1, <1>5, <2>3, <2>4, Zenon DEF SessionInv, SessionTypeOK, SessionTables
  <2>6. CommandsKept /\ MemoryKept
    BY <1>1, <1>5, <2>4, Zenon DEF CommandsKept, MemoryKept
  <2>7. FlowInv' /\ TurnInv'
    BY <1>0, <1>1, <1>5, <2>3, <2>4, Zenon DEF SessionInv, FlowInv, TurnInv, Looping, Opening
  <2>8. NoneLeftOpen' /\ TurnKnown' /\ \A d \in Commands : TodoInv(d)'
    BY <1>0, <1>1, <1>3, <1>5, <2>3, <2>4, StillOpen, Zenon DEF TurnKnown, TodoInv
  <2>. QED BY <1>2, <2>5, <2>6, <2>7, <2>8, Quiet, Frames, Zenon DEF SessionInv
<1>. QED BY <1>4, <1>5, Zenon DEF BeforeWrite

LEMMA ReceivedFacts ==
  ASSUME native \in Native, NEW c \in Commands, Received(c)
  PROVE  /\ native' \in Native /\ native'.turn = native.turn /\ native'.done = native.done
         /\ native'.request = native.request /\ native'.wire[c] = native.wire[c] + 1
         /\ \A d \in Commands \ {c} : native'.wire[d] = native.wire[d]
         /\ \A a \in Approvals : native'.answers[a] =
              IF command[c].kind = "decide" /\ a = command[c].on
              THEN native.answers[a] + 1 ELSE native.answers[a]
<1>. DEFINE wire == [native.wire EXCEPT ![c] = native.wire[c] + 1]
            answers == [a \in Approvals |->
                          IF command[c].kind = "decide" /\ a = command[c].on
                          THEN native.answers[a] + 1 ELSE native.answers[a]]
<1>1. native.wire \in [Commands -> Nat] /\ native.answers \in [Approvals -> Nat]
  BY Zenon DEF Native
<1>2. wire \in [Commands -> Nat] /\ answers \in [Approvals -> Nat]
  BY <1>1
<1>3. native' = [native EXCEPT !.wire = wire, !.answers = answers]
  BY Zenon DEF Received, Native
<1>4. /\ wire[c] = native.wire[c] + 1
      /\ \A d \in Commands \ {c} : wire[d] = native.wire[d]
      /\ \A a \in Approvals : answers[a] =
           IF command[c].kind = "decide" /\ a = command[c].on
           THEN native.answers[a] + 1 ELSE native.answers[a]
  BY <1>1, Zenon
<1>. HIDE DEF wire, answers
<1>5. /\ native' \in Native /\ native'.turn = native.turn /\ native'.done = native.done
      /\ native'.request = native.request /\ native'.wire = wire /\ native'.answers = answers
  BY <1>2, <1>3, Zenon DEF Native
<1>. QED BY <1>4, <1>5, Zenon

(* The command that the executor holds was written. *)
LEMMA WrittenStep ==
  ASSUME NoOneAssumption, SessionInv, ex.pc = "write",
         UNCHANGED <<run, session, late, crashes, command>>,
         ex' \in Executor, ex'.pc = "commands", ex'.cur = NoOne, ex'.todo = ex.todo,
         ex'.resolutions = ex.resolutions, ex'.dispatched = ex.dispatched,
         ex'.terminal = ex.terminal, ex'.stop = ex.stop,
         \/ ex'.pending = ex.pending
         \/ /\ ex'.pending = ex.pending \cup {ex.cur} /\ command[ex.cur].kind # "decide"
            /\ command[ex.cur].kind = "user_message" => native'.wire[ex.cur] = 1,
         ex'.cancel <=> transport'.stop_reply # "none",
         transport' \in Transport, transport'.queue = transport.queue,
         \A d \in Commands \ {ex.cur} : transport'.reply[d] = transport.reply[d],
         transport.stop_reply \in {"ok", "refused"} => transport'.stop_reply = transport.stop_reply,
         native' \in Native, native'.turn = native.turn, native'.done = native.done,
         native'.request = native.request, native'.wire[ex.cur] \in {0, 1},
         \A d \in Commands \ {ex.cur} : native'.wire[d] = native.wire[d],
         \A a \in Approvals : ApprovalInv(a)'
  PROVE  SessionInv'
<1>0. /\ ex.cur \in Commands /\ Looping /\ run.status = "running"
      /\ command[ex.cur].status = "delivered" /\ native.wire[ex.cur] = 0
      /\ ex.cur \notin ex.pending /\ ex.cur \notin ex.resolutions
      /\ \A d \in Commands : command[d].kind = "decide" => command[d].on \in Approvals
  <2>. QED BY DecideOnApproval, CurFacts, Zenon
<1>1. SessionTypeOK'
  BY Zenon DEF SessionInv, SessionTypeOK, SessionTables, Transport, Native
<1>2. FlowInv' /\ TurnInv'
  BY <1>0, Zenon DEF SessionInv, FlowInv, TurnInv, Looping, Opening
<1>3. FrameInv'
  BY Frames, Zenon DEF QueueKept
<1>4. NoneLeftOpen' /\ TurnKnown'
  BY <1>0, StillOpen, Zenon DEF TurnKnown
<1>5. ASSUME NEW d \in Commands PROVE CommandInv(d)' /\ TodoInv(d)'
  <2>1. CommandInv(d) /\ TodoInv(d)
    BY Zenon DEF SessionInv
  <2>2. CommandInv(d)'
    <3>1. CASE d = ex.cur
      BY <1>0, <2>1, <3>1, NoOneAssumption, Zenon DEF CommandInv, NoOneAssumption
    <3>2. CASE d # ex.cur
      BY <1>0, <2>1, <3>2, NoOneAssumption, Zenon DEF CommandInv, NoOneAssumption
    <3>. QED BY <3>1, <3>2, Zenon
  <2>3. TodoInv(d)'
    BY <2>1, Zenon DEF TodoInv
  <2>. QED BY <2>2, <2>3, Zenon
<1>6. StatusIsTrue'
  <2>. SUFFICES ASSUME NEW d \in Commands
                PROVE /\ command[d].status \in {"queued", "rejected", "expired"} => native'.wire[d] = 0
                      /\ command[d].status = "failed" => ReplyOf(d)' = "refused"
                      /\ command[d].status = "acknowledged" =>
                           IF command[d].kind = "decide"
                           THEN native'.wire[d] = 1 /\ native'.request[command[d].on] = "resolved"
                           ELSE ReplyOf(d)' = "ok" /\ (command[d].kind = "user_message" => native'.wire[d] = 1)
    BY Zenon DEF StatusIsTrue
  <2>1. CASE d = ex.cur
    BY <1>0, <2>1, Zenon
  <2>2. CASE d # ex.cur
    <3>1. ReplyOf(d) \in {"ok", "refused"} => ReplyOf(d)' = ReplyOf(d)
      BY <2>2, Zenon DEF ReplyOf
    <3>. QED BY <1>0, <2>2, <3>1 DEF SessionInv, StatusIsTrue
  <2>. QED BY <2>1, <2>2, Zenon
<1>. QED BY <1>1, <1>2, <1>3, <1>4, <1>5, <1>6, Zenon DEF SessionInv

(* The command reached the server or not, and the transport failed or the    *)
(* request counts as answered.                                               *)
LEMMA UnknownStep ==
  ASSUME NoOneAssumption, SessionInv, ex.pc = "write", WriteUnknown,
         UNCHANGED <<run, session, late, crashes>>, native' = native \/ Received(ex.cur),
         transport' \in Transport, transport'.queue = transport.queue,
         \A d \in Commands : transport.reply[d] \in {"ok", "refused"} =>
                               transport'.reply[d] = transport.reply[d],
         transport.stop_reply \in {"ok", "refused"} => transport'.stop_reply = transport.stop_reply,
         \A a \in Approvals : transport'.incoming[a] =
           IF command[ex.cur].kind = "decide" /\ a = command[ex.cur].on /\ transport.incoming[a] = "open"
           THEN "answered" ELSE transport.incoming[a],
         Received(ex.cur) /\ command[ex.cur].kind = "decide" =>
           transport.incoming[command[ex.cur].on] = "open"
  PROVE  SessionInv'
<1>0. /\ ex.cur \in Commands /\ native \in Native /\ native.wire[ex.cur] = 0
      /\ command[ex.cur].kind = "decide" <=> command[ex.cur].on \in Approvals
      /\ command \in [Commands -> CommandRecord]
      /\ command' = [command EXCEPT ![ex.cur].status = "delivery_unknown"]
  <2>1. command' = [command EXCEPT ![ex.cur].status = "delivery_unknown"]
    BY TransitionCommand DEF WriteUnknown
  <2>. QED BY <2>1, CurFacts, Zenon DEF SessionInv, SessionTypeOK, SessionTables
<1>1. /\ native' \in Native /\ native'.wire[ex.cur] \in {0, 1} /\ native'.turn = native.turn
      /\ native'.done = native.done /\ native'.request = native.request
      /\ \A d \in Commands \ {ex.cur} : native'.wire[d] = native.wire[d]
  <2>1. CASE native' = native
    BY <1>0, <2>1, Zenon
  <2>2. CASE Received(ex.cur)
    BY <1>0, <2>2, ReceivedFacts
  <2>. QED BY <2>1, <2>2, Zenon
<1>2. OthersKept(ex.cur) /\ QueueKept
  BY <1>0, <1>1, Zenon DEF OthersKept, QueueKept
<1>3. ASSUME NEW a \in Approvals PROVE AnswerOK(a)'
  <2>1. ApprovalInv(a) /\ native.request[a] \in {"none", "asked", "resolved"}
    BY <1>0, Zenon DEF SessionInv, Native
  <2>2. CASE native' = native
    BY <2>1, <2>2, Zenon DEF AnswerOK, ApprovalInv
  <2>3. CASE Received(ex.cur)
    BY <1>0, <1>1, <2>1, <2>3, ReceivedFacts DEF AnswerOK, ApprovalInv
  <2>. QED BY <2>2, <2>3, Zenon
<1>. QED BY <1>1, <1>2, <1>3, WriteUnknownStep, Zenon

LEMMA AnsweredFacts ==
  ASSUME transport \in Transport, NEW c \in Commands
  PROVE  /\ Answered(c) \in Transport /\ Answered(c).queue = transport.queue
         /\ Answered(c).reply = transport.reply /\ Answered(c).stop_reply = transport.stop_reply
         /\ \A a \in Approvals : Answered(c).incoming[a] =
              IF a = command[c].on THEN "answered" ELSE transport.incoming[a]
  BY Zenon DEF Transport, Answered

LEMMA WriteDecisionStep ==
  ASSUME NoOneAssumption, SessionInv, ex.pc = "write", WriteDecision(ex.cur),
         UNCHANGED <<run, session, late, crashes>>
  PROVE  SessionInv'
<1>. DEFINE c == ex.cur
            on == command[c].on
<1>0. /\ c \in Commands /\ on \in Approvals /\ command[c].kind = "decide"
      /\ ex \in Executor /\ transport \in Transport /\ native \in Native
      /\ command[c].status = "delivered" /\ native.wire[c] = 0 /\ c \notin ex.resolutions
      /\ \A a \in Approvals : ex.sent[a] # c
      /\ ex.cancel <=> transport.stop_reply # "none"
  BY CurFacts, Zenon DEF WriteDecision
<1>1. CASE /\ may_respond(on) /\ Received(c) /\ transport' = Answered(c) /\ UNCHANGED command
           /\ ex' = [ex EXCEPT !.pc = "commands", !.cur = NoOne, !.sent[on] = c]
  <2>. HIDE DEF c, on
  <2>1. /\ ex' \in Executor /\ ex'.pc = "commands" /\ ex'.cur = NoOne /\ ex'.todo = ex.todo
        /\ ex'.pending = ex.pending /\ ex'.resolutions = ex.resolutions
        /\ ex'.dispatched = ex.dispatched /\ ex'.terminal = ex.terminal /\ ex'.stop = ex.stop
        /\ ex'.cancel = ex.cancel /\ ex'.sent[on] = c
        /\ \A a \in Approvals \ {on} : ex'.sent[a] = ex.sent[a]
    BY <1>0, <1>1, Zenon DEF Executor, Step
  <2>2. /\ transport' \in Transport /\ transport'.queue = transport.queue
        /\ transport'.reply = transport.reply /\ transport'.stop_reply = transport.stop_reply
        /\ \A a \in Approvals : transport'.incoming[a] =
             IF a = on THEN "answered" ELSE transport.incoming[a]
    BY <1>0, <1>1, AnsweredFacts, Zenon DEF on
  <2>3. /\ native' \in Native /\ native'.turn = native.turn /\ native'.done = native.done
        /\ native'.request = native.request /\ native'.wire[c] = 1
        /\ \A d \in Commands \ {c} : native'.wire[d] = native.wire[d]
        /\ \A a \in Approvals : native'.answers[a] =
             IF a = on THEN native.answers[a] + 1 ELSE native.answers[a]
    BY <1>0, <1>1, ReceivedFacts DEF on
  <2>4. ASSUME NEW a \in Approvals PROVE ApprovalInv(a)'
    <3>1. /\ ApprovalInv(a) /\ transport.incoming[on] = "open"
          /\ native.request[a] = "none" => transport.incoming[a] = "none"
      BY <1>1, Zenon DEF SessionInv, ApprovalInv, may_respond
    <3>2. CASE a = on
      <4>1. /\ ex'.sent[a] = c /\ c # NoOne /\ c # ex'.cur /\ c \notin ex'.resolutions
            /\ native'.wire[c] = 1 /\ command'[c].status = "delivered"
            /\ command'[c].kind = "decide" /\ command'[c].on = a
        BY <1>0, <1>1, <2>1, <2>3, <3>2, NoOneAssumption DEF NoOneAssumption, on
      <4>2. transport'.incoming[a] = "answered" /\ native'.request[a] = native.request[a]
        BY <2>2, <2>3, <3>2, Zenon
      <4>3. native.answers[a] = 0 /\ native.request[a] # "none"
        BY <3>1, <3>2, Zenon DEF ApprovalInv
      <4>4. native'.answers[a] = 1
        BY <2>3, <3>2, <4>3
      <4>. QED BY <4>1, <4>2, <4>3, <4>4, Zenon DEF ApprovalInv
    <3>3. CASE a # on
      BY <1>0, <1>1, <2>1, <2>2, <2>3, <3>1, <3>3, NoOneAssumption
         DEF ApprovalInv, NoOneAssumption, Executor
    <3>. QED BY <3>2, <3>3, Zenon
  <2>. QED BY <1>0, <1>1, <2>1, <2>2, <2>3, <2>4, WrittenStep, Zenon DEF c
<1>2. CASE /\ may_respond(on) /\ (native' = native \/ Received(c)) /\ transport' = Answered(c)
           /\ WriteUnknown
  BY <1>0, <1>2, AnsweredFacts, UnknownStep DEF may_respond
<1>3. CASE ~may_respond(on) /\ UNCHANGED <<transport, native>> /\ WriteUnknown
  <2>1. ~Received(c)
    BY <1>0, <1>3, ReceivedFacts DEF Native
  <2>. QED BY <1>0, <1>3, <2>1, UnknownStep, Zenon DEF may_respond
<1>. QED BY <1>1, <1>2, <1>3, Zenon DEF WriteDecision

LEMMA OtherApprovals ==
  ASSUME NoOneAssumption, SessionInv, ex.pc = "write", native \in Native, UNCHANGED command,
         ex'.cur = NoOne, ex'.sent = ex.sent, ex'.resolutions = ex.resolutions,
         transport'.incoming = transport.incoming, native'.request = native.request,
         \A a \in Approvals : native'.answers[a] = native.answers[a],
         \A d \in Commands \ {ex.cur} : native'.wire[d] = native.wire[d]
  PROVE  \A a \in Approvals : ApprovalInv(a)'
<1>. SUFFICES ASSUME NEW a \in Approvals PROVE ApprovalInv(a)'
  OBVIOUS
<1>1. ApprovalInv(a) /\ ex.sent[a] \in Commands \cup {NoOne}
  BY Zenon DEF SessionInv, SessionTypeOK, Executor
<1>. QED BY <1>1, NoOneAssumption DEF ApprovalInv, NoOneAssumption

LEMMA WriteMessageStep ==
  ASSUME NoOneAssumption, SessionInv, ex.pc = "write", WriteMessage(ex.cur),
         UNCHANGED <<run, session, late, crashes>>
  PROVE  SessionInv'
<1>. DEFINE c == ex.cur
<1>0. /\ c \in Commands /\ command[c].kind = "user_message" /\ native.wire[c] = 0
      /\ ex \in Executor /\ transport \in Transport /\ native \in Native
      /\ ex.cancel <=> transport.stop_reply # "none"
  BY CurFacts, Zenon DEF WriteMessage
<1>1. CASE /\ Received(c) /\ transport' = [transport EXCEPT !.reply[c] = "open"] /\ UNCHANGED command
           /\ ex' = [ex EXCEPT !.pc = "commands", !.cur = NoOne, !.pending = ex.pending \cup {c}]
  <2>. HIDE DEF c
  <2>1. /\ ex' \in Executor /\ ex'.pc = "commands" /\ ex'.cur = NoOne /\ ex'.todo = ex.todo
        /\ ex'.pending = ex.pending \cup {c} /\ ex'.resolutions = ex.resolutions
        /\ ex'.dispatched = ex.dispatched /\ ex'.terminal = ex.terminal /\ ex'.stop = ex.stop
        /\ ex'.cancel = ex.cancel /\ ex'.sent = ex.sent
    BY <1>0, <1>1, Zenon DEF Executor, Step
  <2>2. /\ transport' \in Transport /\ transport'.queue = transport.queue
        /\ transport'.incoming = transport.incoming /\ transport'.stop_reply = transport.stop_reply
        /\ \A d \in Commands \ {c} : transport'.reply[d] = transport.reply[d]
    BY <1>0, <1>1, Zenon DEF Transport, Reply
  <2>3. /\ native' \in Native /\ native'.turn = native.turn /\ native'.done = native.done
        /\ native'.request = native.request /\ native'.wire[c] = 1
        /\ \A d \in Commands \ {c} : native'.wire[d] = native.wire[d]
        /\ \A a \in Approvals : native'.answers[a] = native.answers[a]
    BY <1>0, <1>1, ReceivedFacts
  <2>4. \A a \in Approvals : ApprovalInv(a)'
    BY <1>0, <1>1, <2>1, <2>2, <2>3, OtherApprovals, Zenon DEF c
  <2>. QED BY <1>0, <1>1, <2>1, <2>2, <2>3, <2>4, WrittenStep, Zenon DEF c
<1>2. CASE (native' = native \/ Received(c)) /\ transport' = fail(transport) /\ WriteUnknown
  BY <1>0, <1>2, FailFacts, UnknownStep, Zenon
<1>. QED BY <1>1, <1>2, Zenon DEF WriteMessage

(* A second interrupt is not written: it waits for the reply to the first. *)
LEMMA WriteInterruptStep ==
  ASSUME NoOneAssumption, SessionInv, ex.pc = "write", WriteInterrupt(ex.cur),
         UNCHANGED <<run, session, late, crashes>>
  PROVE  SessionInv'
<1>. DEFINE c == ex.cur
<1>0. /\ c \in Commands /\ command[c].kind = "interrupt" /\ native.wire[c] = 0
      /\ ex \in Executor /\ transport \in Transport /\ native \in Native
      /\ ex.cancel <=> transport.stop_reply # "none"
  BY CurFacts, Zenon DEF WriteInterrupt
<1>1. CASE /\ IF ex.cancel THEN UNCHANGED <<transport, native>>
              ELSE transport' = [transport EXCEPT !.stop_reply = "open"] /\ Received(c)
           /\ UNCHANGED command
           /\ ex' = [ex EXCEPT !.pc = "commands", !.cur = NoOne, !.cancel = TRUE,
                               !.pending = ex.pending \cup {c}]
  <2>. HIDE DEF c
  <2>1. /\ ex' \in Executor /\ ex'.pc = "commands" /\ ex'.cur = NoOne /\ ex'.todo = ex.todo
        /\ ex'.pending = ex.pending \cup {c} /\ ex'.resolutions = ex.resolutions
        /\ ex'.dispatched = ex.dispatched /\ ex'.terminal = ex.terminal /\ ex'.stop = ex.stop
        /\ ex'.cancel /\ ex'.sent = ex.sent
    BY <1>0, <1>1, Zenon DEF Executor, Step
  <2>2. /\ transport' \in Transport /\ transport'.queue = transport.queue
        /\ transport'.incoming = transport.incoming /\ transport'.reply = transport.reply
        /\ transport'.stop_reply # "none"
        /\ transport.stop_reply \in {"ok", "refused"} => transport'.stop_reply = transport.stop_reply
    BY <1>0, <1>1, Zenon DEF Transport, Reply
  <2>3. /\ native' \in Native /\ native'.turn = native.turn /\ native'.done = native.done
        /\ native'.request = native.request /\ native'.wire[c] \in {0, 1}
        /\ \A d \in Commands \ {c} : native'.wire[d] = native.wire[d]
        /\ \A a \in Approvals : native'.answers[a] = native.answers[a]
    <3>1. CASE native' = native
      BY <1>0, <3>1, Zenon
    <3>2. CASE Received(c)
      BY <1>0, <3>2, ReceivedFacts
    <3>. QED BY <1>1, <3>1, <3>2, Zenon
  <2>4. \A a \in Approvals : ApprovalInv(a)'
    BY <1>0, <1>1, <2>1, <2>2, <2>3, OtherApprovals, Zenon DEF c
  <2>. QED BY <1>0, <1>1, <2>1, <2>2, <2>3, <2>4, WrittenStep, Zenon DEF c
<1>2. CASE (native' = native \/ Received(c)) /\ transport' = fail(transport) /\ WriteUnknown
  BY <1>0, <1>2, FailFacts, UnknownStep, Zenon
<1>. QED BY <1>1, <1>2, Zenon DEF WriteInterrupt

LEMMA WriteStep ==
  ASSUME NoOneAssumption, SessionInv, Write
  PROVE  SessionInv'
  BY WriteDecisionStep, WriteMessageStep, WriteInterruptStep, Zenon DEF Write

-----------------------------------------------------------------------------
(* The end of the session, the end of the Worker and recovery. *)

LEMMA FreshFacts ==
  ASSUME NoOneAssumption, NEW pc \in Step, ex' = [Fresh EXCEPT !.pc = pc]
  PROVE  /\ ex' \in Executor /\ ex'.pc = pc /\ ex'.cur = NoOne /\ ex'.todo = {}
         /\ ex'.pending = {} /\ ex'.resolutions = {} /\ ~ex'.stop /\ ~ex'.terminal
         /\ \A a \in Approvals : ex'.sent[a] = NoOne
         /\ MemoryKept
<1>1. ex' \in Executor
  BY FreshType, Zenon
<1>2. /\ ex'.pc = pc /\ ex'.cur = NoOne /\ ex'.todo = {}
      /\ ex'.pending = {} /\ ex'.resolutions = {} /\ ~ex'.stop /\ ~ex'.terminal
      /\ \A a \in Approvals : ex'.sent[a] = NoOne
  BY Zenon DEF Fresh
<1>. QED BY <1>1, <1>2, Zenon DEF MemoryKept

LEMMA EmptyQueue ==
  ASSUME NEW t \in Transport
  PROVE  LET e == [t EXCEPT !.queue = <<>>]
         IN  /\ e \in Transport /\ e.queue = <<>> /\ e.incoming = t.incoming
             /\ e.reply = t.reply /\ e.stop_reply = t.stop_reply
<1>. DEFINE q == <<>>
<1>1. q \in Seq(Frame)
  OBVIOUS
<1>2. /\ [t EXCEPT !.queue = q].queue = q /\ [t EXCEPT !.queue = q].incoming = t.incoming
      /\ [t EXCEPT !.queue = q].reply = t.reply /\ [t EXCEPT !.queue = q].stop_reply = t.stop_reply
  BY Zenon DEF Transport
<1>. HIDE DEF q
<1>3. [t EXCEPT !.queue = q] \in Transport
  BY <1>1, Zenon DEF Transport
<1>. QED BY <1>2, <1>3, Zenon DEF q

LEMMA FinallyStep ==
  ASSUME NoOneAssumption, SessionInv, Finally
  PROVE  SessionInv'
<1>. USE DEF Finally
<1>0. /\ ex \in Executor /\ transport \in Transport /\ ex.pc = "finally" /\ ex.cur = NoOne
      /\ run.status = "running" /\ session.approval \in [Approvals -> ApprovalState]
      /\ \A c \in Commands, a \in Approvals : ex.sent[a] # c
  BY Zenon DEF SessionInv, SessionTypeOK, SessionTables, Transport, FlowInv, TodoInv
<1>1. /\ ex' \in Executor /\ ex'.pc = "acks" /\ ex'.cur = NoOne /\ ex'.stop
      /\ ex'.todo = ex.pending \cup ex.resolutions
      /\ ex'.pending = ex.pending /\ ex'.resolutions = ex.resolutions /\ ex'.sent = ex.sent
      /\ ex'.dispatched = ex.dispatched /\ ex'.terminal = ex.terminal /\ ex'.error = ex.error
  BY <1>0, Zenon DEF Executor, Step
<1>2. /\ transport' \in Transport /\ transport'.queue = <<>>
      /\ transport'.incoming = transport.incoming /\ transport'.reply = transport.reply
      /\ transport'.stop_reply = transport.stop_reply
  BY <1>0, EmptyQueue, Zenon
<1>3. session' \in SessionRow /\ session'.state = "stopping"
  BY <1>0, TransitionType, Zenon DEF SessionState
<1>4. CommandsKept /\ MemoryKept /\ AnswersKept /\ QueueKept
  BY <1>1, <1>2, Zenon DEF CommandsKept, MemoryKept, AnswersKept, QueueKept
<1>5. SessionTypeOK'
  BY <1>1, <1>2, <1>3, Zenon DEF SessionInv, SessionTypeOK, SessionTables, SessionRow, Transport
<1>6. FlowInv' /\ TurnInv'
  BY <1>0, <1>1, <1>2, <1>3, Zenon DEF SessionInv, FlowInv, TurnInv, Looping, Opening, Known
<1>7. \A c \in Commands : TodoInv(c)'
  BY <1>0, <1>1 DEF TodoInv
<1>8. NoneLeftOpen' /\ TurnKnown'
  BY <1>0, <1>3, StillOpen, Zenon DEF TurnKnown
<1>. QED BY <1>4, <1>5, <1>6, <1>7, <1>8, Quiet, Frames, Zenon DEF SessionInv

LEMMA SettleStep ==
  ASSUME NoOneAssumption, SessionInv, NEW c \in Commands, Settle(c)
  PROVE  SessionInv'
<1>. USE DEF Settle
<1>0. /\ ex \in Executor /\ ex.pc \in {"settle", "resettle"} /\ ex.cur = NoOne /\ c \in ex.todo
      /\ c \notin ex.pending /\ c \notin ex.resolutions /\ \A a \in Approvals : ex.sent[a] # c
      /\ command[c].status \in Open /\ CommandInv(c)
      /\ transport \in Transport /\ native \in Native
      /\ \A d \in Commands : d \in ex.todo <=> command[d].status \in Open
  BY Zenon DEF SessionInv, SessionTypeOK, Transport, Native, FlowInv, TodoInv
<1>. DEFINE status == settled_status(c)
<1>1. /\ status \in Final /\ command' = [command EXCEPT ![c].status = status]
      /\ status \in {"rejected", "expired"} => native.wire[c] = 0
      /\ status \in {"rejected", "expired", "delivery_unknown"}
  BY <1>0, TransitionCommand, Zenon DEF settled_status, Final, Open, CommandInv
<1>. HIDE DEF status
<1>2. /\ ex' \in Executor /\ ex'.pc = ex.pc /\ ex'.cur = NoOne /\ ex'.todo = ex.todo \ {c}
      /\ ex'.pending = ex.pending /\ ex'.resolutions = ex.resolutions /\ ex'.sent = ex.sent
      /\ ex'.dispatched = ex.dispatched /\ ex'.terminal = ex.terminal /\ ex'.error = ex.error
      /\ ex'.stop = ex.stop /\ ex'.cancel = ex.cancel
  BY <1>0, Zenon DEF Executor
<1>3. Truthful(c, status) /\ native'.wire[c] \in {0, 1}
  BY <1>0, <1>1, Zenon DEF Truthful, CommandInv
<1>4. OthersKept(c) /\ Released(c) /\ QueueKept /\ AnswersKept
  BY <1>0, <1>1, <1>2, NoOneAssumption
     DEF OthersKept, Released, QueueKept, AnswersKept, SessionInv, SessionTypeOK, SessionTables, NoOneAssumption
<1>5. \A a \in Approvals : ApprovalInv(a)'
  BY <1>4, MarkedApprovals, Zenon
<1>6. FlowInv' /\ TurnInv' /\ TurnKnown'
  BY <1>0, <1>2, Zenon DEF SessionInv, FlowInv, TurnInv, TurnKnown, Looping, Opening, Known
<1>7. \A d \in Commands : TodoInv(d)'
  <2>1. \A d \in Commands : d \in ex'.todo <=> command'[d].status \in Open
    <3>1. command'[c].status = status /\ \A d \in Commands \ {c} : command'[d] = command[d]
      BY <1>1 DEF SessionInv, SessionTypeOK, SessionTables, CommandRecord
    <3>. QED BY <1>0, <1>1, <1>2, <3>1, Zenon DEF Final, Open
  <2>2. \A d \in Commands : /\ d \notin ex.pending \cup ex.resolutions
                            /\ \A a \in Approvals : ex.sent[a] # d
    BY <1>0, Zenon DEF SessionInv, TodoInv
  <2>. QED BY <1>0, <1>2, <2>1, <2>2, Zenon DEF TodoInv
<1>. QED BY <1>0, <1>1, <1>2, <1>3, <1>4, <1>5, <1>6, <1>7, OutcomeStep, Zenon

LEMMA RecoverDeliveredStep ==
  ASSUME NoOneAssumption, SessionInv, NEW c \in Commands, RecoverDelivered(c)
  PROVE  SessionInv'
<1>. USE DEF RecoverDelivered
<1>0. /\ ex \in Executor /\ ex.pc = "recover" /\ ex.cur = NoOne /\ c \in ex.todo
      /\ c \notin ex.pending /\ c \notin ex.resolutions /\ \A a \in Approvals : ex.sent[a] # c
      /\ CommandInv(c) /\ transport \in Transport /\ native \in Native
      /\ \A d \in Commands : d \in ex.todo => command[d].status = "delivered"
  BY Zenon DEF SessionInv, SessionTypeOK, Transport, Native, FlowInv, TodoInv
<1>1. command' = [command EXCEPT ![c].status = "delivery_unknown"]
  BY TransitionCommand, Zenon
<1>2. /\ ex' \in Executor /\ ex'.pc = ex.pc /\ ex'.cur = NoOne /\ ex'.todo = ex.todo \ {c}
      /\ ex'.pending = ex.pending /\ ex'.resolutions = ex.resolutions /\ ex'.sent = ex.sent
      /\ ex'.dispatched = ex.dispatched /\ ex'.terminal = ex.terminal /\ ex'.error = ex.error
      /\ ex'.stop = ex.stop /\ ex'.cancel = ex.cancel
  BY <1>0, Zenon DEF Executor
<1>3. "delivery_unknown" \in Final /\ Truthful(c, "delivery_unknown") /\ native'.wire[c] \in {0, 1}
  BY <1>0, Zenon DEF Truthful, CommandInv, Final
<1>4. OthersKept(c) /\ Released(c) /\ QueueKept /\ AnswersKept
  BY <1>0, <1>1, <1>2, NoOneAssumption
     DEF OthersKept, Released, QueueKept, AnswersKept, SessionInv, SessionTypeOK, SessionTables, NoOneAssumption
<1>5. \A a \in Approvals : ApprovalInv(a)'
  BY <1>4, MarkedApprovals, Zenon
<1>6. FlowInv' /\ TurnInv' /\ TurnKnown'
  BY <1>0, <1>2, Zenon DEF SessionInv, FlowInv, TurnInv, TurnKnown, Looping, Opening, Known
<1>7. \A d \in Commands : TodoInv(d)'
  <2>1. \A d \in Commands \ {c} : command'[d] = command[d]
    BY <1>1, Zenon DEF SessionInv, SessionTypeOK, SessionTables
  <2>2. \A d \in Commands : /\ d \notin ex.pending \cup ex.resolutions
                            /\ \A a \in Approvals : ex.sent[a] # d
    BY <1>0, Zenon DEF SessionInv, TodoInv
  <2>. QED BY <1>0, <1>2, <2>1, <2>2 DEF TodoInv
<1>. QED BY <1>0, <1>1, <1>2, <1>3, <1>4, <1>5, <1>6, <1>7, OutcomeStep, Zenon

LEMMA CloseStep ==
  ASSUME NoOneAssumption, SessionInv, Close
  PROVE  SessionInv'
<1>. USE DEF Close
<1>0. /\ ex \in Executor /\ transport \in Transport /\ native \in Native
      /\ ex.pc = "settle" /\ ex.cur = NoOne /\ ex.stop /\ run.status = "running"
      /\ session.state \in {"stopping", "terminal"}
      /\ \A c \in Commands : command[c].status \notin Open
  BY Zenon DEF SessionInv, SessionTypeOK, Transport, Native, FlowInv, TodoInv
<1>1. /\ ex' \in Executor /\ ex'.cur = NoOne /\ ex'.stop /\ ex'.pending = ex.pending
      /\ ex'.resolutions = ex.resolutions /\ ex'.sent = ex.sent /\ ex'.dispatched = ex.dispatched
      /\ ex'.terminal = ex.terminal /\ ex'.error = ex.error
      /\ ex'.pc = "finish" \/ (ex'.pc = "done" /\ ex'.outcome = "quarantined")
  <2>1. CASE ex' = [ex EXCEPT !.pc = "finish"]
    BY <1>0, <2>1, Zenon DEF Executor, Step
  <2>2. CASE ex' = [ex EXCEPT !.pc = "done", !.outcome = "quarantined"]
    BY <1>0, <2>2, Zenon DEF Executor, Step, Outcome
  <2>. QED BY <2>1, <2>2, Zenon DEF Goes
<1>2. /\ native' \in Native /\ native'.turn = native.turn /\ native'.done = native.done
      /\ native'.request = native.request /\ native'.wire = native.wire /\ native'.answers = native.answers
  BY <1>0, Zenon DEF Native
<1>3. /\ CommandsKept /\ AnswersKept /\ QueueKept /\ transport' \in Transport
      /\ transport'.stop_reply = "none" <=> transport.stop_reply = "none"
  BY <1>0, <1>2, FailFacts, Zenon DEF CommandsKept, AnswersKept, QueueKept
<1>4. SessionTypeOK' /\ MemoryKept
  BY <1>1, <1>2, <1>3, Zenon
     DEF SessionInv, SessionTypeOK, SessionTables, Transport, Native, MemoryKept
<1>5. FlowInv' /\ TurnInv'
  BY <1>0, <1>1, <1>2, <1>3, Zenon DEF SessionInv, FlowInv, TurnInv, Looping, Opening, Known
<1>6. NoneLeftOpen' /\ TurnKnown' /\ \A c \in Commands : TodoInv(c)'
  BY <1>0, <1>1, Zenon DEF NoneLeftOpen, TurnKnown, TodoInv
<1>. QED BY <1>3, <1>4, <1>5, <1>6, Quiet, Frames, Zenon DEF SessionInv

LEMMA AbandonType ==
  ASSUME SessionInv
  PROVE  abandon_all(session.approval) \in [Approvals -> ApprovalState]
  BY Zenon DEF SessionInv, SessionTypeOK, SessionTables, abandon_all, ApprovalState

LEMMA FinishStep ==
  ASSUME NoOneAssumption, SessionInv, Finish
  PROVE  SessionInv'
<1>. USE DEF Finish
<1>0. /\ ex \in Executor /\ ex.pc = "finish" /\ ex.cur = NoOne /\ ex.stop /\ run.status = "running"
      /\ session \in SessionRow /\ session.state \in {"stopping", "terminal"}
      /\ \A c \in Commands : command[c].status \notin Open
  BY Zenon DEF SessionInv, SessionTypeOK, SessionTables, SessionRow, FlowInv, TodoInv
<1>1. session' \in SessionRow /\ session'.state \in {"stopping", "terminal"}
  BY <1>0, AbandonType, TransitionType, Zenon DEF SessionState, Closed
<1>2. /\ ex' \in Executor /\ ex'.pc = "done" /\ ex'.cur = NoOne /\ ex'.stop /\ ex'.pending = ex.pending
      /\ ex'.resolutions = ex.resolutions /\ ex'.sent = ex.sent /\ ex'.dispatched = ex.dispatched
      /\ ex'.terminal = ex.terminal /\ ex'.error = ex.error
      /\ \/ ex'.outcome = "raised"
         \/ ex'.outcome = IF ~ex.error \/ run.cancelling THEN "returned"
                          ELSE IF ex.dispatched /\ ~ex.terminal THEN "quarantined" ELSE "failed"
  <2>1. PICK o \in Outcome :
          /\ ex' = [ex EXCEPT !.pc = "done", !.outcome = o]
          /\ \/ o = "raised"
             \/ o = IF ~ex.error \/ run.cancelling THEN "returned"
                    ELSE IF ex.dispatched /\ ~ex.terminal THEN "quarantined" ELSE "failed"
    BY Zenon DEF Raises, Outcome
  <2>. QED BY <1>0, <2>1, Zenon DEF Executor, Step
<1>3. CommandsKept /\ MemoryKept /\ AnswersKept /\ QueueKept
  BY <1>2, Zenon DEF CommandsKept, MemoryKept, AnswersKept, QueueKept
<1>4. SessionTypeOK'
  BY <1>1, <1>2, Zenon DEF SessionInv, SessionTypeOK, SessionTables, SessionRow
<1>5. FlowInv'
  BY <1>0, <1>1, <1>2, Zenon DEF SessionInv, FlowInv, Looping, Opening
<1>6. TurnInv'
  BY <1>0, <1>1, <1>2, Zenon DEF SessionInv, TurnInv, Looping, Known
<1>7. NoneLeftOpen' /\ TurnKnown' /\ \A c \in Commands : TodoInv(c)'
  BY <1>0, <1>2, Zenon DEF NoneLeftOpen, TurnKnown, TodoInv
<1>. QED BY <1>3, <1>4, <1>5, <1>6, <1>7, Quiet, Frames, Zenon DEF SessionInv

(* The Run gets its status, and no executor is left. *)
LEMMA OverStep ==
  ASSUME NoOneAssumption, SessionInv, ex' = [Fresh EXCEPT !.pc = "over"],
         UNCHANGED <<session, command, late, transport, native, crashes>>,
         run' \in [status : RunStatus, cancelling : BOOLEAN],
         run'.status # "running", TurnKnown', \A c \in Commands : command[c].status \notin Open
  PROVE  SessionInv'
<1>1. /\ ex' \in Executor /\ ex'.pc = "over" /\ ex'.cur = NoOne /\ ~ex'.stop /\ ~ex'.terminal
      /\ MemoryKept
  BY FreshFacts, Zenon DEF Step
<1>2. CommandsKept /\ AnswersKept /\ QueueKept
  BY Zenon DEF CommandsKept, AnswersKept, QueueKept
<1>3. SessionTypeOK'
  BY <1>1, Zenon DEF SessionInv, SessionTypeOK, SessionTables
<1>4. FlowInv' /\ TurnInv'
  BY <1>1, Zenon DEF FlowInv, TurnInv, Looping, Opening
<1>5. NoneLeftOpen' /\ \A c \in Commands : TodoInv(c)'
  BY <1>1, Zenon DEF NoneLeftOpen, TodoInv
<1>. QED BY <1>1, <1>2, <1>3, <1>4, <1>5, Quiet, Frames, Zenon DEF SessionInv

LEMMA RunEndsStep ==
  ASSUME NoOneAssumption, SessionInv, RunEnds
  PROVE  SessionInv'
<1>. USE DEF RunEnds
<1>1. /\ run' \in [status : RunStatus, cancelling : BOOLEAN]
      /\ run'.status # "running" /\ run'.cancelling = run.cancelling
      /\ run'.status = "settled" => ex.outcome \notin {"quarantined", "raised"}
  <2>1. PICK st \in {"needs_review", "settled", "errored"} :
          /\ run' = [run EXCEPT !.status = st]
          /\ st = "settled" => ex.outcome \notin {"quarantined", "raised"}
    OBVIOUS
  <2>. QED BY <2>1, Zenon DEF SessionInv, SessionTypeOK, SessionTables, RunStatus
<1>2. TurnKnown' /\ \A c \in Commands : command[c].status \notin Open
  BY <1>1, Zenon DEF SessionInv, TurnInv, TodoInv, Known, TurnKnown
<1>. QED BY <1>1, <1>2, OverStep, Zenon

LEMMA CrashStep ==
  ASSUME NoOneAssumption, BoundAssumption, SessionInv, Crash
  PROVE  SessionInv'
<1>. USE DEF Crash
<1>0. transport \in Transport /\ native \in Native
  BY Zenon DEF SessionInv, SessionTypeOK, Transport, Native
<1>1. /\ ex' \in Executor /\ ex'.pc = "down" /\ ex'.cur = NoOne /\ ex'.todo = {} /\ ~ex'.stop
      /\ ~ex'.terminal /\ ex'.pending = {} /\ ex'.resolutions = {} /\ MemoryKept
      /\ \A a \in Approvals : ex'.sent[a] = NoOne
  BY FreshFacts, Zenon DEF Step
<1>2. /\ native' \in Native /\ native'.turn = native.turn /\ native'.done = native.done
      /\ native'.request = native.request /\ native'.wire = native.wire /\ native'.answers = native.answers
  BY <1>0, Zenon DEF Native
<1>3. /\ transport' \in Transport /\ transport'.queue = <<>>
      /\ transport'.incoming = fail(transport).incoming /\ transport'.reply = fail(transport).reply
      /\ transport'.stop_reply = fail(transport).stop_reply
  <2>1. fail(transport) \in Transport
    BY <1>0, FailType, Zenon
  <2>. QED BY <2>1, EmptyQueue, Zenon
<1>4. /\ CommandsKept /\ AnswersKept /\ QueueKept
      /\ transport'.stop_reply = "none" <=> transport.stop_reply = "none"
  BY <1>0, <1>2, <1>3, FailFacts, Zenon DEF CommandsKept, AnswersKept, QueueKept
<1>5. SessionTypeOK'
  <2>1. crashes' \in 0..MaxCrashes
    BY BoundAssumption DEF SessionInv, SessionTypeOK, BoundAssumption
  <2>. QED BY <1>1, <1>2, <1>3, <2>1, Zenon DEF SessionInv, SessionTypeOK, SessionTables, Transport, Native
<1>6. FlowInv' /\ TurnInv'
  BY <1>1, Zenon DEF FlowInv, TurnInv, Looping, Opening
<1>7. NoneLeftOpen' /\ TurnKnown' /\ \A c \in Commands : TodoInv(c)'
  <2>1. NoneLeftOpen' /\ TurnKnown'
    BY <1>2, <1>4, StillOpen, StillKnown, Zenon DEF Known
  <2>2. \A c \in Commands : TodoInv(c)'
    BY <1>1, NoOneAssumption, Zenon DEF TodoInv, NoOneAssumption
  <2>. QED BY <2>1, <2>2, Zenon
<1>. QED BY <1>1, <1>4, <1>5, <1>6, <1>7, Quiet, Frames, Zenon DEF SessionInv

LEMMA RestartStep ==
  ASSUME NoOneAssumption, SessionInv, Restart
  PROVE  SessionInv'
<1>. USE DEF Restart
<1>0. /\ ex \in Executor /\ ex.pc = "down" /\ ex.cur = NoOne
      /\ \A c \in Commands : /\ c \notin ex.pending \cup ex.resolutions
                             /\ \A a \in Approvals : ex.sent[a] # c
  BY Zenon DEF SessionInv, SessionTypeOK, FlowInv, TodoInv
<1>1. /\ ex' \in Executor /\ ex'.pc = "recover" /\ ex'.cur = NoOne /\ ex'.stop = ex.stop
      /\ ex'.todo = {c \in Commands : command[c].status = "delivered"}
      /\ ex'.pending = ex.pending /\ ex'.resolutions = ex.resolutions /\ ex'.sent = ex.sent
      /\ ex'.terminal = ex.terminal
  BY <1>0, Zenon DEF Executor, Step
<1>2. CommandsKept /\ MemoryKept /\ AnswersKept /\ QueueKept
  BY <1>1, Zenon DEF CommandsKept, MemoryKept, AnswersKept, QueueKept
<1>3. SessionTypeOK'
  BY <1>1, Zenon DEF SessionInv, SessionTypeOK, SessionTables
<1>4. FlowInv' /\ TurnInv'
  BY <1>0, <1>1, Zenon DEF SessionInv, FlowInv, TurnInv, Looping, Opening
<1>5. NoneLeftOpen' /\ TurnKnown' /\ \A c \in Commands : TodoInv(c)'
  BY <1>0, <1>1 DEF SessionInv, NoneLeftOpen, TurnKnown, TodoInv
<1>. QED BY <1>2, <1>3, <1>4, <1>5, Quiet, Frames, Zenon DEF SessionInv

LEMMA AbandonStep ==
  ASSUME NoOneAssumption, SessionInv, Abandon
  PROVE  SessionInv'
<1>. USE DEF Abandon
<1>0. /\ ex \in Executor /\ ex.pc = "recover" /\ ex.cur = NoOne
      /\ session \in SessionRow
      /\ \A c \in Commands : /\ c \notin ex.pending \cup ex.resolutions
                             /\ \A a \in Approvals : ex.sent[a] # c
  BY SMTT(30) DEF SessionInv, SessionTypeOK, SessionTables, SessionRow, FlowInv, TodoInv
<1>1. /\ ex' \in Executor /\ ex'.pc = "resettle" /\ ex'.cur = NoOne /\ ex'.stop = ex.stop
      /\ ex'.todo = {c \in Commands : command[c].status \in Open}
      /\ ex'.pending = ex.pending /\ ex'.resolutions = ex.resolutions /\ ex'.sent = ex.sent
      /\ ex'.terminal = ex.terminal
  BY <1>0, Zenon DEF Executor, Step
<1>2. /\ session' \in SessionRow /\ session'.state # "active"
      /\ session'.state = "terminal" => session.state = "terminal"
  <2>1. CASE UNCHANGED session /\ session.state \in Closed \cup {"none"}
    BY <1>0, <2>1, Zenon DEF Closed
  <2>2. CASE transition("abandoned", abandon_all(session.approval), FALSE)
    BY <2>2, AbandonType, TransitionType, Zenon DEF SessionState, Closed
  <2>. QED BY <2>1, <2>2, Zenon
<1>3. CommandsKept /\ MemoryKept /\ AnswersKept /\ QueueKept
  BY <1>1, Zenon DEF CommandsKept, MemoryKept, AnswersKept, QueueKept
<1>4. SessionTypeOK'
  BY <1>1, <1>2, Zenon DEF SessionInv, SessionTypeOK, SessionTables, SessionRow
<1>5. FlowInv' /\ TurnInv'
  BY <1>0, <1>1, <1>2, Zenon DEF SessionInv, FlowInv, TurnInv, Looping, Opening
<1>6. NoneLeftOpen' /\ TurnKnown'
  BY <1>2, StillOpen, Zenon DEF SessionInv, TurnKnown
<1>7. \A c \in Commands : TodoInv(c)'
  BY <1>0, <1>1 DEF TodoInv
<1>. QED BY <1>3, <1>4, <1>5, <1>6, <1>7, Quiet, Frames, Zenon DEF SessionInv

LEMMA QuarantineStep ==
  ASSUME NoOneAssumption, SessionInv, Quarantine
  PROVE  SessionInv'
<1>. USE DEF Quarantine
<1>1. /\ run' \in [status : RunStatus, cancelling : BOOLEAN]
      /\ run'.status = IF run.status = "running" THEN "needs_review" ELSE run.status
      /\ run'.cancelling = run.cancelling
  BY Zenon DEF SessionInv, SessionTypeOK, SessionTables, RunStatus
<1>2. TurnKnown' /\ \A c \in Commands : command[c].status \notin Open
  BY <1>1, Zenon DEF SessionInv, TodoInv, TurnKnown
<1>. QED BY <1>1, <1>2, OverStep, Zenon

-----------------------------------------------------------------------------
LEMMA InitSession ==
  ASSUME NoOneAssumption, NoApprovalAssumption, BoundAssumption, Init
  PROVE  SessionInv
<1>. USE DEF Init, SessionStoreInit
<1>1. SessionTables /\ crashes \in 0..MaxCrashes
  BY BoundAssumption DEF SessionTables, RunStatus, SessionState, ApprovalState, CommandRecord, NoCommand, Open,
                         Final, INTERVENTION_TYPES, BoundAssumption
<1>2. ex \in Executor
  BY Zenon DEF Executor, Fresh, Step, Outcome, ApprovalState
<1>3. transport \in Transport /\ native \in Native
  BY DEF Transport, Native, Reply
<1>4. SessionTypeOK
  BY <1>1, <1>2, <1>3, Zenon DEF SessionTypeOK, Transport, Native
<1>5. FlowInv /\ TurnInv /\ FrameInv
  <2>1. FlowInv
    BY Zenon DEF FlowInv, Fresh, Looping, Opening, NoCommand
  <2>2. TurnInv
    BY Zenon DEF TurnInv, Fresh, Looping, Opening, NoCommand
  <2>3. FrameInv
    <3>1. transport.queue = <<>>
      OBVIOUS
    <3>. QED BY ONLY <3>1 DEF FrameInv
  <2>. QED BY <2>1, <2>2, <2>3, Zenon
<1>6. \A c \in Commands : CommandInv(c) /\ TodoInv(c)
  BY NoOneAssumption, Zenon DEF CommandInv, TodoInv, Fresh, NoCommand, NoOneAssumption
<1>7. \A a \in Approvals : ApprovalInv(a)
  BY Zenon DEF ApprovalInv, Fresh
<1>8. StatusIsTrue /\ NoneLeftOpen /\ TurnKnown
  BY Zenon DEF StatusIsTrue, NoneLeftOpen, TurnKnown, NoCommand, Open
<1>. QED BY <1>4, <1>5, <1>6, <1>7, <1>8, Zenon DEF SessionInv

LEMMA ExecuteStep == ASSUME NoOneAssumption, SessionInv, Execute PROVE SessionInv'
<1>1. CASE Prepare \/ Spawn \/ Starting \/ StartThread \/ DispatchIntent \/ StartTurn
  BY <1>1, PrepareStep, SpawnStep, StartingStep, StartThreadStep, DispatchIntentStep, StartTurnStep, Zenon
<1>2. CASE Poll \/ Acked \/ Check \/ Claimed \/ \E c \in Commands : Ack(c) \/ Claim(c)
  BY <1>2, PollStep, AckedStep, CheckStep, ClaimedStep, AckStep, ClaimStep, Zenon
<1>3. CASE Drain \/ BeforeWrite \/ Write
  BY <1>3, DrainStep, BeforeWriteStep, WriteStep, Zenon
<1>4. CASE Finally \/ Close \/ Finish \/ RunEnds \/ \E c \in Commands : Settle(c)
  BY <1>4, FinallyStep, CloseStep, FinishStep, RunEndsStep, SettleStep, Zenon
<1>. QED BY <1>1, <1>2, <1>3, <1>4, Zenon DEF Execute

LEMMA NextSession ==
  ASSUME KindsAssumption, NoOneAssumption, NoApprovalAssumption, BoundAssumption,
         SessionInv, [Next]_vars
  PROVE  SessionInv'
<1>1. CASE Clients
  BY <1>1, SubmitStep, CancelStep, DeadlineStep, Zenon DEF Clients
<1>2. CASE Server
  BY <1>2, ServerStep, RespondStep, Zenon DEF Server
<1>3. CASE Recover
  BY <1>3, RestartStep, RecoverDeliveredStep, AbandonStep, QuarantineStep, Zenon DEF Recover
<1>4. CASE UNCHANGED vars
  <2>1. /\ CommandsKept /\ MemoryKept /\ AnswersKept /\ QueueKept /\ SessionTypeOK'
        /\ UNCHANGED <<ex, run, command, session, native, transport>>
    BY <1>4, Zenon
       DEF vars, CommandsKept, MemoryKept, AnswersKept, QueueKept, SessionInv, SessionTypeOK, SessionTables
  <2>. QED BY <2>1, Bystander, Quiet, Frames, Zenon DEF SessionInv
<1>. QED BY <1>1, <1>2, <1>3, <1>4, ExitStep, ExecuteStep, CrashStep, Zenon DEF Next

(* The inductive invariant holds in every state. *)
THEOREM SessionIsInvariant == Spec => []SessionInv
<1>1. Init => SessionInv
  BY InitSession, NoOneAssumption, NoApprovalAssumption, BoundAssumption, Zenon
<1>2. SessionInv /\ [Next]_vars => SessionInv'
  BY NextSession, KindsAssumption, NoOneAssumption, NoApprovalAssumption, BoundAssumption, Zenon
<1>. QED BY <1>1, <1>2, PTL DEF Spec

(* The session, its commands, the executor's memory and the transport keep   *)
(* their shapes, through every end of the session and every crash.           *)
THEOREM SessionTyped == Spec => []SessionTypeOK
<1>1. SessionInv => SessionTypeOK
  BY Zenon DEF SessionInv
<1>. QED BY <1>1, SessionIsInvariant, PTL

(* _deliver writes a command at most once, and respond answers a request of  *)
(* the app server at most once, whatever crashes, repeats and claims happen. *)
THEOREM CommandsWrittenOnce == Spec => []WrittenOnce
<1>1. ASSUME SessionInv PROVE WrittenOnce
  <2>1. \A c \in Commands : native.wire[c] \in {0, 1}
    BY <1>1, Zenon DEF SessionInv, CommandInv
  <2>2. \A a \in Approvals : native.answers[a] \in {0, 1}
    BY <1>1, Zenon DEF SessionInv, ApprovalInv
  <2>3. \A n \in {0, 1} : n <= 1
    OBVIOUS
  <2>. QED BY <2>1, <2>2, <2>3, Zenon DEF WrittenOnce
<1>. QED BY <1>1, SessionIsInvariant, PTL

(* The stored status of a command is true of what the app server received    *)
(* and answered: never written if rejected or expired, confirmed if          *)
(* acknowledged, refused if failed.                                          *)
THEOREM AuditIsTrue == Spec => []StatusIsTrue
<1>1. SessionInv => StatusIsTrue
  BY Zenon DEF SessionInv
<1>. QED BY <1>1, SessionIsInvariant, PTL

(* settle_session_commands of the executor, or of the recovery after a       *)
(* crash, leaves no accepted command without an outcome when the Run is over *)
(* or the session terminal.                                                  *)
THEOREM NothingLeftOpen == Spec => []NoneLeftOpen
<1>1. SessionInv => NoneLeftOpen
  BY Zenon DEF SessionInv
<1>. QED BY <1>1, SessionIsInvariant, PTL

-----------------------------------------------------------------------------
(* The app server of a session: it is started once, by Spawn, and Finish is  *)
(* reached only when close has confirmed that it is gone.                    *)
ProcessInv ==
  /\ ex.pc = "idle" => native.process # "running"
  /\ ex.pc = "finish" => native.process = "gone"
  /\ ex.pc = "done" /\ ex.outcome # "quarantined" => native.process # "running"
  /\ run.status \in {"settled", "errored"} => native.process # "running"

(* The executor is in none of the steps that rely on the process, and the    *)
(* process stays what it is.                                                 *)
LEMMA ProcessKept ==
  ASSUME ProcessInv, native'.process = native.process, run'.status = run.status,
         ex' = ex \/ ex'.pc \notin {"idle", "finish", "done"}
  PROVE  ProcessInv'
  BY Zenon DEF ProcessInv

LEMMA ServerProcess ==
  ASSUME SessionInv, ProcessInv, Clients \/ Server \/ Exit
  PROVE  ProcessInv'
<1>0. native \in Native /\ run \in [status : RunStatus, cancelling : BOOLEAN]
  BY Zenon DEF SessionInv, SessionTypeOK, SessionTables, Native
<1>1. ex' = ex
  BY Zenon DEF Clients, Server, Exit, submit_command, cancel, PassDeadline, Ask, Resolve, Change,
               Complete, Misbehave, Respond, read_frame
<1>2. run'.status = run.status
  <2>1. CASE cancel
    BY <1>0, <2>1, Zenon DEF cancel
  <2>2. CASE run' = run
    BY <2>2, Zenon
  <2>3. run' = run \/ cancel
    BY Zenon DEF Clients, Server, Exit, submit_command, PassDeadline, Ask, Resolve, Change,
                 Complete, Misbehave, Respond, read_frame
  <2>. QED BY <2>1, <2>2, <2>3, Zenon
<1>3. native'.process = native.process
  <2>1. CASE Clients \/ Exit \/ Misbehave \/ \E c \in Commands, r \in {"ok", "refused"} : Respond(c, r)
    BY <2>1, Zenon DEF Clients, Exit, submit_command, cancel, PassDeadline, Misbehave, Respond
  <2>2. CASE \E a \in Approvals : Ask(a) \/ Resolve(a) \/ Change(a)
    BY <1>0, <2>2, Zenon DEF Ask, Resolve, Change, Native
  <2>3. CASE Complete
    BY <1>0, <2>3, Zenon DEF Complete, Native
  <2>. QED BY <2>1, <2>2, <2>3, Zenon DEF Server
<1>. QED BY <1>1, <1>2, <1>3, ProcessKept, Zenon

LEMMA OpeningProcess ==
  ASSUME SessionInv, ProcessInv,
         Prepare \/ Spawn \/ Starting \/ StartThread \/ DispatchIntent \/ StartTurn
  PROVE  ProcessInv'
<1>0. ex \in Executor /\ native \in Native /\ UNCHANGED run
  BY Zenon DEF SessionInv, SessionTypeOK, Native, Prepare, Spawn, Starting, StartThread,
               DispatchIntent, StartTurn
<1>1. ASSUME NEW pc, Goes(pc) \/ ex' = [ex EXCEPT !.pc = pc, !.dispatched = TRUE]
      PROVE  ex'.pc = pc
  BY <1>0, <1>1, Zenon DEF Goes, Executor
<1>2. Fails => ex'.pc = "finally"
  BY LeavesFacts, Zenon DEF Fails
<1>3. CASE Prepare
  <2>1. UNCHANGED native /\ native.process # "running"
    BY <1>3, Zenon DEF Prepare, ProcessInv
  <2>2. ex'.pc \in {"spawn", "done"}
    BY <1>0, <1>3, Zenon DEF Prepare, Goes, Raises, Executor
  <2>. QED BY <2>1, <2>2 DEF ProcessInv
<1>4. CASE Spawn
  <2>1. run.status = "running"
    BY <1>4, Zenon DEF SessionInv, FlowInv, Spawn
  <2>2. ex'.pc \in {"starting", "finally"}
    BY <1>1, <1>2, <1>4, Zenon DEF Spawn
  <2>3. run'.status = "running" /\ ex'.pc \notin {"idle", "finish", "done"}
    BY <1>0, <2>1, <2>2
  <2>. QED BY <2>3 DEF ProcessInv
<1>5. CASE Starting \/ StartThread \/ DispatchIntent \/ StartTurn
  <2>1. ex'.pc \in {"thread", "intent", "turn", "loop", "finally"}
    BY <1>1, <1>2, <1>5, Zenon DEF Starting, StartThread, DispatchIntent, StartTurn
  <2>2. native'.process = native.process
    BY <1>0, <1>5, Zenon DEF Starting, StartThread, DispatchIntent, StartTurn, Native
  <2>. QED BY <1>0, <2>1, <2>2, ProcessKept, Zenon
<1>. QED BY <1>3, <1>4, <1>5, Zenon

LEMMA LoopProcess ==
  ASSUME SessionInv, ProcessInv,
         \/ Poll \/ Acked \/ Check \/ Claimed \/ Drain \/ BeforeWrite \/ Write \/ Finally
         \/ \E c \in Commands : Ack(c) \/ Claim(c) \/ Settle(c)
  PROVE  ProcessInv'
<1>0. /\ ex \in Executor /\ native \in Native /\ run \in [status : RunStatus, cancelling : BOOLEAN]
      /\ ex.pc \notin {"idle", "finish", "done"}
  BY Zenon DEF SessionInv, SessionTypeOK, SessionTables, Native, Poll, Acked, Check, Claimed, Drain,
               BeforeWrite, Write, Finally, Ack, Claim, Settle
<1>1. ASSUME NEW cancels \in BOOLEAN, NEW error \in BOOLEAN, Leaves(cancels, error)
      PROVE  ex'.pc = "finally"
  BY <1>1, LeavesFacts, Zenon
<1>2. Fails \/ WriteUnknown => ex'.pc = "finally"
  <2>1. Fails => ex'.pc = "finally"
    BY <1>1, Zenon DEF Fails
  <2>2. (command[ex.cur].kind = "interrupt" /\ ex.pc = "write") \in BOOLEAN
    OBVIOUS
  <2>. QED BY <1>1, <2>1, <2>2, Zenon DEF WriteUnknown
<1>3. ASSUME NEW f, event(f) PROVE ex'.pc = ex.pc
  <2>1. ex' = ex \/ ex' = event_memory(f)
    BY <1>3, Zenon DEF event
  <2>. QED BY <1>0, <2>1, Zenon DEF event_memory, Executor
<1>4. ex'.pc \notin {"idle", "finish", "done"}
  <2>1. CASE Poll
    BY <1>0, <1>2, <1>3, <2>1, Zenon DEF Poll, Executor
  <2>2. CASE Acked \/ Claimed \/ Finally
    BY <1>0, <2>2, Zenon DEF Acked, Claimed, Finally, Goes, Executor
  <2>3. CASE Check
    BY <1>0, <1>1, <1>2, <2>3, Zenon DEF Check, Goes, Executor
  <2>4. CASE Drain
    BY <1>0, <1>2, <1>3, <2>4, Zenon DEF Drain
  <2>5. CASE BeforeWrite
    BY <1>0, <2>5, Zenon DEF BeforeWrite, Goes, Executor
  <2>6. CASE Write
    BY <1>0, <1>2, <2>6, Zenon DEF Write, WriteDecision, WriteMessage, WriteInterrupt, Executor
  <2>7. CASE \E c \in Commands : Ack(c) \/ Claim(c) \/ Settle(c)
    BY <1>0, <2>7, Zenon DEF Ack, AckResolution, AckReply, Claim, Settle, Executor
  <2>. QED BY <2>1, <2>2, <2>3, <2>4, <2>5, <2>6, <2>7, Zenon
<1>5. native'.process = native.process
  <2>1. CASE Write
    BY <1>0, <2>1, Zenon DEF Write, WriteDecision, WriteMessage, WriteInterrupt, Received, Native
  <2>2. CASE \/ Poll \/ Acked \/ Check \/ Claimed \/ Drain \/ BeforeWrite \/ Finally
             \/ \E c \in Commands : Ack(c) \/ Claim(c) \/ Settle(c)
    BY <2>2, Zenon DEF Poll, Acked, Check, Claimed, Drain, BeforeWrite, Finally, Ack, Claim, Settle
  <2>. QED BY <2>1, <2>2, Zenon
<1>6. run'.status = run.status
  <2>1. CASE BeforeWrite
    BY <1>0, <2>1, Zenon DEF BeforeWrite
  <2>2. CASE \/ Poll \/ Acked \/ Check \/ Claimed \/ Drain \/ Write \/ Finally
             \/ \E c \in Commands : Ack(c) \/ Claim(c) \/ Settle(c)
    BY <2>2, Zenon DEF Poll, Acked, Check, Claimed, Drain, Write, Finally, Ack, Claim, Settle
  <2>. QED BY <2>1, <2>2, Zenon
<1>. QED BY <1>4, <1>5, <1>6, ProcessKept, Zenon

LEMMA EndProcess ==
  ASSUME SessionInv, ProcessInv, Close \/ Finish \/ RunEnds \/ Crash \/ Recover
  PROVE  ProcessInv'
<1>0. /\ ex \in Executor /\ native \in Native /\ run \in [status : RunStatus, cancelling : BOOLEAN]
  BY Zenon DEF SessionInv, SessionTypeOK, SessionTables, Native
<1>1. CASE Close
  <2>1. run.status = "running" /\ UNCHANGED run
    BY <1>1, Zenon DEF SessionInv, FlowInv, Close
  <2>2. \/ ex'.pc = "finish" /\ native'.process = "gone"
        \/ ex'.pc = "done" /\ ex'.outcome = "quarantined"
    BY <1>0, <1>1, Zenon DEF Close, Goes, Executor, Native
  <2>. QED BY <2>1, <2>2 DEF ProcessInv
<1>2. CASE Finish
  <2>1. UNCHANGED native /\ native.process = "gone"
    BY <1>2, Zenon DEF Finish, ProcessInv
  <2>. QED BY <2>1, Zenon DEF ProcessInv
<1>3. CASE RunEnds
  <2>1. UNCHANGED native /\ ex'.pc = "over"
    BY <1>3, Zenon DEF RunEnds, Fresh
  <2>2. run'.status \in {"settled", "errored"} => ex.outcome # "quarantined"
    BY <1>0, <1>3 DEF RunEnds
  <2>3. run'.status \in {"settled", "errored"} => native.process # "running"
    BY <1>3, <2>2, Zenon DEF RunEnds, ProcessInv
  <2>. QED BY <2>1, <2>3 DEF ProcessInv
<1>4. CASE Crash
  <2>1. native'.process = "gone" /\ ex'.pc = "down"
    BY <1>0, <1>4, Zenon DEF Crash, Fresh, Native
  <2>. QED BY <2>1 DEF ProcessInv
<1>5. CASE Recover
  <2>1. UNCHANGED native /\ ex'.pc \in {"recover", "resettle", "over"}
    BY <1>0, <1>5, Zenon
       DEF Recover, Restart, RecoverDelivered, Abandon, Quarantine, Executor, Fresh
  <2>2. run'.status \in {"settled", "errored"} => run'.status = run.status
    BY <1>0, <1>5, Zenon DEF Recover, Restart, RecoverDelivered, Abandon, Quarantine
  <2>. QED BY <2>1, <2>2 DEF ProcessInv
<1>. QED BY <1>1, <1>2, <1>3, <1>4, <1>5, Zenon

LEMMA ProcessStep == ASSUME SessionInv, ProcessInv, [Next]_vars PROVE ProcessInv'
<1>1. CASE Clients \/ Server \/ Exit
  BY <1>1, ServerProcess, Zenon
<1>2. CASE Execute
  BY <1>2, OpeningProcess, LoopProcess, EndProcess, Zenon DEF Execute
<1>3. CASE Crash \/ Recover
  BY <1>3, EndProcess, Zenon
<1>4. CASE UNCHANGED vars
  BY <1>4, ProcessKept, Zenon DEF vars
<1>. QED BY <1>1, <1>2, <1>3, <1>4, Zenon DEF Next

(* Evidence of a turn that reached the app server becomes the result of its  *)
(* Case only when the turn is known to have ended, or to be stopped, and a   *)
(* Run that is not left to a review has no app server running: close must    *)
(* have confirmed it before the executor goes on to the evidence.            *)
THEOREM OutcomesKnown == Spec => []OutcomeKnown
<1>1. Init => ProcessInv
  BY DEF Init, SessionStoreInit, ProcessInv, Fresh
<1>2. SessionInv /\ ProcessInv => OutcomeKnown
  BY Zenon DEF SessionInv, TurnKnown, ProcessInv, OutcomeKnown
<1>3. SessionInv /\ ProcessInv /\ [Next]_vars => ProcessInv'
  BY ProcessStep, Zenon
<1>. QED BY <1>1, <1>2, <1>3, SessionIsInvariant, PTL DEF Spec
=============================================================================
