------------------------------ MODULE Session -------------------------------
(***************************************************************************)
(* One interactive Case: the executor of a codex app-server session        *)
(* (motte_sdk/codex_app_server_runtime.py) with its duplex transport       *)
(* (motte_harness/codex_app_server.py), the app server it talks to         *)
(* (external), the clients that submit commands (motte_sdk/commands.py)    *)
(* or cancel the Run, and the recovery after a crash of the Worker.        *)
(* There is one step per transaction, per write to the app server, and per *)
(* frame taken from the queue.                                             *)
(*                                                                         *)
(* Abstractions.  A frame is its kind and the approval it is about; an     *)
(* approval stands for the native item that it is about as well.  A time   *)
(* limit is a step that may be taken (a late answer or none is then the    *)
(* same).  Workspace, environment, credentials, evidence and the settings  *)
(* drift checks succeed or fail the step they belong to: files and         *)
(* processes may fail, while a transaction of the store commits.  The      *)
(* executor takes at most 256 frames in one round, more than the queue     *)
(* holds here, and the bound of 128 approvals is not reached.              *)
(* list_for_run does not order the commands.                               *)
(***************************************************************************)
EXTENDS SessionStore, Sequences

CONSTANTS Kinds,        \* Kinds[c]: the kinds of command that a client may mean by c
          NoOne,        \* no command
          MaxEvents,    \* max_events: frames the transport queues
          MaxCrashes    \* bound: crashes of the Worker

ASSUME KindsAssumption == Kinds \in [Commands -> SUBSET INTERVENTION_TYPES]
ASSUME NoOneAssumption == NoOne \notin Commands
ASSUME BoundAssumption == MaxEvents \in Nat \ {0} /\ MaxCrashes \in Nat

VARIABLES ex,          \* the executor: memory of CodexAppServerCaseExecutor
          transport,   \* CodexAppServerTransport
          native,      \* the app server, and what it has received
          crashes

vars == <<run, session, command, late, ex, transport, native, crashes>>

-----------------------------------------------------------------------------
Frame == [kind : {"request", "resolved", "item", "completed", "bad"},
          on : Approvals \cup {NoApproval}]

(* What became of an RPC: no request, no reply yet, a valid result, an       *)
(* error, or a transport that failed before the reply.                       *)
Reply == {"none", "open", "ok", "refused", "lost"}

Step == {"idle", "spawn", "starting", "thread", "intent", "turn", "loop", "acks",
         "commands", "drain", "write", "finally", "settle", "finish", "done", "over",
         "down", "recover", "resettle"}

(* How invoke ends: it returns the evidence, fails with it, asks for a       *)
(* quarantine, or raises what some file operation raised, with neither.      *)
Outcome == {"none", "returned", "failed", "quarantined", "raised"}

Executor == [pc : Step, cur : Commands \cup {NoOne}, todo : SUBSET Commands,
             cache : [Approvals -> ApprovalState],         \* self.session
             pending : SUBSET Commands,                    \* self.pending
             sent : [Approvals -> Commands \cup {NoOne}],  \* self.sent_approvals
             resolutions : SUBSET Commands,
             changed : SUBSET Approvals,                   \* self.parser.items
             terminal : BOOLEAN, cancel : BOOLEAN,         \* parser.terminal, cancel_started
             dispatched : BOOLEAN, error : BOOLEAN, stop : BOOLEAN, outcome : Outcome]

Fresh == [pc |-> "idle", cur |-> NoOne, todo |-> {}, cache |-> [a \in Approvals |-> "none"],
          pending |-> {}, sent |-> [a \in Approvals |-> NoOne], resolutions |-> {},
          changed |-> {}, terminal |-> FALSE, cancel |-> FALSE, dispatched |-> FALSE,
          error |-> FALSE, stop |-> FALSE, outcome |-> "none"]

Init ==
  /\ SessionStoreInit
  /\ ex = Fresh
  /\ transport = [queue |-> <<>>, failure |-> FALSE,
                  incoming |-> [a \in Approvals |-> "none"],
                  reply |-> [c \in Commands |-> "none"], stop_reply |-> "none"]
  /\ native = [process |-> "none", turn |-> FALSE, done |-> FALSE,
               request |-> [a \in Approvals |-> "none"],
               wire |-> [c \in Commands |-> 0], answers |-> [a \in Approvals |-> 0]]
  /\ crashes = 0

-----------------------------------------------------------------------------
(* Clients and the clock. *)

Looping == ex.pc \in {"loop", "acks", "commands", "drain", "write"} /\ ~ex.stop

submit_command(c, kind, on) ==
  /\ on = NoApproval <=> kind # "decide"
  /\ create_or_get(c, kind, on)
  /\ UNCHANGED <<run, late, ex, transport, native, crashes>>

(* RunService.cancel of a running Run stores the request. *)
cancel ==
  /\ run.status = "running" /\ ~run.cancelling
  /\ run' = [run EXCEPT !.cancelling = TRUE]
  /\ UNCHANGED <<session, command, late, ex, transport, native, crashes>>

(* A deadline passes as long as somebody may look at it. *)
PassDeadline(x) ==
  /\ x \notin late
  /\ \/ x \in Commands /\ (command[x].status = "queued" \/ (ex.pc = "drain" /\ x = ex.cur))
     \/ /\ x \in Approvals /\ session.approval[x] \in {"pending", "claimed"}
        /\ Looping /\ ~ex.cancel /\ ~run.cancelling
  /\ late' = late \cup {x}
  /\ UNCHANGED <<run, session, command, ex, transport, native, crashes>>

-----------------------------------------------------------------------------
(* The app server and the reader thread of the transport. *)

(* A command reaches the app server. *)
Received(c) ==
  native' = [native EXCEPT !.wire[c] = native.wire[c] + 1,
                           !.answers = [a \in Approvals |->
                              IF command[c].kind = "decide" /\ a = command[c].on
                              THEN native.answers[a] + 1 ELSE native.answers[a]]]

(* The future that a command waits for: an interrupt has none of its own.    *)
ReplyOf(c) == IF command[c].kind = "interrupt" THEN transport.stop_reply ELSE transport.reply[c]

Lost(r) == IF r = "open" THEN "lost" ELSE r

(* The transport after _fail: nobody waits for a reply any more. *)
fail(t) == [t EXCEPT !.failure = TRUE, !.stop_reply = Lost(t.stop_reply),
                     !.reply = [c \in Commands |-> Lost(t.reply[c])]]

(* _read_frame of a notification or a server request.  Frames that come when *)
(* the executor has left _loop stay in the queue and are left out.           *)
read_frame(kind, on) ==
  /\ Looping /\ native.process = "running" /\ ~transport.failure
  /\ transport' = IF Len(transport.queue) >= MaxEvents THEN fail(transport)
       ELSE [transport EXCEPT !.queue = Append(transport.queue, [kind |-> kind, on |-> on]),
               !.incoming = [a \in Approvals |-> IF kind = "request" /\ a = on THEN "open"
                                                 ELSE transport.incoming[a]]]
  /\ UNCHANGED <<run, session, command, late, ex, crashes>>

Ask(a) ==
  /\ native.request[a] = "none" /\ ~native.done
  /\ native' = [native EXCEPT !.request[a] = "asked"]
  /\ read_frame("request", a)

(* The server is done with a request: it was answered, or is void. *)
Resolve(a) ==
  /\ native.request[a] = "asked"
  /\ native' = [native EXCEPT !.request[a] = "resolved"]
  /\ read_frame("resolved", a)

(* An item changes, or ends, after an approval was asked for it.  Another    *)
(* change of it says nothing new.                                            *)
Change(a) ==
  /\ native.request[a] = "asked" /\ a \notin ex.changed /\ ~native.done
  /\ native' = native
  /\ read_frame("item", a)

Complete ==
  /\ ~native.done
  /\ native' = [native EXCEPT !.done = TRUE]
  /\ read_frame("completed", NoApproval)

(* A frame with a foreign identity or an unsupported request. *)
Misbehave ==
  /\ ~native.done /\ native' = native
  /\ read_frame("bad", NoApproval)

(* _read_frame of a response.  One that nobody waits for is dropped, and one *)
(* of the wrong shape counts as none.                                        *)
Respond(c, r) ==
  /\ native.process = "running" /\ ~transport.failure
  /\ c \in ex.pending /\ ReplyOf(c) = "open"
  /\ transport' = IF command[c].kind = "interrupt" THEN [transport EXCEPT !.stop_reply = r]
                  ELSE [transport EXCEPT !.reply[c] = r]
  /\ UNCHANGED <<run, session, command, late, ex, native, crashes>>

(* The process ends by itself, or is stopped after a frame that is none of   *)
(* the protocol or at a time limit of its supervisor.  What the executor     *)
(* sees of it is that the transport has failed.                              *)
Exit ==
  /\ native.process = "running" /\ ~transport.failure
  /\ transport' = fail(transport)
  /\ UNCHANGED <<run, session, command, late, ex, native, crashes>>

-----------------------------------------------------------------------------
(* The executor up to the first turn. *)

Goes(pc) == ex' = [ex EXCEPT !.pc = pc]

(* The end of _loop, or an exception: of what was in memory only this is     *)
(* used afterwards.                                                          *)
Leaves(cancels, error) ==
  ex' = [Fresh EXCEPT !.pc = "finally", !.pending = ex.pending, !.resolutions = ex.resolutions,
                      !.terminal = ex.terminal, !.cancel = ex.cancel \/ cancels,
                      !.dispatched = ex.dispatched, !.error = error]

Fails == Leaves(FALSE, TRUE)

Raises == ex' = [ex EXCEPT !.pc = "done", !.outcome = "raised"]

(* Everything that may go wrong before the transport exists: then there is   *)
(* no session yet, or a session that ends at once unless cleaning up raises. *)
Prepare ==
  /\ ex.pc = "idle" /\ session.state = "none"
  /\ \/ create /\ (Goes("spawn") \/ Raises)
     \/ session' = [session EXCEPT !.state = "terminal"] /\ Raises
     \/ session' = session /\ Raises
  /\ UNCHANGED <<run, command, late, transport, native, crashes>>

Spawn ==
  /\ ex.pc = "spawn"
  /\ \/ native' = [native EXCEPT !.process = "running"] /\ Goes("starting")
     \/ native' = native /\ Fails
  /\ UNCHANGED <<run, session, command, late, transport, crashes>>

Starting ==
  /\ ex.pc = "starting"
  /\ transition("starting", session.approval, FALSE)
  /\ Goes("thread") \/ Fails
  /\ UNCHANGED <<run, command, late, transport, native, crashes>>

(* initialize, login and thread/start. *)
StartThread ==
  /\ ex.pc = "thread"
  /\ \/ /\ native.process = "running" /\ ~transport.failure
        /\ transition(session.state, session.approval, TRUE)
        /\ Goes("intent")
     \/ session' = session /\ Fails
  /\ UNCHANGED <<run, command, late, transport, native, crashes>>

(* Mutant: the turn counts as dispatched only when its reply has come. *)
IntentForgotten ==
  /\ ex.pc = "intent"
  /\ IF run.cancelling THEN Fails ELSE Goes("turn")
  /\ UNCHANGED <<run, session, command, late, transport, native, crashes>>

(* The intent to start the turn is stored before the request is sent. *)
DispatchIntent ==
  /\ ex.pc = "intent"
  /\ IF run.cancelling THEN Fails
     ELSE ex' = [ex EXCEPT !.pc = "turn", !.dispatched = TRUE]
  /\ UNCHANGED <<run, session, command, late, transport, native, crashes>>

(* turn/start: the server may have got it although no valid reply came. *)
StartTurn ==
  /\ ex.pc = "turn"
  /\ \/ /\ native.process = "running" /\ ~transport.failure
        /\ native' = [native EXCEPT !.turn = TRUE]
        /\ transition("active", session.approval, TRUE)
        /\ Goes("loop")
     \/ /\ \/ native' = native
           \/ native.process = "running" /\ native' = [native EXCEPT !.turn = TRUE]
        /\ session' = session
        /\ Fails
  /\ UNCHANGED <<run, command, late, transport, crashes>>

-----------------------------------------------------------------------------
(* _event: what the executor makes of the first frame in the queue. *)

(* The approvals that _event stores.  _approval adds to the copy in memory.  *)
event_approvals(f) ==
  CASE f.kind = "request" -> [ex.cache EXCEPT ![f.on] = "pending"]
    [] f.kind = "resolved" /\ session.approval[f.on] # "none" ->
         [session.approval EXCEPT ![f.on] = "resolved"]
    [] OTHER -> session.approval

event_saves(f) ==
  f.kind = "request" \/ (f.kind = "resolved" /\ session.approval[f.on] # "none")

event_fails(f) ==
  /\ ~ex.terminal
  /\ f.kind = "bad" \/ (event_saves(f) /\ ~may_transition(event_approvals(f)))

event_memory(f) ==
  LET answered == f.kind = "resolved" /\ ex.sent[f.on] # NoOne
  IN  [ex EXCEPT !.cache = IF event_saves(f) THEN event_approvals(f) ELSE ex.cache,
                 !.terminal = f.kind = "completed",
                 !.changed = IF f.kind = "item" THEN ex.changed \cup {f.on} ELSE ex.changed,
                 !.sent = [a \in Approvals |-> IF answered /\ a = f.on THEN NoOne ELSE ex.sent[a]],
                 !.resolutions = IF answered /\ ~ex.cancel THEN ex.resolutions \cup {ex.sent[f.on]}
                                 ELSE ex.resolutions]

(* After the end of the turn a frame is only audited. *)
event(f) ==
  IF ex.terminal THEN UNCHANGED <<session, ex>>
  ELSE /\ transition(session.state, event_approvals(f), FALSE)
       /\ ex' = event_memory(f)

TakeFrame == transport' = [transport EXCEPT !.queue = Tail(transport.queue)]

Poll ==
  /\ ex.pc = "loop"
  /\ IF transport.queue = <<>>
     THEN /\ ex' = [ex EXCEPT !.pc = "acks", !.todo = ex.pending \cup ex.resolutions]
          /\ UNCHANGED <<session, transport>>
     ELSE /\ TakeFrame
          /\ IF event_fails(Head(transport.queue)) THEN session' = session /\ Fails
             ELSE event(Head(transport.queue))
  /\ UNCHANGED <<run, command, late, native, crashes>>

-----------------------------------------------------------------------------
(* _acks, over the commands that waited for an answer when it began. *)

(* A resolution that has been known for a moment is believed, unless the     *)
(* turn ended or is being stopped.                                           *)
AckResolution(c) ==
  /\ c \in ex.resolutions
  /\ \/ /\ IF ex.terminal \/ ex.cancel THEN UNCHANGED command
           ELSE transition_command(c, "acknowledged")
        /\ ex' = [ex EXCEPT !.todo = ex.todo \ {c}, !.resolutions = ex.resolutions \ {c}]
     \/ UNCHANGED command /\ ex' = [ex EXCEPT !.todo = ex.todo \ {c}]

(* The status that the reply, or its absence for 10 seconds, proves. *)
reply_status(r) ==
  CASE r = "ok" -> "acknowledged" [] r = "refused" -> "failed" [] OTHER -> "delivery_unknown"

AckReply(c) ==
  /\ c \in ex.pending
  /\ \/ /\ transition_command(c, reply_status(ReplyOf(c)))
        /\ ex' = [ex EXCEPT !.todo = ex.todo \ {c}, !.pending = ex.pending \ {c}]
     \/ /\ ReplyOf(c) = "open"
        /\ UNCHANGED command
        /\ ex' = [ex EXCEPT !.todo = ex.todo \ {c}]

(* Mutant: a request without a reply is sent again. *)
AckOrResend(c) ==
  /\ ex.pc = "acks" /\ c \in ex.todo
  /\ \/ (AckResolution(c) \/ AckReply(c)) /\ UNCHANGED native
     \/ /\ c \in ex.pending /\ ReplyOf(c) = "open"
        /\ Received(c)
        /\ ex' = [ex EXCEPT !.todo = ex.todo \ {c}]
        /\ UNCHANGED command
  /\ UNCHANGED <<run, session, late, transport, crashes>>

Ack(c) ==
  /\ ex.pc = "acks" /\ c \in ex.todo
  /\ AckResolution(c) \/ AckReply(c)
  /\ UNCHANGED <<run, session, late, transport, native, crashes>>

(* settle_session_commands lists the commands when the acks are done. *)
Acked ==
  /\ ex.pc = "acks" /\ ex.todo = {} /\ ex.stop
  /\ ex' = [ex EXCEPT !.pc = "settle", !.pending = {}, !.resolutions = {},
                      !.todo = {c \in Commands : command[c].status \in Open}]
  /\ UNCHANGED <<run, session, command, late, transport, native, crashes>>

-----------------------------------------------------------------------------
(* The rest of a round of _loop. *)

(* _interrupt: the turn is asked to stop, once. *)
Interrupts == run.cancelling \/ \E a \in Approvals : ex.cache[a] \in {"pending", "claimed"} /\ a \in late

(* Mutant: the loop does not look for a disconnected server. *)
NeverDisconnected == FALSE

disconnected == transport.failure

CanSend == native.process = "running" /\ ~transport.failure

(* Once it was asked to stop, the turn gets a second. *)
Check ==
  /\ ex.pc = "acks" /\ ex.todo = {} /\ ~ex.stop
  /\ \/ /\ ex.terminal
        /\ Leaves(FALSE, FALSE)
        /\ UNCHANGED transport
     \/ /\ ~ex.terminal /\ disconnected
        /\ Fails
        /\ UNCHANGED transport
     \/ /\ ~ex.terminal /\ ~disconnected /\ Interrupts /\ ~ex.cancel
        /\ \/ /\ transport' = [transport EXCEPT !.stop_reply = "open"]
              /\ \/ ex' = [ex EXCEPT !.pc = "loop", !.cancel = TRUE]
                 \/ Leaves(TRUE, FALSE)
           \/ transport' = fail(transport) /\ Leaves(TRUE, TRUE)
     \/ /\ ~ex.terminal /\ ~disconnected /\ ex.cancel
        /\ Goes("loop") \/ Leaves(FALSE, FALSE)
        /\ UNCHANGED transport
     \/ /\ ~ex.terminal /\ ~disconnected /\ ~Interrupts /\ ~ex.cancel
        /\ ex' = [ex EXCEPT !.pc = "commands",
                            !.todo = {c \in Commands : command[c].status = "queued"}]
        /\ UNCHANGED transport
  /\ UNCHANGED <<run, session, command, late, native, crashes>>

-----------------------------------------------------------------------------
(* _commands: each queued command is claimed, and then written or refused. *)

(* The copy of the session in memory is from before the claim.  A command    *)
(* whose deadline passes between the two looks at the clock is rejected.     *)
Claim(c) ==
  /\ ex.pc = "commands" /\ c \in ex.todo
  /\ \/ /\ may_claim(c)
        /\ claim(c)
        /\ ex' = [ex EXCEPT !.pc = "drain", !.cur = c, !.todo = ex.todo \ {c},
                            !.cache = session.approval]
     \/ /\ ~may_claim(c)
        /\ \/ c \in late /\ transition_command(c, "expired")
                        /\ ex' = [ex EXCEPT !.todo = ex.todo \ {c}]
           \/ transition_command(c, "rejected")
                        /\ ex' = [ex EXCEPT !.todo = ex.todo \ {c}, !.cache = session.approval]
        /\ UNCHANGED session
  /\ UNCHANGED <<run, late, transport, native, crashes>>

Claimed ==
  /\ ex.pc = "commands" /\ ex.todo = {}
  /\ Goes("loop")
  /\ UNCHANGED <<run, session, command, late, transport, native, crashes>>

(* An exception between the claim and the end of the write: it is not known  *)
(* whether the server got the command, and the session ends.                 *)
WriteUnknown ==
  /\ transition_command(ex.cur, "delivery_unknown")
  /\ Leaves(command[ex.cur].kind = "interrupt" /\ ex.pc = "write", TRUE)

(* Frames that have arrived already come before the write. *)
Drain ==
  /\ ex.pc = "drain" /\ transport.queue # <<>>
  /\ TakeFrame
  /\ IF event_fails(Head(transport.queue)) THEN session' = session /\ WriteUnknown
     ELSE event(Head(transport.queue)) /\ UNCHANGED command
  /\ UNCHANGED <<run, late, native, crashes>>

(* The last checks before the write, in their order. *)
stopping(c) == ex.terminal \/ (run.cancelling /\ command[c].kind # "interrupt")
cleared(c) ==
  /\ command[c].kind = "decide"
  /\ session.approval[command[c].on] # "claimed" \/ command[c].on \in late \cup ex.changed

(* An interrupt is stored as a cancellation of the Run before it is sent. *)
BeforeWrite ==
  /\ ex.pc = "drain" /\ transport.queue = <<>>
  /\ LET c == ex.cur
     IN  \/ /\ stopping(c) \/ c \in late \/ cleared(c)
           /\ transition_command(c, IF c \in late /\ ~stopping(c) THEN "expired" ELSE "rejected")
           /\ ex' = [ex EXCEPT !.pc = "commands", !.cur = NoOne]
           /\ UNCHANGED run
        \/ /\ ~stopping(c) /\ c \notin late /\ ~cleared(c)
           /\ Goes("write")
           /\ run' = [run EXCEPT !.cancelling = run.cancelling \/ command[c].kind = "interrupt"]
           /\ UNCHANGED command
  /\ UNCHANGED <<session, late, transport, native, crashes>>

(* transport.respond answers a server request once. *)
may_respond(a) == transport.incoming[a] = "open"

Answered(c) ==
  [transport EXCEPT !.incoming = [a \in Approvals |->
     IF a = command[c].on THEN "answered" ELSE transport.incoming[a]]]

(* A decision: the response is the answer, and resolved its confirmation. *)
WriteDecision(c) ==
  /\ command[c].kind = "decide"
  /\ \/ /\ may_respond(command[c].on) /\ CanSend
        /\ Received(c)
        /\ transport' = Answered(c)
        /\ ex' = [ex EXCEPT !.pc = "commands", !.cur = NoOne, !.sent[command[c].on] = c]
        /\ UNCHANGED command
     \/ /\ may_respond(command[c].on)
        /\ \/ native' = native
           \/ CanSend /\ Received(c)
        /\ transport' = Answered(c)
        /\ WriteUnknown
     \/ /\ ~may_respond(command[c].on)
        /\ UNCHANGED <<transport, native>>
        /\ WriteUnknown

(* A message is a turn/steer request. *)
WriteMessage(c) ==
  /\ command[c].kind = "user_message"
  /\ \/ /\ CanSend
        /\ Received(c)
        /\ transport' = [transport EXCEPT !.reply[c] = "open"]
        /\ ex' = [ex EXCEPT !.pc = "commands", !.cur = NoOne, !.pending = ex.pending \cup {c}]
        /\ UNCHANGED command
     \/ /\ \/ native' = native
           \/ CanSend /\ Received(c)
        /\ transport' = fail(transport)
        /\ WriteUnknown

(* An interrupt is the turn/interrupt request, or waits for the reply to the *)
(* one that was sent before.                                                 *)
WriteInterrupt(c) ==
  /\ command[c].kind = "interrupt"
  /\ \/ /\ ex.cancel \/ CanSend
        /\ IF ex.cancel THEN UNCHANGED <<transport, native>>
           ELSE transport' = [transport EXCEPT !.stop_reply = "open"] /\ Received(c)
        /\ ex' = [ex EXCEPT !.pc = "commands", !.cur = NoOne, !.cancel = TRUE,
                            !.pending = ex.pending \cup {c}]
        /\ UNCHANGED command
     \/ /\ ~ex.cancel
        /\ \/ native' = native
           \/ CanSend /\ Received(c)
        /\ transport' = fail(transport)
        /\ WriteUnknown

Write ==
  /\ ex.pc = "write"
  /\ WriteDecision(ex.cur) \/ WriteMessage(ex.cur) \/ WriteInterrupt(ex.cur)
  /\ UNCHANGED <<run, session, late, crashes>>

-----------------------------------------------------------------------------
(* The end of the session. *)

(* Mutant: the session takes commands until it is closed. *)
StaysActive ==
  /\ ex.pc = "finally"
  /\ ex' = [ex EXCEPT !.pc = "acks", !.stop = TRUE, !.todo = ex.pending \cup ex.resolutions]
  /\ transport' = [transport EXCEPT !.queue = <<>>]
  /\ UNCHANGED <<run, session, command, late, native, crashes>>

(* From here on no client can add a command, and no frame is taken any more. *)
Finally ==
  /\ ex.pc = "finally"
  /\ transition("stopping", session.approval, FALSE)
  /\ ex' = [ex EXCEPT !.pc = "acks", !.stop = TRUE, !.todo = ex.pending \cup ex.resolutions]
  /\ transport' = [transport EXCEPT !.queue = <<>>]
  /\ UNCHANGED <<run, command, late, native, crashes>>

(* Mutant: a delivered command counts as rejected. *)
RejectDelivered(c) == IF c \in late THEN "expired" ELSE "rejected"

(* settle_session_commands, of the executor and of recovery. *)
settled_status(c) == IF command[c].status = "delivered" THEN "delivery_unknown"
                     ELSE IF c \in late THEN "expired" ELSE "rejected"

Settle(c) ==
  /\ ex.pc \in {"settle", "resettle"} /\ c \in ex.todo
  /\ transition_command(c, settled_status(c))
  /\ ex' = [ex EXCEPT !.todo = ex.todo \ {c}]
  /\ UNCHANGED <<run, session, late, transport, native, crashes>>

(* The process tree is stopped; if that is not confirmed the session stays   *)
(* as it is and the Case is handed to a review.                              *)
Close ==
  /\ ex.pc = "settle" /\ ex.todo = {}
  /\ \/ /\ native.process # "none"
        /\ native' = [native EXCEPT !.process = "gone"]
        /\ Goes("finish")
     \/ /\ native' = native
        /\ ex' = [ex EXCEPT !.pc = "done", !.outcome = "quarantined"]
  /\ transport' = fail(transport)
  /\ UNCHANGED <<run, session, command, late, crashes>>

(* Freezing the evidence and cleaning up come before the session is closed,  *)
(* the session's own record after that; whichever raises, the decision on a  *)
(* quarantine is not reached.                                                *)
Finish ==
  /\ ex.pc = "finish"
  /\ \/ session' = session /\ Raises
     \/ transition("terminal", abandon_all(session.approval), FALSE) /\ Raises
     \/ /\ transition("terminal", abandon_all(session.approval), FALSE)
        /\ ex' = [ex EXCEPT !.pc = "done",
                    !.outcome = IF ~ex.error \/ run.cancelling THEN "returned"
                                ELSE IF ex.dispatched /\ ~ex.terminal THEN "quarantined"
                                ELSE "failed"]
  /\ UNCHANGED <<run, command, late, transport, native, crashes>>

(* RunService stores the evidence as the result of the Case, quarantines the *)
(* Run, or is left with an error of the Case that it stores or, if its class *)
(* is transient, answers with another call, which is not followed here.      *)
RunEnds ==
  /\ ex.pc = "done"
  /\ run' = [run EXCEPT !.status = CASE ex.outcome = "quarantined" -> "needs_review"
                                   [] ex.outcome = "raised" -> "errored"
                                   [] OTHER -> "settled"]
  /\ ex' = [Fresh EXCEPT !.pc = "over"]
  /\ UNCHANGED <<session, command, late, transport, native, crashes>>

-----------------------------------------------------------------------------
(* Crash of the Worker, and recover_interactive_sessions. *)

(* The pipes are gone with the Worker: whatever the app server still does,   *)
(* nobody writes to it or reads from it.                                     *)
Crash ==
  /\ crashes < MaxCrashes /\ ex.pc # "down"
  /\ crashes' = crashes + 1
  /\ ex' = [Fresh EXCEPT !.pc = "down"]
  /\ transport' = [fail(transport) EXCEPT !.queue = <<>>]
  /\ native' = [native EXCEPT !.process = "gone"]
  /\ UNCHANGED <<run, session, command, late>>

(* recover_delivered_without_ack. *)
Restart ==
  /\ ex.pc = "down"
  /\ ex' = [ex EXCEPT !.pc = "recover", !.todo = {c \in Commands : command[c].status = "delivered"}]
  /\ UNCHANGED <<run, session, command, late, transport, native, crashes>>

RecoverDelivered(c) ==
  /\ ex.pc = "recover" /\ c \in ex.todo
  /\ transition_command(c, "delivery_unknown")
  /\ ex' = [ex EXCEPT !.todo = ex.todo \ {c}]
  /\ UNCHANGED <<run, session, late, transport, native, crashes>>

(* The session is closed before its commands are listed and settled. *)
Abandon ==
  /\ ex.pc = "recover" /\ ex.todo = {}
  /\ IF session.state \in Closed \cup {"none"} THEN UNCHANGED session
     ELSE transition("abandoned", abandon_all(session.approval), FALSE)
  /\ ex' = [ex EXCEPT !.pc = "resettle", !.todo = {c \in Commands : command[c].status \in Open}]
  /\ UNCHANGED <<run, command, late, transport, native, crashes>>

(* The Attempt of the Case was dispatching: its Run goes to a review. *)
Quarantine ==
  /\ ex.pc = "resettle" /\ ex.todo = {}
  /\ run' = [run EXCEPT !.status = IF run.status = "running" THEN "needs_review" ELSE run.status]
  /\ ex' = [Fresh EXCEPT !.pc = "over"]
  /\ UNCHANGED <<session, command, late, transport, native, crashes>>

-----------------------------------------------------------------------------
Clients ==
  \/ \E c \in Commands, on \in Approvals \cup {NoApproval} :
       \E kind \in Kinds[c] : submit_command(c, kind, on)
  \/ cancel
  \/ \E x \in Commands \cup Approvals : PassDeadline(x)

Server ==
  \/ \E a \in Approvals : Ask(a) \/ Resolve(a) \/ Change(a)
  \/ Complete
  \/ Misbehave
  \/ \E c \in Commands, r \in {"ok", "refused"} : Respond(c, r)

Execute ==
  \/ Prepare \/ Spawn \/ Starting \/ StartThread \/ DispatchIntent \/ StartTurn
  \/ Poll
  \/ \E c \in Commands : Ack(c)
  \/ Acked
  \/ Check
  \/ \E c \in Commands : Claim(c)
  \/ Claimed
  \/ Drain \/ BeforeWrite \/ Write
  \/ Finally
  \/ \E c \in Commands : Settle(c)
  \/ Close \/ Finish \/ RunEnds

Recover ==
  \/ Restart
  \/ \E c \in Commands : RecoverDelivered(c)
  \/ Abandon \/ Quarantine

Next == Clients \/ Server \/ Exit \/ Execute \/ Crash \/ Recover

Spec == Init /\ [][Next]_vars

(* The Worker runs and is restarted after a crash; total_timeout ends the    *)
(* process in the end.  Neither a client nor the server has to do anything.  *)
FairSpec == Spec /\ WF_vars(Execute) /\ WF_vars(Recover) /\ WF_vars(Exit)

-----------------------------------------------------------------------------
(* The state of a session keeps its shape. *)
SessionTypeOK ==
  /\ SessionTables
  /\ ex \in Executor
  /\ transport \in [queue : Seq(Frame), failure : BOOLEAN,
                     incoming : [Approvals -> {"none", "open", "answered"}],
                     reply : [Commands -> Reply], stop_reply : Reply]
  /\ native \in [process : {"none", "running", "gone"}, turn : BOOLEAN, done : BOOLEAN,
                  request : [Approvals -> {"none", "asked", "resolved"}],
                  wire : [Commands -> Nat], answers : [Approvals -> Nat]]
  /\ crashes \in 0..MaxCrashes

(* A command is written to the app server at most once, however often the    *)
(* client repeats its request and the Worker crashes, and the server gets at *)
(* most one decision on a request, whatever claims are made on it.           *)
WrittenOnce ==
  /\ \A c \in Commands : native.wire[c] <= 1
  /\ \A a \in Approvals : native.answers[a] <= 1

(* What the audit says of a command is true: one that is queued, rejected or *)
(* expired was never written; an acknowledged one was confirmed by the       *)
(* server, and a failed one was refused by it.                               *)
StatusIsTrue ==
  \A c \in Commands :
    LET k == command[c].kind IN
    /\ command[c].status \in {"queued", "rejected", "expired"} => native.wire[c] = 0
    /\ command[c].status = "failed" => ReplyOf(c) = "refused"
    /\ command[c].status = "acknowledged" =>
         IF k = "decide"
         THEN native.wire[c] = 1 /\ native.request[command[c].on] = "resolved"
         ELSE ReplyOf(c) = "ok" /\ (k = "user_message" => native.wire[c] = 1)

(* When the Run is over, or its session ended in order, no command is left   *)
(* that was accepted and has no outcome: the interventions that the scoring  *)
(* pass freezes are final.                                                   *)
NoneLeftOpen ==
  run.status # "running" \/ session.state = "terminal" =>
    \A c \in Commands : command[c].status \notin Open

(* Evidence of a first turn that may have reached the server becomes the     *)
(* result of the Case only if the turn ended, the Run was cancelled, or the  *)
(* executor itself stopped the turn; and only a Run that is left to a review *)
(* leaves an app server running behind it.                                   *)
OutcomeKnown ==
  /\ run.status = "settled" /\ native.turn =>
       native.done \/ run.cancelling \/ transport.stop_reply # "none"
  /\ run.status \in {"settled", "errored"} => native.process # "running"

(* An evidence boundary that fails after side effects leads to a review: the *)
(* comment in _execute_benchmark.  The code does not keep it, as Finish may  *)
(* raise before the quarantine is decided.                                   *)
UncertainIsReviewed ==
  run.status \in {"settled", "errored"} /\ native.turn =>
    native.done \/ run.cancelling \/ transport.stop_reply # "none"

(* Every accepted command gets an outcome. *)
CommandsSettle ==
  \A c \in Commands : command[c].status \in Open ~> command[c].status \in Final

(* A claim reserves its approval: no second command is delivered for it      *)
(* while the first one is.                                                   *)
ClaimReserves ==
  \A c, d \in Commands :
    command[c].status = "delivered" /\ command[d].status = "delivered"
      /\ command[c].kind = "decide" /\ command[d].kind = "decide"
      /\ command[c].on = command[d].on => c = d
=============================================================================
