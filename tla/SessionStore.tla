---------------------------- MODULE SessionStore ----------------------------
(***************************************************************************)
(* The durable state of one interactive runtime session and of the         *)
(* commands bound to it (packages/storage/motte_storage/                   *)
(* runtime_sessions.py).  Each operator is one transaction, or the check   *)
(* or the value it uses.                                                   *)
(*                                                                         *)
(* Abstractions.  A command is known by its dedupe key; a second request   *)
(* with a used key changes nothing, whatever its intent.  approve and      *)
(* reject are one kind, "decide".  A client names the control revision and *)
(* the request hash that it read, and only the current ones are accepted;  *)
(* the numbers do not matter, so the session keeps the set of the commands *)
(* created under its current control revision.  Deadlines are kept as the  *)
(* set of what has passed its own.  Of the Run only its status and its     *)
(* stored cancellation matter.                                             *)
(* revision is left out: the one executor re-reads it before each write    *)
(* (_save), and no two executors run (Worker).  The audit events that the  *)
(* transactions append, which nothing here reads, are left out too.        *)
(***************************************************************************)
EXTENDS Naturals, FiniteSets

CONSTANTS Commands,     \* dedupe keys that clients use
          Approvals,    \* requests of the app server for an approval
          NoApproval

ASSUME NoApprovalAssumption == NoApproval \notin Approvals
ASSUME DisjointAssumption == Commands \cap Approvals = {}

VARIABLES run,       \* the Run: status and whether a cancellation is stored
          session,   \* the session: state, pending_approvals, and the commands
                     \* whose expected_session_revision is its control_revision
          command,   \* command[c]: the stored command of a dedupe key
          late       \* commands and approvals past their deadline

sessionStore == <<run, session, command>>

-----------------------------------------------------------------------------
(* "settled": the Case has its evidence; "errored": it has only an error. *)
RunStatus == {"running", "needs_review", "settled", "errored"}
Closed == {"terminal", "abandoned"}
SessionState == {"none", "prepared", "starting", "active", "stopping"} \cup Closed
ApprovalState == {"none", "pending", "claimed", "resolved", "abandoned"}
Open == {"queued", "delivered"}
Final == {"acknowledged", "failed", "rejected", "expired", "delivery_unknown"}
INTERVENTION_TYPES == {"user_message", "interrupt", "decide"}

COMMAND_TRANSITIONS ==
  [s \in Open |-> IF s = "queued" THEN {"delivered", "failed", "rejected", "expired"}
                  ELSE Final]

CommandRecord == [status : {"none"} \cup Open \cup Final, kind : INTERVENTION_TYPES,
                  on : Approvals \cup {NoApproval}]
NoCommand == [status |-> "none", kind |-> "user_message", on |-> NoApproval]

-----------------------------------------------------------------------------
create ==
  session' = [state |-> "prepared", current |-> {}, approval |-> [a \in Approvals |-> "none"]]

(* RuntimeSessions.transition: a closed session stays as it is, a resolved   *)
(* or abandoned approval does not reopen, and a change that a client has to  *)
(* see ("bound": a native identity is set) begins a new control revision.    *)
may_transition(approvals) ==
  /\ session.state \notin Closed
  /\ \A a \in Approvals : session.approval[a] \in {"resolved", "abandoned"} =>
       approvals[a] = session.approval[a]

transition(state, approvals, bound) ==
  session' = [state |-> state, approval |-> approvals,
              current |-> IF bound \/ state # session.state \/ approvals # session.approval
                          THEN {} ELSE session.current]

(* Mutant: open approvals end as expired. *)
ExpireAll(approvals) ==
  [a \in Approvals |-> IF approvals[a] \in {"pending", "claimed"} THEN "expired" ELSE approvals[a]]

(* What recovery and the end of a session make of the open approvals. *)
abandon_all(approvals) ==
  [a \in Approvals |-> IF approvals[a] \in {"pending", "claimed"} THEN "abandoned" ELSE approvals[a]]

-----------------------------------------------------------------------------
check_binding(kind, on) ==
  /\ run.status = "running"
  /\ run.cancelling => kind = "interrupt"
  /\ session.state = "active"
  /\ kind = "decide" => session.approval[on] = "pending" /\ on \notin late

(* A repeated request finds the command that it created. *)
create_or_get(c, kind, on) ==
  /\ command[c].status = "none"
  /\ check_binding(kind, on)
  /\ command' = [command EXCEPT ![c] = [status |-> "queued", kind |-> kind, on |-> on]]
  /\ session' = [session EXCEPT !.current = session.current \cup {c}]

may_claim(c) ==
  /\ c \notin late
  /\ command[c].status = "queued"
  /\ c \in session.current
  /\ check_binding(command[c].kind, command[c].on)

(* The dispatch intent is committed before anything is written.  Reserving   *)
(* the approval leaves the control revision as it is.                        *)
claim(c) ==
  /\ command' = [command EXCEPT ![c].status = "delivered"]
  /\ session' = [session EXCEPT !.approval = [a \in Approvals |->
       IF command[c].kind = "decide" /\ a = command[c].on THEN "claimed"
       ELSE session.approval[a]]]

transition_command(c, status) ==
  /\ status \in COMMAND_TRANSITIONS[command[c].status]
  /\ command' = [command EXCEPT ![c].status = status]

-----------------------------------------------------------------------------
SessionStoreInit ==
  /\ run = [status |-> "running", cancelling |-> FALSE]
  /\ session = [state |-> "none", current |-> {}, approval |-> [a \in Approvals |-> "none"]]
  /\ command = [c \in Commands |-> NoCommand]
  /\ late = {}

(* What the tables may hold. *)
SessionTables ==
  /\ run \in [status : RunStatus, cancelling : BOOLEAN]
  /\ session \in [state : SessionState, current : SUBSET Commands, approval : [Approvals -> ApprovalState]]
  /\ command \in [Commands -> CommandRecord]
  /\ late \subseteq Commands \cup Approvals
=============================================================================
