----------------------------- MODULE CellLedger -----------------------------
(***************************************************************************)
(* What the experiment protocol promises about the cells of an experiment, *)
(* without the protocol: the matrix is published once, a cell has at most  *)
(* one initial Run, is allocated only once that Run exists, is decided     *)
(* once (an allocated cell can still be cancelled), and the Runs of        *)
(* operator retries are numbered without gaps, each listed after it was    *)
(* created and before the next one is.                                     *)
(***************************************************************************)
EXTENDS Naturals, Sequences

CONSTANTS Cells,     \* the cells of the experiment's matrix
          Contents,  \* contents a specification may have
          NoSpec     \* no specification is published

VARIABLES spec,      \* the published specification
          outcome,   \* outcome[c]: what was decided about the cell
          initial,   \* initial[c]: the initial Run exists
          retried,   \* retried[c]: numbers of the retry Runs that exist
          listed     \* listed[c]: numbers of the retry Runs the cell names

ledger == <<spec, outcome, initial, retried, listed>>

Init ==
  /\ spec = NoSpec
  /\ outcome = [c \in Cells |-> "open"]
  /\ initial = [c \in Cells |-> FALSE]
  /\ retried = [c \in Cells |-> {}]
  /\ listed = [c \in Cells |-> <<>>]

Publish(content) ==
  /\ spec = NoSpec
  /\ spec' = content
  /\ UNCHANGED <<outcome, initial, retried, listed>>

CreateInitial(c) ==
  /\ spec # NoSpec
  /\ ~initial[c]
  /\ initial' = [initial EXCEPT ![c] = TRUE]
  /\ UNCHANGED <<spec, outcome, retried, listed>>

Decide(c, decision) ==
  /\ spec # NoSpec
  /\ outcome' = [outcome EXCEPT ![c] = decision]
  /\ UNCHANGED <<spec, initial, retried, listed>>

Allocate(c) == outcome[c] = "open" /\ initial[c] /\ Decide(c, "allocated")
Fail(c) == outcome[c] = "open" /\ Decide(c, "failed")
Cancel(c) == outcome[c] \in {"open", "allocated"} /\ Decide(c, "cancelled")

CreateRetry(c) ==
  LET n == Len(listed[c]) + 1
  IN  /\ initial[c]
      /\ outcome[c] \in {"allocated", "cancelled"}
      /\ n \notin retried[c]
      /\ retried' = [retried EXCEPT ![c] = retried[c] \cup {n}]
      /\ UNCHANGED <<spec, outcome, initial, listed>>

ListRetry(c) ==
  LET n == Len(listed[c]) + 1
  IN  /\ n \in retried[c]
      /\ listed' = [listed EXCEPT ![c] = Append(listed[c], n)]
      /\ UNCHANGED <<spec, outcome, initial, retried>>

Next ==
  \/ \E content \in Contents : Publish(content)
  \/ \E c \in Cells :
       \/ CreateInitial(c)
       \/ Allocate(c)
       \/ Fail(c)
       \/ Cancel(c)
       \/ CreateRetry(c)
       \/ ListRetry(c)

Spec == Init /\ [][Next]_ledger
=============================================================================
