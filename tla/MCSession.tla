----------------------------- MODULE MCSession ------------------------------
(***************************************************************************)
(* Instances of Session for TLC.                                           *)
(***************************************************************************)
EXTENDS Session

CONSTANTS c1, c2, a1, a2

MCCommands == {c1, c2}
MCKinds == [c \in Commands |-> IF c = c1 THEN INTERVENTION_TYPES ELSE {"decide"}]
MCDecisions == [c \in Commands |-> {"decide"}]
MCApproval == {a1}
MCApprovals == {a1, a2}
=============================================================================
