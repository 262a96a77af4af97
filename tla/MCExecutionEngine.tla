--------------------------- MODULE MCExecutionEngine ---------------------------
(***************************************************************************)
(* Small instances of the execution engine for TLC.                        *)
(***************************************************************************)
EXTENDS ExecutionClaims, TLC

CONSTANTS p1, p2, o1, a1, a2, r1, r2

OneOpportunity == {o1}
OnePlan == {p1}
TwoPlans == {p1, p2}
AllForTheSame == [p \in Plan |-> o1]
OneRequest == {r1}
TwoRequests == {r1, r2}
OneApproval == {a1}
TwoApprovals == {a1, a2}

\* An internal task, then an external one behind its playbook's gate.
SecondTask == {2}
FirstTask == {1}

Symmetry == Permutations(ApprovalId) \cup Permutations(Request)
=============================================================================
