---------------------------- MODULE ExecutionClaims ----------------------------
(***************************************************************************)
(* What the repository's documents, comments, tests and console texts say  *)
(* of the execution engine and its code does not do.  Each property is one *)
(* such statement; the run named after it shows how the code departs.      *)
(***************************************************************************)
EXTENDS ExecutionEngine

\* "This task affects systems outside the platform, so it cannot run until a
\* named person approves it" (components/ExecutionControls.tsx:57): when a
\* task that has asked for approval is carried out, its request was approved.
GateHolds ==
  [][\A e \in effects' \ effects : e.approvalId # None =>
       approvals[e.approvalId].decision = "APPROVED"]_vars
=============================================================================
