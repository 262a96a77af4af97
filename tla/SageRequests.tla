----------------------------- MODULE SageRequests -----------------------------
(***************************************************************************)
(* Requests to the Sage Halpin server (sage-halpin/server).  Every handler *)
(* reads and writes documents of a shared store (store.ts: get, put, list, *)
(* remove, each one document, nothing conditional) and awaits every one of *)
(* these calls, so handlers of several tabs and replicas interleave at     *)
(* them.  In the modules built on this one a step is one store call with   *)
(* the code that follows it up to the next await.                          *)
(***************************************************************************)
EXTENDS Integers, FiniteSets

CONSTANTS
  Tab,           \* clients, each with at most one request under way
  MaxRequests    \* bound: requests sent in all

ASSUME RequestsAssumption == MaxRequests \in Nat /\ IsFiniteSet(Tab) /\ Tab # {}

VARIABLE issued  \* requests sent so far

Arrive == issued < MaxRequests /\ issued' = issued + 1
=============================================================================
