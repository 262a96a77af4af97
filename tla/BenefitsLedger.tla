---------------------------- MODULE BenefitsLedger ----------------------------
(***************************************************************************)
(* The benefits ledger of src/lib/benefits/ledger.ts: six stages a benefit *)
(* climbs, and the two operations that move it.  A benefit row is a record *)
(*   [stage, realised, verified]                                           *)
(* - the projected value, the evidence and the attribution it also carries *)
(* never decide anything and are left out.  The module has no state of its *)
(* own: the components that call the ledger hold the rows.                 *)
(***************************************************************************)
EXTENDS Integers

STAGE_ORDER ==
  <<"THEORETICAL", "APPROVED", "FORECAST", "COMMITTED", "REALISED", "VERIFIED">>

Stage ==
  {"THEORETICAL", "APPROVED", "FORECAST", "COMMITTED", "REALISED", "VERIFIED"}

\* STAGE_ORDER.indexOf(stage)
Rank(stage) == CHOOSE i \in 1..6 : STAGE_ORDER[i] = stage

Benefit(Realised, Verified) ==
  [stage : Stage, realised : Realised, verified : Verified]

NewBenefit(nothing) ==
  [stage |-> "THEORETICAL", realised |-> nothing, verified |-> 0]

\* advance() throws BenefitStageError when this is false.
CanAdvance(b, stage, verified) ==
  /\ Rank(b.stage) <= Rank(stage)
  /\ stage = "VERIFIED" => verified > 0

\* The row advance() stores; the figures it is not given stay as they were.
Advance(b, stage, realised, verified) ==
  [stage |-> stage, realised |-> realised, verified |-> verified]

\* Mutant: advanceAtLeast() writes again when the benefit already stands at
\* the stage, so a second report replaces the first.
AdvanceAtLeastRewriting(b, stage, realised) ==
  IF Rank(b.stage) > Rank(stage) THEN b
  ELSE Advance(b, stage, realised, b.verified)

AdvanceAtLeast(b, stage, realised) ==
  IF Rank(b.stage) >= Rank(stage) THEN b
  ELSE Advance(b, stage, realised, b.verified)
=============================================================================
