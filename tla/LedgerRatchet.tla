----------------------------- MODULE LedgerRatchet -----------------------------
(***************************************************************************)
(* What the benefits ledger promises its readers, whoever calls it and in  *)
(* whatever order: the stage of a benefit is a one-way ratchet, a realised *)
(* figure is booked once and kept, and a verified figure is positive and   *)
(* sits only on a verified benefit.                                        *)
(***************************************************************************)
EXTENDS BenefitsLedger

CONSTANTS Opportunity, Realised, Verified, Nothing

VARIABLE ledger   \* one benefit row per opportunity

Init == ledger = [o \in Opportunity |-> NewBenefit(Nothing)]

\* Before delivery is reported a benefit may only climb, with no figures.
Climb(o) ==
  \E s \in {"APPROVED", "FORECAST", "COMMITTED"} :
    /\ Rank(ledger[o].stage) < Rank(s)
    /\ ledger' = [ledger EXCEPT ![o].stage = s]

\* The delivered figure is booked on reaching REALISED, and only then.
Realise(o) ==
  \E r \in Realised :
    /\ Rank(ledger[o].stage) < Rank("REALISED")
    /\ ledger' = [ledger EXCEPT ![o].stage = "REALISED", ![o].realised = r]

\* Proof may arrive at any stage, and again; it leaves the delivered figure.
Verify(o) ==
  \E v \in Verified \ {0} :
    ledger' = [ledger EXCEPT ![o].stage = "VERIFIED", ![o].verified = v]

Next == \E o \in Opportunity : Climb(o) \/ Realise(o) \/ Verify(o)

Spec == Init /\ [][Next]_ledger
=============================================================================
