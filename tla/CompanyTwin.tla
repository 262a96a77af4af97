------------------------------ MODULE CompanyTwin ------------------------------
(***************************************************************************)
(* What the program believes of a company: per field of the twin every     *)
(* claim ever made about it (core/provenance.ts).                          *)
(*                                                                         *)
(* A field is a sequence of claims, the believed one first.  A claim is a  *)
(* value, its confidence in percent, its sources and its epistemics.  The  *)
(* clock is the order of the sequence: a claim just made or just repeated  *)
(* is newer than every other, so it stands before those as confident.      *)
(* Only the fields some engine reads are kept.                             *)
(***************************************************************************)
LOCAL INSTANCE Integers
LOCAL INSTANCE Sequences
LOCAL INSTANCE FiniteSets
LOCAL INSTANCE SequencesExt

TwinFields ==
  {"domain", "sectors", "services", "valuePropositions", "locations",
   "technologyEstate", "cyberIndicators", "employeesEstimate",
   "turnoverEstimate", "salesChannels", "currentMSPServices"}

(* createEmptyTwin(): nothing is known of a company. *)
EmptyTwin == [fields |-> [f \in TwinFields |-> << >>], dataSources |-> {}]

(* claim(): what was inferred is not a fact. *)
ClaimOf(value, method, confidence, source) ==
  [ value |-> value, confidence |-> confidence, sources |-> {source},
    fact |-> method # "inferred" ]

(* A second source closes half of the gap, and never beyond 95 percent; a   *)
(* claim that was surer than that comes down to it.                        *)
Corroborated(x, y, independent) ==
  LET best == IF x >= y THEN x ELSE y
      closer == best + (100 - best) \div 2
  IN IF ~independent THEN best ELSE IF closer > 95 THEN 95 ELSE closer

(* The claim next joins the claim that says the same. *)
Joined(old, next) ==
  [ value |-> old.value,
    confidence |-> Corroborated(old.confidence, next.confidence,
                                ~(next.sources \subseteq old.sources)),
    sources |-> old.sources \union next.sources,
    fact |-> old.fact \/ next.fact ]

(* Mutant: a tie goes to the claim that was there first. *)
PlacedLast(others, new) ==
  LET surer == {i \in DOMAIN others : others[i].confidence >= new.confidence}
  IN InsertAt(others, Cardinality(surer) + 1, new)

(* The newest claim goes before the first that is not surer than it. *)
Placed(others, new) ==
  LET surer == {i \in DOMAIN others : others[i].confidence > new.confidence}
  IN InsertAt(others, Cardinality(surer) + 1, new)

(* addClaim(): nothing that was said before is lost. *)
AddClaim(field, next) ==
  LET others == SelectSeq(field, LAMBDA c : c.value # next.value)
      same == SelectSeq(field, LAMBDA c : c.value = next.value)
  IN Placed(others, IF same = << >> THEN next ELSE Joined(same[1], next))

(* valueOf() and confidenceOf() *)
ValueOf(field, nothing) == IF field = << >> THEN nothing ELSE field[1].value

ConfidenceOf(field) == IF field = << >> THEN 0 ELSE field[1].confidence

(* Every claim of a reading is added in turn.  A reading is a sequence of  *)
(* pairs of a field and a claim about it.                                  *)
Told(twin, reading) ==
  FoldLeft(LAMBDA tw, said :
             [tw EXCEPT !.fields[said.field] = AddClaim(@, said.claim)],
           twin, reading)
=============================================================================
