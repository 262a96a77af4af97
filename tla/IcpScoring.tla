----------------------------- MODULE IcpScoring -----------------------------
(***************************************************************************)
(* How the go-to-market engine reads a researched company: the fifteen     *)
(* archetypes of gtm/icp.ts, the seven scores and the priority they add up *)
(* to, and the hypotheses gtm/hypothesis.ts makes of the matches.          *)
(*                                                                         *)
(* What the program finds by searching text is here a finding: a record    *)
(* that says which groups of words, signals and technologies were there.   *)
(* Fractions are whole ten-thousandths.  A piece of evidence is counted,   *)
(* never worded.                                                           *)
(***************************************************************************)
LOCAL INSTANCE Integers
LOCAL INSTANCE Sequences
LOCAL INSTANCE FiniteSets
LOCAL INSTANCE SequencesExt
LOCAL INSTANCE FiniteSetsExt

One == 10000

Unknown == -1

(* The finding of a company nothing was learned about. *)
Nothing == [ understanding |-> 0, employees |-> Unknown, turnover |-> FALSE,
             terms |-> {}, projects |-> 0, customers |-> {}, signals |-> {},
             roles |-> 0, openRoles |-> 0, tech |-> {}, tools |-> 0, sites |-> 0,
             suppliers |-> 0, sector |-> "unknown", url |-> FALSE ]

Clamp(x) == IF x < 0 THEN 0 ELSE IF x > One THEN One ELSE x

Share(n, whole) == Clamp((n * One) \div whole)

Times(x, y) == (x * y) \div One

(* How many of these conditions hold. *)
Held(conditions) == Cardinality({i \in DOMAIN conditions : conditions[i]})

(***************************************************************************)
(* The services of the provider's profile that an archetype can lead to.   *)
(***************************************************************************)
Services ==
  [ avd         |-> [low |-> 25000, high |-> 150000, recurring |-> TRUE,  capacity |-> "ready"],
    managedIt   |-> [low |-> 18000, high |-> 240000, recurring |-> TRUE,  capacity |-> "ready"],
    consultancy |-> [low |-> 8000,  high |-> 75000,  recurring |-> FALSE, capacity |-> "ready"],
    cyber       |-> [low |-> 12000, high |-> 120000, recurring |-> TRUE,  capacity |-> "ready"],
    hosting     |-> [low |-> 20000, high |-> 200000, recurring |-> TRUE,  capacity |-> "ready"],
    whiteLabel  |-> [low |-> 30000, high |-> 300000, recurring |-> TRUE,  capacity |-> "ready"],
    resource    |-> [low |-> 15000, high |-> 180000, recurring |-> FALSE, capacity |-> "constrained"],
    aiReadiness |-> [low |-> 10000, high |-> 90000,  recurring |-> FALSE, capacity |-> "partner-required"] ]

(* Of these services, those that can be delivered right now. *)
Sellable(ids) == {s \in ids : Services[s].capacity \in {"ready", "constrained"}}

(* No rate card and no delivery capacity were supplied. *)
RateCard == FALSE
CapacityKnown == FALSE

SizeFit(employees) ==
  CASE employees = Unknown -> 3000
    [] employees # Unknown /\ employees < 10 -> 1500
    [] employees >= 10 /\ employees < 50 -> 8000
    [] employees >= 50 /\ employees < 250 -> 10000
    [] employees >= 250 -> 5500

Sized(f, base) == Clamp(Times(base, SizeFit(f.employees)))

(***************************************************************************)
(* The archetypes.  Each is a fit and a count of observations.             *)
(***************************************************************************)
MicrosoftCloud(f) ==
  [ fit |-> Sized(f, IF "microsoft" \in f.tech THEN 7000 ELSE IF "microsoft" \in f.terms THEN 5000 ELSE 2000),
    evidence |-> Held(<<"microsoft" \in f.tech, "microsoft" \in f.terms, f.employees # Unknown>>) ]

CyberSecurity(f) ==
  LET certified == "certified" \in f.terms
      obliged == "obligations" \in f.terms
      tenders == "tenders" \in f.terms
      attacked == "incident" \in f.signals
  IN [ fit |-> Sized(f, IF certified /\ obliged THEN 5000
                        ELSE IF attacked THEN 9500
                        ELSE IF tenders /\ ~certified THEN 9000
                        ELSE IF obliged /\ ~certified THEN 8000 ELSE 2500),
       evidence |-> Held(<<~certified /\ obliged, certified, attacked, tenders /\ ~certified>>) ]

Infrastructure(f) ==
  LET legacy == "legacy" \in f.terms
      ending == "endOfSupport" \in f.terms
  IN [ fit |-> Sized(f, IF legacy THEN 8500 ELSE IF ending THEN 7000 ELSE IF f.sites > 1 THEN 4000 ELSE 2000),
       evidence |-> Held(<<legacy, ending, f.sites > 1>>) ]

AiReadiness(f) ==
  LET talk == "aiTalk" \in f.terms
      governed == "aiGovernance" \in f.terms
  IN [ fit |-> Sized(f, IF talk /\ ~governed THEN 7500 ELSE IF talk THEN 4000 ELSE 1500),
       evidence |-> Held(<<talk, talk /\ ~governed>>) ]

AiImplementation(f) ==
  LET hiring == "aiHiring" \in f.signals
      committed == "aiCommitted" \in f.terms
  IN [ fit |-> Sized(f, IF hiring /\ committed THEN 8000 ELSE IF hiring \/ committed THEN 4500 ELSE 1000),
       evidence |-> Held(<<hiring, committed>>) ]

Augmentation(f) ==
  LET itFirm == "itFirm" \in f.terms
      delivery == "deliveryHiring" \in f.signals
  IN [ fit |-> IF itFirm /\ delivery THEN 9200 ELSE IF itFirm THEN 7500 ELSE 500,
       evidence |-> Held(<<itFirm, delivery>>) ]

Transformation(f) ==
  LET talk == "transformation" \in f.terms
      leaders == "leadership" \in f.signals
  IN [ fit |-> Sized(f, IF talk /\ leaders THEN 8000 ELSE IF talk THEN 5000 ELSE 1500),
       evidence |-> Held(<<talk, leaders>>) ]

ManagedIt(f) ==
  LET internal == "internalIt" \in f.signals
      alone == f.employees >= 20 /\ ~internal
  IN [ fit |-> Sized(f, IF internal THEN 4000 ELSE IF alone THEN 8500 ELSE 3000),
       evidence |-> Held(<<alone, internal, f.sites > 1>>) ]

Project(f) ==
  [ fit |-> Sized(f, IF f.projects >= 2 THEN 7000 ELSE IF f.projects = 1 THEN 4500 ELSE 1500),
    evidence |-> Held(<<f.projects > 0>>) ]

(* Selling to public bodies is not being one. *)
PublicSector(f) ==
  IF "public" \in f.terms THEN [fit |-> 8000, evidence |-> 2]
  ELSE IF "public" \in f.customers THEN [fit |-> 1000, evidence |-> 1]
  ELSE [fit |-> 500, evidence |-> 0]

(* A company that is being sold wants a buyer, not a supplier. *)
ChangeEvent(f) ==
  LET event == "event" \in f.signals
      talk == "change" \in f.terms
      selling == "sellSide" \in f.signals \union f.terms
      seen == Held(<<event, talk>>)
  IN IF selling THEN [fit |-> 1500, evidence |-> seen + 2]
     ELSE [fit |-> IF event THEN 9500 ELSE IF talk THEN 6000 ELSE 500, evidence |-> seen]

RapidGrowth(f) ==
  [ fit |-> Sized(f, IF f.roles >= 4 THEN 7500 ELSE IF "growth" \in f.terms THEN 4500 ELSE 1000),
    evidence |-> Held(<<f.roles >= 4, "growth" \in f.terms>>) ]

Migration(f) ==
  LET moving == "migration" \in f.terms
      elsewhere == "otherCloud" \in f.tech
  IN [ fit |-> Sized(f, IF moving THEN 8000 ELSE IF elsewhere THEN 4000 ELSE 1000),
       evidence |-> Held(<<moving, elsewhere>>) ]

CostOptimisation(f) ==
  [ fit |-> Sized(f, IF "cost" \in f.terms THEN 6500 ELSE 2500),
    evidence |-> Held(<<"cost" \in f.terms, f.turnover>>) ]

Consolidation(f) ==
  [ fit |-> Sized(f, IF f.suppliers >= 4 THEN 7000 ELSE IF f.tools >= 6 THEN 5000 ELSE 1500),
    evidence |-> Held(<<f.suppliers >= 4, f.tools >= 6>>) ]

(* In the order of the source: a sort by fit keeps it among equals. *)
Archetypes ==
  << "microsoft-cloud", "cyber-security", "infrastructure", "ai-readiness", "ai-implementation",
     "augmentation", "transformation", "managed-it", "project", "public-sector",
     "change-event", "rapid-growth", "migration", "cost", "consolidation" >>

ServicesOf(a) ==
  CASE a \in {"microsoft-cloud", "rapid-growth"} -> {"managedIt", "hosting", "avd"}
    [] a = "cyber-security" -> {"cyber"}
    [] a = "infrastructure" -> {"hosting", "avd", "consultancy"}
    [] a = "ai-readiness" -> {"aiReadiness", "cyber"}
    [] a = "ai-implementation" -> {"aiReadiness"}
    [] a = "augmentation" -> {"whiteLabel", "resource"}
    [] a = "transformation" -> {"consultancy", "hosting"}
    [] a = "managed-it" -> {"managedIt"}
    [] a \in {"project", "migration"} -> {"hosting", "resource", "avd"}
    [] a = "public-sector" -> {"avd", "cyber", "managedIt"}
    [] a = "change-event" -> {"consultancy", "hosting", "managedIt"}
    [] a = "cost" -> {"managedIt", "hosting"}
    [] a = "consolidation" -> {"managedIt", "consultancy"}

Matched(a, f) ==
  CASE a = "microsoft-cloud" -> MicrosoftCloud(f)  [] a = "cyber-security" -> CyberSecurity(f)
    [] a = "infrastructure" -> Infrastructure(f)   [] a = "ai-readiness" -> AiReadiness(f)
    [] a = "ai-implementation" -> AiImplementation(f) [] a = "augmentation" -> Augmentation(f)
    [] a = "transformation" -> Transformation(f)   [] a = "managed-it" -> ManagedIt(f)
    [] a = "project" -> Project(f)                 [] a = "public-sector" -> PublicSector(f)
    [] a = "change-event" -> ChangeEvent(f)        [] a = "rapid-growth" -> RapidGrowth(f)
    [] a = "migration" -> Migration(f)             [] a = "cost" -> CostOptimisation(f)
    [] a = "consolidation" -> Consolidation(f)

(* How a company fits every archetype. *)
Assessed(f) == [a \in ToSet(Archetypes) |-> Matched(a, f)]

(* The archetypes it fits at all, the best fit first. *)
MatchArchetypes(assessed) ==
  LET rank(a) == CHOOSE i \in DOMAIN Archetypes : Archetypes[i] = a
      better(a, b) == assessed[a].fit > assessed[b].fit \/ (assessed[a].fit = assessed[b].fit /\ rank(a) < rank(b))
  IN SetToSortSeq({a \in DOMAIN assessed : assessed[a].fit > 2000}, better)

(***************************************************************************)
(* A score is a weighted mean of its components, <<weight, input>>.        *)
(***************************************************************************)
Score(components) ==
  Clamp(FoldSeq(LAMBDA c, sum : sum + c[1] * c[2], 0, components)
        \div FoldSeq(LAMBDA c, sum : sum + c[1], 0, components))

SectorFit(f) == CASE f.sector = "served" -> One [] f.sector = "other" -> 3500 [] OTHER -> 2000

IcpScore(f, matches) ==
  Score(<< <<35, SizeFit(f.employees)>>, <<25, SectorFit(f)>>, <<25, Share(Len(matches), 4)>>, <<15, One>> >>)

FitAmong(assessed, matches, a) == IF Contains(matches, a) THEN assessed[a].fit ELSE 0

TimingScore(f, assessed, matches) ==
  Score(<< <<40, FitAmong(assessed, matches, "change-event")>>, <<25, Share(f.openRoles, 6)>>,
           <<20, FitAmong(assessed, matches, "migration")>>, <<15, IF f.understanding > 0 THEN 6000 ELSE 0>> >>)

NeedScore(assessed, matches) ==
  LET nth(i) == IF i <= Len(matches) THEN assessed[matches[i]] ELSE [fit |-> 0, evidence |-> 0]
  IN Score(<< <<55, nth(1).fit>>, <<25, nth(2).fit>>, <<20, Share(nth(1).evidence, 3)>> >>)

Leading(matches) == IF matches = <<>> THEN {} ELSE Sellable(ServicesOf(matches[1]))

ValueScore(f, matches) ==
  LET led == Leading(matches)
      middle == IF led = {} THEN 0
                ELSE SumSet({Services[s].low + Services[s].high : s \in led}) \div (2 * Cardinality(led))
      recurring == \E s \in led : Services[s].recurring
  IN Score(<< <<60, Share(middle, 150000)>>, <<25, SizeFit(f.employees)>>, <<15, IF recurring THEN One ELSE 3000>> >>)

EvidenceScore(f, assessed, matches) ==
  LET observed == FoldSeq(LAMBDA a, sum : sum + assessed[a].evidence, 0, matches)
  IN Score(<< <<45, Share(f.understanding, 60)>>, <<35, Share(observed, 6)>>, <<20, Share(f.tools, 5)>> >>)

ContactScore(f, matches, reachable) ==
  Score(<< <<60, Share(reachable, 2)>>, <<25, IF matches = <<>> THEN 2000 ELSE One>>, <<15, IF f.url THEN One ELSE 0>> >>)

DeliveryScore(matches) ==
  LET led == Leading(matches)
  IN Score(<< <<50, IF led = {} THEN 0 ELSE One>>, <<30, IF CapacityKnown THEN One ELSE 5000>>,
              <<20, IF \E s \in led : Services[s].capacity = "constrained" THEN 4000 ELSE One>> >>)

(* The one number that orders the worklist, and what it is made of. *)
ScoresFrom(f, reachable, assessed, matches) ==
  LET icp == IcpScore(f, matches)
      timing == TimingScore(f, assessed, matches)
      evidence == EvidenceScore(f, assessed, matches)
  IN [ icp |-> icp, timing |-> timing, evidence |-> evidence, matches |-> matches,
       priority |-> Score(<< <<20, icp>>, <<20, NeedScore(assessed, matches)>>, <<18, timing>>,
                             <<15, ValueScore(f, matches)>>, <<15, evidence>>,
                             <<7, ContactScore(f, matches, reachable)>>, <<5, DeliveryScore(matches)>> >>) ]

ScoreAccount(f, reachable) == ScoresFrom(f, reachable, Assessed(f), MatchArchetypes(Assessed(f)))

(***************************************************************************)
(* Hypotheses: one for each archetype matched, most of them rejected.      *)
(***************************************************************************)
SpendPosition(employees) ==
  CASE employees = Unknown -> 10
    [] employees # Unknown /\ employees < 10 -> 5
    [] employees >= 10 /\ employees < 25 -> 12
    [] employees >= 25 /\ employees < 50 -> 22
    [] employees >= 50 /\ employees < 100 -> 35
    [] employees >= 100 /\ employees < 250 -> 50
    [] employees >= 250 /\ employees < 500 -> 70
    [] employees >= 500 -> 85

ValueFor(service, employees) ==
  Services[service].low + ((Services[service].high - Services[service].low) * SpendPosition(employees)) \div 100

(* The dearest of the services an archetype leads to. *)
BestService(a) ==
  CHOOSE s \in ServicesOf(a) : \A t \in ServicesOf(a) : Services[t].high <= Services[s].high

(* Every reason not to act on the match m of an archetype. *)
Evaluate(a, m, f, scores, suppressed) ==
  LET reason(holds, name) == IF holds THEN {name} ELSE {}
  IN reason(m.fit < 4500, "min-fit") \union reason(f.understanding < 25, "min-understanding")
     \union reason(m.evidence < 2, "min-evidence")
     \union reason(ValueFor(BestService(a), f.employees) < 8000, "min-value")
     \union reason(suppressed, "suppressed") \union reason(scores.evidence < 3000, "weak-evidence-score")

QualityFrom(m, reasons, scores) ==
  LET combined == (m.fit + scores.evidence + scores.timing) \div 3
  IN IF reasons # {} THEN "rejected"
     ELSE IF combined >= 7000 /\ m.evidence >= 3 THEN "strong"
     ELSE IF combined >= 5000 THEN "workable" ELSE "weak"

HypothesisOf(a, m, f, scores, suppressed) ==
  [ quality |-> QualityFrom(m, Evaluate(a, m, f, scores, suppressed), scores),
    service |-> BestService(a),
    value |-> ValueFor(BestService(a), f.employees),
    confidence |-> (m.fit + scores.evidence + scores.icp) \div 3 ]

(* A hypothesis for each archetype the account matched. *)
GenerateHypotheses(f, scores, suppressed) ==
  [a \in ToSet(scores.matches) |-> HypothesisOf(a, Matched(a, f), f, scores, suppressed)]

Workable(hypothesis) == hypothesis.quality \in {"strong", "workable"}

(***************************************************************************)
(* The commercial policy: which hypotheses a person decides about.         *)
(***************************************************************************)
HighValue == 100000

ApprovedArchetypes ==
  { "microsoft-cloud", "cyber-security", "infrastructure", "managed-it", "augmentation", "migration", "project" }

ApprovedServices == { "avd", "managedIt", "consultancy", "cyber", "hosting", "whiteLabel" }

(* Why a person must decide about this hypothesis, or "none". *)
NeedsEscalation(a, hypothesis) ==
  CASE hypothesis.value >= HighValue -> "high-value"
    [] hypothesis.value < HighValue /\ a \notin ApprovedArchetypes -> "new-market"
    [] hypothesis.value < HighValue /\ a \in ApprovedArchetypes /\ hypothesis.service \notin ApprovedServices -> "proposition-change"
    [] OTHER -> IF Services[hypothesis.service].capacity = "partner-required" THEN "partnership"
                ELSE IF ~RateCard /\ hypothesis.value >= 50000 THEN "pricing" ELSE "none"
=============================================================================
