---------------------------- MODULE AnalysisEngines ----------------------------
(***************************************************************************)
(* The engines of src/lib/analysis: what a twin and the counted facts say  *)
(* about a company (context.ts, benchmarks.ts), and the opportunities the  *)
(* rules of MAKE MORE, SPEND LESS and MSP EXPANSION make of it.            *)
(*                                                                         *)
(* Pounds are whole; shares, rates, confidence and readiness are percent;  *)
(* what is not whole is rounded down.  A figure has a value and a basis.   *)
(* A rule yields no draft or one, as a set.  Of a draft the model keeps    *)
(* what it is about, its value and how sure and how ready it is; its       *)
(* wording, evidence, costs, risk and score are left out.                  *)
(***************************************************************************)
LOCAL INSTANCE Integers
LOCAL INSTANCE Sequences
LOCAL INSTANCE FiniteSets
LOCAL INSTANCE SequencesExt
LOCAL INSTANCE FiniteSetsExt
LOCAL INSTANCE CompanyTwin
LOCAL INSTANCE ConnectorFacts

Percent(x, p) == (x * p) \div 100

AtMost(x, y) == IF x <= y THEN x ELSE y

AtLeast(x, y) == IF x >= y THEN x ELSE y

(***************************************************************************)
(* benchmarks.ts, in percent of the figure for no sector.                  *)
(***************************************************************************)
TurnoverPerEmployee == 95000

SectorTurnover ==
  [ software |-> 140, managedIt |-> 110, financial |-> 160, professional |-> 100,
    manufacturing |-> 130, construction |-> 150, logistics |-> 140, retail |-> 120,
    healthcare |-> 80, education |-> 60, recruitment |-> 130 ]

SectorItSpend ==
  [ software |-> 200, managedIt |-> 180, financial |-> 170, professional |-> 130,
    manufacturing |-> 60, construction |-> 50, logistics |-> 70, retail |-> 80,
    healthcare |-> 110, education |-> 100, recruitment |-> 120 ]

(* sectorMultiplier(): the average over the sectors that have one. *)
Multiplier(table, sectors) ==
  LET known == sectors \intersect DOMAIN table
  IN IF known = {} THEN 100
     ELSE MapThenSumSet(LAMBDA s : table[s], known) \div Cardinality(known)

(***************************************************************************)
(* buildContext().  Counted facts come before claims, and a headcount and  *)
(* a turnover are made of each other when only one is known.               *)
(***************************************************************************)
Figure(value, basis) == [value |-> value, basis |-> basis]

Headcount(counted, claimed, turnover, perHead) ==
  IF counted # << >> /\ counted[1].enabledUsers > 0
  THEN Figure(counted[1].enabledUsers, "connected")
  ELSE IF counted = << >> /\ claimed > 0 THEN Figure(claimed, "observed")
  ELSE IF turnover > 0 THEN Figure(AtLeast(1, turnover \div perHead), "benchmark")
  ELSE Figure(25, "assumption")

Turnover(counted, known, employees, perHead) ==
  IF known > 0 THEN Figure(known, IF counted # << >> THEN "connected" ELSE "observed")
  ELSE Figure(employees.value * perHead,
              IF employees.basis = "observed" THEN "benchmark" ELSE "assumption")

Context(twin, facts) ==
  LET believed(field, nothing) == ValueOf(twin.fields[field], nothing)
      sectors == believed("sectors", {})
      services == believed("services", {})
      perHead == Percent(TurnoverPerEmployee, Multiplier(SectorTurnover, sectors))
      known == IF facts.financial # << >> THEN facts.financial[1].turnover
               ELSE believed("turnoverEstimate", 0)
      employees == Headcount(facts.licence, believed("employeesEstimate", 0), known, perHead)
      turnover == Turnover(facts.financial, known, employees, perHead)
      connected(kind, sources) == kind # << >> \/ twin.dataSources \intersect sources # {}
  IN [ employees |-> employees, turnover |-> turnover, sectors |-> sectors,
       services |-> services, technology |-> believed("technologyEstate", {}),
       description |-> believed("valuePropositions", "none"),
       locations |-> believed("locations", 0),
       certificates |-> believed("cyberIndicators", {}),
       salesChannels |-> believed("salesChannels", {}),
       bought |-> believed("currentMSPServices", {}),
       financial |-> connected(facts.financial, {"accounting", "banking", "erp"}),
       crm |-> connected(facts.crm, {"crm", "psa"}),
       licence |-> connected(facts.licence, {"microsoft-365", "licence-portal"}),
       website |-> "website" \in twin.dataSources,
       msp |-> "managedIt" \in sectors \union services,
       itSpend |-> Percent((turnover.value * 35) \div 1000, Multiplier(SectorItSpend, sectors)),
       facts |-> facts ]

(***************************************************************************)
(* makeOpportunity(): an opportunity is as solid as its weakest figure.    *)
(***************************************************************************)
Solid(bases) == bases \subseteq {"connected", "observed"}

Draft(about, value, confidence, ready, bases) ==
  [ about |-> about, value |-> value, ready |-> ready,
    confidence |-> AtMost(confidence, IF Solid(bases) THEN 95 ELSE 75) ]

DraftIf(condition, draft) == IF condition THEN {draft} ELSE {}

Either(preferred, otherwise) == IF preferred # {} THEN preferred ELSE otherwise

(***************************************************************************)
(* SPEND LESS                                                              *)
(***************************************************************************)
LicencesCounted(ctx) ==
  LET found == ctx.facts.licence[1].recoverable
  IN DraftIf(found >= 250, Draft("licences", found, 92, 95, {"connected"}))

Licences(ctx) ==
  LET value == Percent(ctx.employees.value * 18 * 12, 18)
      seen == ctx.technology \intersect {"microsoft", "productivity"} # {}
  IN IF ctx.facts.licence # << >> THEN LicencesCounted(ctx)
     ELSE DraftIf(value >= 1000,
            Draft("licences", value, IF ctx.financial THEN 88 ELSE IF seen THEN 55 ELSE 42,
                  IF ctx.licence THEN 90 ELSE 55, {"benchmark"}))

SaasCounted(ctx) ==
  LET books == ctx.facts.financial
  IN DraftIf(books # << >> /\ books[1].softwareSuppliers > 0 /\ books[1].softwareSpend >= 1000,
       Draft("saas", Percent(books[1].softwareSpend, 22), 82, 90, {"connected", "benchmark"}))

Saas(ctx) ==
  LET value == Percent(ctx.employees.value * 900, 22)
  IN Either(SaasCounted(ctx),
       DraftIf(value >= 1500,
         Draft("saas", value, IF ctx.financial THEN 85 ELSE 45,
               IF ctx.financial THEN 85 ELSE 40, {"benchmark"})))

CloudCosts(ctx) ==
  LET spend == Percent(Percent(ctx.itSpend, 30), Multiplier(SectorItSpend, ctx.sectors))
      value == Percent(spend, 28)
      hosted == \/ ctx.technology \intersect {"cloud", "payments", "productivity"} # {}
                \/ "software" \in ctx.sectors
  IN DraftIf(hosted /\ value >= 1500,
       Draft("cloud", value, IF ctx.financial THEN 80 ELSE 40, 50, {"benchmark"}))

Telecoms(ctx) ==
  LET value == Percent(ctx.employees.value * 380, 18)
  IN DraftIf(value >= 1200,
       Draft("telecoms", value, IF ctx.financial THEN 78 ELSE 38, 45, {"benchmark"}))

ProcessAutomation(ctx) ==
  LET hours == (ctx.employees.value * 18 * 46) \div 10
      value == Percent(hours * 24, 55)
  IN DraftIf(value >= 5000, Draft("automation", value, 45, 55, {"benchmark", "assumption"}))

(* The category most is spent on, of those with several suppliers. *)
ConsolidationCounted(ctx) ==
  LET books == ctx.facts.financial
      all == IF books = << >> THEN << >> ELSE books[1].categories
      split == {c \in DOMAIN all : all[c].suppliers >= 2 /\ c # "other"}
      most == CHOOSE c \in split : \A d \in split : all[d].spend <= all[c].spend
      value == Percent(all[most].spend, 12)
  IN IF split = {} THEN {}
     ELSE DraftIf(value >= 1000,
            Draft("consolidation", value, 80, 85, {"connected", "benchmark"}))

Consolidation(ctx) ==
  LET value == Percent(Percent(ctx.itSpend, 180), 12)
  IN Either(ConsolidationCounted(ctx),
       DraftIf(value >= 4000,
         Draft("consolidation", value, IF ctx.financial THEN 75 ELSE 35,
               IF ctx.financial THEN 75 ELSE 30, {"benchmark"})))

SpendLess(ctx) ==
  <<Licences(ctx), Saas(ctx), CloudCosts(ctx), Telecoms(ctx), ProcessAutomation(ctx),
    Consolidation(ctx)>>

(***************************************************************************)
(* MAKE MORE                                                               *)
(***************************************************************************)
(* A counted deal or customer value: the CRM's, else the accounts'. *)
CountedValue(facts) ==
  IF facts.crm # << >> /\ facts.crm[1].averageDealValue # Unknown
  THEN facts.crm[1].averageDealValue
  ELSE IF facts.financial # << >> THEN facts.financial[1].averageCustomerValue
  ELSE Unknown

DormantCounted(ctx) ==
  LET crm == ctx.facts.crm
      each == CountedValue(ctx.facts)
      value == Percent(crm[1].dormantAccounts * each, 7)
  IN IF crm = << >> \/ each <= 0 THEN {}
     ELSE DraftIf(crm[1].dormantAccounts >= 3 /\ value >= 2000,
            Draft("dormant", value, 86, 95, {"connected", "benchmark"}))

DormantCustomers(ctx) ==
  LET books == ctx.facts.financial
      counted == books # << >> /\ books[1].customerCount > 0
                   /\ books[1].averageCustomerValue > 0
      each == IF counted THEN books[1].averageCustomerValue
              ELSE Percent(ctx.turnover.value, 2)
      customers == IF counted THEN books[1].customerCount
                   ELSE AtLeast(10, ctx.turnover.value \div AtLeast(each, 1))
      dormant == Percent(customers, 35)
      value == Percent(dormant * each, 7)
  IN Either(DormantCounted(ctx),
       DraftIf(dormant >= 5 /\ value >= 5000,
         Draft("dormant", value, IF ctx.crm THEN 84 ELSE IF counted THEN 70 ELSE 52,
               IF ctx.crm THEN 90 ELSE 55, {"benchmark"})))

(* winRateForDealSize(): larger deals are won less often. *)
WinRate(each) ==
  IF each < 25000 THEN 20 ELSE IF each < 75000 THEN 12 ELSE IF each < 200000 THEN 7 ELSE 4

(* Ten meetings a month take a company of twenty-five; the first year earns half. *)
Pipeline(ctx) ==
  LET crm == ctx.facts.crm
      counted == CountedValue(ctx.facts)
      each == IF counted # Unknown THEN counted ELSE Percent(ctx.turnover.value, 2)
      monthly == AtLeast(2, (10 * AtMost(25, ctx.employees.value)) \div 25)
      rated == crm # << >> /\ crm[1].conversionRate # Unknown
      rate == IF rated THEN crm[1].conversionRate ELSE WinRate(each)
      value == Percent(monthly * 12 * rate * (each \div 100), 50)
  IN DraftIf(value >= 10000,
       Draft("pipeline", value, IF rated THEN 74 ELSE 58, 75, {"benchmark", "assumption"}))

CrossSell(ctx) ==
  LET value == Percent(Percent(ctx.turnover.value, 70), 8)
  IN DraftIf(Cardinality(ctx.services) >= 2 /\ value >= 5000,
       Draft("cross-sell", value, 60, IF ctx.crm THEN 85 ELSE 60, {"benchmark"}))

PricingReview(ctx) ==
  LET value == Percent(ctx.turnover.value, 3)
  IN DraftIf(value >= 5000,
       Draft("pricing", value, 50, IF ctx.financial THEN 80 ELSE 45, {"benchmark"}))

(* What is not on a website means something only if the website was read. *)
Proposition(ctx) ==
  LET value == Percent(ctx.turnover.value, 2)
  IN DraftIf(ctx.website /\ ctx.description # "full" /\ value >= 4000,
       Draft("proposition", value, 40, 80, {"assumption"}))

MarketExpansion(ctx) ==
  LET value == Percent(ctx.turnover.value, 6)
  IN DraftIf(ctx.sectors # {} /\ ctx.locations <= 3 /\ value >= 15000,
       Draft("expansion", value, 38, 50, {"assumption"}))

MakeMore(ctx) ==
  <<DormantCustomers(ctx), Pipeline(ctx), CrossSell(ctx), PricingReview(ctx),
    Proposition(ctx), MarketExpansion(ctx)>>

(***************************************************************************)
(* MSP EXPANSION                                                           *)
(***************************************************************************)
Service(id, unit, price, floor, sensitivity, applies) ==
  [ id |-> id, unit |-> unit, price |-> price, floor |-> floor,
    sensitivity |-> sensitivity, applies |-> applies ]

MspServices(ctx) ==
  LET staff == ctx.employees.value
      hosted == "software" \in ctx.sectors \/ "cloud" \in ctx.technology
  IN <<Service("managed-microsoft", "user", 12, 250, "routine", staff >= 5),
       Service("cyber-essentials", "user", 9, 400, "routine",
               ctx.website /\ ctx.certificates = {}),
       Service("backup-continuity", "user", 7, 200, "routine", staff >= 5),
       Service("licence-management", "user", 3, 150, "routine", staff >= 15),
       Service("cloud-management", "user", 14, 500, "considered", hosted),
       Service("device-management", "device", 11, 300, "routine", staff >= 10),
       Service("service-desk", "user", 22, 750, "considered", staff >= 20),
       Service("ai-governance", "user", 6, 400, "considered", staff >= 15),
       Service("fractional-it-leadership", "fixed", 0, 1200, "delicate", staff >= 40),
       Service("growth-services", "fixed", 0, 1500, "delicate", ctx.turnover.value >= 2000000),
       Service("procurement-services", "fixed", 0, 900, "considered", ctx.turnover.value >= 1000000)>>

(* serviceEconomics(): a year's charge. *)
AnnualCharge(service, ctx) ==
  LET units == CASE service.unit = "user" -> ctx.employees.value
                 [] service.unit = "device" -> Percent(ctx.employees.value, 120)
                 [] service.unit = "fixed" -> 1
  IN 12 * AtLeast(service.floor, units * service.price)

(* The services that apply and are not bought yet, one draft each. *)
MspExpand(ctx) ==
  LET proposed == SelectSeq(MspServices(ctx), LAMBDA s : s.applies /\ s.id \notin ctx.bought)
      draft(s) ==
        Draft(s.id, AnnualCharge(s, ctx),
              CASE s.sensitivity = "routine" -> 70 [] s.sensitivity = "considered" -> 55
                [] s.sensitivity = "delicate" -> 40,
              IF s.sensitivity = "routine" THEN 85 ELSE 60, {"benchmark"})
  IN IF ctx.msp THEN << >> ELSE [i \in DOMAIN proposed |-> {draft(proposed[i])}]

(***************************************************************************)
(* The opportunities of an analysis.  Their ids are the company's, the     *)
(* category and the rule's number; of MSP EXPANSION the number among the   *)
(* services proposed this time.                                            *)
(***************************************************************************)
Numbered(category, drafts) ==
  {[id |-> <<category, i>>, draft |-> CHOOSE d \in drafts[i] : TRUE] :
     i \in {j \in DOMAIN drafts : drafts[j] # {}}}

Opportunities(ctx) ==
  LET found == Numbered("MAKE_MORE", MakeMore(ctx))
                 \union Numbered("SPEND_LESS", SpendLess(ctx))
                 \union Numbered("MSP_EXPAND", MspExpand(ctx))
  IN [id \in {f.id : f \in found} |-> (CHOOSE f \in found : f.id = id).draft]

(***************************************************************************)
(* buildSupplyChain(): the categories IT money goes to, counted or         *)
(* modelled; what the website shows is observed.                           *)
(***************************************************************************)
SupplyCategories ==
  <<[name |-> "licensing",    share |-> 28, saving |-> 18, seenIn |-> {"microsoft"}],
    [name |-> "cloud",        share |-> 22, saving |-> 28, seenIn |-> {"cloud"}],
    [name |-> "telecoms",     share |-> 14, saving |-> 18, seenIn |-> {}],
    [name |-> "security",     share |-> 12, saving |-> 15, seenIn |-> {"security"}],
    [name |-> "software",     share |-> 16, saving |-> 10, seenIn |-> {"crm", "accounts", "shop"}],
    [name |-> "backup",       share |-> 8,  saving |-> 20, seenIn |-> {}]>>

SupplyChain(ctx) ==
  LET spend(c) == Percent(ctx.itSpend, c.share)
      observed(c) == ctx.technology \intersect c.seenIn # {}
      sure == IF ctx.financial THEN 90 ELSE 35
  IN {[ category |-> c.name, spend |-> spend(c), saving |-> Percent(spend(c), c.saving),
        confidence |-> IF observed(c) THEN AtMost(60, sure + 15) ELSE sure,
        basis |-> IF observed(c) THEN "observed"
                  ELSE IF ctx.financial THEN "connected" ELSE "benchmark" ] :
      c \in {SupplyCategories[i] : i \in {j \in DOMAIN SupplyCategories :
                                            spend(SupplyCategories[j]) > 500}}}
=============================================================================
