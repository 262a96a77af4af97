------------------------------- MODULE Planning -------------------------------
(***************************************************************************)
(* What planExecution decides, on the real catalogues: which capability is *)
(* given each task of a playbook, which tasks wait for a person, and what  *)
(* blocks the plan -- under grants of autonomy that administrators give,   *)
(* narrow and halt.  What becomes of a plan is in ExecutionEngine.         *)
(*                                                                         *)
(* Money is in pounds and unit costs in pence; shares, confidence and      *)
(* fitness are in percent; scores are in thousandths.  Of the words of an  *)
(* objective the model keeps how many percent of them a capability's own   *)
(* text contains (`likeness').  No code gives a grant a user or an expiry  *)
(* (route.ts:47-59, scripts/seed.ts:67-92), so grants have neither.        *)
(***************************************************************************)
EXTENDS Naturals, Sequences, FiniteSetsExt, SequencesExt

CONSTANTS None, GrantIds, Requests, Opportunities, Likenesses, MaxSaves, MaxHalts

\* What a request asks for: a scope, or None for what it leaves out, a level and
\* its limits.  A value is pounds, and a likeness a share in percent.
ASSUME PlanningAssumption ==
  /\ \A r \in Requests :
       r.level \in Nat /\ r.threshold \in Nat /\ r.maxRisk \in {"low", "medium", "high"}
  /\ \A o \in Opportunities : o.value \in Nat
  /\ \A likeness \in Likenesses : likeness.percent \in Nat

------------------------------------------------------------------------------
(* The capability mesh.                                                    *)

Capability(health, maturity, rate, actions) ==
  [health |-> health, maturity |-> maturity, rate |-> rate, actions |-> actions]

CapabilityIds ==
  << "toleron", "salesonic", "listeningpost", "sourcingai", "buyonic",
     "grothos", "sixonic", "strata-metamsp", "onward", "jojo" >>

GrowthCapabilities ==
  [ c \in {"toleron", "salesonic", "listeningpost", "sourcingai"} |->
      CASE c = "toleron" -> Capability("unknown", "mock", 90,
           <<"analyse-company", "analyse-market", "analyse-competitors", "assess-technology">>)
        [] c = "salesonic" -> Capability("unknown", "mock", 82,
           << "define-icp", "identify-targets", "enrich-contacts", "generate-outreach",
              "execute-outreach", "qualify-leads", "book-meetings", "reactivate-dormant" >>)
        [] c = "listeningpost" -> Capability("unavailable", "mock", 88,
           <<"monitor-signals", "detect-triggers">>)
        [] OTHER -> Capability("unknown", "mock", 85,
           <<"find-alternatives", "benchmark-pricing", "run-sourcing-event">>) ]

DeliveryCapabilities ==
  [ c \in {"buyonic", "grothos", "sixonic", "strata-metamsp", "onward", "jojo"} |->
      CASE c = "buyonic" -> Capability("unknown", "mock", 86,
           <<"analyse-spend", "detect-duplication", "renewal-calendar", "negotiate-renewal">>)
        [] c = "grothos" -> Capability("unknown", "mock", 80,
           <<"proposition-review", "pricing-review", "productise-service">>)
        [] c = "sixonic" -> Capability("unknown", "mock", 78,
           <<"map-process", "automate-process">>)
        [] c = "strata-metamsp" -> Capability("unknown", "mock", 91,
           <<"design-service", "build-proposal", "prepare-review", "start-delivery">>)
        [] c = "onward" -> Capability("unavailable", "mock", 95,
           <<"sync-estate", "sync-tickets">>)
        [] OTHER -> Capability("healthy", "beta", 93,
           <<"plan-objective", "next-best-action">>) ]

Mesh ==
  [ c \in DOMAIN GrowthCapabilities \cup DOMAIN DeliveryCapabilities |->
      IF c \in DOMAIN GrowthCapabilities THEN GrowthCapabilities[c] ELSE DeliveryCapabilities[c] ]

External ==
  { "execute-outreach", "book-meetings", "reactivate-dormant", "run-sourcing-event",
    "negotiate-renewal", "automate-process", "start-delivery" }

ActionRisk(a) ==
  CASE a \in {"execute-outreach", "run-sourcing-event", "negotiate-renewal", "start-delivery"} -> "high"
    [] a \in {"enrich-contacts", "book-meetings", "reactivate-dormant", "automate-process"} -> "medium"
    [] OTHER -> "low"

UnitCost(a) ==
  CASE a = "execute-outreach" -> 250      [] a = "reactivate-dormant" -> 200
    [] a = "run-sourcing-event" -> 800    [] a = "negotiate-renewal" -> 1200
    [] a = "automate-process" -> 1500     [] a = "start-delivery" -> 2000
    [] a \in {"build-proposal", "prepare-review"} -> 300
    [] OTHER -> 50

\* An action that reaches outside is never invoked without an approval id.
RequiredInputs(a) == {"companyId"} \cup IF a \in External THEN {"approvalId"} ELSE {}

\* Of some capabilities the one listed first.
First(capabilities) ==
  CapabilityIds[Min({i \in DOMAIN CapabilityIds : CapabilityIds[i] \in capabilities})]

\* The first capability listed that has the action.
Owner(a) == First({c \in DOMAIN Mesh : a \in Range(Mesh[c].actions)})

\* A capability's adapter performs its own actions, given what they require.
AdapterPerforms(capability, a, inputs) ==
  a \in Range(Mesh[capability].actions) /\ RequiredInputs(a) \subseteq inputs

------------------------------------------------------------------------------
(* The router.  Of the best candidates that of the capability listed first *)
(* wins.                                                                   *)

Offers ==
  UNION {{[capability |-> c, action |-> a] : a \in Range(Mesh[c].actions)} : c \in DOMAIN Mesh}

HealthScore(health) ==
  CASE health = "healthy" -> 100 [] health = "unknown" -> 60 [] health = "degraded" -> 35 [] OTHER -> 0

MaturityScore(maturity) ==
  CASE maturity = "production" -> 100 [] maturity = "beta" -> 75 [] maturity = "mock" -> 40 [] OTHER -> 5

RiskScore(risk) == CASE risk = "low" -> 100 [] risk = "medium" -> 60 [] OTHER -> 25

Disproportionate(cost, value) == value > 0 /\ cost >= 100 * value

\* Eight points, less twenty times the share of the value an action costs.
Proportionality(cost, value) ==
  IF value = 0 THEN 4000
  ELSE LET lost == (1600 * cost) \div value IN IF lost > 8000 THEN 0 ELSE 8000 - lost

\* How well an offer fits a task: by its action, or by the words of its text.
Fitness(offer, wanted, likeness) ==
  IF offer.action = wanted THEN 100
  ELSE IF likeness.offer = offer THEN likeness.percent ELSE 0

Blocked(offer, value, inputs) ==
  \/ Mesh[offer.capability].health = "unavailable"
  \/ ~ RequiredInputs(offer.action) \subseteq inputs
  \/ Disproportionate(UnitCost(offer.action), value)

Total(offer, fitness, value, inputs) ==
  LET c == Mesh[offer.capability]
      needs == RequiredInputs(offer.action)
      raw == 350 * fitness + 150 * HealthScore(c.health)
             + (15000 * Cardinality(needs \cap inputs)) \div Cardinality(needs)
             + 120 * c.rate + 80 * MaturityScore(c.maturity)
             + Proportionality(UnitCost(offer.action), value)
             + 2000 + 30 * RiskScore(ActionRisk(offer.action))
      total == IF Blocked(offer, value, inputs) THEN raw \div 4 ELSE raw
  IN  (total + 50) \div 100

Best(offers, score) == {offer \in offers : \A other \in offers : score[other] <= score[offer]}

\* The recommended capability, or the fallback when every candidate is blocked.
Route(wanted, likeness, value, inputs) ==
  LET candidates == {offer \in Offers : Fitness(offer, wanted, likeness) >= 34}
      viable == {offer \in candidates : ~ Blocked(offer, value, inputs)}
      score == [offer \in candidates |-> Total(offer, Fitness(offer, wanted, likeness), value, inputs)]
  IN  First({offer.capability : offer \in Best(IF viable # {} THEN viable ELSE candidates, score)})

------------------------------------------------------------------------------
(* The playbooks: the actions of their tasks, which of them are gated, and *)
(* their eligibility rules.                                                *)

Playbook(confidence, value, system, actions, gated) ==
  [confidence |-> confidence, value |-> value, system |-> system, actions |-> actions, gated |-> gated]

MakeMorePlaybooks ==
  [ p \in {"dormant-customer-reactivation", "pipeline-generation", "cross-sell",
           "pricing-review", "proposition-review", "new-market-entry"} |->
      CASE p = "dormant-customer-reactivation" -> Playbook(40, 5000, None,
           << "identify-targets", "enrich-contacts", "define-icp", "generate-outreach",
              "reactivate-dormant", "qualify-leads", "book-meetings", "monitor-signals" >>, {4, 5, 7})
        [] p = "pipeline-generation" -> Playbook(40, 10000, None,
           << "define-icp", "identify-targets", "enrich-contacts", "detect-triggers",
              "analyse-company", "generate-outreach", "execute-outreach", "qualify-leads",
              "book-meetings", "monitor-signals" >>, {6, 7, 9})
        [] p = "cross-sell" -> Playbook(40, 5000, None,
           << "analyse-company", "define-icp", "productise-service", "generate-outreach",
              "execute-outreach" >>, {4, 5})
        [] p = "pricing-review" -> Playbook(40, 5000, None,
           <<"pricing-review", "pricing-review", "build-proposal", "start-delivery">>, {3, 4})
        [] p = "proposition-review" -> Playbook(30, 0, None,
           <<"proposition-review", "proposition-review">>, {2})
        [] OTHER -> Playbook(35, 15000, None,
           <<"analyse-market", "analyse-competitors", "proposition-review", "execute-outreach">>, {3, 4}) ]

LicencePlaybooks ==
  [ p \in {"microsoft-licence-optimisation", "saas-rationalisation",
           "cloud-cost-optimisation"} |->
      CASE p = "microsoft-licence-optimisation" -> Playbook(35, 1000, None,
           << "analyse-spend", "detect-duplication", "benchmark-pricing", "build-proposal",
              "negotiate-renewal" >>, {4, 5})
        [] p = "saas-rationalisation" -> Playbook(35, 1500, None,
           << "analyse-spend", "detect-duplication", "benchmark-pricing", "build-proposal",
              "negotiate-renewal" >>, {4, 5})
        [] OTHER -> Playbook(35, 1500, "azure",
           << "analyse-spend", "detect-duplication", "benchmark-pricing", "build-proposal",
              "automate-process" >>, {4, 5}) ]

SupplierPlaybooks ==
  [ p \in {"supplier-consolidation", "contract-renewal", "procurement-event",
           "process-automation"} |->
      CASE p = "supplier-consolidation" -> Playbook(35, 4000, None,
           << "analyse-spend", "find-alternatives", "build-proposal", "run-sourcing-event",
              "negotiate-renewal" >>, {3, 4, 5})
        [] p = "contract-renewal" -> Playbook(35, 2000, None,
           <<"analyse-spend", "benchmark-pricing", "build-proposal", "negotiate-renewal">>, {3, 4})
        [] p = "procurement-event" -> Playbook(40, 10000, None,
           <<"analyse-spend", "find-alternatives", "run-sourcing-event", "negotiate-renewal">>, {3, 4})
        [] OTHER -> Playbook(35, 5000, None,
           <<"map-process", "map-process", "automate-process", "monitor-signals">>, {3}) ]

MspPlaybooks ==
  [ p \in {"cyber-uplift", "msp-account-expansion", "customer-business-review"} |->
      CASE p = "cyber-uplift" -> Playbook(35, 0, None,
           <<"analyse-company", "design-service", "build-proposal", "start-delivery">>, {3, 4})
        [] p = "msp-account-expansion" -> Playbook(35, 1000, None,
           << "analyse-company", "design-service", "benchmark-pricing", "build-proposal",
              "prepare-review", "start-delivery" >>, {4, 6})
        [] OTHER -> Playbook(30, 0, None,
           <<"analyse-company", "design-service", "prepare-review">>, {3}) ]

Playbooks ==
  [ p \in DOMAIN MakeMorePlaybooks \cup DOMAIN LicencePlaybooks
             \cup DOMAIN SupplierPlaybooks \cup DOMAIN MspPlaybooks |->
      CASE p \in DOMAIN MakeMorePlaybooks -> MakeMorePlaybooks[p]
        [] p \in DOMAIN LicencePlaybooks -> LicencePlaybooks[p]
        [] p \in DOMAIN SupplierPlaybooks -> SupplierPlaybooks[p]
        [] OTHER -> MspPlaybooks[p] ]

------------------------------------------------------------------------------
(* Autonomy.  Grants are listed as they were first stored.                 *)

Order(risk) == CASE risk = "low" -> 0 [] risk = "medium" -> 1 [] OTHER -> 2

Covers(g, action, capability) ==
  g.action \in {None, action} /\ g.capability \in {None, capability}

Specificity(g) ==
  (IF g.action = None THEN 0 ELSE 2) + (IF g.capability = None THEN 0 ELSE 1)

\* Mutant: the first grant that applies decides.
DecidingFirst(granted, action, capability) ==
  Min({i \in DOMAIN granted : Covers(granted[i], action, capability)})

\* Of the grants that apply the narrowest decides, of several as narrow the
\* one that allows least, and of those the first.
Deciding(granted, action, capability) ==
  LET applicable == {i \in DOMAIN granted : Covers(granted[i], action, capability)}
      narrowest == {i \in applicable : \A k \in applicable :
                      Specificity(granted[k]) <= Specificity(granted[i])}
  IN  Min({i \in narrowest : \A k \in narrowest : granted[i].level <= granted[k].level})

Applies(granted, action, capability) ==
  \E i \in DOMAIN granted : Covers(granted[i], action, capability)

\* Levels: 0 observe, 1 recommend, 2 prepare, 3 execute, 4 autonomous.
\* Reaching outside takes level 3, as executing anything does.
Resolve(granted, action, capability, impact, risk) ==
  IF ~ Applies(granted, action, capability) THEN [level |-> 0, mayExecute |-> FALSE]
  ELSE LET g == granted[Deciding(granted, action, capability)]
           beyond == impact > g.threshold \/ Order(risk) > Order(g.maxRisk)
       IN  [ level |-> IF beyond /\ g.level > 2 THEN 2 ELSE g.level,
             mayExecute |-> ~ beyond /\ g.level >= 3 ]

------------------------------------------------------------------------------
(* A plan.                                                                 *)

MayStart(o) ==
  /\ o.status \in {"NOT_STARTED", "FAILED", "STOPPED"}
  /\ o.confidence >= 35
  /\ o.readiness >= 30

Eligible(o, playbook, systems) ==
  /\ o.confidence >= playbook.confidence
  /\ o.value >= playbook.value
  /\ playbook.system \in {None} \cup systems

Worth(cost, value) == value > 0 /\ cost <= 25 * value

PlannedInputs == {"companyId", "tenantId", "objective", "approvalId", "financialTarget"}

\* Mutant: autonomy stands in for the gate of a playbook.
GatedByAutonomy(playbook, i, external, mayExecute) ==
  IF external THEN ~ mayExecute ELSE i \in playbook.gated

\* A task waits for a person where its playbook has a gate, and where it
\* leaves the platform without the autonomy to.
Gated(playbook, i, external, mayExecute) ==
  i \in playbook.gated \/ (external /\ ~ mayExecute)

PlannedTask(o, playbook, i, likeness, granted) ==
  LET wanted == playbook.actions[i]
      capability == Route(wanted, likeness, o.value, PlannedInputs)
      external == wanted \in External
      decision == Resolve(granted, wanted, capability, IF external THEN o.value ELSE 0,
                          ActionRisk(wanted))
  IN  [ action |-> wanted, capability |-> capability,
        gated |-> Gated(playbook, i, external, decision.mayExecute) ]

\* What some tasks cost together.
Spent(costs) ==
  LET upTo[n \in 0..Len(costs)] == IF n = 0 THEN 0 ELSE upTo[n - 1] + costs[n]
  IN  upTo[Len(costs)]

Planned(o, playbook, likeness, granted) ==
  [i \in DOMAIN playbook.actions |-> PlannedTask(o, playbook, i, likeness, granted)]

\* Without a playbook that is registered there is nothing to do, and no authority
\* to do it but what the platform's own agent has.
PlanOf(o, likeness, granted, systems) ==
  IF o.playbook \notin DOMAIN Playbooks
  THEN [ likeness |-> likeness, tasks |-> << >>, status |-> "DRAFT",
         level |-> Resolve(granted, o.playbook, "jojo", o.value, o.risk).level ]
  ELSE LET playbook == Playbooks[o.playbook]
           tasks == Planned(o, playbook, likeness, granted)
           cost == Spent([i \in DOMAIN tasks |-> UnitCost(tasks[i].action)])
       IN  [ likeness |-> likeness, tasks |-> tasks,
             status |-> IF MayStart(o) /\ Eligible(o, playbook, systems) /\ Worth(cost, o.value)
                        THEN "AWAITING_AUTHORISATION" ELSE "DRAFT",
             level |-> Resolve(granted, o.playbook, tasks[1].capability, o.value, o.risk).level ]

\* The inputs a task is given: the plan's, and its own approval once it has one.
TaskInputs(task) ==
  {"companyId", "tenantId", "objective", "financialTarget"}
    \cup IF task.gated THEN {"approvalId"} ELSE {}

------------------------------------------------------------------------------
(* Administrators grant, anyone who acts may halt, and people plan.        *)

VARIABLES grants, plan, saves, halts,
          asked,      \* history: what was asked for each grant since the last halt
          rescoped    \* history: a grant was given another scope than it has

vars == <<grants, plan, saves, halts, asked, rescoped>>

NoPlan == [status |-> "NONE"]
NotAsked == [level |-> 0]

Seeded ==
  << [id |-> "default", action |-> None, capability |-> None, level |-> 1, threshold |-> 0, maxRisk |-> "low"],
     [id |-> "prepare-analysis", action |-> "analyse-company", capability |-> "toleron", level |-> 2,
      threshold |-> 5000, maxRisk |-> "low"] >>

Init ==
  /\ grants = Seeded /\ plan = NoPlan /\ saves = 0 /\ halts = 0
  /\ asked = [id \in GrantIds |-> NotAsked] /\ rescoped = FALSE

Stored(id) == {i \in DOMAIN grants : grants[i].id = id}

\* The upsert writes the level and its limits, and never the scope of a grant
\* that is there.
Upserted(list, g) ==
  IF \E i \in DOMAIN list : list[i].id = g.id
  THEN [i \in DOMAIN list |->
          IF list[i].id = g.id
          THEN [list[i] EXCEPT !.level = g.level, !.threshold = g.threshold, !.maxRisk = g.maxRisk]
          ELSE list[i]]
  ELSE Append(list, g)

\* What a request leaves out is taken from the grant there is.
Requested(id, r) ==
  LET existing == IF Stored(id) # {} THEN grants[Min(Stored(id))] ELSE [action |-> None, capability |-> None]
      of(field, was) == IF field = None THEN was ELSE field
  IN  [ id |-> id, action |-> of(r.action, existing.action), capability |-> of(r.capability, existing.capability),
        level |-> r.level, threshold |-> r.threshold, maxRisk |-> r.maxRisk ]

\* A plan never changes with the grants, and the last thing looked at (bound).
SaveGrant(id, r) ==
  LET g == Requested(id, r) IN
  /\ plan = NoPlan
  /\ saves < MaxSaves /\ saves' = saves + 1
  /\ grants' = Upserted(grants, g)
  /\ asked' = [asked EXCEPT ![id] = g]
  /\ rescoped' = (rescoped \/ \E i \in Stored(id) :
                    <<grants[i].action, grants[i].capability>> # <<g.action, g.capability>>)
  /\ UNCHANGED <<plan, halts>>

\* Each grant is saved again as it is, at level 0.
Halted(list) == [i \in DOMAIN list |-> [list[i] EXCEPT !.level = 0]]

HaltTenant ==
  /\ plan = NoPlan
  /\ halts < MaxHalts /\ halts' = halts + 1
  /\ grants' = Halted(grants)
  /\ asked' = [id \in GrantIds |-> NotAsked]
  /\ UNCHANGED <<plan, saves, rescoped>>

PlanExecution(o, likeness, systems) ==
  /\ plan = NoPlan
  /\ plan' = PlanOf(o, likeness, grants, systems)
  /\ UNCHANGED <<grants, saves, halts, asked, rescoped>>

Next ==
  \/ \E id \in GrantIds, r \in Requests : SaveGrant(id, r)
  \/ HaltTenant
  \/ \E o \in Opportunities, likeness \in Likenesses, systems \in SUBSET {"azure"} :
       PlanExecution(o, likeness, systems)

Spec == Init /\ [][Next]_vars

------------------------------------------------------------------------------
(* Properties.                                                             *)

Tasks == IF plan = NoPlan THEN {} ELSE Range(plan.tasks)

\* What may be executed was asked for since the last halt, in that scope and
\* within those limits, and no narrower grant withholds it.
OnlyAsAsked(action, c, impact, risk) ==
  Resolve(grants, action, c, impact, risk).mayExecute =>
    /\ \E id \in GrantIds :
         /\ asked[id] # NotAsked /\ Covers(asked[id], action, c) /\ asked[id].level >= 3
         /\ impact <= asked[id].threshold /\ Order(risk) <= Order(asked[id].maxRisk)
    /\ \A id \in GrantIds :
         asked[id] # NotAsked /\ asked[id].action = action /\ asked[id].capability = c
           => asked[id].level >= 3

\* Nothing executes on the platform's own authority but what an administrator
\* asked for since the last halt -- unless a grant was given another scope than
\* it has, which the upsert does not store (autonomy.ts:4, 108-120).
AuthorityAsGranted ==
  ~ rescoped =>
    \A action \in Range(Playbooks["contract-renewal"].actions), c \in {"buyonic", "jojo"},
       impact \in {0, 5000, 50000}, risk \in {"low", "high"} :
      OnlyAsAsked(action, c, impact, risk)

\* Whatever autonomy is granted, a task that leaves the platform waits for a
\* person, since without the approval it then carries its adapter refuses it
\* (registry.ts:25-28, engine.ts:137-142): the gates of the playbooks agree
\* with the catalogue of actions.
ReadyWhenApproved ==
  \A t \in Tasks : RequiredInputs(t.action) \subseteq TaskInputs(t)

\* Each task of a plan that may be authorised is given to a capability that
\* performs it, though words of its objective match another's text -- unless
\* they match two fifths of it, or the capability that has the action is down
\* (router.ts:83-151).
GivenToTheAble ==
  plan # NoPlan /\ plan.status = "AWAITING_AUTHORISATION" =>
    \A t \in Tasks :
      \/ AdapterPerforms(t.capability, t.action, PlannedInputs)
      \/ plan.likeness.percent >= 40
      \/ Mesh[Owner(t.action)].health = "unavailable"


\* A task of a plan that may be authorised can be carried out once a person
\* has approved what is gated: nothing its adapter requires is missing, and it
\* is given to a capability that performs it.
TasksCanBeDone == ReadyWhenApproved /\ GivenToTheAble
=============================================================================
