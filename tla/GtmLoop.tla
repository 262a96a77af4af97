------------------------------ MODULE GtmLoop ------------------------------
(***************************************************************************)
(* The go-to-market loop (gtm/loop.ts): research an account, score it,     *)
(* form hypotheses, draft messages, open deals, let the autopilot work     *)
(* through the open deals, bring the CRM up to date.  Nothing keeps two    *)
(* passes apart, so `Runs` of them may be under way: each is a process     *)
(* whose steps are the stretches of code between two awaits.               *)
(*                                                                         *)
(* A deal belongs to a hypothesis, a hypothesis to an account and an       *)
(* archetype: its key is <<account, archetype>>.  Time is a day number.    *)
(***************************************************************************)
EXTENDS CrmSync, SequencesExt
Icp == INSTANCE IcpScoring

CONSTANTS
  Accounts,   \* the companies of the universe
  Findings,   \* what research may find: records of IcpScoring
  Edits,      \* what a person may change of a deal: functions of its fields
  Jumps,      \* how many days may go by at once
  MaxTicks,   \* bound: how often time passes
  MaxMoves,   \* bound: what people do
  MaxFaults   \* bound: refused or lost calls, failed research, restarts

(* The clock does not go back. *)
ASSUME GtmAssumption == Jumps \subseteq Nat

VARIABLES
  accounts,   \* [Accounts -> [status, research, suppressed, scored] | None]
  twins,      \* [Accounts -> Findings | None]: the company as last analysed
  contacts,   \* [Accounts -> {"none", "roles", "person"}]
  stopped,    \* the accounts whose domain is on the suppression list
  hypotheses, \* [Accounts -> [archetypes held -> hypothesis]]
  deals,      \* [keys held -> deal]
  messages,   \* [<<key, step>> held -> [status, day]]
  meetings,   \* set of [deal, day, status]
  decisions,  \* open decisions: <<key, trigger>>
  fired,      \* [<<key, rule, day>> held -> how often]: the autopilot's log
  outcomes,   \* <<key, outcome>> recorded for the learning loop
  day, run,   \* today; [Runs -> where a pass is]
  overlapped, \* TRUE once two passes ran at the same time (history)
  ticks, moves, faults

storeVars == <<accounts, twins, contacts, stopped, hypotheses, deals, messages, meetings, decisions, fired, outcomes>>
gtmVars == <<crmVars, storeVars, day, run, overlapped, ticks, moves, faults>>

Never == -1
Keys == Accounts \X {"microsoft-cloud", "cyber-security", "infrastructure", "ai-readiness", "ai-implementation",
                     "augmentation", "transformation", "managed-it", "project", "public-sector",
                     "change-event", "rapid-growth", "migration", "cost", "consolidation"}

(* Where a pass is that is not under way.  `listed` are the deals before the  *)
(* autopilot; `deal` is the one at hand, <<key, deal>>, which waits for the    *)
(* answer to `task` and then has `rules` before it.                           *)
Off == [ at |-> "off", alone |-> FALSE, todo |-> <<>>, now |-> 0, seen |-> {}, due |-> {},
         listed |-> << >>, deal |-> None, task |-> None, rules |-> {} ]

(***************************************************************************)
(* Scores and hypotheses of what was found, worked out once per finding.   *)
(***************************************************************************)
ScoresOf == [f \in Findings, n \in 0 .. 1 |-> Icp!ScoreAccount(f, n)] @@ << >>
HypothesesOf == [f \in Findings, n \in 0 .. 1, s \in BOOLEAN |-> Icp!GenerateHypotheses(f, ScoresOf[f, n], s)] @@ << >>

MinUnderstanding == 10

(* Only people who can be reached count: a role written down is no contact. *)
Reachable(a) == IF contacts[a] = "person" THEN 1 ELSE 0

(***************************************************************************)
(* Deals.                                                                  *)
(***************************************************************************)
Probability(stage) ==
  CASE stage = "identified" -> 2 [] stage \in {"contacted", "stalled"} -> 5 [] stage = "responded" -> 12
    [] stage = "meeting-booked" -> 20 [] stage = "qualified" -> 35 [] stage = "proposal" -> 55
    [] stage = "won" -> 100 [] stage = "lost" -> 0

OpenStage(stage) == stage \notin {"won", "lost"}

(* The open deals, of which the heaviest of the forecast come first.         *)
OpenDeals(ds) == [k \in {j \in DOMAIN ds : OpenStage(ds[j].stage)} |-> ds[k]]

Weight(d) == d.value * Probability(d.stage)
Heaviest(ds) == {k \in DOMAIN ds : \A j \in DOMAIN ds : Weight(ds[j]) <= Weight(ds[k])}

(* Opening a deal that exists keeps its stage, owner, dates and last act. *)
OpenedDeal(ds, k, hypothesis, today) ==
  [ IF k \in DOMAIN ds THEN ds[k]
    ELSE [ stage |-> "identified", value |-> 0, owner |-> FALSE, next |-> TRUE, nextAt |-> Never,
           last |-> today, close |-> Never, updated |-> today ]
    EXCEPT !.value = hypothesis.value, !.updated = today, !.next = TRUE ]

(***************************************************************************)
(* Messages: drafted only for a person who may be written to.              *)
(***************************************************************************)
Contactable(a, account, hypothesis) ==
  /\ ~account.suppressed /\ a \notin stopped
  /\ Icp!Workable(hypothesis)
  /\ contacts[a] = "person"

(* Saving a message for the same step writes over the one that is there. *)
Drafted(ms, k, step) == (<<k, step>> :> [status |-> "draft", day |-> Never]) @@ ms

SentTo(a) == {m \in DOMAIN messages : m[1][1] = a /\ messages[m].status = "sent"}

(***************************************************************************)
(* The autopilot's rules, in their order.                                  *)
(***************************************************************************)
RuleOrder ==
  << "no-next-action", "next-action-overdue", "contacted-no-response", "response-not-progressed",
     "meeting-booked-not-held", "meeting-held-not-qualified", "qualified-no-proposal", "proposal-ageing",
     "dormant", "close-date-passed", "high-value-needs-owner" >>

Precedes(rule, other) ==
  \E i, j \in DOMAIN RuleOrder : i < j /\ RuleOrder[i] = rule /\ RuleOrder[j] = other

(* Rules that hand the matter to a person, through a task in the CRM. *)
TaskRules == { "response-not-progressed", "meeting-booked-not-held", "meeting-held-not-qualified",
               "qualified-no-proposal", "proposal-ageing", "high-value-needs-owner" }

Working == {"identified", "contacted", "responded", "meeting-booked", "qualified", "proposal"}

RuleStages(rule) ==
  CASE rule = "contacted-no-response" -> {"contacted"} [] rule = "response-not-progressed" -> {"responded"}
    [] rule \in {"meeting-booked-not-held", "meeting-held-not-qualified"} -> {"meeting-booked"}
    [] rule = "qualified-no-proposal" -> {"qualified"} [] rule = "proposal-ageing" -> {"proposal"}
    [] rule \in {"close-date-passed", "high-value-needs-owner"} -> {"qualified", "proposal"}
    [] OTHER -> Working

AfterDays(rule) ==
  CASE rule = "contacted-no-response" -> 14 [] rule = "response-not-progressed" -> 7
    [] rule = "meeting-held-not-qualified" -> 5 [] rule = "qualified-no-proposal" -> 21
    [] rule = "proposal-ageing" -> 30 [] rule = "dormant" -> 90 [] OTHER -> 0

(* The last thing that happened to a deal, by any channel. *)
LastTouch(k, d) ==
  Max({d.last, d.updated} \union {messages[m].day : m \in SentTo(k[1])}
                          \union {m.day : m \in {n \in meetings : n.deal = k}})

Fires(rule, k, d, now) ==
  LET idle == now - LastTouch(k, d)
      held == {m.day : m \in {n \in meetings : n.deal = k /\ n.status = "held"}}
  IN CASE rule = "no-next-action" -> ~d.next
       [] rule = "next-action-overdue" -> d.nextAt # Never /\ d.nextAt < now /\ d.last < d.nextAt
       [] rule = "meeting-booked-not-held" -> \E m \in meetings : m.deal = k /\ m.status = "booked" /\ m.day < now
       [] rule = "meeting-held-not-qualified" -> held # {} /\ now - Max(held) >= AfterDays(rule)
       [] rule = "close-date-passed" -> d.close # Never /\ d.close < now
       [] rule = "high-value-needs-owner" -> ~d.owner /\ d.value >= Icp!HighValue
       [] OTHER -> idle >= AfterDays(rule)

(* A deal that went silent is moved, not chased. *)
EvaluateRules(k, d, now) ==
  LET on == {rule \in ToSet(RuleOrder) : d.stage \in RuleStages(rule) /\ Fires(rule, k, d, now)}
  IN IF ~OpenStage(d.stage) THEN {}
     ELSE IF "dormant" \in on THEN on \intersect {"dormant", "no-next-action", "close-date-passed"}
     ELSE on

NextActionIn(stage) ==
  CASE stage = "identified" -> 2 [] stage = "contacted" -> 14 [] stage = "responded" -> 1
    [] stage = "meeting-booked" -> 3 [] stage \in {"qualified", "proposal"} -> 7 [] OTHER -> 14

(* The log once these rules have acted on a deal. *)
Logged(k, acted) ==
  LET added == {<<k, rule, day>> : rule \in acted}
  IN [ x \in DOMAIN fired \union added |->
         IF x \notin DOMAIN fired THEN 1 ELSE IF x \in added THEN fired[x] + 1 ELSE fired[x] ]

\* Mutant: what was done this very day is taken to be of another day.
FiredSinceLater(now) == {<<entry[1], entry[2]>> : entry \in {x \in DOMAIN fired : x[3] > now}}

(* What the log says was done since the morning of the pass's own day. *)
FiredSince(now) == {<<entry[1], entry[2]>> : entry \in {x \in DOMAIN fired : x[3] >= now}}

(* What a rule that needs no person does to <<deal, saved, messages>>. *)
ByRule(k, now, w, rule) ==
  LET saved(d) == [w EXCEPT !.deal = [d EXCEPT !.updated = now], !.saved = TRUE]
      account == accounts[k[1]]
      step == Min({Cardinality(SentTo(k[1])) + 1, 3})
  IN CASE rule \in {"no-next-action", "next-action-overdue"} ->
            saved([w.deal EXCEPT !.next = TRUE, !.nextAt = now + NextActionIn(w.deal.stage)])
       [] rule = "contacted-no-response" ->
            [w EXCEPT !.messages = IF Contactable(k[1], account, hypotheses[k[1]][k[2]]) THEN Drafted(@, k, step) ELSE @]
       [] rule = "dormant" -> saved([w.deal EXCEPT !.stage = "stalled"])
       [] rule = "close-date-passed" -> saved([w.deal EXCEPT !.close = now + 30])

(***************************************************************************)
(* What is sent to the CRM, and of which records it is kept there.         *)
(***************************************************************************)
CompanyContent(account) ==
  [ status |-> account.status,
    score |-> ScoresOf[account.scored[1], account.scored[2]].priority \div 100,
    archetype |-> LET m == ScoresOf[account.scored[1], account.scored[2]].matches IN IF m = <<>> THEN "none" ELSE m[1] ]

DealContent(d) ==
  [stage |-> d.stage, value |-> d.value, close |-> d.close, owner |-> d.owner, next |-> d.next, nextAt |-> d.nextAt]

TaskContent(d, now) == [due |-> now + 1, stage |-> d.stage, value |-> d.value, owner |-> d.owner]

(* An account the engine is still thinking about is no commercial record. *)
Commercial(account) == account # None /\ account.status \notin {"candidate", "rejected"}

(***************************************************************************)
(* A pass begins: the accounts waiting for research, the queued writes due. *)
(***************************************************************************)
UnderWay == {r \in Runs : run[r].at # "off"}

BeginPass(r, at, todo, listed) ==
  /\ run[r].at = "off"
  /\ run' = [run EXCEPT ![r] = [Off EXCEPT !.at = at, !.alone = at = "pilot", !.todo = todo, !.listed = listed,
                                           !.now = day, !.seen = FiredSince(day), !.due = {e \in Records : outbox[e] = "due"}]]
  /\ overlapped' = (overlapped \/ UnderWay # {})
  /\ UNCHANGED <<crmVars, storeVars, day, ticks, moves, faults>>

Start(r) ==
  BeginPass(r, "research", SetToSeq({a \in Accounts : accounts[a] # None /\ accounts[a].research = "unresearched"}), << >>)

(* The autopilot is a pass of its own when it is run by the hour. *)
StartAutopilot(r) == deals # << >> /\ BeginPass(r, "pilot", <<>>, OpenDeals(deals))

At(r, place) == run[r].at = place /\ ~Calling(r)

(* The analysis of an account ends: with a twin, however thin, or not at all. *)
Research(r, f) ==
  /\ At(r, "research") /\ run[r].todo # <<>>
  /\ LET a == Head(run[r].todo) IN
       /\ accounts' = [accounts EXCEPT ![a].research = IF f.understanding >= MinUnderstanding THEN "researched" ELSE "failed"]
       /\ twins' = [twins EXCEPT ![a] = f]
  /\ run' = [run EXCEPT ![r].todo = Tail(@)]
  /\ UNCHANGED <<crmVars, contacts, stopped, hypotheses, deals, messages, meetings, decisions, fired, outcomes,
                 day, overlapped, ticks, moves, faults>>

ResearchFails(r) ==
  /\ At(r, "research") /\ run[r].todo # <<>> /\ faults < MaxFaults
  /\ accounts' = [accounts EXCEPT ![Head(run[r].todo)].research = "failed"]
  /\ run' = [run EXCEPT ![r].todo = Tail(@)]
  /\ faults' = faults + 1
  /\ UNCHANGED <<crmVars, twins, contacts, stopped, hypotheses, deals, messages, meetings, decisions, fired, outcomes,
                 day, overlapped, ticks, moves>>

(***************************************************************************)
(* Stages 3 to 9 of the loop run without an await: scores, hypotheses,     *)
(* buyers, messages and deals are one step.                                *)
(***************************************************************************)
Scored(a) ==
  LET f == twins[a]
      known == f.understanding >= MinUnderstanding
      priority == ScoresOf[f, Reachable(a)].priority
  IN [ accounts[a] EXCEPT !.scored = <<f, Reachable(a)>>,
                          !.research = IF known THEN "researched" ELSE "failed",
                          !.status = IF known /\ priority >= 5000 THEN "qualified-target" ELSE @ ]

ScoredAccounts == [a \in Accounts |-> IF accounts[a] # None /\ twins[a] # None THEN Scored(a) ELSE accounts[a]]

(* Hypotheses are formed anew; those of archetypes no longer met stay. *)
FormedHypotheses(scored) ==
  [ a \in Accounts |->
      IF scored[a] # None /\ scored[a].research = "researched"
      THEN HypothesesOf[twins[a], Reachable(a), scored[a].suppressed] @@ hypotheses[a] ELSE hypotheses[a] ]

WorkableKeys(formed) == {k \in Keys : k[2] \in DOMAIN formed[k[1]] /\ Icp!Workable(formed[k[1]][k[2]])}

(* One deal for each account and service: that of the surest hypothesis. *)
BestPerService(formed) ==
  LET h(k) == formed[k[1]][k[2]]
      rival(k, j) == j[1] = k[1] /\ h(j).service = h(k).service
      ahead(j, k) == h(j).confidence > h(k).confidence
                       \/ (h(j).confidence = h(k).confidence /\ h(j).value > h(k).value)
  IN {k \in WorkableKeys(formed) : ~ \E j \in WorkableKeys(formed) : rival(k, j) /\ ahead(j, k)}

DraftedFirst(formed, scored) ==
  [ m \in {<<k, 1>> : k \in {j \in WorkableKeys(formed) : Contactable(j[1], scored[j[1]], formed[j[1]][j[2]])}}
      |-> [status |-> "draft", day |-> Never] ] @@ messages

OpenedDeals(formed) ==
  [k \in BestPerService(formed) |-> OpenedDeal(deals, k, formed[k[1]][k[2]], day)] @@ deals

Plan(r) ==
  /\ At(r, "research") /\ run[r].todo = <<>>
  /\ LET scored == ScoredAccounts
         formed == FormedHypotheses(scored)
         opened == OpenedDeals(formed)
     IN /\ accounts' = scored
        /\ hypotheses' = formed
        /\ contacts' = [a \in Accounts |-> IF contacts[a] = "none" /\ (\E k \in WorkableKeys(formed) : k[1] = a)
                                           THEN "roles" ELSE contacts[a]]
        /\ messages' = DraftedFirst(formed, scored)
        /\ deals' = opened
        /\ run' = [run EXCEPT ![r].at = "pilot", ![r].seen = FiredSince(run[r].now),
                              ![r].listed = OpenDeals(opened)]
  /\ UNCHANGED <<crmVars, twins, stopped, meetings, decisions, fired, outcomes, day, overlapped, ticks, moves, faults>>

(***************************************************************************)
(* The autopilot takes the deals as it listed them.  Up to the next task   *)
(* for a person its rules run without an await; the task is written to the *)
(* CRM, and logged as done when the answer is there.                       *)
(***************************************************************************)
WorkOn(r, k, d, rules, answered, listed) ==
  LET now == run[r].now
      tasks == rules \intersect TaskRules
      acting == {rule \in rules \ TaskRules : \A task \in tasks : Precedes(rule, task)}
      w == FoldLeft(LAMBDA x, rule : ByRule(k, now, x, rule), [deal |-> d, saved |-> FALSE, messages |-> messages],
                    SelectSeq(RuleOrder, LAMBDA rule : rule \in acting))
      trigger == Icp!NeedsEscalation(k[2], hypotheses[k[1]][k[2]])
  IN /\ fired' = Logged(k, answered \union acting)
     /\ messages' = w.messages
     /\ deals' = IF w.saved THEN (k :> w.deal) @@ deals ELSE deals
     /\ \/ \E task \in tasks :
             /\ \A other \in tasks \ {task} : Precedes(task, other)
             /\ Send(r, <<"task", <<k, task>>>>, TaskContent(w.deal, now))
             /\ run' = [run EXCEPT ![r].deal = <<k, w.deal>>, ![r].task = task,
                                   ![r].rules = rules \ (acting \union {task}), ![r].listed = listed]
             /\ decisions' = decisions
        \/ /\ tasks = {}
           /\ Send(r, <<"deal", k>>, DealContent(w.deal))
           /\ run' = [run EXCEPT ![r].deal = None, ![r].task = None, ![r].rules = {}, ![r].listed = listed]
           /\ decisions' = IF trigger = "none" THEN decisions ELSE decisions \union {<<k, trigger>>}
     /\ UNCHANGED <<accounts, twins, contacts, stopped, hypotheses, meetings, outcomes, day, overlapped, ticks, moves, faults>>

TakeDeal(r) ==
  /\ At(r, "pilot") /\ run[r].deal = None
  /\ LET p == run[r] IN
     \E k \in Heaviest(p.listed) :
       WorkOn(r, k, p.listed[k], {rule \in EvaluateRules(k, p.listed[k], p.now) : <<k, rule>> \notin p.seen},
              {}, [j \in DOMAIN p.listed \ {k} |-> p.listed[j]])

TaskAnswered(r) ==
  /\ At(r, "pilot") /\ run[r].deal # None
  /\ LET p == run[r] IN WorkOn(r, p.deal[1], p.deal[2], p.rules, {p.task}, p.listed)

(***************************************************************************)
(* Then the queued writes that were due, then everything that matters.     *)
(***************************************************************************)
Go(r, at, todo) == run' = [run EXCEPT ![r].at = at, ![r].todo = todo]

(* The autopilot alone ends with the queue. *)
Ends(r) ==
  /\ At(r, "drain") /\ run[r].todo = <<>> /\ run[r].alone
  /\ run' = [run EXCEPT ![r] = Off]
  /\ UNCHANGED <<crmVars, storeVars, day, overlapped, ticks, moves, faults>>

Drain(r) ==
  /\ At(r, "pilot") /\ run[r].deal = None /\ run[r].listed = << >>
  /\ Go(r, "drain", SetToSeq({e \in run[r].due : outbox[e] = "due" /\ e[1] \in {"company", "deal", "activity"}}))
  /\ UNCHANGED <<crmVars, storeVars, day, overlapped, ticks, moves, faults>>

(* The write of a record as it is now, when it is one to be kept in the CRM. *)
SendLive(r, e) ==
  CASE e[1] = "company" /\ Commercial(accounts[e[2]]) -> Send(r, e, CompanyContent(accounts[e[2]]))
    [] e[1] = "contact" /\ contacts[e[2]] = "person" -> Send(r, e, "person")
    [] e[1] = "deal" -> Send(r, e, DealContent(deals[e[2]]))
    [] e[1] = "activity" /\ messages[e[2]].status = "sent" -> Send(r, e, messages[e[2]].day)
    [] OTHER -> UNCHANGED crmVars

Onward(r, at) == At(r, at) /\ run[r].todo # <<>> /\ run' = [run EXCEPT ![r].todo = Tail(@)]

DrainOne(r) ==
  /\ Onward(r, "drain") /\ SendLive(r, Head(run[r].todo))
  /\ UNCHANGED <<storeVars, day, overlapped, ticks, moves, faults>>

Reconcile(r) ==
  /\ At(r, "drain") /\ run[r].todo = <<>> /\ ~run[r].alone
  /\ LET order == SetToSeq({a \in Accounts : Commercial(accounts[a])})
     IN Go(r, "accounts", FlattenSeq([i \in 1 .. Len(order) |-> << <<"company", order[i]>>, <<"contact", order[i]>> >>]))
  /\ UNCHANGED <<crmVars, storeVars, day, overlapped, ticks, moves, faults>>

ReconcileAccount(r) ==
  /\ Onward(r, "accounts") /\ SendLive(r, Head(run[r].todo))
  /\ UNCHANGED <<storeVars, day, overlapped, ticks, moves, faults>>

(* Deals and sent messages are written as they were when they were listed. *)
ListDeals(r) ==
  /\ At(r, "accounts") /\ run[r].todo = <<>>
  /\ Go(r, "deals", SetToSeq({<<k, deals[k]>> : k \in DOMAIN deals}))
  /\ UNCHANGED <<crmVars, storeVars, day, overlapped, ticks, moves, faults>>

ReconcileDeal(r) ==
  /\ Onward(r, "deals") /\ LET d == Head(run[r].todo) IN Send(r, <<"deal", d[1]>>, DealContent(d[2]))
  /\ UNCHANGED <<storeVars, day, overlapped, ticks, moves, faults>>

ListSent(r) ==
  /\ At(r, "deals") /\ run[r].todo = <<>>
  /\ Go(r, "sent", SetToSeq({<<m, messages[m].day>> : m \in {n \in DOMAIN messages : messages[n].status = "sent"}}))
  /\ UNCHANGED <<crmVars, storeVars, day, overlapped, ticks, moves, faults>>

ReconcileSent(r) ==
  /\ Onward(r, "sent") /\ LET m == Head(run[r].todo) IN Send(r, <<"activity", m[1]>>, m[2])
  /\ UNCHANGED <<storeVars, day, overlapped, ticks, moves, faults>>

(* The last stage: what became of the deals is kept for the learning loop. *)
OutcomeOf(stage) ==
  CASE stage \in {"won", "lost", "proposal", "qualified", "meeting-booked"} -> stage
    [] stage = "responded" -> "positive-response" [] stage = "stalled" -> "no-response" [] OTHER -> "none"

Harvested ==
  {<<k, OutcomeOf(deals[k].stage)>> : k \in {j \in DOMAIN deals : OutcomeOf(deals[j].stage) # "none"}}
    \union {<<k, "no-response">> : k \in {j \in Keys : j[2] \in DOMAIN hypotheses[j[1]] /\ hypotheses[j[1]][j[2]].quality = "rejected"}}

Learn(r) ==
  /\ At(r, "sent") /\ run[r].todo = <<>>
  /\ outcomes' = outcomes \union Harvested
  /\ run' = [run EXCEPT ![r] = Off]
  /\ UNCHANGED <<crmVars, accounts, twins, contacts, stopped, hypotheses, deals, messages, meetings, decisions, fired,
                 day, overlapped, ticks, moves, faults>>
(***************************************************************************)
(* What people and scripts do between and during passes.                   *)
(***************************************************************************)
(* One process serves everybody: others have their turn while no pass is    *)
(* under way or each waits for an analysis or for the CRM.                 *)
Yielded == \A r \in Runs : run[r].at = "off" \/ Calling(r) \/ (run[r].at = "research" /\ run[r].todo # <<>>)

Move == Yielded /\ moves < MaxMoves /\ moves' = moves + 1 /\ UNCHANGED <<crmVars, day, run, overlapped, ticks, faults>>

Candidate == [status |-> "candidate", research |-> "unresearched", suppressed |-> FALSE, scored |-> None]

(* A company is brought in.  One that is not to be contacted is marked so.  *)
Intake(a) ==
  /\ Move
  /\ LET entered == IF accounts[a] # None THEN accounts[a]
                    ELSE Candidate
     IN accounts' = [accounts EXCEPT ![a] = IF a \in stopped THEN [entered EXCEPT !.suppressed = TRUE, !.status = "rejected"]
                                            ELSE entered]
  /\ UNCHANGED <<twins, contacts, stopped, hypotheses, deals, messages, meetings, decisions, fired, outcomes>>

AddPerson(a) ==
  /\ Move
  /\ contacts' = [contacts EXCEPT ![a] = "person"]
  /\ UNCHANGED <<accounts, twins, stopped, hypotheses, deals, messages, meetings, decisions, fired, outcomes>>

Suppress(a) ==
  /\ Move
  /\ stopped' = stopped \union {a}
  /\ UNCHANGED <<accounts, twins, contacts, hypotheses, deals, messages, meetings, decisions, fired, outcomes>>

(* Somebody looks at the company again, and finds something else. *)
Reanalysed(a, f) ==
  /\ Move /\ twins[a] # None
  /\ twins' = [twins EXCEPT ![a] = f]
  /\ UNCHANGED <<accounts, contacts, stopped, hypotheses, deals, messages, meetings, decisions, fired, outcomes>>

Approve(m) ==
  /\ Move
  /\ messages' = [messages EXCEPT ![m] = [status |-> "approved", day |-> Never]]
  /\ UNCHANGED <<accounts, twins, contacts, stopped, hypotheses, deals, meetings, decisions, fired, outcomes>>

(* Only an approved message goes out. *)
SendMessage(m) ==
  /\ Move /\ messages[m].status = "approved"
  /\ messages' = [messages EXCEPT ![m] = [status |-> "sent", day |-> day]]
  /\ UNCHANGED <<accounts, twins, contacts, stopped, hypotheses, deals, meetings, decisions, fired, outcomes>>

EditDeal(k, e) ==
  /\ Move
  /\ deals' = [deals EXCEPT ![k] = [e @@ @ EXCEPT !.last = day, !.updated = day]]
  /\ UNCHANGED <<accounts, twins, contacts, stopped, hypotheses, messages, meetings, decisions, fired, outcomes>>

RecordMeeting(k, status) ==
  /\ Move
  /\ meetings' = meetings \union {[deal |-> k, day |-> day, status |-> status]}
  /\ UNCHANGED <<accounts, twins, contacts, stopped, hypotheses, deals, messages, decisions, fired, outcomes>>

ResolveDecision(d) ==
  /\ Move
  /\ decisions' = decisions \ {d}
  /\ UNCHANGED <<accounts, twins, contacts, stopped, hypotheses, deals, messages, meetings, fired, outcomes>>

(***************************************************************************)
(* The CRM, the clock, and what goes wrong.                                *)
(***************************************************************************)
StoreStays == UNCHANGED <<storeVars, day, run, overlapped, ticks, moves>>
Fault == faults < MaxFaults /\ faults' = faults + 1

Landed(r) == Land(r) /\ StoreStays /\ UNCHANGED faults
Answered(r) == Answer(r) /\ StoreStays /\ UNCHANGED faults
Queued(e) == Due(e) /\ StoreStays /\ UNCHANGED faults
AnswerLost(r) == LandHalf(r) /\ StoreStays /\ Fault
CallFails(r, how) == FailCall(r, how) /\ StoreStays /\ Fault

Tick(days) ==
  /\ Yielded /\ ticks < MaxTicks /\ ticks' = ticks + 1
  /\ day' = day + days
  /\ UNCHANGED <<crmVars, storeVars, run, overlapped, moves, faults>>

(* The process dies: what is written stays, the passes are gone. *)
Restart ==
  /\ UnderWay # {} /\ Yielded /\ Fault
  /\ CallsLost
  /\ run' = [r \in Runs |-> Off]
  /\ UNCHANGED <<storeVars, day, overlapped, ticks, moves>>

(* Nothing is known yet; or there is a candidate with a person to write to, *)
(* whom somebody made a company in the CRM by hand before.                  *)
Init ==
  /\ \/ /\ accounts = [a \in Accounts |-> None] /\ contacts = [a \in Accounts |-> "none"]
        /\ CrmInit([e \in Records |-> <<>>])
     \/ /\ accounts = [a \in Accounts |-> Candidate] /\ contacts = [a \in Accounts |-> "person"]
        /\ CrmInit([e \in Records |-> IF e[1] = "company" THEN <<None>> ELSE <<>>])
  /\ stopped = {}
  /\ twins = [a \in Accounts |-> None]
  /\ hypotheses = [a \in Accounts |-> << >>]
  /\ deals = << >> /\ messages = << >> /\ fired = << >>
  /\ meetings = {} /\ decisions = {} /\ outcomes = {}
  /\ day = 0 /\ run = [r \in Runs |-> Off] /\ overlapped = FALSE
  /\ ticks = 0 /\ moves = 0 /\ faults = 0

(* One more step of a pass that is under way. *)
Step(r) ==
  \/ \E f \in Findings : Research(r, f)
  \/ Plan(r) \/ TakeDeal(r) \/ TaskAnswered(r) \/ Drain(r) \/ DrainOne(r) \/ Ends(r)
  \/ Reconcile(r) \/ ReconcileAccount(r) \/ ListDeals(r) \/ ReconcileDeal(r) \/ ListSent(r) \/ ReconcileSent(r) \/ Learn(r)

People ==
  \/ \E a \in Accounts : Intake(a) \/ AddPerson(a) \/ Suppress(a) \/ (\E f \in Findings : Reanalysed(a, f))
  \/ \E m \in DOMAIN messages : Approve(m) \/ SendMessage(m)
  \/ \E k \in DOMAIN deals : (\E e \in Edits : EditDeal(k, e)) \/ (\E status \in {"booked", "held"} : RecordMeeting(k, status))
  \/ \E d \in decisions : ResolveDecision(d)

Next ==
  \/ \E r \in Runs : Start(r) \/ StartAutopilot(r) \/ Step(r) \/ ResearchFails(r)
  \/ \E r \in Runs : Landed(r) \/ Answered(r) \/ AnswerLost(r) \/ (\E how \in {"retry", "rejected"} : CallFails(r, how))
  \/ \E e \in Records : Queued(e)
  \/ \E days \in Jumps : Tick(days)
  \/ People \/ Restart

(* Every pass ends: its lists are finite and its calls come to an answer or *)
(* to an error.  Whenever no pass is under way, sooner or later the whole   *)
(* loop is run, and a queued write becomes due.                            *)
Spec ==
  /\ Init /\ [][Next]_gtmVars
  /\ \A r \in Runs : []<>(run[r].at = "off")
  /\ SF_gtmVars(\E r \in Runs : UnderWay = {} /\ Start(r))
  /\ WF_gtmVars(\E e \in Records : Queued(e))

(***************************************************************************)
(* Properties                                                              *)
(***************************************************************************)
(* What the CRM ought to hold of the engine's own records now.             *)
Meaningful ==
  [company |-> {a \in Accounts : Commercial(accounts[a])},
   contact |-> {a \in Accounts : Commercial(accounts[a]) /\ contacts[a] = "person"},
   deal |-> {k \in DOMAIN deals : deals[k].stage \in Mapped},
   activity |-> {m \in DOMAIN messages : messages[m].status = "sent"}]

InStep(holds(_, _)) ==
  /\ \A a \in Meaningful.company : holds(<<"company", a>>, CompanyContent(accounts[a]))
  /\ \A a \in Meaningful.contact : holds(<<"contact", a>>, "person")
  /\ \A k \in Meaningful.deal : holds(<<"deal", k>>, DealContent(deals[k]))
  /\ \A m \in Meaningful.activity : holds(<<"activity", m>>, messages[m].day)

(* Whatever was refused, lost or changed meanwhile, as long as passes run   *)
(* one after the other the CRM comes to confirm every company, person, deal *)
(* and sent message as the engine has it, and to show it where no answer    *)
(* was lost ("Durable", sync.ts:14).                                       *)
CrmCatchesUp ==
  <>[](overlapped \/ InStep(LAMBDA e, content : Confirmed(e, content) /\ (lost[e] = 0 => ShownNow(e, content))))

(* A deal, an activity or a task is made in the CRM once, and once more at   *)
(* most for each write whose answer never came back (writeOne, sync.ts:171). *)
OneRecordEach ==
  overlapped \/ \A e \in Records : e[1] \in {"deal", "activity", "task"} => Len(external[e]) <= 1 + lost[e]

(* However often the autopilot is run in a day, over restarts and rules that *)
(* wait for the CRM, a rule acts on a deal once (pipeline.ts:229).          *)
OncePerDay == overlapped \/ \A entry \in DOMAIN fired : fired[entry] = 1
=============================================================================
