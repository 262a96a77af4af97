---------------------------- MODULE CompanyAnalysis ----------------------------
(***************************************************************************)
(* How a company is analysed, kept and read again: analyseCompany() of     *)
(* analysis/pipeline.ts as the handler of a queued job, the schedules of   *)
(* analysis/refresh.ts that queue it again, the rows it writes             *)
(* (repositories/company.ts, benefits/ledger.ts), the routes that ask for  *)
(* it, and the plans the execution engine draws up of its opportunities.   *)
(*                                                                         *)
(* There is one customer with one website.  An analysis gives up control   *)
(* only while it waits for a connector; from the last answer to its end it *)
(* is one run of the event loop, in which the process may still die: it is *)
(* a step per loop over rows, and a death inside a loop is one before or   *)
(* after it.  Outside any transaction, every such prefix stays.            *)
(***************************************************************************)
EXTENDS JobQueue, Sequences, TLC

LOCAL INSTANCE CompanyTwin
LOCAL INSTANCE ConnectorFacts
LOCAL INSTANCE AnalysisEngines

CONSTANTS
  Twins,      \* ids a new twin can get; those beyond are not kept (bound)
  Domain,     \* the company's domain, as typed and as its website has it
  Sites,      \* what the website may show
  Systems,    \* what the other connectors would find
  Answers,    \* which connectors answer one analysis (bound)
  Purchases,  \* services the customer may be recorded to buy
  Plannable,  \* opportunities plans are drawn up for (bound)
  MaxPlans    \* bound: how many plans

ASSUME AnalysisAssumption ==
  /\ None \notin Twins /\ Domain \notin Twins
  /\ \A s \in Sites : s.domain = Domain
  /\ Purchases \subseteq SUBSET STRING

VARIABLES
  payload,        \* per job what was asked and how its run stands
  customer,       \* the customer record: none yet, or the services it buys
  companies,      \* company_twins with its facts and suppliers
  opportunities,  \* per twin its opportunities
  benefits,       \* per twin and opportunity the stage of its benefit
  plans,          \* execution_plans: per twin and opportunity
  schedules,      \* refresh_schedules
  work,           \* what the analysis of each worker is at
  stale,          \* history: twins due for a reading they have not had
  refused,        \* history: twins the reading of which a foreign key refused
  analysed        \* history: the services known to a twin's last analysis,
                  \*   while the rows it left are the twin's rows

dataVars == <<customer, companies, opportunities, benefits, plans, schedules,
              stale, refused, analysed>>

analysisVars == <<queueVars, payload, work, dataVars>>

-----------------------------------------------------------------------------
NoCompany == [exists |-> FALSE, owned |-> FALSE, twin |-> EmptyTwin,
              facts |-> NoFacts, suppliers |-> {}]

NoPayload == [input |-> None, customer |-> FALSE, run |-> "running", of |-> None]

NoWork == [at |-> "idle", on |-> None, twin |-> EmptyTwin, found |-> << >>, services |-> {}]

\* From a list of opportunities, the listed ones.
Listed(draft) ==
  [column |-> "NOT_STARTED", listed |-> "NOT_STARTED", about |-> draft.about,
   ready |-> draft.confidence >= 35 /\ draft.ready >= 30]

HasDomain(t) ==
  companies[t].exists /\ ValueOf(companies[t].twin.fields["domain"], None) = Domain

\* Nobody else runs while an analysis is past its last answer; what others do
\* while a worker is about to claim or to give up a job is done before or after.
Quiet ==
  \A w \in Worker : /\ work[w].at \in {"idle", "fetching"}
                    /\ workers[w].at = "handling" <=> work[w].at = "fetching"
                    /\ workers[w].at \in {"idle", "handling"}

NewJobs == {j \in Job : jobs[j].status = "absent"}

\* The bound on jobs leaves one to every company that is due.
\* People ask for one analysis at a time (bound); refreshes come when they come.
Asking == \A j \in Job : jobs[j].status \notin Open

Spare == Cardinality(NewJobs) > Cardinality({t \in Twins : schedules[t] = "due"})

Asked(j, input, owned, of) ==
  /\ Enqueue(j) /\ jobs'[j].ripe
  /\ payload' = [payload EXCEPT ![j] =
       [input |-> input, customer |-> owned, run |-> "running", of |-> of]]

\* A new row of the queue is the first the model has left.
Next1(S) == CHOOSE x \in S : TRUE

-----------------------------------------------------------------------------
\* The twin after a reading: what connectors say, then what the provider says.
Reading(tw, world, answered, services) ==
  LET told == Told(tw, ClaimsOf(world, answered))
      sold == [field |-> "currentMSPServices",
               claim |-> ClaimOf(services, "user-supplied", 90, "user")]
  IN [ (IF services = {} THEN told ELSE Told(told, <<sold>>))
       EXCEPT !.dataSources = @ \union answered ]

(* A company as an earlier analysis has left it: its website read and      *)
(* nobody's customer, as the go-to-market loop researches it, or with all  *)
(* its systems read and a customer that buys something.                    *)
Left(site, answered, owned, services) ==
  LET world == [site |-> site] @@ Systems
      twin == Reading(EmptyTwin, world, answered, services)
      facts == FactsOf(NoFacts, world, answered)
      ctx == Context(twin, facts)
  IN [ company |-> [exists |-> TRUE, owned |-> owned, twin |-> twin, facts |-> facts,
                    suppliers |-> SupplyChain(ctx)],
       found |-> Opportunities(ctx), known |-> <<services>> ]

\* There is no company yet, or one: the first.
Starts(there, left) ==
  LET first(x, rest) == [t \in Twins |-> IF there /\ t = Next1(Twins) THEN x ELSE rest]
  IN /\ companies = first(left.company, NoCompany)
     /\ opportunities = first([id \in DOMAIN left.found |-> Listed(left.found[id])], << >>)
     /\ benefits = first([id \in DOMAIN left.found |-> "THEORETICAL"], << >>)
     /\ schedules = first("waiting", "none")
     /\ analysed = first(left.known, << >>)

AnalysisInit ==
  /\ QueueInit
  /\ payload = [j \in Job |-> NoPayload]
  /\ work = [w \in Worker |-> NoWork]
  /\ plans = << >> /\ stale = {} /\ refused = {}
  /\ \/ /\ customer = << >>
        /\ Starts(FALSE, [company |-> NoCompany, found |-> << >>, known |-> << >>])
     \/ \E site \in Sites :
          /\ customer = << >>
          /\ Starts(TRUE, Left(site, {"website"}, FALSE, {}))
     \/ \E site \in Sites, answered \in Answers, services \in Purchases :
          /\ "website" \in answered /\ services # {}
          /\ customer = <<services>>
          /\ Starts(TRUE, Left(site, answered, TRUE, services))

-----------------------------------------------------------------------------
(* What people ask for.                                                    *)

\* POST /api/analyse: a company without a customer record gets one.
RequestAnalysis ==
  /\ Quiet /\ Spare /\ Asking
  /\ customer' = IF customer = << >> THEN <<{}>> ELSE customer
  /\ Asked(Next1(NewJobs), Domain, TRUE, None)
  /\ UNCHANGED <<work, companies, opportunities, benefits, plans, schedules,
                 stale, refused, analysed>>

\* applyImport(): a row that names no services leaves those on record.
Import(services) ==
  /\ Quiet /\ Spare /\ Asking
  /\ customer' = IF services = {} /\ customer # << >> THEN customer ELSE <<services>>
  /\ Asked(Next1(NewJobs), Domain, TRUE, None)
  /\ UNCHANGED <<work, companies, opportunities, benefits, plans, schedules,
                 stale, refused, analysed>>

\* POST /api/customer, or an import that asks for no analysis.
SetServices(services) ==
  /\ Quiet /\ customer # << >>
  /\ customer' = <<services>>
  /\ UNCHANGED <<queueVars, payload, work, companies, opportunities, benefits,
                 plans, schedules, stale, refused, analysed>>

-----------------------------------------------------------------------------
(* Schedules.                                                              *)

\* The interval of a company passes.
FallDue(t) ==
  /\ Quiet /\ schedules[t] = "waiting" /\ Spare
  /\ schedules' = [schedules EXCEPT ![t] = "due"]
  /\ stale' = stale \union {t}
  /\ refused' = refused \ {t}
  /\ UNCHANGED <<queueVars, payload, work, customer, companies, opportunities,
                 benefits, plans, analysed>>

\* The job queueDueRefreshes() makes for a company: read by its domain or, if
\* none is known, by its name; with no customer it passes an empty id.
QueuedFor(t) ==
  Asked(Next1(NewJobs), IF HasDomain(t) THEN Domain ELSE t, companies[t].owned, t)

\* queueDueRefreshes()
QueueRefresh(t) ==
  /\ Quiet /\ schedules[t] = "due" /\ NewJobs # {}
  /\ QueuedFor(t)
  /\ schedules' = [schedules EXCEPT ![t] = "waiting"]
  /\ UNCHANGED <<work, customer, companies, opportunities, benefits, plans,
                 stale, refused, analysed>>

\* Mutant: the schedule moves first, so that a death loses the reading.
HalfQueuedMoved(t) ==
  /\ schedules' = [schedules EXCEPT ![t] = "waiting"]
  /\ UNCHANGED <<jobs, payload>>

\* What is done when the process dies before the last statement.
HalfQueued(t) ==
  /\ jobs' = [jobs EXCEPT ![Next1(NewJobs)].status = "pending",
                          ![Next1(NewJobs)].ripe = TRUE]
  /\ payload' = [payload EXCEPT ![Next1(NewJobs)] =
       [input |-> IF HasDomain(t) THEN Domain ELSE t,
        customer |-> companies[t].owned, run |-> "running", of |-> t]]
  /\ UNCHANGED schedules

DieQueueing(t) ==
  /\ Quiet /\ schedules[t] = "due" /\ Spare
  /\ crashes < MaxCrashes
  /\ crashes' = crashes + 1
  /\ HalfQueued(t)
  /\ workers' = [w \in Worker |-> Idle]
  /\ work' = [w \in Worker |-> NoWork]
  /\ UNCHANGED <<overran, customer, companies, opportunities, benefits, plans,
                 stale, refused, analysed>>

-----------------------------------------------------------------------------
(* One analysis.                                                           *)

\* findTwinByDomain(), or a twin with a new id.
Identified(input) ==
  LET found == {t \in Twins : input = Domain /\ HasDomain(t)}
      fresh == {t \in Twins : ~companies[t].exists /\ \A w \in Worker : work[w].on # t}
  IN IF found # {} THEN Next1(found) ELSE IF fresh # {} THEN Next1(fresh) ELSE None

\* The job succeeds; nobody reads its payload any more.
Returns(w) ==
  /\ HandlerReturns(w)
  /\ payload' = [payload EXCEPT ![workers[w].job] = NoPayload]

\* A run that was completed is not analysed again (handlers.ts).
BeginAgain(w) ==
  /\ workers[w].at = "handling" /\ work[w].at = "idle"
  /\ payload[workers[w].job].run = "completed"
  /\ Returns(w)
  /\ UNCHANGED <<work, dataVars>>

Begin(w) ==
  LET t == Identified(payload[workers[w].job].input) IN
  /\ workers[w].at = "handling" /\ work[w].at = "idle"
  /\ payload[workers[w].job].run # "completed"
  /\ work' = [work EXCEPT ![w] = [NoWork EXCEPT
       !.at = "fetching", !.on = t,
       !.twin = IF t = None THEN EmptyTwin ELSE companies[t].twin]]
  /\ UNCHANGED <<queueVars, payload, dataVars>>

\* The run and the job fail with what the analysis threw.
Fail(w) ==
  LET j == workers[w].job IN
  /\ HandlerThrows(w)
  /\ payload' = [payload EXCEPT ![j].run = "failed"]
  /\ refused' = refused \union ({payload[j].of} \ {None})
  /\ work' = [work EXCEPT ![w] = NoWork]

\* The services on record, if the job names a customer and it buys any.
Supplied(p) == IF p.customer /\ customer # << >> THEN customer[1] ELSE {}

\* saveTwin() refuses the empty customer id: no customer has it.
ReadRefused(w) ==
  /\ work[w].at = "fetching"
  /\ ~payload[workers[w].job].customer
  /\ Fail(w)
  /\ UNCHANGED <<customer, companies, opportunities, benefits, plans, schedules,
                 stale, analysed>>

\* A twin beyond the bound is analysed and not kept.
ReadUnkept(w) ==
  /\ work[w].at = "fetching" /\ work[w].on = None
  /\ payload[workers[w].job].customer
  /\ Returns(w)
  /\ work' = [work EXCEPT ![w] = NoWork]
  /\ UNCHANGED dataVars

\* The answers are folded into the twin, it is saved with the facts counted
\* and the suppliers, and the engines run.
Read(w, site, answered) ==
  LET t == work[w].on
      p == payload[workers[w].job]
      world == [site |-> site] @@ Systems
      services == Supplied(p)
      tw == Reading(work[w].twin, world, answered, services)
      facts == FactsOf(companies[t].facts, world, answered)
      ctx == Context(tw, facts)
  IN /\ work[w].at = "fetching" /\ t # None
     /\ p.customer
     /\ "website" \in answered => p.input = Domain
     /\ companies' = [companies EXCEPT ![t] =
          [exists |-> TRUE, owned |-> TRUE, twin |-> tw, facts |-> facts,
           suppliers |-> SupplyChain(ctx)]]
     /\ work' = [work EXCEPT ![w] =
          [at |-> "removing", on |-> t, twin |-> EmptyTwin,
           found |-> Opportunities(ctx), services |-> services]]
     /\ UNCHANGED <<queueVars, payload, customer, opportunities, benefits, plans,
                    schedules, stale, refused, analysed>>

\* Nobody has started it and its benefit has not advanced.
Untouched(t, id) ==
  /\ opportunities[t][id].column = "NOT_STARTED"
  /\ id \in DOMAIN benefits[t] => benefits[t][id] = "THEORETICAL"

Without(f, ids) == [id \in DOMAIN f \ ids |-> f[id]]

Removable(t) == {id \in DOMAIN opportunities[t] : Untouched(t, id)}

\* Those a plan refers to.
Referred(t) == {id \in Removable(t) : <<t, id>> \in DOMAIN plans}

\* saveOpportunities() removes what is untouched, with its benefits.
Remove(w) ==
  LET t == work[w].on IN
  /\ work[w].at = "removing" /\ Referred(t) = {}
  /\ opportunities' = [opportunities EXCEPT ![t] = Without(@, Removable(t))]
  /\ benefits' = [benefits EXCEPT ![t] = Without(@, Removable(t))]
  /\ analysed' = [analysed EXCEPT ![t] = << >>]
  /\ work' = [work EXCEPT ![w].at = "upserting"]
  /\ UNCHANGED <<queueVars, payload, customer, companies, plans, schedules,
                 stale, refused>>

\* The first a plan refers to is not removed, its benefit is; of the others
\* some are gone by then: none or all of them here.
RemoveRefused(w) ==
  LET t == work[w].on IN
  /\ work[w].at = "removing"
  /\ \E id \in Referred(t), gone \in {{}, Removable(t) \ Referred(t)} :
       /\ opportunities' = [opportunities EXCEPT ![t] = Without(@, gone)]
       /\ benefits' = [benefits EXCEPT ![t] = Without(@, gone \union {id})]
  /\ analysed' = [analysed EXCEPT ![t] = << >>]
  /\ Fail(w)
  /\ UNCHANGED <<customer, companies, plans, schedules, stale>>

\* A row that was kept keeps its column and is listed as it was found anew.
Written(old, found) ==
  [id \in DOMAIN old \union DOMAIN found |->
     IF id \notin DOMAIN found THEN old[id]
     ELSE IF id \notin DOMAIN old THEN Listed(found[id])
     ELSE [Listed(found[id]) EXCEPT !.column = old[id].column]]

\* Mutant: the run is completed before its benefits are booked.
RunAfterCompleting(step) == IF step = "upserting" THEN "completed" ELSE "running"

\* How the run stands once the rows of a step are written.
RunAfter(step) == IF step = "booking" THEN "completed" ELSE "running"

\* persistRun(): a completed run vouches for the rows of its company.
Persisted(w, step) ==
  /\ payload' = [payload EXCEPT ![workers[w].job].run = RunAfter(step)]
  /\ analysed' = IF RunAfter(step) # "completed" THEN analysed
                 ELSE [analysed EXCEPT ![work[w].on] = <<work[w].services>>]

Upsert(w) ==
  LET t == work[w].on IN
  /\ work[w].at = "upserting"
  /\ opportunities' = [opportunities EXCEPT ![t] = Written(@, work[w].found)]
  /\ Persisted(w, "upserting")
  /\ work' = [work EXCEPT ![w].at = "booking"]
  /\ UNCHANGED <<queueVars, customer, companies, benefits, plans, schedules,
                 stale, refused>>

\* createBenefit() of every opportunity found that has none, and the run is
\* completed.
BookBenefits(w) ==
  LET t == work[w].on
      found == DOMAIN work[w].found
  IN /\ work[w].at = "booking"
     /\ benefits' = [benefits EXCEPT ![t] =
          [id \in DOMAIN @ \union found |->
             IF id \in DOMAIN @ THEN @[id] ELSE "THEORETICAL"]]
     /\ Persisted(w, "booking")
     /\ stale' = stale \ {t}
     /\ work' = [work EXCEPT ![w].at = "scheduling", ![w].found = << >>]
     /\ UNCHANGED <<queueVars, customer, companies, opportunities, plans,
                    schedules, refused>>

\* scheduleRefresh() starts the interval anew, and the handler returns.
Schedule(w) ==
  /\ work[w].at = "scheduling"
  /\ schedules' = [schedules EXCEPT ![work[w].on] = "waiting"]
  /\ Returns(w)
  /\ work' = [work EXCEPT ![w] = NoWork]
  /\ UNCHANGED <<customer, companies, opportunities, benefits, plans, stale,
                 refused, analysed>>

-----------------------------------------------------------------------------
(* The execution engine, as far as it touches these rows.                  *)

\* startAvailable(), of the opportunity as it is listed.
Startable(row) == row.ready /\ row.listed \in {"NOT_STARTED", "FAILED"}

\* planExecution() leaves the opportunity as it is.
PlanExecution(t, id) ==
  /\ Quiet /\ id \in DOMAIN opportunities[t]
  /\ <<t, id>> \notin DOMAIN plans /\ Cardinality(DOMAIN plans) < MaxPlans
  /\ plans' = (<<t, id>> :> IF Startable(opportunities[t][id]) THEN "awaiting"
                            ELSE "draft") @@ plans
  /\ UNCHANGED <<queueVars, payload, work, customer, companies, opportunities,
                 benefits, schedules, stale, refused, analysed>>

\* authorisePlan() advances the benefit, if there is one.
Authorise(t, id) ==
  /\ Quiet /\ <<t, id>> \in DOMAIN plans /\ plans[<<t, id>>] = "awaiting"
  /\ plans' = [plans EXCEPT ![<<t, id>>] = "authorised"]
  /\ benefits' = [benefits EXCEPT ![t] =
       [i \in DOMAIN @ |-> IF i = id THEN "APPROVED" ELSE @[i]]]
  /\ UNCHANGED <<queueVars, payload, work, customer, companies, opportunities,
                 schedules, stale, refused, analysed>>

\* A pass of executePlan() ends in updateOpportunityStatus(): the column and
\* the listed row get the same status, if the row is there (bound: the pass
\* completes the plan; how passes end otherwise is in ExecutionEngine).
CarryOut(t, id) ==
  LET status == "COMPLETED" IN
  /\ Quiet /\ <<t, id>> \in DOMAIN plans /\ plans[<<t, id>>] = "authorised"
  /\ plans' = [plans EXCEPT ![<<t, id>>] = status]
  /\ opportunities' = [opportunities EXCEPT ![t] =
       [i \in DOMAIN @ |-> IF i # id THEN @[i]
                           ELSE [@[i] EXCEPT !.column = status, !.listed = status]]]
  /\ UNCHANGED <<queueVars, payload, work, customer, companies, benefits,
                 schedules, stale, refused, analysed>>

-----------------------------------------------------------------------------
(* The queue's own steps.  An instance that dies loses what it had read.   *)
Polls(w) == RunnerStep(w) /\ UNCHANGED <<payload, work, dataVars>>

\* A lock times out only once its owner is gone (bound: the queue by itself is
\* run with slow owners too).
Passes(j) ==
  /\ \A w \in Worker : workers[w].job # j
  /\ Elapse(j)
  /\ UNCHANGED <<payload, work, dataVars>>

Die(w) ==
  /\ Crash(w)
  /\ work' = [work EXCEPT ![w] = NoWork]
  /\ UNCHANGED <<payload, dataVars>>

Analyse(w) ==
  \/ BeginAgain(w) \/ Begin(w)
  \/ ReadRefused(w) \/ ReadUnkept(w)
  \/ \E site \in Sites, answered \in Answers : Read(w, site, answered)
  \/ Remove(w) \/ RemoveRefused(w) \/ Upsert(w) \/ BookBenefits(w) \/ Schedule(w)

Carry(t, id) ==
  \/ PlanExecution(t, id)
  \/ Authorise(t, id)
  \/ CarryOut(t, id)

AnalysisNext ==
  \/ RequestAnalysis
  \/ \E services \in Purchases : Import(services) \/ SetServices(services)
  \/ \E t \in Twins : FallDue(t) \/ QueueRefresh(t) \/ DieQueueing(t)
  \/ \E t \in Twins, id \in Plannable : Carry(t, id)
  \/ \E w \in Worker : Polls(w) \/ Analyse(w) \/ Die(w)
  \/ \E j \in Job : Passes(j)

AnalysisSpec == AnalysisInit /\ [][AnalysisNext]_analysisVars

\* Clocks run, workers and the housekeeping keep polling, and an analysis ends:
\* every connector gives up on a system that does not answer.
AnalysisFairness ==
  /\ \A j \in Job : WF_analysisVars(Passes(j))
  /\ \A w \in Worker : WF_analysisVars(Polls(w)) /\ []<>(workers[w].at # "handling")
  /\ \A t \in Twins : WF_analysisVars(QueueRefresh(t))

FairAnalysisSpec == AnalysisSpec /\ AnalysisFairness

-----------------------------------------------------------------------------
\* A company that is due for a reading gets it, or the reading fails for good
\* on a foreign key, though the process dies anywhere between falling due and
\* the last row (refresh.ts:107-147, pipeline.ts:171-379).
RefreshReached ==
  \A t \in Twins : (t \in stale /\ HasDomain(t)) ~> (t \notin stale \/ t \in refused)

\* Once a run says it is completed, every opportunity on record has its benefit
\* unless it has been carried out, whatever plans, retries and deaths came before
\* (pipeline.ts:351-374).
Booked ==
  \A t \in Twins : analysed[t] # << >> =>
    \A id \in DOMAIN opportunities[t] :
      opportunities[t][id].column = "NOT_STARTED" => id \in DOMAIN benefits[t]

\* Of those carried out, too: "Every opportunity enters the Benefits Ledger"
\* (pipeline.ts:351), and "only untouched opportunities are cleared, and their
\* still-theoretical benefits go with them" (repositories/company.ts:96).
EveryOpportunityBooked ==
  \A t \in Twins : analysed[t] # << >> => DOMAIN opportunities[t] \subseteq DOMAIN benefits[t]

\* What the customer was recorded to buy when its company was last read is not
\* proposed to it, though it was recorded to buy something else at an earlier
\* reading that was just as sure (pipeline.ts:243-265, provenance.ts:83-107).
BoughtNotProposed ==
  \A t \in Twins : analysed[t] # << >> =>
    \A id \in DOMAIN opportunities[t] :
      Untouched(t, id) => opportunities[t][id].about \notin analysed[t][1]
=============================================================================
