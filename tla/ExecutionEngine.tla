---------------------------- MODULE ExecutionEngine ----------------------------
(***************************************************************************)
(* The execution engine of src/lib/execution/engine.ts with the tables it  *)
(* writes: opportunities, execution_plans, approvals, benefits and         *)
(* verification_baselines, and the verification jobs it enqueues.          *)
(*                                                                         *)
(* The process is one JavaScript event loop.  A handler is therefore one   *)
(* step from its first statement to its first await, and runExecution, the *)
(* only handler that awaits, is one step between two answers of the        *)
(* capability adapter it is waiting for.  It works on the copy of the plan *)
(* it read at the start and writes that whole copy back at the end: what   *)
(* other handlers stored meanwhile is overwritten.  The writes of a        *)
(* handler are separate statements outside any transaction, so the process *)
(* may die between two of them; every such prefix is a behaviour here.     *)
(*                                                                         *)
(* Not modelled: text, evidence, cost, timestamps, the audit table, the    *)
(* router and the playbooks' contents (a task is external or not, gated by *)
(* its playbook or not), and the tenant (every statement is scoped to it). *)
(***************************************************************************)
EXTENDS Integers, FiniteSets, BenefitsLedger

CONSTANTS
  Opportunity,     \* opportunities of one company
  Plan,            \* ids execution plans can get
  OpportunityOf,   \* the opportunity a plan is drawn up for
  NTasks,          \* tasks in the playbook, run in this order
  ExternalTasks,   \* tasks whose capability action is marked external
  GatedTasks,      \* tasks whose playbook entry says approvalRequired
  ApprovalId,      \* ids rows of the approvals table can get (bounds gates)
  Request,         \* slots for concurrent runExecution calls (bounds them)
  TaskValue,       \* values the adapter can report for a task
  Delta,           \* changes a verification can measure, never below 0
  MAX_RETRIES,     \* retries after the first attempt, 2 in the code
  MaxCrashes,      \* bound: how often the process may die
  MaxCommands,     \* bound: how often a person approves, rejects or stops
  None             \* null

Task == 1..NTasks

ASSUME EngineAssumption ==
  /\ OpportunityOf \in [Plan -> Opportunity]
  /\ NTasks \in Nat \ {0}
  /\ ExternalTasks \subseteq Task /\ GatedTasks \subseteq Task
  /\ TaskValue \subseteq Nat /\ Delta \subseteq Nat
  /\ MAX_RETRIES \in Nat /\ MaxCrashes \in Nat /\ MaxCommands \in Nat
  /\ None \notin ApprovalId /\ None \notin Plan

VARIABLES
  opportunities,      \* per opportunity: its executionStatus
  plans,              \* execution_plans: per plan id its stored row
  approvals,          \* approvals: per approval id its row
  benefits,           \* benefits: per opportunity its ledger row
  baselines,          \* verification_baselines: per plan id its row
  verificationJobs,   \* plans a verification job was ever enqueued for
  runs,               \* runExecution calls in flight, each at an await
  effects,            \* history: adapter calls that succeeded
  consented,          \* history: plans somebody holding the permission
                      \*   "authorise" has authorised or approved a gate of
  crashes,            \* how often the process has died
  commands            \* how often a person has approved, rejected or stopped

vars == <<opportunities, plans, approvals, benefits, baselines,
          verificationJobs, runs, effects, consented, crashes, commands>>

-----------------------------------------------------------------------------
(* The rows.                                                               *)

TaskStatus == {"PENDING", "AWAITING_APPROVAL", "COMPLETED", "FAILED", "SKIPPED"}

PlanStatus == {"DRAFT", "AWAITING_AUTHORISATION", "AUTHORISED", "EXECUTING",
               "AWAITING_APPROVAL", "COMPLETED", "FAILED", "STOPPED"}

OpportunityStatus == {"NOT_STARTED", "PLANNING", "AWAITING_APPROVAL",
                      "EXECUTING", "COMPLETED", "FAILED", "STOPPED"}

TaskRow == [status : TaskStatus, approvalRequired : BOOLEAN,
            approvalId : ApprovalId \cup {None}, value : TaskValue \cup {0}]

\* A plan id not used yet has the status ABSENT.
PlanRow == [status : PlanStatus \cup {"ABSENT"}, blocked : BOOLEAN,
            authorised : BOOLEAN, tasks : [Task -> TaskRow]]

NewTask(gated) ==
  [status |-> "PENDING", approvalRequired |-> gated, approvalId |-> None,
   value |-> 0]

NoPlan == [status |-> "ABSENT", blocked |-> FALSE, authorised |-> FALSE,
           tasks |-> [t \in Task |-> NewTask(FALSE)]]

\* The row of a gate; the row authorisePlan() writes decides nothing later.
ApprovalRow ==
  [plan : Plan \cup {None}, task : Task,
   decision : {"NONE", "APPROVED", "REJECTED"}]

NoApproval == [plan |-> None, task |-> 1, decision |-> "NONE"]

BaselineRow ==
  [captured : BOOLEAN, verified : BOOLEAN, value : Delta \cup {0}]

NoBaseline == [captured |-> FALSE, verified |-> FALSE, value |-> 0]

\* A run awaits the adapter for task number `task' of its copy `work'.
Run == [plan : Plan \cup {None}, work : PlanRow, task : Task,
        attempt : 0..MAX_RETRIES]

NoRun == [plan |-> None, work |-> NoPlan, task |-> 1, attempt |-> 0]

\* The terms of the sum measuredValueGbp a completed run reports.
Measured(tasks) == [t \in Task |-> tasks[t].value]

NothingMeasured == [t \in Task |-> 0]

TypeOK ==
  /\ opportunities \in [Opportunity -> OpportunityStatus]
  /\ plans \in [Plan -> PlanRow]
  /\ approvals \in [ApprovalId -> ApprovalRow]
  /\ benefits \in [Opportunity -> 
                    Benefit([Task -> TaskValue \cup {0}], Delta \cup {0})]
  /\ baselines \in [Plan -> BaselineRow]
  /\ verificationJobs \subseteq Plan
  /\ runs \in [Request -> Run]
  /\ effects \subseteq [plan : Plan, task : Task,
                        approvalId : ApprovalId \cup {None}]
  /\ consented \subseteq Plan
  /\ crashes \in 0..MaxCrashes
  /\ commands \in 0..MaxCommands

\* Analysis has stored the opportunities and opened their benefits.
Init ==
  /\ opportunities = [o \in Opportunity |-> "NOT_STARTED"]
  /\ plans = [p \in Plan |-> NoPlan]
  /\ approvals = [a \in ApprovalId |-> NoApproval]
  /\ benefits = [o \in Opportunity |-> NewBenefit(NothingMeasured)]
  /\ baselines = [p \in Plan |-> NoBaseline]
  /\ verificationJobs = {}
  /\ runs = [r \in Request |-> NoRun]
  /\ effects = {}
  /\ consented = {}
  /\ crashes = 0
  /\ commands = 0

\* The process dies: every call in flight is gone, the tables stay.
ProcessDies ==
  /\ crashes < MaxCrashes
  /\ crashes' = crashes + 1
  /\ runs' = [r \in Request |-> NoRun]

-----------------------------------------------------------------------------
(* Steps 1-8: planning.                                                    *)

\* startAvailable(): may a plan for an opportunity in this status be started?
StartAvailable(status) == status \in {"NOT_STARTED", "FAILED", "STOPPED"}

\* approvalRequired of a task whose external action is or is not within
\* what the caller's autonomy grants let it do unattended.
MustAsk(t, mayExecute) ==
  t \in GatedTasks \/ (t \in ExternalTasks /\ ~mayExecute)

\* planExecution(): other blockers - eligibility, integrations, capability,
\* proportionality - are one unknown.  The opportunity is not touched.
PlanExecution(p) ==
  /\ plans[p].status = "ABSENT"
  /\ \E otherBlocker \in BOOLEAN, mayExecute \in SUBSET ExternalTasks :
       LET blocked == otherBlocker
                        \/ ~StartAvailable(opportunities[OpportunityOf[p]])
       IN plans' = [plans EXCEPT ![p] =
            [status |-> IF blocked THEN "DRAFT" ELSE "AWAITING_AUTHORISATION",
             blocked |-> blocked,
             authorised |-> FALSE,
             tasks |-> [t \in Task |-> NewTask(MustAsk(t, t \in mayExecute))]]]
  /\ UNCHANGED <<opportunities, approvals, benefits, baselines,
                 verificationJobs, runs, effects, consented, crashes, commands>>

-----------------------------------------------------------------------------
(* Step 9: human authorisation.                                            *)

\* Mutant: the status is not looked at, only the blockers.
CanAuthoriseAgain(row) == ~row.blocked /\ row.status # "ABSENT"

CanAuthorise(row) == ~row.blocked /\ row.status = "AWAITING_AUTHORISATION"

\* captureBaseline(): a playbook that a connected system can prove has its
\* facts stored, unless the plan already has a baseline row.
CaptureBaseline(base, p, provable) ==
  IF provable /\ ~base[p].captured
  THEN [base EXCEPT ![p].captured = TRUE]
  ELSE base

\* authorisePlan(): the plan, then the benefit, then the baseline.  The
\* process may die after the first or the second of these writes.
AuthorisePlan(p) ==
  LET o == OpportunityOf[p] IN
  /\ CanAuthorise(plans[p])
  /\ plans' = [plans EXCEPT ![p].status = "AUTHORISED", ![p].authorised = TRUE]
  /\ consented' = consented \cup {p}
  /\ \E written \in 1..3 :
       /\ benefits' =
            IF written >= 2
            THEN [benefits EXCEPT ![o] =
                    AdvanceAtLeast(@, "APPROVED", @.realised)]
            ELSE benefits
       /\ \E provable \in BOOLEAN :
            baselines' = IF written >= 3
                         THEN CaptureBaseline(baselines, p, provable)
                         ELSE baselines
       /\ IF written = 3 THEN UNCHANGED <<runs, crashes>> ELSE ProcessDies
  /\ UNCHANGED <<opportunities, approvals, verificationJobs, effects, commands>>

-----------------------------------------------------------------------------
(* Steps 10-15: running a plan.                                            *)

\* Mutant: a failed task counts as finished when the loop looks for work.
DoneOrFailed(task) == task.status \in {"COMPLETED", "SKIPPED", "FAILED"}

Done(task) == task.status \in {"COMPLETED", "SKIPPED"}

\* A gated task that has not asked yet.  One that has asked is not looked at
\* again: its approvalId is set whether or not anybody has decided.
MustStopAt(task) == task.approvalRequired /\ task.approvalId = None

\* From task `from' on, the loop passes over finished tasks and gets to t.
GetsTo(tasks, from, t) ==
  /\ t >= from /\ ~Done(tasks[t])
  /\ \A u \in Task : u >= from /\ u < t => Done(tasks[u])

\* It gets to the end when all of them are finished.
GetsToEnd(tasks, from) == \A t \in Task : t >= from => Done(tasks[t])

\* Steps 12-13: what a finished run does to the benefit.
BookRun(benefit, row) ==
  CASE row.status = "COMPLETED" ->
         AdvanceAtLeast(benefit, "REALISED", Measured(row.tasks))
    [] row.status = "AWAITING_APPROVAL" ->
         AdvanceAtLeast(benefit, "FORECAST", benefit.realised)
    [] OTHER -> benefit

\* Step 14: statusMap of updateOpportunityStatus().
StatusMap(planStatus) ==
  CASE planStatus = "DRAFT" -> "PLANNING"
    [] planStatus = "AWAITING_AUTHORISATION" -> "AWAITING_APPROVAL"
    [] planStatus = "AUTHORISED" -> "EXECUTING"
    [] OTHER -> planStatus

\* Mutant: the job is enqueued for a baseline that is verified already.
WantsVerificationInverted(p, row) ==
  row.status = "COMPLETED" /\ baselines[p].captured /\ baselines[p].verified

\* Only a completed plan that has something to be measured against.
WantsVerification(p, row) ==
  row.status = "COMPLETED" /\ baselines[p].captured /\ ~baselines[p].verified

\* Mutant: the opportunity and the job are written before the benefit.
FinishLedgerLast(r, p, row, stored) ==
  LET o == OpportunityOf[p] IN
  \E written \in 0..4 :
    /\ plans' = IF written >= 1 THEN [stored EXCEPT ![p] = row] ELSE stored
    /\ opportunities' = IF written >= 2
                        THEN [opportunities EXCEPT ![o] = StatusMap(row.status)]
                        ELSE opportunities
    /\ verificationJobs' = IF written >= 3 /\ WantsVerification(p, row)
                           THEN verificationJobs \cup {p}
                           ELSE verificationJobs
    /\ benefits' = IF written = 4
                   THEN [benefits EXCEPT ![o] = BookRun(@, row)]
                   ELSE benefits
    /\ IF written = 4
       THEN runs' = [runs EXCEPT ![r] = NoRun] /\ UNCHANGED crashes
       ELSE ProcessDies

\* The end of runExecution(): with `stored' the plans table so far, the run r
\* writes back its copy `row', then the benefit, the opportunity and the
\* verification job.  The process may die after any number of these writes.
Finish(r, p, row, stored) ==
  LET o == OpportunityOf[p] IN
  \E written \in 0..4 :
    /\ plans' = IF written >= 1 THEN [stored EXCEPT ![p] = row] ELSE stored
    /\ benefits' = IF written >= 2
                   THEN [benefits EXCEPT ![o] = BookRun(@, row)]
                   ELSE benefits
    /\ opportunities' = IF written >= 3
                        THEN [opportunities EXCEPT ![o] = StatusMap(row.status)]
                        ELSE opportunities
    /\ verificationJobs' = IF written = 4 /\ WantsVerification(p, row)
                           THEN verificationJobs \cup {p}
                           ELSE verificationJobs
    /\ IF written = 4
       THEN runs' = [runs EXCEPT ![r] = NoRun] /\ UNCHANGED crashes
       ELSE ProcessDies

\* A task that has asked, one that was carried out, one that was given up.
Asked(task, a) ==
  [task EXCEPT !.status = "AWAITING_APPROVAL", !.approvalId = a]

Succeeded(task, v) == [task EXCEPT !.status = "COMPLETED", !.value = v]

GivenUp(task) == [task EXCEPT !.status = "FAILED", !.value = 0]

\* The loop from task `from' on, up to its next await or its end: it goes to
\* the adapter, stops at a gate with a new approval row, or completes.
Proceed(r, p, work, from, stored) ==
  \/ \E t \in Task :
       /\ GetsTo(work.tasks, from, t) /\ ~MustStopAt(work.tasks[t])
       /\ runs' = [runs EXCEPT ![r] =
                     [plan |-> p, work |-> work, task |-> t, attempt |-> 0]]
       /\ plans' = stored
       /\ UNCHANGED <<approvals, opportunities, benefits, verificationJobs,
                      crashes>>
  \/ \E t \in Task, a \in ApprovalId :
       /\ GetsTo(work.tasks, from, t) /\ MustStopAt(work.tasks[t])
       /\ approvals[a].plan = None
       /\ approvals' = [approvals EXCEPT ![a] =
                          [plan |-> p, task |-> t, decision |-> "NONE"]]
       /\ Finish(r, p,
            [work EXCEPT !.status = "AWAITING_APPROVAL",
                         !.tasks[t] = Asked(@, a)],
            stored)
  \/ /\ GetsToEnd(work.tasks, from)
     /\ Finish(r, p, [work EXCEPT !.status = "COMPLETED"], stored)
     /\ UNCHANGED approvals

\* Mutant: a plan that still awaits authorisation may be run.
RunnableUnauthorised(row) ==
  row.status \in {"AWAITING_AUTHORISATION", "AUTHORISED", "EXECUTING",
                  "AWAITING_APPROVAL"}

Runnable(row) == row.status \in {"AUTHORISED", "EXECUTING", "AWAITING_APPROVAL"}

\* runExecution() up to its first await.
RunExecution(r, p) ==
  /\ runs[r].plan = None
  /\ Runnable(plans[p])
  /\ LET work == [plans[p] EXCEPT !.status = "EXECUTING"]
     IN Proceed(r, p, work, 1, [plans EXCEPT ![p] = work])
  /\ UNCHANGED <<baselines, effects, consented, commands>>

\* Mutant: the registry does not force approvalId into the required inputs.
InputsUnchecked(t, task) == t \in ExternalTasks => task.status # "COMPLETED"

\* The adapter refuses an external action without an approvalId.
InputsComplete(t, task) == t \in ExternalTasks => task.approvalId # None

\* The adapter reports success, and the run goes on with the next task.
TaskSucceeds(r) ==
  LET p == runs[r].plan
      t == runs[r].task
      task == runs[r].work.tasks[t]
  IN
  /\ p # None
  /\ InputsComplete(t, task)
  /\ effects' = effects \cup
       {[plan |-> p, task |-> t, approvalId |-> task.approvalId]}
  /\ \E v \in TaskValue :
       Proceed(r, p,
         [runs[r].work EXCEPT !.tasks[t] = Succeeded(@, v)],
         t + 1, plans)
  /\ UNCHANGED <<baselines, consented, commands>>

\* Mutant: one attempt more than the bound allows.
TaskRetriesOnceMore(r) ==
  /\ runs[r].plan # None
  /\ runs[r].attempt <= MAX_RETRIES
  /\ runs' = [runs EXCEPT ![r].attempt = @ + 1]
  /\ UNCHANGED <<opportunities, plans, approvals, benefits, baselines,
                 verificationJobs, effects, consented, crashes, commands>>

\* Mutant: the attempt counter wraps before it reaches the bound.
TaskRetriesForever(r) ==
  /\ runs[r].plan # None
  /\ runs[r].attempt < MAX_RETRIES
  /\ runs' = [runs EXCEPT ![r].attempt = (@ + 1) % MAX_RETRIES]
  /\ UNCHANGED <<opportunities, plans, approvals, benefits, baselines,
                 verificationJobs, effects, consented, crashes, commands>>

\* The adapter reports failure and attempts are left: it is asked again.
TaskRetries(r) ==
  /\ runs[r].plan # None
  /\ runs[r].attempt < MAX_RETRIES
  /\ runs' = [runs EXCEPT ![r].attempt = @ + 1]
  /\ UNCHANGED <<opportunities, plans, approvals, benefits, baselines,
                 verificationJobs, effects, consented, crashes, commands>>

\* The last attempt failed: the task and with it the plan have FAILED.
TaskFails(r) ==
  LET t == runs[r].task IN
  /\ runs[r].plan # None
  /\ runs[r].attempt = MAX_RETRIES
  /\ Finish(r, runs[r].plan,
       [runs[r].work EXCEPT !.status = "FAILED", !.tasks[t] = GivenUp(@)],
       plans)
  /\ UNCHANGED <<approvals, baselines, effects, consented, commands>>

\* A live adapter rejects: the exception leaves runExecution() before the
\* final writes, and the stored plan stays EXECUTING.
AdapterThrows(r) ==
  /\ runs[r].plan # None
  /\ runs' = [runs EXCEPT ![r] = NoRun]
  /\ UNCHANGED <<opportunities, plans, approvals, benefits, baselines,
                 verificationJobs, effects, consented, crashes, commands>>

-----------------------------------------------------------------------------
(* The other handlers, between the awaits of a run.                        *)

\* A person gives a command; MaxCommands bounds how many.
Command == commands < MaxCommands /\ commands' = commands + 1

\* A decided task: approved, it may run without asking; rejected, it is
\* skipped.
DecidedTask(task, decision) ==
  IF decision = "APPROVED"
  THEN [task EXCEPT !.status = "PENDING", !.approvalRequired = FALSE]
  ELSE [task EXCEPT !.status = "SKIPPED"]

\* The status a decision leaves, whatever the status of the plan was.
StatusDecided(row, decision) ==
  IF decision = "APPROVED" THEN "AUTHORISED" ELSE "STOPPED"

Decided(row, t, decision) ==
  [row EXCEPT !.status = StatusDecided(row, decision),
              !.tasks[t] = DecidedTask(@, decision)]

\* approveTask(): the decision goes to the task's approvals row, if it has
\* one, then to the plan.  The process may die between the two.
ApproveTask(p, t, decision) ==
  LET a == plans[p].tasks[t].approvalId IN
  /\ plans[p].status # "ABSENT"
  /\ Command
  /\ approvals' = IF a = None THEN approvals
                  ELSE [approvals EXCEPT ![a].decision = decision]
  /\ \/ /\ plans' = [plans EXCEPT ![p] = Decided(@, t, decision)]
        /\ consented' = IF decision = "APPROVED" THEN consented \cup {p}
                        ELSE consented
        /\ UNCHANGED <<runs, crashes>>
     \/ ProcessDies /\ UNCHANGED <<plans, consented>>
  /\ UNCHANGED <<opportunities, benefits, baselines, verificationJobs, effects>>

\* What has not finished is skipped when the plan is stopped.
StoppedTask(task) ==
  IF task.status \in {"PENDING", "AWAITING_APPROVAL"}
  THEN [task EXCEPT !.status = "SKIPPED"] ELSE task

Stopped(row) ==
  [row EXCEPT !.status = "STOPPED",
              !.tasks = [t \in Task |-> StoppedTask(row.tasks[t])]]

\* stopPlan(): no guard on the status of the plan.
StopPlan(p) ==
  /\ plans[p].status # "ABSENT"
  /\ Command
  /\ plans' = [plans EXCEPT ![p] = Stopped(@)]
  /\ UNCHANGED <<opportunities, approvals, benefits, baselines,
                 verificationJobs, runs, effects, consented, crashes>>

\* verifyPlan(), from the API or from a verification job, with the connected
\* system reachable (unreachable, it writes nothing): the baseline is marked,
\* then the benefit is advanced when a change was measured.
VerifyPlan(p, delta) ==
  LET o == OpportunityOf[p] IN
  /\ baselines[p].captured /\ ~baselines[p].verified
  /\ baselines' = [baselines EXCEPT ![p].verified = TRUE, ![p].value = delta]
  /\ \/ /\ benefits' =
             IF delta > 0 /\ CanAdvance(benefits[o], "VERIFIED", delta)
             THEN [benefits EXCEPT ![o] =
                     Advance(@, "VERIFIED", @.realised, delta)]
             ELSE benefits
        /\ UNCHANGED <<runs, crashes>>
     \/ ProcessDies /\ UNCHANGED benefits
  /\ UNCHANGED <<opportunities, plans, approvals, verificationJobs, effects,
                 consented, commands>>

\* The process dies between two handlers.
Crash ==
  /\ ProcessDies
  /\ UNCHANGED <<opportunities, plans, approvals, benefits, baselines,
                 verificationJobs, effects, consented, commands>>

-----------------------------------------------------------------------------
\* The adapter answers the run r, one way or another.
AdapterAnswers(r) ==
  TaskSucceeds(r) \/ TaskRetries(r) \/ TaskFails(r) \/ AdapterThrows(r)

Next ==
  \/ \E p \in Plan : PlanExecution(p) \/ AuthorisePlan(p) \/ StopPlan(p)
  \/ \E p \in Plan, t \in Task, d \in {"APPROVED", "REJECTED"} :
       ApproveTask(p, t, d)
  \/ \E p \in Plan, delta \in Delta : VerifyPlan(p, delta)
  \/ \E r \in Request, p \in Plan : RunExecution(r, p)
  \/ \E r \in Request : AdapterAnswers(r)
  \/ Crash

Spec == Init /\ [][Next]_vars

\* An adapter call is answered in the end; people, who plan, authorise, decide,
\* stop and run, owe nothing, and neither do crashes.
FairSpec == Spec /\ \A r \in Request : WF_vars(AdapterAnswers(r))

-----------------------------------------------------------------------------
(* Safety.                                                                 *)

BeforeAuthorisation == {"ABSENT", "DRAFT", "AWAITING_AUTHORISATION"}

\* A plan nobody has accepted is untouched: no run works on it, nothing was
\* done in its name, and no baseline claims to precede it - although runs
\* write whole plans back long after they read them (engine.ts:320-368).
UntouchedUntilAuthorised ==
  \A p \in Plan : plans[p].status \in BeforeAuthorisation =>
    /\ \A r \in Request : runs[r].plan # p
    /\ \A e \in effects : e.plan # p
    /\ ~baselines[p].captured

\* Nothing is done in a plan's name before somebody with the permission to
\* authorise has accepted the plan or one of its gates (api/execution/route.ts).
ConsentFirst == \A e \in effects : e.plan \in consented

\* An action that leaves the platform carries an approval id, and the row of
\* that id was opened for this very task of this very plan (engine.ts:345-351).
ApprovalBinds ==
  \A e \in effects : e.task \in ExternalTasks =>
    /\ e.approvalId \in ApprovalId
    /\ approvals[e.approvalId].plan = e.plan
    /\ approvals[e.approvalId].task = e.task

\* The ledger is booked before anything is shown or scheduled on its strength:
\* an opportunity displayed as COMPLETED and a verification job both find the
\* benefit REALISED, wherever the process died in between (engine.ts:371-408).
LedgerLeads ==
  /\ \A o \in Opportunity : opportunities[o] = "COMPLETED" =>
       Rank(benefits[o].stage) >= Rank("REALISED")
  /\ \A p \in verificationJobs :
       Rank(benefits[OpportunityOf[p]].stage) >= Rank("REALISED")

\* A benefit is VERIFIED only on the strength of a baseline of its opportunity
\* that measured exactly this positive change (verify.ts:67-105).
VerifiedIsBacked ==
  \A o \in Opportunity : benefits[o].stage = "VERIFIED" =>
    /\ benefits[o].verified > 0
    /\ \E p \in Plan : /\ OpportunityOf[p] = o
                       /\ baselines[p].verified
                       /\ baselines[p].value = benefits[o].verified

\* The ledger is between what is shown and what was measured: it leads the
\* opportunity and the verification job, and follows the baseline, wherever the
\* process dies between the writes.
LedgerInStep == LedgerLeads /\ VerifiedIsBacked

\* COMPLETED is true, however runs overlap and though a plan may have been
\* reopened from FAILED by a decision: no task of it failed or never ran, and
\* as long as the process survives a baseline it has is verified or there is a
\* job that will try (engine.ts:364-367, 395-408).
CompletedIsTrue ==
  \A p \in Plan : plans[p].status = "COMPLETED" =>
    /\ \A t \in Task : plans[p].tasks[t].status \in {"COMPLETED", "SKIPPED"}
    /\ baselines[p].captured => baselines[p].verified \/ p \in verificationJobs

-----------------------------------------------------------------------------
(* What a step may never do.                                               *)

\* "The baseline has to be captured before anything changes" (engine.ts:289):
\* when the baseline of a plan appears, nothing was done in the plan's name
\* and no run is under way on it.
BaselineBeforeWork ==
  [][\A p \in Plan : baselines'[p].captured /\ ~baselines[p].captured =>
       /\ \A e \in effects' : e.plan # p
       /\ \A r \in Request : runs[r].plan # p]_vars

\* The benefits keep the promise of the abstract ledger: stages only climb, a
\* realised figure is booked once, a verified one is positive (ledger.ts:7-10).
Ledger == INSTANCE LedgerRatchet WITH
  Realised <- [Task -> TaskValue \cup {0}], Verified <- Delta,
  Nothing <- NothingMeasured, ledger <- benefits

LedgerSpec == Ledger!Spec

-----------------------------------------------------------------------------
(* Liveness.                                                               *)

\* A run that is under way ends: retries are bounded and so are the tasks, no
\* matter what is decided, stopped or verified meanwhile (engine.ts:333-362).
RunsEnd == \A r \in Request : runs[r].plan # None ~> runs[r].plan = None
=============================================================================
