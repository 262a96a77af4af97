------------------------- MODULE ExecutionEngineProofs -------------------------
(***************************************************************************)
(* Theorems about the execution engine, for every number of plans, tasks,  *)
(* overlapping runs, retries, crashes and human commands; and that it      *)
(* implements the abstract ledger: whatever plans, overlapping runs,       *)
(* crashes and verifications do to a benefit is a step LedgerRatchet       *)
(* allows.                                                                 *)
(***************************************************************************)
EXTENDS ExecutionEngine, TLAPS

-----------------------------------------------------------------------------
(* Types.                                                                  *)

\* The rows of a run's benefits.
BenefitRow == Benefit([Task -> TaskValue \cup {0}], Delta \cup {0})

\* advance() and advanceAtLeast() store well-formed ledger rows.
LEMMA AdvanceAtLeastType ==
  ASSUME NEW b \in BenefitRow, NEW s \in Stage,
         NEW v \in [Task -> TaskValue \cup {0}]
  PROVE  AdvanceAtLeast(b, s, v) \in BenefitRow
BY DEF BenefitRow, Benefit, AdvanceAtLeast, Advance

\* The terms a run reports are values of tasks.
LEMMA MeasuredType ==
  ASSUME NEW row \in PlanRow
  PROVE  Measured(row.tasks) \in [Task -> TaskValue \cup {0}]
BY DEF Measured, PlanRow, TaskRow

\* Booking a finished run stores a well-formed ledger row.
LEMMA BookRunType ==
  ASSUME NEW b \in BenefitRow, NEW row \in PlanRow
  PROVE  BookRun(b, row) \in BenefitRow
<1>1. b.realised \in [Task -> TaskValue \cup {0}]
  BY DEF BenefitRow, Benefit
<1>2. "REALISED" \in Stage /\ "FORECAST" \in Stage
  BY DEF Stage
<1>3. /\ AdvanceAtLeast(b, "REALISED", Measured(row.tasks)) \in BenefitRow
      /\ AdvanceAtLeast(b, "FORECAST", b.realised) \in BenefitRow
  BY <1>1, <1>2, AdvanceAtLeastType, MeasuredType
<1>4. QED
  BY <1>3 DEF BookRun

\* The rows of unused ids are well formed.
LEMMA NullRowType == NoPlan \in PlanRow /\ NoRun \in Run
<1>1. 1 \in Task /\ 0 \in 0..MAX_RETRIES
  BY EngineAssumption DEF Task
<1>2. "PENDING" \in TaskStatus /\ "ABSENT" \in PlanStatus \cup {"ABSENT"}
  BY DEF TaskStatus
<1>3. NewTask(FALSE) \in TaskRow
  BY <1>2 DEF NewTask, TaskRow
<1>4. NoPlan \in PlanRow
  BY <1>2, <1>3 DEF NoPlan, PlanRow
<1>5. NoRun \in Run
  BY <1>1, <1>4 DEF NoRun, Run
<1>6. QED
  BY <1>4, <1>5

\* The statuses runExecution() ends with.
FinalStatus == {"AWAITING_APPROVAL", "COMPLETED", "FAILED"}

\* The end of a run writes well-formed rows, wherever the process dies in it.
LEMMA FinishType ==
  ASSUME TypeOK, NEW r \in Request, NEW p \in Plan,
         NEW row \in PlanRow, row.status \in FinalStatus,
         NEW stored \in [Plan -> PlanRow],
         Finish(r, p, row, stored)
  PROVE  /\ plans' \in [Plan -> PlanRow]
         /\ benefits' \in [Opportunity -> BenefitRow]
         /\ opportunities' \in [Opportunity -> OpportunityStatus]
         /\ verificationJobs' \subseteq Plan
         /\ runs' \in [Request -> Run]
         /\ crashes' \in 0..MaxCrashes
<1> DEFINE o == OpportunityOf[p]
<1>1. o \in Opportunity
  BY EngineAssumption
<1>2. PICK written \in 0..4 :
    /\ plans' = IF written >= 1 THEN [stored EXCEPT ![p] = row] ELSE stored
    /\ benefits' = IF written >= 2
                   THEN [benefits EXCEPT ![o] = BookRun(@, row)]
                   ELSE benefits
    /\ opportunities' = IF written >= 3
                        THEN [opportunities EXCEPT ![o] = StatusMap(row.status)]
                        ELSE opportunities
    /\ verificationJobs' = IF written = 4 /\ WantsVerification(p, row)
                           THEN verificationJobs \cup {p}
                           ELSE verificationJobs
    /\ IF written = 4
       THEN runs' = [runs EXCEPT ![r] = NoRun] /\ UNCHANGED crashes
       ELSE ProcessDies
  BY DEF Finish
<1>3. plans' \in [Plan -> PlanRow]
  BY <1>2
<1>4. benefits \in [Opportunity -> BenefitRow]
  BY DEF TypeOK, BenefitRow
<1>5. benefits' \in [Opportunity -> BenefitRow]
  BY <1>1, <1>2, <1>4, BookRunType
<1>6. StatusMap(row.status) \in OpportunityStatus
  BY DEF StatusMap, FinalStatus, OpportunityStatus
<1>7. opportunities' \in [Opportunity -> OpportunityStatus]
  BY <1>1, <1>2, <1>6 DEF TypeOK
<1>8. verificationJobs' \subseteq Plan
  BY <1>2 DEF TypeOK
<1>9. NoRun \in Run
  BY NullRowType
<1>10. runs' \in [Request -> Run] /\ crashes' \in 0..MaxCrashes
  BY <1>2, <1>9, EngineAssumption DEF TypeOK, ProcessDies
<1>11. QED
  BY <1>3, <1>5, <1>7, <1>8, <1>10

\* Every update of a task leaves a well-formed row.
LEMMA TaskUpdateType ==
  ASSUME NEW task \in TaskRow
  PROVE  /\ \A a \in ApprovalId : Asked(task, a) \in TaskRow
         /\ \A v \in TaskValue : Succeeded(task, v) \in TaskRow
         /\ GivenUp(task) \in TaskRow
         /\ \A d : DecidedTask(task, d) \in TaskRow
         /\ StoppedTask(task) \in TaskRow
<1>1. \A s \in TaskStatus : [task EXCEPT !.status = s] \in TaskRow
  BY DEF TaskRow
<1>2. {"PENDING", "AWAITING_APPROVAL", "COMPLETED", "FAILED", "SKIPPED"}
        = TaskStatus
  BY DEF TaskStatus
<1>3. \A a \in ApprovalId : Asked(task, a) \in TaskRow
  BY <1>2 DEF Asked, TaskRow
<1>4. \A v \in TaskValue : Succeeded(task, v) \in TaskRow
  BY <1>2 DEF Succeeded, TaskRow
<1>5. GivenUp(task) \in TaskRow
  BY <1>2 DEF GivenUp, TaskRow
<1>6. \A d : DecidedTask(task, d) \in TaskRow
  BY <1>1, <1>2 DEF DecidedTask, TaskRow
<1>7. StoppedTask(task) \in TaskRow
  BY <1>1, <1>2 DEF StoppedTask
<1>8. QED
  BY <1>3, <1>4, <1>5, <1>6, <1>7

\* Running on from task `from' leaves well-formed rows, whether the run goes to
\* the adapter, stops at a gate or completes.
LEMMA ProceedType ==
  ASSUME TypeOK, NEW r \in Request, NEW p \in Plan,
         NEW work \in PlanRow, NEW from \in Nat,
         NEW stored \in [Plan -> PlanRow],
         Proceed(r, p, work, from, stored)
  PROVE  /\ plans' \in [Plan -> PlanRow]
         /\ approvals' \in [ApprovalId -> ApprovalRow]
         /\ benefits' \in [Opportunity -> BenefitRow]
         /\ opportunities' \in [Opportunity -> OpportunityStatus]
         /\ verificationJobs' \subseteq Plan
         /\ runs' \in [Request -> Run]
         /\ crashes' \in 0..MaxCrashes
<1>1. ASSUME NEW t \in Task,
             runs' = [runs EXCEPT ![r] =
               [plan |-> p, work |-> work, task |-> t, attempt |-> 0]]
      PROVE  runs' \in [Request -> Run]
  <2>1. 0 \in 0..MAX_RETRIES
    BY EngineAssumption
  <2>2. [plan |-> p, work |-> work, task |-> t, attempt |-> 0] \in Run
    BY <2>1 DEF Run
  <2>3. QED
    BY <1>1, <2>2 DEF TypeOK
<1>2. CASE \E t \in Task :
       /\ GetsTo(work.tasks, from, t) /\ ~MustStopAt(work.tasks[t])
       /\ runs' = [runs EXCEPT ![r] =
                     [plan |-> p, work |-> work, task |-> t, attempt |-> 0]]
       /\ plans' = stored
       /\ UNCHANGED <<approvals, opportunities, benefits, verificationJobs,
                      crashes>>
  BY <1>1, <1>2 DEF TypeOK, BenefitRow
<1>3. ASSUME NEW t \in Task, NEW a \in ApprovalId,
             approvals' = [approvals EXCEPT ![a] =
                            [plan |-> p, task |-> t, decision |-> "NONE"]],
             Finish(r, p,
               [work EXCEPT !.status = "AWAITING_APPROVAL",
                            !.tasks[t] = Asked(@, a)],
               stored)
      PROVE  /\ plans' \in [Plan -> PlanRow]
             /\ approvals' \in [ApprovalId -> ApprovalRow]
             /\ benefits' \in [Opportunity -> BenefitRow]
             /\ opportunities' \in [Opportunity -> OpportunityStatus]
             /\ verificationJobs' \subseteq Plan
             /\ runs' \in [Request -> Run]
             /\ crashes' \in 0..MaxCrashes
  <2> DEFINE row == [work EXCEPT !.status = "AWAITING_APPROVAL",
                                 !.tasks[t] = Asked(@, a)]
  <2>1. row \in PlanRow
    <3>1. Asked(work.tasks[t], a) \in TaskRow
      BY TaskUpdateType DEF PlanRow
    <3>2. QED
      BY <3>1 DEF PlanRow, PlanStatus
  <2>2. row.status \in FinalStatus
    BY DEF PlanRow, FinalStatus
  <2>3. approvals' \in [ApprovalId -> ApprovalRow]
    BY <1>3 DEF TypeOK, ApprovalRow
  <2> HIDE DEF row
  <2>4. Finish(r, p, row, stored)
    BY <1>3 DEF row
  <2>5. QED
    BY <2>1, <2>2, <2>3, <2>4, FinishType
<1>4. ASSUME Finish(r, p, [work EXCEPT !.status = "COMPLETED"], stored),
             UNCHANGED approvals
      PROVE  /\ plans' \in [Plan -> PlanRow]
             /\ approvals' \in [ApprovalId -> ApprovalRow]
             /\ benefits' \in [Opportunity -> BenefitRow]
             /\ opportunities' \in [Opportunity -> OpportunityStatus]
             /\ verificationJobs' \subseteq Plan
             /\ runs' \in [Request -> Run]
             /\ crashes' \in 0..MaxCrashes
  <2> DEFINE row == [work EXCEPT !.status = "COMPLETED"]
  <2>1. row \in PlanRow /\ row.status \in FinalStatus
    BY DEF PlanRow, PlanStatus, FinalStatus
  <2> HIDE DEF row
  <2>2. Finish(r, p, row, stored)
    BY <1>4 DEF row
  <2>3. approvals' \in [ApprovalId -> ApprovalRow]
    BY <1>4 DEF TypeOK
  <2>4. QED
    BY <2>1, <2>2, <2>3, FinishType
<1>5. QED
  BY <1>2, <1>3, <1>4 DEF Proceed

\* Advancing a benefit keeps the ledger well formed.
LEMMA LedgerStepType ==
  ASSUME TypeOK, NEW o \in Opportunity
  PROVE  /\ [benefits EXCEPT ![o] = AdvanceAtLeast(@, "APPROVED", @.realised)]
              \in [Opportunity -> BenefitRow]
         /\ \A delta \in Delta :
              [benefits EXCEPT ![o] =
                 Advance(@, "VERIFIED", @.realised, delta)]
                \in [Opportunity -> BenefitRow]
<1>1. benefits \in [Opportunity -> BenefitRow]
  BY DEF TypeOK, BenefitRow
<1>2. benefits[o].realised \in [Task -> TaskValue \cup {0}]
  BY <1>1 DEF BenefitRow, Benefit
<1>3. "APPROVED" \in Stage /\ "VERIFIED" \in Stage
  BY DEF Stage
<1>4. AdvanceAtLeast(benefits[o], "APPROVED", benefits[o].realised)
        \in BenefitRow
  BY <1>1, <1>2, <1>3, AdvanceAtLeastType
<1>5. \A delta \in Delta :
        Advance(benefits[o], "VERIFIED", benefits[o].realised, delta)
          \in BenefitRow
  BY <1>2, <1>3 DEF Advance, BenefitRow, Benefit
<1>6. QED
  BY <1>1, <1>4, <1>5

\* Every step of the engine leaves well-formed rows in every table.
LEMMA TypeStep == TypeOK /\ [Next]_vars => TypeOK'
<1> SUFFICES ASSUME TypeOK, [Next]_vars
             PROVE  TypeOK'
  OBVIOUS
<1>0. NoPlan \in PlanRow /\ NoRun \in Run
  BY NullRowType
<1>1. ASSUME NEW p \in Plan, PlanExecution(p)
      PROVE  TypeOK'
  <2>1. PICK blocked \in BOOLEAN, mayExecute \in SUBSET ExternalTasks :
          plans' = [plans EXCEPT ![p] =
            [status |-> IF blocked THEN "DRAFT" ELSE "AWAITING_AUTHORISATION",
             blocked |-> blocked,
             authorised |-> FALSE,
             tasks |-> [t \in Task |-> NewTask(MustAsk(t, t \in mayExecute))]]]
    BY <1>1 DEF PlanExecution
  <2>2. \A g \in BOOLEAN : NewTask(g) \in TaskRow
    BY DEF NewTask, TaskRow, TaskStatus
  <2>3. \A t \in Task : MustAsk(t, t \in mayExecute) \in BOOLEAN
    BY DEF MustAsk
  <2>4. [t \in Task |-> NewTask(MustAsk(t, t \in mayExecute))]
          \in [Task -> TaskRow]
    BY <2>2, <2>3
  <2>5. plans' \in [Plan -> PlanRow]
    BY <2>1, <2>4 DEF TypeOK, PlanRow, PlanStatus
  <2>6. QED
    BY <1>1, <2>5 DEF PlanExecution, TypeOK
<1>2. ASSUME NEW p \in Plan, AuthorisePlan(p)
      PROVE  TypeOK'
  <2> DEFINE o == OpportunityOf[p]
  <2>1. o \in Opportunity
    BY EngineAssumption
  <2>2. plans' \in [Plan -> PlanRow]
    <3>1. plans' = [plans EXCEPT ![p].status = "AUTHORISED",
                                 ![p].authorised = TRUE]
      BY <1>2 DEF AuthorisePlan
    <3>2. QED
      BY <3>1 DEF TypeOK, PlanRow, PlanStatus
  <2>3. benefits' \in [Opportunity -> BenefitRow]
    <3>1. \/ benefits' = benefits
          \/ benefits' = [benefits EXCEPT ![o] =
                            AdvanceAtLeast(@, "APPROVED", @.realised)]
      BY <1>2 DEF AuthorisePlan
    <3>2. QED
      BY <2>1, <3>1, LedgerStepType DEF TypeOK, BenefitRow
  <2>4. baselines' \in [Plan -> BaselineRow]
    <3>1. \/ baselines' = baselines
          \/ \E provable \in BOOLEAN :
               baselines' = CaptureBaseline(baselines, p, provable)
      BY <1>2 DEF AuthorisePlan
    <3>2. baselines \in [Plan -> BaselineRow]
      BY DEF TypeOK
    <3>3. \/ baselines' = baselines
          \/ baselines' = [baselines EXCEPT ![p].captured = TRUE]
      BY <3>1 DEF CaptureBaseline
    <3>4. [baselines[p] EXCEPT !.captured = TRUE] \in BaselineRow
      BY <3>2 DEF BaselineRow
    <3>5. QED
      BY <3>2, <3>3, <3>4
  <2>5. runs' \in [Request -> Run] /\ crashes' \in 0..MaxCrashes
    <3>1. UNCHANGED <<runs, crashes>> \/ ProcessDies
      BY <1>2 DEF AuthorisePlan
    <3>2. QED
      BY <1>0, <3>1, EngineAssumption DEF TypeOK, ProcessDies
  <2>6. QED
    BY <1>2, <2>2, <2>3, <2>4, <2>5 DEF AuthorisePlan, TypeOK, BenefitRow
<1>3. ASSUME NEW p \in Plan, StopPlan(p)
      PROVE  TypeOK'
  <2>1. plans[p] \in PlanRow /\ \A t \in Task : plans[p].tasks[t] \in TaskRow
    BY DEF TypeOK, PlanRow
  <2>2. [t \in Task |-> StoppedTask(plans[p].tasks[t])] \in [Task -> TaskRow]
    BY <2>1, TaskUpdateType
  <2>3. Stopped(plans[p]) \in PlanRow
    BY <2>1, <2>2 DEF Stopped, PlanRow, PlanStatus
  <2>4. plans' \in [Plan -> PlanRow]
    BY <1>3, <2>3 DEF StopPlan, TypeOK
  <2>5. commands' \in 0..MaxCommands
    BY <1>3, EngineAssumption DEF StopPlan, Command, TypeOK
  <2>6. QED
    BY <1>3, <2>4, <2>5 DEF StopPlan, TypeOK
<1>4. ASSUME NEW p \in Plan, NEW t \in Task, NEW d \in {"APPROVED", "REJECTED"},
             ApproveTask(p, t, d)
      PROVE  TypeOK'
  <2>1. plans' \in [Plan -> PlanRow]
    <3>1. DecidedTask(plans[p].tasks[t], d) \in TaskRow
      BY TaskUpdateType DEF TypeOK, PlanRow
    <3>2. StatusDecided(plans[p], d) \in PlanStatus
      BY DEF StatusDecided, PlanStatus
    <3>3. plans' = plans \/ plans' = [plans EXCEPT ![p] = Decided(@, t, d)]
      BY <1>4 DEF ApproveTask
    <3>4. Decided(plans[p], t, d) \in PlanRow
      BY <3>1, <3>2 DEF Decided, TypeOK, PlanRow
    <3>5. QED
      BY <3>3, <3>4 DEF TypeOK
  <2>2. approvals' \in [ApprovalId -> ApprovalRow]
    BY <1>4 DEF ApproveTask, TypeOK, ApprovalRow
  <2>3. consented' \subseteq Plan
    BY <1>4 DEF ApproveTask, TypeOK
  <2>4. runs' \in [Request -> Run] /\ crashes' \in 0..MaxCrashes
    <3>1. UNCHANGED <<runs, crashes>> \/ ProcessDies
      BY <1>4 DEF ApproveTask
    <3>2. QED
      BY <1>0, <3>1, EngineAssumption DEF TypeOK, ProcessDies
  <2>5. commands' \in 0..MaxCommands
    BY <1>4, EngineAssumption DEF ApproveTask, Command, TypeOK
  <2>6. QED
    BY <1>4, <2>1, <2>2, <2>3, <2>4, <2>5 DEF ApproveTask, TypeOK
<1>5. ASSUME NEW p \in Plan, NEW delta \in Delta, VerifyPlan(p, delta)
      PROVE  TypeOK'
  <2> DEFINE o == OpportunityOf[p]
  <2>1. o \in Opportunity
    BY EngineAssumption
  <2>2. baselines' \in [Plan -> BaselineRow]
    BY <1>5 DEF VerifyPlan, TypeOK, BaselineRow
  <2>3. benefits' \in [Opportunity -> BenefitRow]
    <3>1. [benefits EXCEPT ![o] =
             Advance(benefits[o], "VERIFIED", benefits[o].realised, delta)]
            \in [Opportunity -> BenefitRow]
      BY <2>1, LedgerStepType
    <3>2. \/ benefits' = benefits
          \/ benefits' = [benefits EXCEPT ![o] =
               Advance(benefits[o], "VERIFIED", benefits[o].realised, delta)]
      BY <1>5 DEF VerifyPlan
    <3>3. QED
      BY <3>1, <3>2 DEF TypeOK, BenefitRow
  <2>4. runs' \in [Request -> Run] /\ crashes' \in 0..MaxCrashes
    <3>1. UNCHANGED <<runs, crashes>> \/ ProcessDies
      BY <1>5 DEF VerifyPlan
    <3>2. QED
      BY <1>0, <3>1, EngineAssumption DEF TypeOK, ProcessDies
  <2>5. QED
    BY <1>5, <2>2, <2>3, <2>4 DEF VerifyPlan, TypeOK, BenefitRow
<1>6. ASSUME NEW r \in Request, NEW p \in Plan, RunExecution(r, p)
      PROVE  TypeOK'
  <2> DEFINE work == [plans[p] EXCEPT !.status = "EXECUTING"]
             stored == [plans EXCEPT ![p] = work]
  <2>1. work \in PlanRow /\ stored \in [Plan -> PlanRow] /\ 1 \in Nat
    BY DEF TypeOK, PlanRow, PlanStatus
  <2>2. Proceed(r, p, work, 1, stored)
    BY <1>6 DEF RunExecution
  <2> HIDE DEF work, stored
  <2>3. QED
    BY <1>6, <2>1, <2>2, ProceedType DEF RunExecution, TypeOK, BenefitRow
<1>7. ASSUME NEW r \in Request, TaskSucceeds(r)
      PROVE  TypeOK'
  <2> DEFINE p == runs[r].plan
             t == runs[r].task
             work(v) == [runs[r].work EXCEPT !.tasks[t] = Succeeded(@, v)]
  <2>1. p \in Plan /\ t \in Task /\ runs[r].work \in PlanRow
        /\ runs[r].work.tasks[t] \in TaskRow
    BY <1>7 DEF TaskSucceeds, TypeOK, Run, PlanRow
  <2>2. t + 1 \in Nat /\ plans \in [Plan -> PlanRow]
    BY <2>1 DEF Task, TypeOK
  <2>3. PICK v \in TaskValue : Proceed(r, p, work(v), t + 1, plans)
    BY <1>7 DEF TaskSucceeds
  <2>4. work(v) \in PlanRow
    <3>1. Succeeded(runs[r].work.tasks[t], v) \in TaskRow
      BY <2>1, TaskUpdateType
    <3>2. QED
      BY <2>1, <3>1 DEF PlanRow
  <2>5. effects' \subseteq [plan : Plan, task : Task,
                            approvalId : ApprovalId \cup {None}]
    BY <1>7, <2>1 DEF TaskSucceeds, TypeOK, TaskRow
  <2> HIDE DEF p, t, work
  <2>6. QED
    BY <1>7, <2>1, <2>2, <2>3, <2>4, <2>5, ProceedType
    DEF TaskSucceeds, TypeOK, BenefitRow
<1>8. ASSUME NEW r \in Request, TaskRetries(r)
      PROVE  TypeOK'
  <2>1. runs' \in [Request -> Run]
    BY <1>8, EngineAssumption DEF TaskRetries, TypeOK, Run
  <2>2. QED
    BY <1>8, <2>1 DEF TaskRetries, TypeOK
<1>9. ASSUME NEW r \in Request, TaskFails(r)
      PROVE  TypeOK'
  <2> DEFINE p == runs[r].plan
             t == runs[r].task
             row == [runs[r].work EXCEPT !.status = "FAILED",
                                         !.tasks[t] = GivenUp(@)]
  <2>1. p \in Plan /\ t \in Task /\ runs[r].work \in PlanRow
        /\ runs[r].work.tasks[t] \in TaskRow
    BY <1>9 DEF TaskFails, TypeOK, Run, PlanRow
  <2>2. row \in PlanRow /\ row.status \in FinalStatus
    <3>1. GivenUp(runs[r].work.tasks[t]) \in TaskRow
      BY <2>1, TaskUpdateType
    <3>2. QED
      BY <2>1, <3>1 DEF PlanRow, PlanStatus, FinalStatus
  <2>3. Finish(r, p, row, plans) /\ plans \in [Plan -> PlanRow]
    BY <1>9 DEF TaskFails, TypeOK
  <2> HIDE DEF p, t, row
  <2>4. QED
    BY <1>9, <2>1, <2>2, <2>3, FinishType DEF TaskFails, TypeOK, BenefitRow
<1>10. ASSUME NEW r \in Request, AdapterThrows(r)
       PROVE  TypeOK'
  <2>1. runs' \in [Request -> Run]
    BY <1>0, <1>10 DEF AdapterThrows, TypeOK
  <2>2. QED
    BY <1>10, <2>1 DEF AdapterThrows, TypeOK
<1>11. ASSUME Crash
       PROVE  TypeOK'
  <2>1. runs' \in [Request -> Run] /\ crashes' \in 0..MaxCrashes
    BY <1>0, <1>11, EngineAssumption DEF Crash, ProcessDies, TypeOK
  <2>2. QED
    BY <1>11, <2>1 DEF Crash, TypeOK
<1>12. CASE UNCHANGED vars
  BY <1>12 DEF vars, TypeOK
<1>13. QED
  BY <1>1, <1>2, <1>3, <1>4, <1>5, <1>6, <1>7, <1>8, <1>9, <1>10, <1>11,
     <1>12 DEF Next, AdapterAnswers

\* Type correctness (engine.ts, ledger.ts, baseline.ts): every table holds rows
\* of its type in every reachable state.
THEOREM TypeCorrect == Spec => []TypeOK
<1>1. Init => TypeOK
  <2> SUFFICES ASSUME Init PROVE TypeOK
    OBVIOUS
  <2>1. NoPlan \in PlanRow /\ NoRun \in Run
    BY NullRowType
  <2>2. NewBenefit(NothingMeasured) \in BenefitRow
    BY DEF NewBenefit, NothingMeasured, BenefitRow, Benefit, Stage
  <2>3. 1 \in Task /\ 0 \in 0..MaxCrashes /\ 0 \in 0..MaxCommands
    BY EngineAssumption DEF Task
  <2>4. NoApproval \in ApprovalRow /\ NoBaseline \in BaselineRow
    BY <2>3 DEF NoApproval, ApprovalRow, NoBaseline, BaselineRow
  <2>5. QED
    BY <2>1, <2>2, <2>3, <2>4
    DEF Init, TypeOK, BenefitRow, OpportunityStatus
<1>2. QED
  BY <1>1, TypeStep, PTL DEF Spec

-----------------------------------------------------------------------------
(* Authority: nothing happens in a plan's name before somebody accepted it. *)

\* What the end of a run can do to the plans and to the runs in flight.
LEMMA FinishFrame ==
  ASSUME NEW r \in Request, NEW p \in Plan, NEW row, NEW stored,
         runs \in [Request -> Run], Finish(r, p, row, stored)
  PROVE  /\ plans' = stored \/ plans' = [stored EXCEPT ![p] = row]
         /\ \A q \in Request : runs'[q] = runs[q] \/ runs'[q] = NoRun
BY DEF Finish, ProcessDies

\* What going on with a run can do to the plans and to the runs in flight:
\* only its own plan is written, and only with a status runs end with, or
\* only its own slot goes to the adapter, with the copy it was given.
LEMMA ProceedFrame ==
  ASSUME NEW r \in Request, NEW p \in Plan, NEW work \in PlanRow, NEW from,
         NEW stored \in [Plan -> PlanRow],
         runs \in [Request -> Run], Proceed(r, p, work, from, stored)
  PROVE  /\ \/ plans' = stored
            \/ \E row : /\ plans' = [stored EXCEPT ![p] = row]
                        /\ row.status \in FinalStatus
         /\ \A q \in Request :
              \/ runs'[q] = runs[q] \/ runs'[q] = NoRun
              \/ /\ q = r /\ runs'[q].plan = p /\ runs'[q].work = work
<1>1. ASSUME NEW t \in Task,
             runs' = [runs EXCEPT ![r] =
               [plan |-> p, work |-> work, task |-> t, attempt |-> 0]]
      PROVE  \A q \in Request :
               \/ runs'[q] = runs[q] \/ runs'[q] = NoRun
               \/ /\ q = r /\ runs'[q].plan = p /\ runs'[q].work = work
  BY <1>1
<1>2. ASSUME NEW row, row.status \in FinalStatus, Finish(r, p, row, stored)
      PROVE  /\ \/ plans' = stored
                \/ \E new : /\ plans' = [stored EXCEPT ![p] = new]
                            /\ new.status \in FinalStatus
             /\ \A q \in Request : runs'[q] = runs[q] \/ runs'[q] = NoRun
  BY <1>2, FinishFrame
<1>3. ASSUME NEW t \in Task, NEW a \in ApprovalId
      PROVE  [work EXCEPT !.status = "AWAITING_APPROVAL",
                          !.tasks[t] = Asked(@, a)].status \in FinalStatus
  BY DEF PlanRow, FinalStatus
<1>4. [work EXCEPT !.status = "COMPLETED"].status \in FinalStatus
  BY DEF PlanRow, FinalStatus
<1>5. CASE \E t \in Task :
       /\ GetsTo(work.tasks, from, t) /\ ~MustStopAt(work.tasks[t])
       /\ runs' = [runs EXCEPT ![r] =
                     [plan |-> p, work |-> work, task |-> t, attempt |-> 0]]
       /\ plans' = stored
       /\ UNCHANGED <<approvals, opportunities, benefits, verificationJobs,
                      crashes>>
  BY <1>1, <1>5
<1>6. CASE \E t \in Task, a \in ApprovalId :
       /\ GetsTo(work.tasks, from, t) /\ MustStopAt(work.tasks[t])
       /\ approvals[a].plan = None
       /\ approvals' = [approvals EXCEPT ![a] =
                          [plan |-> p, task |-> t, decision |-> "NONE"]]
       /\ Finish(r, p,
            [work EXCEPT !.status = "AWAITING_APPROVAL",
                         !.tasks[t] = Asked(@, a)],
            stored)
  BY <1>2, <1>3, <1>6
<1>7. CASE /\ GetsToEnd(work.tasks, from)
           /\ Finish(r, p, [work EXCEPT !.status = "COMPLETED"], stored)
           /\ UNCHANGED approvals
  BY <1>2, <1>4, <1>7
<1>8. QED
  BY <1>5, <1>6, <1>7 DEF Proceed

\* The statuses only an accepted plan can have; a plan nobody accepted may
\* still be STOPPED or have a gate rejected.
Accepted == {"AUTHORISED", "EXECUTING", "AWAITING_APPROVAL", "COMPLETED", "FAILED"}

\* The invariant is inductive only with the two facts that tie the statuses
\* and the runs in flight, whose copies outlive any later change, to consent.
Authority ==
  /\ \A p \in Plan : plans[p].status \in Accepted => p \in consented
  /\ \A r \in Request : runs[r].plan # None => runs[r].plan \in consented
  /\ ConsentFirst
  /\ UntouchedUntilAuthorised

\* A step that keeps the effects, the baselines and the consent of a plan whose
\* status it may move out of BeforeAuthorisation but not into it, or into
\* Accepted without consent, keeps Authority.
LEMMA AuthorityFrame ==
  ASSUME TypeOK, Authority, NEW p \in Plan,
         \A q \in Plan : q # p => plans'[q] = plans[q],
         \/ plans'[p].status = plans[p].status
         \/ /\ plans'[p].status \in PlanStatus \ BeforeAuthorisation
            /\ plans'[p].status \in Accepted => p \in consented',
         consented \subseteq consented',
         \A r \in Request : \/ runs'[r].plan \in {runs[r].plan, None}
                            \/ /\ runs'[r].plan = p /\ p \in consented'
                               /\ plans'[p].status \notin BeforeAuthorisation,
         \A e \in effects' :
           \/ e \in effects
           \/ /\ e.plan = p /\ p \in consented'
              /\ plans'[p].status \notin BeforeAuthorisation,
         \A q \in Plan : baselines'[q].captured =>
           \/ baselines[q].captured
           \/ q = p /\ plans'[p].status \notin BeforeAuthorisation
  PROVE  Authority'
<1>1. \A q \in Plan : plans'[q].status \in BeforeAuthorisation =>
        plans[q].status \in BeforeAuthorisation
  OBVIOUS
<1>2. \A e \in effects : e.plan \in Plan
  BY DEF TypeOK
<1>3. \A q \in Plan : plans'[q].status \in Accepted => q \in consented'
  BY DEF Authority
<1>4. \A r \in Request : runs'[r].plan # None => runs'[r].plan \in consented'
  BY DEF Authority
<1>5. ConsentFirst'
  BY DEF Authority, ConsentFirst
<1>6. UntouchedUntilAuthorised'
  <2> SUFFICES ASSUME NEW q \in Plan,
                      plans'[q].status \in BeforeAuthorisation
               PROVE  /\ \A r \in Request : runs'[r].plan # q
                      /\ \A e \in effects' : e.plan # q
                      /\ ~baselines'[q].captured
    BY DEF UntouchedUntilAuthorised
  <2>1. /\ \A r \in Request : runs[r].plan # q
        /\ \A e \in effects : e.plan # q
        /\ ~baselines[q].captured
    BY <1>1 DEF Authority, UntouchedUntilAuthorised
  <2>2. None # q
    BY EngineAssumption
  <2>3. QED
    BY <2>1, <2>2
<1>7. QED
  BY <1>3, <1>4, <1>5, <1>6 DEF Authority

\* Every step keeps Authority.
LEMMA AuthorityStep == TypeOK /\ Authority /\ [Next]_vars => Authority'
<1> SUFFICES ASSUME TypeOK, Authority, [Next]_vars
             PROVE  Authority'
  OBVIOUS
<1> USE DEF Accepted, BeforeAuthorisation
<1>0. /\ NoRun.plan = None
      /\ runs \in [Request -> Run] /\ plans \in [Plan -> PlanRow]
      /\ \A p \in Plan : plans[p].status \in PlanStatus \cup {"ABSENT"}
  BY DEF NoRun, TypeOK, PlanRow
<1>1. ASSUME NEW p \in Plan, PlanExecution(p)
      PROVE  Authority'
  <2>1. /\ plans[p].status = "ABSENT"
        /\ plans'[p].status \in {"DRAFT", "AWAITING_AUTHORISATION"}
        /\ \A q \in Plan : q # p => plans'[q] = plans[q]
    BY <1>0, <1>1 DEF PlanExecution
  <2>2. UNCHANGED <<runs, effects, baselines, consented>>
    BY <1>1 DEF PlanExecution
  <2>3. QED
    BY <2>1, <2>2 DEF Authority, ConsentFirst, UntouchedUntilAuthorised
<1>2. ASSUME NEW p \in Plan, AuthorisePlan(p)
      PROVE  Authority'
  <2>1. /\ plans'[p].status = "AUTHORISED"
        /\ \A q \in Plan : q # p => plans'[q] = plans[q]
        /\ consented' = consented \cup {p} /\ effects' = effects
    BY <1>0, <1>2 DEF AuthorisePlan, PlanRow
  <2>2. \A r \in Request : runs'[r].plan \in {runs[r].plan, None}
    <3>1. UNCHANGED <<runs, crashes>> \/ ProcessDies
      BY <1>2 DEF AuthorisePlan
    <3>2. QED
      BY <1>0, <3>1 DEF ProcessDies
  <2>3. \A q \in Plan : baselines'[q].captured => baselines[q].captured \/ q = p
    <3>1. \/ baselines' = baselines
          \/ \E provable \in BOOLEAN :
               baselines' = CaptureBaseline(baselines, p, provable)
      BY <1>2 DEF AuthorisePlan
    <3>2. QED
      BY <3>1 DEF CaptureBaseline, TypeOK
  <2>4. QED
    BY <2>1, <2>2, <2>3, AuthorityFrame DEF PlanStatus
<1>3. ASSUME NEW p \in Plan, StopPlan(p)
      PROVE  Authority'
  <2>1. /\ plans'[p].status = "STOPPED"
        /\ \A q \in Plan : q # p => plans'[q] = plans[q]
    BY <1>0, <1>3 DEF StopPlan, Stopped, PlanRow
  <2>2. UNCHANGED <<runs, effects, baselines, consented>>
    BY <1>3 DEF StopPlan
  <2>3. QED
    BY <2>1, <2>2, AuthorityFrame DEF PlanStatus
<1>4. ASSUME NEW p \in Plan, NEW t \in Task, NEW d \in {"APPROVED", "REJECTED"},
             ApproveTask(p, t, d)
      PROVE  Authority'
  <2>1. CASE UNCHANGED <<runs, crashes>>
             /\ plans' = [plans EXCEPT ![p] = Decided(@, t, d)]
             /\ consented' = IF d = "APPROVED" THEN consented \cup {p}
                             ELSE consented
    <3>1. Decided(plans[p], t, d).status = StatusDecided(plans[p], d)
      BY <1>0 DEF Decided, PlanRow
    <3>2. /\ plans'[p].status \in {"AUTHORISED", "STOPPED"}
          /\ plans'[p].status = "AUTHORISED" => p \in consented'
          /\ consented \subseteq consented'
      BY <1>0, <2>1, <3>1 DEF StatusDecided
    <3>3. UNCHANGED <<effects, baselines>>
          /\ \A q \in Plan : q # p => plans'[q] = plans[q]
      BY <1>0, <1>4, <2>1 DEF ApproveTask
    <3>4. QED
      BY <2>1, <3>2, <3>3, AuthorityFrame DEF PlanStatus
  <2>2. CASE ProcessDies /\ UNCHANGED <<plans, consented>>
    <3>1. UNCHANGED <<effects, baselines>>
      BY <1>4 DEF ApproveTask
    <3>2. QED
      BY <1>0, <2>2, <3>1, AuthorityFrame DEF ProcessDies
  <2>3. QED
    BY <1>4, <2>1, <2>2 DEF ApproveTask
<1>5. ASSUME NEW p \in Plan, NEW delta \in Delta, VerifyPlan(p, delta)
      PROVE  Authority'
  <2>1. UNCHANGED <<plans, effects, consented>>
        /\ \A q \in Plan : baselines'[q].captured => baselines[q].captured
    BY <1>5 DEF VerifyPlan, TypeOK, BaselineRow
  <2>2. \A r \in Request : runs'[r].plan \in {runs[r].plan, None}
    <3>1. UNCHANGED <<runs, crashes>> \/ ProcessDies
      BY <1>5 DEF VerifyPlan
    <3>2. QED
      BY <1>0, <3>1 DEF ProcessDies
  <2>3. QED
    BY <2>1, <2>2, AuthorityFrame
<1>6. ASSUME NEW r \in Request, NEW p \in Plan, RunExecution(r, p)
      PROVE  Authority'
  <2> DEFINE work == [plans[p] EXCEPT !.status = "EXECUTING"]
             stored == [plans EXCEPT ![p] = work]
  <2>1. work \in PlanRow /\ work.status = "EXECUTING"
        /\ stored \in [Plan -> PlanRow]
    BY <1>0 DEF PlanRow, PlanStatus
  <2>2. Proceed(r, p, work, 1, stored) /\ p \in consented
    BY <1>6 DEF RunExecution, Runnable, Authority
  <2>3. /\ plans'[p].status \in PlanStatus \ BeforeAuthorisation
        /\ \A q \in Plan : q # p => plans'[q] = plans[q]
        /\ \A q \in Request : \/ runs'[q].plan \in {runs[q].plan, None}
                              \/ runs'[q].plan = p
    <3>1. stored[p] = work /\ \A q \in Plan : q # p => stored[q] = plans[q]
      BY <1>0
    <3> HIDE DEF work, stored
    <3>2. QED
      BY <1>0, <2>1, <2>2, <3>1, ProceedFrame DEF FinalStatus, PlanStatus
  <2>4. UNCHANGED <<baselines, effects, consented>>
    BY <1>6 DEF RunExecution
  <2> HIDE DEF work, stored
  <2>5. QED
    BY <2>2, <2>3, <2>4, AuthorityFrame
<1>7. ASSUME NEW r \in Request, TaskSucceeds(r)
      PROVE  Authority'
  <2> DEFINE p == runs[r].plan
             t == runs[r].task
             work(v) == [runs[r].work EXCEPT !.tasks[t] = Succeeded(@, v)]
  <2>1. p \in Plan /\ p # None /\ runs[r].work \in PlanRow
        /\ runs[r].work.tasks[t] \in TaskRow
    BY <1>0, <1>7 DEF TaskSucceeds, Run, PlanRow
  <2>2. p \in consented /\ plans[p].status \notin BeforeAuthorisation
    BY <2>1 DEF Authority, UntouchedUntilAuthorised
  <2>3. PICK v \in TaskValue : Proceed(r, p, work(v), t + 1, plans)
    BY <1>7 DEF TaskSucceeds
  <2>4. work(v) \in PlanRow
    BY <2>1, TaskUpdateType DEF PlanRow
  <2>5. /\ plans'[p].status = plans[p].status \/ plans'[p].status \in FinalStatus
        /\ \A q \in Plan : q # p => plans'[q] = plans[q]
        /\ \A q \in Request : \/ runs'[q].plan \in {runs[q].plan, None}
                              \/ runs'[q].plan = p
    <3> HIDE DEF p, t, work
    <3>1. QED
      BY <1>0, <2>1, <2>3, <2>4, ProceedFrame
  <2>6. UNCHANGED <<baselines, consented>>
        /\ \A e \in effects' : e \in effects \/ e.plan = p
    BY <1>7 DEF TaskSucceeds
  <2> HIDE DEF p, t, work
  <2>7. QED
    BY <2>1, <2>2, <2>5, <2>6, AuthorityFrame DEF FinalStatus, PlanStatus
<1>8. ASSUME NEW r \in Request, TaskRetries(r)
      PROVE  Authority'
  <2>1. \A q \in Request : runs'[q].plan = runs[q].plan
    BY <1>0, <1>8 DEF TaskRetries, Run
  <2>2. UNCHANGED <<plans, effects, baselines, consented>>
    BY <1>8 DEF TaskRetries
  <2>3. QED
    BY <2>1, <2>2 DEF Authority, ConsentFirst, UntouchedUntilAuthorised
<1>9. ASSUME NEW r \in Request, TaskFails(r)
      PROVE  Authority'
  <2> DEFINE p == runs[r].plan
             row == [runs[r].work EXCEPT !.status = "FAILED",
                       !.tasks[runs[r].task] = GivenUp(@)]
  <2>1. p \in Plan /\ p # None /\ row.status = "FAILED"
    BY <1>0, <1>9 DEF TaskFails, Run, PlanRow
  <2>2. p \in consented /\ plans[p].status \notin BeforeAuthorisation
    BY <2>1 DEF Authority, UntouchedUntilAuthorised
  <2>3. Finish(r, p, row, plans)
    BY <1>9 DEF TaskFails
  <2> HIDE DEF p, row
  <2>4. /\ plans'[p].status = plans[p].status \/ plans'[p].status = "FAILED"
        /\ \A q \in Plan : q # p => plans'[q] = plans[q]
        /\ \A q \in Request : runs'[q].plan \in {runs[q].plan, None}
    BY <1>0, <2>1, <2>3, FinishFrame
  <2>5. UNCHANGED <<baselines, effects, consented>>
    BY <1>9 DEF TaskFails
  <2>6. QED
    BY <2>1, <2>2, <2>4, <2>5, AuthorityFrame DEF PlanStatus
<1>10. ASSUME NEW r \in Request, AdapterThrows(r)
       PROVE  Authority'
  <2>1. \A q \in Request : runs'[q].plan \in {runs[q].plan, None}
    BY <1>0, <1>10 DEF AdapterThrows
  <2>2. UNCHANGED <<plans, effects, baselines, consented>>
    BY <1>10 DEF AdapterThrows
  <2>3. None \notin Plan
    BY EngineAssumption
  <2>4. QED
    BY <2>1, <2>2, <2>3 DEF Authority, ConsentFirst, UntouchedUntilAuthorised
<1>11. ASSUME Crash
       PROVE  Authority'
  <2>1. \A q \in Request : runs'[q].plan = None
    BY <1>0, <1>11 DEF Crash, ProcessDies
  <2>2. UNCHANGED <<plans, effects, baselines, consented>>
    BY <1>11 DEF Crash
  <2>3. None \notin Plan
    BY EngineAssumption
  <2>4. QED
    BY <2>1, <2>2, <2>3 DEF Authority, ConsentFirst, UntouchedUntilAuthorised
<1>12. CASE UNCHANGED vars
  BY <1>12 DEF vars, Authority, ConsentFirst, UntouchedUntilAuthorised
<1>13. QED
  BY <1>1, <1>2, <1>3, <1>4, <1>5, <1>6, <1>7, <1>8, <1>9, <1>10, <1>11,
     <1>12 DEF Next, AdapterAnswers

\* So what is done for a plan, and what runs write back of it, has its consent,
\* always.
LEMMA AuthorityInvariant == Spec => []Authority
<1>1. Init => Authority
  <2>1. NoRun.plan = None /\ NoPlan.status = "ABSENT" /\ ~NoBaseline.captured
    BY DEF NoRun, NoPlan, NoBaseline
  <2>2. None \notin Plan
    BY EngineAssumption
  <2>3. QED
    BY <2>1, <2>2
    DEF Init, Authority, Accepted, ConsentFirst, UntouchedUntilAuthorised
<1>2. QED
  BY <1>1, AuthorityStep, TypeCorrect, PTL DEF Spec

\* No external or internal action is carried out in the name of a plan before
\* somebody with the permission to authorise accepted it (engine.ts:323,
\* api/execution/route.ts:27-33).
THEOREM Consent == Spec => []ConsentFirst
BY AuthorityInvariant, PTL DEF Authority

\* A plan still in DRAFT or AWAITING_AUTHORISATION is untouched, although runs
\* write whole plans back long after reading them (engine.ts:320-368).
THEOREM Untouched == Spec => []UntouchedUntilAuthorised
BY AuthorityInvariant, PTL DEF Authority

\* A baseline is only ever captured before anything was done for its plan and
\* while no run of it is under way (engine.ts:289-291).
THEOREM BaselineFirst == Spec => BaselineBeforeWork
<1> DEFINE Captures ==
      \A p \in Plan : baselines'[p].captured /\ ~baselines[p].captured =>
        /\ \A e \in effects' : e.plan # p
        /\ \A r \in Request : runs[r].plan # p
<1>1. ASSUME TypeOK, Authority, [Next]_vars
      PROVE  Captures \/ UNCHANGED vars
  <2>1. ASSUME NEW p \in Plan, AuthorisePlan(p)
        PROVE  Captures
    <3>1. plans[p].status = "AWAITING_AUTHORISATION" /\ effects' = effects
      BY <2>1 DEF AuthorisePlan, CanAuthorise
    <3>2. \A q \in Plan : q # p => baselines'[q] = baselines[q]
      <4>1. \/ baselines' = baselines
            \/ \E provable \in BOOLEAN :
                 baselines' = CaptureBaseline(baselines, p, provable)
        BY <2>1 DEF AuthorisePlan
      <4>2. ASSUME NEW provable \in BOOLEAN
            PROVE  \A q \in Plan : q # p =>
                     CaptureBaseline(baselines, p, provable)[q] = baselines[q]
        <5>1. baselines \in [Plan -> BaselineRow]
          BY <1>1 DEF TypeOK
        <5>2. QED
          BY <5>1 DEF CaptureBaseline
      <4>3. QED
        BY <4>1, <4>2
    <3>3. plans[p].status \in BeforeAuthorisation
      BY <3>1 DEF BeforeAuthorisation
    <3>4. /\ \A e \in effects : e.plan # p
          /\ \A r \in Request : runs[r].plan # p
      BY <1>1, <3>3 DEF Authority, UntouchedUntilAuthorised
    <3>5. QED
      BY <3>1, <3>2, <3>4
  <2>2. ASSUME NEW p \in Plan, NEW delta \in Delta, VerifyPlan(p, delta)
        PROVE  Captures
    BY <1>1, <2>2 DEF VerifyPlan, TypeOK, BaselineRow
  <2>3. CASE UNCHANGED baselines
    BY <2>3
  <2>4. \A p \in Plan :
          PlanExecution(p) \/ StopPlan(p) => UNCHANGED baselines
    BY DEF PlanExecution, StopPlan
  <2>5. \A p \in Plan, t \in Task, d \in {"APPROVED", "REJECTED"} :
          ApproveTask(p, t, d) => UNCHANGED baselines
    BY DEF ApproveTask
  <2>6. \A r \in Request :
          /\ AdapterAnswers(r) => UNCHANGED baselines
          /\ \A p \in Plan : RunExecution(r, p) => UNCHANGED baselines
    BY DEF AdapterAnswers, RunExecution, TaskSucceeds, TaskRetries, TaskFails,
           AdapterThrows
  <2>7. Crash => UNCHANGED baselines
    BY DEF Crash
  <2> HIDE DEF Captures
  <2>8. QED
    BY <1>1, <2>1, <2>2, <2>3, <2>4, <2>5, <2>6, <2>7 DEF Next
<1>2. QED
  BY <1>1, TypeCorrect, AuthorityInvariant, PTL
  DEF Spec, BaselineBeforeWork

-----------------------------------------------------------------------------
(* Approvals: an id on a task is the id of that task's own gate.            *)

\* Every approval id on a row of the plan p belongs, in the approvals table
\* `table', to the task that carries it.
RowBound(table, p, row) ==
  \A t \in Task : row.tasks[t].approvalId # None =>
    /\ table[row.tasks[t].approvalId].plan = p
    /\ table[row.tasks[t].approvalId].task = t

\* The binding is inductive only if it holds of the stored plans and of the
\* copies the runs work on as well: a copy may come back long after the plan
\* it was read from has moved on.
Bindings ==
  /\ \A p \in Plan : RowBound(approvals, p, plans[p])
  /\ \A r \in Request : runs[r].plan # None =>
       RowBound(approvals, runs[r].plan, runs[r].work)
  /\ \A e \in effects :
       /\ e.task \in ExternalTasks => e.approvalId # None
       /\ e.approvalId # None => /\ approvals[e.approvalId].plan = e.plan
                                 /\ approvals[e.approvalId].task = e.task

\* The approvals table may be written only where nobody is bound to a row or
\* without moving what a row is about.
Outlives(table, new) ==
  \A a \in ApprovalId : table[a].plan # None =>
    new[a].plan = table[a].plan /\ new[a].task = table[a].task

\* Such a write keeps every binding of a well-formed row.
LEMMA BoundOutlives ==
  ASSUME NEW table, NEW new, Outlives(table, new),
         NEW p \in Plan, NEW row \in PlanRow, RowBound(table, p, row)
  PROVE  RowBound(new, p, row)
<1> SUFFICES ASSUME NEW t \in Task, row.tasks[t].approvalId # None
             PROVE  /\ new[row.tasks[t].approvalId].plan = p
                    /\ new[row.tasks[t].approvalId].task = t
  BY DEF RowBound
<1>1. row.tasks[t].approvalId \in ApprovalId
  BY DEF PlanRow, TaskRow
<1>2. /\ table[row.tasks[t].approvalId].plan = p
      /\ table[row.tasks[t].approvalId].task = t
  BY DEF RowBound
<1>3. None # p
  BY EngineAssumption
<1>4. QED
  BY <1>1, <1>2, <1>3 DEF Outlives

\* The updates of a task other than Asked() keep its approval id.
LEMMA UpdatesKeepId ==
  ASSUME NEW task \in TaskRow
  PROVE  /\ \A v : Succeeded(task, v).approvalId = task.approvalId
         /\ GivenUp(task).approvalId = task.approvalId
         /\ \A d : DecidedTask(task, d).approvalId = task.approvalId
         /\ StoppedTask(task).approvalId = task.approvalId
  BY DEF TaskRow, Succeeded, GivenUp, DecidedTask, StoppedTask

\* A row whose tasks carry the ids of another is bound as that one is.
LEMMA SameIdsBound ==
  ASSUME NEW table, NEW p, NEW row, NEW new, RowBound(table, p, row),
         \A t \in Task : new.tasks[t].approvalId = row.tasks[t].approvalId
  PROVE  RowBound(table, p, new)
  BY DEF RowBound

\* The approval rows an action leaves, and the rows it stores and works on, are
\* what is left to show of a step.
LEMMA BindingsFrame ==
  ASSUME TypeOK, Bindings, Outlives(approvals, approvals'),
         \A p \in Plan : plans'[p] = plans[p] \/ RowBound(approvals', p, plans'[p]),
         \A r \in Request :
           \/ runs'[r] = runs[r] \/ runs'[r] = NoRun
           \/ /\ runs'[r].plan = runs[r].plan /\ runs'[r].work = runs[r].work
           \/ RowBound(approvals', runs'[r].plan, runs'[r].work),
         \A e \in effects' : e \in effects \/
           /\ e.task \in ExternalTasks => e.approvalId # None
           /\ e.approvalId # None => /\ approvals'[e.approvalId].plan = e.plan
                                     /\ approvals'[e.approvalId].task = e.task
  PROVE  Bindings'
<1>1. \A p \in Plan : RowBound(approvals', p, plans'[p])
  <2> SUFFICES ASSUME NEW p \in Plan, plans'[p] = plans[p]
               PROVE  RowBound(approvals', p, plans'[p])
    OBVIOUS
  <2>1. plans[p] \in PlanRow /\ RowBound(approvals, p, plans[p])
    BY DEF TypeOK, Bindings
  <2>2. QED
    BY <2>1, BoundOutlives
<1>2. ASSUME NEW r \in Request, runs'[r].plan # None
      PROVE  RowBound(approvals', runs'[r].plan, runs'[r].work)
  <2>1. runs'[r] # NoRun
    BY <1>2 DEF NoRun
  <2>2. CASE runs'[r].plan = runs[r].plan /\ runs'[r].work = runs[r].work
    <3>1. /\ runs[r].plan \in Plan /\ runs[r].work \in PlanRow
          /\ RowBound(approvals, runs[r].plan, runs[r].work)
      BY <1>2, <2>2 DEF TypeOK, Run, Bindings
    <3>2. QED
      BY <2>2, <3>1, BoundOutlives
  <2>3. QED
    BY <2>1, <2>2
<1>3. ASSUME NEW e \in effects, e.approvalId # None
      PROVE  /\ approvals'[e.approvalId].plan = e.plan
             /\ approvals'[e.approvalId].task = e.task
  <2>1. e.approvalId \in ApprovalId /\ e.plan \in Plan
    BY <1>3 DEF TypeOK
  <2>2. approvals[e.approvalId].plan = e.plan /\ approvals[e.approvalId].task = e.task
    BY <1>3 DEF Bindings
  <2>3. None # e.plan
    BY <2>1, EngineAssumption
  <2>4. QED
    BY <2>1, <2>2, <2>3 DEF Outlives
<1>4. \A e \in effects : e.task \in ExternalTasks => e.approvalId # None
  BY DEF Bindings
<1>5. QED
  BY <1>1, <1>2, <1>3, <1>4 DEF Bindings

\* Running on keeps the approvals others are bound to, and stores and works on
\* bound rows: the one id it gives out is that of the row it opens.
LEMMA ProceedBinds ==
  ASSUME TypeOK, NEW r \in Request, NEW p \in Plan,
         NEW work \in PlanRow, NEW from, NEW stored \in [Plan -> PlanRow],
         RowBound(approvals, p, work),
         \A q \in Plan : RowBound(approvals, q, stored[q]),
         Proceed(r, p, work, from, stored)
  PROVE  /\ Outlives(approvals, approvals')
         /\ \A q \in Plan : RowBound(approvals', q, plans'[q])
         /\ \A q \in Request :
              \/ runs'[q] = runs[q] \/ runs'[q] = NoRun
              \/ RowBound(approvals', runs'[q].plan, runs'[q].work)
<1>0. runs \in [Request -> Run] /\ approvals \in [ApprovalId -> ApprovalRow]
  BY DEF TypeOK
<1>1. CASE \E t \in Task :
       /\ GetsTo(work.tasks, from, t) /\ ~MustStopAt(work.tasks[t])
       /\ runs' = [runs EXCEPT ![r] =
                     [plan |-> p, work |-> work, task |-> t, attempt |-> 0]]
       /\ plans' = stored
       /\ UNCHANGED <<approvals, opportunities, benefits, verificationJobs,
                      crashes>>
  BY <1>0, <1>1 DEF Outlives
<1>2. ASSUME NEW t \in Task, NEW a \in ApprovalId,
             approvals[a].plan = None,
             approvals' = [approvals EXCEPT ![a] =
                            [plan |-> p, task |-> t, decision |-> "NONE"]],
             Finish(r, p,
               [work EXCEPT !.status = "AWAITING_APPROVAL",
                            !.tasks[t] = Asked(@, a)],
               stored)
      PROVE  /\ Outlives(approvals, approvals')
             /\ \A q \in Plan : RowBound(approvals', q, plans'[q])
             /\ \A q \in Request : runs'[q] = runs[q] \/ runs'[q] = NoRun
  <2> DEFINE row == [work EXCEPT !.status = "AWAITING_APPROVAL",
                                 !.tasks[t] = Asked(@, a)]
  <2>1. Outlives(approvals, approvals')
    BY <1>0, <1>2 DEF Outlives
  <2>2. RowBound(approvals', p, work)
    BY <2>1, BoundOutlives
  <2>3. approvals'[a].plan = p /\ approvals'[a].task = t
    BY <1>0, <1>2
  <2>4. /\ row.tasks[t].approvalId = a
        /\ \A u \in Task : u # t => row.tasks[u] = work.tasks[u]
    BY DEF PlanRow, TaskRow, Asked
  <2>5. RowBound(approvals', p, row)
    <3> HIDE DEF row
    <3>1. QED
      BY <2>2, <2>3, <2>4 DEF RowBound
  <2>6. \A q \in Plan : RowBound(approvals', q, stored[q])
    BY <2>1, BoundOutlives
  <2> HIDE DEF row
  <2>7. /\ plans' = stored \/ plans' = [stored EXCEPT ![p] = row]
        /\ \A q \in Request : runs'[q] = runs[q] \/ runs'[q] = NoRun
    BY <1>0, <1>2, FinishFrame DEF row
  <2>8. QED
    BY <2>1, <2>5, <2>6, <2>7
<1>3. ASSUME Finish(r, p, [work EXCEPT !.status = "COMPLETED"], stored),
             UNCHANGED approvals
      PROVE  /\ Outlives(approvals, approvals')
             /\ \A q \in Plan : RowBound(approvals', q, plans'[q])
             /\ \A q \in Request : runs'[q] = runs[q] \/ runs'[q] = NoRun
  <2> DEFINE row == [work EXCEPT !.status = "COMPLETED"]
  <2>1. row.tasks = work.tasks
    BY DEF PlanRow
  <2>2. RowBound(approvals, p, row)
    BY <2>1 DEF RowBound
  <2> HIDE DEF row
  <2>3. /\ plans' = stored \/ plans' = [stored EXCEPT ![p] = row]
        /\ \A q \in Request : runs'[q] = runs[q] \/ runs'[q] = NoRun
    BY <1>0, <1>3, FinishFrame DEF row
  <2>4. QED
    BY <1>3, <2>2, <2>3 DEF Outlives
<1>4. QED
  BY <1>1, <1>2, <1>3 DEF Proceed

\* Every step keeps the bindings.
LEMMA BindingsStep == TypeOK /\ Bindings /\ [Next]_vars => Bindings'
<1> SUFFICES ASSUME TypeOK, Bindings, [Next]_vars
             PROVE  Bindings'
  OBVIOUS
<1>0. /\ runs \in [Request -> Run] /\ plans \in [Plan -> PlanRow]
      /\ approvals \in [ApprovalId -> ApprovalRow]
      /\ \A p \in Plan, t \in Task : plans[p].tasks[t] \in TaskRow
      /\ \A p \in Plan : RowBound(approvals, p, plans[p])
  BY DEF TypeOK, PlanRow, Bindings
<1>1. approvals' = approvals => Outlives(approvals, approvals')
  BY DEF Outlives
<1>2. ASSUME UNCHANGED <<runs, crashes>> \/ ProcessDies
      PROVE  \A r \in Request : runs'[r] = runs[r] \/ runs'[r] = NoRun
  BY <1>0, <1>2 DEF ProcessDies
<1>3. ASSUME NEW p \in Plan, PlanExecution(p)
      PROVE  Bindings'
  <2>1. \A t \in Task : plans'[p].tasks[t].approvalId = None
    BY <1>0, <1>3 DEF PlanExecution, NewTask
  <2>2. \A q \in Plan : q # p => plans'[q] = plans[q]
    BY <1>0, <1>3 DEF PlanExecution
  <2>3. RowBound(approvals', p, plans'[p])
    BY <2>1 DEF RowBound
  <2>4. UNCHANGED <<runs, effects, approvals>>
    BY <1>3 DEF PlanExecution
  <2>5. QED
    BY <1>1, <2>2, <2>3, <2>4, BindingsFrame
<1>4. ASSUME NEW p \in Plan, AuthorisePlan(p)
      PROVE  Bindings'
  <2>1. /\ plans'[p].tasks = plans[p].tasks
        /\ \A q \in Plan : q # p => plans'[q] = plans[q]
    BY <1>0, <1>4 DEF AuthorisePlan, PlanRow
  <2>2. UNCHANGED <<effects, approvals>> /\ (UNCHANGED <<runs, crashes>> \/ ProcessDies)
    BY <1>4 DEF AuthorisePlan
  <2>3. RowBound(approvals', p, plans'[p])
    BY <1>0, <2>1, <2>2 DEF RowBound
  <2>4. QED
    BY <1>1, <1>2, <2>1, <2>2, <2>3, BindingsFrame
<1>5. ASSUME NEW p \in Plan, StopPlan(p)
      PROVE  Bindings'
  <2>1. /\ \A t \in Task : plans'[p].tasks[t] = StoppedTask(plans[p].tasks[t])
        /\ \A q \in Plan : q # p => plans'[q] = plans[q]
    BY <1>0, <1>5 DEF StopPlan, Stopped, PlanRow
  <2>2. UNCHANGED <<runs, effects, approvals>>
    BY <1>5 DEF StopPlan
  <2>3. RowBound(approvals', p, plans'[p])
    BY <1>0, <2>1, <2>2, UpdatesKeepId, SameIdsBound
  <2>4. QED
    BY <1>1, <2>1, <2>2, <2>3, BindingsFrame
<1>6. ASSUME NEW p \in Plan, NEW t \in Task, NEW d \in {"APPROVED", "REJECTED"},
             ApproveTask(p, t, d)
      PROVE  Bindings'
  <2>1. Outlives(approvals, approvals')
    <3>1. \/ approvals' = approvals
          \/ \E a \in ApprovalId : approvals' = [approvals EXCEPT ![a].decision = d]
      BY <1>0, <1>6 DEF ApproveTask, TaskRow
    <3>2. QED
      BY <1>0, <3>1 DEF Outlives, ApprovalRow
  <2>2. \/ plans' = plans
        \/ plans' = [plans EXCEPT ![p] = Decided(plans[p], t, d)]
    BY <1>6 DEF ApproveTask
  <2>3. RowBound(approvals, p, Decided(plans[p], t, d))
    <3>1. \A u \in Task : Decided(plans[p], t, d).tasks[u] =
            IF u = t THEN DecidedTask(plans[p].tasks[u], d) ELSE plans[p].tasks[u]
      BY <1>0 DEF Decided, PlanRow
    <3>2. \A u \in Task : Decided(plans[p], t, d).tasks[u].approvalId =
            plans[p].tasks[u].approvalId
      BY <1>0, <3>1, UpdatesKeepId
    <3>3. QED
      BY <1>0, <3>2, SameIdsBound
  <2>4. Decided(plans[p], t, d) \in PlanRow
    <3>1. DecidedTask(plans[p].tasks[t], d) \in TaskRow
      BY <1>0, TaskUpdateType
    <3>2. StatusDecided(plans[p], d) \in PlanStatus
      BY DEF StatusDecided, PlanStatus
    <3>3. QED
      BY <1>0, <3>1, <3>2 DEF Decided, PlanRow
  <2>5. \A q \in Plan : plans'[q] = plans[q] \/ RowBound(approvals', q, plans'[q])
    BY <1>0, <2>1, <2>2, <2>3, <2>4, BoundOutlives
  <2>6. effects' = effects /\ (UNCHANGED <<runs, crashes>> \/ ProcessDies)
    BY <1>6 DEF ApproveTask
  <2>7. QED
    BY <1>2, <2>1, <2>5, <2>6, BindingsFrame
<1>7. ASSUME NEW p \in Plan, NEW delta \in Delta, VerifyPlan(p, delta)
      PROVE  Bindings'
  <2>1. UNCHANGED <<plans, effects, approvals>>
        /\ (UNCHANGED <<runs, crashes>> \/ ProcessDies)
    BY <1>7 DEF VerifyPlan
  <2>2. QED
    BY <1>1, <1>2, <2>1, BindingsFrame
<1>8. ASSUME NEW r \in Request, NEW p \in Plan, RunExecution(r, p)
      PROVE  Bindings'
  <2> DEFINE work == [plans[p] EXCEPT !.status = "EXECUTING"]
             stored == [plans EXCEPT ![p] = work]
  <2>1. work \in PlanRow /\ work.tasks = plans[p].tasks
        /\ stored \in [Plan -> PlanRow]
    BY <1>0 DEF PlanRow, PlanStatus
  <2>2. RowBound(approvals, p, work)
    <3> HIDE DEF work, stored
    <3>1. QED
      BY <1>0, <2>1 DEF RowBound
  <2>3. \A q \in Plan : RowBound(approvals, q, stored[q])
    BY <1>0, <2>2
  <2>4. Proceed(r, p, work, 1, stored) /\ effects' = effects
    BY <1>8 DEF RunExecution
  <2> HIDE DEF work, stored
  <2>5. QED
    BY <2>1, <2>2, <2>3, <2>4, ProceedBinds, BindingsFrame
<1>9. ASSUME NEW r \in Request, TaskSucceeds(r)
      PROVE  Bindings'
  <2> DEFINE p == runs[r].plan
             t == runs[r].task
             work(v) == [runs[r].work EXCEPT !.tasks[t] = Succeeded(@, v)]
  <2>1. p \in Plan /\ p # None /\ runs[r].work \in PlanRow /\ t \in Task
        /\ \A u \in Task : runs[r].work.tasks[u] \in TaskRow
    BY <1>0, <1>9 DEF TaskSucceeds, Run, PlanRow
  <2>2. RowBound(approvals, p, runs[r].work)
    BY <2>1 DEF Bindings
  <2>3. PICK v \in TaskValue : Proceed(r, p, work(v), t + 1, plans)
    BY <1>9 DEF TaskSucceeds
  <2>4. work(v) \in PlanRow
    BY <2>1, TaskUpdateType DEF PlanRow
  <2>5. \A u \in Task : work(v).tasks[u] =
          IF u = t THEN Succeeded(runs[r].work.tasks[u], v)
          ELSE runs[r].work.tasks[u]
    BY <2>1 DEF PlanRow
  <2>6. effects' = effects \cup
          {[plan |-> p, task |-> t, approvalId |-> runs[r].work.tasks[t].approvalId]}
    BY <1>9 DEF TaskSucceeds
  <2>7. t \in ExternalTasks => runs[r].work.tasks[t].approvalId # None
    BY <1>9 DEF TaskSucceeds, InputsComplete
  <2> DEFINE asked == runs[r].work.tasks[t].approvalId
  <2>8. asked # None => /\ asked \in ApprovalId
                        /\ approvals[asked].plan = p /\ approvals[asked].task = t
    BY <2>1, <2>2 DEF RowBound, TaskRow
  <2> HIDE DEF p, t, work
  <2>9. RowBound(approvals, p, work(v))
    BY <2>1, <2>2, <2>5, UpdatesKeepId, SameIdsBound
  <2>10. /\ Outlives(approvals, approvals')
         /\ \A q \in Plan : RowBound(approvals', q, plans'[q])
         /\ \A q \in Request :
              \/ runs'[q] = runs[q] \/ runs'[q] = NoRun
              \/ RowBound(approvals', runs'[q].plan, runs'[q].work)
    BY <1>0, <2>1, <2>3, <2>4, <2>9, ProceedBinds
  <2>11. asked # None => approvals'[asked].plan = p /\ approvals'[asked].task = t
    BY <2>1, <2>8, <2>10 DEF Outlives
  <2>12. QED
    BY <2>6, <2>7, <2>10, <2>11, BindingsFrame
<1>10. ASSUME NEW r \in Request, TaskRetries(r) \/ AdapterThrows(r)
       PROVE  Bindings'
  <2>1. UNCHANGED <<plans, effects, approvals>>
    BY <1>10 DEF TaskRetries, AdapterThrows
  <2>2. \A q \in Request :
          \/ runs'[q] = NoRun
          \/ runs'[q].plan = runs[q].plan /\ runs'[q].work = runs[q].work
    BY <1>0, <1>10 DEF TaskRetries, AdapterThrows, Run
  <2>3. QED
    BY <1>1, <2>1, <2>2, BindingsFrame
<1>11. ASSUME NEW r \in Request, TaskFails(r)
       PROVE  Bindings'
  <2> DEFINE p == runs[r].plan
             t == runs[r].task
             row == [runs[r].work EXCEPT !.status = "FAILED",
                                         !.tasks[t] = GivenUp(@)]
  <2>1. p \in Plan /\ p # None /\ runs[r].work \in PlanRow
        /\ \A u \in Task : runs[r].work.tasks[u] \in TaskRow
    BY <1>0, <1>11 DEF TaskFails, Run, PlanRow
  <2>2. RowBound(approvals, p, runs[r].work)
    BY <2>1 DEF Bindings
  <2>3. \A u \in Task : row.tasks[u] =
          IF u = t THEN GivenUp(runs[r].work.tasks[u]) ELSE runs[r].work.tasks[u]
    BY <2>1 DEF PlanRow
  <2>4. Finish(r, p, row, plans) /\ UNCHANGED <<approvals, effects>>
    BY <1>11 DEF TaskFails
  <2> HIDE DEF p, t, row
  <2>5. RowBound(approvals, p, row)
    BY <2>1, <2>2, <2>3, UpdatesKeepId, SameIdsBound
  <2>6. /\ plans' = plans \/ plans' = [plans EXCEPT ![p] = row]
        /\ \A q \in Request : runs'[q] = runs[q] \/ runs'[q] = NoRun
    BY <1>0, <2>1, <2>4, FinishFrame
  <2>7. QED
    BY <1>0, <1>1, <2>1, <2>4, <2>5, <2>6, BindingsFrame
<1>12. ASSUME Crash
       PROVE  Bindings'
  <2>1. UNCHANGED <<plans, effects, approvals>> /\ ProcessDies
    BY <1>12 DEF Crash
  <2>2. QED
    BY <1>1, <1>2, <2>1, BindingsFrame
<1>13. CASE UNCHANGED vars
  BY <1>1, <1>13, BindingsFrame DEF vars
<1>14. QED
  BY <1>3, <1>4, <1>5, <1>6, <1>7, <1>8, <1>9, <1>10, <1>11, <1>12, <1>13
  DEF Next, AdapterAnswers

\* An action that left the platform carries the id of an approval row opened for
\* this very task of this very plan (engine.ts:345-351), however many runs of
\* the plan overlapped and wherever the process died.
THEOREM ApprovalsBind == Spec => []ApprovalBinds
<1>1. Init => Bindings
  <2>1. NoRun.plan = None /\ \A t \in Task : NoPlan.tasks[t].approvalId = None
    BY DEF NoRun, NoPlan, NewTask
  <2>2. QED
    BY <2>1 DEF Init, Bindings, RowBound
<1>2. TypeOK /\ Bindings => ApprovalBinds
  BY DEF TypeOK, Bindings, ApprovalBinds
<1>3. QED
  BY <1>1, <1>2, BindingsStep, TypeCorrect, PTL DEF Spec

-----------------------------------------------------------------------------
(* Completion: a COMPLETED plan has nothing left to do or to schedule.      *)

\* No task of the row is unfinished.
AllDone(row) == \A t \in Task : Done(row.tasks[t])

\* What is measured against a baseline has been, or a job will try.
Scheduled(p) ==
  baselines[p].captured => baselines[p].verified \/ p \in verificationJobs

\* A run that resumes after its adapter call looks only at later tasks, so the
\* invariant has to say that the ones behind it are done in its own copy.
Completion ==
  /\ \A p \in Plan : plans[p].status = "COMPLETED" => AllDone(plans[p])
  /\ \A r \in Request : runs[r].plan # None =>
       \A u \in Task : u < runs[r].task => Done(runs[r].work.tasks[u])
  /\ crashes = 0 => \A p \in Plan : plans[p].status = "COMPLETED" => Scheduled(p)

\* The plans a step touches are not COMPLETED or rightly so, and a run it sends
\* to the adapter has done what it passed over.
LEMMA CompletionFrame ==
  ASSUME Completion, NEW p \in Plan,
         \A q \in Plan : q # p => plans'[q] = plans[q],
         \/ plans'[p] = plans[p]
         \/ plans'[p].status = "COMPLETED" =>
              AllDone(plans'[p]) /\ (crashes' = 0 => Scheduled(p)'),
         \A q \in Plan : Scheduled(q) /\ plans[q].status = "COMPLETED"
                           => Scheduled(q)',
         \A r \in Request :
           \/ runs'[r] = NoRun
           \/ /\ runs'[r].plan = runs[r].plan /\ runs'[r].work = runs[r].work
              /\ runs'[r].task = runs[r].task
           \/ \A u \in Task : u < runs'[r].task => Done(runs'[r].work.tasks[u]),
         crashes' = 0 => crashes = 0
  PROVE  Completion'
<1>1. \A q \in Plan : plans'[q].status = "COMPLETED" => AllDone(plans'[q])
  BY DEF Completion
<1>2. \A r \in Request : runs'[r].plan # None =>
        \A u \in Task : u < runs'[r].task => Done(runs'[r].work.tasks[u])
  BY DEF Completion, NoRun
<1>3. crashes' = 0 =>
        \A q \in Plan : plans'[q].status = "COMPLETED" => Scheduled(q)'
  BY DEF Completion
<1>4. QED
  BY <1>1, <1>2, <1>3 DEF Completion, AllDone

\* The end of a run that is done with all tasks or did not complete.
LEMMA FinishCompletes ==
  ASSUME TypeOK, Completion, NEW r \in Request, NEW p \in Plan, NEW row,
         row.status = "COMPLETED" => AllDone(row), NEW stored,
         stored \in [Plan -> PlanRow],
         \A q \in Plan : q # p => stored[q] = plans[q],
         stored[p] = plans[p] \/ stored[p].status # "COMPLETED",
         baselines' = baselines, Finish(r, p, row, stored)
  PROVE  Completion'
<1>0. /\ runs \in [Request -> Run] /\ crashes \in Nat
  BY DEF TypeOK
<1>1. /\ plans' = stored \/ plans' = [stored EXCEPT ![p] = row]
      /\ \A q \in Request : runs'[q] = runs[q] \/ runs'[q] = NoRun
  BY <1>0, FinishFrame
<1>2. /\ verificationJobs \subseteq verificationJobs'
      /\ crashes' = 0 => /\ crashes = 0
                         /\ WantsVerification(p, row) => p \in verificationJobs'
  BY <1>0 DEF Finish, ProcessDies
<1>3. \A q \in Plan : Scheduled(q) => Scheduled(q)'
  BY <1>2 DEF Scheduled
<1>4. CASE plans'[p] = stored[p] /\ \A q \in Plan : q # p => plans'[q] = plans[q]
  <2>1. \/ plans'[p] = plans[p] \/ plans'[p].status # "COMPLETED"
    BY <1>4
  <2>2. QED
    BY <1>1, <1>2, <1>3, <1>4, <2>1, CompletionFrame
<1>5. CASE plans'[p] = row /\ \A q \in Plan : q # p => plans'[q] = plans[q]
  <2>1. row.status = "COMPLETED" => AllDone(row) /\ (crashes' = 0 => Scheduled(p)')
    BY <1>2 DEF Scheduled, WantsVerification
  <2>2. QED
    BY <1>1, <1>2, <1>3, <1>5, <2>1, CompletionFrame
<1>6. QED
  BY <1>1, <1>4, <1>5

\* Going on with a run whose tasks before `from' are done.
LEMMA ProceedCompletes ==
  ASSUME TypeOK, Completion, NEW r \in Request, NEW p \in Plan,
         NEW work \in PlanRow, NEW from \in Nat,
         \A u \in Task : u < from => Done(work.tasks[u]),
         NEW stored \in [Plan -> PlanRow],
         \A q \in Plan : q # p => stored[q] = plans[q],
         stored[p] = plans[p] \/ stored[p].status # "COMPLETED",
         baselines' = baselines, Proceed(r, p, work, from, stored)
  PROVE  Completion'
<1>0. runs \in [Request -> Run]
  BY DEF TypeOK
<1>1. ASSUME NEW t \in Task, GetsTo(work.tasks, from, t),
             runs' = [runs EXCEPT ![r] =
               [plan |-> p, work |-> work, task |-> t, attempt |-> 0]],
             plans' = stored,
             UNCHANGED <<approvals, opportunities, benefits, verificationJobs,
                         crashes>>
      PROVE  Completion'
  <2>1. \A u \in Task : u < t => Done(work.tasks[u])
    BY <1>1 DEF GetsTo, Task
  <2>2. /\ runs'[r].work = work /\ runs'[r].task = t
        /\ \A q \in Request : q # r => runs'[q] = runs[q]
    BY <1>0, <1>1
  <2>3. \A q \in Plan : Scheduled(q) => Scheduled(q)'
    BY <1>1 DEF Scheduled
  <2>4. QED
    BY <1>1, <2>1, <2>2, <2>3, CompletionFrame
<1>2. ASSUME NEW t \in Task, NEW a \in ApprovalId,
             Finish(r, p,
               [work EXCEPT !.status = "AWAITING_APPROVAL",
                            !.tasks[t] = Asked(@, a)],
               stored)
      PROVE  Completion'
  <2> DEFINE row == [work EXCEPT !.status = "AWAITING_APPROVAL",
                                 !.tasks[t] = Asked(@, a)]
  <2>1. row.status = "AWAITING_APPROVAL"
    BY DEF PlanRow
  <2> HIDE DEF row
  <2>2. Finish(r, p, row, stored)
    BY <1>2 DEF row
  <2>3. QED
    BY <2>1, <2>2, FinishCompletes
<1>3. ASSUME GetsToEnd(work.tasks, from),
             Finish(r, p, [work EXCEPT !.status = "COMPLETED"], stored)
      PROVE  Completion'
  <2> DEFINE row == [work EXCEPT !.status = "COMPLETED"]
  <2>1. \A t \in Task : Done(work.tasks[t])
    BY <1>3 DEF GetsToEnd, Task
  <2>2. row.tasks = work.tasks
    BY DEF PlanRow
  <2> HIDE DEF row
  <2>3. AllDone(row)
    BY <2>1, <2>2 DEF AllDone
  <2>4. Finish(r, p, row, stored)
    BY <1>3 DEF row
  <2>5. QED
    BY <2>3, <2>4, FinishCompletes
<1>4. QED
  BY <1>1, <1>2, <1>3 DEF Proceed

\* Every step keeps Completion.
LEMMA CompletionStep == TypeOK /\ Completion /\ [Next]_vars => Completion'
<1> SUFFICES ASSUME TypeOK, Completion, [Next]_vars
             PROVE  Completion'
  OBVIOUS
<1>0. /\ runs \in [Request -> Run] /\ plans \in [Plan -> PlanRow]
      /\ baselines \in [Plan -> BaselineRow] /\ crashes \in Nat
  BY DEF TypeOK
<1>1. ASSUME UNCHANGED <<runs, crashes>> \/ ProcessDies
      PROVE  /\ \A r \in Request : runs'[r] = runs[r] \/ runs'[r] = NoRun
             /\ crashes' = 0 => crashes = 0
  BY <1>0, <1>1 DEF ProcessDies
<1>2. ASSUME UNCHANGED <<baselines, verificationJobs>>
      PROVE  \A p \in Plan : Scheduled(p) => Scheduled(p)'
  BY <1>2 DEF Scheduled
<1>3. ASSUME NEW p \in Plan, PlanExecution(p)
      PROVE  Completion'
  <2>1. /\ plans'[p].status \in {"DRAFT", "AWAITING_AUTHORISATION"}
        /\ \A q \in Plan : q # p => plans'[q] = plans[q]
    BY <1>0, <1>3 DEF PlanExecution
  <2>2. UNCHANGED <<runs, crashes, baselines, verificationJobs>>
    BY <1>3 DEF PlanExecution
  <2>3. QED
    BY <1>2, <2>1, <2>2, CompletionFrame
<1>4. ASSUME NEW p \in Plan, AuthorisePlan(p)
      PROVE  Completion'
  <2>1. /\ plans'[p].status = "AUTHORISED"
        /\ plans[p].status = "AWAITING_AUTHORISATION"
        /\ \A q \in Plan : q # p => plans'[q] = plans[q]
    BY <1>0, <1>4 DEF AuthorisePlan, CanAuthorise, PlanRow
  <2>2. /\ UNCHANGED <<runs, crashes>> \/ ProcessDies
        /\ verificationJobs' = verificationJobs
    BY <1>4 DEF AuthorisePlan
  <2>3. \A q \in Plan : q # p => baselines'[q] = baselines[q]
    <3>1. \/ baselines' = baselines
          \/ \E provable \in BOOLEAN :
               baselines' = CaptureBaseline(baselines, p, provable)
      BY <1>4 DEF AuthorisePlan
    <3>2. QED
      BY <1>0, <3>1 DEF CaptureBaseline
  <2>4. \A q \in Plan : Scheduled(q) /\ plans[q].status = "COMPLETED"
                          => Scheduled(q)'
    BY <2>1, <2>2, <2>3 DEF Scheduled
  <2>5. QED
    BY <1>1, <2>1, <2>2, <2>4, CompletionFrame
<1>5. ASSUME NEW p \in Plan, StopPlan(p)
      PROVE  Completion'
  <2>1. /\ plans'[p].status = "STOPPED"
        /\ \A q \in Plan : q # p => plans'[q] = plans[q]
    BY <1>0, <1>5 DEF StopPlan, Stopped, PlanRow
  <2>2. UNCHANGED <<runs, crashes, baselines, verificationJobs>>
    BY <1>5 DEF StopPlan
  <2>3. QED
    BY <1>2, <2>1, <2>2, CompletionFrame
<1>6. ASSUME NEW p \in Plan, NEW t \in Task, NEW d \in {"APPROVED", "REJECTED"},
             ApproveTask(p, t, d)
      PROVE  Completion'
  <2>1. Decided(plans[p], t, d).status # "COMPLETED"
    BY <1>0 DEF Decided, StatusDecided, PlanRow
  <2>2. \/ plans' = plans
        \/ plans' = [plans EXCEPT ![p] = Decided(plans[p], t, d)]
    BY <1>6 DEF ApproveTask
  <2>3. UNCHANGED <<baselines, verificationJobs>>
        /\ (UNCHANGED <<runs, crashes>> \/ ProcessDies)
    BY <1>6 DEF ApproveTask
  <2>4. /\ \A q \in Plan : q # p => plans'[q] = plans[q]
        /\ plans'[p] = plans[p] \/ plans'[p].status # "COMPLETED"
    BY <1>0, <2>1, <2>2
  <2>5. QED
    BY <1>1, <1>2, <2>3, <2>4, CompletionFrame
<1>7. ASSUME NEW p \in Plan, NEW delta \in Delta, VerifyPlan(p, delta)
      PROVE  Completion'
  <2>1. /\ UNCHANGED <<plans, verificationJobs>>
        /\ UNCHANGED <<runs, crashes>> \/ ProcessDies
    BY <1>7 DEF VerifyPlan
  <2>2. \A q \in Plan : /\ baselines'[q].captured = baselines[q].captured
                        /\ baselines[q].verified => baselines'[q].verified
    BY <1>0, <1>7 DEF VerifyPlan, BaselineRow
  <2>3. \A q \in Plan : Scheduled(q) => Scheduled(q)'
    BY <2>1, <2>2 DEF Scheduled
  <2>4. QED
    BY <1>1, <2>1, <2>3, CompletionFrame
<1>8. ASSUME NEW r \in Request, NEW p \in Plan, RunExecution(r, p)
      PROVE  Completion'
  <2> DEFINE work == [plans[p] EXCEPT !.status = "EXECUTING"]
             stored == [plans EXCEPT ![p] = work]
  <2>1. work \in PlanRow /\ stored \in [Plan -> PlanRow]
        /\ stored[p].status = "EXECUTING"
        /\ \A q \in Plan : q # p => stored[q] = plans[q]
    BY <1>0 DEF PlanRow, PlanStatus
  <2>2. Proceed(r, p, work, 1, stored) /\ UNCHANGED baselines
    BY <1>8 DEF RunExecution
  <2>3. \A u \in Task : ~(u < 1)
    BY DEF Task
  <2> HIDE DEF work, stored
  <2>4. QED
    BY <2>1, <2>2, <2>3, ProceedCompletes
<1>9. ASSUME NEW r \in Request, TaskSucceeds(r)
      PROVE  Completion'
  <2> DEFINE p == runs[r].plan
             t == runs[r].task
             work(v) == [runs[r].work EXCEPT !.tasks[t] = Succeeded(@, v)]
  <2>1. p \in Plan /\ p # None /\ runs[r].work \in PlanRow /\ t \in Task
        /\ \A u \in Task : runs[r].work.tasks[u] \in TaskRow
    BY <1>0, <1>9 DEF TaskSucceeds, Run, PlanRow
  <2>2. PICK v \in TaskValue : Proceed(r, p, work(v), t + 1, plans)
    BY <1>9 DEF TaskSucceeds
  <2>3. work(v) \in PlanRow
    BY <2>1, TaskUpdateType DEF PlanRow
  <2>4. \A u \in Task : work(v).tasks[u] =
          IF u = t THEN Succeeded(runs[r].work.tasks[u], v)
          ELSE runs[r].work.tasks[u]
    BY <2>1 DEF PlanRow
  <2>5. Succeeded(runs[r].work.tasks[t], v).status = "COMPLETED"
    BY <2>1 DEF Succeeded, TaskRow
  <2>6. \A u \in Task : u < t => Done(runs[r].work.tasks[u])
    BY <2>1 DEF Completion
  <2>7. UNCHANGED baselines
    BY <1>9 DEF TaskSucceeds
  <2>8. t \in Nat /\ \A u \in Task : u \in Nat
    BY <2>1 DEF Task
  <2> HIDE DEF p, t, work
  <2>9. \A u \in Task : u < t + 1 => Done(work(v).tasks[u])
    <3> SUFFICES ASSUME NEW u \in Task, u < t + 1
                 PROVE  Done(work(v).tasks[u])
      OBVIOUS
    <3>1. u < t \/ u = t
      BY <2>8
    <3>2. QED
      BY <3>1, <2>4, <2>5, <2>6, <2>8 DEF Done
  <2>10. t + 1 \in Nat
    BY <2>8
  <2>11. QED
    BY <1>0, <2>1, <2>2, <2>3, <2>7, <2>9, <2>10, ProceedCompletes
<1>10. ASSUME NEW r \in Request, TaskRetries(r) \/ AdapterThrows(r)
       PROVE  Completion'
  <2>1. UNCHANGED <<plans, baselines, verificationJobs, crashes>>
    BY <1>10 DEF TaskRetries, AdapterThrows
  <2>2. \A q \in Request :
          \/ runs'[q] = NoRun
          \/ /\ runs'[q].plan = runs[q].plan /\ runs'[q].work = runs[q].work
             /\ runs'[q].task = runs[q].task
    BY <1>0, <1>10 DEF TaskRetries, AdapterThrows, Run
  <2>3. CASE Plan = {}
    BY <2>1, <2>2, <2>3 DEF Completion, NoRun
  <2>4. CASE \E p \in Plan : TRUE
    BY <1>2, <2>1, <2>2, <2>4, CompletionFrame
  <2>5. QED
    BY <2>3, <2>4
<1>11. ASSUME NEW r \in Request, TaskFails(r)
       PROVE  Completion'
  <2> DEFINE p == runs[r].plan
             row == [runs[r].work EXCEPT !.status = "FAILED",
                       !.tasks[runs[r].task] = GivenUp(@)]
  <2>1. p \in Plan /\ row.status = "FAILED"
    BY <1>0, <1>11 DEF TaskFails, Run, PlanRow
  <2>2. Finish(r, p, row, plans) /\ UNCHANGED baselines
    BY <1>11 DEF TaskFails
  <2> HIDE DEF p, row
  <2>3. QED
    BY <1>0, <2>1, <2>2, FinishCompletes
<1>12. ASSUME Crash
       PROVE  Completion'
  <2>1. UNCHANGED <<plans, baselines, verificationJobs>>
        /\ (\A q \in Request : runs'[q] = NoRun) /\ crashes' # 0
    BY <1>0, <1>12 DEF Crash, ProcessDies
  <2>2. QED
    BY <2>1 DEF Completion, NoRun
<1>13. CASE UNCHANGED vars
  BY <1>13 DEF vars, Completion, Scheduled
<1>14. QED
  BY <1>3, <1>4, <1>5, <1>6, <1>7, <1>8, <1>9, <1>10, <1>11, <1>12, <1>13
  DEF Next, AdapterAnswers

\* COMPLETED is true (engine.ts:364-367, 395-408), however runs of a plan
\* overlap and whatever is decided meanwhile: no task failed or never ran, even
\* if the process died; and as long as it did not, a baseline the plan has is
\* verified or has a job that will try.
THEOREM CompletedHolds ==
  Spec => [](/\ crashes = 0 => CompletedIsTrue
             /\ \A p \in Plan : plans[p].status = "COMPLETED" => AllDone(plans[p]))
<1>1. Init => Completion
  BY DEF Init, Completion, NoRun, NoPlan
<1>2. Completion => /\ crashes = 0 => CompletedIsTrue
                    /\ \A p \in Plan : plans[p].status = "COMPLETED" =>
                         AllDone(plans[p])
  BY DEF Completion, CompletedIsTrue, AllDone, Scheduled, Done
<1>3. QED
  BY <1>1, <1>2, CompletionStep, TypeCorrect, PTL DEF Spec

-----------------------------------------------------------------------------
(* The ledger's refinement.                                                *)

\* STAGE_ORDER.indexOf() of every stage.
LEMMA Ranks ==
  /\ Rank("THEORETICAL") = 1 /\ Rank("APPROVED") = 2 /\ Rank("FORECAST") = 3
  /\ Rank("COMMITTED") = 4 /\ Rank("REALISED") = 5 /\ Rank("VERIFIED") = 6
<1>1. /\ STAGE_ORDER[1] = "THEORETICAL" /\ STAGE_ORDER[2] = "APPROVED"
      /\ STAGE_ORDER[3] = "FORECAST" /\ STAGE_ORDER[4] = "COMMITTED"
      /\ STAGE_ORDER[5] = "REALISED" /\ STAGE_ORDER[6] = "VERIFIED"
  BY DEF STAGE_ORDER
<1>2. \A i \in 1..6 : i = 1 \/ i = 2 \/ i = 3 \/ i = 4 \/ i = 5 \/ i = 6
  OBVIOUS
<1>3. ASSUME NEW s, NEW k \in 1..6, STAGE_ORDER[k] = s,
             \A i \in 1..6 : STAGE_ORDER[i] = s => i = k
      PROVE  Rank(s) = k
  BY <1>3 DEF Rank
<1>4. Rank("THEORETICAL") = 1
  BY <1>1, <1>2, <1>3
<1>5. Rank("APPROVED") = 2
  BY <1>1, <1>2, <1>3
<1>6. Rank("FORECAST") = 3
  BY <1>1, <1>2, <1>3
<1>7. Rank("COMMITTED") = 4
  BY <1>1, <1>2, <1>3
<1>8. Rank("REALISED") = 5
  BY <1>1, <1>2, <1>3
<1>9. Rank("VERIFIED") = 6
  BY <1>1, <1>2, <1>3
<1>10. QED
  BY <1>4, <1>5, <1>6, <1>7, <1>8, <1>9

\* The ledger of the refinement ranks the stages as the engine's does.
LEMMA SameRank == \A s : Ledger!Rank(s) = Rank(s)
  BY DEF Ledger!Rank, Rank, Ledger!STAGE_ORDER, STAGE_ORDER

\* The updates of the abstract ledger that set two fields of a row.
Realise(b, x) == [b EXCEPT !.stage = "REALISED", !.realised = x]
Verify(b, x) == [b EXCEPT !.stage = "VERIFIED", !.verified = x]

\* advance() makes these updates.
LEMMA AdvanceUpdates ==
  ASSUME NEW b \in BenefitRow, NEW x
  PROVE  /\ Advance(b, "REALISED", x, b.verified) = Realise(b, x)
         /\ Advance(b, "VERIFIED", b.realised, x) = Verify(b, x)
<1>1. ASSUME NEW c \in BenefitRow
      PROVE  /\ [c EXCEPT !.realised = x] =
                  [stage |-> c.stage, realised |-> x, verified |-> c.verified]
             /\ [c EXCEPT !.verified = x] =
                  [stage |-> c.stage, realised |-> c.realised, verified |-> x]
  BY DEF BenefitRow, Benefit
<1>2. ASSUME NEW s \in Stage, NEW c, c = [b EXCEPT !.stage = s]
      PROVE  /\ c \in BenefitRow
             /\ c.stage = s /\ c.realised = b.realised /\ c.verified = b.verified
  BY <1>2 DEF BenefitRow, Benefit
<1>3. ASSUME NEW s, NEW c \in BenefitRow,
             c.stage = s, c.realised = b.realised, c.verified = b.verified
      PROVE  /\ [c EXCEPT !.realised = x] = Advance(b, s, x, b.verified)
             /\ [c EXCEPT !.verified = x] = Advance(b, s, b.realised, x)
  BY <1>1, <1>3 DEF Advance
<1>4. "REALISED" \in Stage /\ "VERIFIED" \in Stage
  BY DEF Stage
<1>5. QED
  BY <1>2, <1>3, <1>4, Zenon DEF Realise, Verify

\* advanceAtLeast() leaves a benefit alone or moves it up to the stage.
LEMMA AdvanceAtLeastMoves ==
  ASSUME NEW b \in BenefitRow, NEW s \in Stage, NEW v
  PROVE  \/ AdvanceAtLeast(b, s, v) = b
         \/ /\ Rank(b.stage) < Rank(s)
            /\ AdvanceAtLeast(b, s, v) = Advance(b, s, v, b.verified)
<1>1. b.stage \in Stage
  BY DEF BenefitRow, Benefit
<1>2. Rank(b.stage) \in Int /\ Rank(s) \in Int
  BY <1>1, Ranks DEF Stage
<1>3. QED
  BY <1>2 DEF AdvanceAtLeast

\* What a step may make of one benefit.
Allowed(b, new) ==
  \/ new = b
  \/ \E s \in {"APPROVED", "FORECAST", "COMMITTED"} :
       Rank(b.stage) < Rank(s) /\ new = [b EXCEPT !.stage = s]
  \/ \E v \in [Task -> TaskValue \cup {0}] :
       /\ Rank(b.stage) < Rank("REALISED")
       /\ new = Realise(b, v)
  \/ \E d \in Delta \ {0} :
       new = Verify(b, d)

\* A step that makes something allowed of one benefit is a step of the ledger.
LEMMA LedgerMove ==
  ASSUME benefits \in [Opportunity -> BenefitRow], NEW o \in Opportunity,
         NEW new, Allowed(benefits[o], new),
         benefits' = [benefits EXCEPT ![o] = new]
  PROVE  [Ledger!Next]_benefits
<1>1. CASE new = benefits[o]
  BY <1>1
<1>2. CASE \E s \in {"APPROVED", "FORECAST", "COMMITTED"} :
             /\ Rank(benefits[o].stage) < Rank(s)
             /\ new = [benefits[o] EXCEPT !.stage = s]
  <2>1. PICK s \in {"APPROVED", "FORECAST", "COMMITTED"} :
          /\ Rank(benefits[o].stage) < Rank(s)
          /\ new = [benefits[o] EXCEPT !.stage = s]
    BY <1>2
  <2>2. benefits' = [benefits EXCEPT ![o].stage = s]
    BY <2>1
  <2>3. Ledger!Climb(o)
    BY <2>1, <2>2, SameRank DEF Ledger!Climb
  <2>4. QED
    BY <2>3 DEF Ledger!Next
<1>3. CASE \E v \in [Task -> TaskValue \cup {0}] :
             /\ Rank(benefits[o].stage) < Rank("REALISED")
             /\ new = Realise(benefits[o], v)
  <2>1. PICK v \in [Task -> TaskValue \cup {0}] :
          /\ Rank(benefits[o].stage) < Rank("REALISED")
          /\ new = Realise(benefits[o], v)
    BY <1>3
  <2>2. benefits' = [benefits EXCEPT ![o].stage = "REALISED", ![o].realised = v]
    BY <2>1 DEF Realise
  <2>3. Ledger!Realise(o)
    BY <2>1, <2>2, SameRank DEF Ledger!Realise
  <2>4. QED
    BY <2>3 DEF Ledger!Next
<1>4. CASE \E d \in Delta \ {0} :
             new = Verify(benefits[o], d)
  <2>1. PICK d \in Delta \ {0} :
          new = Verify(benefits[o], d)
    BY <1>4
  <2>2. benefits' = [benefits EXCEPT ![o].stage = "VERIFIED", ![o].verified = d]
    BY <2>1 DEF Verify
  <2>3. Ledger!Verify(o)
    BY <2>2 DEF Ledger!Verify
  <2>4. QED
    BY <2>3 DEF Ledger!Next
<1>5. QED
  BY <1>1, <1>2, <1>3, <1>4 DEF Allowed

\* Moving up without a figure, as authorisation and a waiting run do.
LEMMA ClimbAllowed ==
  ASSUME NEW b \in BenefitRow, NEW s \in {"APPROVED", "FORECAST", "COMMITTED"}
  PROVE  Allowed(b, AdvanceAtLeast(b, s, b.realised))
<1>1. s \in Stage
  BY DEF Stage
<1>2. Advance(b, s, b.realised, b.verified) = [b EXCEPT !.stage = s]
  BY DEF Advance, BenefitRow, Benefit
<1>3. QED
  BY <1>1, <1>2, AdvanceAtLeastMoves DEF Allowed

\* Booking a finished run.
LEMMA BookRunAllowed ==
  ASSUME NEW b \in BenefitRow, NEW row \in PlanRow
  PROVE  Allowed(b, BookRun(b, row))
<1>1. CASE row.status = "COMPLETED"
  <2> DEFINE v == Measured(row.tasks)
  <2>1. v \in [Task -> TaskValue \cup {0}] /\ "REALISED" \in Stage
    BY MeasuredType DEF Stage
  <2>2. Advance(b, "REALISED", v, b.verified) =
          Realise(b, v)
    BY <2>1, AdvanceUpdates
  <2>3. BookRun(b, row) = AdvanceAtLeast(b, "REALISED", v)
    BY <1>1 DEF BookRun
  <2> HIDE DEF v
  <2>4. QED
    BY <2>1, <2>2, <2>3, AdvanceAtLeastMoves DEF Allowed
<1>2. CASE row.status = "AWAITING_APPROVAL"
  BY <1>2, ClimbAllowed DEF BookRun
<1>3. CASE row.status \notin {"COMPLETED", "AWAITING_APPROVAL"}
  BY <1>3 DEF BookRun, Allowed
<1>4. QED
  BY <1>1, <1>2, <1>3

\* The end of a run, wherever the process dies in it.
LEMMA FinishLedger ==
  ASSUME benefits \in [Opportunity -> BenefitRow], NEW r \in Request,
         NEW p \in Plan, NEW row \in PlanRow, NEW stored,
         Finish(r, p, row, stored)
  PROVE  [Ledger!Next]_benefits
<1> DEFINE o == OpportunityOf[p]
<1>1. o \in Opportunity
  BY EngineAssumption
<1>2. \/ benefits' = benefits
      \/ benefits' = [benefits EXCEPT ![o] = BookRun(benefits[o], row)]
  BY DEF Finish
<1>3. Allowed(benefits[o], BookRun(benefits[o], row))
  BY <1>1, BookRunAllowed
<1>4. QED
  BY <1>1, <1>2, <1>3, LedgerMove

\* Going on with a run.
LEMMA ProceedLedger ==
  ASSUME benefits \in [Opportunity -> BenefitRow], NEW r \in Request,
         NEW p \in Plan, NEW work \in PlanRow, NEW from, NEW stored,
         Proceed(r, p, work, from, stored)
  PROVE  [Ledger!Next]_benefits
<1>1. CASE UNCHANGED benefits
  BY <1>1
<1>2. ASSUME NEW t \in Task, NEW a \in ApprovalId,
             Finish(r, p,
               [work EXCEPT !.status = "AWAITING_APPROVAL",
                            !.tasks[t] = Asked(@, a)],
               stored)
      PROVE  [Ledger!Next]_benefits
  <2>1. Asked(work.tasks[t], a) \in TaskRow
    BY TaskUpdateType DEF PlanRow
  <2>2. [work EXCEPT !.status = "AWAITING_APPROVAL",
                     !.tasks[t] = Asked(@, a)] \in PlanRow
    BY <2>1 DEF PlanRow, PlanStatus
  <2>3. QED
    BY <1>2, <2>2, FinishLedger
<1>3. ASSUME Finish(r, p, [work EXCEPT !.status = "COMPLETED"], stored)
      PROVE  [Ledger!Next]_benefits
  <2>1. [work EXCEPT !.status = "COMPLETED"] \in PlanRow
    BY DEF PlanRow, PlanStatus
  <2>2. QED
    BY <1>3, <2>1, FinishLedger
<1>4. QED
  BY <1>1, <1>2, <1>3 DEF Proceed

\* Every step of the engine is one of the abstract ledger, or none.
LEMMA LedgerStep == TypeOK /\ [Next]_vars => [Ledger!Next]_benefits
<1> SUFFICES ASSUME TypeOK, [Next]_vars PROVE [Ledger!Next]_benefits
  OBVIOUS
<1>0. /\ benefits \in [Opportunity -> BenefitRow]
      /\ plans \in [Plan -> PlanRow] /\ runs \in [Request -> Run]
  BY DEF TypeOK, BenefitRow
<1>1. ASSUME NEW p \in Plan, AuthorisePlan(p) PROVE [Ledger!Next]_benefits
  <2> DEFINE o == OpportunityOf[p]
             new == AdvanceAtLeast(benefits[o], "APPROVED", benefits[o].realised)
  <2>1. o \in Opportunity
    BY EngineAssumption
  <2>2. benefits' = benefits \/ benefits' = [benefits EXCEPT ![o] = new]
    BY <1>1 DEF AuthorisePlan
  <2>3. Allowed(benefits[o], new)
    BY <1>0, <2>1, ClimbAllowed
  <2> HIDE DEF new
  <2>4. QED
    BY <1>0, <2>1, <2>2, <2>3, LedgerMove
<1>2. ASSUME NEW p \in Plan, NEW delta \in Delta, VerifyPlan(p, delta)
      PROVE  [Ledger!Next]_benefits
  <2> DEFINE o == OpportunityOf[p]
             new == Advance(benefits[o], "VERIFIED", benefits[o].realised, delta)
  <2>1. o \in Opportunity
    BY EngineAssumption
  <2>2. \/ benefits' = benefits
        \/ delta > 0 /\ benefits' = [benefits EXCEPT ![o] = new]
    BY <1>2 DEF VerifyPlan
  <2>3. new = Verify(benefits[o], delta)
    <3>1. benefits[o] \in BenefitRow /\ "VERIFIED" \in Stage
      BY <1>0, <2>1 DEF Stage
    <3>2. QED
      BY <3>1, AdvanceUpdates
  <2> HIDE DEF new
  <2>4. ASSUME delta > 0 PROVE Allowed(benefits[o], new)
    <3>1. delta \in Delta \ {0}
      BY <2>4, EngineAssumption
    <3>2. QED
      BY <2>3, <3>1 DEF Allowed
  <2>5. QED
    BY <1>0, <2>1, <2>2, <2>4, LedgerMove
<1>3. ASSUME NEW r \in Request, NEW p \in Plan, RunExecution(r, p)
      PROVE  [Ledger!Next]_benefits
  <2>1. [plans[p] EXCEPT !.status = "EXECUTING"] \in PlanRow
    BY <1>0 DEF PlanRow, PlanStatus
  <2>2. QED
    BY <1>0, <1>3, <2>1, ProceedLedger DEF RunExecution
<1>4. ASSUME NEW r \in Request, TaskSucceeds(r) PROVE [Ledger!Next]_benefits
  <2> DEFINE t == runs[r].task
  <2>1. /\ runs[r].plan \in Plan /\ runs[r].work \in PlanRow
        /\ runs[r].work.tasks[t] \in TaskRow
    BY <1>0, <1>4 DEF TaskSucceeds, Run, PlanRow
  <2>2. PICK v \in TaskValue :
          Proceed(r, runs[r].plan,
            [runs[r].work EXCEPT !.tasks[t] = Succeeded(@, v)], t + 1, plans)
    BY <1>4 DEF TaskSucceeds
  <2>3. Succeeded(runs[r].work.tasks[t], v) \in TaskRow
    BY <2>1, TaskUpdateType
  <2>4. [runs[r].work EXCEPT !.tasks[t] = Succeeded(@, v)] \in PlanRow
    BY <2>1, <2>3 DEF PlanRow
  <2>5. QED
    BY <1>0, <2>1, <2>2, <2>4, ProceedLedger
<1>5. ASSUME NEW r \in Request, TaskFails(r) PROVE [Ledger!Next]_benefits
  <2> DEFINE t == runs[r].task
             row == [runs[r].work EXCEPT !.status = "FAILED",
                                         !.tasks[t] = GivenUp(@)]
  <2>1. /\ runs[r].plan \in Plan /\ runs[r].work \in PlanRow
        /\ runs[r].work.tasks[t] \in TaskRow
    BY <1>0, <1>5 DEF TaskFails, Run, PlanRow
  <2>2. GivenUp(runs[r].work.tasks[t]) \in TaskRow
    BY <2>1, TaskUpdateType
  <2>3. row \in PlanRow
    BY <2>1, <2>2 DEF PlanRow, PlanStatus
  <2>4. Finish(r, runs[r].plan, row, plans)
    BY <1>5 DEF TaskFails
  <2> HIDE DEF row
  <2>5. QED
    BY <1>0, <2>1, <2>3, <2>4, FinishLedger
<1>6. ASSUME \/ \E p \in Plan : PlanExecution(p) \/ StopPlan(p)
             \/ \E p \in Plan, t \in Task, d \in {"APPROVED", "REJECTED"} :
                  ApproveTask(p, t, d)
             \/ \E r \in Request : TaskRetries(r) \/ AdapterThrows(r)
             \/ Crash
      PROVE  UNCHANGED benefits
  BY <1>6 DEF PlanExecution, StopPlan, ApproveTask, TaskRetries, AdapterThrows,
              Crash
<1>7. CASE UNCHANGED vars
  BY <1>7 DEF vars
<1>8. QED
  BY <1>1, <1>2, <1>3, <1>4, <1>5, <1>6, <1>7 DEF Next, AdapterAnswers

\* The benefits keep the promise of the abstract ledger: stages only climb, a
\* realised figure is booked once and kept, a verified one is positive
\* (ledger.ts:7-10), through crashes, overlapping runs and late verifications.
THEOREM ImplementsLedger == Spec => LedgerSpec
<1>1. Init => Ledger!Init
  BY DEF Init, Ledger!Init, NewBenefit, Ledger!NewBenefit
<1>2. QED
  BY <1>1, TypeCorrect, LedgerStep, PTL DEF Spec, LedgerSpec, Ledger!Spec

-----------------------------------------------------------------------------
(* The ledger stays in step with what is shown and what was measured.       *)

\* A benefit that is left alone or raised to a stage that is no verification.
Risen(b, new) ==
  \/ new = b
  \/ /\ new.stage \in Stage \ {"VERIFIED"}
     /\ Rank(b.stage) < Rank(new.stage)

Booked(b) == Rank(b.stage) >= Rank("REALISED")

\* advanceAtLeast() to any stage but the last raises.
LEMMA AdvanceRises ==
  ASSUME NEW b \in BenefitRow, NEW s \in Stage \ {"VERIFIED"}, NEW v
  PROVE  Risen(b, AdvanceAtLeast(b, s, v))
  BY AdvanceAtLeastMoves DEF Risen, Advance

\* Booking a run raises, and after a completed one the benefit is REALISED.
LEMMA BookRunRises ==
  ASSUME NEW b \in BenefitRow, NEW row
  PROVE  /\ Risen(b, BookRun(b, row))
         /\ row.status = "COMPLETED" => Booked(BookRun(b, row))
<1>1. /\ "REALISED" \in Stage \ {"VERIFIED"}
      /\ "FORECAST" \in Stage \ {"VERIFIED"}
  BY DEF Stage
<1>2. \A v : Risen(b, AdvanceAtLeast(b, "REALISED", v))
  BY <1>1, AdvanceRises
<1>3. Risen(b, AdvanceAtLeast(b, "FORECAST", b.realised))
  BY <1>1, AdvanceRises
<1>4. \A v : Booked(AdvanceAtLeast(b, "REALISED", v))
  BY Ranks DEF Booked, AdvanceAtLeast, Advance
<1>5. CASE row.status = "COMPLETED"
  BY <1>2, <1>4, <1>5 DEF BookRun
<1>6. CASE row.status = "AWAITING_APPROVAL"
  BY <1>3, <1>6 DEF BookRun
<1>7. CASE row.status \notin {"COMPLETED", "AWAITING_APPROVAL"}
  BY <1>7 DEF BookRun, Risen
<1>8. QED
  BY <1>5, <1>6, <1>7

\* A step that only raises, shows and schedules only on the strength of what is
\* booked, and leaves verified baselines alone keeps the ledger in step.
LEMMA InStepFrame ==
  ASSUME TypeOK, LedgerInStep,
         \A o \in Opportunity : Risen(benefits[o], benefits'[o]),
         \A o \in Opportunity : opportunities'[o] = "COMPLETED" =>
           opportunities[o] = "COMPLETED" \/ Booked(benefits'[o]),
         \A p \in verificationJobs' :
           p \in verificationJobs \/ Booked(benefits'[OpportunityOf[p]]),
         \A p \in Plan : baselines[p].verified =>
           baselines'[p].verified /\ baselines'[p].value = baselines[p].value
  PROVE  LedgerInStep'
<1>1. /\ benefits \in [Opportunity -> BenefitRow]
      /\ verificationJobs \subseteq Plan
  BY DEF TypeOK, BenefitRow
<1>2. \A o \in Opportunity : Rank(benefits[o].stage) \in Int
  BY <1>1, Ranks DEF BenefitRow, Benefit, Stage
<1>3. ASSUME NEW o \in Opportunity, Booked(benefits[o])
      PROVE  Booked(benefits'[o])
  <2>1. CASE benefits'[o] = benefits[o]
    BY <1>3, <2>1
  <2>2. CASE /\ benefits'[o].stage \in Stage \ {"VERIFIED"}
             /\ Rank(benefits[o].stage) < Rank(benefits'[o].stage)
    <3>1. Rank(benefits'[o].stage) \in Int
      BY <2>2, Ranks DEF Stage
    <3>2. QED
      BY <1>2, <1>3, <2>2, <3>1, Ranks DEF Booked
  <2>3. QED
    BY <2>1, <2>2 DEF Risen
<1>4. LedgerLeads'
  <2>1. \A p \in Plan : OpportunityOf[p] \in Opportunity
    BY EngineAssumption
  <2>2. \A o \in Opportunity : opportunities'[o] = "COMPLETED" => Booked(benefits'[o])
    BY <1>3 DEF LedgerInStep, LedgerLeads, Booked
  <2>3. \A p \in verificationJobs' : Booked(benefits'[OpportunityOf[p]])
    BY <1>1, <1>3, <2>1 DEF LedgerInStep, LedgerLeads, Booked
  <2>4. QED
    BY <2>2, <2>3 DEF LedgerLeads, Booked
<1>5. VerifiedIsBacked'
  BY DEF LedgerInStep, VerifiedIsBacked, Risen
<1>6. QED
  BY <1>4, <1>5 DEF LedgerInStep

\* The end of a run.
LEMMA FinishInStep ==
  ASSUME TypeOK, LedgerInStep, NEW r \in Request, NEW p \in Plan,
         NEW row, NEW stored, baselines' = baselines, Finish(r, p, row, stored)
  PROVE  LedgerInStep'
<1> DEFINE o == OpportunityOf[p]
<1>1. o \in Opportunity /\ benefits \in [Opportunity -> BenefitRow]
      /\ opportunities \in [Opportunity -> OpportunityStatus]
  BY EngineAssumption DEF TypeOK, BenefitRow
<1>2. PICK written \in 0..4 :
        /\ benefits' = IF written >= 2
                       THEN [benefits EXCEPT ![o] = BookRun(@, row)]
                       ELSE benefits
        /\ opportunities' = IF written >= 3
                            THEN [opportunities EXCEPT ![o] = StatusMap(row.status)]
                            ELSE opportunities
        /\ verificationJobs' = IF written = 4 /\ WantsVerification(p, row)
                               THEN verificationJobs \cup {p}
                               ELSE verificationJobs
  BY DEF Finish
<1>3. Risen(benefits[o], BookRun(benefits[o], row))
      /\ (row.status = "COMPLETED" => Booked(BookRun(benefits[o], row)))
  BY <1>1, BookRunRises
<1>4. \A q \in Opportunity : Risen(benefits[q], benefits'[q])
  BY <1>1, <1>2, <1>3 DEF Risen
<1>5. ASSUME NEW q \in Opportunity, opportunities'[q] = "COMPLETED"
      PROVE  opportunities[q] = "COMPLETED" \/ Booked(benefits'[q])
  <2>1. CASE written >= 3 /\ q = o
    <3>1. StatusMap(row.status) = "COMPLETED"
      BY <1>1, <1>2, <1>5, <2>1
    <3>2. row.status = "COMPLETED"
      BY <3>1 DEF StatusMap
    <3>3. benefits'[o] = BookRun(benefits[o], row)
      BY <1>1, <1>2, <2>1
    <3>4. QED
      BY <1>3, <2>1, <3>2, <3>3
  <2>2. CASE ~(written >= 3 /\ q = o)
    BY <1>1, <1>2, <1>5, <2>2
  <2>3. QED
    BY <2>1, <2>2
<1>6. ASSUME NEW q \in verificationJobs', q \notin verificationJobs
      PROVE  Booked(benefits'[OpportunityOf[q]])
  <2>1. q = p /\ written = 4 /\ WantsVerification(p, row)
    BY <1>2, <1>6
  <2>2. benefits'[o] = BookRun(benefits[o], row)
    BY <1>1, <1>2, <2>1
  <2>3. QED
    BY <1>3, <2>1, <2>2 DEF WantsVerification
<1> HIDE DEF o
<1>7. QED
  BY <1>4, <1>5, <1>6, InStepFrame

\* Going on with a run.
LEMMA ProceedInStep ==
  ASSUME TypeOK, LedgerInStep, NEW r \in Request, NEW p \in Plan,
         NEW work, NEW from, NEW stored, baselines' = baselines,
         Proceed(r, p, work, from, stored)
  PROVE  LedgerInStep'
<1>1. CASE UNCHANGED <<opportunities, benefits, verificationJobs>>
  BY <1>1, InStepFrame DEF Risen
<1>2. ASSUME NEW row, Finish(r, p, row, stored)
      PROVE  LedgerInStep'
  BY <1>2, FinishInStep
<1>3. QED
  BY <1>1, <1>2 DEF Proceed

\* Every step keeps the ledger in step.
LEMMA InStepStep == TypeOK /\ LedgerInStep /\ [Next]_vars => LedgerInStep'
<1> SUFFICES ASSUME TypeOK, LedgerInStep, [Next]_vars
             PROVE  LedgerInStep'
  OBVIOUS
<1>0. /\ benefits \in [Opportunity -> BenefitRow]
      /\ runs \in [Request -> Run] /\ baselines \in [Plan -> BaselineRow]
  BY DEF TypeOK, BenefitRow
<1>1. ASSUME NEW p \in Plan, AuthorisePlan(p)
      PROVE  LedgerInStep'
  <2> DEFINE o == OpportunityOf[p]
             new == AdvanceAtLeast(benefits[o], "APPROVED", benefits[o].realised)
  <2>1. o \in Opportunity /\ "APPROVED" \in Stage \ {"VERIFIED"}
    BY EngineAssumption DEF Stage
  <2>2. benefits' = benefits \/ benefits' = [benefits EXCEPT ![o] = new]
    BY <1>1 DEF AuthorisePlan
  <2>3. Risen(benefits[o], new)
    BY <1>0, <2>1, AdvanceRises
  <2> HIDE DEF new
  <2>4. \A q \in Opportunity : Risen(benefits[q], benefits'[q])
    BY <1>0, <2>1, <2>2, <2>3 DEF Risen
  <2>5. \A q \in Plan : /\ baselines'[q].verified = baselines[q].verified
                        /\ baselines'[q].value = baselines[q].value
    <3>1. \/ baselines' = baselines
          \/ \E provable \in BOOLEAN :
               baselines' = CaptureBaseline(baselines, p, provable)
      BY <1>1 DEF AuthorisePlan
    <3>2. baselines' = baselines
          \/ baselines' = [baselines EXCEPT ![p].captured = TRUE]
      BY <3>1 DEF CaptureBaseline
    <3>3. QED
      BY <1>0, <3>2 DEF BaselineRow
  <2>6. UNCHANGED <<opportunities, verificationJobs>>
    BY <1>1 DEF AuthorisePlan
  <2>7. QED
    BY <2>4, <2>5, <2>6, InStepFrame
<1>2. ASSUME NEW p \in Plan, NEW delta \in Delta, VerifyPlan(p, delta)
      PROVE  LedgerInStep'
  <2> DEFINE o == OpportunityOf[p]
             new == Advance(benefits[o], "VERIFIED", benefits[o].realised, delta)
  <2>1. o \in Opportunity
    BY EngineAssumption
  <2>2. \/ benefits' = benefits
        \/ delta > 0 /\ benefits' = [benefits EXCEPT ![o] = new]
    BY <1>2 DEF VerifyPlan
  <2>3. /\ ~baselines[p].verified
        /\ baselines'[p].verified /\ baselines'[p].value = delta
        /\ \A q \in Plan : q # p => baselines'[q] = baselines[q]
    BY <1>0, <1>2 DEF VerifyPlan, BaselineRow
  <2>4. UNCHANGED <<opportunities, verificationJobs>>
    BY <1>2 DEF VerifyPlan
  <2>5. new.stage = "VERIFIED" /\ new.verified = delta
    BY DEF Advance
  <2> HIDE DEF new
  <2>6. CASE benefits' = benefits
    BY <2>3, <2>4, <2>6, InStepFrame DEF Risen
  <2>7. CASE delta > 0 /\ benefits' = [benefits EXCEPT ![o] = new]
    <3>1. benefits'[o] = new
          /\ \A q \in Opportunity : q # o => benefits'[q] = benefits[q]
      BY <1>0, <2>1, <2>7
    <3>2. \A q \in Opportunity : Booked(benefits[q]) => Booked(benefits'[q])
      <4>1. Booked(new)
        BY <2>5, Ranks DEF Booked
      <4>2. QED
        BY <3>1, <4>1
    <3>3. LedgerLeads'
      <4>1. \A q \in verificationJobs : OpportunityOf[q] \in Opportunity
        BY EngineAssumption DEF TypeOK
      <4>2. QED
        BY <2>4, <3>2, <4>1 DEF LedgerInStep, LedgerLeads, Booked
    <3>4. ASSUME NEW q \in Opportunity, benefits'[q].stage = "VERIFIED"
          PROVE  /\ benefits'[q].verified > 0
                 /\ \E k \in Plan : /\ OpportunityOf[k] = q
                                    /\ baselines'[k].verified
                                    /\ baselines'[k].value = benefits'[q].verified
      <4>1. CASE q = o
        BY <2>3, <2>5, <2>7, <3>1, <4>1
      <4>2. CASE q # o
        <5>1. benefits'[q] = benefits[q]
          BY <3>1, <4>2
        <5>2. /\ benefits[q].verified > 0
              /\ \E k \in Plan : /\ OpportunityOf[k] = q
                                 /\ baselines[k].verified
                                 /\ baselines[k].value = benefits[q].verified
          BY <3>4, <5>1 DEF LedgerInStep, VerifiedIsBacked
        <5>3. QED
          BY <2>3, <5>1, <5>2
      <4>3. QED
        BY <4>1, <4>2
    <3>5. QED
      BY <3>3, <3>4 DEF LedgerInStep, VerifiedIsBacked
  <2>8. QED
    BY <2>2, <2>6, <2>7
<1>3. ASSUME NEW r \in Request, NEW p \in Plan, RunExecution(r, p)
      PROVE  LedgerInStep'
  BY <1>3, ProceedInStep DEF RunExecution
<1>4. ASSUME NEW r \in Request, TaskSucceeds(r)
      PROVE  LedgerInStep'
  <2>1. runs[r].plan \in Plan
    BY <1>0, <1>4 DEF TaskSucceeds, Run
  <2>2. QED
    BY <1>4, <2>1, ProceedInStep DEF TaskSucceeds
<1>5. ASSUME NEW r \in Request, TaskFails(r)
      PROVE  LedgerInStep'
  <2>1. runs[r].plan \in Plan
    BY <1>0, <1>5 DEF TaskFails, Run
  <2>2. QED
    BY <1>5, <2>1, FinishInStep DEF TaskFails
<1>6. ASSUME \/ \E p \in Plan : PlanExecution(p) \/ StopPlan(p)
             \/ \E p \in Plan, t \in Task, d \in {"APPROVED", "REJECTED"} :
                  ApproveTask(p, t, d)
             \/ \E r \in Request : TaskRetries(r) \/ AdapterThrows(r)
             \/ Crash
      PROVE  UNCHANGED <<benefits, opportunities, baselines, verificationJobs>>
  BY <1>6 DEF PlanExecution, StopPlan, ApproveTask, TaskRetries, AdapterThrows,
              Crash
<1>7. CASE UNCHANGED <<benefits, opportunities, baselines, verificationJobs>>
  BY <1>7, InStepFrame DEF Risen
<1>8. CASE UNCHANGED vars
  BY <1>7, <1>8 DEF vars
<1>9. QED
  BY <1>1, <1>2, <1>3, <1>4, <1>5, <1>6, <1>7, <1>8 DEF Next, AdapterAnswers

\* The ledger is in step with its surroundings wherever the process dies between
\* the writes: an opportunity shown as COMPLETED and a verification job find the
\* benefit booked (engine.ts:371-408), and a VERIFIED benefit has the baseline
\* that measured exactly its figure (verify.ts:67-105).
THEOREM InStep == Spec => []LedgerInStep
<1>1. Init => LedgerInStep
  BY DEF Init, LedgerInStep, LedgerLeads, VerifiedIsBacked, NewBenefit
<1>2. QED
  BY <1>1, InStepStep, TypeCorrect, PTL DEF Spec
=============================================================================
