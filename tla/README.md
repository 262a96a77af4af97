# Formal models of aijoes.app

TLA+ models, TLC runs and TLAPS proofs about the programs under `src/`. There are
two. `src/src` is a multi-tenant platform (Next.js, SQLite) that analyses
companies, turns what it finds into opportunities, executes playbooks for them
under human authorisation, verifies in connected systems what the execution was
worth, and runs a go-to-market engine of its own. `src/sage-halpin` is a second
application (Express, a document store, a React client): an organisation asks
board questions of people and of AI agents that learn.

Contents: [inventory](#inventory), [modules](#modules), [how the models
correspond to the code](#how-the-models-correspond-to-the-code), [runs and
bounds](#runs-and-bounds), [fairness](#fairness), [proofs](#proofs), [where code
and documents part](#where-code-and-documents-part), [what the properties
except](#what-the-properties-except), [what is not covered](#what-is-not-covered),
[plan](#plan).

## Inventory

The platform; paths are below `src/src/lib/`.

| Component | State it keeps | Operations | Talks to | What makes it correct |
| --- | --- | --- | --- | --- |
| Execution engine `execution/engine.ts` | `execution_plans`, `approvals`, status of `opportunities` | planExecution, authorisePlan, runExecution, approveTask, stopPlan | adapters (awaited), ledger, baselines, job queue | nothing before consent; gates; statuses that agree with tasks |
| Benefits ledger `benefits/ledger.ts` | `benefits` | createBenefit, advance, advanceAtLeast | engine, verification, analysis | stages climb one way, figures are booked once |
| Verification `verification/*` | `verification_baselines` | captureBaseline, verifyPlan | engine, ledger, facts | baseline before change; VERIFIED only on proof; proof not stranded |
| Job queue and worker `jobs/*` | `jobs` | enqueue, claimNext, completeJob, failJob, tick | every instance's worker shares the table | one holder; bounded attempts; every job ends |
| Analysis and refresh `analysis/pipeline.ts`, `refresh.ts`, `estate/import.ts` | `analysis_runs`, schedules, `opportunities` | analyse, queueDueRefreshes, import | queue, twin, connectors, ledger | a completed run has booked what it found; no due reading is lost |
| Analysis engines `analysis/engines/*` | none | rules over a twin | pipeline | what is bought is not proposed |
| Twin and provenance `core/*` | claims per field, facts | claim, corroborate, read | connectors, engines | the right claim wins |
| Discovery `discovery/*` | none | read a connected system | pipeline | claims as sure as their source |
| CRM synchronisation `gtm/crm/*` | links, outbox | sync, drain | an external CRM | one record each; the CRM catches up |
| Outreach, pipeline, loop, scoring `gtm/*` | accounts, hypotheses, messages, deals | a pass; edits of people | store, CRM | an action once a day; stages; nothing sent unapproved |
| Autonomy `core/autonomy.ts` | grants, halt | grant, halt, decide | planning, users | what is allowed is what was asked for last |
| Capabilities, playbooks `capabilities/*`, `playbooks/*` | catalogues | route, plan, invoke | engine | a task is given to one that can do it, and gated where its adapter insists |
| Users and sign-in `auth/*` | users, sessions, attempts, tickets | sign in, SSO, administer | every route | an administrator remains; nobody stays in under an old password |
| Tenant database, vault, observability, Jojo, web app | SQLite file | statements, secrets, audit rows, rendering | all | - |

Sage Halpin; paths are below `src/sage-halpin/`.

| Component | State it keeps | Operations | Talks to | What makes it correct |
| --- | --- | --- | --- | --- |
| Workspaces `server/workspace.ts`, `horizon.ts`, `routes/workspaces.ts` | rows of a partition: settings, lessons, decisions, events, checkpoints, signals | the routes; a scan by timer or by hand; deletion | store, model | agents learn from the chair only; no save is undone by an old copy; deletion is complete |
| Files `server/files.ts` | a record and chunks | attach, ask, share, delete | store, model | a listed file can be read |
| Board questions `server/routes/consultations.ts` | a partition per question, tokens | create, invite, answer, rounds of agents, decide, close, expire | store, model, e-mail, the workspace's record | permanent members are heard; links; the record is true; expiry |
| Accounts `server/auth.ts`, `routes/auth.ts` | accounts, sessions, throttle, saved data | sign up, in, out; password; deletion | store | nothing outlives password or account |
| Account sync `src/lib/account.ts` | localStorage, baseline | load, merge, save | accounts | no edit lost |
| Question pages `src/pages/question*.tsx`, `respond.tsx` | localStorage: questions, links | ask, room, decide, answer | board questions | what is asked is listed; links shown work; one decision |
| Workspace pages `src/pages/*.tsx`, `src/lib/workspace.ts`, `decisionLog.ts` | localStorage: organisation, link, decisions | edit, first use, convene, lock, the lists | workspaces, files | no workspace orphaned; pages show what is so |
| Boardroom, shell, infrastructure | none | - | model | - |

**Interaction.** A company is analysed by a job, its twin read by engines, and
every opportunity entered in the ledger. A person plans an opportunity's playbook
and authorises the plan; the engine captures a baseline, runs the tasks through
adapters, stops at gates, books the benefit and enqueues a verification job.
Some instance's worker claims it and advances the benefit. The go-to-market loop
shares the database and nothing else with this. In Sage Halpin the browser holds
the keys: a workspace or a question is reached by a token that it keeps in
localStorage, which account sync carries from browser to browser.

**Hard behaviour.** (1) Handlers hold a copy over an await and write it back
whole: runs of the engine, every handler of Sage Halpin's server, and pages of
its client. (2) Rows are written one after another without a transaction; a
process may die between any two. (3) Instances share a job table in which
selecting and claiming are two statements. (4) CRMs refuse, answer late or not at
all. (5) Sign-in and administration are handlers that await in the middle. (6)
Pages are left while what they started goes on. The list, each with its line and
the properties aimed at it, is `hazards` in `PROJECT.json`.

## Modules

| Module | Role |
| --- | --- |
| `BenefitsLedger` | operators: stages, `CanAdvance`, `Advance`, `AdvanceAtLeast` |
| `LedgerRatchet` | abstract specification: what the ledger promises its readers |
| `ExecutionEngine` | the engine and every table it writes; instantiates `LedgerRatchet` with its `benefits` as `Ledger` |
| `ExecutionClaims` | what the console says of a gate and the code does not keep |
| `JobQueue` | the job table and the workers |
| `VerificationLoop` | composes `JobQueue` with the verification handler, the API's verification, baseline and benefit |
| `CompanyTwin`, `ConnectorFacts`, `AnalysisEngines` | pure: which claim wins; what each connector claims; what each engine finds |
| `CompanyAnalysis` | composes `JobQueue` with those: the analysis job, its schedules, the rows it writes |
| `IcpScoring` | pure: the fifteen archetypes, the seven scores, hypotheses |
| `CrmSync` | links, calls and outbox of one CRM |
| `GtmLoop` | composes both: passes, autopilot, people's edits |
| `Planning` | the catalogues of capabilities, actions and playbooks; routing; grants and halt |
| `SignIn` | users, sessions, single sign-on, user administration |
| `Administration` | composes `Planning` behind the guard of `SignIn` |
| `SageRequests` | what every server module of Sage Halpin builds on: tabs and their requests |
| `AgentLessons`, `SageFiles`, `HorizonScan`, `WorkspaceRecord` | one each of a workspace's concerns |
| `SageWorkspace` | composes the four, with the guard and deletion |
| `Consultation` | a board question |
| `SageAccounts` | one address's account |
| `AccountSync` | two browsers of an account |
| `QuestionRoom` | the pages of a question, over its routes |
| `WorkspaceDesk` | the pages of an organisation and its workspace, over its routes |
| `*Proofs` | theorems about the module they extend ([below](#proofs)) |
| `MC*` | values for the constants of the module they extend; `MCSagePages` composes the two page modules, `MCSageServer` workspace and accounts; `MCAccountSync` looks at two browsers or at two entries |

From this directory, `tlc -config gtm.cfg MCGtm` runs one run (the module of each
is in `PROJECT.json`), and `tlapm ExecutionEngineProofs.tla` checks a proof module.

## How the models correspond to the code

`PROJECT.json` maps every definition to its lines. What a step is:

- **The platform's handlers.** One JavaScript event loop per instance, SQLite
  called synchronously: a handler is one step up to its first await, and its
  writes are separate statements after each of which the process may die.
  `runExecution` is a step per adapter answer; `runs[r]` is its closure.
  `analyseCompany` gives up control only for connectors; from the last answer to
  its end it is a step per loop over rows. A sign-in is split where it waits for
  a body, for scrypt and for the identity provider.
- **Instances.** In `JobQueue` they are separate processes: `Select` and `Claim`
  are the SELECT and the UPDATE of `claimNext`, `HandlerThrows` and
  `WriteFailure` the read and the write of `failJob`. `Elapse` is the clock
  passing a row's time. `ORDER BY run_after` is left open, so what is shown
  holds for every order.
- **Sage Halpin's handlers.** Every store call is awaited and is a step with the
  code up to the next one. A call may fail, which ends the handler there.
- **Its pages.** A request leaves, is served (one step: what happens between the
  server's awaits is the matter of the server modules), and is answered or lost.
  A request belongs to the page that sent it until that is left; after that it
  goes on but no longer touches a page. Each `...Offer` says which buttons a
  page shows, from what it last saw.
- **The GTM loop.** A pass is a process whose steps are the stretches between two
  awaits; a CRM call leaves (`Send`), is applied or not (`Land`), and is answered
  or not (`Answer`). Days pass.
- **Scores and rules.** `IcpScoring`, `AnalysisEngines`, `ConnectorFacts` and
  `Planning` keep thresholds, weights and tables in integers (percent,
  thousandths); texts are sets of findings.
- **Unknown inputs** are chosen: adapter answers, the comparison of a baseline,
  what the language model proposes, who answers.
- **History variables** (`effects`, `consented`, `overran`, `cutShort`, `asked`,
  `said`, `raced`, `excused`, `disturbed`, `crossed`, `crowded`, ...) record what
  happened for properties to speak about; no guard reads them.

Steps that stand in for something larger: `Finish` writes `row`, the run's own
copy, over whatever the table holds (where a stop or an approval is lost);
`SaveMeta` marks every other copy in hand as late; `Over` lets all waiting saves
of a page go at once (`account.ts:135`); `Serve` in `QuestionRoom` is a whole
route.

## Runs and bounds

| Run | Instance | What it checks |
| --- | --- | --- |
| `engine_overlap` | one plan of an internal and a gated external task, two overlapping runs, three commands, one retry | types; approval ids bind to their task; COMPLETED is true of tasks and of verification (`TypeOK`, `ApprovalBinds`, `CompletedIsTrue`) |
| `engine_crash` | two plans of one opportunity, one run at a time with the code's two retries, one death at any point | consent first; the ledger is in step with what is shown and what was measured; baseline before work; `LedgerRatchet` implemented; every run ends (`ConsentFirst`, `LedgerInStep`, `BaselineBeforeWork`, `LedgerSpec`, `RunsEnd`) |
| `loop` | one verification job of two attempts, two workers, one API request, one death, any lock timeouts | success is proof and proof is booked; exclusion and finality until a lock first times out; an enqueued verification concludes (`SuccessIsBooked`, `ExclusiveUntilOverrun`, `LoopConcludes`, `SettledStays`) |
| `analysis` | one worker, two jobs, one twin, two attempts, one death, one plan; a company unknown, GTM-researched or analysed before | completed runs leave a benefit for whatever is not carried out; what is bought is not proposed; a due reading happens (`Booked`, `BoughtNotProposed`, `RefreshReached`) |
| `gtm` | one company, two findings, one pass at a time, two moves of people, a hundred days that pass at once, one fault | one CRM record each; an autopilot action once per rule and day; the CRM catches up (`OneRecordEach`, `OncePerDay`, `CrmCatchesUp`) |
| `administration` | two users, two sessions, two requests, one ticket, five served requests; every playbook at its eligible value, and none; three scopes of grants | authority as asked; tasks that can be done; an administrator remains; signed in anew (`AuthorityAsGranted`, `TasksCanBeDone`, `AdministratorRemains`, `SignedInAnew`) |
| `sage_server` | two tabs, two requests, an agent, three lessons, limits of one; or four requests, two passwords, two accounts of one address | limits; memory is the chair's; served in turn; settings survive a scan; deletion leaves nothing; nothing outlives password or account; the throttle locks (`WithinLimits`, `MemoryIsTheChairs`, `ServedInTurn`, `SettingsSurvive`, `DeletedLeavesNothing`, `NothingOutlives`, `LockHolds`) |
| `sage_consultation` | two tabs, two people, four requests, six links, one failed call | permanent members heard; links work; what is stored apart agrees; expired questions go (`PermanentHeard`, `StoredApartAgrees`, `LinksWork`, `ExpiredGoes`) |
| `account_sync` | two browsers that change one entry, or one browser that changes two and has two saves at a time; two texts an entry can return to, three edits, three visits, two lost saves | edits kept; saved in the end (`EditsKept`, `SavedInTheEnd`) |
| `sage_pages` | a question with one permanent member, three buttons pressed, two requests out, one lost; or a workspace, five moves, two jobs, one missed answer | what the browser keeps is true; decided once; the organisation kept; a locked decision sent once; pages show what is so (`KeptHereIsTrue`, `DecidedOnce`, `OrganisationKept`, `LockedSentOnce`, `ShownIsSo`) |
| `claim_gate` | the smallest instance that shows the departure | `GateHolds`, and finds it violated: [below](#where-code-and-documents-part) |
| `analysis_ledger` | as `analysis`, with a plan of the last of the services proposed | `EveryOpportunityBooked`, and finds it violated: [below](#where-code-and-documents-part) |

Why the bounds suffice. A second process, tab, browser or run is the first with
which a lost update exists; a third only repeats it, since each interacts with
others only through rows it overwrites whole. Two requests per tab and more make
one finish under another that began before. One death or failed call can fall at
every point. Limits of the code (30 lessons, 100 files, 300 signals, 8 wrong
passwords) are small constants, so that they are reached. The history of a
question, an account or a plan needs as many requests as the properties compare:
an invitation repeated, a decision repeated, a password changed and changed back.
Two attempts are one retry. An entry with two texts can be set back, and can be
changed apart from another browser's; three edits do either. A behaviour of
`account_sync` has one entry for two browsers, whose pages have one save at a time,
or two entries for one: a saved copy is whole, and what waits for a save is of its
page. Browsers, entries and texts being alike, it takes the first of each first.
`NoEditLost` is proved without either restriction. Symmetry is used where the
permuted values are compared for equality only, and in no run with a liveness
property (the temporal properties of `sage_server` are about single steps). A behaviour
of `administration` looks at people or at grants, one of `sage_pages` at a
question or at a workspace, and one of `sage_server` at a workspace or at an
account: the parts share no variable that both write but the number of requests,
which is why watching one at a time loses nothing. A plan ends the look at grants.

`CompletedIsTrue` is checked with `MaxCrashes = 0`: a death between the writes
of a run does break its second half, no line of the repository promises
otherwise, and the hazard is listed. `CompletedHolds` proves that the first half
holds with deaths as well. `CHECK_DEADLOCK FALSE` everywhere: the
bounded systems stop when what the bounds count is used up.

## Fairness

- `engine_crash`: an adapter call that is awaited is answered, one way or
  another. People are under no obligation, and no death is.
- `loop`, `analysis`: clocks run; a worker polls again (`loop()` re-arms its
  timer after every tick, and `register()` starts a worker in every new process);
  a handler that was entered ends. For the verification handler, which makes no
  network call, that is so by its code; for analysis it rests on the connectors'
  timeouts. That a handler succeeds, or a connected system ever answers, is not
  assumed. A worker queues due refreshes at each poll.
- `sage_consultation`: the sweep runs (its timer) and an entered request goes on.
- `account_sync`: the save timer runs while a page is open, and requests end;
  losses are bounded.
- `gtm`: passes are run again, requests end, and from some time on the CRM is
  well: faults are bounded.

The other runs check safety only.

## Proofs

TLAPS (SMT, Zenon, LS4) checks eight modules; every property below is proved for
every value of the constants, the runs show it on one instance.

| Module | Theorems, and the property of a run each states |
| --- | --- |
| `ExecutionEngineProofs` | `TypeCorrect` (`TypeOK`), `Consent` (`ConsentFirst`), `Untouched`, `BaselineFirst` (`BaselineBeforeWork`), `ApprovalsBind` (`ApprovalBinds`), `CompletedHolds` (`CompletedIsTrue`); of the ledger `ImplementsLedger` (`LedgerSpec`), `InStep` (`LedgerInStep`) |
| `JobQueueProofs` | of the queue by itself `TypeCorrect`, `Exclusive` (`ExclusiveUntilOverrun`), `Settles` (`SettledStays`), `GivenUpLast`, `AttemptsKept`; `LoopExclusive`, `LoopSettles` (the same two inside the loop), `SuccessBooked` (`SuccessIsBooked`); of the analysis on it `LedgerComplete` (`Booked`) |
| `GtmLoopProofs` | `RecordOnce` (`OneRecordEach`), `ActsOnce` (`OncePerDay`) |
| `AdministrationProofs` | `AdministratorStays` (`AdministratorRemains`), `SessionsAnew` (`SignedInAnew`), `AuthorityHolds` (`AuthorityAsGranted`), `TasksDone` (`TasksCanBeDone`) |
| `SageAccountsProofs` | `AccountTypes`, `NothingIsLeft` (`NothingOutlives`), `LockInTime` (`LockHolds`); of account sync `NoEditLost` (`EditsKept`) |
| `ConsultationProofs` | `QuestionTypes`, `NobodyPassedOver` (`PermanentHeard`), `LinksAsKnown` (`LinksWork`), `RowsAgree` (`StoredApartAgrees`) |
| `SageWorkspaceProofs` | `WorkspaceTypes`, `SettingsHold` (`SettingsSurvive`), `MemoryHolds` (`MemoryIsTheChairs`), `ServedHolds` (`ServedInTurn`), `NothingLeft` (`DeletedLeavesNothing`), `WithinHolds` (`WithinLimits`) |
| `SagePagesProofs` | `RoomTypes`, `KeptHere` (`KeptHereIsTrue`), `Decided` (`DecidedOnce`), `DeskTypes`, `Organisation` (`OrganisationKept`), `Decisions` (`LockedSentOnce`), `ShownSo` (`ShownIsSo`) |

**Assumptions.** Only the ASSUMEs of the modules, which TLC evaluates in the runs:
bounds and limits are naturals (those the code sets above zero, above zero); the
null of a table is none of its ids; and what the code takes for granted of its
surroundings: there is a client to send requests and finitely many connections
(`RequestsAssumption`), a feed has finitely many items (`ScanAssumption`), a
tenant is founded with somebody in it (`SignInAssumption`), levels of autonomy,
values and likenesses are numbers (`PlanningAssumption`), time does not go back (`GtmAssumption`),
workspaces and locked decisions are numbered and of the latter there are
finitely many (`DeskAssumption`), and no set of ids,
texts or passwords is empty, because a row that is not there needs a value to
stand for its fields. One theorem has a hypothesis besides: `LedgerComplete` is
about one instance of the server (`OneInstance`), which is how the run has it. Of
two that analyse one company at a time, the first may call its run completed
between two loops of the second, whose rows are not booked yet; `Booked` is then
not so until the second has gone on.

**Why the properties need more.** Hardly any property is inductive: in this code
a handler reads a row, waits, and writes its copy back, so that a claim about
rows must also be made of every copy in hand. That is what the invariants add.

- *Engine.* `Authority`: a plan past authorisation is in `consented`, each run
  works on such a plan, and no step takes a plan back (`FinishFrame`,
  `ProceedFrame`, `AuthorityFrame` say so once for all steps). `BaselineFirst`
  follows from the guard of `AuthorisePlan`. `Bindings`: stored plans and the
  copies of runs are both bound to approvals opened for their tasks, and the
  approvals table only grows (`Outlives`). `Completion` keeps two claims apart:
  that COMPLETED is true of every task survives deaths; that what is measured
  will be verified holds while nothing has died, as the run checks it.
- *Ledger.* Types suffice for the refinement: `Allowed` lists what a step may
  make of one row, `ClimbAllowed` and `BookRunAllowed` show that
  `advanceAtLeast` and the booking of a run stay within it, and `LedgerMove`
  makes of an allowed change a step of the abstract ledger. `LedgerInStep` is
  inductive over the types, because the code books before it shows; `Risen` and
  `Booked` say what a climb and a booking leave.
- *Queue.* `Exclusion`: while a job's lock has never timed out its running row
  is not ripe, so a claim finds it pending, and pending rows have no holder.
  `Burial`: a worker that has read "exhausted" is right for ever, since attempts
  only grow (`AttemptsGrow`). `Quota` bounds them.
- *Loop.* `LoopIsQueue` shows that every step of the loop is a step of the queue
  or leaves it alone, so its theorems lift without being proved again. `Proof`
  adds that a call which is to book, or has returned, saw a verified baseline.
- *Analysis.* `Writing`: from removing rows until the run is completed nobody
  vouches for them; when rows are to be written, those that wait have benefits,
  and when benefits are to be booked, those without one are among what was found.
  Of twins, connectors and engines nothing is used.
- *CRM.* `OnePass`: as long as passes do not overlap one is under way, and it makes
  the calls. `Counted`, record by record: the CRM has no more of it than writes whose
  answer was lost, and one besides once it is linked or the answer is there; a call
  goes out with the id of the link and comes back with one the CRM has. Of `writeOne`'s
  sending, landing, answering, failing and losing there is one lemma each; of the
  autopilot and the store, only that nothing else writes links or calls.
- *Autopilot.* `LogInv`: while one pass is under way, what it may still do has not
  been done since the morning of its day. Of a deal it has listed, it has seen all
  that was done by then; of the one at hand, the log has none of the rules left, nor
  the one whose task waits (`Unfired`). Which rules fire on a deal does not matter.
- *Administration.* `People`: each live session carries what is in force, the user
  a waiting sign-in has read is still there, and an administrator remains.
  `AuthorityOK`: a grant is as it was asked for since the last halt, or below the
  level that executes. The theorem covers every impact, not only those the run tries.
- *Plans.* `PlanMade`: a plan is what planning makes of some opportunity under some
  grants; which ones does not matter. `GatesAgree` holds of every playbook: an
  action of it that reaches outside is gated, and some capability performs it. A
  plan worth what it costs has no task whose cost alone is out of proportion,
  for the sum is at least each of its summands (`SumsExist`, `SpentEnough`: that
  the sums exist at all is an induction, done as a least counterexample). The
  capability that performs the action then scores 743 of 1000 or more, any whose
  text shares less than two fifths of the words 741 or less (`Scored`), so the
  router takes one that performs it (`Routed`). From two fifths on that margin is
  gone, which is why `GivenToTheAble` stops there.
- *Accounts.* `Shape` says at which steps a request of each kind can be;
  `AccountKept`, `DataKept` and `ThrottleKept` say, of a topic nobody raced for,
  that one request at most is on it and that what it has read is still so.
- *Account sync.* An edit can be in a browser's copy, in a save that waits, is
  under way or has left a closed page, and in the account. Texts come back, so a
  save cannot be told newer than another by what it holds. `OnePage`: one page is
  open at a time, and none while a save of a closed one is on its way. `Calls`: the
  first save of a page is under way and the others wait, so what has arrived is
  what the account has. `Based`: the account has what the page takes for saved,
  but for entries stored without its hearing so (`unheard`) and while an answer is
  out. `Tracked`: what a browser holds apart from its baseline is the last edit,
  and so is its text where a save of its own has another. `Kept` says where the
  last edit is, also when stray saves arrive. `SyncInv` claims this as long as some
  entry is not in doubt (`Doubtful`), since a step after which more could happen
  excuses every entry.
- *Board questions.* `Alone` is the same for the topics of a question;
  `MetaSeen`, `DecisionSeen`, `LinksSeen`, `BoardSeen`, `RecordSeen` and
  `AnswersSeen` say what each step in between has seen of its rows. `Kept` is
  all of them, proved step by step and topic by topic.
- *Workspace.* `SettingsKnown`, `LessonsKnown`, `RecordKnown` and `FilesKnown`
  are of that kind too. `ErasureKnown` says, step by step of a deletion begun
  alone, what is gone already (`LeftAt`). `Within` counts: rows that a request
  is about to remove, and those a listing showed to be among the newest `n`,
  are told apart from the rest. `FewNewest` is the fact about numbers under it:
  of a finite set, what has fewer than `n` above it is at most `n` elements.
- *Question pages.* `Creation`: one request creates a question, before anything
  else is asked of it. `InList`: what a request was sent of is listed while it
  lives. `LinksKnown`: a link is the question's, or its successor is in an answer
  that has not arrived. `Decision`: of a question nothing came between, one
  decision at most is on its way, from the page on show, and once it has been
  answered, or a view has shown it, that page offers no other.
- *Workspace pages.* `Linked`: requests go to workspaces that were created.
  `Kept`: a workspace that lives is linked, or its link or deletion is on the way,
  but for those in `adrift`. `Overwriting` says why no other is lost: while one is
  being created and there is a link already, that link is in `adrift`, and the page
  has a link in hand only while one is stored.
  `Locked`: a workspace has a decision once it has been sent, and one job at most
  is to send it. `Uncrowded`: a page that nobody crowds waits for one thing
  (`Waits`), and what it waits for will show what is so. The pages send the newest
  decision and number the next one: `Greatest` and `Smallest` are that finitely
  many numbers have a greatest, and numbers a smallest.

**Only model-checked.** Liveness (`RunsEnd`, `LoopConcludes`, `RefreshReached`,
`CrmCatchesUp`, `ExpiredGoes`, `SavedInTheEnd`): fairness and ENABLED are out of
TLAPS' reach. `BoughtNotProposed`: it is about the data of engines and claims, and
rests on what of several claims wins, a fold over them; TLC goes through the data
in full.

## Where code and documents part

Two runs show a departure. `claim_gate` checks what `ExecutionControls.tsx:57` says of a gated task, "it
cannot run until a named person approves it"; TLC finds a second run of a waiting
plan passing the gate. `analysis_ledger` checks what `pipeline.ts:351` says of the
ledger, "every opportunity enters the Benefits Ledger": re-analysis deletes a
benefit, is refused the opportunity a plan refers to (`company.ts:115-116`), and
the plan, carried out without a benefit to advance (`engine.ts:287`, `:372`),
leaves completed work that no later analysis enters, unless it finds the same id
again. The other departures below were met while modelling; the
models do what the code does, and the properties except them where they would be
broken.

**Execution and queue.** A run in flight writes its copy over a stop
(`engine.ts:368`). A stopped opportunity stays AWAITING_APPROVAL and refuses the
fresh plan `ExecutionControls.tsx:70` suggests. `approveTask` has no guard on the
plan: approving a task of a blocked DRAFT authorises it
(`docs/execution-engine.md:29`). The slower of two runs goes on after COMPLETED
(`ExecutionControls.tsx:64`). `verifyPlan` measures plans that never ran
(`README.md:50`). Two workers can both reclaim a timed-out row, whose status is
the same before and after (`queue.ts:99-101`); reclaiming ignores `max_attempts`
(`queue.ts:136`); a slow worker's failure reopens a job another completed
(`runner.ts:37`). A retry after a death between `recordVerification` and `advance`
leaves the benefit REALISED (`handlers.ts:2-3`).

**Analysis.** A scheduled reading passes `customer_id ?? ''` (`refresh.ts:128`)
and fails by foreign key for a company without customer. Re-analysis writes a
fresh NOT_STARTED over a started opportunity (`company.ts:129` against `:94-95`),
whose number may by then be another service's. `planExecution` keeps a plan while
its opportunity is NOT_STARTED, so re-analysis removes its benefit and is then
refused by the foreign key: a retry is refused again until the plan is carried out. A company of no known domain, or one that redirects,
gets a new twin per analysis; two parallel analyses make two. A death between
completing a run and scheduling the next one ends its schedule
(`pipeline.ts:372-379`). Corroboration lowers 0.98 to 0.95; facts outlive a
disconnected system; a new `detectedAt` makes equal claims accumulate. A death
before `enqueue` leaves a run queued for ever.

**GTM.** `runLoop` hands the seed-list source no payload; approving, sending,
editing and suppressing have no route (only `POST /api/gtm/run` and scripts).
Overlapping passes act twice and make duplicates; a stale `current`
(`gtm/pipeline.ts:253`) overwrites edits. `send()` does not ask again about
suppression. A changed order of confidence breaks "one deal per service". Weights
of the active strategy are read by nothing. The outbox has no branch for tasks,
contacts and meetings; a pending entry is superseded but never re-sent after
A-B-A; composing step 1 again resets an approved message; a lost answer makes a
second deal, though `sync.ts:13` promises none.

**Administration and sign-in.** Granting again with a narrower scope keeps the old
one (`tenant-data.ts:96`, against `autonomy.ts:4`). Likeness of words of two
fifths, or an unavailable owner, sends a task to a capability whose adapter
refuses it. `requiresIntegration('azure')` names no connector. Halting touches no
plan in flight (`HaltControl.tsx:29` promises the next gate). The cookie's age is
set at sign-in only, so an active user is out after twelve hours
(`sessions.ts:20`). Crossing requests of two administrators, or `set-role` by the
only one, leave none (`users/route.ts:55`: the guard runs before the body is
awaited). A sign-in being checked during a reset gets a session for the old
password. Addresses are unique per tenant (`schema.sql:25`) and read without one.

**Sage Halpin, server.** Deletion removes `meta` before other rows, and a scan
under way writes the workspace back (`horizon.ts:439`); the timer's claim writes
the copy it listed (`:456`); two replicas both list before either claims.
Invitation, close and decision write back a stale question
(`consultations.ts:623`, `:634`, `:885`). A purge that dies after `meta` leaves
answers nobody sweeps (`docs/RUNBOOK.md:77-79`). Two sign-ups of one address race
(`routes/auth.ts:123`); an old-password sign-in may start a session after
`endAllSessions`; a password change in flight brings a deleted account back, and
data saved after the deletion stay; overlapping failed sign-ins count once.

**Sage Halpin, account sync** (`account.ts`). In three ways the code loses an edit
against its own comments. `EditsKept` excepts the entries concerned, each way by a
history variable of its own, and TLC finds each when its exception is dropped.

- `setBack`, against `:65-68`, "so neither is lost". `saveNow()` asks only whether
  the copy is what was last heard to be saved (`:134`). Somebody changes an entry,
  the save is stored, and before its answer arrives, or when it was lost, sets the
  entry back: it counts as saved. The account keeps the other text, and the next load
  brings it back. An open page does not save it either, until something else changes,
  which `SavedInTheEnd` excepts (`unheard`).
- `overtaken`, against `:176-178`, "work saved from another device is never
  overwritten by an older copy here". A page closes with a save leaving, which is
  stored; the baseline is behind. The entry is edited on another device, on top of
  that, and saved. Reopened, the first browser takes its text for a change made since
  the last save, and `merge()` (`:103`) puts it over the newer one.
- `leftOver`, against `:97-99`, "everything else comes from the account". `signOut()`
  waits for `saveNow()`, which returns at once if nothing is new, though an earlier
  save is under way. Its answer arrives after copy and baseline were removed
  (`:237-238`) and writes a baseline (`:141`). At the next sign-in every entry of it
  counts as removed here, and is removed from the account.

Besides: two waiting saves go out at once (`:135`); a stray save of a closed page may
arrive after a newer one; two browsers overwrite each other's snapshot whole; signing
out after a failed save clears unsaved edits; an empty account lets a local copy come
back.

**Sage Halpin, question pages.** A required answer of blanks passes the page's
check and is refused by the server. Another button of the room clears `busy`, so
one under way can be pressed again: the second decision overwrites the first, and
the handler never looks for one. A lost answer to creating leaves a question
nobody lists, and sending again makes a second. Inviting again while sending goes
on crosses invitations, and the room may show a dead link, as it does when the
answer to an invitation is lost.

**Sage Halpin, workspace pages.** The organisation page writes its whole copy, and
drops a link stored since: a second workspace is created and the first orphaned
(`workspace.ts:76`, "creating the workspace on first use"). Clearing during
creation brings the link back; a failed DELETE orphans. Leaving within 800 ms
drops the sync of the profile; two PUTs may cross. A decision whose send is in
flight is sent again when the log is opened (`decisionLog.ts:36-40`, "sent
once"). After clearing, entries sent before are not sent to the new workspace.
Two quick saves of what the horizon watches lose one. A document uploaded before
the list loads is not shown. An older view may overtake a newer one, and publish
is offered again when the refresh after it fails.

## What the properties except

Where a property says "unless", a history variable holds what is excepted, and it
is the departure above that would break it: `excused` (two browsers at once, a
failed save signed out of), `setBack`, `overtaken` and `leftOver` (the three
departures of account sync), `raced` (two requests at work on the same rows),
`overlapped` (two passes, two requests on one file), `contested`, `clobbered`
(a copy out of date when written), `cutShort`, `overran`, `disturbed`, `crossed`,
`doubled`, `adrift` (workspaces whose link was written over, or never heard of),
`crowded`. Each names the rows, questions, workspaces or entries concerned, and
everything else is still checked in the same behaviours.

What that leaves should be said plainly. Where the code does not guard against an
interleaving, its property excepts the interleaving, and is about one request at
work, repeated, refused and cut short at any await, among others on other rows:
so `NothingOutlives`, `LockHolds`, `StoredApartAgrees`, `LinksWork`,
`DeletedLeavesNothing`, `AdministratorRemains` (an administrator's request carried
out after its sender ceased to be one), `SignedInAnew` (a sign-in being checked
while the password changes), `LockedSentOnce` and `ShownIsSo`. `PermanentHeard` says that no
member without an answer goes unnamed, not that whoever is named has none: an
answer may arrive while the decision is drawn. The note of a hazard in
`PROJECT.json` says which half of it is not covered.

## What is not covered

Every component is listed in `PROJECT.json` with its status.

Not modelled: the boardroom route (a language model's answer, no state), the
secrets vault, the tenant database as such (its foreign keys are in
`CompanyAnalysis`), observability, Jojo's intents, rendering of either web
application, infrastructure templates.

Left out of modelled components: wording, prompts, validation of fields, evidence
texts; SQL errors such as a busy database; graceful shutdown; what an opportunity
is worth and how it is ranked; paging and parsing of connectors; of the GTM
engine synthetic accounts, strategy proposals, splitting of tasks and the caps per
pass (25 researched, 10 composed, 50 drained); of sign-in the sliding expiry, the
general rate limit and token signatures; hashing and cookies; of the pages the
dialog that attaches a file to an analysis, downloads, and outcomes reviewed on
the agents' page. Of each kind of thing a workspace keeps `WorkspaceDesk` has one,
and two abandoned requests alike count as one.

The language model, e-mail, CRMs, identity providers and connected systems are
external: the models let them answer anything the code distinguishes.

## Plan

Done: execution, ledger, verification, queue and the analysis on it; the GTM loop
and CRM; planning, autonomy and sign-in; Sage Halpin's server, account sync and
pages.

The safety properties of the engine, ledger, queue, loop, administration,
accounts, account sync, board questions, workspaces and pages are proved, that the
analysis leaves the ledger complete, that the tasks of a plan can be done, that the CRM gets one record of each
thing and the autopilot acts once a day.

Next, in this order:

1. An abstract specification of account sync (one copy, atomically merged) which
   one browser's `AccountSync` implements.
