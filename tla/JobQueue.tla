-------------------------------- MODULE JobQueue --------------------------------
(***************************************************************************)
(* The durable job queue of src/lib/jobs: the table `jobs' (queue.ts) and  *)
(* the worker every instance of the server runs (runner.ts).               *)
(*                                                                         *)
(* A worker handles one job at a time.  Instances share the table and are  *)
(* separate processes, so what an instance does between two SQL statements *)
(* - selecting a job and claiming it, reading a failed job and writing its *)
(* new status - other instances may interleave with.                       *)
(*                                                                         *)
(* Time is one bit per row: whether the clock has passed what claimNext()  *)
(* compares it with, run_after for a pending job and the lock's timeout    *)
(* for a running one.  Of several claimable jobs the code takes the one    *)
(* with the earliest run_after; the model lets it take any.  The payload,  *)
(* the error text, locked_by (which nothing reads) and the timestamps are  *)
(* left out.                                                               *)
(***************************************************************************)
EXTENDS Integers, FiniteSets

CONSTANTS
  Job,          \* jobs that may be enqueued (bounds them)
  MaxAttempts,  \* per job its max_attempts: 2, 3 or 5 in the code
  Worker,       \* the instances, one worker each
  MaxCrashes,   \* bound: how often an instance dies
  None          \* null

ASSUME QueueAssumption ==
  /\ MaxAttempts \in [Job -> Nat \ {0}]
  /\ MaxCrashes \in Nat
  /\ None \notin Job

VARIABLES
  jobs,     \* the table
  workers,  \* what each instance's worker is at
  overran,  \* history: jobs whose lock has timed out at least once
  crashes   \* how often an instance has died

queueVars == <<jobs, workers, overran, crashes>>

-----------------------------------------------------------------------------
Open == {"pending", "running"}
Settled == {"succeeded", "dead"}

\* A job nobody has enqueued yet is "absent"; "failed" is never stored.
JobRow ==
  [status : Open \cup Settled \cup {"absent"}, attempts : Nat, ripe : BOOLEAN]

\* A worker has selected a job and seen its status, handles it, or has read
\* that the failed job's attempts are or are not exhausted.
WorkerState ==
  [at : {"idle", "selected", "handling", "failing"}, job : Job \cup {None},
   seen : Open, exhausted : BOOLEAN]

Idle == [at |-> "idle", job |-> None, seen |-> "pending", exhausted |-> FALSE]

TypeOK ==
  /\ jobs \in [Job -> JobRow]
  /\ workers \in [Worker -> WorkerState]
  /\ \A w \in Worker : workers[w].at = "idle" <=> workers[w].job = None
  /\ overran \subseteq Job
  /\ crashes \in 0..MaxCrashes

QueueInit ==
  /\ jobs = [j \in Job |-> [status |-> "absent", attempts |-> 0, ripe |-> FALSE]]
  /\ workers = [w \in Worker |-> Idle]
  /\ overran = {}
  /\ crashes = 0

\* The worker has been given the job by a claim and is not done with it.
Holds(w, j) == workers[w].job = j /\ workers[w].at \in {"handling", "failing"}

-----------------------------------------------------------------------------
\* enqueue(): due at once, or when a verification's measurement window ends.
Enqueue(j) ==
  /\ jobs[j].status = "absent"
  /\ \E ripe \in BOOLEAN :
       jobs' = [jobs EXCEPT ![j].status = "pending", ![j].ripe = ripe]
  /\ UNCHANGED <<workers, overran, crashes>>

\* The clock passes a pending job's run_after or a running job's lock timeout,
\* whether the lock's owner died or is merely slow.
Elapse(j) ==
  /\ jobs[j].status \in Open /\ ~jobs[j].ripe
  /\ jobs' = [jobs EXCEPT ![j].ripe = TRUE]
  /\ overran' = IF jobs[j].status = "running" THEN overran \cup {j} ELSE overran
  /\ UNCHANGED <<workers, crashes>>

\* Mutant: a job that was running is never looked at again.
ClaimablePendingOnly(row) == row.status = "pending" /\ row.ripe

Claimable(row) == row.status \in Open /\ row.ripe

\* The SELECT of claimNext().
Select(w, j) ==
  /\ workers[w].at = "idle"
  /\ Claimable(jobs[j])
  /\ workers' = [workers EXCEPT ![w] =
       [at |-> "selected", job |-> j, seen |-> jobs[j].status, exhausted |-> FALSE]]
  /\ UNCHANGED <<jobs, overran, crashes>>

\* Mutant: the UPDATE names the row only, not the status it was seen in.
StillAsSeenUnchecked(row, seen) == row.status # "absent"

\* The WHERE clause of the UPDATE: it finds the row in the status seen.
StillAsSeen(row, seen) == row.status = seen

\* The UPDATE of claimNext(), its lock: it wins, or changes no row.
Claim(w) ==
  LET j == workers[w].job IN
  /\ workers[w].at = "selected"
  /\ \/ /\ StillAsSeen(jobs[j], workers[w].seen)
        /\ jobs' = [jobs EXCEPT ![j] =
             [status |-> "running", attempts |-> jobs[j].attempts + 1,
              ripe |-> FALSE]]
        /\ workers' = [workers EXCEPT ![w].at = "handling"]
     \/ /\ ~StillAsSeen(jobs[j], workers[w].seen)
        /\ workers' = [workers EXCEPT ![w] = Idle]
        /\ UNCHANGED jobs
  /\ UNCHANGED <<overran, crashes>>

\* The handler returned: completeJob(), whoever owns the job by now.
HandlerReturns(w) ==
  /\ workers[w].at = "handling"
  /\ jobs' = [jobs EXCEPT ![workers[w].job].status = "succeeded",
                          ![workers[w].job].ripe = FALSE]
  /\ workers' = [workers EXCEPT ![w] = Idle]
  /\ UNCHANGED <<overran, crashes>>

Exhausted(row, max) == row.attempts >= max

\* The handler threw, or the job's type has no handler: failJob() reads the job.
HandlerThrows(w) ==
  LET j == workers[w].job IN
  /\ workers[w].at = "handling"
  /\ workers' = [workers EXCEPT ![w].at = "failing",
                   ![w].exhausted = Exhausted(jobs[j], MaxAttempts[j])]
  /\ UNCHANGED <<jobs, overran, crashes>>

\* failJob() writes what it concluded, whatever the row says by now: it is
\* dead, or pending until a backoff has passed.
WriteFailure(w) ==
  LET j == workers[w].job IN
  /\ workers[w].at = "failing"
  /\ jobs' = [jobs EXCEPT
       ![j].status = IF workers[w].exhausted THEN "dead" ELSE "pending",
       ![j].ripe = FALSE]
  /\ workers' = [workers EXCEPT ![w] = Idle]
  /\ UNCHANGED <<overran, crashes>>

\* An instance dies wherever its worker is; a fresh one takes its place.
Crash(w) ==
  /\ crashes < MaxCrashes
  /\ workers[w].at # "idle"
  /\ crashes' = crashes + 1
  /\ workers' = [workers EXCEPT ![w] = Idle]
  /\ UNCHANGED <<jobs, overran>>

\* What the runner does with no handler running: one tick's own steps.
RunnerStep(w) == (\E j \in Job : Select(w, j)) \/ Claim(w) \/ WriteFailure(w)

HandlerEnds(w) == HandlerReturns(w) \/ HandlerThrows(w)

QueueNext ==
  \/ \E j \in Job : Enqueue(j) \/ Elapse(j)
  \/ \E w \in Worker : RunnerStep(w) \/ HandlerEnds(w) \/ Crash(w)

QueueSpec == QueueInit /\ [][QueueNext]_queueVars

\* Clocks run, every worker keeps polling, and a handler ends some day; nobody
\* has to enqueue anything and no instance has to die.
QueueFairness ==
  /\ \A j \in Job : WF_queueVars(Elapse(j))
  /\ \A w \in Worker : WF_queueVars(RunnerStep(w))
  /\ \A w \in Worker : WF_queueVars(HandlerEnds(w))

FairQueueSpec == QueueSpec /\ QueueFairness

-----------------------------------------------------------------------------
\* Until its lock has ever timed out, a job is held by one worker at most, and
\* only while the table says it is running (queue.ts:98-129).
ExclusiveUntilOverrun ==
  \A j \in Job \ overran : \A w \in Worker : Holds(w, j) =>
    /\ jobs[j].status = "running"
    /\ \A v \in Worker : Holds(v, j) => v = w

\* Until its lock has ever timed out, a job never has more attempts than it is
\* allowed, and is dead only when it has had them all (queue.ts:136-157).
AttemptsUntilOverrun ==
  \A j \in Job \ overran :
    /\ jobs[j].attempts <= MaxAttempts[j]
    /\ jobs[j].status = "dead" => jobs[j].attempts = MaxAttempts[j]

\* A job is given up only after all its attempts, overrun or not: a slow worker
\* that fails long after others took over cannot bury it early.
DeadHadItsAttempts ==
  \A j \in Job :
    jobs[j].status = "dead" => jobs[j].attempts >= MaxAttempts[j]

\* What has succeeded or been given up stays that way unless its lock timed
\* out, with other workers still holding a selected row (queue.ts:119-127).
SettledStays ==
  [][\A j \in Job \ overran :
       jobs[j].status \in Settled => jobs'[j] = jobs[j]]_queueVars

=============================================================================
