----------------------------- MODULE JobQueueProofs -----------------------------
(***************************************************************************)
(* Theorems about the job queue and the jobs on it, for every number of    *)
(* jobs, workers, attempts and deaths: the queue by itself; the loop that  *)
(* verifies on it; and the analyses it runs, whatever the connectors       *)
(* answer and the engines make of it.                                      *)
(***************************************************************************)
EXTENDS VerificationLoop, CompanyAnalysis, TLAPS

-----------------------------------------------------------------------------
(* The job queue (JobQueue).                                               *)

\* A row in another state is a row.
LEMMA RowStep ==
  ASSUME NEW row \in JobRow, NEW s \in Open \cup Settled, NEW b \in BOOLEAN
  PROVE  [row EXCEPT !.status = s, !.ripe = b] \in JobRow
BY DEF JobRow

\* A row that is claimed is a row.
LEMMA ClaimedRow ==
  ASSUME NEW row \in JobRow
  PROVE  [status |-> "running", attempts |-> row.attempts + 1, ripe |-> FALSE]
           \in JobRow
BY DEF JobRow, Open

\* Every step of the queue keeps its types.
LEMMA TypeStep == TypeOK /\ [QueueNext]_queueVars => TypeOK'
<1> SUFFICES ASSUME TypeOK, [QueueNext]_queueVars PROVE TypeOK'
  OBVIOUS
<1>0. None \notin Job
  BY QueueAssumption
<1>1. ASSUME NEW j \in Job, Enqueue(j) PROVE TypeOK'
  BY <1>1 DEF Enqueue, TypeOK, JobRow, Open
<1>2. ASSUME NEW j \in Job, Elapse(j) PROVE TypeOK'
  BY <1>2 DEF Elapse, TypeOK, JobRow, Open
<1>3. ASSUME NEW w \in Worker, NEW j \in Job, Select(w, j) PROVE TypeOK'
  <2>1. [at |-> "selected", job |-> j, seen |-> jobs[j].status,
         exhausted |-> FALSE] \in WorkerState
    BY <1>3 DEF Select, Claimable, WorkerState
  <2>2. QED
    BY <1>0, <1>3, <2>1 DEF Select, TypeOK
<1>4. ASSUME NEW w \in Worker, Claim(w) PROVE TypeOK'
  <2>1. workers[w].job \in Job /\ [workers[w] EXCEPT !.at = "handling"] \in WorkerState
    BY <1>4 DEF Claim, TypeOK, WorkerState
  <2>2. Idle \in WorkerState /\ Idle.at = "idle" /\ Idle.job = None
    BY DEF Idle, WorkerState, Open
  <2>3. jobs' \in [Job -> JobRow]
    BY <1>4, <2>1, ClaimedRow DEF Claim, TypeOK
  <2>4. /\ workers' \in [Worker -> WorkerState]
        /\ \A v \in Worker : workers'[v].at = "idle" <=> workers'[v].job = None
    BY <1>0, <1>4, <2>1, <2>2 DEF Claim, TypeOK, WorkerState
  <2>5. QED
    BY <1>4, <2>3, <2>4 DEF Claim, TypeOK
<1>5. Idle \in WorkerState /\ Idle.at = "idle" /\ Idle.job = None
  BY DEF Idle, WorkerState, Open
<1>6. ASSUME NEW w \in Worker, HandlerReturns(w) PROVE TypeOK'
  <2>1. workers[w].job \in Job
    BY <1>6 DEF HandlerReturns, TypeOK, WorkerState
  <2>2. jobs' \in [Job -> JobRow]
    BY <1>6, <2>1 DEF HandlerReturns, TypeOK, JobRow, Settled
  <2>3. QED
    BY <1>5, <1>6, <2>2 DEF HandlerReturns, TypeOK
<1>7. ASSUME NEW w \in Worker, HandlerThrows(w) PROVE TypeOK'
  <2>1. Exhausted(jobs[workers[w].job], MaxAttempts[workers[w].job]) \in BOOLEAN
    BY DEF Exhausted
  <2>2. QED
    BY <1>0, <1>7, <2>1 DEF HandlerThrows, TypeOK, WorkerState
<1>8. ASSUME NEW w \in Worker, WriteFailure(w) PROVE TypeOK'
  <2>1. workers[w].job \in Job
    BY <1>8 DEF WriteFailure, TypeOK, WorkerState
  <2>2. jobs' \in [Job -> JobRow]
    BY <1>8, <2>1 DEF WriteFailure, TypeOK, JobRow, Settled, Open
  <2>3. QED
    BY <1>5, <1>8, <2>2 DEF WriteFailure, TypeOK
<1>9. ASSUME NEW w \in Worker, Crash(w) PROVE TypeOK'
  <2>1. crashes' \in 0..MaxCrashes
    BY <1>9, QueueAssumption DEF Crash, TypeOK
  <2>2. QED
    BY <1>5, <1>9, <2>1 DEF Crash, TypeOK
<1>10. CASE UNCHANGED queueVars
  BY <1>10 DEF TypeOK, queueVars
<1>11. QED
  BY <1>1, <1>2, <1>3, <1>4, <1>6, <1>7, <1>8, <1>9, <1>10
  DEF QueueNext, RunnerStep, HandlerEnds

\* The rows and the workers keep their types, attempts counting without end.
THEOREM TypeCorrect == QueueSpec => []TypeOK
<1>1. QueueInit => TypeOK
  <2>1. Idle \in WorkerState /\ Idle.at = "idle" /\ Idle.job = None
    BY DEF Idle, WorkerState, Open
  <2>2. QED
    BY <2>1, QueueAssumption DEF QueueInit, TypeOK, JobRow
<1>2. QED
  BY <1>1, TypeStep, PTL DEF QueueSpec

-----------------------------------------------------------------------------
(* Exclusion.  While the lock of a job has never timed out, a running row  *)
(* is not ripe; so nobody selects it as running, and a claim takes it out  *)
(* of "pending", which it leaves no holder in.                             *)

Exclusion ==
  /\ ExclusiveUntilOverrun
  /\ \A j \in Job \ overran : jobs[j].status = "running" => ~jobs[j].ripe
  /\ \A j \in Job \ overran : \A w \in Worker :
       workers[w].at = "selected" /\ workers[w].job = j
         => workers[w].seen = "pending"

\* A worker that becomes idle, and one whose job is another, hold nothing new.
LEMMA ExclusionStep == TypeOK /\ Exclusion /\ [QueueNext]_queueVars => Exclusion'
<1> SUFFICES ASSUME TypeOK, Exclusion, [QueueNext]_queueVars PROVE Exclusion'
  OBVIOUS
<1> USE DEF Exclusion, ExclusiveUntilOverrun, Holds
<1>0. /\ jobs \in [Job -> JobRow] /\ workers \in [Worker -> WorkerState]
      /\ None \notin Job
      /\ Idle.at = "idle"
  BY QueueAssumption DEF TypeOK, Idle
<1>1. ASSUME NEW j \in Job, Enqueue(j) PROVE Exclusion'
  BY <1>0, <1>1 DEF Enqueue, JobRow
<1>2. ASSUME NEW j \in Job, Elapse(j) PROVE Exclusion'
  BY <1>0, <1>2 DEF Elapse, JobRow, Open
<1>3. ASSUME NEW w \in Worker, NEW j \in Job, Select(w, j) PROVE Exclusion'
  BY <1>0, <1>3 DEF Select, Claimable, Open
<1>4. ASSUME NEW w \in Worker, Claim(w) PROVE Exclusion'
  <2>1. CASE ~StillAsSeen(jobs[workers[w].job], workers[w].seen)
    BY <1>0, <1>4, <2>1 DEF Claim
  <2>2. CASE StillAsSeen(jobs[workers[w].job], workers[w].seen)
    <3> DEFINE k == workers[w].job
    <3>1. /\ k \in Job
          /\ jobs' = [jobs EXCEPT ![k] =
               [status |-> "running", attempts |-> jobs[k].attempts + 1,
                ripe |-> FALSE]]
          /\ workers' = [workers EXCEPT ![w].at = "handling"]
          /\ overran' = overran
      BY <1>4, <2>2 DEF Claim, TypeOK, WorkerState
    <3>2. k \notin overran => \A v \in Worker : ~Holds(v, k)
      BY <1>4, <2>2, <3>1 DEF Claim, StillAsSeen
    <3>3. /\ jobs'[k].status = "running" /\ ~jobs'[k].ripe
          /\ \A j \in Job : j # k => jobs'[j] = jobs[j]
          /\ workers'[w].job = k /\ workers'[w].at = "handling"
          /\ \A v \in Worker : v # w => workers'[v] = workers[v]
      BY <1>0, <3>1 DEF WorkerState
    <3> HIDE DEF k
    <3>4. ExclusiveUntilOverrun'
      BY <3>1, <3>2, <3>3
    <3>5. \A j \in Job \ overran' :
            jobs'[j].status = "running" => ~jobs'[j].ripe
      BY <3>1, <3>3
    <3>6. \A j \in Job \ overran' : \A v \in Worker :
            workers'[v].at = "selected" /\ workers'[v].job = j
              => workers'[v].seen = "pending"
      BY <3>1, <3>3
    <3>7. QED
      BY <3>4, <3>5, <3>6
  <2>3. QED
    BY <2>1, <2>2
<1>5. ASSUME NEW w \in Worker,
             \/ HandlerReturns(w) \/ WriteFailure(w)
      PROVE  Exclusion'
  <2> DEFINE k == workers[w].job
  <2>1. /\ Holds(w, k) /\ k \in Job
        /\ workers' = [workers EXCEPT ![w] = Idle] /\ overran' = overran
        /\ jobs'[k].status # "running"
        /\ \A j \in Job : j # k => jobs'[j] = jobs[j]
    <3>1. k \in Job
      BY <1>0, <1>5 DEF HandlerReturns, WriteFailure, TypeOK, WorkerState
    <3>2. CASE HandlerReturns(w)
      BY <1>0, <3>1, <3>2 DEF HandlerReturns, JobRow
    <3>3. CASE WriteFailure(w)
      BY <1>0, <3>1, <3>3 DEF WriteFailure, JobRow
    <3>4. QED
      BY <1>5, <3>2, <3>3
  <2>2. k \notin overran => \A v \in Worker : Holds(v, k) => v = w
    BY <2>1
  <2>3. QED
    BY <1>0, <2>1, <2>2
<1>6. ASSUME NEW w \in Worker, HandlerThrows(w) PROVE Exclusion'
  BY <1>0, <1>6 DEF HandlerThrows
<1>7. ASSUME NEW w \in Worker, Crash(w) PROVE Exclusion'
  BY <1>0, <1>7 DEF Crash
<1>8. CASE UNCHANGED queueVars
  BY <1>8 DEF queueVars
<1>9. QED
  BY <1>1, <1>2, <1>3, <1>4, <1>5, <1>6, <1>7, <1>8
  DEF QueueNext, RunnerStep, HandlerEnds

\* So a job is with one worker at a time, always.
LEMMA ExclusionInvariant == QueueSpec => []Exclusion
<1>1. QueueInit => Exclusion
  BY DEF QueueInit, Exclusion, ExclusiveUntilOverrun, Holds, Idle
<1>2. QED
  BY <1>1, TypeCorrect, ExclusionStep, PTL DEF QueueSpec

\* Until its lock has ever timed out, a job is held by one worker at most, and
\* only while the table says it is running (queue.ts:98-129).
THEOREM Exclusive == QueueSpec => []ExclusiveUntilOverrun
BY ExclusionInvariant, PTL DEF Exclusion

\* No step of the queue touches a settled row whose lock never timed out.
LEMMA SettledUntouched ==
  ASSUME TypeOK, Exclusion, [QueueNext]_queueVars,
         NEW j \in Job, j \notin overran, jobs[j].status \in Settled
  PROVE  jobs'[j] = jobs[j]
<1>0. /\ jobs \in [Job -> JobRow] /\ jobs[j].status \notin Open \cup {"absent"}
      /\ \A w \in Worker : ~Holds(w, j)
      /\ \A w \in Worker : workers[w].at = "selected" /\ workers[w].job = j
           => workers[w].seen = "pending"
  BY DEF TypeOK, Exclusion, ExclusiveUntilOverrun, Settled, Open
<1>1. ASSUME NEW k \in Job, Enqueue(k) \/ Elapse(k) PROVE jobs'[j] = jobs[j]
  BY <1>0, <1>1 DEF Enqueue, Elapse
<1>2. ASSUME NEW w \in Worker, Claim(w) PROVE jobs'[j] = jobs[j]
  BY <1>0, <1>2 DEF Claim, StillAsSeen, Open
<1>3. ASSUME NEW w \in Worker, HandlerReturns(w) \/ WriteFailure(w)
      PROVE  jobs'[j] = jobs[j]
  BY <1>0, <1>3 DEF HandlerReturns, WriteFailure, Holds
<1>4. ASSUME NEW w \in Worker,
             HandlerThrows(w) \/ Crash(w) \/ (\E k \in Job : Select(w, k))
      PROVE  jobs'[j] = jobs[j]
  BY <1>4 DEF HandlerThrows, Crash, Select
<1>5. CASE UNCHANGED queueVars
  BY <1>5 DEF queueVars
<1>6. QED
  BY <1>1, <1>2, <1>3, <1>4, <1>5 DEF QueueNext, RunnerStep, HandlerEnds

\* A job that succeeded or was given up, and whose lock never timed out, is
\* never touched again, whoever still has its row selected (queue.ts:119-127).
THEOREM Settles == QueueSpec => SettledStays
<1>1. TypeOK /\ Exclusion /\ [QueueNext]_queueVars =>
        \A j \in Job \ overran : jobs[j].status \in Settled => jobs'[j] = jobs[j]
  BY SettledUntouched
<1>2. QED
  BY <1>1, TypeCorrect, ExclusionInvariant, PTL DEF QueueSpec, SettledStays

-----------------------------------------------------------------------------
(* Attempts.  They never decrease, so a worker that has read that they are *)
(* exhausted is right whenever it writes; the reverse needs exclusion.     *)

Burial ==
  /\ DeadHadItsAttempts
  /\ \A w \in Worker : workers[w].at = "failing" /\ workers[w].exhausted =>
       jobs[workers[w].job].attempts >= MaxAttempts[workers[w].job]

\* Attempts are counted one by one.
LEMMA AttemptsGrow ==
  ASSUME TypeOK, [QueueNext]_queueVars, NEW j \in Job
  PROVE  jobs'[j].attempts \in {jobs[j].attempts, jobs[j].attempts + 1}
<1>0. jobs \in [Job -> JobRow]
  BY DEF TypeOK
<1>1. ASSUME NEW k \in Job, Enqueue(k) \/ Elapse(k)
      PROVE  jobs'[j].attempts = jobs[j].attempts
  BY <1>0, <1>1 DEF Enqueue, Elapse, JobRow
<1>2. ASSUME NEW w \in Worker, Claim(w)
      PROVE  jobs'[j].attempts \in {jobs[j].attempts, jobs[j].attempts + 1}
  BY <1>0, <1>2 DEF Claim, JobRow
<1>3. ASSUME NEW w \in Worker, HandlerReturns(w) \/ WriteFailure(w)
      PROVE  jobs'[j].attempts = jobs[j].attempts
  BY <1>0, <1>3 DEF HandlerReturns, WriteFailure, JobRow
<1>4. ASSUME NEW w \in Worker,
             HandlerThrows(w) \/ Crash(w) \/ (\E k \in Job : Select(w, k))
      PROVE  jobs' = jobs
  BY <1>4 DEF HandlerThrows, Crash, Select
<1>5. CASE UNCHANGED queueVars
  BY <1>5 DEF queueVars
<1>6. QED
  BY <1>1, <1>2, <1>3, <1>4, <1>5 DEF QueueNext, RunnerStep, HandlerEnds

\* Every step keeps what is known of the jobs given up.
LEMMA BurialStep == TypeOK /\ Burial /\ [QueueNext]_queueVars => Burial'
<1> SUFFICES ASSUME TypeOK, Burial, [QueueNext]_queueVars PROVE Burial'
  OBVIOUS
<1>0. /\ jobs \in [Job -> JobRow] /\ workers \in [Worker -> WorkerState]
      /\ \A j \in Job : jobs[j].attempts \in Nat /\ MaxAttempts[j] \in Nat
      /\ \A w \in Worker : workers[w].at # "idle" => workers[w].job \in Job
      /\ Idle.at = "idle"
  BY QueueAssumption DEF TypeOK, JobRow, WorkerState, Idle
<1>1. \A j \in Job : /\ jobs'[j].attempts \in Nat
                     /\ jobs'[j].attempts >= jobs[j].attempts
  BY <1>0, AttemptsGrow
\* Nothing to show but for rows that become dead and workers that start to fail.
<1>2. ASSUME \A j \in Job : jobs'[j].status = "dead" =>
               \/ jobs[j].status = "dead"
               \/ jobs[j].attempts >= MaxAttempts[j],
             \A w \in Worker : workers'[w].at = "failing" /\ workers'[w].exhausted =>
               \/ workers'[w] = workers[w]
               \/ /\ workers'[w].job \in Job
                  /\ jobs[workers'[w].job].attempts >= MaxAttempts[workers'[w].job]
      PROVE  Burial'
  BY <1>0, <1>1, <1>2 DEF Burial, DeadHadItsAttempts
<1>3. ASSUME NEW j \in Job, Enqueue(j) \/ Elapse(j) PROVE Burial'
  BY <1>0, <1>2, <1>3 DEF Enqueue, Elapse, JobRow
<1>4. ASSUME NEW w \in Worker, NEW j \in Job, Select(w, j) PROVE Burial'
  BY <1>0, <1>2, <1>4 DEF Select
<1>5. ASSUME NEW w \in Worker, Claim(w) PROVE Burial'
  BY <1>0, <1>2, <1>5 DEF Claim, JobRow, WorkerState
<1>6. ASSUME NEW w \in Worker, HandlerReturns(w) PROVE Burial'
  BY <1>0, <1>2, <1>6 DEF HandlerReturns, JobRow
<1>7. ASSUME NEW w \in Worker, HandlerThrows(w) PROVE Burial'
  BY <1>0, <1>2, <1>7 DEF HandlerThrows, Exhausted, WorkerState
<1>8. ASSUME NEW w \in Worker, WriteFailure(w) PROVE Burial'
  <2>1. workers[w].job \in Job
    BY <1>0, <1>8 DEF WriteFailure
  <2>2. \A j \in Job : jobs'[j].status = "dead" =>
          jobs[j].status = "dead" \/ jobs[j].attempts >= MaxAttempts[j]
    BY <1>0, <1>8, <2>1 DEF WriteFailure, Burial, JobRow
  <2>3. \A v \in Worker : workers'[v] = workers[v] \/ workers'[v] = Idle
    BY <1>0, <1>8 DEF WriteFailure
  <2>4. QED
    BY <1>0, <1>2, <2>2, <2>3
<1>9. ASSUME NEW w \in Worker, Crash(w) PROVE Burial'
  BY <1>0, <1>2, <1>9 DEF Crash
<1>10. CASE UNCHANGED queueVars
  BY <1>2, <1>10 DEF queueVars
<1>11. QED
  BY <1>3, <1>4, <1>5, <1>6, <1>7, <1>8, <1>9, <1>10
  DEF QueueNext, RunnerStep, HandlerEnds

\* A job is given up only after all its attempts, overrun or not
\* (queue.ts:136-157).
THEOREM GivenUpLast == QueueSpec => []DeadHadItsAttempts
<1>1. QueueInit => Burial
  BY DEF QueueInit, Burial, DeadHadItsAttempts, Idle
<1>2. QED
  BY <1>1, TypeCorrect, BurialStep, PTL DEF QueueSpec, Burial

-----------------------------------------------------------------------------
(* The reverse: while a job is held exclusively, nobody adds an attempt to *)
(* it between the moment its failure is read and the moment it is written. *)

Quota ==
  \A j \in Job \ overran :
    /\ jobs[j].attempts <= MaxAttempts[j]
    /\ jobs[j].status \in {"absent", "pending"} =>
         jobs[j].attempts < MaxAttempts[j]
    /\ \A w \in Worker :
         /\ workers[w].at = "failing" /\ workers[w].job = j
         /\ ~workers[w].exhausted
         => jobs[j].attempts < MaxAttempts[j]

\* Every step keeps the attempts within what a job has.
LEMMA QuotaStep ==
  TypeOK /\ Exclusion /\ Quota /\ [QueueNext]_queueVars => Quota'
<1> SUFFICES ASSUME TypeOK, Exclusion, Quota, [QueueNext]_queueVars PROVE Quota'
  OBVIOUS
<1>0. /\ jobs \in [Job -> JobRow] /\ workers \in [Worker -> WorkerState]
      /\ \A j \in Job : jobs[j].attempts \in Nat /\ MaxAttempts[j] \in Nat
      /\ \A w \in Worker : workers[w].at # "idle" => workers[w].job \in Job
      /\ Idle.at = "idle"
  BY QueueAssumption DEF TypeOK, JobRow, WorkerState, Idle
<1>1. ASSUME NEW j \in Job, Enqueue(j) \/ Elapse(j) PROVE Quota'
  BY <1>0, <1>1 DEF Enqueue, Elapse, JobRow, Quota
<1>2. ASSUME NEW w \in Worker, NEW j \in Job, Select(w, j) PROVE Quota'
  BY <1>0, <1>2 DEF Select, Quota
<1>3. ASSUME NEW w \in Worker, Claim(w) PROVE Quota'
  <2>1. CASE ~StillAsSeen(jobs[workers[w].job], workers[w].seen)
    BY <1>0, <1>3, <2>1 DEF Claim, Quota
  <2>2. CASE StillAsSeen(jobs[workers[w].job], workers[w].seen)
    <3> DEFINE k == workers[w].job
    <3>1. /\ k \in Job
          /\ jobs'[k].status = "running"
          /\ jobs'[k].attempts = jobs[k].attempts + 1
          /\ \A j \in Job : j # k => jobs'[j] = jobs[j]
          /\ workers'[w].at = "handling"
          /\ \A v \in Worker : v # w => workers'[v] = workers[v]
          /\ overran' = overran
      <4>1. /\ k \in Job
            /\ jobs' = [jobs EXCEPT ![k] =
                 [status |-> "running", attempts |-> jobs[k].attempts + 1,
                  ripe |-> FALSE]]
            /\ workers' = [workers EXCEPT ![w].at = "handling"]
            /\ overran' = overran
        BY <1>0, <1>3, <2>2 DEF Claim
      <4>2. QED
        BY <1>0, <4>1 DEF WorkerState
    <3>2. k \notin overran => jobs[k].status = "pending"
      BY <1>3, <2>2, <3>1 DEF Claim, StillAsSeen, Exclusion
    <3>3. k \notin overran => \A v \in Worker : ~Holds(v, k)
      BY <3>1, <3>2 DEF Exclusion, ExclusiveUntilOverrun
    <3> HIDE DEF k
    <3>4. k \notin overran => jobs[k].attempts < MaxAttempts[k]
      BY <3>1, <3>2 DEF Quota
    <3>5. k \notin overran => \A v \in Worker :
            ~(workers'[v].at = "failing" /\ workers'[v].job = k)
      BY <3>1, <3>3 DEF Holds
    <3>6. QED
      BY <1>0, <3>1, <3>4, <3>5 DEF Quota
  <2>3. QED
    BY <2>1, <2>2
<1>4. ASSUME NEW w \in Worker, HandlerReturns(w) PROVE Quota'
  BY <1>0, <1>4 DEF HandlerReturns, JobRow, Quota
<1>5. ASSUME NEW w \in Worker, HandlerThrows(w) PROVE Quota'
  <2>1. /\ workers[w].job \in Job /\ jobs' = jobs /\ overran' = overran
        /\ workers'[w].job = workers[w].job
        /\ workers'[w].exhausted <=>
             jobs[workers[w].job].attempts >= MaxAttempts[workers[w].job]
        /\ \A v \in Worker : v # w => workers'[v] = workers[v]
    BY <1>0, <1>5 DEF HandlerThrows, Exhausted, WorkerState
  <2>2. QED
    BY <1>0, <2>1 DEF Quota
<1>6. ASSUME NEW w \in Worker, WriteFailure(w) PROVE Quota'
  <2> DEFINE k == workers[w].job
  <2>1. /\ k \in Job /\ overran' = overran
        /\ jobs'[k].status = IF workers[w].exhausted THEN "dead" ELSE "pending"
        /\ jobs'[k].attempts = jobs[k].attempts
        /\ \A j \in Job : j # k => jobs'[j] = jobs[j]
        /\ \A v \in Worker : workers'[v] = workers[v] \/ workers'[v] = Idle
    BY <1>0, <1>6 DEF WriteFailure, JobRow
  <2>2. k \notin overran /\ ~workers[w].exhausted =>
          jobs[k].attempts < MaxAttempts[k]
    BY <1>6, <2>1 DEF WriteFailure, Quota
  <2> HIDE DEF k
  <2>3. QED
    BY <1>0, <2>1, <2>2 DEF Quota
<1>7. ASSUME NEW w \in Worker, Crash(w) PROVE Quota'
  BY <1>0, <1>7 DEF Crash, Quota
<1>8. CASE UNCHANGED queueVars
  BY <1>8 DEF queueVars, Quota
<1>9. QED
  BY <1>1, <1>2, <1>3, <1>4, <1>5, <1>6, <1>7, <1>8
  DEF QueueNext, RunnerStep, HandlerEnds

\* Until its lock has ever timed out, a job never has more attempts than it is
\* allowed, and is dead only when it has had them all (queue.ts:136-157).
THEOREM AttemptsKept == QueueSpec => []AttemptsUntilOverrun
<1>1. QueueInit => Quota
  BY QueueAssumption DEF QueueInit, Quota, Idle
<1>2. TypeOK /\ Quota /\ DeadHadItsAttempts => AttemptsUntilOverrun
  BY QueueAssumption
  DEF TypeOK, JobRow, Quota, DeadHadItsAttempts, AttemptsUntilOverrun
<1>3. QED
  BY <1>1, <1>2, TypeCorrect, ExclusionInvariant, QuotaStep, GivenUpLast, PTL
  DEF QueueSpec

-----------------------------------------------------------------------------
(* What the loop is to the queue.                                          *)

\* The instance of an API request dies: of the queue, only the bound counts.
QueueUntouched ==
  UNCHANGED <<jobs, workers, overran>> /\ crashes' \in 0..MaxCrashes

\* A step of the verification loop is one of the queue or leaves it alone.
LEMMA LoopIsQueue ==
  ASSUME TypeOK, [Next]_vars
  PROVE  [QueueNext]_queueVars \/ QueueUntouched
<1>1. ASSUME NEW j \in Job, (Enqueue(j) \/ Elapse(j)) /\ UNCHANGED loopVars
      PROVE  QueueNext
  BY <1>1 DEF QueueNext
<1>2. ASSUME NEW w \in Worker, QueueStep(w) \/ HandlerDone(w) \/ WorkerDies(w)
      PROVE  QueueNext
  BY <1>2 DEF QueueStep, HandlerDone, WorkerDies, QueueNext, HandlerEnds
<1>3. ASSUME NEW v \in Verifier, VerifierStep(v)
      PROVE  UNCHANGED queueVars
  BY <1>3 DEF VerifierStep, Compare, Mark, Book
<1>4. ASSUME NEW a \in Api, Answered(a)
      PROVE  UNCHANGED queueVars
  BY <1>4 DEF Answered
<1>5. ASSUME NEW a \in Api, ApiDies(a)
      PROVE  QueueUntouched
  BY <1>5, QueueAssumption DEF ApiDies, QueueUntouched, TypeOK
<1>6. CASE UNCHANGED vars
  BY <1>6 DEF vars
<1>7. QED
  BY <1>1, <1>2, <1>3, <1>4, <1>5, <1>6 DEF Next

\* The queue's invariants survive such a death.
LEMMA UntouchedKeeps ==
  ASSUME TypeOK, Exclusion, QueueUntouched
  PROVE  TypeOK' /\ Exclusion'
<1>1. TypeOK'
  BY DEF TypeOK, QueueUntouched
<1>2. Exclusion'
  BY DEF QueueUntouched, Exclusion, ExclusiveUntilOverrun, Holds
<1>3. QED
  BY <1>1, <1>2

\* So what holds of the queue holds of it in the loop.
LEMMA QueueInvariants == Spec => [](TypeOK /\ Exclusion)
<1>1. Init => TypeOK /\ Exclusion
  <2> SUFFICES ASSUME QueueInit PROVE TypeOK /\ Exclusion
    BY DEF Init
  <2>1. Idle \in WorkerState /\ Idle.at = "idle" /\ Idle.job = None
    BY DEF Idle, WorkerState, Open
  <2>2. TypeOK
    BY <2>1, QueueAssumption DEF QueueInit, TypeOK, JobRow
  <2>3. Exclusion
    BY DEF QueueInit, Exclusion, ExclusiveUntilOverrun, Holds, Idle
  <2>4. QED
    BY <2>2, <2>3
<1>2. TypeOK /\ Exclusion /\ [Next]_vars => TypeOK' /\ Exclusion'
  BY LoopIsQueue, UntouchedKeeps, TypeStep, ExclusionStep
<1>3. QED
  BY <1>1, <1>2, PTL DEF Spec

\* Inside the loop too, with verifications coming in over the API and instances
\* dying anywhere, a job whose lock never timed out has one holder at most
\* (queue.ts:98-129).
THEOREM LoopExclusive == Spec => []ExclusiveUntilOverrun
BY QueueInvariants, PTL DEF Exclusion

\* And a job that succeeded or was given up is not touched again
\* (queue.ts:119-127).
THEOREM LoopSettles == Spec => SettledStays
<1>1. ASSUME TypeOK, Exclusion, [Next]_vars
      PROVE  \A j \in Job \ overran :
               jobs[j].status \in Settled => jobs'[j] = jobs[j]
  <2>1. CASE [QueueNext]_queueVars
    BY <1>1, <2>1, SettledUntouched
  <2>2. CASE QueueUntouched
    BY <2>2 DEF QueueUntouched
  <2>3. QED
    BY <1>1, <2>1, <2>2, LoopIsQueue
<1>2. QED
  BY <1>1, QueueInvariants, PTL DEF Spec, SettledStays

-----------------------------------------------------------------------------
(* Success is proof, and proof is booked.                                  *)

LoopTypeOK ==
  /\ baseline \in [verified : BOOLEAN, value : Delta \cup {0}]
  /\ verifiers \in [Verifier -> VerifierState]
  /\ cutShort \in BOOLEAN

\* A call that has marked the baseline, or found it marked, proves it.
Proof ==
  /\ LoopTypeOK
  /\ \A v \in Verifier : verifiers[v].at \in {"booking", "returned"} =>
       baseline.verified
  /\ SucceededMeansVerified
  /\ ProofIsBooked

\* A step of the queue alone makes no job succeed.
LEMMA SucceededFrame ==
  ASSUME TypeOK, SucceededMeansVerified, baseline.verified => baseline'.verified,
         \A j \in Job : jobs'[j].status = "succeeded" =>
           jobs[j].status = "succeeded" \/ baseline.verified
  PROVE  SucceededMeansVerified'
  BY DEF SucceededMeansVerified

\* Every step keeps a job that succeeded verified and booked.
LEMMA ProofStep == TypeOK /\ Proof /\ [Next]_vars => Proof'
<1> SUFFICES ASSUME TypeOK, Proof, [Next]_vars PROVE Proof'
  OBVIOUS
<1>0. /\ jobs \in [Job -> JobRow] /\ workers \in [Worker -> WorkerState]
      /\ verifiers \in [Verifier -> VerifierState]
      /\ NotVerifying \in VerifierState /\ NotVerifying.at = "idle"
      /\ \A w \in Worker : w \in Verifier
      /\ \A a \in Api : a \in Verifier
  BY DEF TypeOK, Proof, LoopTypeOK, NotVerifying, VerifierState, Verifier
\* A call that ends, or is cut short, without having been left to book.
<1>1. ASSUME NEW v \in Verifier,
             verifiers' = [verifiers EXCEPT ![v] = NotVerifying],
             UNCHANGED <<baseline, benefit>>, cutShort' \in BOOLEAN,
             cutShort => cutShort',
             verifiers[v].at = "booking" => cutShort',
             SucceededMeansVerified'
      PROVE  Proof'
  <2>1. LoopTypeOK'
    BY <1>0, <1>1 DEF Proof, LoopTypeOK
  <2>2. \A u \in Verifier : verifiers'[u].at \in {"booking", "returned"} =>
          baseline'.verified
    BY <1>0, <1>1 DEF Proof
  <2>3. ProofIsBooked'
    BY <1>0, <1>1 DEF Proof, ProofIsBooked
  <2>4. QED
    BY <1>1, <2>1, <2>2, <2>3 DEF Proof
<1>2. ASSUME UNCHANGED loopVars,
             \A j \in Job : jobs'[j].status = "succeeded" =>
               jobs[j].status = "succeeded"
      PROVE  Proof'
  <2>1. LoopTypeOK' /\ ProofIsBooked'
    BY <1>2 DEF loopVars, Proof, LoopTypeOK, ProofIsBooked
  <2>2. SucceededMeansVerified'
    BY <1>2 DEF loopVars, Proof, SucceededMeansVerified
  <2>3. QED
    BY <1>2, <2>1, <2>2 DEF loopVars, Proof
<1>3. ASSUME NEW j \in Job, (Enqueue(j) \/ Elapse(j)) /\ UNCHANGED loopVars
      PROVE  Proof'
  BY <1>0, <1>2, <1>3 DEF Enqueue, Elapse, JobRow
<1>4. ASSUME NEW w \in Worker, QueueStep(w)
      PROVE  Proof'
  BY <1>0, <1>2, <1>4
  DEF QueueStep, RunnerStep, Select, Claim, WriteFailure, JobRow
<1>5. ASSUME NEW w \in Worker, HandlerDone(w)
      PROVE  Proof'
  <2>1. UNCHANGED <<baseline, benefit, cutShort>> /\ verifiers[w].at # "booking"
        /\ verifiers' = [verifiers EXCEPT ![w] = NotVerifying]
    BY <1>5 DEF HandlerDone
  <2>2. CASE WantsRetry(w)
    <3>1. jobs' = jobs
      BY <1>5, <2>2 DEF HandlerDone, HandlerThrows
    <3>2. SucceededMeansVerified'
      BY <2>1, <3>1 DEF Proof, SucceededMeansVerified
    <3>3. QED
      BY <1>0, <1>1, <2>1, <3>2 DEF Proof, LoopTypeOK
  <2>3. CASE ~WantsRetry(w)
    <3>1. verifiers[w].at = "returned"
      BY <1>5, <2>3 DEF HandlerDone, WantsRetry
    <3>2. baseline'.verified
      BY <1>0, <2>1, <3>1 DEF Proof
    <3>3. SucceededMeansVerified'
      BY <3>2 DEF SucceededMeansVerified
    <3>4. QED
      BY <1>0, <1>1, <2>1, <3>3 DEF Proof, LoopTypeOK
  <2>4. QED
    BY <2>2, <2>3
<1>6. ASSUME NEW v \in Verifier, Dies(v), jobs' = jobs
      PROVE  Proof'
  <2>1. SucceededMeansVerified'
    BY <1>6 DEF Dies, Proof, SucceededMeansVerified
  <2>2. cutShort' \in BOOLEAN
    BY <1>6 DEF Dies, Proof, LoopTypeOK
  <2>3. QED
    BY <1>1, <1>6, <2>1, <2>2 DEF Dies
<1>7. ASSUME NEW w \in Worker, WorkerDies(w)
      PROVE  Proof'
  BY <1>0, <1>6, <1>7 DEF WorkerDies, Crash
<1>8. ASSUME NEW a \in Api, ApiDies(a)
      PROVE  Proof'
  BY <1>0, <1>6, <1>8 DEF ApiDies
<1>9. ASSUME NEW a \in Api, Answered(a)
      PROVE  Proof'
  <2>1. SucceededMeansVerified'
    BY <1>9 DEF Answered, queueVars, Proof, SucceededMeansVerified
  <2>2. QED
    BY <1>0, <1>1, <1>9, <2>1 DEF Answered, Proof, LoopTypeOK
<1>10. ASSUME NEW v \in Verifier, Compare(v)
       PROVE  Proof'
  <2>1. PICK result \in {Measured(d) : d \in Delta} \cup {Unavailable} :
          verifiers' = [verifiers EXCEPT ![v] =
            IF baseline.verified THEN [at |-> "returned", value |-> 0] ELSE result]
    BY <1>10 DEF Compare
  <2>2. result \in VerifierState /\ result.at \in {"marking", "unavailable"}
    BY DEF Measured, Unavailable, VerifierState
  <2>3. [at |-> "returned", value |-> 0] \in VerifierState
    BY DEF VerifierState
  <2>4. verifiers' \in [Verifier -> VerifierState]
    BY <1>0, <2>1, <2>2, <2>3
  <2>5. /\ verifiers[v].at = "idle"
        /\ verifiers'[v].at # "booking"
        /\ verifiers'[v].at = "returned" => baseline.verified
        /\ \A u \in Verifier : u # v => verifiers'[u] = verifiers[u]
    BY <1>0, <1>10, <2>1, <2>2 DEF Compare, MayVerify
  <2>6. UNCHANGED <<baseline, benefit, cutShort, jobs>>
    BY <1>10 DEF Compare, queueVars
  <2>7. ProofIsBooked'
    BY <2>5, <2>6 DEF Proof, ProofIsBooked
  <2>8. SucceededMeansVerified'
    BY <2>6 DEF Proof, SucceededMeansVerified
  <2>9. QED
    BY <2>4, <2>5, <2>6, <2>7, <2>8 DEF Proof, LoopTypeOK
<1>11. ASSUME NEW v \in Verifier, Mark(v)
       PROVE  Proof'
  <2> DEFINE value == verifiers[v].value
  <2>1. /\ baseline' = [verified |-> TRUE, value |-> value]
        /\ verifiers' = [verifiers EXCEPT ![v].at = AfterMarking(value)]
        /\ UNCHANGED <<benefit, cutShort, jobs>>
    BY <1>11 DEF Mark, queueVars
  <2>2. value \in Delta \cup {0}
    BY <1>0 DEF VerifierState
  <2>3. AfterMarking(value) \in {"booking", "returned"}
        /\ (value > 0 => AfterMarking(value) = "booking")
    BY DEF AfterMarking
  <2>4. verifiers'[v].at = AfterMarking(value)
    BY <1>0, <2>1 DEF VerifierState
  <2> HIDE DEF value
  <2>5. LoopTypeOK'
    <3>1. verifiers' \in [Verifier -> VerifierState]
      BY <1>0, <2>1, <2>3 DEF VerifierState
    <3>2. QED
      BY <2>1, <2>2, <3>1 DEF Proof, LoopTypeOK
  <2>6. ProofIsBooked'
    BY <2>1, <2>3, <2>4 DEF ProofIsBooked
  <2>7. SucceededMeansVerified'
    BY <2>1 DEF SucceededMeansVerified
  <2>8. baseline'.verified
    BY <2>1
  <2>9. QED
    BY <2>5, <2>6, <2>7, <2>8 DEF Proof
<1>12. ASSUME NEW v \in Verifier, Book(v)
       PROVE  Proof'
  <2>1. /\ verifiers[v].at = "booking" /\ benefit'.stage = "VERIFIED"
        /\ verifiers' = [verifiers EXCEPT ![v].at = "returned"]
        /\ UNCHANGED <<baseline, cutShort, jobs>>
    BY <1>12 DEF Book, Advance, queueVars
  <2>2. verifiers' \in [Verifier -> VerifierState]
    BY <1>0, <2>1 DEF VerifierState
  <2>3. baseline'.verified
    BY <2>1 DEF Proof
  <2>4. QED
    BY <2>1, <2>2, <2>3
    DEF Proof, LoopTypeOK, ProofIsBooked, SucceededMeansVerified
<1>13. CASE UNCHANGED vars
  BY <1>2, <1>13 DEF vars, queueVars
<1>14. QED
  BY <1>3, <1>4, <1>5, <1>7, <1>8, <1>9, <1>10, <1>11, <1>12, <1>13
  DEF Next, VerifierStep

\* From a job that is done to the baseline and from the baseline to the benefit,
\* however the verifications of several instances interleave (handlers.ts:57-61,
\* verify.ts:70-105): a job succeeds only when the baseline is verified, and a
\* positive change on the baseline is on the benefit as soon as nobody is still
\* at it, unless an instance died between the two writes.
THEOREM SuccessBooked == Spec => []SuccessIsBooked
<1>1. Init => Proof
  <2> SUFFICES ASSUME Init PROVE Proof
    OBVIOUS
  <2>1. NotVerifying \in VerifierState /\ NotVerifying.at = "idle"
    BY DEF NotVerifying, VerifierState
  <2>2. LoopTypeOK
    BY <2>1 DEF Init, LoopTypeOK
  <2>3. \A v \in Verifier : verifiers[v].at = "idle"
    BY <2>1 DEF Init
  <2>4. SucceededMeansVerified /\ ProofIsBooked
    BY DEF Init, QueueInit, SucceededMeansVerified, ProofIsBooked
  <2>5. QED
    BY <2>2, <2>3, <2>4 DEF Proof
<1>2. QED
  BY <1>1, ProofStep, QueueInvariants, PTL DEF Spec, Proof, SuccessIsBooked

-----------------------------------------------------------------------------
(* Analyses: what a completed run leaves on record is in the ledger.  Of   *)
(* the engines only that they yield a function of ids is used.             *)

\* One instance of the server analyses: a second one, halfway through the rows of
\* the same company, may find its rows vouched for by the first.
OneInstance == \A v, w \in Worker : v = w

-----------------------------------------------------------------------------
(* The ledger while an analysis writes.                                    *)

\* The rows that are to have a benefit: nobody has carried them out.
Waiting(t) == {id \in DOMAIN opportunities[t] : opportunities[t][id].column = "NOT_STARTED"}

\* What a worker is at, and a row that says how far it has come.
IsWork(x) == x = [at |-> x.at, on |-> x.on, twin |-> x.twin, found |-> x.found, services |-> x.services]

IsRow(row) == "column" \in DOMAIN row

\* The rows of every twin are there, few or none.
RowsThere ==
  /\ opportunities = [t \in Twins |-> opportunities[t]]
  /\ benefits = [t \in Twins |-> benefits[t]]
  /\ analysed = [t \in Twins |-> analysed[t]]
  /\ work = [w \in Worker |-> work[w]] /\ \A w \in Worker : IsWork(work[w])
  /\ \A t \in Twins : \A id \in DOMAIN opportunities[t] : IsRow(opportunities[t][id])

\* Between removing and completing nobody vouches for the rows; when those found
\* anew are written, only they may lack a benefit.
Writing(w) ==
  LET t == work[w].on IN
  /\ work[w].at = "fetching" => t \in Twins \cup {None}
  /\ work[w].at \in {"removing", "upserting", "booking", "scheduling"} => t \in Twins
  /\ work[w].at \in {"upserting", "booking"} => analysed[t] = << >>
  /\ work[w].at = "upserting" => Waiting(t) \subseteq DOMAIN benefits[t]
  /\ work[w].at = "booking" => Waiting(t) \subseteq DOMAIN benefits[t] \cup DOMAIN work[w].found

InBooks == RowsThere /\ Booked /\ \A w \in Worker : Writing(w)

\* Rows and benefits as they are seen from the books.
LEMMA BookedSays ==
  Booked <=> \A t \in Twins : analysed[t] # << >> => Waiting(t) \subseteq DOMAIN benefits[t]
BY DEF Booked, Waiting

\* A worker's note, moved on.
LEMMA WorkGoes ==
  ASSUME NEW x, IsWork(x), NEW at, NEW y, y = [x EXCEPT !.at = at]
  PROVE  IsWork(y) /\ y.at = at /\ y.on = x.on /\ y.found = x.found
<1>1. PICK on, twin, found, services, here :
        x = [at |-> here, on |-> on, twin |-> twin, found |-> found, services |-> services]
  BY DEF IsWork
<1>2. y = [at |-> at, on |-> on, twin |-> twin, found |-> found, services |-> services]
  BY <1>1
<1>3. x.on = on /\ x.found = found
  BY <1>1
<1>4. QED
  BY <1>2, <1>3 DEF IsWork

Emptied(x, at, f) == [x EXCEPT !.at = at, !.found = f]

\* Work emptied of its fields is work on the same company.
LEMMA WorkEmpties ==
  ASSUME NEW x, IsWork(x), NEW at, NEW f, NEW y, y = Emptied(x, at, f)
  PROVE  IsWork(y) /\ y.at = at /\ y.on = x.on
<1>1. PICK on, twin, found, services, here :
        x = [at |-> here, on |-> on, twin |-> twin, found |-> found, services |-> services]
  BY DEF IsWork
<1>2. y = [at |-> at, on |-> on, twin |-> twin, found |-> f, services |-> services]
  BY <1>1 DEF Emptied
<1>3. x.on = on
  BY <1>1
<1>4. QED
  BY <1>2, <1>3 DEF IsWork

\* One worker's note changes.
LEMMA WorkMoves ==
  ASSUME RowsThere, NEW w \in Worker, NEW x, IsWork(x), work' = [work EXCEPT ![w] = x]
  PROVE  /\ work' = [v \in Worker |-> work'[v]] /\ \A v \in Worker : IsWork(work'[v])
         /\ work'[w] = x /\ \A v \in Worker \ {w} : work'[v] = work[v]
<1>1. DOMAIN work = Worker /\ \A v \in Worker : IsWork(work[v])
  BY DEF RowsThere
<1>2. /\ work' = [v \in Worker |-> work'[v]] /\ work'[w] = x
      /\ \A v \in Worker \ {w} : work'[v] = work[v]
  BY <1>1
<1>3. QED
  BY <1>1, <1>2

\* No work is work, at rest.
LEMMA Stopped == IsWork(NoWork) /\ NoWork.at = "idle"
BY DEF IsWork, NoWork

\* What leaves every row waiting or not, and keeps the benefits there are, leaves
\* the books in order, whoever starts, waits or dies.
LEMMA BooksStay ==
  ASSUME InBooks, RowsThere', analysed' = analysed,
         \A t \in Twins : Waiting(t)' \subseteq Waiting(t) /\ DOMAIN benefits[t] \subseteq DOMAIN benefits'[t],
         \A w \in Worker : \/ work'[w] = work[w]
                           \/ work'[w].at = "idle"
                           \/ work'[w].at = "fetching" /\ work'[w].on \in Twins \cup {None}
                           \/ work'[w].at = "removing" /\ work'[w].on \in Twins
  PROVE  InBooks'
<1>1. Booked'
  BY BookedSays DEF InBooks, Booked, Waiting
<1>2. ASSUME NEW w \in Worker
      PROVE  Writing(w)'
  <2>1. Writing(w)
    BY DEF InBooks
  <2>2. CASE work'[w] = work[w]
    BY <2>1, <2>2 DEF Writing
  <2>3. CASE work'[w].at = "idle" \/ (work'[w].at = "fetching" /\ work'[w].on \in Twins \cup {None})
    BY <2>3 DEF Writing
  <2>4. CASE work'[w].at = "removing" /\ work'[w].on \in Twins
    BY <2>4 DEF Writing
  <2>5. QED
    BY <1>2, <2>2, <2>3, <2>4
<1>3. QED
  BY <1>1, <1>2 DEF InBooks

\* What touches no row and no analysis leaves the books in order.
LEMMA BooksUntouched ==
  ASSUME InBooks, UNCHANGED <<work, opportunities, benefits, analysed>>
  PROVE  InBooks'
<1>1. RowsThere' /\ \A t \in Twins : Waiting(t)' = Waiting(t) /\ benefits'[t] = benefits[t]
  BY DEF InBooks, RowsThere, Waiting
<1>2. QED
  BY <1>1, BooksStay

\* A worker that stops, of itself or killed, has no rows in its hand.
LEMMA BooksLeft ==
  ASSUME InBooks, UNCHANGED <<opportunities, benefits, analysed>>,
         NEW W \in SUBSET Worker,
         work' = [w \in Worker |-> IF w \in W THEN NoWork ELSE work[w]]
  PROVE  InBooks'
<1>1. RowsThere' /\ \A t \in Twins : Waiting(t)' = Waiting(t) /\ benefits'[t] = benefits[t]
  BY Stopped DEF InBooks, RowsThere, Waiting
<1>2. \A w \in Worker : work'[w] = work[w] \/ work'[w].at = "idle"
  BY Stopped
<1>3. QED
  BY <1>1, <1>2, BooksStay

-----------------------------------------------------------------------------
(* The analysis writes.                                                    *)

\* Nobody else's analysis is under way.
LEMMA OnlyOne ==
  ASSUME OneInstance, NEW w \in Worker, Writing(w)', RowsThere', Booked'
  PROVE  InBooks'
<1>1. \A v \in Worker : v = w
  BY DEF OneInstance
<1>2. \A v \in Worker : Writing(v)'
  BY <1>1
<1>3. QED
  BY <1>2 DEF InBooks

\* A worker replaces its note, and the rows, benefits and vouching of one twin.
Replaces(w, x, t, rows, books, known) ==
  /\ opportunities' = [opportunities EXCEPT ![t] = rows]
  /\ benefits' = [benefits EXCEPT ![t] = books]
  /\ analysed' = [analysed EXCEPT ![t] = known]
  /\ work' = [work EXCEPT ![w] = x]

\* Rows as they should be, and those of them nobody has carried out.
AreRows(rows) == \A id \in DOMAIN rows : IsRow(rows[id])

NotStarted(rows) == {id \in DOMAIN rows : rows[id].column = "NOT_STARTED"}

Vouched(rows, books, known) == known # << >> => NotStarted(rows) \subseteq DOMAIN books

\* What a step of the rows of one twin leaves of the others.
LEMMA OneTwins ==
  ASSUME InBooks, NEW w \in Worker, NEW x, NEW t \in Twins, NEW rows, NEW books, NEW known,
         Replaces(w, x, t, rows, books, known),
         IsWork(x), AreRows(rows), Vouched(rows, books, known)
  PROVE  /\ RowsThere' /\ Booked' /\ work'[w] = x /\ analysed'[t] = known /\ benefits'[t] = books
         /\ Waiting(t)' = NotStarted(rows)
<1>0. /\ opportunities' = [opportunities EXCEPT ![t] = rows]
      /\ benefits' = [benefits EXCEPT ![t] = books]
      /\ analysed' = [analysed EXCEPT ![t] = known]
      /\ work' = [work EXCEPT ![w] = x]
      /\ \A id \in DOMAIN rows : IsRow(rows[id])
  BY DEF Replaces, AreRows
<1>1. /\ DOMAIN opportunities = Twins /\ DOMAIN benefits = Twins /\ DOMAIN analysed = Twins
      /\ \A u \in Twins : \A id \in DOMAIN opportunities[u] : IsRow(opportunities[u][id])
      /\ RowsThere
  BY DEF InBooks, RowsThere
<1>2. /\ opportunities' = [u \in Twins |-> opportunities'[u]]
      /\ benefits' = [u \in Twins |-> benefits'[u]]
      /\ analysed' = [u \in Twins |-> analysed'[u]]
      /\ opportunities'[t] = rows /\ benefits'[t] = books /\ analysed'[t] = known
      /\ \A u \in Twins \ {t} : /\ opportunities'[u] = opportunities[u]
                                /\ benefits'[u] = benefits[u] /\ analysed'[u] = analysed[u]
  BY <1>0, <1>1
<1>3. \A u \in Twins : \A id \in DOMAIN opportunities'[u] : IsRow(opportunities'[u][id])
  BY <1>0, <1>1, <1>2
<1>4. /\ work' = [v \in Worker |-> work'[v]] /\ \A v \in Worker : IsWork(work'[v])
      /\ work'[w] = x
  BY <1>0, <1>1, WorkMoves
<1>5. RowsThere'
  BY <1>2, <1>3, <1>4 DEF RowsThere
<1>6. /\ Waiting(t)' = NotStarted(rows)
      /\ \A u \in Twins \ {t} : Waiting(u)' = Waiting(u)
  BY <1>2 DEF Waiting, NotStarted
<1>7. \A u \in Twins : analysed[u] # << >> => Waiting(u) \subseteq DOMAIN benefits[u]
  BY BookedSays DEF InBooks
<1>8. \A u \in Twins : analysed'[u] # << >> => Waiting(u)' \subseteq DOMAIN benefits'[u]
  BY <1>2, <1>6, <1>7 DEF Vouched
<1>9. Booked'
  BY <1>8 DEF Booked, Waiting
<1>10. QED
  BY <1>2, <1>4, <1>5, <1>6, <1>9

\* Removing leaves no row waiting that has no benefit.
LEMMA RemoveStep ==
  ASSUME InBooks, OneInstance, NEW w \in Worker, Remove(w)
  PROVE  InBooks'
<1>1. work[w].on \in Twins /\ RowsThere /\ IsWork(work[w]) /\ DOMAIN work = Worker
  BY DEF InBooks, Remove, Writing, RowsThere
<1>2. PICK t \in Twins : t = work[w].on
  BY <1>1
<1>3. PICK rows : rows = Without(opportunities[t], Removable(t))
  OBVIOUS
<1>4. PICK books : books = Without(benefits[t], Removable(t))
  OBVIOUS
<1>5. PICK x : x = [work[w] EXCEPT !.at = "upserting"]
  OBVIOUS
<1>6. PICK known : known = << >>
  OBVIOUS
<1>7. Replaces(w, x, t, rows, books, known)
  BY <1>1, <1>2, <1>3, <1>4, <1>5, <1>6 DEF Remove, RowsThere, Replaces
<1>8. IsWork(x) /\ x.at = "upserting" /\ x.on = t
  BY <1>1, <1>2, <1>5, WorkGoes
<1>9. ASSUME NEW id \in DOMAIN rows
      PROVE  id \in DOMAIN opportunities[t] /\ id \notin Removable(t) /\ rows[id] = opportunities[t][id]
  BY <1>3 DEF Without
<1>10. AreRows(rows)
  BY <1>1, <1>9 DEF RowsThere, AreRows
<1>11. ASSUME NEW id \in DOMAIN rows, rows[id].column = "NOT_STARTED"
       PROVE  id \in DOMAIN books
  <2>1. id \in DOMAIN benefits[t]
    BY <1>9, <1>11 DEF Removable, Untouched
  <2>2. QED
    BY <1>4, <1>9, <2>1 DEF Without
<1>12. NotStarted(rows) \subseteq DOMAIN books /\ Vouched(rows, books, known)
  BY <1>11 DEF NotStarted, Vouched
<1>13. /\ RowsThere' /\ Booked' /\ work'[w] = x /\ analysed'[t] = known /\ benefits'[t] = books
       /\ Waiting(t)' = NotStarted(rows)
  BY <1>7, <1>8, <1>10, <1>12, OneTwins
<1>14. Writing(w)'
  BY <1>8, <1>6, <1>13, <1>12 DEF Writing
<1>15. QED
  BY <1>13, <1>14, OnlyOne

\* A removal refused is one nobody vouches for.
LEMMA RefusedStep ==
  ASSUME InBooks, OneInstance, NEW w \in Worker, RemoveRefused(w)
  PROVE  InBooks'
<1>1. work[w].on \in Twins /\ RowsThere
  BY DEF InBooks, RemoveRefused, Writing
<1>2. PICK t \in Twins : t = work[w].on
  BY <1>1
<1>3. PICK id \in Referred(t), gone \in {{}, Removable(t) \ Referred(t)} :
        /\ opportunities' = [opportunities EXCEPT ![t] = Without(@, gone)]
        /\ benefits' = [benefits EXCEPT ![t] = Without(@, gone \union {id})]
        /\ analysed' = [analysed EXCEPT ![t] = << >>]
        /\ work' = [work EXCEPT ![w] = NoWork]
  BY <1>2 DEF RemoveRefused, Fail
<1>4. PICK rows : rows = Without(opportunities[t], gone)
  OBVIOUS
<1>5. PICK books : books = Without(benefits[t], gone \union {id})
  OBVIOUS
<1>6. PICK known : known = << >>
  OBVIOUS
<1>7. Replaces(w, NoWork, t, rows, books, known)
  BY <1>1, <1>3, <1>4, <1>5, <1>6 DEF RowsThere, Replaces
<1>8. AreRows(rows) /\ Vouched(rows, books, known)
  BY <1>1, <1>4, <1>6 DEF RowsThere, Without, AreRows, Vouched
<1>9. RowsThere' /\ Booked' /\ work'[w] = NoWork
  BY <1>7, <1>8, Stopped, OneTwins
<1>10. Writing(w)'
  BY <1>9, Stopped DEF Writing
<1>11. QED
  BY <1>9, <1>10, OnlyOne

\* Of the rows written, those without a benefit were found.
LEMMA UpsertStep ==
  ASSUME InBooks, OneInstance, NEW w \in Worker, Upsert(w)
  PROVE  InBooks'
<1>1. /\ work[w].on \in Twins /\ RowsThere /\ IsWork(work[w]) /\ DOMAIN work = Worker
  BY DEF InBooks, Upsert, Writing, RowsThere
<1>2. PICK t \in Twins : /\ t = work[w].on
                         /\ analysed[t] = << >> /\ Waiting(t) \subseteq DOMAIN benefits[t]
  BY <1>1 DEF InBooks, Upsert, Writing
<1>3. PICK rows : rows = Written(opportunities[t], work[w].found)
  OBVIOUS
<1>4. PICK x : x = [work[w] EXCEPT !.at = "booking"]
  OBVIOUS
<1>5. PICK books, known : books = benefits[t] /\ known = analysed[t]
  OBVIOUS
<1>6. Replaces(w, x, t, rows, books, known)
  <2>1. UNCHANGED <<benefits, analysed>>
    BY DEF Upsert, Persisted, RunAfter
  <2>2. /\ benefits' = [benefits EXCEPT ![t] = books]
        /\ analysed' = [analysed EXCEPT ![t] = known]
    BY <1>1, <1>5, <2>1 DEF RowsThere
  <2>3. /\ opportunities' = [opportunities EXCEPT ![t] = rows]
        /\ work' = [work EXCEPT ![w] = x]
    BY <1>1, <1>2, <1>3, <1>4 DEF Upsert, RowsThere
  <2>4. QED
    BY <2>2, <2>3 DEF Replaces
<1>7. IsWork(x) /\ x.at = "booking" /\ x.on = t /\ x.found = work[w].found
  BY <1>1, <1>2, <1>4, WorkGoes
<1>8. ASSUME NEW id \in DOMAIN rows
      PROVE  \/ id \in DOMAIN work[w].found /\ IsRow(rows[id])
             \/ id \in DOMAIN opportunities[t] /\ rows[id] = opportunities[t][id]
  BY <1>3 DEF Written, Listed, IsRow
<1>9. AreRows(rows)
  BY <1>1, <1>8 DEF RowsThere, AreRows
<1>10. ASSUME NEW id \in DOMAIN rows, rows[id].column = "NOT_STARTED"
      PROVE  id \in DOMAIN benefits[t] \cup DOMAIN work[w].found
  BY <1>2, <1>8, <1>10 DEF Waiting
<1>11. Vouched(rows, books, known) /\ NotStarted(rows) \subseteq DOMAIN books \cup DOMAIN work[w].found
  BY <1>2, <1>10, <1>5 DEF Vouched, NotStarted
<1>12. /\ RowsThere' /\ Booked' /\ work'[w] = x /\ analysed'[t] = known /\ benefits'[t] = books
       /\ Waiting(t)' = NotStarted(rows)
  BY <1>6, <1>7, <1>9, <1>11, OneTwins
<1>13. Writing(w)'
  BY <1>2, <1>7, <1>5, <1>12, <1>11 DEF Writing
<1>14. QED
  BY <1>12, <1>13, OnlyOne

\* What was found is booked before the run is completed.
LEMMA BookStep ==
  ASSUME InBooks, OneInstance, NEW w \in Worker, BookBenefits(w)
  PROVE  InBooks'
<1>1. /\ work[w].on \in Twins /\ RowsThere /\ IsWork(work[w]) /\ DOMAIN work = Worker
  BY DEF InBooks, BookBenefits, Writing, RowsThere
<1>2. PICK t \in Twins : /\ t = work[w].on
                         /\ Waiting(t) \subseteq DOMAIN benefits[t] \cup DOMAIN work[w].found
  BY <1>1 DEF InBooks, BookBenefits, Writing
<1>3. PICK books : books = [id \in DOMAIN benefits[t] \union DOMAIN work[w].found |->
                              IF id \in DOMAIN benefits[t] THEN benefits[t][id] ELSE "THEORETICAL"]
  OBVIOUS
<1>4. PICK known : known = <<work[w].services>>
  OBVIOUS
<1>5. PICK x, found : found = << >> /\ x = [work[w] EXCEPT !.at = "scheduling", !.found = found]
  OBVIOUS
<1>6. PICK rows : rows = opportunities[t]
  OBVIOUS
<1>7. Replaces(w, x, t, rows, books, known)
  <2>1. opportunities' = [opportunities EXCEPT ![t] = rows]
    BY <1>1, <1>6 DEF BookBenefits, RowsThere
  <2>2. benefits' = [benefits EXCEPT ![t] = books]
    BY <1>1, <1>2, <1>3 DEF BookBenefits, RowsThere
  <2>3. analysed' = [analysed EXCEPT ![t] = known]
    BY <1>2, <1>4 DEF BookBenefits, Persisted, RunAfter
  <2>4. work' = [work EXCEPT ![w] = x]
    BY <1>1, <1>5 DEF BookBenefits, RowsThere
  <2>5. QED
    BY <2>1, <2>2, <2>3, <2>4 DEF Replaces
<1>8. IsWork(x) /\ x.at = "scheduling" /\ x.on = t
  <2>1. IsWork(work[w]) /\ x = Emptied(work[w], "scheduling", found)
    BY <1>1, <1>5 DEF Emptied
  <2>2. IsWork(x) /\ x.at = "scheduling" /\ x.on = work[w].on
    BY <2>1, WorkEmpties
  <2>3. QED
    BY <1>2, <2>2
<1>9. AreRows(rows)
  BY <1>1, <1>6 DEF RowsThere, AreRows
<1>10. Vouched(rows, books, known)
  BY <1>2, <1>3, <1>6 DEF Waiting, NotStarted, Vouched
<1>11. RowsThere' /\ Booked' /\ work'[w] = x
  BY <1>7, <1>8, <1>9, <1>10, OneTwins
<1>12. Writing(w)'
  BY <1>8, <1>11 DEF Writing
<1>13. QED
  BY <1>11, <1>12, OnlyOne

\* A step of an analysis keeps the books in order.
LEMMA AnalyseStep ==
  ASSUME InBooks, OneInstance, NEW w \in Worker, Analyse(w)
  PROVE  InBooks'
<1>0. RowsThere /\ DOMAIN work = Worker
  BY DEF InBooks, RowsThere
<1>1. CASE BeginAgain(w)
  BY <1>1, BooksUntouched DEF BeginAgain, dataVars
\* An analysis begins, or reads: no row changes.
<1>2. ASSUME NEW x, IsWork(x), work' = [work EXCEPT ![w] = x], UNCHANGED <<opportunities, benefits, analysed>>,
             \/ x.at = "fetching" /\ x.on \in Twins \cup {None}
             \/ x.at = "removing" /\ x.on \in Twins
      PROVE  InBooks'
  <2>1. /\ work' = [v \in Worker |-> work'[v]] /\ \A v \in Worker : IsWork(work'[v])
        /\ work'[w] = x /\ \A v \in Worker \ {w} : work'[v] = work[v]
    BY <1>0, <1>2, WorkMoves
  <2>2. RowsThere' /\ \A t \in Twins : Waiting(t)' = Waiting(t) /\ benefits'[t] = benefits[t]
    BY <1>0, <1>2, <2>1 DEF RowsThere, Waiting
  <2>3. QED
    BY <1>2, <2>1, <2>2, BooksStay
<1>3. CASE Begin(w)
  <2>1. PICK t \in Twins \cup {None} : t = Identified(payload[workers[w].job].input)
    BY DEF Identified, Next1
  <2>2. PICK twin : work' = [work EXCEPT ![w] = [NoWork EXCEPT !.at = "fetching", !.on = t, !.twin = twin]]
    BY <1>3, <2>1 DEF Begin
  <2>3. PICK x : x = [NoWork EXCEPT !.at = "fetching", !.on = t, !.twin = twin]
    OBVIOUS
  <2>4. work' = [work EXCEPT ![w] = x] /\ UNCHANGED <<opportunities, benefits, analysed>>
    BY <1>3, <2>3, <2>2 DEF Begin, dataVars
  <2>5. IsWork(x) /\ x.at = "fetching" /\ x.on = t
    BY <2>3 DEF IsWork, NoWork
  <2>6. QED
    BY <1>2, <2>1, <2>4, <2>5
<1>4. CASE ReadRefused(w) \/ ReadUnkept(w) \/ Schedule(w)
  <2>1. /\ UNCHANGED <<opportunities, benefits, analysed>> /\ work' = [work EXCEPT ![w] = NoWork]
    BY <1>4 DEF ReadRefused, ReadUnkept, Schedule, Fail, dataVars
  <2>2. work' = [v \in Worker |-> IF v \in {w} THEN NoWork ELSE work[v]]
    BY <1>0, <2>1 DEF RowsThere
  <2>3. QED
    BY <2>1, <2>2, BooksLeft
<1>5. ASSUME NEW site \in Sites, NEW answered \in Answers, Read(w, site, answered)
      PROVE  InBooks'
  <2>1. PICK twin, found, services : work' = [work EXCEPT ![w] =
           [at |-> "removing", on |-> work[w].on, twin |-> twin, found |-> found, services |-> services]]
    BY <1>5 DEF Read
  <2>2. PICK x : x = [at |-> "removing", on |-> work[w].on, twin |-> twin, found |-> found, services |-> services]
    OBVIOUS
  <2>3. IsWork(x) /\ x.at = "removing" /\ x.on = work[w].on
    BY <2>2 DEF IsWork
  <2>4. work[w].on \in Twins
    BY <1>5 DEF Read, InBooks, Writing
  <2>5. UNCHANGED <<opportunities, benefits, analysed>>
    BY <1>5 DEF Read
  <2>6. QED
    BY <1>2, <2>1, <2>2, <2>3, <2>4, <2>5
<1>6. QED
  BY <1>1, <1>3, <1>4, <1>5, RemoveStep, RefusedStep, UpsertStep, BookStep DEF Analyse

-----------------------------------------------------------------------------
(* People, plans and the clock.                                            *)

\* What is done about plans leaves waiting rows waiting or carries them out.
LEMMA CarryStep ==
  ASSUME InBooks, NEW t \in Twins, NEW id \in Plannable, Carry(t, id)
  PROVE  InBooks'
<1>0. RowsThere
  BY DEF InBooks
<1>1. CASE PlanExecution(t, id)
  BY <1>1, BooksUntouched DEF PlanExecution
<1>2. CASE Authorise(t, id)
  <2>1. /\ UNCHANGED <<work, opportunities, analysed>>
        /\ benefits' = [benefits EXCEPT ![t] = [i \in DOMAIN benefits[t] |-> IF i = id THEN "APPROVED" ELSE benefits[t][i]]]
    BY <1>2 DEF Authorise, InBooks, RowsThere
  <2>2. /\ benefits' = [u \in Twins |-> benefits'[u]]
        /\ \A u \in Twins : DOMAIN benefits'[u] = DOMAIN benefits[u]
    BY <2>1 DEF InBooks, RowsThere
  <2>3. RowsThere' /\ \A u \in Twins : Waiting(u)' = Waiting(u)
    BY <2>1, <2>2 DEF InBooks, RowsThere, Waiting
  <2>4. QED
    BY <2>1, <2>2, <2>3, BooksStay
<1>3. CASE CarryOut(t, id)
  <2>1. PICK rows : rows = [i \in DOMAIN opportunities[t] |->
                              IF i # id THEN opportunities[t][i]
                              ELSE [opportunities[t][i] EXCEPT !.column = "COMPLETED", !.listed = "COMPLETED"]]
    OBVIOUS
  <2>2. /\ UNCHANGED <<work, benefits, analysed>> /\ opportunities' = [opportunities EXCEPT ![t] = rows]
    BY <1>3, <2>1 DEF CarryOut, InBooks, RowsThere
  <2>3. /\ opportunities' = [u \in Twins |-> opportunities'[u]]
        /\ opportunities'[t] = rows
        /\ \A u \in Twins \ {t} : opportunities'[u] = opportunities[u]
    BY <2>2 DEF InBooks, RowsThere
  <2>4. \A i \in DOMAIN rows : i \in DOMAIN opportunities[t] /\ (i # id => rows[i] = opportunities[t][i])
    BY <2>1
  <2>5. id \in DOMAIN rows => IsRow(rows[id]) /\ rows[id].column # "NOT_STARTED"
    BY <1>0, <2>1 DEF RowsThere, IsRow
  <2>6. \A u \in Twins : Waiting(u)' \subseteq Waiting(u)
    BY <2>3, <2>4, <2>5 DEF Waiting
  <2>7. RowsThere'
    BY <1>0, <2>2, <2>3, <2>4, <2>5 DEF RowsThere
  <2>8. QED
    BY <2>2, <2>6, <2>7, BooksStay
<1>4. QED
  BY <1>1, <1>2, <1>3 DEF Carry

\* Every step keeps the books in order.
LEMMA BooksStep ==
  ASSUME InBooks, OneInstance, [AnalysisNext]_analysisVars
  PROVE  InBooks'
<1>1. CASE RequestAnalysis
  BY <1>1, BooksUntouched DEF RequestAnalysis
<1>2. ASSUME NEW services \in Purchases, Import(services) \/ SetServices(services)
      PROVE  InBooks'
  BY <1>2, BooksUntouched DEF Import, SetServices
<1>3. ASSUME NEW t \in Twins, FallDue(t) \/ QueueRefresh(t)
      PROVE  InBooks'
  BY <1>3, BooksUntouched DEF FallDue, QueueRefresh
<1>4. ASSUME NEW t \in Twins, DieQueueing(t)
      PROVE  InBooks'
  <2>1. UNCHANGED <<opportunities, benefits, analysed>> /\ work' = [w \in Worker |-> NoWork]
    BY <1>4 DEF DieQueueing
  <2>2. work' = [w \in Worker |-> IF w \in Worker THEN NoWork ELSE work[w]]
    BY <2>1
  <2>3. QED
    BY <2>1, <2>2, BooksLeft
<1>5. ASSUME NEW t \in Twins, NEW id \in Plannable, Carry(t, id)
      PROVE  InBooks'
  BY <1>5, CarryStep
<1>6. ASSUME NEW w \in Worker, Polls(w)
      PROVE  InBooks'
  BY <1>6, BooksUntouched DEF Polls, dataVars
<1>7. ASSUME NEW w \in Worker, Analyse(w)
      PROVE  InBooks'
  BY <1>7, AnalyseStep
<1>8. ASSUME NEW w \in Worker, Die(w)
      PROVE  InBooks'
  <2>1. UNCHANGED <<opportunities, benefits, analysed>> /\ work' = [work EXCEPT ![w] = NoWork]
    BY <1>8 DEF Die, dataVars
  <2>2. work' = [v \in Worker |-> IF v \in {w} THEN NoWork ELSE work[v]]
    BY <2>1 DEF InBooks, RowsThere
  <2>3. QED
    BY <2>1, <2>2, BooksLeft
<1>9. ASSUME NEW j \in Job, Passes(j)
      PROVE  InBooks'
  BY <1>9, BooksUntouched DEF Passes, dataVars
<1>10. CASE UNCHANGED analysisVars
  BY <1>10, BooksUntouched DEF analysisVars, dataVars
<1>11. QED
  BY <1>1, <1>2, <1>3, <1>4, <1>5, <1>6, <1>7, <1>8, <1>9, <1>10 DEF AnalysisNext

\* A company an earlier analysis has left has a benefit for every opportunity.
LEMMA BooksBegin ==
  ASSUME NEW there, NEW left, Starts(there, left)
  PROVE  /\ opportunities = [t \in Twins |-> opportunities[t]]
         /\ benefits = [t \in Twins |-> benefits[t]]
         /\ analysed = [t \in Twins |-> analysed[t]]
         /\ \A t \in Twins : DOMAIN opportunities[t] = DOMAIN benefits[t]
         /\ \A t \in Twins : \A id \in DOMAIN opportunities[t] : IsRow(opportunities[t][id])
<1>1. PICK rows : rows = [id \in DOMAIN left.found |-> Listed(left.found[id])]
  OBVIOUS
<1>2. PICK books : books = [id \in DOMAIN left.found |-> "THEORETICAL"]
  OBVIOUS
<1>3. DOMAIN rows = DOMAIN books
  BY <1>1, <1>2
<1>4. PICK none : none = << >>
  OBVIOUS
<1>5. /\ opportunities = [t \in Twins |-> IF there /\ t = Next1(Twins) THEN rows ELSE none]
      /\ benefits = [t \in Twins |-> IF there /\ t = Next1(Twins) THEN books ELSE none]
      /\ analysed = [t \in Twins |-> IF there /\ t = Next1(Twins) THEN left.known ELSE none]
  BY <1>1, <1>2, <1>4 DEF Starts
<1>6. \A id \in DOMAIN rows : IsRow(rows[id])
  BY <1>1 DEF Listed, IsRow
<1>7. DOMAIN none = {}
  BY <1>4
<1>8. QED
  BY <1>3, <1>5, <1>6, <1>7

\* With one instance of the server, once a run says it is completed every
\* opportunity on record has its benefit unless it has been carried out, whatever
\* was found, refused, planned or cut short before (pipeline.ts:351-374).
THEOREM LedgerComplete ==
  ASSUME OneInstance
  PROVE  AnalysisSpec => []Booked
<1>1. AnalysisInit => InBooks
  <2>1. SUFFICES ASSUME AnalysisInit PROVE InBooks
    OBVIOUS
  <2>2. PICK there, left : Starts(there, left)
    BY <2>1 DEF AnalysisInit
  <2>3. /\ opportunities = [t \in Twins |-> opportunities[t]]
        /\ benefits = [t \in Twins |-> benefits[t]]
        /\ analysed = [t \in Twins |-> analysed[t]]
        /\ \A t \in Twins : DOMAIN opportunities[t] = DOMAIN benefits[t]
        /\ \A t \in Twins : \A id \in DOMAIN opportunities[t] : IsRow(opportunities[t][id])
    BY <2>2, BooksBegin
  <2>4. work = [w \in Worker |-> NoWork]
    BY <2>1 DEF AnalysisInit
  <2>5. Booked
    BY <2>3 DEF Booked
  <2>6. \A w \in Worker : Writing(w)
    BY <2>4, Stopped DEF Writing
  <2>7. RowsThere
    BY <2>3, <2>4, Stopped DEF RowsThere
  <2>8. QED
    BY <2>5, <2>6, <2>7 DEF InBooks
<1>2. InBooks /\ [AnalysisNext]_analysisVars => InBooks'
  BY BooksStep
<1>3. InBooks => Booked
  BY DEF InBooks
<1>4. QED
  BY <1>1, <1>2, <1>3, PTL DEF AnalysisSpec
=================================================================================
