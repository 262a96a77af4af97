---------------------------- MODULE VerificationLoop ----------------------------
(***************************************************************************)
(* The verification loop: the job queue with the verification handler of   *)
(* jobs/handlers.ts as its handler, the same verification asked for over   *)
(* the API, and the two rows they write - the baseline of one completed    *)
(* plan (verification/baseline.ts) and the benefit of its opportunity.     *)
(*                                                                         *)
(* verifyPlan() never awaits, so inside one instance it runs undivided;    *)
(* its statements interleave with those of other instances, and any        *)
(* instance may die between two of them.  The API request runs in an       *)
(* instance of its own (METAMSP_DISABLE_WORKER gives such instances).      *)
(***************************************************************************)
EXTENDS JobQueue, BenefitsLedger

CONSTANTS
  Api,          \* API requests that may ask for the verification (bounds them)
  Delta         \* changes a comparison can measure, never below 0

ASSUME LoopAssumption == Delta \subseteq Nat /\ Api \cap Worker = {}

VARIABLES
  baseline,     \* the baseline's verified_at and verified_value
  benefit,      \* the benefit's row
  verifiers,    \* how far each verifyPlan() call has got
  cutShort      \* history: an instance died between the two writes

loopVars == <<baseline, benefit, verifiers, cutShort>>
vars == <<queueVars, loopVars>>

Verifier == Worker \cup Api

\* "unavailable": the connected system returned nothing, nothing was written.
VerifierState ==
  [at : {"idle", "marking", "booking", "returned", "unavailable"},
   value : Delta \cup {0}]

NotVerifying == [at |-> "idle", value |-> 0]

\* The plan has completed: its value is REALISED and its baseline captured.
Init ==
  /\ QueueInit
  /\ baseline = [verified |-> FALSE, value |-> 0]
  /\ benefit = [stage |-> "REALISED", realised |-> 0, verified |-> 0]
  /\ verifiers = [v \in Verifier |-> NotVerifying]
  /\ cutShort = FALSE

-----------------------------------------------------------------------------
\* A worker is in its handler; an API request may come at any time.
MayVerify(v) ==
  /\ verifiers[v].at = "idle"
  /\ v \in Worker => workers[v].at = "handling"

\* Where a comparison leaves the call: the source is gone, or a change -
\* nothing at all, perhaps - was measured.
Measured(delta) == [at |-> "marking", value |-> delta]
Unavailable == [at |-> "unavailable", value |-> 0]

\* verifyPlan() up to its first write: an unverified baseline is compared with
\* the connected system, a verified one is answered from the row.
Compare(v) ==
  /\ MayVerify(v)
  /\ \E result \in {Measured(d) : d \in Delta} \cup {Unavailable} :
       verifiers' = [verifiers EXCEPT ![v] =
         IF baseline.verified THEN [at |-> "returned", value |-> 0] ELSE result]
  /\ UNCHANGED <<queueVars, baseline, benefit, cutShort>>

\* Mutant: the benefit is forgotten.
AfterMarkingDone(value) == "returned"

AfterMarking(value) == IF value > 0 THEN "booking" ELSE "returned"

\* recordVerification().
Mark(v) ==
  /\ verifiers[v].at = "marking"
  /\ baseline' = [verified |-> TRUE, value |-> verifiers[v].value]
  /\ verifiers' = [verifiers EXCEPT ![v].at = AfterMarking(verifiers[v].value)]
  /\ UNCHANGED <<queueVars, benefit, cutShort>>

\* advance() to VERIFIED.
Book(v) ==
  /\ verifiers[v].at = "booking"
  /\ benefit' = Advance(benefit, "VERIFIED", benefit.realised, verifiers[v].value)
  /\ verifiers' = [verifiers EXCEPT ![v].at = "returned"]
  /\ UNCHANGED <<queueVars, baseline, cutShort>>

\* The handler throws when, and only when, it wants to be run again.
WantsRetry(v) == verifiers[v].at = "unavailable"

\* The handler of a job ends.
HandlerDone(w) ==
  /\ verifiers[w].at \in {"returned", "unavailable"}
  /\ IF WantsRetry(w) THEN HandlerThrows(w) ELSE HandlerReturns(w)
  /\ verifiers' = [verifiers EXCEPT ![w] = NotVerifying]
  /\ UNCHANGED <<baseline, benefit, cutShort>>

\* The API request has its answer.
Answered(a) ==
  /\ verifiers[a].at \in {"returned", "unavailable"}
  /\ verifiers' = [verifiers EXCEPT ![a] = NotVerifying]
  /\ UNCHANGED <<queueVars, baseline, benefit, cutShort>>

\* An instance dies with the verification it is at.
Dies(v) ==
  /\ verifiers' = [verifiers EXCEPT ![v] = NotVerifying]
  /\ cutShort' = (cutShort \/ verifiers[v].at = "booking")
  /\ UNCHANGED <<baseline, benefit>>

WorkerDies(w) == Crash(w) /\ Dies(w)

ApiDies(a) ==
  /\ crashes < MaxCrashes /\ verifiers[a].at # "idle"
  /\ crashes' = crashes + 1
  /\ Dies(a)
  /\ UNCHANGED <<jobs, workers, overran>>

QueueStep(w) == RunnerStep(w) /\ UNCHANGED loopVars

VerifierStep(v) == Compare(v) \/ Mark(v) \/ Book(v)

Next ==
  \/ \E j \in Job : (Enqueue(j) \/ Elapse(j)) /\ UNCHANGED loopVars
  \/ \E w \in Worker : QueueStep(w) \/ HandlerDone(w) \/ WorkerDies(w)
  \/ \E v \in Verifier : VerifierStep(v)
  \/ \E a \in Api : Answered(a) \/ ApiDies(a)

Spec == Init /\ [][Next]_vars

\* Clocks run, workers poll, and a handler that has been entered runs on; API
\* requests owe nothing, and nobody promises that the source answers.
FairSpec ==
  /\ Spec
  /\ \A j \in Job : WF_vars(Elapse(j) /\ UNCHANGED loopVars)
  /\ \A w \in Worker : /\ WF_vars(QueueStep(w))
                       /\ WF_vars(VerifierStep(w) \/ HandlerDone(w))

-----------------------------------------------------------------------------
\* A verification job that succeeded has left a verified baseline: no retry is
\* given up because of an answer that is none (handlers.ts:57-61).
SucceededMeansVerified ==
  \A j \in Job : jobs[j].status = "succeeded" => baseline.verified

\* Unless an instance died between the two writes, whatever overlaps, a
\* positive change on the baseline reaches the benefit: once nobody is at it,
\* the benefit is VERIFIED (verify.ts:70-105).
ProofIsBooked ==
  /\ baseline.verified /\ baseline.value > 0 /\ ~cutShort
  /\ \A v \in Verifier : verifiers[v].at # "booking"
  => benefit.stage = "VERIFIED"

\* Success is proof and proof is booked: from a job that is done to the
\* baseline, and from the baseline to the benefit.
SuccessIsBooked == SucceededMeansVerified /\ ProofIsBooked

\* "A verification that never runs leaves value stranded" (handlers.ts:46-51):
\* once a job was enqueued the baseline is verified or the job has had all its
\* attempts, though workers die and the source is down on and off.
LoopConcludes ==
  \A j \in Job : jobs[j].status = "pending" ~>
    baseline.verified \/ jobs[j].status = "dead"
=============================================================================
