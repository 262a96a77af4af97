---------------------------- MODULE WorkspaceRecord ----------------------------
(***************************************************************************)
(* The record of a Sage Halpin workspace (server/workspace.ts and          *)
(* server/routes/workspaces.ts): the decisions the board took and how they *)
(* turned out, the events the lead logged and the checkpoints published    *)
(* from them.  Routes read a row and write it back whole; an outcome and a *)
(* checkpoint wait for the model, and an outcome then proposes lessons.    *)
(*                                                                         *)
(* Not modelled: validation, dates, prompts, track records (a pure         *)
(* function of the decisions); the fields of a decision are its text (what *)
(* was decided), its notes and its outcome.                                *)
(***************************************************************************)
EXTENDS AgentLessons

CONSTANTS
  QuestionId,       \* decisions of board questions
  LoggedId,         \* decisions logged here
  EventId,
  MaxCheckpoints    \* bound: checkpoints ever numbered

ASSUME RecordAssumption ==
  /\ QuestionId \cap LoggedId = {} /\ QuestionId \cup LoggedId # {}
  /\ EventId # {} /\ MaxCheckpoints \in Nat \ {0}

DecisionId == QuestionId \cup LoggedId

VARIABLES
  decisions,     \* rows decision-<id>
  events,        \* rows event-<id>
  checkpoints,   \* rows checkpoint-<n>: the request that published it, or none
  recordCalls,   \* per tab, the request under way on the record
  said,          \* history: the decisions requests served in turn would leave
  contested      \* history: decisions two requests worked on at once

recordVars == <<decisions, events, checkpoints, recordCalls, said, contested>>

NoCheckpoint == 0

Decision == [there : BOOLEAN, text : 0..1, notes : 0..1, outcome : BOOLEAN]

NoDecision == [there |-> FALSE, text |-> 0, notes |-> 0, outcome |-> FALSE]

RecordCall ==
  [at : {"idle", "edit", "drop", "outcome", "reflect", "unlog", "insight"},
   id : DecisionId, row : Decision, event : EventId,
   n : 1..MaxCheckpoints, by : 0..MaxRequests,
   behind : BOOLEAN]    \* history: a checkpoint was saved since it read them

NoRecordCall ==
  [at |-> "idle", id |-> CHOOSE d \in DecisionId : TRUE, row |-> NoDecision,
   event |-> CHOOSE e \in EventId : TRUE, n |-> 1, by |-> 0, behind |-> FALSE]

RecordTypeOK ==
  /\ decisions \in [DecisionId -> Decision] /\ said \in [DecisionId -> Decision]
  /\ events \subseteq EventId
  /\ checkpoints \in [1..MaxCheckpoints -> 0..MaxRequests]
  /\ recordCalls \in [Tab -> RecordCall]
  /\ contested \subseteq DecisionId

RecordInit ==
  /\ decisions = [d \in DecisionId |-> NoDecision] /\ said = decisions
  /\ events = {} /\ checkpoints = [n \in 1..MaxCheckpoints |-> NoCheckpoint]
  /\ recordCalls = [c \in Tab |-> NoRecordCall]
  /\ contested = {}

HasDecision(call, d) == call.at \in {"edit", "drop", "outcome"} /\ call.id = d

RecordGoes(c, call) ==
  /\ recordCalls' = [recordCalls EXCEPT ![c] = call]
  /\ contested' = contested \cup
       {d \in DecisionId : /\ HasDecision(call, d)
                           /\ \E e \in Tab \ {c} : HasDecision(recordCalls[e], d)}

\* A decision is written; `served' is what it is when requests take turns.
PutDecision(d, row, served) ==
  /\ decisions' = [decisions EXCEPT ![d] = row]
  /\ said' = [said EXCEPT ![d] = served]

BeginRecord(c) == Arrive /\ recordCalls[c].at = "idle"

Others == <<lessonVars, events, checkpoints>>

-----------------------------------------------------------------------------
(* Decisions.                                                              *)

\* POST decisions: a decision taken elsewhere, under an id never drawn before.
LogDecision(c, d, t) ==
  LET row == [NoDecision EXCEPT !.there = TRUE, !.text = t] IN
  /\ BeginRecord(c) /\ d \in LoggedId
  /\ said[d] = NoDecision /\ ~ decisions[d].there
  /\ \A e \in Tab : ~ HasDecision(recordCalls[e], d)
  /\ PutDecision(d, row, row)
  /\ UNCHANGED <<Others, recordCalls, contested>>

\* The decision of a board question arrives, or arrives again, whole: what
\* was noted and recorded of an earlier one is replaced.
RecordQuestion(c, d, t) ==
  LET row == [NoDecision EXCEPT !.there = TRUE, !.text = t] IN
  /\ BeginRecord(c) /\ d \in QuestionId
  /\ PutDecision(d, row, row)
  /\ contested' = contested \cup
       {e \in {d} : \E x \in Tab : HasDecision(recordCalls[x], d)}
  /\ UNCHANGED <<Others, recordCalls>>

ReadDecision(c, d, at) ==
  /\ BeginRecord(c) /\ decisions[d].there
  /\ RecordGoes(c, [NoRecordCall EXCEPT !.at = at, !.id = d, !.row = decisions[d]])
  /\ UNCHANGED <<Others, decisions, said>>

BeginEdit(c, d) == ReadDecision(c, d, "edit")

\* What the board decided on a question stays; a logged decision may change.
MayReword(d) == d \in LoggedId

\* PATCH decisions/:id
SaveEdit(c) ==
  LET call == recordCalls[c]
      d == call.id
  IN
  /\ call.at = "edit"
  /\ \E t \in 0..1, n \in 0..1 :
       /\ t # call.row.text => MayReword(d)
       /\ PutDecision(d, [call.row EXCEPT !.text = t, !.notes = n],
            IF said[d].there
            THEN [said[d] EXCEPT !.text = IF t = call.row.text THEN @ ELSE t,
                                 !.notes = IF n = call.row.notes THEN @ ELSE n]
            ELSE said[d])
  /\ RecordGoes(c, NoRecordCall)
  /\ UNCHANGED <<issued, Others>>

\* A board question's decision stays in the record.
Deletable(d) == d \in LoggedId

BeginDrop(c, d) == Deletable(d) /\ ReadDecision(c, d, "drop")

\* DELETE decisions/:id
DropDecision(c) ==
  /\ recordCalls[c].at = "drop"
  /\ PutDecision(recordCalls[c].id, NoDecision, NoDecision)
  /\ RecordGoes(c, NoRecordCall)
  /\ UNCHANGED <<issued, Others>>

BeginOutcome(c, d) == ReadDecision(c, d, "outcome")

\* Mutant: the outcome replaces the notes.
WithOutcomeOnly(row) == [row EXCEPT !.outcome = TRUE, !.notes = 0]

WithOutcome(row) == [row EXCEPT !.outcome = TRUE]

\* POST decisions/:id/outcome saves it; agents advised on board questions only.
SaveOutcome(c) ==
  LET call == recordCalls[c]
      d == call.id
  IN
  /\ call.at = "outcome"
  /\ PutDecision(d, WithOutcome(call.row),
                 IF said[d].there THEN [said[d] EXCEPT !.outcome = TRUE] ELSE said[d])
  /\ RecordGoes(c, IF d \in QuestionId THEN [call EXCEPT !.at = "reflect"]
                   ELSE NoRecordCall)
  /\ UNCHANGED <<issued, Others>>

\* The model reviews the outcome and lessons are proposed, or it fails.
Reflect(c) ==
  /\ recordCalls[c].at = "reflect"
  /\ \E offers \in Proposals :
       lessonCalls' = [lessonCalls EXCEPT ![c] = NextOffer(@, offers)]
  /\ RecordGoes(c, NoRecordCall)
  /\ UNCHANGED <<issued, lessons, made, chairSaid, slack, events, checkpoints,
                 decisions, said>>

-----------------------------------------------------------------------------
(* Events and checkpoints.                                                 *)

\* POST events
LogEvent(c, e) ==
  /\ BeginRecord(c) /\ e \notin events
  /\ \A x \in Tab : recordCalls[x].at = "unlog" => recordCalls[x].event # e
  /\ events' = events \cup {e}
  /\ UNCHANGED <<lessonVars, checkpoints, recordCalls, decisions, said, contested>>

\* DELETE events/:id
BeginUnlog(c, e) ==
  /\ BeginRecord(c) /\ e \in events
  /\ RecordGoes(c, [NoRecordCall EXCEPT !.at = "unlog", !.event = e])
  /\ UNCHANGED <<Others, decisions, said>>

UnlogEvent(c) ==
  /\ recordCalls[c].at = "unlog"
  /\ events' = events \ {recordCalls[c].event}
  /\ RecordGoes(c, NoRecordCall)
  /\ UNCHANGED <<issued, lessonVars, checkpoints, decisions, said>>

Published == {n \in 1..MaxCheckpoints : checkpoints[n] # NoCheckpoint}

LastOf(ns) == IF ns = {} THEN 0 ELSE CHOOSE n \in ns : \A m \in ns : m <= n

NextNumber == LastOf(Published) + 1

\* POST checkpoints lists the record and then the checkpoints, and asks the
\* model for insights.
BeginPublish(c) ==
  /\ BeginRecord(c) /\ NextNumber \in 1..MaxCheckpoints
  /\ RecordGoes(c, [NoRecordCall EXCEPT !.at = "insight", !.n = NextNumber,
                      !.by = issued'])
  /\ UNCHANGED <<Others, decisions, said>>

\* The model answered: the checkpoint is stored under the number of then.
SaveCheckpoint(c) ==
  LET call == recordCalls[c] IN
  /\ call.at = "insight"
  /\ checkpoints' = [checkpoints EXCEPT ![call.n] = call.by]
  /\ recordCalls' = [d \in Tab |->
       IF d = c THEN NoRecordCall
       ELSE [recordCalls[d] EXCEPT !.behind = @ \/ recordCalls[d].at = "insight"]]
  /\ UNCHANGED <<issued, lessonVars, events, decisions, said, contested>>

\* The model or the store fails a call: what was written stays.
RecordCallFails(c) ==
  /\ recordCalls[c].at # "idle"
  /\ RecordGoes(c, NoRecordCall)
  /\ UNCHANGED <<issued, Others, decisions, said>>

RecordStep(c) ==
  \/ \E d \in LoggedId, t \in 0..1 : LogDecision(c, d, t)
  \/ \E d \in QuestionId, t \in 0..1 : RecordQuestion(c, d, t)
  \/ \E d \in DecisionId : BeginEdit(c, d) \/ BeginDrop(c, d) \/ BeginOutcome(c, d)
  \/ SaveEdit(c) \/ DropDecision(c) \/ SaveOutcome(c) \/ Reflect(c)
  \/ \E e \in EventId : LogEvent(c, e) \/ BeginUnlog(c, e)
  \/ UnlogEvent(c) \/ BeginPublish(c) \/ SaveCheckpoint(c)
  \/ RecordCallFails(c)

-----------------------------------------------------------------------------
(* Properties.                                                             *)

\* Edits, outcomes and deletions of a decision that no other request worked
\* on at the same time leave what was asked for, although each writes back the
\* whole row it read (workspaces.ts:412, 447).
DecisionsServedInTurn ==
  \A d \in DecisionId \ contested : decisions[d] = said[d]

\* A checkpoint once published is not replaced by one that began after it was
\* stored: only publishing twice at the same time reuses a number.
CheckpointsKept ==
  \A n \in Published :
    checkpoints'[n] # checkpoints[n] /\ checkpoints'[n] # NoCheckpoint =>
      \E c \in Tab : recordCalls[c].behind /\ recordCalls[c].n = n
=============================================================================
