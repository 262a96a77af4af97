-------------------------- MODULE SageWorkspaceProofs --------------------------
(***************************************************************************)
(* Proofs about a workspace of the Sage Halpin server (SageWorkspace): its *)
(* types, the settings a scan carries, the agents' memory, the record and  *)
(* the files served in turn, the deletion of it all, and the limits.       *)
(*                                                                         *)
(* A property of the rows is never inductive here: what a handler has read *)
(* and will write back counts as well.  Every part therefore has an        *)
(* invariant over rows and calls in hand (SettingsKnown, LessonsKnown,     *)
(* RecordKnown, FilesKnown, ErasureKnown, Within), a lemma that says when  *)
(* the step of one tab keeps it, and a lemma for the steps of its module.  *)
(***************************************************************************)
EXTENDS SageWorkspace, FiniteSetTheorems, WellFoundedInduction, TLAPS

-----------------------------------------------------------------------------
(* Types.  A handler's call on lessons.                                    *)

\* What a tab holds that works on no lesson is well-formed.
LEMMA IdleLessonCall ==
  /\ NoLesson \in Lesson /\ NoLesson.status = "absent"
  /\ NoLessons \in [LessonId -> Lesson]
  /\ NoLessonCall \in LessonCall
  /\ NoLessonCall.at = "idle" /\ NoLessonCall.todo = {} /\ NoLessonCall.old = NoLessons
<1>1. NoLesson.agent \in Agent /\ NoLesson.text \in Text
  BY LessonsAssumption DEF NoLesson
<1>2. NoLesson \in Lesson /\ NoLesson.status = "absent"
  BY <1>1 DEF NoLesson, Lesson
<1>3. NoLessons \in [LessonId -> Lesson]
  BY <1>2 DEF NoLessons
<1>4. 1 \in LessonId
  BY LessonsAssumption DEF LessonId
<1>5. NoLessonCall \in LessonCall
  BY <1>2, <1>3, <1>4 DEF NoLessonCall, LessonCall
<1>6. QED
  BY <1>2, <1>3, <1>5 DEF NoLessonCall

\* A handler with offers left goes on to the next of them, with no copies in hand.
LEMMA OffersNext ==
  ASSUME NEW call, NEW todo \in SUBSET Offer
  PROVE  /\ NextOffer(call, todo) \in LessonCall
         /\ NextOffer(call, todo).todo = todo
         /\ NextOffer(call, todo).at \in {"idle", "check"}
         /\ NextOffer(call, todo).old = NoLessons
<1>1. CASE todo = {}
  BY <1>1, IdleLessonCall DEF NextOffer
<1>2. CASE todo # {}
  <2> DEFINE new == [NoLessonCall EXCEPT !.at = "check", !.todo = todo]
  <2>1. NextOffer(call, todo) = new
    BY <1>2 DEF NextOffer
  <2>2. new \in LessonCall
    BY IdleLessonCall DEF LessonCall
  <2>3. new.todo = todo /\ new.at = "check" /\ new.old = NoLessons
    BY IdleLessonCall DEF LessonCall
  <2> HIDE DEF new
  <2>4. QED
    BY <2>1, <2>2, <2>3
<1>3. QED
  BY <1>1, <1>2

\* What the model proposes is an offer, and is not active.
LEMMA ProposalsAreOffers ==
  ASSUME NEW offers \in Proposals
  PROVE  offers \in SUBSET Offer /\ \A o \in offers : o.status = "proposed"
BY DEF Proposals, Offer

\* A lesson written back as it was read, but retired.
LEMMA RetiredLesson ==
  ASSUME NEW row \in Lesson
  PROVE  Retired(row) \in Lesson /\ Retired(row).status = "retired"
         /\ Retired(row).agent = row.agent
BY DEF Retired, Lesson, Status

\* A step on lessons keeps their rows and calls well-formed.
LEMMA LessonTypes ==
  ASSUME LessonsTypeOK, issued \in 0..MaxRequests, NEW c \in Tab, LessonStep(c)
  PROVE  LessonsTypeOK' /\ issued' \in 0..MaxRequests
<1>0. /\ lessons \in [LessonId -> Lesson] /\ made \in 0..MaxLessons
      /\ lessonCalls \in [Tab -> LessonCall] /\ chairSaid \subseteq (Agent \X Text)
      /\ slack \in [Agent -> Nat]
      /\ lessonCalls[c] \in LessonCall /\ MaxLessons \in Nat
  BY LessonsAssumption DEF LessonsTypeOK
<1> DEFINE call == lessonCalls[c]
<1>00. /\ call.todo \subseteq Offer /\ call.id \in LessonId /\ call.row \in Lesson
       /\ call.old \in [LessonId -> Lesson]
  BY <1>0 DEF LessonCall
<1>row. call.row.agent \in Agent
  BY <1>00 DEF Lesson
<1>a. ASSUME NEW new \in LessonCall, lessonCalls' = [lessonCalls EXCEPT ![c] = new]
      PROVE  lessonCalls' \in [Tab -> LessonCall]
  BY <1>0, <1>a
<1>b. ASSUME NEW offers \in SUBSET Offer, BeginAdding(c, offers), Arrive,
             chairSaid' \subseteq (Agent \X Text)
      PROVE  LessonsTypeOK' /\ issued' \in 0..MaxRequests
  <2>1. lessonCalls' \in [Tab -> LessonCall]
    BY <1>a, <1>b, OffersNext DEF BeginAdding
  <2>2. issued' \in 0..MaxRequests
    BY <1>b, RequestsAssumption DEF Arrive
  <2>3. QED
    BY <1>0, <1>b, <2>1, <2>2 DEF BeginAdding, LessonsTypeOK
<1>1. ASSUME NEW a \in Agent, NEW t \in Text, TeachLesson(c, a, t)
      PROVE  LessonsTypeOK' /\ issued' \in 0..MaxRequests
  <2>1. {[agent |-> a, text |-> t, status |-> "active"]} \in SUBSET Offer
    BY DEF Offer
  <2>2. chairSaid' \subseteq (Agent \X Text)
    BY <1>0, <1>1 DEF TeachLesson
  <2>3. QED
    BY <1>1, <1>b, <2>1, <2>2 DEF TeachLesson
<1>2. ASSUME NEW as \in SUBSET Agent, NEW t \in Text, TeachSignal(c, as, t)
      PROVE  LessonsTypeOK' /\ issued' \in 0..MaxRequests
  <2>1. [agent : as, text : {t}, status : {"active"}] \in SUBSET Offer
    BY DEF Offer
  <2>2. chairSaid' \subseteq (Agent \X Text)
    BY <1>0, <1>2 DEF TeachSignal
  <2>3. QED
    BY <1>2, <1>b, <2>1, <2>2 DEF TeachSignal
<1>3. ASSUME NEW a \in Agent, NEW ts \in SUBSET Text, Study(c, a, ts)
      PROVE  LessonsTypeOK' /\ issued' \in 0..MaxRequests
  <2>1. [agent : {a}, text : ts, status : {"proposed"}] \in SUBSET Offer
    BY DEF Offer
  <2>2. QED
    BY <1>0, <1>3, <1>b, <2>1 DEF Study
<1>4. ASSUME NEW i \in LessonId, BeginReview(c, i)
      PROVE  LessonsTypeOK' /\ issued' \in 0..MaxRequests
  <2>1. [NoLessonCall EXCEPT !.at = "review", !.id = i, !.row = lessons[i]] \in LessonCall
    BY <1>0, IdleLessonCall DEF LessonCall
  <2>2. lessonCalls' \in [Tab -> LessonCall]
    BY <1>4, <1>a, <2>1 DEF BeginReview
  <2>3. QED
    BY <1>0, <1>4, <2>2, RequestsAssumption DEF BeginReview, Arrive, LessonsTypeOK
<1>5. CASE WriteReview(c)
  <2>1. PICK s \in {"active", "retired"}, t \in Text :
          /\ lessons' = [lessons EXCEPT ![call.id] =
                           [call.row EXCEPT !.status = s, !.text = t]]
          /\ IF s = "active"
             THEN /\ chairSaid' = chairSaid \cup {<<call.row.agent, t>>}
                  /\ slack' = [slack EXCEPT ![call.row.agent] = @ + 1]
             ELSE UNCHANGED <<chairSaid, slack>>
    BY <1>5 DEF WriteReview
  <2>2. [call.row EXCEPT !.status = s, !.text = t] \in Lesson
    BY <1>00 DEF Lesson, Status
  <2>3. lessons' \in [LessonId -> Lesson]
    BY <1>0, <1>00, <2>1, <2>2
  <2>4. chairSaid' \subseteq (Agent \X Text) /\ slack' \in [Agent -> Nat]
    BY <1>0, <1>row, <2>1
  <2>5. lessonCalls' \in [Tab -> LessonCall]
    BY <1>5, <1>a, IdleLessonCall DEF WriteReview
  <2>6. UNCHANGED <<issued, made>>
    BY <1>5 DEF WriteReview
  <2>7. QED
    BY <1>0, <2>3, <2>4, <2>5, <2>6 DEF LessonsTypeOK
<1>6. CASE CheckOffer(c)
  <2>1. PICK o \in call.todo :
          IF SameLesson(o)
          THEN /\ lessonCalls' =
                    [lessonCalls EXCEPT ![c] = NextOffer(lessonCalls[c], call.todo \ {o})]
               /\ UNCHANGED made
          ELSE /\ made < MaxLessons
               /\ made' = made + 1
               /\ lessonCalls' = [lessonCalls EXCEPT ![c] =
                    [call EXCEPT !.at = "put", !.todo = @ \ {o}, !.id = made + 1,
                       !.row = [agent |-> o.agent, text |-> o.text,
                                status |-> o.status]]]
    BY <1>6 DEF CheckOffer
  <2>2. UNCHANGED <<issued, lessons, chairSaid, slack>>
    BY <1>6 DEF CheckOffer
  <2>3. CASE SameLesson(o)
    <3>1. lessonCalls' \in [Tab -> LessonCall]
      BY <1>00, <1>a, <2>1, <2>3, OffersNext
    <3>2. QED
      BY <1>0, <2>1, <2>2, <2>3, <3>1 DEF LessonsTypeOK
  <2>4. CASE ~ SameLesson(o)
    <3> DEFINE row == [agent |-> o.agent, text |-> o.text, status |-> o.status]
               new == [call EXCEPT !.at = "put", !.todo = @ \ {o}, !.id = made + 1,
                                   !.row = row]
    <3>1. row \in Lesson
      BY <1>00 DEF Offer, Lesson, Status
    <3>2. made + 1 \in LessonId /\ made' \in 0..MaxLessons
      BY <1>0, <2>1, <2>4 DEF LessonId
    <3> HIDE DEF row
    <3>3. new \in LessonCall
      BY <1>0, <1>00, <3>1, <3>2 DEF LessonCall
    <3>4. lessonCalls' = [lessonCalls EXCEPT ![c] = new]
      BY <2>1, <2>4 DEF row
    <3> HIDE DEF new
    <3>5. lessonCalls' \in [Tab -> LessonCall]
      BY <1>a, <3>3, <3>4
    <3>6. QED
      BY <1>0, <2>2, <3>2, <3>5 DEF LessonsTypeOK
  <2>5. QED
    BY <2>3, <2>4
<1>7. CASE PutLesson(c)
  <2>1. /\ lessons' = [lessons EXCEPT ![call.id] = call.row]
        /\ lessonCalls' = [lessonCalls EXCEPT ![c].at = "enforce"]
        /\ UNCHANGED <<issued, made, chairSaid, slack>>
    BY <1>7 DEF PutLesson
  <2>2. lessons' \in [LessonId -> Lesson]
    BY <1>0, <1>00, <2>1
  <2>3. [call EXCEPT !.at = "enforce"] \in LessonCall
    BY <1>0 DEF LessonCall
  <2>4. lessonCalls' = [lessonCalls EXCEPT ![c] = [call EXCEPT !.at = "enforce"]]
    BY <2>1
  <2>5. lessonCalls' \in [Tab -> LessonCall]
    BY <1>a, <2>3, <2>4
  <2>6. QED
    BY <1>0, <2>1, <2>2, <2>5 DEF LessonsTypeOK
<1>8. CASE ListActive(c)
  <2> DEFINE a == call.row.agent
             old == [i \in LessonId |->
                       IF i \in BeyondLimit(lessons, a) THEN lessons[i] ELSE NoLesson]
             new == IF Stored(old) = {} THEN NextOffer(call, call.todo)
                    ELSE [call EXCEPT !.at = "retire", !.old = old]
  <2>1. /\ lessonCalls' = [lessonCalls EXCEPT ![c] = new]
        /\ slack' = [slack EXCEPT ![a] = 0]
        /\ UNCHANGED <<issued, lessons, made, chairSaid>>
    BY <1>8 DEF ListActive
  <2>2. old \in [LessonId -> Lesson]
    BY <1>0, IdleLessonCall
  <2> HIDE DEF old
  <2>3. [call EXCEPT !.at = "retire", !.old = old] \in LessonCall
    BY <1>0, <2>2 DEF LessonCall
  <2>4. new \in LessonCall
    BY <1>00, <2>3, OffersNext
  <2> HIDE DEF new
  <2>5. lessonCalls' \in [Tab -> LessonCall]
    BY <1>a, <2>1, <2>4
  <2>6. slack' \in [Agent -> Nat]
    BY <1>0, <1>row, <2>1
  <2>7. QED
    BY <1>0, <2>1, <2>5, <2>6 DEF LessonsTypeOK
<1>9. CASE RetireOldest(c)
  <2> DEFINE i == CHOOSE j \in Stored(call.old) : \A k \in Stored(call.old) : k <= j
             rest == [call.old EXCEPT ![i] = NoLesson]
             new == IF Stored(rest) = {} THEN NextOffer(call, call.todo)
                    ELSE [call EXCEPT !.old = rest]
  <2>1. /\ lessons' = [lessons EXCEPT ![i] = Retired(call.old[i])]
        /\ lessonCalls' = [lessonCalls EXCEPT ![c] = new]
        /\ UNCHANGED <<issued, made, chairSaid, slack>>
    BY <1>9 DEF RetireOldest
  <2> HIDE DEF i
  <2>2. rest \in [LessonId -> Lesson]
    BY <1>00, IdleLessonCall
  <2> HIDE DEF rest
  <2>3. [call EXCEPT !.old = rest] \in LessonCall
    BY <1>0, <2>2 DEF LessonCall
  <2>4. new \in LessonCall
    BY <1>00, <2>3, OffersNext
  <2> HIDE DEF new
  <2>5. lessonCalls' \in [Tab -> LessonCall]
    BY <1>a, <2>1, <2>4
  <2>6. lessons' \in [LessonId -> Lesson]
    <3>1. CASE i \in LessonId
      BY <1>0, <1>00, <2>1, <3>1, RetiredLesson
    <3>2. CASE i \notin LessonId
      BY <1>0, <2>1, <3>2
    <3>3. QED
      BY <3>1, <3>2
  <2>7. QED
    BY <1>0, <2>1, <2>5, <2>6 DEF LessonsTypeOK
<1>10. CASE LessonCallFails(c)
  <2>1. /\ lessonCalls' = [lessonCalls EXCEPT ![c] = NoLessonCall]
        /\ slack' = IF call.at \in {"enforce", "retire"}
                    THEN [slack EXCEPT ![call.row.agent] =
                            @ + 1 + Cardinality(Stored(call.old))]
                    ELSE slack
        /\ UNCHANGED <<issued, lessons, made, chairSaid>>
    BY <1>10 DEF LessonCallFails
  <2>2. Cardinality(Stored(call.old)) \in Nat
    <3>1. IsFiniteSet(LessonId)
      BY <1>0, FS_Interval DEF LessonId
    <3>2. QED
      BY <3>1, FS_Subset, FS_CardinalityType DEF Stored
  <2>3. slack' \in [Agent -> Nat]
    BY <1>0, <1>row, <2>1, <2>2
  <2>4. lessonCalls' \in [Tab -> LessonCall]
    BY <1>a, <2>1, IdleLessonCall
  <2>5. QED
    BY <1>0, <2>1, <2>3, <2>4 DEF LessonsTypeOK
<1>11. QED
  BY <1>1, <1>2, <1>3, <1>4, <1>5, <1>6, <1>7, <1>8, <1>9, <1>10 DEF LessonStep

-----------------------------------------------------------------------------
(* Types.  The record.                                                     *)

\* What a tab holds that works on no part of the record is well-formed.
LEMMA IdleRecordCall ==
  /\ NoDecision \in Decision /\ NoRecordCall \in RecordCall
  /\ NoRecordCall.at = "idle" /\ ~ NoRecordCall.behind
<1>1. NoDecision \in Decision
  BY DEF NoDecision, Decision
<1>2. 1 \in 1..MaxCheckpoints /\ 0 \in 0..MaxRequests
  BY RecordAssumption, RequestsAssumption
<1>3. DecisionId # {} /\ EventId # {}
  BY RecordAssumption DEF DecisionId
<1>4. QED
  BY <1>1, <1>2, <1>3 DEF NoRecordCall, RecordCall

\* A step on the record keeps its rows and calls well-formed.
LEMMA RecordTypes ==
  ASSUME RecordTypeOK, LessonsTypeOK, issued \in 0..MaxRequests, NEW c \in Tab, RecordStep(c)
  PROVE  RecordTypeOK' /\ LessonsTypeOK' /\ issued' \in 0..MaxRequests
<1>0. /\ decisions \in [DecisionId -> Decision] /\ said \in [DecisionId -> Decision]
      /\ events \subseteq EventId
      /\ checkpoints \in [1..MaxCheckpoints -> 0..MaxRequests]
      /\ recordCalls \in [Tab -> RecordCall] /\ contested \subseteq DecisionId
      /\ recordCalls[c] \in RecordCall
  BY DEF RecordTypeOK
<1> DEFINE call == recordCalls[c]
<1>00. /\ call.id \in DecisionId /\ call.row \in Decision /\ call.event \in EventId
       /\ call.n \in 1..MaxCheckpoints /\ call.by \in 0..MaxRequests
  BY <1>0 DEF RecordCall
<1>a. ASSUME NEW new \in RecordCall, RecordGoes(c, new)
      PROVE  recordCalls' \in [Tab -> RecordCall] /\ contested' \subseteq DecisionId
  BY <1>0, <1>a DEF RecordGoes
<1>b. ASSUME BeginRecord(c) PROVE issued' \in 0..MaxRequests /\ issued' \in 1..MaxRequests
  BY <1>b, RequestsAssumption DEF BeginRecord, Arrive
<1>c. ASSUME NEW d, NEW row \in Decision, NEW served \in Decision, PutDecision(d, row, served)
      PROVE  decisions' \in [DecisionId -> Decision] /\ said' \in [DecisionId -> Decision]
  BY <1>0, <1>c DEF PutDecision
<1>d. ASSUME UNCHANGED lessonVars PROVE LessonsTypeOK'
  BY <1>d DEF lessonVars, LessonsTypeOK
<1>e. ASSUME NEW d \in DecisionId, NEW at \in {"edit", "drop", "outcome"}, ReadDecision(c, d, at)
      PROVE  RecordTypeOK' /\ LessonsTypeOK' /\ issued' \in 0..MaxRequests
  <2> DEFINE new == [NoRecordCall EXCEPT !.at = at, !.id = d, !.row = decisions[d]]
  <2>1. new \in RecordCall
    BY <1>0, IdleRecordCall DEF RecordCall
  <2>2. RecordGoes(c, new) /\ UNCHANGED <<Others, decisions, said>> /\ BeginRecord(c)
    BY <1>e DEF ReadDecision
  <2> HIDE DEF new
  <2>3. QED
    BY <1>0, <1>a, <1>b, <1>d, <2>1, <2>2 DEF RecordTypeOK, Others
<1>1. ASSUME NEW d \in LoggedId, NEW t \in 0..1, LogDecision(c, d, t)
      PROVE  RecordTypeOK' /\ LessonsTypeOK' /\ issued' \in 0..MaxRequests
  <2>1. [NoDecision EXCEPT !.there = TRUE, !.text = t] \in Decision
    BY IdleRecordCall DEF Decision
  <2>2. /\ PutDecision(d, [NoDecision EXCEPT !.there = TRUE, !.text = t],
                       [NoDecision EXCEPT !.there = TRUE, !.text = t])
        /\ UNCHANGED <<Others, recordCalls, contested>> /\ BeginRecord(c)
    BY <1>1 DEF LogDecision
  <2>3. QED
    BY <1>0, <1>b, <1>c, <1>d, <2>1, <2>2 DEF RecordTypeOK, Others
<1>2. ASSUME NEW d \in QuestionId, NEW t \in 0..1, RecordQuestion(c, d, t)
      PROVE  RecordTypeOK' /\ LessonsTypeOK' /\ issued' \in 0..MaxRequests
  <2>1. [NoDecision EXCEPT !.there = TRUE, !.text = t] \in Decision
    BY IdleRecordCall DEF Decision
  <2>2. /\ PutDecision(d, [NoDecision EXCEPT !.there = TRUE, !.text = t],
                       [NoDecision EXCEPT !.there = TRUE, !.text = t])
        /\ UNCHANGED <<Others, recordCalls>> /\ BeginRecord(c)
    BY <1>2 DEF RecordQuestion
  <2>3. contested' \subseteq DecisionId
    BY <1>0, <1>2 DEF RecordQuestion, DecisionId
  <2>4. QED
    BY <1>0, <1>b, <1>c, <1>d, <2>1, <2>2, <2>3 DEF RecordTypeOK, Others
<1>3. ASSUME NEW d \in DecisionId, BeginEdit(c, d) \/ BeginDrop(c, d) \/ BeginOutcome(c, d)
      PROVE  RecordTypeOK' /\ LessonsTypeOK' /\ issued' \in 0..MaxRequests
  BY <1>3, <1>e DEF BeginEdit, BeginDrop, BeginOutcome
<1>4. CASE SaveEdit(c)
  <2> DEFINE d == call.id
             served(t, n) == IF said[d].there
               THEN [said[d] EXCEPT !.text = IF t = call.row.text THEN @ ELSE t,
                                    !.notes = IF n = call.row.notes THEN @ ELSE n]
               ELSE said[d]
  <2>1. PICK t \in 0..1, n \in 0..1 :
          PutDecision(d, [call.row EXCEPT !.text = t, !.notes = n], served(t, n))
    BY <1>4 DEF SaveEdit
  <2>2. RecordGoes(c, NoRecordCall) /\ UNCHANGED <<issued, Others>>
    BY <1>4 DEF SaveEdit
  <2>3. [call.row EXCEPT !.text = t, !.notes = n] \in Decision
    BY <1>00 DEF Decision
  <2>4. served(t, n) \in Decision
    <3>1. said[d] \in Decision
      BY <1>0, <1>00
    <3>2. QED
      BY <3>1 DEF Decision
  <2> HIDE DEF served, d
  <2>5. QED
    BY <1>0, <1>a, <1>c, <1>d, <2>1, <2>2, <2>3, <2>4, IdleRecordCall DEF RecordTypeOK, Others
<1>5. CASE DropDecision(c)
  BY <1>0, <1>5, <1>a, <1>c, <1>d, IdleRecordCall DEF DropDecision, RecordTypeOK, Others
<1>6. CASE SaveOutcome(c)
  <2> DEFINE d == call.id
             served == IF said[d].there THEN [said[d] EXCEPT !.outcome = TRUE] ELSE said[d]
             next == IF d \in QuestionId THEN [call EXCEPT !.at = "reflect"] ELSE NoRecordCall
  <2>1. /\ PutDecision(d, WithOutcome(call.row), served) /\ RecordGoes(c, next)
        /\ UNCHANGED <<issued, Others>>
    BY <1>6 DEF SaveOutcome
  <2>2. WithOutcome(call.row) \in Decision
    BY <1>00 DEF Decision, WithOutcome
  <2>3. served \in Decision
    <3>1. said[d] \in Decision
      BY <1>0, <1>00
    <3>2. QED
      BY <3>1 DEF Decision
  <2>4. next \in RecordCall
    <3>1. [call EXCEPT !.at = "reflect"] \in RecordCall
      BY <1>0 DEF RecordCall
    <3>2. QED
      BY <3>1, IdleRecordCall
  <2> HIDE DEF served, next, d
  <2>5. QED
    BY <1>0, <1>a, <1>c, <1>d, <2>1, <2>2, <2>3, <2>4 DEF RecordTypeOK, Others
<1>7. CASE Reflect(c)
  <2>1. PICK offers \in Proposals :
          lessonCalls' = [lessonCalls EXCEPT ![c] = NextOffer(lessonCalls[c], offers)]
    BY <1>7 DEF Reflect
  <2>2. lessonCalls' \in [Tab -> LessonCall]
    BY <2>1, ProposalsAreOffers, OffersNext DEF LessonsTypeOK
  <2>3. /\ RecordGoes(c, NoRecordCall)
        /\ UNCHANGED <<issued, lessons, made, chairSaid, slack, events, checkpoints,
                       decisions, said>>
    BY <1>7 DEF Reflect
  <2>4. QED
    BY <1>0, <1>a, <2>2, <2>3, IdleRecordCall DEF RecordTypeOK, LessonsTypeOK
<1>8. ASSUME NEW e \in EventId, LogEvent(c, e)
      PROVE  RecordTypeOK' /\ LessonsTypeOK' /\ issued' \in 0..MaxRequests
  BY <1>0, <1>8, <1>b, <1>d DEF LogEvent, RecordTypeOK
<1>9. ASSUME NEW e \in EventId, BeginUnlog(c, e)
      PROVE  RecordTypeOK' /\ LessonsTypeOK' /\ issued' \in 0..MaxRequests
  <2>1. [NoRecordCall EXCEPT !.at = "unlog", !.event = e] \in RecordCall
    BY IdleRecordCall DEF RecordCall
  <2>2. QED
    BY <1>0, <1>9, <1>a, <1>b, <1>d, <2>1 DEF BeginUnlog, RecordTypeOK, Others
<1>10. CASE UnlogEvent(c)
  BY <1>0, <1>10, <1>a, <1>d, IdleRecordCall DEF UnlogEvent, RecordTypeOK
<1>11. CASE BeginPublish(c)
  <2> DEFINE new == [NoRecordCall EXCEPT !.at = "insight", !.n = NextNumber, !.by = issued']
  <2>1. NextNumber \in 1..MaxCheckpoints /\ BeginRecord(c) /\ RecordGoes(c, new)
        /\ UNCHANGED <<Others, decisions, said>>
    BY <1>11 DEF BeginPublish
  <2>2. issued' \in 0..MaxRequests
    BY <1>b, <2>1
  <2>3. new \in RecordCall
    BY <2>1, <2>2, IdleRecordCall DEF RecordCall
  <2> HIDE DEF new
  <2>4. QED
    BY <1>0, <1>a, <1>d, <2>1, <2>2, <2>3 DEF RecordTypeOK, Others
<1>12. CASE SaveCheckpoint(c)
  <2>1. /\ checkpoints' = [checkpoints EXCEPT ![call.n] = call.by]
        /\ recordCalls' = [d \in Tab |->
             IF d = c THEN NoRecordCall
             ELSE [recordCalls[d] EXCEPT !.behind = @ \/ recordCalls[d].at = "insight"]]
        /\ UNCHANGED <<issued, lessonVars, events, decisions, said, contested>>
    BY <1>12 DEF SaveCheckpoint
  <2>2. checkpoints' \in [1..MaxCheckpoints -> 0..MaxRequests]
    BY <1>0, <1>00, <2>1
  <2>3. ASSUME NEW d \in Tab
        PROVE  [recordCalls[d] EXCEPT !.behind = @ \/ recordCalls[d].at = "insight"] \in RecordCall
    <3>1. recordCalls[d] \in RecordCall
      BY <1>0
    <3>2. (recordCalls[d].behind \/ recordCalls[d].at = "insight") \in BOOLEAN
      OBVIOUS
    <3>3. QED
      BY <3>1, <3>2 DEF RecordCall
  <2>4. recordCalls' \in [Tab -> RecordCall]
    BY <2>1, <2>3, IdleRecordCall
  <2>5. QED
    BY <1>0, <1>d, <2>1, <2>2, <2>4 DEF RecordTypeOK
<1>13. CASE RecordCallFails(c)
  BY <1>0, <1>13, <1>a, <1>d, IdleRecordCall DEF RecordCallFails, RecordTypeOK, Others
<1>14. QED
  BY <1>1, <1>2, <1>3, <1>4, <1>5, <1>6, <1>7, <1>8, <1>9, <1>10, <1>11, <1>12, <1>13
     DEF RecordStep

-----------------------------------------------------------------------------
(* Types.  Files.                                                          *)

\* What a tab holds that works on no file is well-formed.
LEMMA IdleFileCall ==
  /\ NoRecord \in Record /\ ~ NoRecord.there
  /\ NoFileCall \in FileCall
  /\ NoFileCall.at = "idle" /\ NoFileCall.rest = {}
<1>1. NoRecord \in Record /\ ~ NoRecord.there
  BY FilesAssumption DEF NoRecord, Record
<1>2. QED
  BY <1>1, FilesAssumption DEF NoFileCall, FileCall

\* Rows as handlers write them back.
LEMMA RowsWrittenBack ==
  ASSUME NEW row \in Record, NEW b \in BOOLEAN
  PROVE  /\ NewRecord(b) \in Record /\ NewRecord(b).there
         /\ Answered(row) \in Record /\ Answered(row).there = row.there
         /\ Unanswered(row) \in Record /\ Unanswered(row).there = row.there
         /\ [row EXCEPT !.shared = b] \in Record /\ [row EXCEPT !.useInBoard = b] \in Record
         /\ [row EXCEPT !.shared = b].there = row.there
         /\ [row EXCEPT !.useInBoard = b].there = row.there
<1>1. NewRecord(b) \in Record /\ NewRecord(b).there
  BY FilesAssumption DEF NewRecord, Record
<1>2. (IF row.answers = HISTORY_MAX THEN row.answers ELSE row.answers + 1) \in 0..HISTORY_MAX
  BY FilesAssumption DEF Record
<1>3. Answered(row) \in Record /\ Answered(row).there = row.there
  BY <1>2 DEF Answered, Record
<1>4. Unanswered(row) \in Record /\ Unanswered(row).there = row.there
  BY DEF Unanswered, Record
<1>5. /\ [row EXCEPT !.shared = b] \in Record /\ [row EXCEPT !.useInBoard = b] \in Record
      /\ [row EXCEPT !.shared = b].there = row.there
      /\ [row EXCEPT !.useInBoard = b].there = row.there
  BY DEF Record
<1>6. QED
  BY <1>1, <1>3, <1>4, <1>5

\* A step on files keeps their records, chunks and calls well-formed.
LEMMA FileTypes ==
  ASSUME FilesTypeOK, issued \in 0..MaxRequests, NEW c \in Tab,
         FileStep(c) \/ FileCallFails(c) \/ BeginDeleteAll(c)
  PROVE  /\ FilesTypeOK'
         /\ FileStep(c) \/ FileCallFails(c) => issued' \in 0..MaxRequests
<1>0. /\ files \in [FileId -> Record] /\ asked \in [FileId -> Record]
      /\ blobs \in [FileId -> Chunks] /\ fileCalls \in [Tab -> FileCall]
      /\ overlapped \subseteq FileId /\ cleared \subseteq FileId
      /\ fileCalls[c] \in FileCall
  BY DEF FilesTypeOK
<1> DEFINE call == fileCalls[c]
<1>00. call.file \in FileId /\ call.row \in Record /\ call.rest \subseteq FileId
  BY <1>0 DEF FileCall
<1>a. ASSUME NEW new \in FileCall, Goes(c, new)
      PROVE  fileCalls' \in [Tab -> FileCall] /\ overlapped' \subseteq FileId
  BY <1>0, <1>a DEF Goes
<1>b. ASSUME Ends(c)
      PROVE  fileCalls' \in [Tab -> FileCall] /\ overlapped' \subseteq FileId
  BY <1>a, <1>b, IdleFileCall DEF Ends
<1>c. ASSUME Arrive PROVE issued' \in 0..MaxRequests
  BY <1>c, RequestsAssumption DEF Arrive
<1>d. ASSUME NEW f \in FileId, NEW at \in {"bytes", "save", "list"}, Get(c, f, at),
             cleared' \subseteq FileId
      PROVE  FilesTypeOK' /\ issued' \in 0..MaxRequests
  <2> DEFINE new == [NoFileCall EXCEPT !.at = at, !.file = f, !.row = files[f]]
  <2>1. new \in FileCall
    BY <1>0, IdleFileCall DEF FileCall
  <2>2. Goes(c, new) /\ Arrive /\ UNCHANGED <<files, blobs, asked>>
    BY <1>d DEF Get
  <2> HIDE DEF new
  <2>3. QED
    BY <1>0, <1>a, <1>c, <1>d, <2>1, <2>2 DEF FilesTypeOK
<1>1. ASSUME NEW b \in BOOLEAN, BeginUpload(c, b)
      PROVE  FilesTypeOK' /\ issued' \in 0..MaxRequests
  <2> DEFINE new == [NoFileCall EXCEPT !.at = "count", !.row = NewRecord(b)]
  <2>1. NewRecord(b) \in Record
    BY FilesAssumption DEF NewRecord, Record
  <2>2. new \in FileCall
    BY <2>1, IdleFileCall DEF FileCall
  <2>3. Goes(c, new) /\ Arrive /\ UNCHANGED <<files, blobs, asked, cleared>>
    BY <1>1 DEF BeginUpload
  <2> HIDE DEF new
  <2>4. QED
    BY <1>0, <1>a, <1>c, <2>2, <2>3 DEF FilesTypeOK
<1>2. ASSUME NEW f \in FileId, BeginAsk(c, f) \/ BeginUpdate(c, f) \/ BeginDelete(c, f)
      PROVE  FilesTypeOK' /\ issued' \in 0..MaxRequests
  BY <1>0, <1>2, <1>d DEF BeginAsk, BeginUpdate, BeginDelete
<1>3. CASE CountFiles(c)
  <2>1. UNCHANGED <<issued, files, blobs, asked, cleared>>
    BY <1>3 DEF CountFiles
  <2>2. fileCalls' \in [Tab -> FileCall] /\ overlapped' \subseteq FileId
    <3>1. CASE Full
      BY <1>3, <1>b, <3>1 DEF CountFiles
    <3>2. CASE ~ Full
      <4>1. PICK f \in FileId : Goes(c, [call EXCEPT !.at = "store", !.file = f])
        BY <1>3, <3>2 DEF CountFiles
      <4>2. [call EXCEPT !.at = "store", !.file = f] \in FileCall
        BY <1>0 DEF FileCall
      <4>3. QED
        BY <1>a, <4>1, <4>2
    <3>3. QED
      BY <3>1, <3>2
  <2>3. QED
    BY <1>0, <2>1, <2>2 DEF FilesTypeOK
<1>4. CASE StoreChunk(c)
  <2> DEFINE new == [call EXCEPT !.at = IF blobs[call.file] = "none" THEN "store" ELSE "record"]
  <2>1. /\ blobs' = [blobs EXCEPT ![call.file] = IF @ = "none" THEN "some" ELSE "all"]
        /\ Goes(c, new) /\ UNCHANGED <<issued, files, asked, cleared>>
    BY <1>4 DEF StoreChunk
  <2>2. new \in FileCall
    BY <1>0 DEF FileCall
  <2>3. blobs' \in [FileId -> Chunks]
    BY <1>0, <2>1 DEF Chunks
  <2> HIDE DEF new
  <2>4. QED
    BY <1>0, <1>a, <2>1, <2>2, <2>3 DEF FilesTypeOK
<1>5. CASE PutRecord(c)
  <2> DEFINE new == [call EXCEPT !.at = "model", !.readable = TRUE]
  <2>1. /\ files' = [files EXCEPT ![call.file] = call.row]
        /\ asked' = [asked EXCEPT ![call.file] = call.row]
        /\ Goes(c, new) /\ UNCHANGED <<issued, blobs, cleared>>
    BY <1>5 DEF PutRecord
  <2>2. new \in FileCall
    BY <1>0 DEF FileCall
  <2>3. files' \in [FileId -> Record] /\ asked' \in [FileId -> Record]
    BY <1>0, <1>00, <2>1
  <2> HIDE DEF new
  <2>4. QED
    BY <1>0, <1>a, <2>1, <2>2, <2>3 DEF FilesTypeOK
<1>6. CASE ReadBytes(c)
  <2> DEFINE new == [call EXCEPT !.at = "model", !.readable = blobs[call.file] = "all"]
  <2>1. Goes(c, new) /\ UNCHANGED <<issued, files, blobs, asked, cleared>>
    BY <1>6 DEF ReadBytes
  <2>2. (blobs[call.file] = "all") \in BOOLEAN
    OBVIOUS
  <2>3. new \in FileCall
    BY <1>0, <2>2 DEF FileCall
  <2> HIDE DEF new
  <2>4. QED
    BY <1>0, <1>a, <2>1, <2>3 DEF FilesTypeOK
<1>7. CASE Review(c)
  <2> DEFINE f == call.file
             once == [asked[f] EXCEPT !.done = TRUE,
                        !.answers = IF @ = HISTORY_MAX THEN @ ELSE @ + 1]
             none == [asked[f] EXCEPT !.done = FALSE]
             Write(row, served) ==
               /\ files' = [files EXCEPT ![f] = row]
               /\ asked' = [asked EXCEPT ![f] = IF @.there THEN served ELSE @]
  <2>1. /\ Write(Answered(call.row), once) \/ Write(Unanswered(call.row), none)
        /\ Ends(c) /\ UNCHANGED <<issued, blobs, cleared>>
    BY <1>7, Zenon DEF Review
  <2>2. asked[f] \in Record
    BY <1>0, <1>00
  <2>3. once \in Record /\ none \in Record
    <3>1. once = Answered(asked[f]) /\ none = Unanswered(asked[f])
      BY DEF Answered, Unanswered
    <3>2. QED
      BY <2>2, <3>1, RowsWrittenBack
  <2>4. Answered(call.row) \in Record /\ Unanswered(call.row) \in Record
    BY <1>00, RowsWrittenBack
  <2> HIDE DEF once, none, f
  <2>5. files' \in [FileId -> Record] /\ asked' \in [FileId -> Record]
    BY <1>0, <2>1, <2>2, <2>3, <2>4
  <2> HIDE DEF Write
  <2>6. QED
    BY <1>0, <1>b, <2>1, <2>5 DEF FilesTypeOK
<1>8. CASE SaveFlags(c)
  <2> DEFINE f == call.file
  <2>1. /\ \/ \E b \in BOOLEAN :
                /\ files' = [files EXCEPT ![f] = [call.row EXCEPT !.shared = b]]
                /\ asked' = [asked EXCEPT ![f].shared = IF asked[f].there THEN b ELSE @]
           \/ \E b \in BOOLEAN :
                /\ files' = [files EXCEPT ![f] = [call.row EXCEPT !.useInBoard = b]]
                /\ asked' = [asked EXCEPT ![f].useInBoard = IF asked[f].there THEN b ELSE @]
        /\ Ends(c) /\ UNCHANGED <<issued, blobs, cleared>>
    BY <1>8 DEF SaveFlags
  <2>2. asked[f] \in Record /\ f \in FileId
    BY <1>0, <1>00
  <2>3. files' \in [FileId -> Record]
    <3>1. \A b \in BOOLEAN : /\ [call.row EXCEPT !.shared = b] \in Record
                             /\ [call.row EXCEPT !.useInBoard = b] \in Record
      BY <1>00, RowsWrittenBack
    <3>2. PICK new \in Record : files' = [files EXCEPT ![f] = new]
      BY <2>1, <3>1
    <3>3. QED
      BY <1>0, <2>2, <3>2
  <2>4. asked' \in [FileId -> Record]
    <3> DEFINE shared(b) == IF asked[f].there THEN b ELSE asked[f].shared
               used(b) == IF asked[f].there THEN b ELSE asked[f].useInBoard
    <3>1. \A b \in BOOLEAN : shared(b) \in BOOLEAN /\ used(b) \in BOOLEAN
      BY <2>2 DEF Record
    <3>2. \E b \in BOOLEAN :
            \/ asked' = [asked EXCEPT ![f] = [asked[f] EXCEPT !.shared = shared(b)]]
            \/ asked' = [asked EXCEPT ![f] = [asked[f] EXCEPT !.useInBoard = used(b)]]
      BY <2>1
    <3> HIDE DEF shared, used
    <3>3. \A b \in BOOLEAN : /\ [asked[f] EXCEPT !.shared = shared(b)] \in Record
                             /\ [asked[f] EXCEPT !.useInBoard = used(b)] \in Record
      BY <2>2, <3>1, RowsWrittenBack
    <3>4. QED
      BY <1>0, <2>2, <3>2, <3>3
  <2>5. QED
    BY <1>0, <1>b, <2>1, <2>3, <2>4 DEF FilesTypeOK
<1>9. CASE ListChunks(c)
  <2> DEFINE new == [call EXCEPT !.at = IF blobs[call.file] = "none" THEN "forget" ELSE "remove"]
  <2>1. Goes(c, new) /\ UNCHANGED <<issued, files, blobs, asked, cleared>>
    BY <1>9 DEF ListChunks
  <2>2. new \in FileCall
    BY <1>0 DEF FileCall
  <2> HIDE DEF new
  <2>3. QED
    BY <1>0, <1>a, <2>1, <2>2 DEF FilesTypeOK
<1>10. CASE RemoveChunk(c)
  <2> DEFINE new == [call EXCEPT !.at = IF blobs[call.file] = "all" THEN "remove" ELSE "forget"]
  <2>1. /\ blobs' = [blobs EXCEPT ![call.file] = IF @ = "all" THEN "some" ELSE "none"]
        /\ Goes(c, new) /\ UNCHANGED <<issued, files, asked, cleared>>
    BY <1>10 DEF RemoveChunk
  <2>2. new \in FileCall
    BY <1>0 DEF FileCall
  <2>3. blobs' \in [FileId -> Chunks]
    BY <1>0, <2>1 DEF Chunks
  <2> HIDE DEF new
  <2>4. QED
    BY <1>0, <1>a, <2>1, <2>2, <2>3 DEF FilesTypeOK
<1>11. CASE RemoveRecord(c)
  <2>1. /\ files' = [files EXCEPT ![call.file] = NoRecord]
        /\ asked' = [asked EXCEPT ![call.file] = NoRecord]
        /\ UNCHANGED <<issued, blobs, cleared>>
    BY <1>11 DEF RemoveRecord
  <2>2. files' \in [FileId -> Record] /\ asked' \in [FileId -> Record]
    BY <1>0, <2>1, IdleFileCall
  <2>3. fileCalls' \in [Tab -> FileCall] /\ overlapped' \subseteq FileId
    <3>1. CASE call.rest = {}
      BY <1>11, <1>b, <3>1 DEF RemoveRecord
    <3>2. CASE call.rest # {}
      <4>1. PICK f \in call.rest :
              Goes(c, [call EXCEPT !.at = "list", !.file = f, !.rest = @ \ {f}])
        BY <1>11, <3>2 DEF RemoveRecord
      <4>2. [call EXCEPT !.at = "list", !.file = f, !.rest = @ \ {f}] \in FileCall
        BY <1>0, <1>00 DEF FileCall
      <4>3. QED
        BY <1>a, <4>1, <4>2
    <3>3. QED
      BY <3>1, <3>2
  <2>4. QED
    BY <1>0, <2>1, <2>2, <2>3 DEF FilesTypeOK
<1>12. CASE FileCallFails(c)
  BY <1>0, <1>12, <1>b DEF FileCallFails, FilesTypeOK
<1>13. ASSUME BeginDeleteAll(c)
       PROVE  FilesTypeOK'
  <2>1. PICK f \in Listed :
          Goes(c, [NoFileCall EXCEPT !.at = "list", !.file = f, !.rest = Listed \ {f}])
    BY <1>13 DEF BeginDeleteAll
  <2>2. Listed \subseteq FileId
    BY DEF Listed
  <2>3. [NoFileCall EXCEPT !.at = "list", !.file = f, !.rest = Listed \ {f}] \in FileCall
    BY <2>2, IdleFileCall DEF FileCall
  <2>4. cleared' \subseteq FileId /\ UNCHANGED <<files, blobs, asked>>
    BY <1>0, <1>13, <2>2 DEF BeginDeleteAll
  <2>5. fileCalls' \in [Tab -> FileCall] /\ overlapped' \subseteq FileId
    BY <1>a, <2>1, <2>3
  <2>6. QED
    BY <1>0, <1>13, <2>4, <2>5 DEF FilesTypeOK
<1>14. FileStep(c) => FilesTypeOK' /\ issued' \in 0..MaxRequests
  BY <1>1, <1>2, <1>3, <1>4, <1>5, <1>6, <1>7, <1>8, <1>9, <1>10, <1>11 DEF FileStep
<1>15. QED
  BY <1>0, <1>12, <1>13, <1>14 DEF FileCallFails

-----------------------------------------------------------------------------
(* Of some numbers there is a least, and of finitely many a greatest.      *)

\* A set of numbers that is not empty has a least element.
LEMMA LeastNumber ==
  ASSUME NEW S, S \subseteq Nat, S # {}
  PROVE  \E x \in S : \A y \in S : x <= y
<1>1. PICK x \in S : \A y \in S : ~ (<<y, x>> \in OpToRel(<, Nat))
  BY WFMin, NatLessThanWellFounded, Zenon
<1>2. \A y \in S : ~ (y < x)
  BY <1>1 DEF OpToRel
<1>3. QED
  BY <1>2

\* A finite set of numbers that is not empty has a greatest element.
LEMMA GreatestNumber ==
  ASSUME NEW S, S \subseteq Nat, S # {}, IsFiniteSet(S)
  PROVE  \E x \in S : \A y \in S : y <= x
<1> DEFINE above(x) == {y \in S : y > x}
           counts == {Cardinality(above(x)) : x \in S}
<1>1. \A x \in S : IsFiniteSet(above(x)) /\ Cardinality(above(x)) \in Nat
  BY FS_Subset, FS_CardinalityType
<1>2. PICK n \in counts : \A m \in counts : n <= m
  <2>1. counts \subseteq Nat /\ counts # {}
    BY <1>1
  <2> HIDE DEF counts
  <2>2. QED
    BY <2>1, LeastNumber
<1>3. PICK x \in S : n = Cardinality(above(x))
  BY <1>2
<1>4. ASSUME NEW y \in S, ~ (y <= x)
      PROVE  FALSE
  <2>0. x \in Nat /\ y \in Nat /\ S \subseteq Nat
    OBVIOUS
  <2>01. y > x /\ ~ (y > y)
    BY <1>4, <2>0
  <2>02. \A z \in S : z > y => z > x
    BY <2>0, <2>01
  <2>1. above(y) \in SUBSET above(x) /\ y \in above(x) /\ y \notin above(y)
    BY <2>01, <2>02
  <2>2. Cardinality(above(y)) <= Cardinality(above(x)) /\ above(y) # above(x)
    BY <1>1, <2>1, FS_Subset
  <2>3. Cardinality(above(y)) # Cardinality(above(x))
    BY <1>1, <2>1, <2>2, FS_Subset
  <2>4. Cardinality(above(x)) <= Cardinality(above(y))
    BY <1>2, <1>3
  <2>5. QED
    BY <1>1, <2>2, <2>3, <2>4
<1>5. QED
  BY <1>4

\* Newest() of some items is one of them, and no other is newer.
LEMMA NewestIsThere ==
  ASSUME NEW items \in SUBSET Item, items # {}
  PROVE  Newest(items) \in items /\ \A j \in items : j <= Newest(items)
<1>1. \E i \in items : \A j \in items : j <= i
  BY ScanAssumption, FS_Subset, GreatestNumber
<1>2. QED
  BY <1>1, Zenon DEF Newest

-----------------------------------------------------------------------------
(* Types.  The horizon scan: one that marks items has some to mark.        *)

ScanTyped ==
  /\ ScanTypeOK
  /\ \A c \in Tab : scans[c].at = "mark" => scans[c].rest # {}

\* What a tab holds that scans nothing is well-formed.
LEMMA IdleScan ==
  NoScan \in ScanCall /\ NoScan.at = "idle" /\ NoScan.rest = {}
BY RequestsAssumption DEF NoScan, ScanCall, Workspace

\* A step of a scan keeps rows and scans well-formed.
LEMMA ScanTypes ==
  ASSUME ScanTyped, LessonsTypeOK, issued \in 0..MaxRequests, NEW c \in Tab, ScanStep(c)
  PROVE  ScanTyped' /\ LessonsTypeOK' /\ issued' \in 0..MaxRequests
<1>0. /\ meta \in Workspace /\ signals \subseteq Item /\ seen \subseteq Item
      /\ landscape \in BOOLEAN /\ untrimmed \in BOOLEAN
      /\ scans \in [Tab -> ScanCall] /\ scans[c] \in ScanCall
      /\ told \in 0..MaxRequests /\ late \subseteq Tab /\ clobbered \in BOOLEAN
      /\ \A d \in Tab : scans[d].at = "mark" => scans[d].rest # {}
  BY DEF ScanTyped, ScanTypeOK
<1> DEFINE call == scans[c]
<1>00. /\ call.ws \in Workspace /\ call.known \subseteq Item /\ call.fresh \subseteq Item
       /\ call.kept \subseteq Item /\ call.rest \subseteq Item
  BY <1>0 DEF ScanCall
<1> DEFINE ScansTyped ==
             /\ scans \in [Tab -> ScanCall]
             /\ \A d \in Tab : scans[d].at = "mark" => scans[d].rest # {}
<1>a. ASSUME NEW new \in ScanCall, ScanGoes(c, new), new.at = "mark" => new.rest # {}
      PROVE  ScansTyped'
  BY <1>0, <1>a DEF ScanGoes
<1>b. ASSUME Arrive PROVE issued' \in 0..MaxRequests
  BY <1>b, RequestsAssumption DEF Arrive
<1>c. ASSUME UNCHANGED lessonVars PROVE LessonsTypeOK'
  BY <1>c DEF lessonVars, LessonsTypeOK
<1>d. ASSUME NEW ws \in Workspace, NEW settled \in BOOLEAN, SaveMeta(c, ws, settled)
      PROVE  meta' \in Workspace /\ late' \subseteq Tab /\ clobbered' \in BOOLEAN
  <2>1. [ws EXCEPT !.there = TRUE] \in Workspace
    BY DEF Workspace
  <2>2. late' \subseteq Tab
    BY <1>0, <1>d DEF SaveMeta, Holding
  <2>3. clobbered' \in BOOLEAN
    BY <1>d, Zenon DEF SaveMeta
  <2>4. QED
    BY <1>d, <2>1, <2>2, <2>3 DEF SaveMeta
<1>same. ASSUME UNCHANGED <<MetaVars, Rows>>, ScansTyped'
         PROVE  ScanTyped'
  BY <1>0, <1>same DEF ScanTyped, ScanTypeOK, MetaVars, Rows
<1>e. ASSUME NEW new \in ScanCall, ScanGoes(c, new), new.at = "mark" => new.rest # {},
             UNCHANGED <<lessonVars, MetaVars, Rows>>
      PROVE  ScanTyped' /\ LessonsTypeOK'
  BY <1>a, <1>c, <1>e, <1>same
<1>f. ASSUME NEW at \in {"set", "rows", "claim"}
      PROVE  /\ [NoScan EXCEPT !.at = at, !.ws = meta] \in ScanCall
             /\ [NoScan EXCEPT !.at = at, !.ws = meta].at # "mark"
  BY <1>0, IdleScan DEF ScanCall
<1>g. ASSUME NEW at \in {"rows", "reload", "landscape", "lessons"}
      PROVE  [call EXCEPT !.at = at] \in ScanCall /\ [call EXCEPT !.at = at].at # "mark"
  BY <1>0 DEF ScanCall
<1> HIDE DEF ScansTyped
<1>1. CASE BeginSettings(c)
  BY <1>1, <1>b, <1>e, <1>f DEF BeginSettings
<1>2. CASE SaveSettings(c)
  <2>1. /\ told < MaxRequests /\ told' = told + 1
        /\ SaveMeta(c, [call.ws EXCEPT !.settings = told + 1], TRUE)
        /\ ScanGoes(c, NoScan) /\ UNCHANGED <<issued, lessonVars, Rows>>
    BY <1>2 DEF SaveSettings
  <2>2. told' \in 0..MaxRequests
    BY <1>0, <2>1, RequestsAssumption
  <2>3. [call.ws EXCEPT !.settings = told + 1] \in Workspace
    BY <1>00, <2>1, <2>2 DEF Workspace
  <2>4. meta' \in Workspace /\ late' \subseteq Tab /\ clobbered' \in BOOLEAN
    BY <1>d, <2>1, <2>3
  <2>5. ScansTyped'
    BY <1>a, <2>1, IdleScan
  <2>6. QED
    BY <1>0, <1>c, <2>1, <2>2, <2>4, <2>5 DEF ScansTyped, ScanTyped, ScanTypeOK, Rows
<1>3. CASE BeginScan(c)
  BY <1>3, <1>b, <1>e, <1>f DEF BeginScan
<1>4. CASE TimerFindsDue(c)
  BY <1>4, <1>b, <1>e, <1>f DEF TimerFindsDue
<1>5. CASE ClaimScan(c)
  <2>1. /\ SaveMeta(c, call.ws, FALSE) /\ ScanGoes(c, [call EXCEPT !.at = "rows"])
        /\ UNCHANGED <<issued, lessonVars, Rows, told>>
    BY <1>5 DEF ClaimScan
  <2>2. ScansTyped'
    BY <1>a, <1>g, <2>1
  <2>3. meta' \in Workspace /\ late' \subseteq Tab /\ clobbered' \in BOOLEAN
    BY <1>00, <1>d, <2>1
  <2>4. QED
    BY <1>0, <1>c, <2>1, <2>2, <2>3 DEF ScansTyped, ScanTyped, ScanTypeOK, Rows
<1>6. CASE ListRows(c)
  <2>1. PICK candidates \in SUBSET Item :
          ScanGoes(c, [call EXCEPT !.at = "triage", !.known = signals,
                         !.fresh = candidates \ (signals \cup seen)])
    BY <1>6 DEF ListRows
  <2> DEFINE new == [call EXCEPT !.at = "triage", !.known = signals,
                       !.fresh = candidates \ (signals \cup seen)]
  <2>2. new \in ScanCall /\ new.at = "triage"
    BY <1>0 DEF ScanCall
  <2>3. UNCHANGED <<issued, lessonVars, MetaVars, Rows>>
    BY <1>6 DEF ListRows
  <2>4. QED
    BY <1>e, <2>1, <2>2, <2>3
<1>7. CASE Triage(c)
  <2>1. PICK kept \in SUBSET call.fresh :
          ScanGoes(c, [call EXCEPT !.at = IF call.fresh = {} THEN "search" ELSE "mark",
                         !.kept = kept, !.rest = call.fresh])
    BY <1>7 DEF Triage
  <2> DEFINE new == [call EXCEPT !.at = IF call.fresh = {} THEN "search" ELSE "mark",
                       !.kept = kept, !.rest = call.fresh]
  <2>2. new \in ScanCall /\ (new.at = "mark" => new.rest # {})
    BY <1>0, <1>00 DEF ScanCall
  <2>3. UNCHANGED <<issued, lessonVars, MetaVars, Rows>>
    BY <1>7 DEF Triage
  <2>4. QED
    BY <1>e, <2>1, <2>2, <2>3
<1>8. CASE MarkSeen(c)
  <2> DEFINE i == Newest(call.rest)
             new == [call EXCEPT !.fresh = {}, !.rest = @ \ {i},
                                 !.at = IF call.rest = {i} THEN "search" ELSE "mark"]
  <2>1. /\ call.at = "mark" /\ seen' = seen \cup {i} /\ ScanGoes(c, new)
        /\ UNCHANGED <<issued, lessonVars, MetaVars, signals, landscape, untrimmed>>
    BY <1>8 DEF MarkSeen
  <2>2. i \in call.rest
    BY <1>0, <1>00, <2>1, NewestIsThere
  <2> HIDE DEF i
  <2>3. new \in ScanCall
    BY <1>0, <1>00 DEF ScanCall
  <2>4. new.at = "mark" => new.rest # {}
    BY <1>0, <2>2 DEF ScanCall
  <2> HIDE DEF new
  <2>5. ScansTyped'
    BY <1>a, <2>1, <2>3, <2>4
  <2>6. QED
    BY <1>0, <1>00, <1>c, <2>1, <2>2, <2>5 DEF ScansTyped, ScanTyped, ScanTypeOK, MetaVars
<1>9. CASE SearchWeb(c)
  <2>1. PICK found \in SUBSET (Item \ call.known) :
          ScanGoes(c, [call EXCEPT !.kept = call.kept \cup found,
                         !.rest = call.kept \cup found, !.known = {},
                         !.at = IF call.kept \cup found = {} THEN "trim" ELSE "keep"])
    BY <1>9 DEF SearchWeb
  <2> DEFINE new == [call EXCEPT !.kept = call.kept \cup found,
                       !.rest = call.kept \cup found, !.known = {},
                       !.at = IF call.kept \cup found = {} THEN "trim" ELSE "keep"]
  <2>2. new \in ScanCall /\ new.at # "mark"
    BY <1>0, <1>00 DEF ScanCall
  <2>3. UNCHANGED <<issued, lessonVars, MetaVars, Rows>>
    BY <1>9 DEF SearchWeb
  <2>4. QED
    BY <1>e, <2>1, <2>2, <2>3
<1>10. CASE KeepSignal(c)
  <2>1. PICK i \in call.rest :
          /\ signals' = signals \cup {i}
          /\ ScanGoes(c, [call EXCEPT !.rest = @ \ {i},
                            !.at = IF call.rest = {i} THEN "trim" ELSE "keep"])
    BY <1>10 DEF KeepSignal
  <2> DEFINE new == [call EXCEPT !.rest = @ \ {i},
                       !.at = IF call.rest = {i} THEN "trim" ELSE "keep"]
  <2>2. new \in ScanCall /\ new.at # "mark"
    BY <1>0, <1>00 DEF ScanCall
  <2>3. UNCHANGED <<issued, lessonVars, MetaVars, seen, landscape, untrimmed>>
    BY <1>10 DEF KeepSignal
  <2>4. ScansTyped'
    <3>1. ScanGoes(c, new)
      BY <2>1
    <3> HIDE DEF new
    <3>2. QED
      BY <1>a, <2>2, <3>1
  <2>5. QED
    BY <1>0, <1>00, <1>c, <2>1, <2>3, <2>4 DEF ScansTyped, ScanTyped, ScanTypeOK, MetaVars
<1>11. CASE ListSignals(c)
  <2> DEFINE new == [call EXCEPT !.at = "remove", !.rest = Oldest(call)]
  <2>1. /\ ScanGoes(c, new) /\ untrimmed' = FALSE
        /\ UNCHANGED <<issued, lessonVars, MetaVars, signals, seen, landscape>>
    BY <1>11 DEF ListSignals
  <2>2. Oldest(call) \subseteq Item
    BY <1>0 DEF Oldest
  <2>3. new \in ScanCall /\ new.at # "mark"
    BY <1>0, <2>2 DEF ScanCall
  <2>4. ScansTyped'
    BY <1>a, <2>1, <2>3
  <2>5. QED
    BY <1>0, <1>c, <2>1, <2>4 DEF ScansTyped, ScanTyped, ScanTypeOK, MetaVars
<1>12. CASE RemoveOldSignal(c)
  <2> DEFINE i == Newest(call.rest)
             new == [call EXCEPT !.rest = @ \ {i}]
  <2>1. /\ signals' = signals \ {i} /\ ScanGoes(c, new) /\ call.at = "remove"
        /\ UNCHANGED <<issued, lessonVars, MetaVars, seen, landscape, untrimmed>>
    BY <1>12 DEF RemoveOldSignal
  <2> HIDE DEF i
  <2>2. new \in ScanCall /\ new.at # "mark"
    BY <1>0, <1>00, <2>1 DEF ScanCall
  <2>3. ScansTyped'
    BY <1>a, <2>1, <2>2
  <2>4. QED
    BY <1>0, <1>c, <2>1, <2>3 DEF ScansTyped, ScanTyped, ScanTypeOK, MetaVars
<1>13. CASE ForgetOldSeen(c)
  <2> DEFINE at == IF call.kept # {} \/ ~ landscape THEN "landscape" ELSE "reload"
             new == [call EXCEPT !.at = at]
  <2>1. /\ ScanGoes(c, new) /\ \E old \in SUBSET seen : seen' = seen \ old
        /\ UNCHANGED <<issued, lessonVars, MetaVars, signals, landscape, untrimmed>>
    BY <1>13 DEF ForgetOldSeen
  <2>2. ScansTyped'
    BY <1>a, <1>g, <2>1
  <2>3. QED
    BY <1>0, <1>c, <2>1, <2>2 DEF ScansTyped, ScanTyped, ScanTypeOK, MetaVars
<1>14. CASE RefreshLandscape(c)
  <2>1. UNCHANGED <<issued, lessons, made, chairSaid, slack, MetaVars, signals, seen,
                    untrimmed>>
    BY <1>14 DEF RefreshLandscape
  <2>2. ScansTyped' /\ landscape' \in BOOLEAN
    BY <1>0, <1>14, <1>a, <1>g DEF RefreshLandscape
  <2>3. lessonCalls' \in [Tab -> LessonCall]
    BY <1>14, ProposalsAreOffers, OffersNext DEF RefreshLandscape, LessonsTypeOK
  <2>4. QED
    BY <1>0, <2>1, <2>2, <2>3 DEF ScansTyped, ScanTyped, ScanTypeOK, MetaVars, LessonsTypeOK
<1>15. CASE LessonsProposed(c)
  BY <1>15, <1>e, <1>g DEF LessonsProposed
<1>16. CASE Reload(c)
  <2> DEFINE new == [call EXCEPT !.at = "save", !.ws = Current(call.ws)]
  <2>1. /\ ScanGoes(c, new) /\ late' = IF meta.there THEN late \ {c} ELSE late \cup {c}
        /\ UNCHANGED <<issued, lessonVars, meta, told, clobbered, Rows>>
    BY <1>16 DEF Reload
  <2>2. Current(call.ws) \in Workspace
    BY <1>0, <1>00 DEF Current
  <2>3. new \in ScanCall /\ new.at # "mark"
    BY <1>0, <2>2 DEF ScanCall
  <2>4. ScansTyped'
    BY <1>a, <2>1, <2>3
  <2>5. QED
    BY <1>0, <1>c, <2>1, <2>4 DEF ScansTyped, ScanTyped, ScanTypeOK, Rows
<1>17. CASE SaveScan(c)
  <2>1. /\ SaveMeta(c, call.ws, FALSE) /\ ScanGoes(c, NoScan)
        /\ UNCHANGED <<issued, lessonVars, Rows, told>>
    BY <1>17 DEF SaveScan
  <2>2. meta' \in Workspace /\ late' \subseteq Tab /\ clobbered' \in BOOLEAN
    BY <1>00, <1>d, <2>1
  <2>3. ScansTyped'
    BY <1>a, <2>1, IdleScan
  <2>4. QED
    BY <1>0, <1>c, <2>1, <2>2, <2>3 DEF ScansTyped, ScanTyped, ScanTypeOK, Rows
<1>18. CASE ScanFails(c)
  <2>1. /\ ScanGoes(c, NoScan) /\ late' = late \ {c}
        /\ untrimmed' = (untrimmed \/ Trimming(call))
        /\ UNCHANGED <<issued, lessonVars, meta, told, clobbered, signals, seen, landscape>>
    BY <1>18 DEF ScanFails
  <2>2. untrimmed' \in BOOLEAN
    BY <2>1, Zenon
  <2>3. ScansTyped'
    BY <1>a, <2>1, IdleScan
  <2>4. QED
    BY <1>0, <1>c, <2>1, <2>2, <2>3 DEF ScansTyped, ScanTyped, ScanTypeOK
<1>19. QED
  BY <1>1, <1>2, <1>3, <1>4, <1>5, <1>6, <1>7, <1>8, <1>9, <1>10, <1>11, <1>12, <1>13,
     <1>14, <1>15, <1>16, <1>17, <1>18 DEF ScanStep

\* What a tab holds that deletes nothing is well-formed.
LEMMA IdleErasing ==
  NotErasing \in Erasing /\ NotErasing.at = "idle" /\ ~ NotErasing.alone
BY DEF NotErasing, NoRows, Erasing, RowsThere

Types == TypeOK /\ ScanTyped

\* A step of a tab's deletion: what else it changes are histories and rows.
LEMMA ErasingFrame ==
  ASSUME erasing \in [Tab -> Erasing], NEW c \in Tab, NEW mine \in Erasing, Disturbs(c, mine)
  PROVE  erasing' \in [Tab -> Erasing]
<1>1. \A d \in Tab : [erasing[d] EXCEPT !.alone = FALSE] \in Erasing
  BY DEF Erasing
<1>2. QED
  BY <1>1 DEF Disturbs

\* The workspace begins well-formed.
LEMMA TypesInit == Init => Types
<1> SUFFICES ASSUME Init PROVE Types
  OBVIOUS
<1>1. issued \in 0..MaxRequests
  BY RequestsAssumption DEF Init
<1>2. LessonsTypeOK
  BY LessonsAssumption, IdleLessonCall DEF Init, LessonsInit, LessonsTypeOK
<1>3. RecordTypeOK
  BY RequestsAssumption, IdleRecordCall DEF Init, RecordInit, RecordTypeOK, NoCheckpoint
<1>4. FilesTypeOK
  <2>1. /\ files = [f \in FileId |-> NoRecord] /\ asked = files
        /\ blobs = [f \in FileId |-> "none"]
        /\ fileCalls = [d \in Tab |-> NoFileCall] /\ overlapped = {} /\ cleared = {}
    BY DEF Init, FilesInit
  <2>2. "none" \in Chunks
    BY DEF Chunks
  <2>3. files \in [FileId -> Record] /\ asked \in [FileId -> Record]
    BY <2>1, IdleFileCall
  <2>4. blobs \in [FileId -> Chunks]
    BY <2>1, <2>2
  <2>5. fileCalls \in [Tab -> FileCall]
    BY <2>1, IdleFileCall
  <2>6. overlapped \subseteq FileId /\ cleared \subseteq FileId
    BY <2>1
  <2>7. QED
    BY <2>3, <2>4, <2>5, <2>6 DEF FilesTypeOK
<1>5. ScanTyped
  <2>1. /\ meta = [there |-> TRUE, settings |-> 0]
        /\ signals = {} /\ seen = {} /\ landscape = FALSE
        /\ untrimmed = FALSE /\ scans = [d \in Tab |-> NoScan]
        /\ told = 0 /\ late = {} /\ clobbered = FALSE
    BY DEF Init, ScanInit
  <2>2. meta \in Workspace /\ told \in 0..MaxRequests
    BY <2>1, RequestsAssumption DEF Workspace
  <2>3. /\ scans \in [Tab -> ScanCall]
        /\ \A d \in Tab : scans[d].at = "mark" => scans[d].rest # {}
    BY <2>1, IdleScan
  <2>4. QED
    BY <2>1, <2>2, <2>3 DEF ScanTyped, ScanTypeOK
<1>6. erasing \in [Tab -> Erasing] /\ erased \in BOOLEAN
  BY IdleErasing DEF Init
<1>7. QED
  BY <1>1, <1>2, <1>3, <1>4, <1>5, <1>6 DEF Types, TypeOK, ScanTyped

\* What a deletion lists is well-formed.
LEMMA CurrentRowsTyped ==
  Types => CurrentRows \in RowsThere
BY DEF Types, TypeOK, RecordTypeOK, ScanTypeOK, CurrentRows, RowsThere, Published, Stored

\* Every step of a tab leaves everything well-formed.
LEMMA TypesStep ==
  ASSUME Types, NEW c \in Tab, Step(c)
  PROVE  Types'
<1>0. /\ issued \in 0..MaxRequests /\ LessonsTypeOK /\ RecordTypeOK /\ FilesTypeOK
      /\ ScanTyped /\ erasing \in [Tab -> Erasing] /\ erased \in BOOLEAN
      /\ erasing[c] \in Erasing
  BY DEF Types, TypeOK
<1>l. ASSUME UNCHANGED lessonVars PROVE LessonsTypeOK'
  BY <1>0, <1>l DEF lessonVars, LessonsTypeOK
<1>r. ASSUME UNCHANGED recordVars PROVE RecordTypeOK'
  BY <1>0, <1>r DEF recordVars, RecordTypeOK
<1>f. ASSUME UNCHANGED fileVars PROVE FilesTypeOK'
  BY <1>0, <1>f DEF fileVars, FilesTypeOK
<1>s. ASSUME UNCHANGED scanVars PROVE ScanTyped'
  BY <1>0, <1>s DEF scanVars, ScanTyped, ScanTypeOK
<1>m. ASSUME Meanwhile(c) PROVE erasing' \in [Tab -> Erasing] /\ erased' \in BOOLEAN
  BY <1>0, <1>m, ErasingFrame DEF Meanwhile
<1>e. ASSUME NEW at \in {"record", "lessons", "meta", "horizon"},
             NEW next \in {"lessons", "meta", "horizon", "idle"}, Erase(c, at, next)
      PROVE  /\ erasing' \in [Tab -> Erasing] /\ erased' \in BOOLEAN
             /\ issued' \in 0..MaxRequests /\ FilesTypeOK'
  <2>1. [erasing[c] EXCEPT !.at = next] \in Erasing
    BY <1>0 DEF Erasing
  <2>2. erasing[c].alone \in BOOLEAN
    BY <1>0 DEF Erasing
  <2>3. erasing' \in [Tab -> Erasing]
    BY <1>0, <1>e, <2>1, ErasingFrame, IdleErasing DEF Erase
  <2>4. QED
    BY <1>0, <1>e, <1>f, <2>2, <2>3 DEF Erase
<1>t. ASSUME issued' \in 0..MaxRequests, LessonsTypeOK', RecordTypeOK', FilesTypeOK',
             ScanTyped', erasing' \in [Tab -> Erasing], erased' \in BOOLEAN
      PROVE  Types'
  BY <1>t DEF Types, TypeOK, ScanTyped
<1>1. CASE LessonStep(c) /\ Meanwhile(c) /\ UNCHANGED <<recordVars, fileVars, scanVars>>
  BY <1>0, <1>1, <1>r, <1>f, <1>s, <1>m, <1>t, LessonTypes
<1>2. CASE RecordStep(c) /\ Meanwhile(c) /\ UNCHANGED <<fileVars, scanVars>>
  BY <1>0, <1>2, <1>f, <1>s, <1>m, <1>t, RecordTypes
<1>3. CASE FileStep(c) /\ Meanwhile(c) /\ UNCHANGED <<lessonVars, recordVars, scanVars>>
  <2>1. FilesTypeOK' /\ issued' \in 0..MaxRequests
    BY <1>0, <1>3, FileTypes
  <2>2. QED
    BY <1>0, <1>3, <1>l, <1>r, <1>s, <1>m, <1>t, <2>1
<1>4. CASE ScanStep(c) /\ Meanwhile(c) /\ UNCHANGED <<recordVars, fileVars>>
  BY <1>0, <1>4, <1>r, <1>f, <1>m, <1>t, ScanTypes
<1>5. CASE BeginErase(c)
  <2> DEFINE mine == [NotErasing EXCEPT !.at = "files", !.alone = \A d \in Tab \ {c} : Free(d)]
  <2>1. /\ Arrive /\ Disturbs(c, mine)
        /\ IF Listed = {} THEN UNCHANGED fileVars ELSE BeginDeleteAll(c)
        /\ UNCHANGED <<lessonVars, recordVars, scanVars, erased>>
    BY <1>5 DEF BeginErase
  <2>2. (\A d \in Tab \ {c} : Free(d)) \in BOOLEAN
    OBVIOUS
  <2>3. mine \in Erasing
    BY <2>2, IdleErasing DEF Erasing
  <2> HIDE DEF mine
  <2>4. erasing' \in [Tab -> Erasing]
    BY <1>0, <2>1, <2>3, ErasingFrame
  <2>5. issued' \in 0..MaxRequests
    BY <1>0, <2>1, RequestsAssumption DEF Arrive
  <2>6. FilesTypeOK'
    BY <1>0, <1>f, <2>1, FileTypes
  <2>7. QED
    BY <1>0, <1>l, <1>r, <1>s, <1>t, <2>1, <2>4, <2>5, <2>6
<1>6. CASE ListToErase(c)
  <2> DEFINE mine == [erasing[c] EXCEPT !.at = "record", !.rows = CurrentRows]
  <2>1. /\ Disturbs(c, mine)
        /\ UNCHANGED <<issued, lessonVars, recordVars, fileVars, scanVars, erased>>
    BY <1>6 DEF ListToErase
  <2>2. mine \in Erasing
    BY <1>0, CurrentRowsTyped DEF Erasing
  <2> HIDE DEF mine
  <2>3. erasing' \in [Tab -> Erasing]
    BY <1>0, <2>1, <2>2, ErasingFrame
  <2>4. QED
    BY <1>0, <1>f, <1>l, <1>r, <1>s, <1>t, <2>1, <2>3
<1>7. CASE EraseRecord(c)
  <2> DEFINE rows == erasing[c].rows
  <2>1. /\ Erase(c, "record", "lessons")
        /\ decisions' = [d \in DecisionId |-> IF d \in rows.decisions THEN NoDecision
                                              ELSE decisions[d]]
        /\ said' = [d \in DecisionId |-> IF d \in rows.decisions THEN NoDecision ELSE said[d]]
        /\ contested' = contested \cup
             {d \in rows.decisions : \E e \in Tab : HasDecision(recordCalls[e], d)}
        /\ events' = events \ rows.events
        /\ checkpoints' = [n \in 1..MaxCheckpoints |->
             IF n \in rows.checkpoints THEN NoCheckpoint ELSE checkpoints[n]]
        /\ UNCHANGED <<recordCalls, lessonVars, scanVars>>
    BY <1>7, Zenon DEF EraseRecord
  <2>2. rows.decisions \subseteq DecisionId
    BY <1>0 DEF Erasing, RowsThere
  <2> HIDE DEF rows
  <2>3. decisions' \in [DecisionId -> Decision] /\ said' \in [DecisionId -> Decision]
    BY <1>0, <2>1, IdleRecordCall DEF RecordTypeOK
  <2>4. contested' \subseteq DecisionId /\ events' \subseteq EventId
    BY <1>0, <2>1, <2>2 DEF RecordTypeOK
  <2>5. checkpoints' \in [1..MaxCheckpoints -> 0..MaxRequests]
    BY <1>0, <2>1, RequestsAssumption DEF RecordTypeOK, NoCheckpoint
  <2>6. RecordTypeOK'
    BY <1>0, <2>1, <2>3, <2>4, <2>5 DEF RecordTypeOK
  <2>7. QED
    BY <1>e, <1>l, <1>s, <1>t, <2>1, <2>6
<1>8. CASE EraseLessons(c)
  <2>1. /\ Erase(c, "lessons", "meta") /\ landscape' = FALSE
        /\ lessons' = [i \in LessonId |-> IF i \in erasing[c].rows.lessons THEN NoLesson
                                          ELSE lessons[i]]
        /\ UNCHANGED <<recordVars, made, lessonCalls, chairSaid, slack, meta, told, late,
                       clobbered, signals, seen, untrimmed, scans>>
    BY <1>8 DEF EraseLessons
  <2>2. LessonsTypeOK'
    BY <1>0, <2>1, IdleLessonCall DEF LessonsTypeOK
  <2>3. ScanTyped'
    BY <1>0, <2>1 DEF ScanTyped, ScanTypeOK
  <2>4. QED
    BY <1>e, <1>r, <1>t, <2>1, <2>2, <2>3
<1>9. CASE EraseMeta(c)
  <2>1. /\ Erase(c, "meta", "horizon") /\ meta' = [meta EXCEPT !.there = FALSE]
        /\ UNCHANGED <<recordVars, lessonVars, told, late, clobbered, Rows, scans>>
    BY <1>9 DEF EraseMeta
  <2>2. ScanTyped'
    BY <1>0, <2>1 DEF ScanTyped, ScanTypeOK, Workspace, Rows
  <2>3. QED
    BY <1>e, <1>l, <1>r, <1>t, <2>1, <2>2
<1>10. CASE EraseHorizon(c)
  <2>1. /\ Erase(c, "horizon", "idle")
        /\ signals' = signals \ erasing[c].rows.signals
        /\ seen' = seen \ erasing[c].rows.seen
        /\ UNCHANGED <<recordVars, lessonVars, MetaVars, landscape, untrimmed, scans>>
    BY <1>10 DEF EraseHorizon
  <2>2. ScanTyped'
    BY <1>0, <2>1 DEF ScanTyped, ScanTypeOK, MetaVars
  <2>3. QED
    BY <1>e, <1>l, <1>r, <1>t, <2>1, <2>2
<1>11. CASE EraseFails(c)
  <2>1. /\ Disturbs(c, NotErasing)
        /\ UNCHANGED <<issued, lessonVars, recordVars, fileVars, scanVars, erased>>
    BY <1>11 DEF EraseFails
  <2>2. erasing' \in [Tab -> Erasing]
    BY <1>0, <2>1, ErasingFrame, IdleErasing
  <2>3. QED
    BY <1>0, <1>f, <1>l, <1>r, <1>s, <1>t, <2>1, <2>2
<1>12. CASE FilesFail(c)
  <2>1. /\ FileCallFails(c) /\ Disturbs(c, NotErasing)
        /\ UNCHANGED <<lessonVars, recordVars, scanVars, erased>>
    BY <1>12 DEF FilesFail
  <2>2. erasing' \in [Tab -> Erasing]
    BY <1>0, <2>1, ErasingFrame, IdleErasing
  <2>3. QED
    BY <1>0, <1>l, <1>r, <1>s, <1>t, <2>1, <2>2, FileTypes
<1>13. QED
  BY <1>1, <1>2, <1>3, <1>4, <1>5, <1>6, <1>7, <1>8, <1>9, <1>10, <1>11, <1>12 DEF Step

\* Where nothing changes everything stays well-formed.
LEMMA TypesSame == Types /\ UNCHANGED vars => Types'
BY DEF Types, TypeOK, vars, lessonVars, recordVars, fileVars, scanVars, eraseVars,
       LessonsTypeOK, RecordTypeOK, FilesTypeOK, ScanTyped, ScanTypeOK

\* The rows of a workspace and what its requests hold are well-formed.
THEOREM WorkspaceTypes == Spec => []Types
<1>1. Types /\ [Next]_vars => Types'
  BY TypesStep, TypesSame DEF Next
<1>2. QED
  BY <1>1, TypesInit, PTL DEF Spec

-----------------------------------------------------------------------------
(* The settings.  A scan lasts long, and at its end writes the workspace   *)
(* it has read again: what matters is that a copy, once another write has  *)
(* made it out of date, is known to be, and that every other is current.   *)

\* Whoever holds a copy of `meta' that no write has made out of date holds the
\* settings in force, which are those asked for last unless a late copy was
\* written since.
SettingsKnown ==
  /\ ~ clobbered => meta.settings = told
  /\ \A c \in Holding \ late : scans[c].ws.settings = meta.settings

\* A step of a scan or of PUT /workspaces/:id keeps the settings known.
LEMMA SettingsScanStep ==
  ASSUME ScanTypeOK, SettingsKnown, NEW c \in Tab, ScanStep(c)
  PROVE  SettingsKnown'
<1>0. /\ scans \in [Tab -> ScanCall] /\ scans[c] \in ScanCall /\ late \subseteq Tab
      /\ meta \in Workspace /\ scans[c].ws \in Workspace /\ told \in Nat
  BY RequestsAssumption DEF ScanTypeOK, ScanCall
<1> DEFINE call == scans[c]
           holds(x) == x.at \in {"claim", "set", "save"}
<1>1. /\ ~ clobbered => meta.settings = told
      /\ \A d \in Tab : holds(scans[d]) /\ d \notin late => scans[d].ws.settings = meta.settings
  BY DEF SettingsKnown, Holding
<1>2. ASSUME ~ clobbered' => meta'.settings = told',
             \A d \in Tab : holds(scans'[d]) /\ d \notin late'
                            => scans'[d].ws.settings = meta'.settings
      PROVE  SettingsKnown'
  BY <1>2 DEF SettingsKnown, Holding
\* A call that holds nothing after, or what is current, and no write.
<1>3. ASSUME NEW new, ScanGoes(c, new), UNCHANGED <<meta, told, clobbered>>,
             late' \in {late, late \ {c}, late \cup {c}},
             holds(new) /\ c \notin late' => new.ws.settings = meta.settings
      PROVE  SettingsKnown'
  <2>1. /\ scans'[c] = new
        /\ \A d \in Tab \ {c} : scans'[d] = scans[d] /\ (d \in late' <=> d \in late)
    BY <1>0, <1>3 DEF ScanGoes
  <2> HIDE DEF holds
  <2>2. QED
    BY <1>1, <1>2, <1>3, <2>1
\* A write makes every other copy out of date.
<1>4. ASSUME NEW ws \in Workspace, NEW settled \in BOOLEAN, SaveMeta(c, ws, settled),
             NEW new, ScanGoes(c, new), ~ holds(new),
             ~ clobbered' => ws.settings = told'
      PROVE  SettingsKnown'
  <2>1. meta'.settings = ws.settings
    BY <1>4 DEF SaveMeta, Workspace
  <2>2. /\ scans'[c] = new
        /\ \A d \in Tab \ {c} : scans'[d] = scans[d] /\ (holds(scans[d]) => d \in late')
    BY <1>0, <1>4 DEF ScanGoes, SaveMeta, Holding
  <2> HIDE DEF holds
  <2>3. QED
    BY <1>2, <1>4, <2>1, <2>2
<1>5. ASSUME NEW new, ScanGoes(c, new), UNCHANGED MetaVars, ~ holds(new)
      PROVE  SettingsKnown'
  <2>1. UNCHANGED <<meta, told, clobbered>> /\ late' = late
    BY <1>5 DEF MetaVars
  <2> HIDE DEF holds
  <2>2. QED
    BY <1>3, <1>5, <2>1
\* What the call holds that writes what it read before.
<1>6. ASSUME SaveMeta(c, call.ws, FALSE), holds(call), UNCHANGED told, ~ clobbered'
      PROVE  call.ws.settings = told'
  <2>1. ~ clobbered /\ c \notin late
    BY <1>6, Zenon DEF SaveMeta
  <2>2. QED
    BY <1>1, <1>6, <2>1
<1>7. ASSUME NEW at, at \notin {"claim", "set", "save"}
      PROVE  ~ holds([call EXCEPT !.at = at])
  BY <1>0, <1>7 DEF ScanCall
<1>8. ~ holds(NoScan)
  BY DEF NoScan
<1>9. ASSUME NEW at
      PROVE  [NoScan EXCEPT !.at = at, !.ws = meta].ws.settings = meta.settings
  BY DEF NoScan
<1>10. CASE BeginSettings(c) \/ TimerFindsDue(c)
  <2>1. PICK at \in {"set", "claim"} : ScanGoes(c, [NoScan EXCEPT !.at = at, !.ws = meta])
    BY <1>10 DEF BeginSettings, TimerFindsDue
  <2>2. UNCHANGED <<meta, told, clobbered>> /\ late' = late
    BY <1>10 DEF BeginSettings, TimerFindsDue, MetaVars
  <2> HIDE DEF holds
  <2>3. QED
    BY <1>3, <1>9, <2>1, <2>2
<1>11. CASE SaveSettings(c)
  <2> DEFINE ws == [call.ws EXCEPT !.settings = told + 1]
  <2>1. /\ told < MaxRequests /\ told' = told + 1 /\ SaveMeta(c, ws, TRUE)
        /\ ScanGoes(c, NoScan)
    BY <1>11 DEF SaveSettings
  <2>2. told + 1 \in 0..MaxRequests
    BY <1>0, <2>1, RequestsAssumption
  <2>3. ws \in Workspace /\ ws.settings = told'
    BY <1>0, <2>1, <2>2 DEF Workspace
  <2> HIDE DEF ws, holds
  <2>4. QED
    BY <1>4, <1>8, <2>1, <2>3
<1>12. CASE BeginScan(c)
  <2>1. ScanGoes(c, [NoScan EXCEPT !.at = "rows", !.ws = meta]) /\ UNCHANGED MetaVars
    BY <1>12 DEF BeginScan
  <2>2. ~ holds([NoScan EXCEPT !.at = "rows", !.ws = meta])
    BY DEF NoScan
  <2> HIDE DEF holds
  <2>3. QED
    BY <1>5, <2>1, <2>2
<1>13. CASE ClaimScan(c)
  <2>1. /\ SaveMeta(c, call.ws, FALSE) /\ ScanGoes(c, [call EXCEPT !.at = "rows"])
        /\ UNCHANGED told /\ holds(call)
    BY <1>13 DEF ClaimScan
  <2>2. ~ holds([call EXCEPT !.at = "rows"])
    BY <1>7
  <2> HIDE DEF holds
  <2>3. QED
    BY <1>0, <1>4, <1>6, <2>1, <2>2
<1>14. CASE ListRows(c) \/ Triage(c) \/ MarkSeen(c) \/ SearchWeb(c) \/ KeepSignal(c)
            \/ ListSignals(c) \/ RemoveOldSignal(c) \/ ForgetOldSeen(c) \/ RefreshLandscape(c)
            \/ LessonsProposed(c)
  <2>1. UNCHANGED MetaVars
    BY <1>14 DEF ListRows, Triage, MarkSeen, SearchWeb, KeepSignal, ListSignals,
         RemoveOldSignal, ForgetOldSeen, RefreshLandscape, LessonsProposed
  <2>2. \E new : ScanGoes(c, new) /\ ~ holds(new)
    <3>1. CASE ListRows(c)
      <4>1. PICK candidates \in SUBSET Item :
              ScanGoes(c, [call EXCEPT !.at = "triage", !.known = signals,
                             !.fresh = candidates \ (signals \cup seen)])
        BY <3>1 DEF ListRows
      <4>2. ~ holds([call EXCEPT !.at = "triage", !.known = signals,
                             !.fresh = candidates \ (signals \cup seen)])
        BY <1>0 DEF ScanCall
      <4>3. QED
        BY <4>1, <4>2
    <3>2. CASE Triage(c)
      <4>1. PICK kept \in SUBSET call.fresh :
              ScanGoes(c, [call EXCEPT !.at = IF call.fresh = {} THEN "search" ELSE "mark",
                             !.kept = kept, !.rest = call.fresh])
        BY <3>2 DEF Triage
      <4>2. ~ holds([call EXCEPT !.at = IF call.fresh = {} THEN "search" ELSE "mark",
                             !.kept = kept, !.rest = call.fresh])
        BY <1>0 DEF ScanCall
      <4>3. QED
        BY <4>1, <4>2
    <3>3. CASE MarkSeen(c)
      <4> DEFINE i == Newest(call.rest)
                 new == [call EXCEPT !.fresh = {}, !.rest = @ \ {i},
                                     !.at = IF call.rest = {i} THEN "search" ELSE "mark"]
      <4>1. ScanGoes(c, new)
        BY <3>3 DEF MarkSeen
      <4>2. ~ holds(new)
        BY <1>0 DEF ScanCall
      <4>3. QED
        BY <4>1, <4>2
    <3>4. CASE SearchWeb(c)
      <4>1. PICK found \in SUBSET (Item \ call.known) :
              ScanGoes(c, [call EXCEPT !.kept = call.kept \cup found,
                             !.rest = call.kept \cup found, !.known = {},
                             !.at = IF call.kept \cup found = {} THEN "trim" ELSE "keep"])
        BY <3>4 DEF SearchWeb
      <4>2. ~ holds([call EXCEPT !.kept = call.kept \cup found,
                             !.rest = call.kept \cup found, !.known = {},
                             !.at = IF call.kept \cup found = {} THEN "trim" ELSE "keep"])
        BY <1>0 DEF ScanCall
      <4>3. QED
        BY <4>1, <4>2
    <3>5. CASE KeepSignal(c)
      <4>1. PICK i \in call.rest :
              ScanGoes(c, [call EXCEPT !.rest = @ \ {i},
                             !.at = IF call.rest = {i} THEN "trim" ELSE "keep"])
        BY <3>5 DEF KeepSignal
      <4>2. ~ holds([call EXCEPT !.rest = @ \ {i},
                             !.at = IF call.rest = {i} THEN "trim" ELSE "keep"])
        BY <1>0 DEF ScanCall
      <4>3. QED
        BY <4>1, <4>2
    <3>6. CASE ListSignals(c)
      <4>1. ScanGoes(c, [call EXCEPT !.at = "remove", !.rest = Oldest(call)])
        BY <3>6 DEF ListSignals
      <4>2. ~ holds([call EXCEPT !.at = "remove", !.rest = Oldest(call)])
        BY <1>0 DEF ScanCall
      <4>3. QED
        BY <4>1, <4>2
    <3>7. CASE RemoveOldSignal(c)
      <4>1. ScanGoes(c, [call EXCEPT !.rest = @ \ {Newest(call.rest)}]) /\ call.at = "remove"
        BY <3>7 DEF RemoveOldSignal
      <4>2. ~ holds([call EXCEPT !.rest = @ \ {Newest(call.rest)}])
        BY <1>0, <4>1 DEF ScanCall
      <4>3. QED
        BY <4>1, <4>2
    <3>8. CASE ForgetOldSeen(c)
      <4> DEFINE at == IF call.kept # {} \/ ~ landscape THEN "landscape" ELSE "reload"
      <4>1. ScanGoes(c, [call EXCEPT !.at = at])
        BY <3>8 DEF ForgetOldSeen
      <4>2. QED
        BY <1>7, <4>1
    <3>9. CASE RefreshLandscape(c)
      <4>1. PICK at \in {"lessons", "reload"} : ScanGoes(c, [call EXCEPT !.at = at])
        BY <3>9 DEF RefreshLandscape
      <4>2. QED
        BY <1>7, <4>1
    <3>10. CASE LessonsProposed(c)
      <4>1. ScanGoes(c, [call EXCEPT !.at = "reload"])
        BY <3>10 DEF LessonsProposed
      <4>2. QED
        BY <1>7, <4>1
    <3>11. QED
      BY <1>14, <3>1, <3>2, <3>3, <3>4, <3>5, <3>6, <3>7, <3>8, <3>9, <3>10
  <2> HIDE DEF holds
  <2>3. QED
    BY <1>5, <2>1, <2>2
<1>15. CASE Reload(c)
  <2> DEFINE new == [call EXCEPT !.at = "save", !.ws = Current(call.ws)]
  <2>1. /\ ScanGoes(c, new) /\ late' = IF meta.there THEN late \ {c} ELSE late \cup {c}
        /\ UNCHANGED <<meta, told, clobbered>>
    BY <1>15 DEF Reload
  <2>2. c \notin late' => new.ws.settings = meta.settings
    BY <1>0, <2>1 DEF Current, ScanCall
  <2> HIDE DEF new, holds
  <2>3. QED
    BY <1>3, <2>1, <2>2
<1>16. CASE SaveScan(c)
  <2>1. /\ SaveMeta(c, call.ws, FALSE) /\ ScanGoes(c, NoScan)
        /\ UNCHANGED told /\ holds(call)
    BY <1>16 DEF SaveScan
  <2> HIDE DEF holds
  <2>2. QED
    BY <1>0, <1>4, <1>6, <1>8, <2>1
<1>17. CASE ScanFails(c)
  <2>1. ScanGoes(c, NoScan) /\ late' = late \ {c} /\ UNCHANGED <<meta, told, clobbered>>
    BY <1>17 DEF ScanFails
  <2> HIDE DEF holds
  <2>2. QED
    BY <1>3, <1>8, <2>1
<1>18. QED
  BY <1>10, <1>11, <1>12, <1>13, <1>14, <1>15, <1>16, <1>17 DEF ScanStep

\* Every step of a tab keeps the settings known.
LEMMA SettingsStep ==
  ASSUME Types, SettingsKnown, [Next]_vars
  PROVE  SettingsKnown'
<1>0. ScanTypeOK
  BY DEF Types, TypeOK
<1>1. ASSUME UNCHANGED <<scans, late, told, clobbered>>, meta'.settings = meta.settings
      PROVE  SettingsKnown'
  BY <1>1 DEF SettingsKnown, Holding
<1>2. ASSUME UNCHANGED scanVars
      PROVE  SettingsKnown'
  BY <1>1, <1>2 DEF scanVars
<1>3. ASSUME NEW c \in Tab, Step(c)
      PROVE  SettingsKnown'
  <2>1. CASE ScanStep(c)
    BY <1>0, <2>1, SettingsScanStep
  <2>2. CASE EraseLessons(c) \/ EraseHorizon(c)
    BY <1>1, <2>2 DEF EraseLessons, EraseHorizon, MetaVars
  <2>3. CASE EraseMeta(c)
    <3>1. meta'.settings = meta.settings
      BY <1>0, <2>3 DEF EraseMeta, ScanTypeOK, Workspace
    <3>2. QED
      BY <1>1, <2>3, <3>1 DEF EraseMeta
  <2>4. QED
    BY <1>2, <1>3, <2>1, <2>2, <2>3
       DEF Step, BeginErase, ListToErase, EraseRecord, EraseFails, FilesFail
<1>4. QED
  BY <1>2, <1>3 DEF Next, vars

\* The settings the chair saved last are the workspace's, however scans overlap with
\* them and with each other, unless a caller has written a copy of the workspace
\* that another write had made out of date (horizon.ts:329-335, 438-443).
THEOREM SettingsHold == Spec => []SettingsSurvive
<1>1. Init => SettingsKnown
  BY DEF Init, ScanInit, SettingsKnown, Holding, NoScan
<1>2. SettingsKnown => SettingsSurvive
  BY DEF SettingsKnown, SettingsSurvive
<1>3. Types /\ SettingsKnown /\ [Next]_vars => SettingsKnown'
  BY SettingsStep
<1>4. QED
  BY <1>1, <1>2, <1>3, WorkspaceTypes, PTL DEF Spec

-----------------------------------------------------------------------------
(* The agents' lessons.  The rows alone do not tell: what a handler has in *)
(* hand becomes a lesson later, and its id must still be its own then.     *)

\* What is to become active, now or later, has been said by the chair.
Said(l) == l.status = "active" => <<l.agent, l.text>> \in chairSaid

\* A call holds what the chair said, and ids of lessons that were made; the lesson
\* it is going to put is not there.
CallKnown(call) ==
  /\ \A o \in call.todo : Said(o)
  /\ call.at = "put" => /\ Said(call.row) /\ call.id <= made
                        /\ lessons[call.id].status = "absent"
  /\ call.at = "review" => call.id <= made
  /\ call.at # "retire" => call.old = NoLessons
  /\ call.at = "retire" => Stored(call.old) # {}
  /\ \A i \in Stored(call.old) : i <= made

\* The lesson one call is going to put is in no other's hands.
Apart(call, other) ==
  call.at = "put" => /\ other.at \in {"put", "review"} => other.id # call.id
                     /\ call.id \notin Stored(other.old)

LessonsKnown ==
  /\ \A i \in LessonId : Said(lessons[i]) /\ (i > made => lessons[i].status = "absent")
  /\ \A c \in Tab : CallKnown(lessonCalls[c])
  /\ \A c, d \in Tab : c # d => Apart(lessonCalls[c], lessonCalls[d])

\* One call goes on; rows change to what the chair said, and not where another is
\* going to put a lesson.
LEMMA LessonFrame ==
  ASSUME LessonsTypeOK, LessonsTypeOK', LessonsKnown, NEW c \in Tab, NEW new,
         lessonCalls' = [lessonCalls EXCEPT ![c] = new],
         made <= made', chairSaid \subseteq chairSaid',
         \A i \in LessonId :
           \/ lessons'[i] = lessons[i]
           \/ /\ Said(lessons[i])' /\ i <= made'
              /\ \A d \in Tab \ {c} : lessonCalls[d].at = "put" => lessonCalls[d].id # i,
         CallKnown(new)',
         \A d \in Tab \ {c} : Apart(new, lessonCalls[d]) /\ Apart(lessonCalls[d], new)
  PROVE  LessonsKnown'
<1>0. /\ made \in Nat /\ made' \in Nat /\ LessonId \subseteq Nat
      /\ lessonCalls \in [Tab -> LessonCall]
      /\ \A d \in Tab : lessonCalls[d].id \in LessonId
  BY LessonsAssumption DEF LessonsTypeOK, LessonId, LessonCall
<1>1. /\ lessonCalls'[c] = new
      /\ \A d \in Tab \ {c} : lessonCalls'[d] = lessonCalls[d]
  BY <1>0
<1>2. \A l : Said(l) => Said(l)'
  BY DEF Said
<1>3. ASSUME NEW i \in LessonId
      PROVE  Said(lessons[i])' /\ (i > made' => lessons'[i].status = "absent")
  <2>1. CASE lessons'[i] = lessons[i]
    <3>1. Said(lessons[i]) /\ (i > made => lessons[i].status = "absent")
      BY DEF LessonsKnown
    <3>2. Said(lessons[i])'
      BY <2>1, <3>1 DEF Said
    <3>3. i > made' => i > made
      BY <1>0
    <3>4. QED
      BY <2>1, <3>1, <3>2, <3>3
  <2>2. CASE lessons'[i] # lessons[i]
    BY <1>0, <2>2
  <2>3. QED
    BY <2>1, <2>2
<1>4. ASSUME NEW d \in Tab
      PROVE  CallKnown(lessonCalls[d])'
  <2>1. CASE d = c
    BY <1>1, <2>1 DEF CallKnown, Said, Stored
  <2>2. CASE d # c
    <3> DEFINE call == lessonCalls[d]
    <3>1. CallKnown(call) /\ lessonCalls'[d] = call
      BY <1>1, <2>2 DEF LessonsKnown
    <3>2. /\ call.id \in LessonId /\ \A i \in Stored(call.old) : i \in Nat
      BY <1>0 DEF Stored
    <3>3. \A n \in Nat : n <= made => n <= made'
      BY <1>0
    <3>4. call.at = "put" => lessons'[call.id].status = "absent"
      BY <2>2, <3>1, <3>2 DEF CallKnown
    <3>5. /\ \A o \in call.todo : Said(o)'
          /\ call.at = "put" => Said(call.row)
      BY <1>2, <3>1 DEF CallKnown
    <3>6. call.at = "put" => <<call.row.agent, call.row.text>> \in chairSaid'
                             \/ call.row.status # "active"
      BY <3>5 DEF Said
    <3>7. \A o \in call.todo : o.status = "active" => <<o.agent, o.text>> \in chairSaid'
      BY <3>5 DEF Said
    <3> HIDE DEF call
    <3>8. /\ \A o \in call.todo : Said(o)'
          /\ call.at = "put" => /\ <<call.row.agent, call.row.text>> \in chairSaid'
                                   \/ call.row.status # "active"
                                /\ call.id <= made'
                                /\ lessons'[call.id].status = "absent"
          /\ call.at = "review" => call.id <= made'
          /\ call.at # "retire" => call.old = NoLessons
          /\ call.at = "retire" => Stored(call.old) # {}
          /\ \A i \in Stored(call.old) : i <= made'
      BY <1>0, <3>1, <3>2, <3>3, <3>4, <3>5, <3>6 DEF CallKnown
    <3>9. QED
      BY <3>1, <3>7, <3>8 DEF CallKnown, Said, Stored
  <2>3. QED
    BY <2>1, <2>2
<1>5. ASSUME NEW d \in Tab, NEW e \in Tab, d # e
      PROVE  Apart(lessonCalls[d], lessonCalls[e])'
  <2>1. Apart(lessonCalls'[d], lessonCalls'[e])
    BY <1>1, <1>5 DEF LessonsKnown
  <2>2. QED
    BY <2>1 DEF Apart, Stored
<1>6. QED
  BY <1>3, <1>4, <1>5 DEF LessonsKnown

\* A call that begins to add offers, or ends.
LEMMA AddingKnown ==
  ASSUME LessonsTypeOK, LessonsTypeOK', LessonsKnown, NEW c \in Tab,
         NEW offers \in SUBSET Offer, NEW call,
         lessonCalls' = [lessonCalls EXCEPT ![c] = NextOffer(call, offers)],
         UNCHANGED <<lessons, made>>, chairSaid \subseteq chairSaid',
         \A o \in offers : Said(o)'
  PROVE  LessonsKnown'
<1>1. PICK new : new = NextOffer(call, offers)
  OBVIOUS
<1>2. /\ new.todo = offers /\ new.at \in {"idle", "check"} /\ new.old = NoLessons
      /\ Stored(new.old) = {}
  BY <1>1, OffersNext, IdleLessonCall DEF Stored, NoLessons
<1>3. lessonCalls' = [lessonCalls EXCEPT ![c] = new]
  BY <1>1
<1>4. CallKnown(new)'
  BY <1>2 DEF CallKnown, Said, Stored
<1>5. \A d \in Tab \ {c} : Apart(new, lessonCalls[d]) /\ Apart(lessonCalls[d], new)
  BY <1>2 DEF Apart
<1>6. made <= made'
  BY LessonsAssumption DEF LessonsTypeOK
<1>7. QED
  BY <1>3, <1>4, <1>5, <1>6, LessonFrame

\* What the chair said stays said.
LEMMA SaidMore ==
  ASSUME chairSaid \subseteq chairSaid', NEW l, Said(l)
  PROVE  Said(l)'
BY DEF Said

\* A step on lessons keeps them known, and makes no retired one active unasked.
LEMMA LessonsStep ==
  ASSUME LessonsTypeOK, LessonsTypeOK', LessonsKnown, NEW c \in Tab, LessonStep(c)
  PROVE  LessonsKnown' /\ RetiredStaysRetired
<1>0. /\ lessons \in [LessonId -> Lesson] /\ made \in 0..MaxLessons
      /\ made \in Nat /\ made' \in Nat /\ LessonId \subseteq Nat
      /\ lessonCalls \in [Tab -> LessonCall] /\ lessonCalls[c] \in LessonCall
      /\ lessonCalls' \in [Tab -> LessonCall]
  BY LessonsAssumption DEF LessonsTypeOK, LessonId
<1> DEFINE call == lessonCalls[c]
<1>00. /\ call.todo \subseteq Offer /\ call.id \in LessonId /\ call.row \in Lesson
       /\ call.old \in [LessonId -> Lesson]
  BY <1>0 DEF LessonCall
<1>known. CallKnown(call) /\ \A d \in Tab \ {c} : /\ Apart(call, lessonCalls[d])
                                                  /\ Apart(lessonCalls[d], call)
                                                  /\ CallKnown(lessonCalls[d])
  BY DEF LessonsKnown
<1>same. ASSUME UNCHANGED lessons PROVE RetiredStaysRetired
  BY <1>same DEF RetiredStaysRetired
<1>done. CallKnown(NoLessonCall)'
  BY IdleLessonCall DEF CallKnown, Stored, NoLessons
<1>apart. \A d \in Tab \ {c} : /\ Apart(NoLessonCall, lessonCalls[d])
                               /\ Apart(lessonCalls[d], NoLessonCall)
  BY IdleLessonCall DEF Apart, Stored, NoLessons
<1> HIDE DEF call
<1>1. ASSUME NEW offers \in SUBSET Offer, BeginAdding(c, offers), chairSaid \subseteq chairSaid',
             \A o \in offers : Said(o)'
      PROVE  LessonsKnown' /\ RetiredStaysRetired
  BY <1>1, <1>same, AddingKnown DEF BeginAdding
<1>2. ASSUME NEW a \in Agent, NEW t \in Text, TeachLesson(c, a, t)
      PROVE  LessonsKnown' /\ RetiredStaysRetired
  <2>1. {[agent |-> a, text |-> t, status |-> "active"]} \in SUBSET Offer
    BY DEF Offer
  <2>2. QED
    BY <1>1, <1>2, <2>1 DEF TeachLesson, Said
<1>3. ASSUME NEW as \in SUBSET Agent, NEW t \in Text, TeachSignal(c, as, t)
      PROVE  LessonsKnown' /\ RetiredStaysRetired
  <2>1. [agent : as, text : {t}, status : {"active"}] \in SUBSET Offer
    BY DEF Offer
  <2>2. QED
    BY <1>1, <1>3, <2>1 DEF TeachSignal, Said
<1>4. ASSUME NEW a \in Agent, NEW ts \in SUBSET Text, Study(c, a, ts)
      PROVE  LessonsKnown' /\ RetiredStaysRetired
  <2>1. [agent : {a}, text : ts, status : {"proposed"}] \in SUBSET Offer
    BY DEF Offer
  <2>2. QED
    BY <1>1, <1>4, <2>1 DEF Study, Said
<1>5. ASSUME NEW i \in LessonId, BeginReview(c, i)
      PROVE  LessonsKnown' /\ RetiredStaysRetired
  <2>1. PICK new : new = [NoLessonCall EXCEPT !.at = "review", !.id = i, !.row = lessons[i]]
    OBVIOUS
  <2>2. /\ new.at = "review" /\ new.id = i /\ new.todo = {} /\ new.old = NoLessons
    BY <2>1, IdleLessonCall DEF LessonCall
  <2>3. /\ lessonCalls' = [lessonCalls EXCEPT ![c] = new]
        /\ UNCHANGED <<lessons, made, chairSaid, slack>> /\ i \in Stored(lessons)
    BY <1>5, <2>1 DEF BeginReview
  <2>4. i <= made
    BY <1>0, <2>3 DEF Stored, LessonsKnown
  <2>5. CallKnown(new)'
    BY <2>2, <2>3, <2>4 DEF CallKnown, Stored, NoLessons, NoLesson
  <2>6. \A d \in Tab \ {c} : Apart(new, lessonCalls[d]) /\ Apart(lessonCalls[d], new)
    <3>1. lessons[i].status # "absent"
      BY <2>3 DEF Stored
    <3>2. \A d \in Tab \ {c} : lessonCalls[d].at = "put" => lessonCalls[d].id # i
      BY <1>known, <3>1 DEF CallKnown
    <3>3. Stored(new.old) = {}
      BY <2>2, IdleLessonCall DEF Stored, NoLessons
    <3>4. QED
      BY <2>2, <3>2, <3>3 DEF Apart
  <2>7. LessonsKnown'
    <3>1. made <= made' /\ chairSaid \subseteq chairSaid'
      BY <1>0, <2>3
    <3>2. \A k \in LessonId : lessons'[k] = lessons[k]
      BY <2>3
    <3>3. QED
      BY <2>3, <2>5, <2>6, <3>1, <3>2, LessonFrame
  <2>8. QED
    BY <1>same, <2>3, <2>7
<1>6. CASE WriteReview(c)
  <2>1. /\ call.at = "review" /\ UNCHANGED made
        /\ lessonCalls' = [lessonCalls EXCEPT ![c] = NoLessonCall]
    BY <1>6 DEF WriteReview, call
  <2>2. PICK s \in {"active", "retired"}, t \in Text :
          /\ lessons' = [lessons EXCEPT ![call.id] =
                           [call.row EXCEPT !.status = s, !.text = t]]
          /\ IF s = "active"
             THEN /\ chairSaid' = chairSaid \cup {<<call.row.agent, t>>}
                  /\ slack' = [slack EXCEPT ![call.row.agent] = @ + 1]
             ELSE UNCHANGED <<chairSaid, slack>>
    BY <1>6 DEF WriteReview, call
  <2>i. PICK i \in LessonId : i = call.id
    BY <1>00
  <2>3. /\ lessons'[i] = [call.row EXCEPT !.status = s, !.text = t]
        /\ \A k \in LessonId \ {i} : lessons'[k] = lessons[k]
    BY <1>0, <2>i, <2>2
  <2>4. /\ lessons'[i].status = s /\ lessons'[i].text = t
        /\ lessons'[i].agent = call.row.agent
    BY <1>00, <2>3 DEF Lesson
  <2>5. chairSaid \subseteq chairSaid' /\ Said(lessons[i])'
    BY <2>2, <2>4 DEF Said
  <2>6. /\ i <= made'
        /\ \A d \in Tab \ {c} : lessonCalls[d].at = "put" => lessonCalls[d].id # i
    BY <1>known, <2>i, <2>1 DEF CallKnown, Apart
  <2>7. \A k \in LessonId :
           \/ lessons'[k] = lessons[k]
           \/ /\ Said(lessons[k])' /\ k <= made'
              /\ \A d \in Tab \ {c} : lessonCalls[d].at = "put" => lessonCalls[d].id # k
    BY <2>3, <2>5, <2>6
  <2>8. LessonsKnown'
    <3>1. made <= made'
      BY <1>0, <2>1
    <3>2. QED
      BY <1>done, <1>apart, <2>1, <2>5, <2>7, <3>1, LessonFrame
  <2>9. RetiredStaysRetired
    BY <2>i, <2>1, <2>3 DEF RetiredStaysRetired, call
  <2>10. QED
    BY <2>8, <2>9
<1>7. CASE CheckOffer(c)
  <2>1. PICK o \in call.todo :
          IF SameLesson(o)
          THEN /\ lessonCalls' =
                    [lessonCalls EXCEPT ![c] = NextOffer(lessonCalls[c], call.todo \ {o})]
               /\ UNCHANGED made
          ELSE /\ made < MaxLessons
               /\ made' = made + 1
               /\ lessonCalls' = [lessonCalls EXCEPT ![c] =
                    [call EXCEPT !.at = "put", !.todo = @ \ {o}, !.id = made + 1,
                       !.row = [agent |-> o.agent, text |-> o.text,
                                status |-> o.status]]]
    BY <1>7 DEF CheckOffer, call
  <2>2. UNCHANGED <<lessons, chairSaid>> /\ call.at = "check"
    BY <1>7 DEF CheckOffer, call
  <2>3. \A x \in call.todo : Said(x) /\ Said(x)'
    BY <1>known, <2>2 DEF CallKnown, Said
  <2>4. CASE SameLesson(o)
    <3>1. LessonsKnown'
      BY <1>00, <2>1, <2>2, <2>3, <2>4, AddingKnown
    <3>2. QED
      BY <1>same, <2>2, <3>1
  <2>5. CASE ~ SameLesson(o)
    <3>1. PICK row : row = [agent |-> o.agent, text |-> o.text, status |-> o.status]
      OBVIOUS
    <3>2. PICK new : new = [call EXCEPT !.at = "put", !.todo = @ \ {o}, !.id = made + 1,
                                        !.row = row]
      OBVIOUS
    <3>3. /\ new.at = "put" /\ new.id = made + 1 /\ new.row = row
          /\ new.todo = call.todo \ {o} /\ new.old = call.old
      BY <1>0, <3>2 DEF LessonCall, call
    <3>4. /\ made' = made + 1 /\ made < MaxLessons
          /\ lessonCalls' = [lessonCalls EXCEPT ![c] = new]
      BY <2>1, <2>5, <3>1, <3>2
    <3>5. new.old = NoLessons /\ Stored(new.old) = {}
      BY <1>known, <2>2, <3>3 DEF CallKnown, Stored, NoLessons, NoLesson
    <3>6. row.status = "active" => <<row.agent, row.text>> \in chairSaid'
      <4>1. o.status = "active" => <<o.agent, o.text>> \in chairSaid'
        BY <2>1, <2>2, <2>3 DEF Said
      <4>2. row.status = o.status /\ row.agent = o.agent /\ row.text = o.text
        BY <3>1
      <4>3. QED
        BY <4>1, <4>2
    <3>7. made + 1 \in LessonId /\ made + 1 > made
      BY <1>0, <3>4, LessonsAssumption DEF LessonId
    <3>8. lessons'[made + 1].status = "absent"
      BY <2>2, <3>7 DEF LessonsKnown
    <3>9. CallKnown(new)'
      BY <1>0, <2>3, <3>3, <3>4, <3>5, <3>6, <3>8 DEF CallKnown, Said, Stored
    <3>10. ASSUME NEW d \in Tab \ {c}
           PROVE  Apart(new, lessonCalls[d]) /\ Apart(lessonCalls[d], new)
      <4>1. /\ lessonCalls[d].at \in {"put", "review"} => lessonCalls[d].id <= made
            /\ \A i \in Stored(lessonCalls[d].old) : i <= made
        BY <1>known DEF CallKnown
      <4>2. lessonCalls[d].id \in Nat
        BY <1>0 DEF LessonCall
      <4>3. QED
        BY <1>0, <3>3, <3>5, <4>1, <4>2 DEF Apart
    <3>11. made <= made'
      BY <1>0, <3>4
    <3>12. LessonsKnown'
      BY <2>2, <3>4, <3>9, <3>10, <3>11, LessonFrame
    <3>13. QED
      BY <1>same, <2>2, <3>12
  <2>6. QED
    BY <2>4, <2>5
<1>8. CASE PutLesson(c)
  <2>1. /\ call.at = "put" /\ lessons' = [lessons EXCEPT ![call.id] = call.row]
        /\ lessonCalls' = [lessonCalls EXCEPT ![c].at = "enforce"]
        /\ UNCHANGED <<made, chairSaid>>
    BY <1>8 DEF PutLesson, call
  <2>2. PICK new : new = [call EXCEPT !.at = "enforce"]
    OBVIOUS
  <2>3. /\ lessonCalls' = [lessonCalls EXCEPT ![c] = new]
        /\ new.at = "enforce" /\ new.todo = call.todo /\ new.old = call.old
    BY <1>0, <2>1, <2>2 DEF LessonCall, call
  <2>4. new.old = NoLessons /\ Stored(new.old) = {}
    BY <1>known, <2>1, <2>3 DEF CallKnown, Stored, NoLessons, NoLesson
  <2>5. CallKnown(new)'
    BY <1>known, <2>1, <2>3, <2>4 DEF CallKnown, Said, Stored
  <2>6. \A d \in Tab \ {c} : Apart(new, lessonCalls[d]) /\ Apart(lessonCalls[d], new)
    BY <2>3, <2>4 DEF Apart
  <2>i. PICK i \in LessonId : i = call.id
    BY <1>00
  <2>7. /\ lessons'[i] = call.row
        /\ \A k \in LessonId \ {i} : lessons'[k] = lessons[k]
    BY <1>0, <2>i, <2>1
  <2>8. /\ Said(lessons[i])' /\ i <= made' /\ lessons[i].status = "absent"
        /\ \A d \in Tab \ {c} : lessonCalls[d].at = "put" => lessonCalls[d].id # i
    <3>1. CallKnown(call) /\ Said(call.row)
      BY <1>known, <2>1 DEF CallKnown
    <3>2. /\ call.id <= made /\ lessons[call.id].status = "absent"
      BY <2>1, <3>1 DEF CallKnown
    <3>3. \A d \in Tab \ {c} : lessonCalls[d].at = "put" => lessonCalls[d].id # call.id
      BY <1>known, <2>1 DEF Apart
    <3>4. Said(lessons[i])'
      BY <2>1, <2>7, <3>1 DEF Said
    <3>5. QED
      BY <2>1, <2>i, <3>2, <3>3, <3>4
  <2>9. \A k \in LessonId :
           \/ lessons'[k] = lessons[k]
           \/ /\ Said(lessons[k])' /\ k <= made'
              /\ \A d \in Tab \ {c} : lessonCalls[d].at = "put" => lessonCalls[d].id # k
    BY <2>7, <2>8
  <2>10. LessonsKnown'
    <3>1. made <= made' /\ chairSaid \subseteq chairSaid'
      BY <1>0, <2>1
    <3>2. QED
      BY <2>3, <2>5, <2>6, <2>9, <3>1, LessonFrame
  <2>11. RetiredStaysRetired
    BY <2>7, <2>8 DEF RetiredStaysRetired
  <2>12. QED
    BY <2>10, <2>11
<1>9. CASE ListActive(c)
  <2>1. PICK old : old = [i \in LessonId |->
                            IF i \in BeyondLimit(lessons, call.row.agent) THEN lessons[i]
                            ELSE NoLesson]
    OBVIOUS
  <2>2. /\ lessonCalls' = [lessonCalls EXCEPT ![c] =
             IF Stored(old) = {} THEN NextOffer(call, call.todo)
             ELSE [call EXCEPT !.at = "retire", !.old = old]]
        /\ UNCHANGED <<lessons, made, chairSaid>>
    BY <1>9, <2>1 DEF ListActive, call
  <2>3. Stored(old) \subseteq Stored(lessons)
    BY <2>1, IdleLessonCall DEF Stored
  <2>4. \A o \in call.todo : Said(o)'
    BY <1>known, <2>2 DEF CallKnown, Said
  <2>5. CASE Stored(old) = {}
    <3>1. lessonCalls' = [lessonCalls EXCEPT ![c] = NextOffer(call, call.todo)]
      BY <2>2, <2>5
    <3>2. LessonsKnown'
      BY <1>00, <2>2, <2>4, <3>1, AddingKnown
    <3>3. QED
      BY <1>same, <2>2, <3>2
  <2>6. CASE Stored(old) # {}
    <3>1. PICK new : new = [call EXCEPT !.at = "retire", !.old = old]
      OBVIOUS
    <3>2. /\ lessonCalls' = [lessonCalls EXCEPT ![c] = new]
          /\ new.at = "retire" /\ new.todo = call.todo /\ new.old = old
      BY <1>0, <2>2, <2>6, <3>1 DEF LessonCall, call
    <3>3. \A i \in Stored(old) : i <= made'
      BY <1>0, <2>2, <2>3 DEF Stored, LessonsKnown
    <3>4. CallKnown(new)'
      BY <2>4, <2>6, <3>2, <3>3 DEF CallKnown, Said, Stored
    <3>5. \A d \in Tab \ {c} : Apart(new, lessonCalls[d]) /\ Apart(lessonCalls[d], new)
      BY <1>known, <2>3, <3>2 DEF Apart, CallKnown, Stored
    <3>6. LessonsKnown'
      <4>1. made <= made' /\ chairSaid \subseteq chairSaid'
        BY <1>0, <2>2
      <4>2. \A k \in LessonId : lessons'[k] = lessons[k]
        BY <2>2
      <4>3. QED
        BY <3>2, <3>4, <3>5, <4>1, <4>2, LessonFrame
    <3>7. QED
      BY <1>same, <2>2, <3>6
  <2>7. QED
    BY <2>5, <2>6
<1>10. CASE RetireOldest(c)
  <2>1. PICK i : i = CHOOSE j \in Stored(call.old) : \A k \in Stored(call.old) : k <= j
    OBVIOUS
  <2>2. PICK rest : rest = [call.old EXCEPT ![i] = NoLesson]
    OBVIOUS
  <2>3. /\ call.at = "retire"
        /\ lessons' = [lessons EXCEPT ![i] = Retired(call.old[i])]
        /\ lessonCalls' = [lessonCalls EXCEPT ![c] =
             IF Stored(rest) = {} THEN NextOffer(call, call.todo)
             ELSE [call EXCEPT !.old = rest]]
        /\ UNCHANGED <<made, chairSaid>>
    BY <1>10, <2>1, <2>2 DEF RetireOldest, call
  <2>4. i \in Stored(call.old) /\ i \in LessonId
    <3>1. Stored(call.old) # {} /\ Stored(call.old) \subseteq Nat
      <4>1. Stored(call.old) # {}
        BY <1>known, <2>3 DEF CallKnown
      <4>2. QED
        BY <1>0, <4>1 DEF Stored
    <3>2. IsFiniteSet(Stored(call.old))
      <4>1. IsFiniteSet(LessonId) /\ Stored(call.old) \subseteq LessonId
        BY LessonsAssumption, FS_Interval DEF LessonId, Stored
      <4>2. QED
        BY <4>1, FS_Subset
    <3>3. \E j \in Stored(call.old) : \A k \in Stored(call.old) : k <= j
      BY <3>1, <3>2, GreatestNumber
    <3>4. QED
      BY <2>1, <3>3, Zenon DEF Stored
  <2>5. /\ lessons'[i].status = "retired"
        /\ \A k \in LessonId \ {i} : lessons'[k] = lessons[k]
    BY <1>0, <1>00, <2>3, <2>4, RetiredLesson
  <2>6. RetiredStaysRetired
    BY <2>5 DEF RetiredStaysRetired
  <2>7. \A k \in LessonId :
           \/ lessons'[k] = lessons[k]
           \/ /\ Said(lessons[k])' /\ k <= made'
              /\ \A d \in Tab \ {c} : lessonCalls[d].at = "put" => lessonCalls[d].id # k
    BY <1>known, <2>3, <2>4, <2>5 DEF Said, CallKnown, Apart
  <2>8. \A o \in call.todo : Said(o)'
    BY <1>known, <2>3 DEF CallKnown, Said
  <2>9. Stored(rest) \subseteq Stored(call.old)
    BY <1>00, <2>2, <2>4, IdleLessonCall DEF Stored
  <2>10. PICK new : /\ lessonCalls' = [lessonCalls EXCEPT ![c] = new]
                    /\ new.todo = call.todo /\ new.at \in {"idle", "check", "retire"}
                    /\ new.at # "retire" => new.old = NoLessons
                    /\ new.at = "retire" => new.old = rest /\ Stored(rest) # {}
    <3>1. CASE Stored(rest) = {}
      BY <1>00, <2>3, <3>1, OffersNext
    <3>2. CASE Stored(rest) # {}
      <4>1. PICK new : new = [call EXCEPT !.old = rest]
        OBVIOUS
      <4>2. new.at = "retire" /\ new.old = rest /\ new.todo = call.todo
        BY <1>0, <2>3, <4>1 DEF LessonCall, call
      <4>3. QED
        BY <2>3, <3>2, <4>1, <4>2
    <3>3. QED
      BY <3>1, <3>2
  <2>11. \A k \in Stored(new.old) : k \in Stored(call.old) /\ k <= made'
    BY <1>known, <2>3, <2>9, <2>10 DEF CallKnown, Stored, NoLessons, NoLesson
  <2>12. CallKnown(new)'
    BY <2>8, <2>10, <2>11 DEF CallKnown, Said, Stored
  <2>13. \A d \in Tab \ {c} : Apart(new, lessonCalls[d]) /\ Apart(lessonCalls[d], new)
    BY <1>known, <2>10, <2>11 DEF Apart
  <2>14. LessonsKnown'
    <3>1. made <= made' /\ chairSaid \subseteq chairSaid'
      BY <1>0, <2>3
    <3>2. QED
      BY <2>7, <2>10, <2>12, <2>13, <3>1, LessonFrame
  <2>15. QED
    BY <2>6, <2>14
<1>11. CASE LessonCallFails(c)
  <2>1. /\ lessonCalls' = [lessonCalls EXCEPT ![c] = NoLessonCall]
        /\ UNCHANGED <<lessons, made, chairSaid>>
    BY <1>11 DEF LessonCallFails
  <2>2. LessonsKnown'
    <3>1. made <= made' /\ chairSaid \subseteq chairSaid'
      BY <1>0, <2>1
    <3>2. \A k \in LessonId : lessons'[k] = lessons[k]
      BY <2>1
    <3>3. QED
      BY <1>done, <1>apart, <2>1, <3>1, <3>2, LessonFrame
  <2>3. QED
    BY <1>same, <2>1, <2>2
<1>12. QED
  BY <1>2, <1>3, <1>4, <1>5, <1>6, <1>7, <1>8, <1>9, <1>10, <1>11 DEF LessonStep

\* What the model proposes on a signal or an outcome is not active.
LEMMA ProposedKnown ==
  ASSUME LessonsTypeOK, LessonsTypeOK', LessonsKnown, NEW c \in Tab, NEW offers \in Proposals,
         lessonCalls' = [lessonCalls EXCEPT ![c] = NextOffer(lessonCalls[c], offers)],
         UNCHANGED <<lessons, made, chairSaid>>
  PROVE  LessonsKnown'
<1>1. offers \in SUBSET Offer /\ \A o \in offers : o.status = "proposed"
  BY ProposalsAreOffers
<1>2. \A o \in offers : Said(o)'
  BY <1>1 DEF Said
<1>3. chairSaid \subseteq chairSaid'
  OBVIOUS
<1>4. QED
  BY <1>1, <1>2, <1>3, AddingKnown

\* Where no lesson changes they stay known.
LEMMA LessonsSame ==
  ASSUME LessonsKnown, UNCHANGED <<lessons, made, lessonCalls, chairSaid>>
  PROVE  LessonsKnown' /\ RetiredStaysRetired
BY DEF LessonsKnown, CallKnown, Said, Apart, Stored, RetiredStaysRetired

\* Every step of a tab keeps the lessons known, and makes no retired one active unasked.
LEMMA MemoryStep ==
  ASSUME Types, Types', LessonsKnown, NEW c \in Tab, Step(c)
  PROVE  LessonsKnown' /\ RetiredStaysRetired
<1>0. LessonsTypeOK /\ LessonsTypeOK'
  BY DEF Types, TypeOK
<1>1. CASE LessonStep(c)
  BY <1>0, <1>1, LessonsStep
<1>2. ASSUME UNCHANGED lessonVars
      PROVE  LessonsKnown' /\ RetiredStaysRetired
  BY <1>2, LessonsSame DEF lessonVars
<1>3. CASE RecordStep(c)
  <2>1. CASE Reflect(c)
    <3>1. PICK offers \in Proposals :
            lessonCalls' = [lessonCalls EXCEPT ![c] = NextOffer(lessonCalls[c], offers)]
      BY <2>1 DEF Reflect
    <3>2. UNCHANGED <<lessons, made, chairSaid>>
      BY <2>1 DEF Reflect
    <3>3. QED
      BY <1>0, <3>1, <3>2, ProposedKnown DEF RetiredStaysRetired
  <2>2. CASE UNCHANGED lessonVars
    BY <1>2, <2>2
  <2>3. QED
    BY <1>3, <2>1, <2>2
       DEF RecordStep, LogDecision, RecordQuestion, BeginEdit, BeginDrop, BeginOutcome,
           ReadDecision, SaveEdit, DropDecision, SaveOutcome, LogEvent, BeginUnlog,
           UnlogEvent, BeginPublish, SaveCheckpoint, RecordCallFails, Others
<1>4. CASE ScanStep(c)
  <2>1. CASE RefreshLandscape(c)
    <3>1. UNCHANGED <<lessons, made, chairSaid>>
      BY <2>1 DEF RefreshLandscape
    <3>2. CASE UNCHANGED lessonCalls
      BY <3>1, <3>2, LessonsSame
    <3>3. CASE \E offers \in Proposals :
                 lessonCalls' = [lessonCalls EXCEPT ![c] = NextOffer(lessonCalls[c], offers)]
      BY <1>0, <3>1, <3>3, ProposedKnown DEF RetiredStaysRetired
    <3>4. QED
      BY <2>1, <3>2, <3>3 DEF RefreshLandscape
  <2>2. CASE UNCHANGED lessonVars
    BY <1>2, <2>2
  <2>3. QED
    BY <1>4, <2>1, <2>2
       DEF ScanStep, BeginSettings, SaveSettings, BeginScan, TimerFindsDue, ClaimScan,
           ListRows, Triage, MarkSeen, SearchWeb, KeepSignal, ListSignals,
           RemoveOldSignal, ForgetOldSeen, LessonsProposed, Reload, SaveScan, ScanFails
<1>5. CASE EraseLessons(c)
  <2>1. /\ UNCHANGED <<made, lessonCalls, chairSaid>>
        /\ \A i \in LessonId : lessons'[i] = lessons[i] \/ lessons'[i].status = "absent"
    BY <1>0, <1>5, IdleLessonCall DEF EraseLessons, LessonsTypeOK
  <2>2. RetiredStaysRetired
    BY <2>1 DEF RetiredStaysRetired
  <2>3. \A i \in LessonId :
          /\ lessons'[i].status = "active" => <<lessons'[i].agent, lessons'[i].text>> \in chairSaid
          /\ lessons[i].status = "absent" => lessons'[i].status = "absent"
    BY <2>1 DEF LessonsKnown, Said
  <2>4. \A i \in LessonId : Said(lessons[i])' /\ (i > made' => lessons'[i].status = "absent")
    BY <2>1, <2>3 DEF LessonsKnown, Said
  <2>5. ASSUME NEW d \in Tab
        PROVE  CallKnown(lessonCalls[d])'
    <3>1. CallKnown(lessonCalls[d]) /\ lessonCalls[d].id \in LessonId
      BY <1>0 DEF LessonsKnown, LessonsTypeOK, LessonCall
    <3>2. lessonCalls[d].at = "put" => lessons'[lessonCalls[d].id].status = "absent"
      BY <2>3, <3>1 DEF CallKnown
    <3>3. QED
      BY <2>1, <3>1, <3>2 DEF CallKnown, Said, Stored
  <2>6. \A d, e \in Tab : d # e => Apart(lessonCalls[d], lessonCalls[e])'
    BY <2>1 DEF LessonsKnown, Apart, Stored
  <2>7. QED
    BY <2>2, <2>4, <2>5, <2>6 DEF LessonsKnown
<1>6. CASE \/ FileStep(c) /\ UNCHANGED lessonVars
           \/ BeginErase(c) \/ ListToErase(c) \/ EraseRecord(c) \/ EraseMeta(c)
           \/ EraseHorizon(c) \/ EraseFails(c) \/ FilesFail(c)
  BY <1>2, <1>6
     DEF BeginErase, ListToErase, EraseRecord, EraseMeta, EraseHorizon, EraseFails, FilesFail
<1>7. QED
  BY <1>1, <1>3, <1>4, <1>5, <1>6 DEF Step

\* At first there are no lessons to know.
LEMMA LessonsKnownAtFirst == Init => LessonsKnown
BY IdleLessonCall DEF Init, LessonsInit, LessonsKnown, CallKnown, Apart, Said, Stored, NoLessons

\* The agents' memory is what the chair made it: no step makes a lesson active
\* the chair did not approve, and none brings a retired one back unasked.
THEOREM MemoryHolds == Spec => MemoryIsTheChairs
<1>1. Types /\ Types' /\ LessonsKnown /\ [Next]_vars => LessonsKnown'
  BY MemoryStep, LessonsSame DEF Next, vars, lessonVars
<1>2. Types /\ Types' /\ LessonsKnown /\ [Next]_vars
        => [NothingLearnedAlone' /\ RetiredStaysRetired]_lessonVars
  <2> SUFFICES ASSUME Types, Types', LessonsKnown, [Next]_vars, lessonVars' # lessonVars
               PROVE  NothingLearnedAlone' /\ RetiredStaysRetired
    OBVIOUS
  <2>1. PICK c \in Tab : Step(c)
    BY DEF Next, vars
  <2>2. LessonsKnown' /\ RetiredStaysRetired
    BY <2>1, MemoryStep
  <2>3. NothingLearnedAlone'
    BY <2>2 DEF LessonsKnown, NothingLearnedAlone, Said, Stored
  <2>4. QED
    BY <2>2, <2>3
<1>3. QED
  BY <1>1, <1>2, LessonsKnownAtFirst, WorkspaceTypes, PTL DEF Spec, MemoryIsTheChairs

-----------------------------------------------------------------------------
(* The record.  That a row is what was asked for says nothing of the copy  *)
(* a request will write back: while no other works on the decision, that   *)
(* copy is the row.                                                        *)

\* While only one request works on a decision, its copy is the row, and is what
\* requests served in turn would leave; a number to publish under that no
\* checkpoint was saved since is free.
RecordKnown ==
  /\ DecisionsServedInTurn
  /\ \A c \in Tab, d \in DecisionId \ contested :
       HasDecision(recordCalls[c], d) =>
         /\ decisions[d].there /\ recordCalls[c].row = decisions[d]
         /\ \A e \in Tab \ {c} : ~ HasDecision(recordCalls[e], d)
  /\ \A c \in Tab :
       recordCalls[c].at = "insight" /\ ~ recordCalls[c].behind =>
         recordCalls[c].n \notin Published

\* One call goes on, and changes no decision another works on, or one two work on.
LEMMA RecordFrame ==
  ASSUME RecordTypeOK, RecordKnown, NEW c \in Tab, NEW new, RecordGoes(c, new),
         \A d \in DecisionId \ contested :
           /\ decisions'[d] = said'[d]
           /\ \/ decisions'[d] = decisions[d]
              \/ \A e \in Tab \ {c} : ~ HasDecision(recordCalls[e], d)
           /\ HasDecision(new, d) => decisions'[d].there /\ new.row = decisions'[d],
         UNCHANGED checkpoints,
         new.at = "insight" /\ ~ new.behind => new.n \notin Published
  PROVE  RecordKnown'
<1>0. /\ recordCalls'[c] = new /\ contested \subseteq contested'
      /\ \A d \in Tab \ {c} : recordCalls'[d] = recordCalls[d]
      /\ \A d \in DecisionId \ contested' : HasDecision(new, d) =>
           \A e \in Tab \ {c} : ~ HasDecision(recordCalls[e], d)
  BY DEF RecordGoes, RecordTypeOK
<1>1. DecisionsServedInTurn'
  BY <1>0 DEF DecisionsServedInTurn
<1>2. ASSUME NEW e \in Tab, NEW d \in DecisionId \ contested', HasDecision(recordCalls'[e], d)
      PROVE  /\ decisions'[d].there /\ recordCalls'[e].row = decisions'[d]
             /\ \A f \in Tab \ {e} : ~ HasDecision(recordCalls'[f], d)
  <2>1. CASE e = c
    BY <1>0, <1>2, <2>1
  <2>2. CASE e # c
    <3>1. /\ HasDecision(recordCalls[e], d) /\ recordCalls'[e] = recordCalls[e]
          /\ d \in DecisionId \ contested
      BY <1>0, <1>2, <2>2
    <3>2. /\ decisions[d].there /\ recordCalls[e].row = decisions[d]
          /\ \A f \in Tab \ {e} : ~ HasDecision(recordCalls[f], d)
      BY <3>1 DEF RecordKnown
    <3>3. decisions'[d] = decisions[d] /\ ~ HasDecision(new, d)
      BY <1>0, <1>2, <2>2, <3>1
    <3>4. QED
      BY <1>0, <3>1, <3>2, <3>3
  <2>3. QED
    BY <2>1, <2>2
<1>3. ASSUME NEW e \in Tab, recordCalls'[e].at = "insight", ~ recordCalls'[e].behind
      PROVE  recordCalls'[e].n \notin Published'
  BY <1>0, <1>3 DEF RecordKnown, Published
<1>4. QED
  BY <1>1, <1>2, <1>3 DEF RecordKnown, HasDecision

\* No call goes on, and a decision changes that none works on, or that is known to
\* be contested.
LEMMA RowsFrame ==
  ASSUME RecordKnown, UNCHANGED recordCalls, contested \subseteq contested',
         \A d \in DecisionId \ contested' :
           /\ decisions'[d] = said'[d]
           /\ \/ decisions'[d] = decisions[d]
              \/ \A e \in Tab : ~ HasDecision(recordCalls[e], d),
         Published' \subseteq Published
  PROVE  RecordKnown'
<1>1. DecisionsServedInTurn'
  BY DEF DecisionsServedInTurn
<1>2. ASSUME NEW e \in Tab, NEW d \in DecisionId \ contested', HasDecision(recordCalls[e], d)
      PROVE  /\ decisions'[d].there /\ recordCalls[e].row = decisions'[d]
             /\ \A f \in Tab \ {e} : ~ HasDecision(recordCalls[f], d)
  BY <1>2 DEF RecordKnown
<1>3. \A e \in Tab : recordCalls[e].at = "insight" /\ ~ recordCalls[e].behind
        => recordCalls[e].n \notin Published'
  BY DEF RecordKnown
<1>4. QED
  BY <1>1, <1>2, <1>3 DEF RecordKnown, HasDecision

\* The number a checkpoint is to be published under is not taken.
LEMMA NextIsFree ==
  ASSUME RecordTypeOK
  PROVE  NextNumber \notin Published
<1>1. Published \subseteq Nat /\ IsFiniteSet(Published)
  <2>1. Published \in SUBSET (1..MaxCheckpoints) /\ 1..MaxCheckpoints \subseteq Nat
    BY RecordAssumption DEF Published
  <2>2. IsFiniteSet(1..MaxCheckpoints)
    BY RecordAssumption, FS_Interval
  <2>3. QED
    BY <2>1, <2>2, FS_Subset
<1>2. CASE Published = {}
  BY <1>2
<1>3. CASE Published # {}
  <2>1. \E n \in Published : \A m \in Published : m <= n
    BY <1>1, <1>3, GreatestNumber
  <2>2. /\ LastOf(Published) \in Published
        /\ \A m \in Published : m <= LastOf(Published)
    BY <1>3, <2>1, Zenon DEF LastOf
  <2>3. \A k \in Nat : ~ (k + 1 <= k)
    OBVIOUS
  <2>4. QED
    BY <1>1, <2>2, <2>3 DEF NextNumber
<1>4. QED
  BY <1>2, <1>3

\* A step on the record keeps what is known of it.
LEMMA RecordKnownStep ==
  ASSUME RecordTypeOK, RecordKnown, NEW c \in Tab, RecordStep(c)
  PROVE  RecordKnown' /\ CheckpointsKept
<1>0. /\ decisions \in [DecisionId -> Decision] /\ said \in [DecisionId -> Decision]
      /\ checkpoints \in [1..MaxCheckpoints -> 0..MaxRequests]
      /\ recordCalls \in [Tab -> RecordCall] /\ recordCalls[c] \in RecordCall
      /\ contested \subseteq DecisionId
  BY DEF RecordTypeOK
<1> DEFINE call == recordCalls[c]
<1>00. call.id \in DecisionId /\ call.row \in Decision /\ call.n \in 1..MaxCheckpoints
  BY <1>0 DEF RecordCall
<1>inturn. \A d \in DecisionId \ contested : decisions[d] = said[d]
  BY DEF RecordKnown, DecisionsServedInTurn
<1>mine. ASSUME HasDecision(call, call.id), call.id \notin contested
         PROVE  /\ decisions[call.id].there /\ call.row = decisions[call.id]
                /\ said[call.id] = decisions[call.id]
                /\ \A e \in Tab \ {c} : ~ HasDecision(recordCalls[e], call.id)
  BY <1>00, <1>inturn, <1>mine DEF RecordKnown
<1>same. ASSUME UNCHANGED checkpoints PROVE CheckpointsKept
  BY <1>same DEF CheckpointsKept
<1>idle. \A d : ~ HasDecision(NoRecordCall, d)
  BY IdleRecordCall DEF HasDecision
\* The call writes its decision, and holds none any longer.
<1>put. ASSUME NEW row, NEW served, NEW new, PutDecision(call.id, row, served),
               RecordGoes(c, new), new.at \in {"idle", "reflect"},
               HasDecision(call, call.id), UNCHANGED Others,
               call.id \notin contested => row = served
        PROVE  RecordKnown' /\ CheckpointsKept
  <2>1. /\ decisions'[call.id] = row /\ said'[call.id] = served
        /\ \A d \in DecisionId \ {call.id} : decisions'[d] = decisions[d] /\ said'[d] = said[d]
    BY <1>0, <1>00, <1>put DEF PutDecision
  <2>2. \A d : ~ HasDecision(new, d)
    BY <1>put DEF HasDecision
  <2>3. ASSUME NEW d \in DecisionId \ contested
        PROVE  /\ decisions'[d] = said'[d]
               /\ \/ decisions'[d] = decisions[d]
                  \/ \A e \in Tab \ {c} : ~ HasDecision(recordCalls[e], d)
    <3>1. CASE d = call.id
      BY <1>put, <1>mine, <2>1, <3>1
    <3>2. CASE d # call.id
      BY <1>inturn, <2>1, <3>2
    <3>3. QED
      BY <3>1, <3>2
  <2>4. UNCHANGED checkpoints
    BY <1>put DEF Others
  <2>5. new.at # "insight"
    BY <1>put
  <2>6. RecordKnown'
    BY <1>put, <2>2, <2>3, <2>4, <2>5, RecordFrame
  <2>7. QED
    BY <1>same, <2>4, <2>6
\* The call goes on, and no decision changes.
<1>goes. ASSUME NEW new, RecordGoes(c, new), UNCHANGED <<decisions, said, checkpoints>>,
                \A d \in DecisionId : HasDecision(new, d) => decisions[d].there
                                                            /\ new.row = decisions[d],
                new.at = "insight" => new.n \notin Published
         PROVE  RecordKnown' /\ CheckpointsKept
  <2>1. \A d \in DecisionId \ contested :
          /\ decisions'[d] = said'[d] /\ decisions'[d] = decisions[d]
          /\ HasDecision(new, d) => decisions'[d].there /\ new.row = decisions'[d]
    BY <1>goes, <1>inturn
  <2>2. RecordKnown'
    BY <1>goes, <2>1, RecordFrame
  <2>3. QED
    BY <1>goes, <1>same, <2>2
<1>1. ASSUME NEW d \in LoggedId, NEW t \in 0..1, LogDecision(c, d, t)
      PROVE  RecordKnown' /\ CheckpointsKept
  <2> DEFINE row == [NoDecision EXCEPT !.there = TRUE, !.text = t]
  <2>1. /\ PutDecision(d, row, row) /\ UNCHANGED <<Others, recordCalls, contested>>
        /\ \A e \in Tab : ~ HasDecision(recordCalls[e], d) /\ d \in DecisionId
    BY <1>1 DEF LogDecision, DecisionId
  <2> HIDE DEF row
  <2>2. \A x \in DecisionId \ contested :
          /\ decisions'[x] = said'[x]
          /\ \/ decisions'[x] = decisions[x]
             \/ \A e \in Tab : ~ HasDecision(recordCalls[e], x)
    BY <1>0, <1>inturn, <2>1 DEF PutDecision
  <2>3. UNCHANGED checkpoints /\ Published' \subseteq Published
    BY <2>1 DEF Others, Published
  <2>4. RecordKnown'
    BY <2>1, <2>2, <2>3, RowsFrame
  <2>5. QED
    BY <1>same, <2>3, <2>4
<1>2. ASSUME NEW d \in QuestionId, NEW t \in 0..1, RecordQuestion(c, d, t)
      PROVE  RecordKnown' /\ CheckpointsKept
  <2> DEFINE row == [NoDecision EXCEPT !.there = TRUE, !.text = t]
  <2>1. /\ PutDecision(d, row, row) /\ UNCHANGED <<Others, recordCalls>>
        /\ contested' = contested \cup
             {e \in {d} : \E x \in Tab : HasDecision(recordCalls[x], d)}
    BY <1>2 DEF RecordQuestion
  <2> HIDE DEF row
  <2>2. \A x \in DecisionId \ contested' :
          /\ decisions'[x] = said'[x]
          /\ \/ decisions'[x] = decisions[x]
             \/ \A e \in Tab : ~ HasDecision(recordCalls[e], x)
    BY <1>0, <1>inturn, <2>1 DEF PutDecision
  <2>3. UNCHANGED checkpoints /\ Published' \subseteq Published
    BY <2>1 DEF Others, Published
  <2>4. RecordKnown'
    BY <2>1, <2>2, <2>3, RowsFrame
  <2>5. QED
    BY <1>same, <2>3, <2>4
<1>3. ASSUME NEW d \in DecisionId, NEW at \in {"edit", "drop", "outcome"},
             ReadDecision(c, d, at)
      PROVE  RecordKnown' /\ CheckpointsKept
  <2> DEFINE new == [NoRecordCall EXCEPT !.at = at, !.id = d, !.row = decisions[d]]
  <2>1. RecordGoes(c, new) /\ decisions[d].there /\ UNCHANGED <<Others, decisions, said>>
    BY <1>3 DEF ReadDecision
  <2>2. new.at = at /\ new.id = d /\ new.row = decisions[d]
    BY IdleRecordCall DEF RecordCall
  <2> HIDE DEF new
  <2>3. \A x \in DecisionId : HasDecision(new, x) => decisions[x].there /\ new.row = decisions[x]
    BY <2>1, <2>2 DEF HasDecision
  <2>4. new.at # "insight" /\ UNCHANGED checkpoints
    BY <2>1, <2>2 DEF Others
  <2>5. QED
    BY <1>goes, <2>1, <2>3, <2>4
<1>4. CASE SaveEdit(c)
  <2> DEFINE d == call.id
             served(t, n) == IF said[d].there
               THEN [said[d] EXCEPT !.text = IF t = call.row.text THEN @ ELSE t,
                                    !.notes = IF n = call.row.notes THEN @ ELSE n]
               ELSE said[d]
  <2>1. PICK t \in 0..1, n \in 0..1 :
          PutDecision(d, [call.row EXCEPT !.text = t, !.notes = n], served(t, n))
    BY <1>4 DEF SaveEdit
  <2>2. /\ RecordGoes(c, NoRecordCall) /\ UNCHANGED Others /\ HasDecision(call, d)
    BY <1>4 DEF SaveEdit, HasDecision
  <2>3. d \notin contested => [call.row EXCEPT !.text = t, !.notes = n] = served(t, n)
    <3>1. ASSUME d \notin contested PROVE said[d].there /\ said[d] = call.row
      BY <1>mine, <2>2, <3>1
    <3>2. [call.row EXCEPT !.text = t, !.notes = n]
            = [call.row EXCEPT !.text = IF t = call.row.text THEN call.row.text ELSE t,
                               !.notes = IF n = call.row.notes THEN call.row.notes ELSE n]
      BY <1>00
    <3>3. QED
      BY <3>1, <3>2
  <2> HIDE DEF served, d
  <2>4. QED
    BY <1>put, <2>1, <2>2, <2>3, IdleRecordCall DEF d
<1>5. CASE DropDecision(c)
  <2>1. /\ PutDecision(call.id, NoDecision, NoDecision) /\ RecordGoes(c, NoRecordCall)
        /\ UNCHANGED Others /\ HasDecision(call, call.id)
    BY <1>5 DEF DropDecision, HasDecision
  <2>2. QED
    BY <1>put, <2>1, IdleRecordCall
<1>6. CASE SaveOutcome(c)
  <2> DEFINE d == call.id
             served == IF said[d].there THEN [said[d] EXCEPT !.outcome = TRUE] ELSE said[d]
             next == IF d \in QuestionId THEN [call EXCEPT !.at = "reflect"] ELSE NoRecordCall
  <2>1. /\ PutDecision(d, WithOutcome(call.row), served) /\ RecordGoes(c, next)
        /\ UNCHANGED Others /\ HasDecision(call, d)
    BY <1>6 DEF SaveOutcome, HasDecision
  <2>2. next.at \in {"idle", "reflect"}
    BY <1>0, IdleRecordCall DEF RecordCall
  <2>3. d \notin contested => WithOutcome(call.row) = served
    BY <1>mine, <2>1 DEF WithOutcome
  <2> HIDE DEF served, next, d
  <2>4. QED
    BY <1>put, <2>1, <2>2, <2>3 DEF d
<1>7. ASSUME NEW new, RecordGoes(c, new), new.at \in {"idle", "unlog"},
             UNCHANGED <<checkpoints, decisions, said>>
      PROVE  RecordKnown' /\ CheckpointsKept
  <2>1. (\A d : ~ HasDecision(new, d)) /\ new.at # "insight"
    BY <1>7 DEF HasDecision
  <2>2. QED
    BY <1>7, <1>goes, <2>1
<1>8. CASE Reflect(c) \/ UnlogEvent(c) \/ RecordCallFails(c)
  BY <1>7, <1>8, IdleRecordCall DEF Reflect, UnlogEvent, RecordCallFails, Others
<1>9. ASSUME NEW e \in EventId, BeginUnlog(c, e)
      PROVE  RecordKnown' /\ CheckpointsKept
  <2>1. [NoRecordCall EXCEPT !.at = "unlog", !.event = e].at = "unlog"
    BY IdleRecordCall DEF RecordCall
  <2>2. QED
    BY <1>7, <1>9, <2>1 DEF BeginUnlog, Others
<1>10. ASSUME NEW e \in EventId, LogEvent(c, e)
       PROVE  RecordKnown' /\ CheckpointsKept
  <2>1. UNCHANGED <<checkpoints, recordCalls, decisions, said, contested>>
    BY <1>10 DEF LogEvent
  <2>2. \A x \in DecisionId \ contested : decisions'[x] = said'[x] /\ decisions'[x] = decisions[x]
    BY <1>inturn, <2>1
  <2>3. Published' \subseteq Published
    BY <2>1 DEF Published
  <2>4. RecordKnown'
    BY <2>1, <2>2, <2>3, RowsFrame
  <2>5. QED
    BY <1>same, <2>1, <2>4
<1>11. CASE BeginPublish(c)
  <2> DEFINE new == [NoRecordCall EXCEPT !.at = "insight", !.n = NextNumber, !.by = issued']
  <2>1. RecordGoes(c, new) /\ UNCHANGED <<Others, decisions, said>>
    BY <1>11 DEF BeginPublish
  <2>2. new.at = "insight" /\ new.n = NextNumber
    BY IdleRecordCall DEF RecordCall
  <2> HIDE DEF new
  <2>3. (\A d : ~ HasDecision(new, d)) /\ UNCHANGED checkpoints
    BY <2>1, <2>2 DEF HasDecision, Others
  <2>4. QED
    BY <1>goes, <2>1, <2>2, <2>3, NextIsFree
<1>12. CASE SaveCheckpoint(c)
  <2>1. /\ call.at = "insight"
        /\ checkpoints' = [checkpoints EXCEPT ![call.n] = call.by]
        /\ recordCalls' = [d \in Tab |->
             IF d = c THEN NoRecordCall
             ELSE [recordCalls[d] EXCEPT !.behind = @ \/ recordCalls[d].at = "insight"]]
        /\ UNCHANGED <<decisions, said, contested>>
    BY <1>12 DEF SaveCheckpoint
  <2>2. CheckpointsKept
    <3>1. \A n \in Published : checkpoints'[n] # checkpoints[n] => n = call.n
      BY <1>0, <2>1 DEF Published
    <3>2. call.n \in Published => call.behind
      BY <2>1 DEF RecordKnown
    <3>3. QED
      BY <3>1, <3>2 DEF CheckpointsKept
  <2>3. ASSUME NEW d \in Tab \ {c}
        PROVE  /\ recordCalls'[d].at = recordCalls[d].at /\ recordCalls'[d].id = recordCalls[d].id
               /\ recordCalls'[d].row = recordCalls[d].row
               /\ recordCalls[d].at = "insight" => recordCalls'[d].behind
    <3>1. recordCalls[d] \in RecordCall
      BY <1>0
    <3>2. QED
      BY <2>1, <3>1 DEF RecordCall
  <2>4. recordCalls'[c] = NoRecordCall
    BY <2>1
  <2>5. \A x : \A d \in Tab : HasDecision(recordCalls'[d], x) =>
          HasDecision(recordCalls[d], x) /\ recordCalls'[d].row = recordCalls[d].row
    BY <1>idle, <2>3, <2>4 DEF HasDecision
  <2>6. \A d \in Tab : recordCalls'[d].at = "insight" => recordCalls'[d].behind
    BY <2>3, <2>4, IdleRecordCall
  <2>7. RecordKnown'
    BY <1>inturn, <2>1, <2>5, <2>6 DEF RecordKnown, DecisionsServedInTurn, HasDecision
  <2>8. QED
    BY <2>2, <2>7
<1>13. QED
  BY <1>1, <1>2, <1>3, <1>4, <1>5, <1>6, <1>8, <1>9, <1>10, <1>11, <1>12
     DEF RecordStep, BeginEdit, BeginDrop, BeginOutcome

-----------------------------------------------------------------------------
(* The files.  A record is put when its bytes are stored and removed when  *)
(* they are gone; a request holds the record it read for long, and what it *)
(* writes back is right as long as it was alone with the file.             *)

Uploading(call) == call.at \in {"store", "record"}

\* An upload's file is not there yet; a request alone with its file holds the record,
\* and the bytes are there; a deletion goes through files it has been begun for.
FileCallKnown(call) ==
  /\ Uploading(call) => ~ files[call.file].there /\ call.file \notin cleared
  /\ call.at = "record" => blobs[call.file] = "all"
  /\ call.at \in {"count", "store", "record", "bytes", "model", "save"} =>
       call.row.there /\ call.rest = {}
  /\ call.at \in {"bytes", "model", "save"} =>
       /\ call.file \notin cleared => blobs[call.file] = "all"
       /\ call.file \notin overlapped => files[call.file] = call.row
  /\ call.at \in {"list", "remove", "forget"} => call.file \in cleared
  /\ call.at = "forget" => blobs[call.file] = "none"
  /\ call.rest \subseteq cleared

\* An upload's file is its own.
FilesApart(call, other) ==
  Uploading(call) => other.at \in {"idle", "count"} \/ other.file # call.file

FilesKnown ==
  /\ RecordHasBytes /\ FilesServedInTurn
  /\ \A f \in cleared : files[f].there \/ blobs[f] = "none"
  /\ \A c, d \in Tab, f \in FileId :
       c # d /\ WorksOn(fileCalls[c], f) /\ WorksOn(fileCalls[d], f) => f \in overlapped
  /\ \A c \in Tab : FileCallKnown(fileCalls[c])
  /\ \A c, d \in Tab : c # d => FilesApart(fileCalls[c], fileCalls[d])

\* One call goes on, and changes at most one file, which it works on.
LEMMA FilesFrame ==
  ASSUME FilesTypeOK, FilesKnown, NEW c \in Tab, NEW new, Goes(c, new),
         NEW g \in FileId,
         \A f \in FileId \ {g} :
           files'[f] = files[f] /\ asked'[f] = asked[f] /\ blobs'[f] = blobs[f],
         cleared \subseteq cleared', cleared' \subseteq FileId,
         \A f \in cleared' \ cleared : files[f].there /\ files'[f].there,
         g \notin overlapped' => files'[g] = asked'[g],
         files'[g].there /\ g \notin cleared' => blobs'[g] = "all",
         g \in cleared' => files'[g].there \/ blobs'[g] = "none",
         \/ files'[g] = files[g] /\ blobs'[g] = blobs[g]
         \/ fileCalls[c].at \notin {"idle", "count"} /\ fileCalls[c].file = g,
         \/ blobs'[g] = blobs[g]
         \/ g \in cleared /\ (blobs[g] = "none" => blobs'[g] = "none")
         \/ Uploading(fileCalls[c]),
         FileCallKnown(new)',
         \A d \in Tab \ {c} : FilesApart(new, fileCalls[d]) /\ FilesApart(fileCalls[d], new)
  PROVE  FilesKnown'
<1>0. /\ fileCalls'[c] = new /\ overlapped \subseteq overlapped'
      /\ \A d \in Tab \ {c} : fileCalls'[d] = fileCalls[d]
      /\ \A d \in Tab \ {c}, f \in FileId :
           WorksOn(new, f) /\ WorksOn(fileCalls[d], f) => f \in overlapped'
      /\ \A d \in Tab : fileCalls[d].file \in FileId /\ fileCalls[d].rest \subseteq FileId
      /\ cleared \subseteq FileId
  BY DEF Goes, FilesTypeOK, FileCall
<1>1. RecordHasBytes'
  <2>1. \A f \in FileId \ {g} : files'[f].there /\ f \notin cleared' => blobs'[f] = "all"
    BY DEF FilesKnown, RecordHasBytes, Listed
  <2>2. QED
    BY <2>1 DEF RecordHasBytes, Listed
<1>2. FilesServedInTurn'
  <2>1. \A f \in FileId \ {g} : f \notin overlapped' => files'[f] = asked'[f]
    BY <1>0 DEF FilesKnown, FilesServedInTurn
  <2>2. QED
    BY <2>1 DEF FilesServedInTurn
<1>3. \A f \in cleared' : files'[f].there \/ blobs'[f] = "none"
  BY <1>0 DEF FilesKnown
<1>4. ASSUME NEW d \in Tab, NEW e \in Tab, NEW f \in FileId, d # e,
             WorksOn(fileCalls'[d], f), WorksOn(fileCalls'[e], f)
      PROVE  f \in overlapped'
  <2>1. CASE d = c
    BY <1>0, <1>4, <2>1
  <2>2. CASE e = c
    BY <1>0, <1>4, <2>2
  <2>3. CASE d # c /\ e # c
    BY <1>0, <1>4, <2>3 DEF FilesKnown
  <2>4. QED
    BY <2>1, <2>2, <2>3
<1>5. ASSUME NEW d \in Tab
      PROVE  FileCallKnown(fileCalls[d])'
  <2>1. CASE d = c
    BY <1>0, <2>1 DEF FileCallKnown
  <2>2. CASE d # c
    <3>1. PICK call : call = fileCalls[d]
      OBVIOUS
    <3>2. /\ fileCalls'[d] = call /\ FileCallKnown(call) /\ call.file \in FileId
      BY <1>0, <2>2, <3>1 DEF FilesKnown
    <3>3. /\ FilesApart(call, fileCalls[c]) /\ FilesApart(fileCalls[c], call)
          /\ FileCallKnown(fileCalls[c])
          /\ \A f \in FileId : WorksOn(fileCalls[c], f) /\ WorksOn(call, f) => f \in overlapped
      BY <2>2, <3>1 DEF FilesKnown
    <3>4. CASE call.file # g
      <4>1. /\ files'[call.file] = files[call.file] /\ blobs'[call.file] = blobs[call.file]
        BY <3>2, <3>4
      <4>2. Uploading(call) => call.file \notin cleared'
        BY <3>2 DEF FileCallKnown
      <4>3. FileCallKnown(call)'
        BY <1>0, <3>2, <4>1, <4>2 DEF FileCallKnown, Uploading
      <4>4. QED
        BY <3>2, <4>3 DEF FileCallKnown, Uploading
    <3>5. CASE call.file = g /\ files'[g] = files[g] /\ blobs'[g] = blobs[g]
      <4>2. Uploading(call) => call.file \notin cleared'
        BY <3>2 DEF FileCallKnown
      <4>3. FileCallKnown(call)'
        BY <1>0, <3>2, <3>5, <4>2 DEF FileCallKnown, Uploading
      <4>4. QED
        BY <3>2, <4>3 DEF FileCallKnown, Uploading
    <3>6. CASE /\ call.file = g
               /\ fileCalls[c].at \notin {"idle", "count"} /\ fileCalls[c].file = g
      <4>1. ~ Uploading(call) /\ (call.at \notin {"idle", "count"} => g \in overlapped)
        BY <3>3, <3>6 DEF FilesApart, WorksOn
      <4>2. CASE call.at \in {"idle", "count"}
        <5>1. FileCallKnown(call)'
          BY <3>2, <4>2 DEF FileCallKnown, Uploading
        <5>2. QED
          BY <3>2, <5>1 DEF FileCallKnown, Uploading
      <4>3. CASE call.at \notin {"idle", "count"}
        <5>1. \/ blobs'[g] = blobs[g]
              \/ g \in cleared /\ (blobs[g] = "none" => blobs'[g] = "none")
          BY <3>3, <3>6, <4>3 DEF FilesApart
        <5>2. /\ call.at = "forget" => blobs'[g] = "none"
              /\ call.at \in {"bytes", "model", "save"} => g \in cleared' \/ blobs'[g] = "all"
          BY <3>2, <3>6, <5>1 DEF FileCallKnown
        <5>3. FileCallKnown(call)'
          BY <1>0, <3>2, <3>6, <4>1, <4>3, <5>2 DEF FileCallKnown, Uploading
        <5>4. QED
          BY <3>2, <5>3 DEF FileCallKnown, Uploading
      <4>4. QED
        BY <4>2, <4>3
    <3>7. QED
      BY <3>4, <3>5, <3>6
  <2>3. QED
    BY <2>1, <2>2
<1>6. ASSUME NEW d \in Tab, NEW e \in Tab, d # e
      PROVE  FilesApart(fileCalls'[d], fileCalls'[e])
  BY <1>0, <1>6 DEF FilesKnown
<1>7. QED
  BY <1>1, <1>2, <1>3, <1>4, <1>5, <1>6 DEF FilesKnown, FilesApart, WorksOn, Uploading

\* One call goes on, and no file changes.
LEMMA FilesUnchanged ==
  ASSUME FilesTypeOK, FilesKnown, NEW c \in Tab, NEW new, Goes(c, new),
         UNCHANGED <<files, blobs, asked>>,
         cleared \subseteq cleared', cleared' \subseteq FileId,
         \A f \in cleared' \ cleared : files[f].there,
         FileCallKnown(new)',
         \A d \in Tab \ {c} : FilesApart(new, fileCalls[d]) /\ FilesApart(fileCalls[d], new)
  PROVE  FilesKnown'
<1>1. PICK g \in FileId : TRUE
  BY FilesAssumption
<1>2. \A f \in FileId :
        files'[f] = files[f] /\ asked'[f] = asked[f] /\ blobs'[f] = blobs[f]
  OBVIOUS
<1>3. \A f \in cleared' \ cleared : files[f].there /\ files'[f].there
  OBVIOUS
<1>4. overlapped \subseteq overlapped'
  BY DEF Goes
<1>5. g \notin overlapped' => files'[g] = asked'[g]
  BY <1>2, <1>4 DEF FilesKnown, FilesServedInTurn
<1>6. files'[g].there /\ g \notin cleared' => blobs'[g] = "all"
  BY <1>2 DEF FilesKnown, RecordHasBytes, Listed
<1>7. g \in cleared' => files'[g].there \/ blobs'[g] = "none"
  BY <1>2, <1>3 DEF FilesKnown
<1>8. QED
  BY <1>2, <1>3, <1>5, <1>6, <1>7, FilesFrame

\* A step on files keeps what is known of them.
LEMMA FilesKnownStep ==
  ASSUME FilesTypeOK, FilesTypeOK', FilesKnown, NEW c \in Tab,
         FileStep(c) \/ FileCallFails(c) \/ BeginDeleteAll(c)
  PROVE  FilesKnown'
<1>0. /\ files \in [FileId -> Record] /\ asked \in [FileId -> Record]
      /\ blobs \in [FileId -> Chunks] /\ fileCalls \in [Tab -> FileCall]
      /\ fileCalls[c] \in FileCall /\ cleared \subseteq FileId /\ cleared' \subseteq FileId
  BY DEF FilesTypeOK
<1> DEFINE call == fileCalls[c]
<1>00. call.file \in FileId /\ call.row \in Record /\ call.rest \subseteq FileId
  BY <1>0 DEF FileCall
<1>known. /\ FileCallKnown(call)
          /\ \A d \in Tab \ {c} : /\ FilesApart(call, fileCalls[d])
                                  /\ FilesApart(fileCalls[d], call)
                                  /\ FileCallKnown(fileCalls[d])
  BY DEF FilesKnown
<1>g. PICK g \in FileId : g = call.file
  BY <1>00
<1>old. PICK old : old = call
  OBVIOUS
<1>grows. ASSUME NEW new, Goes(c, new) PROVE overlapped \subseteq overlapped'
  BY <1>grows DEF Goes
<1>inturn. ASSUME g \notin overlapped PROVE files[g] = asked[g]
  BY <1>inturn DEF FilesKnown, FilesServedInTurn
\* A call that works on no file any longer, or not yet.
<1>free. ASSUME NEW new, new.at \in {"idle", "count"}, new.rest = {},
                new.at = "count" => new.row.there
         PROVE  /\ FileCallKnown(new)'
                /\ \A d \in Tab \ {c} : /\ FilesApart(new, fileCalls[d])
                                        /\ FilesApart(fileCalls[d], new)
  BY <1>free DEF FileCallKnown, FilesApart, Uploading
<1>ends. /\ FileCallKnown(NoFileCall)'
         /\ \A d \in Tab \ {c} : /\ FilesApart(NoFileCall, fileCalls[d])
                                 /\ FilesApart(fileCalls[d], NoFileCall)
  BY <1>free, IdleFileCall
\* A call on a file that is there meets no upload of it.
<1>there. ASSUME NEW new, files[new.file].there \/ new.file \in cleared, ~ Uploading(new)
          PROVE  \A d \in Tab \ {c} : /\ FilesApart(new, fileCalls[d])
                                      /\ FilesApart(fileCalls[d], new)
  BY <1>there, <1>known DEF FilesApart, FileCallKnown
<1>1. ASSUME NEW f \in FileId, NEW at \in {"bytes", "save", "list"}, Get(c, f, at),
             cleared' = IF at = "list" THEN cleared \cup {f} ELSE cleared
      PROVE  FilesKnown'
  <2>1. PICK new : new = [NoFileCall EXCEPT !.at = at, !.file = f, !.row = files[f]]
    OBVIOUS
  <2>2. new.at = at /\ new.file = f /\ new.row = files[f] /\ new.rest = {}
    BY <2>1, IdleFileCall DEF FileCall
  <2>3. Goes(c, new) /\ UNCHANGED <<files, blobs, asked>> /\ files[f].there
    BY <1>1, <2>1 DEF Get
  <2>4. f \notin cleared => blobs[f] = "all"
    BY <2>3 DEF FilesKnown, RecordHasBytes, Listed
  <2>5. FileCallKnown(new)'
    BY <1>1, <2>2, <2>3, <2>4 DEF FileCallKnown, Uploading
  <2>6. \A d \in Tab \ {c} : FilesApart(new, fileCalls[d]) /\ FilesApart(fileCalls[d], new)
    BY <1>there, <2>2, <2>3 DEF Uploading
  <2>7. /\ cleared \subseteq cleared' /\ cleared' \subseteq FileId
        /\ \A x \in cleared' \ cleared : files[x].there
    BY <1>0, <1>1, <2>3
  <2>8. QED
    BY <2>3, <2>5, <2>6, <2>7, FilesUnchanged
<1>2. ASSUME NEW b \in BOOLEAN, BeginUpload(c, b)
      PROVE  FilesKnown'
  <2>1. PICK new : new = [NoFileCall EXCEPT !.at = "count", !.row = NewRecord(b)]
    OBVIOUS
  <2>2. new.at = "count" /\ new.rest = {} /\ new.row.there
    BY <2>1, IdleFileCall DEF FileCall, NewRecord
  <2>3. Goes(c, new) /\ UNCHANGED <<files, blobs, asked, cleared>>
    BY <1>2, <2>1 DEF BeginUpload
  <2>4. FileCallKnown(new)' /\ \A d \in Tab \ {c} : /\ FilesApart(new, fileCalls[d])
                                                     /\ FilesApart(fileCalls[d], new)
    BY <1>free, <2>2
  <2>5. QED
    BY <1>0, <2>3, <2>4, FilesUnchanged
<1>3. ASSUME NEW f \in FileId, BeginAsk(c, f) \/ BeginUpdate(c, f) \/ BeginDelete(c, f)
      PROVE  FilesKnown'
  BY <1>1, <1>3 DEF BeginAsk, BeginUpdate, BeginDelete
<1>4. ASSUME Ends(c), UNCHANGED <<files, blobs, asked, cleared>>
      PROVE  FilesKnown'
  BY <1>0, <1>4, <1>ends, FilesUnchanged DEF Ends
<1>5. CASE CountFiles(c)
  <2>1. CASE Full
    BY <1>4, <1>5, <2>1 DEF CountFiles
  <2>2. CASE ~ Full
    <3>1. PICK f \in FileId : Unused(f) /\ Goes(c, [call EXCEPT !.at = "store", !.file = f])
      BY <1>5, <2>2 DEF CountFiles
    <3>2. PICK new : new = [call EXCEPT !.at = "store", !.file = f]
      OBVIOUS
    <3>3. new.at = "store" /\ new.file = f /\ new.rest = call.rest /\ new.row = call.row
      BY <1>0, <3>2 DEF FileCall
    <3>4. call.at = "count" /\ UNCHANGED <<files, blobs, asked, cleared>>
      BY <1>5 DEF CountFiles
    <3>5. new.rest = {} /\ new.row.there
      BY <1>known, <3>3, <3>4 DEF FileCallKnown
    <3>6. FileCallKnown(new)'
      BY <3>1, <3>3, <3>4, <3>5 DEF FileCallKnown, Uploading, Unused
    <3>7. \A d \in Tab \ {c} : FilesApart(new, fileCalls[d]) /\ FilesApart(fileCalls[d], new)
      BY <3>1, <3>3 DEF FilesApart, Uploading, Unused
    <3>8. QED
      BY <1>0, <3>1, <3>2, <3>4, <3>6, <3>7, FilesUnchanged
  <2>3. QED
    BY <2>1, <2>2
<1>6. CASE StoreChunk(c)
  <2>1. PICK new : new = [call EXCEPT !.at = IF blobs[call.file] = "none" THEN "store"
                                             ELSE "record"]
    OBVIOUS
  <2>2. /\ new.at = IF blobs[g] = "none" THEN "store" ELSE "record"
        /\ new.file = g /\ new.rest = call.rest /\ new.row = call.row
    BY <1>0, <1>g, <2>1 DEF FileCall
  <2>3. /\ blobs' = [blobs EXCEPT ![g] = IF @ = "none" THEN "some" ELSE "all"]
        /\ Goes(c, new) /\ UNCHANGED <<files, asked, cleared>> /\ call.at = "store"
    BY <1>6, <1>g, <2>1 DEF StoreChunk
  <2>4. /\ ~ files[g].there /\ g \notin cleared /\ call.row.there /\ call.rest = {}
        /\ \A d \in Tab \ {c} : fileCalls[d].at \in {"idle", "count"} \/ fileCalls[d].file # g
    BY <1>known, <1>g, <2>3 DEF FileCallKnown, FilesApart, Uploading
  <2>5. /\ blobs'[g] = IF blobs[g] = "none" THEN "some" ELSE "all"
        /\ \A f \in FileId \ {g} : blobs'[f] = blobs[f]
    BY <1>0, <2>3
  <2>6. FileCallKnown(new)'
    BY <2>2, <2>3, <2>4, <2>5 DEF FileCallKnown, Uploading
  <2>7. \A d \in Tab \ {c} : FilesApart(new, fileCalls[d]) /\ FilesApart(fileCalls[d], new)
    BY <2>2, <2>4 DEF FilesApart, Uploading
  <2>8. g \notin overlapped' => files'[g] = asked'[g]
    BY <1>grows, <1>inturn, <2>3
  <2>9. /\ Uploading(call) /\ call.at \notin {"idle", "count"}
        /\ ~ files'[g].there /\ g \notin cleared'
    BY <2>3, <2>4 DEF Uploading
  <2>10. \A f \in FileId \ {g} : files'[f] = files[f] /\ asked'[f] = asked[f] /\ blobs'[f] = blobs[f]
    BY <2>3, <2>5
  <2>11. QED
    BY <1>0, <1>g, <2>3, <2>6, <2>7, <2>8, <2>9, <2>10, FilesFrame
<1>7. CASE PutRecord(c)
  <2>1. PICK new : new = [call EXCEPT !.at = "model", !.readable = TRUE]
    OBVIOUS
  <2>2. new.at = "model" /\ new.file = g /\ new.rest = call.rest /\ new.row = call.row
    BY <1>0, <1>g, <2>1 DEF FileCall
  <2>3. /\ files' = [files EXCEPT ![g] = call.row] /\ asked' = [asked EXCEPT ![g] = call.row]
        /\ Goes(c, new) /\ UNCHANGED <<blobs, cleared>> /\ call.at = "record"
    BY <1>7, <1>g, <2>1 DEF PutRecord
  <2>4. /\ g \notin cleared /\ call.row.there /\ call.rest = {} /\ blobs[g] = "all"
        /\ \A d \in Tab \ {c} : fileCalls[d].at \in {"idle", "count"} \/ fileCalls[d].file # g
    BY <1>known, <1>g, <2>3 DEF FileCallKnown, FilesApart, Uploading
  <2>5. /\ files'[g] = call.row /\ asked'[g] = call.row
        /\ \A f \in FileId \ {g} : files'[f] = files[f] /\ asked'[f] = asked[f]
    BY <1>0, <2>3
  <2>6. files'[g] = new.row /\ new.row.there /\ blobs' = blobs /\ cleared' = cleared
    BY <2>2, <2>3, <2>4, <2>5
  <2>7. FileCallKnown(new)'
    BY <2>2, <2>4, <2>6 DEF FileCallKnown, Uploading
  <2>8. \A d \in Tab \ {c} : FilesApart(new, fileCalls[d]) /\ FilesApart(fileCalls[d], new)
    BY <2>2, <2>4 DEF FilesApart, Uploading
  <2>9. call.at \notin {"idle", "count"}
    BY <2>3
  <2>10. \A f \in FileId \ {g} : files'[f] = files[f] /\ asked'[f] = asked[f] /\ blobs'[f] = blobs[f]
    BY <2>3, <2>5
  <2>11. QED
    BY <1>0, <1>g, <2>3, <2>4, <2>5, <2>6, <2>7, <2>8, <2>9, <2>10, FilesFrame
<1>8. CASE ReadBytes(c)
  <2>1. PICK new : new = [call EXCEPT !.at = "model", !.readable = blobs[call.file] = "all"]
    OBVIOUS
  <2>2. new.at = "model" /\ new.file = call.file /\ new.rest = call.rest /\ new.row = call.row
    BY <1>0, <2>1 DEF FileCall
  <2>3. Goes(c, new) /\ UNCHANGED <<files, blobs, asked, cleared>> /\ call.at = "bytes"
    BY <1>8, <2>1 DEF ReadBytes
  <2>4. /\ overlapped \subseteq overlapped' /\ new.rest = {} /\ new.row.there
        /\ new.file \notin cleared => blobs[new.file] = "all"
        /\ new.file \notin overlapped => files[new.file] = new.row
    BY <1>grows, <1>known, <2>2, <2>3 DEF FileCallKnown
  <2>5. FileCallKnown(new)'
    BY <2>2, <2>3, <2>4 DEF FileCallKnown, Uploading
  <2>6. \A d \in Tab \ {c} : FilesApart(new, fileCalls[d]) /\ FilesApart(fileCalls[d], new)
    BY <1>known, <2>2, <2>3 DEF FilesApart, Uploading
  <2>7. QED
    BY <1>0, <2>3, <2>5, <2>6, FilesUnchanged
\* The record goes back with a change, which is made to what was asked for too.
<1>9. ASSUME Ends(c), UNCHANGED <<blobs, cleared>>, call.at \in {"model", "save"},
             NEW row, row.there, files' = [files EXCEPT ![g] = row],
             NEW served, asked' = [asked EXCEPT ![g] = served],
             files[g] = call.row /\ asked[g] = call.row => served = row
      PROVE  FilesKnown'
  <2>1. Goes(c, NoFileCall) /\ overlapped \subseteq overlapped'
    BY <1>9, <1>grows DEF Ends
  <2>2. /\ g \notin overlapped => files[g] = call.row
        /\ g \notin cleared => blobs[g] = "all"
    BY <1>9, <1>g, <1>known DEF FileCallKnown
  <2>3. /\ files'[g] = row /\ asked'[g] = served
        /\ \A f \in FileId \ {g} :
             files'[f] = files[f] /\ asked'[f] = asked[f] /\ blobs'[f] = blobs[f]
    BY <1>0, <1>9
  <2>4. g \notin overlapped' => files'[g] = asked'[g]
    BY <1>9, <1>inturn, <2>1, <2>2, <2>3
  <2>5. call.at \notin {"idle", "count"} /\ blobs'[g] = blobs[g] /\ cleared' = cleared
    BY <1>9
  <2>6. files'[g].there /\ (g \notin cleared' => blobs'[g] = "all")
    BY <1>9, <2>2, <2>3, <2>5
  <2>7. QED
    BY <1>0, <1>g, <1>ends, <2>1, <2>3, <2>4, <2>5, <2>6, FilesFrame
<1>10. CASE Review(c)
  <2> DEFINE f == call.file
             once == [asked[f] EXCEPT !.done = TRUE,
                        !.answers = IF @ = HISTORY_MAX THEN @ ELSE @ + 1]
             none == [asked[f] EXCEPT !.done = FALSE]
             Write(row, served) ==
               /\ files' = [files EXCEPT ![f] = row]
               /\ asked' = [asked EXCEPT ![f] = IF @.there THEN served ELSE @]
  <2>1. /\ Write(Answered(call.row), once) \/ Write(Unanswered(call.row), none)
        /\ Ends(c) /\ UNCHANGED <<blobs, cleared>> /\ call.at = "model"
    BY <1>10 DEF Review
  <2>2. call.row.there /\ Answered(call.row).there /\ Unanswered(call.row).there
    BY <1>00, <1>known, <2>1, RowsWrittenBack DEF FileCallKnown
  <2>3. CASE Write(Answered(call.row), once)
    <3>1. PICK row : row = Answered(call.row)
      OBVIOUS
    <3>2. PICK served : served = IF asked[g].there THEN once ELSE asked[g]
      OBVIOUS
    <3>3. files' = [files EXCEPT ![g] = row] /\ asked' = [asked EXCEPT ![g] = served]
      BY <1>g, <2>3, <3>1, <3>2
    <3>4. files[g] = call.row /\ asked[g] = call.row => served = row
      BY <1>g, <2>2, <3>1, <3>2 DEF Answered
    <3>5. QED
      BY <1>9, <2>1, <2>2, <3>1, <3>3, <3>4
  <2>4. CASE Write(Unanswered(call.row), none)
    <3>1. PICK row : row = Unanswered(call.row)
      OBVIOUS
    <3>2. PICK served : served = IF asked[g].there THEN none ELSE asked[g]
      OBVIOUS
    <3>3. files' = [files EXCEPT ![g] = row] /\ asked' = [asked EXCEPT ![g] = served]
      BY <1>g, <2>4, <3>1, <3>2
    <3>4. files[g] = call.row /\ asked[g] = call.row => served = row
      BY <1>g, <2>2, <3>1, <3>2 DEF Unanswered
    <3>5. QED
      BY <1>9, <2>1, <2>2, <3>1, <3>3, <3>4
  <2>5. QED
    BY <2>1, <2>3, <2>4
<1>11. CASE SaveFlags(c)
  <2>1. call.at = "save" /\ Ends(c) /\ UNCHANGED <<blobs, cleared>>
    BY <1>11 DEF SaveFlags
  <2>2. call.row.there
    BY <1>known, <2>1 DEF FileCallKnown
  <2>3. ASSUME NEW b \in BOOLEAN,
               files' = [files EXCEPT ![g] = [call.row EXCEPT !.shared = b]],
               asked' = [asked EXCEPT ![g].shared = IF asked[g].there THEN b ELSE @]
        PROVE  FilesKnown'
    <3>1. PICK row : row = [call.row EXCEPT !.shared = b]
      OBVIOUS
    <3>2. PICK served : served = [asked[g] EXCEPT !.shared = IF asked[g].there THEN b ELSE @]
      OBVIOUS
    <3>3. files' = [files EXCEPT ![g] = row] /\ asked' = [asked EXCEPT ![g] = served]
      BY <1>0, <2>3, <3>1, <3>2
    <3>4. row.there
      BY <1>00, <2>2, <3>1 DEF Record
    <3>5. files[g] = call.row /\ asked[g] = call.row => served = row
      BY <2>2, <3>1, <3>2
    <3>6. QED
      BY <1>9, <2>1, <3>3, <3>4, <3>5
  <2>4. ASSUME NEW b \in BOOLEAN,
               files' = [files EXCEPT ![g] = [call.row EXCEPT !.useInBoard = b]],
               asked' = [asked EXCEPT ![g].useInBoard = IF asked[g].there THEN b ELSE @]
        PROVE  FilesKnown'
    <3>1. PICK row : row = [call.row EXCEPT !.useInBoard = b]
      OBVIOUS
    <3>2. PICK served : served = [asked[g] EXCEPT !.useInBoard = IF asked[g].there THEN b ELSE @]
      OBVIOUS
    <3>3. files' = [files EXCEPT ![g] = row] /\ asked' = [asked EXCEPT ![g] = served]
      BY <1>0, <2>4, <3>1, <3>2
    <3>4. row.there
      BY <1>00, <2>2, <3>1 DEF Record
    <3>5. files[g] = call.row /\ asked[g] = call.row => served = row
      BY <2>2, <3>1, <3>2
    <3>6. QED
      BY <1>9, <2>1, <3>3, <3>4, <3>5
  <2>5. QED
    BY <1>11, <1>g, <2>3, <2>4 DEF SaveFlags
\* deleteFile() and deleteAllFiles()
<1>12. CASE ListChunks(c)
  <2>1. PICK new : new = [call EXCEPT !.at = IF blobs[call.file] = "none" THEN "forget"
                                             ELSE "remove"]
    OBVIOUS
  <2>2. /\ new.at = (IF blobs[call.file] = "none" THEN "forget" ELSE "remove")
        /\ new.file = call.file /\ new.rest = call.rest
    BY <1>0, <2>1 DEF FileCall
  <2>3. Goes(c, new) /\ UNCHANGED <<files, blobs, asked, cleared>> /\ call.at = "list"
    BY <1>12, <2>1 DEF ListChunks
  <2>4. new.file \in cleared /\ new.rest \subseteq cleared
    BY <1>known, <2>2, <2>3 DEF FileCallKnown
  <2>5. FileCallKnown(new)'
    BY <2>2, <2>3, <2>4 DEF FileCallKnown, Uploading
  <2>6. \A d \in Tab \ {c} : FilesApart(new, fileCalls[d]) /\ FilesApart(fileCalls[d], new)
    BY <1>there, <2>2, <2>4 DEF Uploading
  <2>7. QED
    BY <1>0, <2>3, <2>5, <2>6, FilesUnchanged
<1>13. CASE RemoveChunk(c)
  <2>1. PICK new : new = [call EXCEPT !.at = IF blobs[call.file] = "all" THEN "remove"
                                             ELSE "forget"]
    OBVIOUS
  <2>2. /\ new.at = (IF blobs[g] = "all" THEN "remove" ELSE "forget")
        /\ new.file = g /\ new.rest = call.rest
    BY <1>0, <1>g, <2>1 DEF FileCall
  <2>3. /\ blobs' = [blobs EXCEPT ![g] = IF @ = "all" THEN "some" ELSE "none"]
        /\ Goes(c, new) /\ UNCHANGED <<files, asked, cleared>> /\ call.at = "remove"
    BY <1>13, <1>g, <2>1 DEF RemoveChunk
  <2>4. g \in cleared /\ new.rest \subseteq cleared
    BY <1>known, <1>g, <2>2, <2>3 DEF FileCallKnown
  <2>5. /\ blobs'[g] = (IF blobs[g] = "all" THEN "some" ELSE "none")
        /\ \A f \in FileId \ {g} :
             files'[f] = files[f] /\ asked'[f] = asked[f] /\ blobs'[f] = blobs[f]
    BY <1>0, <2>3
  <2>6. FileCallKnown(new)'
    BY <2>2, <2>3, <2>4, <2>5 DEF FileCallKnown, Uploading
  <2>7. \A d \in Tab \ {c} : FilesApart(new, fileCalls[d]) /\ FilesApart(fileCalls[d], new)
    BY <1>there, <2>2, <2>4 DEF Uploading
  <2>8. g \notin overlapped' => files'[g] = asked'[g]
    BY <1>grows, <1>inturn, <2>3
  <2>9. files[g].there \/ blobs[g] = "none"
    BY <2>4 DEF FilesKnown
  <2>10. /\ call.at \notin {"idle", "count"} /\ (blobs[g] = "none" => blobs'[g] = "none")
         /\ files'[g].there \/ blobs'[g] = "none"
         /\ files' = files /\ cleared' = cleared
    BY <2>3, <2>5, <2>9
  <2>11. QED
    BY <1>0, <1>g, <2>3, <2>4, <2>5, <2>6, <2>7, <2>8, <2>10, FilesFrame
<1>14. CASE RemoveRecord(c)
  <2>1. /\ files' = [files EXCEPT ![g] = NoRecord] /\ asked' = [asked EXCEPT ![g] = NoRecord]
        /\ UNCHANGED <<blobs, cleared>> /\ call.at = "forget"
    BY <1>14, <1>g DEF RemoveRecord
  <2>2. g \in cleared /\ blobs[g] = "none" /\ call.rest \subseteq cleared
    BY <1>g, <1>known, <2>1 DEF FileCallKnown
  <2>3. /\ files'[g] = NoRecord /\ asked'[g] = NoRecord
        /\ \A f \in FileId \ {g} :
             files'[f] = files[f] /\ asked'[f] = asked[f] /\ blobs'[f] = blobs[f]
    BY <1>0, <2>1
  <2>4. /\ call.at \notin {"idle", "count"} /\ blobs'[g] = blobs[g] /\ cleared' = cleared
        /\ ~ files'[g].there /\ blobs'[g] = "none"
    BY <2>1, <2>2, <2>3, IdleFileCall
  <2>5. ASSUME NEW new, Goes(c, new), FileCallKnown(new)',
               \A d \in Tab \ {c} : FilesApart(new, fileCalls[d]) /\ FilesApart(fileCalls[d], new)
        PROVE  FilesKnown'
    BY <1>0, <1>g, <2>2, <2>3, <2>4, <2>5, FilesFrame
  <2>6. CASE call.rest = {}
    <3>1. Goes(c, NoFileCall)
      BY <1>14, <2>6 DEF RemoveRecord, Ends
    <3>2. QED
      BY <1>ends, <2>5, <3>1
  <2>7. CASE call.rest # {}
    <3>1. PICK f \in call.rest :
            Goes(c, [call EXCEPT !.at = "list", !.file = f, !.rest = @ \ {f}])
      BY <1>14, <2>7 DEF RemoveRecord
    <3>2. PICK new : new = [call EXCEPT !.at = "list", !.file = f, !.rest = @ \ {f}]
      OBVIOUS
    <3>3. new.at = "list" /\ new.file = f /\ new.rest \subseteq call.rest
      BY <1>0, <3>2 DEF FileCall
    <3>4. new.file \in cleared' /\ new.rest \subseteq cleared'
      BY <2>2, <2>4, <3>1, <3>3
    <3>5. FileCallKnown(new)'
      BY <3>3, <3>4 DEF FileCallKnown, Uploading
    <3>6. \A d \in Tab \ {c} : FilesApart(new, fileCalls[d]) /\ FilesApart(fileCalls[d], new)
      BY <1>there, <2>4, <3>3, <3>4 DEF Uploading
    <3>7. QED
      BY <2>5, <3>1, <3>2, <3>5, <3>6
  <2>8. QED
    BY <2>6, <2>7
<1>15. CASE BeginDeleteAll(c)
  <2>1. PICK f \in Listed :
          Goes(c, [NoFileCall EXCEPT !.at = "list", !.file = f, !.rest = Listed \ {f}])
    BY <1>15 DEF BeginDeleteAll
  <2>2. PICK new : new = [NoFileCall EXCEPT !.at = "list", !.file = f, !.rest = Listed \ {f}]
    OBVIOUS
  <2>3. new.at = "list" /\ new.file = f /\ new.rest = Listed \ {f}
    BY <2>2, IdleFileCall DEF FileCall
  <2>4. UNCHANGED <<files, blobs, asked>> /\ cleared' = cleared \cup Listed
    BY <1>15 DEF BeginDeleteAll
  <2>5. new.file \in cleared' /\ new.rest \subseteq cleared' /\ files[new.file].there
    BY <2>1, <2>3, <2>4 DEF Listed
  <2>6. FileCallKnown(new)'
    BY <2>3, <2>5 DEF FileCallKnown, Uploading
  <2>7. \A d \in Tab \ {c} : FilesApart(new, fileCalls[d]) /\ FilesApart(fileCalls[d], new)
    BY <1>there, <2>3, <2>5 DEF Uploading
  <2>8. cleared \subseteq cleared' /\ \A x \in cleared' \ cleared : files[x].there
    BY <2>4 DEF Listed
  <2>9. QED
    BY <1>0, <2>1, <2>2, <2>4, <2>6, <2>7, <2>8, FilesUnchanged
<1>16. CASE FileCallFails(c)
  BY <1>4, <1>16 DEF FileCallFails
<1>17. QED
  BY <1>2, <1>3, <1>5, <1>6, <1>7, <1>8, <1>10, <1>11, <1>12, <1>13, <1>14, <1>15, <1>16
     DEF FileStep

\* What one step of a tab does to the record and to the files.
LEMMA ServedStep ==
  ASSUME Types, Types', RecordKnown, FilesKnown, NEW c \in Tab, Step(c)
  PROVE  RecordKnown' /\ CheckpointsKept /\ FilesKnown'
<1>0. RecordTypeOK /\ FilesTypeOK /\ FilesTypeOK'
  BY DEF Types, TypeOK
<1>r. ASSUME UNCHANGED recordVars PROVE RecordKnown' /\ CheckpointsKept
  BY <1>r DEF recordVars, RecordKnown, CheckpointsKept, DecisionsServedInTurn, Published
<1>f. ASSUME UNCHANGED fileVars PROVE FilesKnown'
  BY <1>f DEF fileVars, FilesKnown, FileCallKnown, FilesApart, RecordHasBytes, Listed,
         FilesServedInTurn, WorksOn
<1>1. CASE UNCHANGED <<recordVars, fileVars>>
  BY <1>1, <1>r, <1>f
<1>2. CASE RecordStep(c) /\ UNCHANGED fileVars
  BY <1>0, <1>2, <1>f, RecordKnownStep
<1>3. CASE (FileStep(c) \/ FileCallFails(c)) /\ UNCHANGED recordVars
  BY <1>0, <1>3, <1>r, FilesKnownStep
<1>4. CASE BeginErase(c)
  BY <1>0, <1>4, <1>r, <1>f, FilesKnownStep DEF BeginErase
<1>5. CASE EraseRecord(c)
  <2>1. PICK rows \in RowsThere : rows = erasing[c].rows
    BY DEF Types, TypeOK, Erasing
  <2>2. /\ decisions' = [d \in DecisionId |-> IF d \in rows.decisions THEN NoDecision
                                              ELSE decisions[d]]
        /\ said' = [d \in DecisionId |-> IF d \in rows.decisions THEN NoDecision ELSE said[d]]
        /\ contested' = contested \cup
             {d \in rows.decisions : \E e \in Tab : HasDecision(recordCalls[e], d)}
        /\ checkpoints' = [n \in 1..MaxCheckpoints |->
             IF n \in rows.checkpoints THEN NoCheckpoint ELSE checkpoints[n]]
        /\ UNCHANGED recordCalls /\ Erase(c, "record", "lessons")
    BY <1>5, <2>1, Zenon DEF EraseRecord
  <2>3. \A d \in DecisionId \ contested' :
          /\ decisions'[d] = said'[d]
          /\ \/ decisions'[d] = decisions[d]
             \/ \A e \in Tab : ~ HasDecision(recordCalls[e], d)
    BY <2>2 DEF RecordKnown, DecisionsServedInTurn
  <2>4. Published' \subseteq Published /\ contested \subseteq contested'
    BY <2>2 DEF Published
  <2>5. CheckpointsKept
    BY <2>2 DEF CheckpointsKept, Published
  <2>6. RecordKnown'
    BY <2>2, <2>3, <2>4, RowsFrame
  <2>7. QED
    BY <1>f, <2>2, <2>5, <2>6 DEF Erase
<1>6. CASE \/ ListToErase(c) \/ EraseLessons(c) \/ EraseMeta(c) \/ EraseHorizon(c)
           \/ EraseFails(c)
  BY <1>1, <1>6 DEF ListToErase, EraseLessons, EraseMeta, EraseHorizon, EraseFails, Erase
<1>7. CASE FilesFail(c)
  BY <1>3, <1>7 DEF FilesFail
<1>8. QED
  BY <1>1, <1>2, <1>3, <1>4, <1>5, <1>6, <1>7 DEF Step

\* At first there is nothing on record and no file.
LEMMA ServedAtFirst == Init => RecordKnown /\ FilesKnown
<1> SUFFICES ASSUME Init PROVE RecordKnown /\ FilesKnown
  OBVIOUS
<1>1. RecordKnown
  BY IdleRecordCall DEF Init, RecordInit, RecordKnown, DecisionsServedInTurn, HasDecision
<1>2. /\ files = [f \in FileId |-> NoRecord] /\ asked = files
      /\ fileCalls = [d \in Tab |-> NoFileCall] /\ cleared = {}
  BY DEF Init, FilesInit
<1>3. \A d \in Tab : fileCalls[d] = NoFileCall
  BY <1>2
<1>4. Listed = {}
  BY <1>2, IdleFileCall DEF Listed
<1>5. QED
  BY <1>1, <1>2, <1>3, <1>4, IdleFileCall
     DEF FilesKnown, FileCallKnown, FilesApart, RecordHasBytes, FilesServedInTurn, WorksOn,
         Uploading

\* Where nothing changes, what is known of record and files holds still.
LEMMA ServedSame == RecordKnown /\ FilesKnown /\ UNCHANGED vars => RecordKnown' /\ FilesKnown'
BY DEF vars, recordVars, fileVars, RecordKnown, DecisionsServedInTurn, Published, FilesKnown,
       FileCallKnown, FilesApart, RecordHasBytes, Listed, FilesServedInTurn, WorksOn

\* What no other request was at meanwhile is left as was asked, of files, whose
\* bytes are there, of decisions and of the checkpoints published.
THEOREM ServedHolds == Spec => ServedInTurn
<1>1. Types /\ Types' /\ RecordKnown /\ FilesKnown /\ [Next]_vars
        => /\ RecordKnown' /\ FilesKnown'
           /\ [RecordHasBytes' /\ FilesServedInTurn' /\ DecisionsServedInTurn'
                 /\ CheckpointsKept]_vars
  <2> SUFFICES ASSUME Types, Types', RecordKnown, FilesKnown, [Next]_vars
               PROVE  /\ RecordKnown' /\ FilesKnown'
                      /\ [RecordHasBytes' /\ FilesServedInTurn' /\ DecisionsServedInTurn'
                            /\ CheckpointsKept]_vars
    OBVIOUS
  <2>1. CASE Next
    BY <2>1, ServedStep DEF Next, RecordKnown, FilesKnown
  <2>2. CASE UNCHANGED vars
    BY <2>2, ServedSame
  <2>3. QED
    BY <2>1, <2>2
<1>2. QED
  BY <1>1, ServedAtFirst, WorkspaceTypes, PTL DEF Spec, ServedInTurn

-----------------------------------------------------------------------------
(* The deletion.  It goes through rows it has listed, so nothing else may  *)
(* be under way: what a tab is at, and what a step of another changes of   *)
(* it, comes first.                                                        *)

\* A tab works on one thing at a time, but a deletion deletes files and a scan or
\* an outcome proposes lessons.
OneAt(l, r, f, s, e) ==
  /\ e # "idle" => /\ l = "idle" /\ r = "idle" /\ s = "idle"
                   /\ f \in {"idle", "list", "remove", "forget"}
                   /\ e # "files" => f = "idle"
  /\ f # "idle" => l = "idle" /\ r = "idle" /\ s = "idle"
  /\ r # "idle" => l = "idle" /\ s = "idle"
  /\ s \notin {"idle", "lessons"} => l = "idle"

OneAtATime ==
  \A c \in Tab : OneAt(lessonCalls[c].at, recordCalls[c].at, fileCalls[c].at, scans[c].at,
                       erasing[c].at)

\* A step on lessons is of a tab that is at one or begins, and is its own.
LEMMA LessonMoves ==
  ASSUME LessonsTypeOK, NEW c \in Tab, LessonStep(c)
  PROVE  /\ Arrive \/ lessonCalls[c].at # "idle"
         /\ \A d \in Tab \ {c} : lessonCalls'[d] = lessonCalls[d]
BY DEF LessonsTypeOK, LessonStep, TeachLesson, TeachSignal, Study, BeginAdding, BeginReview,
       WriteReview, CheckOffer, PutLesson, ListActive, RetireOldest, LessonCallFails

\* A step on the record is its tab's own; when it ends it may propose lessons.
LEMMA RecordMoves ==
  ASSUME RecordTypeOK, LessonsTypeOK, NEW c \in Tab, RecordStep(c)
  PROVE  /\ Arrive \/ recordCalls[c].at # "idle"
         /\ \A d \in Tab \ {c} : /\ recordCalls'[d].at = recordCalls[d].at
                                 /\ lessonCalls'[d] = lessonCalls[d]
         /\ \/ lessonCalls'[c] = lessonCalls[c]
            \/ recordCalls[c].at # "idle" /\ recordCalls'[c].at = "idle"
<1>0. recordCalls \in [Tab -> RecordCall] /\ lessonCalls \in [Tab -> LessonCall]
  BY DEF RecordTypeOK, LessonsTypeOK
<1>1. Arrive \/ recordCalls[c].at # "idle"
  BY DEF RecordStep, LogDecision, RecordQuestion, BeginEdit, BeginDrop, BeginOutcome,
     ReadDecision, SaveEdit, DropDecision, SaveOutcome, Reflect, LogEvent, BeginUnlog,
     UnlogEvent, BeginPublish, SaveCheckpoint, RecordCallFails, BeginRecord
<1>2. CASE Reflect(c)
  <2>1. /\ recordCalls[c].at = "reflect" /\ RecordGoes(c, NoRecordCall)
        /\ \A d \in Tab \ {c} : lessonCalls'[d] = lessonCalls[d]
    BY <1>0, <1>2 DEF Reflect
  <2>2. /\ recordCalls'[c] = NoRecordCall
        /\ \A d \in Tab \ {c} : recordCalls'[d] = recordCalls[d]
    BY <1>0, <2>1 DEF RecordGoes
  <2>3. QED
    BY <1>1, <2>1, <2>2, IdleRecordCall
<1>3. CASE SaveCheckpoint(c)
  <2>1. /\ recordCalls' = [d \in Tab |->
             IF d = c THEN NoRecordCall
             ELSE [recordCalls[d] EXCEPT !.behind = @ \/ recordCalls[d].at = "insight"]]
        /\ UNCHANGED lessonCalls
    BY <1>3 DEF SaveCheckpoint, lessonVars
  <2>2. ASSUME NEW d \in Tab \ {c} PROVE recordCalls'[d].at = recordCalls[d].at
    <3>1. recordCalls[d] \in RecordCall
      BY <1>0
    <3>2. QED
      BY <2>1, <3>1 DEF RecordCall
  <2>3. QED
    BY <1>1, <2>1, <2>2
<1>4. CASE \E new : RecordGoes(c, new) /\ UNCHANGED lessonVars
  BY <1>0, <1>1, <1>4 DEF RecordGoes, lessonVars
<1>5. CASE UNCHANGED <<recordCalls, lessonVars>>
  BY <1>1, <1>5 DEF lessonVars
<1>6. QED
  BY <1>2, <1>3, <1>4, <1>5
     DEF RecordStep, LogDecision, RecordQuestion, BeginEdit, BeginDrop, BeginOutcome,
         ReadDecision, SaveEdit, DropDecision, SaveOutcome, LogEvent, BeginUnlog,
         UnlogEvent, BeginPublish, RecordCallFails, Others

\* The files a deletion has still to go through.
Left(call) == IF call.at = "idle" THEN {} ELSE {call.file} \cup call.rest

\* A step on files is its tab's own; one that deletes goes through what it listed.
LEMMA FileMoves ==
  ASSUME FilesTypeOK, NEW c \in Tab, FileStep(c) \/ FileCallFails(c) \/ BeginDeleteAll(c)
  PROVE  /\ FileStep(c) \/ FileCallFails(c) => Arrive \/ fileCalls[c].at # "idle"
         /\ \A d \in Tab \ {c} : fileCalls'[d] = fileCalls[d]
         /\ fileCalls[c].at \in {"list", "remove", "forget"} =>
              fileCalls'[c].at \in {"idle", "list", "remove", "forget"}
         /\ fileCalls[c].at \in {"list", "remove", "forget"} /\ FileStep(c)
              /\ Listed \subseteq Left(fileCalls[c]) => Listed' \subseteq Left(fileCalls'[c])
<1>0. fileCalls \in [Tab -> FileCall] /\ fileCalls[c] \in FileCall
      /\ files \in [FileId -> Record]
  BY DEF FilesTypeOK
<1> DEFINE call == fileCalls[c]
<1>1. FileStep(c) \/ FileCallFails(c) => Arrive \/ call.at # "idle"
  BY DEF FileStep, BeginUpload, BeginAsk, BeginUpdate, BeginDelete, Get, CountFiles, StoreChunk,
     PutRecord, ReadBytes, Review, SaveFlags, ListChunks, RemoveChunk, RemoveRecord,
     FileCallFails
<1>2. \E new : Goes(c, new)
  BY DEF FileStep, BeginUpload, BeginAsk, BeginUpdate, BeginDelete, Get, CountFiles, StoreChunk,
     PutRecord, ReadBytes, Review, SaveFlags, ListChunks, RemoveChunk, RemoveRecord,
     FileCallFails, BeginDeleteAll, Ends
<1>3. \A d \in Tab \ {c} : fileCalls'[d] = fileCalls[d]
  BY <1>0, <1>2 DEF Goes
<1>4. ASSUME call.at \in {"list", "remove", "forget"}
      PROVE  ListChunks(c) \/ RemoveChunk(c) \/ RemoveRecord(c) \/ FileCallFails(c)
  BY <1>4
     DEF FileStep, BeginUpload, BeginAsk, BeginUpdate, BeginDelete, Get, CountFiles, StoreChunk,
         PutRecord, ReadBytes, Review, SaveFlags, BeginDeleteAll
<1>5. ASSUME FileCallFails(c)
      PROVE  fileCalls'[c].at = "idle"
  BY <1>0, <1>5, IdleFileCall DEF FileCallFails, Ends, Goes
<1>6. ASSUME ListChunks(c) \/ RemoveChunk(c)
      PROVE  /\ fileCalls'[c].at \in {"list", "remove", "forget"}
             /\ Left(fileCalls'[c]) = Left(call) /\ Listed' = Listed
  <2>1. PICK at \in {"remove", "forget"} : Goes(c, [call EXCEPT !.at = at])
    BY <1>6 DEF ListChunks, RemoveChunk
  <2>2. PICK new : new = [call EXCEPT !.at = at]
    OBVIOUS
  <2>3. new.at = at /\ new.file = call.file /\ new.rest = call.rest
    BY <1>0, <2>2 DEF FileCall
  <2>4. fileCalls'[c] = new
    BY <1>0, <2>1, <2>2 DEF Goes
  <2>5. call.at # "idle" /\ UNCHANGED files
    BY <1>6 DEF ListChunks, RemoveChunk
  <2>6. QED
    BY <2>3, <2>4, <2>5 DEF Left, Listed
<1>7. ASSUME RemoveRecord(c)
      PROVE  /\ fileCalls'[c].at \in {"idle", "list"}
             /\ Listed \subseteq Left(call) => Listed' \subseteq Left(fileCalls'[c])
  <2>1. files' = [files EXCEPT ![call.file] = NoRecord] /\ call.at = "forget"
    BY <1>7 DEF RemoveRecord
  <2>2. Listed' \subseteq Listed \ {call.file}
    BY <1>0, <2>1, IdleFileCall DEF Listed, FileCall
  <2>3. Listed \subseteq Left(call) => Listed' \subseteq call.rest
    BY <2>1, <2>2 DEF Left
  <2>4. CASE call.rest = {}
    <3>1. fileCalls'[c] = NoFileCall
      BY <1>0, <1>7, <2>4 DEF RemoveRecord, Ends, Goes
    <3>2. QED
      BY <2>3, <2>4, <3>1, IdleFileCall DEF Left
  <2>5. CASE call.rest # {}
    <3>1. PICK f \in call.rest :
            Goes(c, [call EXCEPT !.at = "list", !.file = f, !.rest = @ \ {f}])
      BY <1>7, <2>5 DEF RemoveRecord
    <3>2. PICK new : new = [call EXCEPT !.at = "list", !.file = f, !.rest = @ \ {f}]
      OBVIOUS
    <3>3. new.at = "list" /\ new.file = f /\ new.rest = call.rest \ {f}
      BY <1>0, <3>2 DEF FileCall
    <3>4. fileCalls'[c] = new
      BY <1>0, <3>1, <3>2 DEF Goes
    <3>5. QED
      BY <2>3, <3>1, <3>3, <3>4 DEF Left
  <2>6. QED
    BY <2>4, <2>5
<1>8. ASSUME FileStep(c), call.at \in {"list", "remove", "forget"}
      PROVE  ListChunks(c) \/ RemoveChunk(c) \/ RemoveRecord(c)
  BY <1>8
     DEF FileStep, BeginUpload, BeginAsk, BeginUpdate, BeginDelete, Get, CountFiles, StoreChunk,
         PutRecord, ReadBytes, Review, SaveFlags
<1>9. QED
  BY <1>1, <1>3, <1>4, <1>5, <1>6, <1>7, <1>8

\* A step of a scan is its tab's own; one that proposes lessons waits for them.
LEMMA ScanMoves ==
  ASSUME ScanTypeOK, LessonsTypeOK, NEW c \in Tab, ScanStep(c)
  PROVE  /\ Arrive \/ scans[c].at # "idle"
         /\ \A d \in Tab \ {c} : scans'[d] = scans[d] /\ lessonCalls'[d] = lessonCalls[d]
         /\ \/ lessonCalls'[c] = lessonCalls[c]
            \/ scans[c].at # "idle" /\ scans'[c].at = "lessons"
         /\ scans[c].at = "lessons" => lessonCalls[c].at = "idle"
<1>0. /\ scans \in [Tab -> ScanCall] /\ scans[c] \in ScanCall
      /\ lessonCalls \in [Tab -> LessonCall]
  BY DEF ScanTypeOK, LessonsTypeOK
<1>1. Arrive \/ scans[c].at # "idle"
  BY DEF ScanStep, BeginSettings, SaveSettings, BeginScan, TimerFindsDue, ClaimScan, ListRows,
     Triage, MarkSeen, SearchWeb, KeepSignal, ListSignals, RemoveOldSignal, ForgetOldSeen,
     RefreshLandscape, LessonsProposed, Reload, SaveScan, ScanFails
<1>2. scans[c].at = "lessons" => lessonCalls[c].at = "idle"
  BY DEF ScanStep, BeginSettings, SaveSettings, BeginScan, TimerFindsDue, ClaimScan, ListRows,
     Triage, MarkSeen, SearchWeb, KeepSignal, ListSignals, RemoveOldSignal, ForgetOldSeen,
     RefreshLandscape, LessonsProposed, Reload, SaveScan, ScanFails
<1>3. \E new : ScanGoes(c, new)
  <2>1. CASE MarkSeen(c)
    BY <2>1, Zenon DEF MarkSeen
  <2>2. CASE RemoveOldSignal(c)
    BY <2>2, Zenon DEF RemoveOldSignal
  <2>3. CASE SearchWeb(c)
    BY <2>3, Zenon DEF SearchWeb
  <2>4. QED
    BY <2>1, <2>2, <2>3 DEF ScanStep, BeginSettings, SaveSettings, BeginScan, TimerFindsDue,
       ClaimScan, ListRows, Triage, KeepSignal, ListSignals, ForgetOldSeen, RefreshLandscape,
       LessonsProposed, Reload, SaveScan, ScanFails
<1>4. \A d \in Tab \ {c} : scans'[d] = scans[d]
  BY <1>0, <1>3 DEF ScanGoes
<1>5. CASE RefreshLandscape(c)
  <2>1. \A d \in Tab \ {c} : lessonCalls'[d] = lessonCalls[d]
    BY <1>0, <1>5 DEF RefreshLandscape
  <2>2. CASE ScanGoes(c, [scans[c] EXCEPT !.at = "lessons"])
    <3>1. scans'[c].at = "lessons" /\ scans[c].at = "landscape"
      BY <1>0, <1>5, <2>2 DEF ScanGoes, ScanCall, RefreshLandscape
    <3>2. QED
      BY <1>1, <1>2, <1>4, <2>1, <3>1
  <2>3. CASE UNCHANGED lessonCalls
    BY <1>1, <1>2, <1>4, <2>1, <2>3
  <2>4. QED
    BY <1>5, <2>2, <2>3 DEF RefreshLandscape
<1>6. CASE UNCHANGED lessonVars
  BY <1>1, <1>2, <1>4, <1>6 DEF lessonVars
<1>7. QED
  BY <1>5, <1>6 DEF ScanStep, BeginSettings, SaveSettings, BeginScan, TimerFindsDue, ClaimScan,
     ListRows, Triage, MarkSeen, SearchWeb, KeepSignal, ListSignals, RemoveOldSignal,
     ForgetOldSeen, LessonsProposed, Reload, SaveScan, ScanFails

\* A step of one tab makes every deletion of another no longer alone.
LEMMA ErasingMoves ==
  ASSUME erasing \in [Tab -> Erasing], NEW c \in Tab, NEW mine, Disturbs(c, mine)
  PROVE  /\ erasing'[c] = mine
         /\ \A d \in Tab \ {c} : erasing'[d].at = erasing[d].at /\ ~ erasing'[d].alone
<1>1. erasing'[c] = mine
  BY DEF Disturbs
<1>2. ASSUME NEW d \in Tab \ {c}
      PROVE  erasing'[d].at = erasing[d].at /\ ~ erasing'[d].alone
  <2>1. erasing[d] \in Erasing
    OBVIOUS
  <2>2. QED
    BY <2>1 DEF Disturbs, Erasing
<1>3. QED
  BY <1>1, <1>2

\* A step of one tab leaves what the others are at.
LEMMA OthersStay ==
  ASSUME Types, NEW c \in Tab, Step(c)
  PROVE  \A d \in Tab \ {c} :
           /\ lessonCalls'[d].at = lessonCalls[d].at /\ recordCalls'[d].at = recordCalls[d].at
           /\ fileCalls'[d].at = fileCalls[d].at /\ scans'[d].at = scans[d].at
           /\ erasing'[d].at = erasing[d].at /\ ~ erasing'[d].alone
<1>0. /\ LessonsTypeOK /\ RecordTypeOK /\ FilesTypeOK /\ ScanTypeOK
      /\ erasing \in [Tab -> Erasing]
  BY DEF Types, TypeOK, ScanTyped
<1>1. \A d \in Tab \ {c} : erasing'[d].at = erasing[d].at /\ ~ erasing'[d].alone
  <2>1. \E mine : Disturbs(c, mine)
    BY Zenon DEF Step, Meanwhile, BeginErase, ListToErase, EraseRecord, EraseLessons, EraseMeta,
       EraseHorizon, EraseFails, FilesFail, Erase
  <2>2. QED
    BY <1>0, <2>1, ErasingMoves
<1>2. CASE LessonStep(c) /\ UNCHANGED <<recordVars, fileVars, scanVars>>
  BY <1>0, <1>1, <1>2, LessonMoves DEF recordVars, fileVars, scanVars
<1>3. CASE RecordStep(c) /\ UNCHANGED <<fileVars, scanVars>>
  BY <1>0, <1>1, <1>3, RecordMoves DEF fileVars, scanVars
<1>4. CASE /\ FileStep(c) \/ FileCallFails(c) \/ BeginDeleteAll(c)
           /\ UNCHANGED <<lessonVars, recordVars, scanVars>>
  BY <1>0, <1>1, <1>4, FileMoves DEF lessonVars, recordVars, scanVars
<1>5. CASE ScanStep(c) /\ UNCHANGED <<recordVars, fileVars>>
  BY <1>0, <1>1, <1>5, ScanMoves DEF recordVars, fileVars
<1>6. CASE UNCHANGED <<lessonCalls, recordCalls, fileCalls, scans>>
  BY <1>1, <1>6
<1>7. CASE BeginErase(c)
  BY <1>4, <1>6, <1>7 DEF BeginErase, lessonVars, recordVars, fileVars, scanVars
<1>8. CASE \/ ListToErase(c) \/ EraseRecord(c) \/ EraseLessons(c) \/ EraseMeta(c)
           \/ EraseHorizon(c) \/ EraseFails(c)
  BY <1>6, <1>8, Zenon DEF ListToErase, EraseRecord, EraseLessons, EraseMeta, EraseHorizon,
     EraseFails, Erase, lessonVars, recordVars, fileVars, scanVars
<1>9. QED
  BY <1>2, <1>3, <1>4, <1>5, <1>7, <1>8 DEF Step, FilesFail

\* Every step of a tab keeps it at one thing at a time.
LEMMA OneStep ==
  ASSUME Types, OneAtATime, NEW c \in Tab, Step(c)
  PROVE  OneAtATime'
<1>0. /\ LessonsTypeOK /\ RecordTypeOK /\ FilesTypeOK /\ ScanTypeOK
      /\ erasing \in [Tab -> Erasing] /\ issued \in Int
  BY DEF Types, TypeOK, ScanTyped
<1> DEFINE l == lessonCalls[c].at
           r == recordCalls[c].at
           f == fileCalls[c].at
           s == scans[c].at
           e == erasing[c].at
<1>one. OneAt(l, r, f, s, e)
  BY DEF OneAtATime
<1>frame. ASSUME OneAt(l', r', f', s', e')
          PROVE  OneAtATime'
  <2>1. ASSUME NEW d \in Tab
        PROVE  OneAt(lessonCalls'[d].at, recordCalls'[d].at, fileCalls'[d].at, scans'[d].at,
                     erasing'[d].at)
    <3>1. CASE d = c
      BY <1>frame, <3>1
    <3>2. CASE d # c
      BY <3>2, OthersStay DEF OneAtATime
    <3>3. QED
      BY <3>1, <3>2
  <2>2. QED
    BY <2>1 DEF OneAtATime, OneAt
<1>meanwhile. ASSUME Meanwhile(c)
              PROVE  /\ e' = e
                     /\ Arrive => l = "idle" /\ r = "idle" /\ f = "idle" /\ s = "idle"
                                  /\ e = "idle"
  <2>1. e' = e
    BY <1>0, <1>meanwhile, ErasingMoves DEF Meanwhile
  <2>2. Arrive => issued' # issued
    BY <1>0 DEF Arrive
  <2>3. QED
    BY <1>meanwhile, <2>1, <2>2 DEF Meanwhile, LetIn, Free
<1>arrives. ASSUME BeginErase(c)
            PROVE  l = "idle" /\ r = "idle" /\ f = "idle" /\ s = "idle" /\ e = "idle"
  <2>1. Arrive /\ LetIn(c)
    BY <1>arrives DEF BeginErase
  <2>2. issued' # issued
    BY <1>0, <2>1 DEF Arrive
  <2>3. QED
    BY <2>1, <2>2 DEF LetIn, Free
<1>1. CASE LessonStep(c) /\ Meanwhile(c) /\ UNCHANGED <<recordVars, fileVars, scanVars>>
  <2>1. UNCHANGED <<recordCalls, fileCalls, scans>>
    BY <1>1 DEF recordVars, fileVars, scanVars
  <2>2. /\ Arrive \/ l # "idle"
    BY <1>0, <1>1, LessonMoves
  <2>3. r' = r /\ f' = f /\ s' = s /\ e' = e
    BY <1>1, <1>meanwhile, <2>1
  <2>4. OneAt(l', r', f', s', e')
    BY <1>1, <1>one, <1>meanwhile, <2>2, <2>3 DEF OneAt
  <2>5. QED
    BY <1>frame, <2>4
<1>2. CASE RecordStep(c) /\ Meanwhile(c) /\ UNCHANGED <<fileVars, scanVars>>
  <2>1. UNCHANGED <<fileCalls, scans>>
    BY <1>2 DEF fileVars, scanVars
  <2>2. /\ Arrive \/ r # "idle"
        /\ l' = l \/ (r # "idle" /\ r' = "idle")
    BY <1>0, <1>2, RecordMoves
  <2>3. f' = f /\ s' = s /\ e' = e
    BY <1>2, <1>meanwhile, <2>1
  <2>4. OneAt(l', r', f', s', e')
    BY <1>2, <1>one, <1>meanwhile, <2>2, <2>3 DEF OneAt
  <2>5. QED
    BY <1>frame, <2>4
<1>3. CASE FileStep(c) /\ Meanwhile(c) /\ UNCHANGED <<lessonVars, recordVars, scanVars>>
  <2>1. UNCHANGED <<lessonCalls, recordCalls, scans>>
    BY <1>3 DEF lessonVars, recordVars, scanVars
  <2>2. /\ Arrive \/ f # "idle"
        /\ f \in {"list", "remove", "forget"} => f' \in {"idle", "list", "remove", "forget"}
    BY <1>0, <1>3, FileMoves
  <2>3. l' = l /\ r' = r /\ s' = s /\ e' = e
    BY <1>3, <1>meanwhile, <2>1
  <2>4. OneAt(l', r', f', s', e')
    BY <1>3, <1>one, <1>meanwhile, <2>2, <2>3 DEF OneAt
  <2>5. QED
    BY <1>frame, <2>4
<1>4. CASE ScanStep(c) /\ Meanwhile(c) /\ UNCHANGED <<recordVars, fileVars>>
  <2>1. UNCHANGED <<recordCalls, fileCalls>>
    BY <1>4 DEF recordVars, fileVars
  <2>2. /\ Arrive \/ s # "idle"
        /\ l' = l \/ (s # "idle" /\ s' = "lessons")
        /\ s = "lessons" => l = "idle"
    BY <1>0, <1>4, ScanMoves
  <2>3. f' = f /\ r' = r /\ e' = e
    BY <1>4, <1>meanwhile, <2>1
  <2>4. OneAt(l', r', f', s', e')
    BY <1>4, <1>one, <1>meanwhile, <2>2, <2>3 DEF OneAt
  <2>5. QED
    BY <1>frame, <2>4
\* The deletion itself.
<1>erasing. ASSUME NEW mine, Disturbs(c, mine),
                   UNCHANGED <<lessonCalls, recordCalls, fileCalls, scans>>,
                   OneAt(l, r, f, s, mine.at)
            PROVE  OneAtATime'
  <2>1. e' = mine.at
    BY <1>0, <1>erasing, ErasingMoves
  <2>2. l' = l /\ r' = r /\ f' = f /\ s' = s
    BY <1>erasing
  <2>3. QED
    BY <1>frame, <1>erasing, <2>1, <2>2
<1>5. CASE BeginErase(c)
  <2>1. PICK mine : /\ Disturbs(c, mine) /\ mine.at = "files"
    <3>1. [NotErasing EXCEPT !.at = "files",
                             !.alone = \A d \in Tab \ {c} : Free(d)].at = "files"
      BY DEF NotErasing
    <3>2. QED
      BY <1>5, <3>1 DEF BeginErase
  <2>2. e' = "files"
    BY <1>0, <2>1, ErasingMoves
  <2>3. UNCHANGED <<lessonCalls, recordCalls, scans>>
    BY <1>5 DEF BeginErase, lessonVars, recordVars, scanVars
  <2>4. f' \in {"idle", "list"}
    <3>1. CASE Listed = {}
      BY <1>5, <1>arrives, <3>1 DEF BeginErase, fileVars
    <3>2. CASE Listed # {}
      <4>1. BeginDeleteAll(c)
        BY <1>5, <3>2 DEF BeginErase
      <4>2. PICK x \in Listed :
              Goes(c, [NoFileCall EXCEPT !.at = "list", !.file = x, !.rest = Listed \ {x}])
        BY <4>1 DEF BeginDeleteAll
      <4>3. [NoFileCall EXCEPT !.at = "list", !.file = x, !.rest = Listed \ {x}].at = "list"
        BY DEF NoFileCall
      <4>4. QED
        BY <1>0, <4>2, <4>3 DEF Goes, FilesTypeOK
    <3>3. QED
      BY <3>1, <3>2
  <2>5. l' = "idle" /\ r' = "idle" /\ s' = "idle"
    BY <1>5, <1>arrives, <2>3
  <2>6. OneAt(l', r', f', s', e')
    BY <2>2, <2>4, <2>5 DEF OneAt
  <2>7. QED
    BY <1>frame, <2>6
<1>6. CASE ListToErase(c)
  <2>1. PICK mine : mine = [erasing[c] EXCEPT !.at = "record", !.rows = CurrentRows]
    OBVIOUS
  <2>2. mine.at = "record"
    BY <1>0, <2>1 DEF Erasing
  <2>3. /\ Disturbs(c, mine) /\ UNCHANGED <<lessonCalls, recordCalls, fileCalls, scans>>
        /\ e = "files" /\ f = "idle"
    BY <1>6, <2>1 DEF ListToErase, lessonVars, recordVars, fileVars, scanVars
  <2>4. OneAt(l, r, f, s, mine.at)
    BY <1>one, <2>2, <2>3 DEF OneAt
  <2>5. QED
    BY <1>erasing, <2>3, <2>4
<1>7. ASSUME NEW at, at \notin {"idle", "files"}, NEW next, next # "files", Erase(c, at, next),
             UNCHANGED <<lessonCalls, recordCalls, fileCalls, scans>>
      PROVE  OneAtATime'
  <2>1. PICK mine : mine = IF next = "idle" THEN NotErasing ELSE [erasing[c] EXCEPT !.at = next]
    OBVIOUS
  <2>2. mine.at = next
    BY <1>0, <2>1, IdleErasing DEF Erasing
  <2>3. Disturbs(c, mine) /\ e = at
    BY <1>7, <2>1 DEF Erase
  <2>4. OneAt(l, r, f, s, mine.at)
    BY <1>one, <1>7, <2>2, <2>3 DEF OneAt
  <2>5. QED
    BY <1>erasing, <1>7, <2>3, <2>4
<1>8. CASE EraseRecord(c) \/ EraseLessons(c) \/ EraseMeta(c) \/ EraseHorizon(c)
  <2>1. /\ UNCHANGED <<lessonCalls, recordCalls, fileCalls, scans>>
        /\ \E at \in {"record", "lessons", "meta", "horizon"},
              next \in {"lessons", "meta", "horizon", "idle"} : Erase(c, at, next)
    BY <1>8, Zenon DEF EraseRecord, EraseLessons, EraseMeta, EraseHorizon, Erase, lessonVars,
       recordVars, fileVars, scanVars
  <2>2. QED
    BY <1>7, <2>1
<1>9. CASE EraseFails(c)
  <2>1. /\ Disturbs(c, NotErasing) /\ UNCHANGED <<lessonCalls, recordCalls, fileCalls, scans>>
    BY <1>9 DEF EraseFails, lessonVars, recordVars, fileVars, scanVars
  <2>2. e \notin {"idle", "files"}
    BY <1>9 DEF EraseFails
  <2>3. OneAt(l, r, f, s, NotErasing.at)
    BY <1>one, <2>2, IdleErasing DEF OneAt
  <2>4. QED
    BY <1>erasing, <2>1, <2>3
<1>10. CASE FilesFail(c)
  <2>1. FileCallFails(c) /\ Disturbs(c, NotErasing) /\ UNCHANGED <<lessonCalls, recordCalls, scans>>
    BY <1>10 DEF FilesFail, lessonVars, recordVars, scanVars
  <2>2. e' = "idle"
    BY <1>0, <2>1, ErasingMoves, IdleErasing
  <2>3. f # "idle" /\ f' = "idle"
    BY <1>0, <2>1, IdleFileCall DEF FileCallFails, Ends, Goes, FilesTypeOK
  <2>4. l' = l /\ r' = r /\ s' = s
    BY <2>1
  <2>5. OneAt(l', r', f', s', e')
    BY <1>one, <2>2, <2>3, <2>4 DEF OneAt
  <2>6. QED
    BY <1>frame, <2>5
<1>11. QED
  BY <1>1, <1>2, <1>3, <1>4, <1>5, <1>6, <1>8, <1>9, <1>10 DEF Step

Alone(c) == erasing[c].at # "idle" /\ erasing[c].alone

\* What is left of the rows when a deletion has come this far, alone.
LeftAt(c) ==
  LET at == erasing[c].at
      rows == erasing[c].rows
  IN
  /\ at = "files" => Listed \subseteq Left(fileCalls[c])
  /\ at # "files" => Listed = {} /\ rows.signals = signals /\ rows.seen = seen
  /\ at \in {"record", "lessons"} => rows.lessons = Stored(lessons)
  /\ at = "record" => /\ \A d \in DecisionId : decisions[d].there => d \in rows.decisions
                      /\ events = rows.events /\ Published = rows.checkpoints
  /\ at \in {"lessons", "meta", "horizon"} =>
       (\A d \in DecisionId : ~ decisions[d].there) /\ events = {} /\ Published = {}
  /\ at \in {"meta", "horizon"} => Stored(lessons) = {} /\ ~ landscape
  /\ at = "horizon" => ~ meta.there

Gone == CurrentRows = NoRows /\ ~ landscape /\ ~ meta.there /\ Listed = {}

\* Nobody is at anything besides a deletion that is alone, nor after it.
ErasureKnown ==
  /\ \A c \in Tab : Alone(c) => LeftAt(c) /\ \A d \in Tab \ {c} : Free(d)
  /\ erased => Gone /\ \A c \in Tab : Free(c)

\* Only a request that is let in makes a free tab do something.
LEMMA Busy ==
  ASSUME Types, NEW c \in Tab, Step(c)
  PROVE  meta.there \/ ~ Free(c)
<1>0. /\ LessonsTypeOK /\ RecordTypeOK /\ FilesTypeOK /\ ScanTypeOK
      /\ erasing \in [Tab -> Erasing] /\ issued \in Int
  BY DEF Types, TypeOK, ScanTyped
<1>1. Arrive /\ LetIn(c) => meta.there
  BY <1>0 DEF Arrive, LetIn
<1>2. CASE LessonStep(c) /\ LetIn(c)
  BY <1>0, <1>1, <1>2, LessonMoves DEF Free
<1>3. CASE RecordStep(c) /\ LetIn(c)
  BY <1>0, <1>1, <1>3, RecordMoves DEF Free
<1>4. CASE FileStep(c) /\ LetIn(c)
  BY <1>0, <1>1, <1>4, FileMoves DEF Free
<1>5. CASE ScanStep(c) /\ LetIn(c)
  BY <1>0, <1>1, <1>5, ScanMoves DEF Free
<1>6. CASE BeginErase(c)
  BY <1>1, <1>6 DEF BeginErase
<1>7. CASE \/ ListToErase(c) \/ EraseRecord(c) \/ EraseLessons(c) \/ EraseMeta(c)
           \/ EraseHorizon(c) \/ EraseFails(c)
  BY <1>7 DEF ListToErase, EraseRecord, EraseLessons, EraseMeta, EraseHorizon, EraseFails,
     Erase, Free
<1>8. CASE FilesFail(c)
  BY <1>8 DEF FilesFail, FileCallFails, Free
<1>9. QED
  BY <1>2, <1>3, <1>4, <1>5, <1>6, <1>7, <1>8 DEF Step, Meanwhile

\* Every step of a tab keeps what is known of the deletions under way.
LEMMA ErasureStep ==
  ASSUME Types, Types', OneAtATime, ErasureKnown, NEW c \in Tab, Step(c)
  PROVE  ErasureKnown'
<1>0. /\ LessonsTypeOK /\ RecordTypeOK /\ FilesTypeOK /\ ScanTypeOK
      /\ erasing \in [Tab -> Erasing] /\ erasing[c] \in Erasing /\ issued \in Int
  BY DEF Types, TypeOK, ScanTyped
<1>1. ~ erased
  BY Busy DEF ErasureKnown, Gone
<1>2. \A d \in Tab \ {c} : Free(d) => Free(d)'
  BY OthersStay DEF Free
\* Only the deletion of this tab can still be alone.
<1>3. ASSUME Alone(c)' => LeftAt(c)' /\ \A d \in Tab \ {c} : Free(d),
             erased' => Gone' /\ Free(c)' /\ \A d \in Tab \ {c} : Free(d)
      PROVE  ErasureKnown'
  <2>1. \A d \in Tab \ {c} : ~ Alone(d)'
    BY OthersStay DEF Alone
  <2>2. ASSUME NEW d \in Tab, Alone(d)'
        PROVE  LeftAt(d)' /\ \A e \in Tab \ {d} : Free(e)'
    <3>1. d = c
      BY <2>1, <2>2
    <3>2. QED
      BY <1>2, <1>3, <2>2, <3>1
  <2>3. erased' => Gone' /\ \A d \in Tab : Free(d)'
    BY <1>2, <1>3
  <2>4. QED
    BY <2>2, <2>3 DEF ErasureKnown
<1>4. Alone(c) => LeftAt(c) /\ \A d \in Tab \ {c} : Free(d)
  BY DEF ErasureKnown
<1>one. OneAt(lessonCalls[c].at, recordCalls[c].at, fileCalls[c].at, scans[c].at,
              erasing[c].at)
  BY DEF OneAtATime
\* Other requests find the tab deleting, or are not let in.
<1>meanwhile. ASSUME Meanwhile(c)
              PROVE  /\ erasing'[c] = erasing[c] /\ ~ erased'
                     /\ Arrive => erasing[c].at = "idle"
  <2>1. erasing'[c] = erasing[c] /\ ~ erased'
    BY <1>0, <1>1, <1>meanwhile, ErasingMoves DEF Meanwhile
  <2>2. Arrive => issued' # issued
    BY <1>0 DEF Arrive
  <2>3. QED
    BY <1>meanwhile, <2>1, <2>2 DEF Meanwhile, LetIn, Free
<1>5. ASSUME Meanwhile(c), LessonStep(c) \/ RecordStep(c) \/ ScanStep(c)
      PROVE  ErasureKnown'
  <2>1. \/ Arrive \/ lessonCalls[c].at # "idle" \/ recordCalls[c].at # "idle"
        \/ scans[c].at # "idle"
    BY <1>0, <1>5, LessonMoves, RecordMoves, ScanMoves
  <2>2. erasing[c].at = "idle"
    BY <1>5, <1>meanwhile, <1>one, <2>1 DEF OneAt
  <2>3. ~ Alone(c)'
    BY <1>5, <1>meanwhile, <2>2 DEF Alone
  <2>4. QED
    BY <1>3, <1>5, <1>meanwhile, <2>3
<1>6. CASE FileStep(c) /\ Meanwhile(c) /\ UNCHANGED <<lessonVars, recordVars, scanVars>>
  <2>1. ASSUME Alone(c)'
        PROVE  LeftAt(c)' /\ \A d \in Tab \ {c} : Free(d)
    <3>1. Alone(c) /\ erasing'[c] = erasing[c]
      BY <1>6, <1>meanwhile, <2>1 DEF Alone
    <3>2. LeftAt(c) /\ \A d \in Tab \ {c} : Free(d)
      BY <1>4, <3>1
    <3>3. fileCalls[c].at # "idle"
      BY <1>0, <1>6, <1>meanwhile, <3>1, FileMoves DEF Alone
    <3>4. erasing[c].at = "files" /\ fileCalls[c].at \in {"list", "remove", "forget"}
      BY <1>one, <3>1, <3>3 DEF OneAt, Alone
    <3>5. Listed' \subseteq Left(fileCalls'[c])
      BY <1>0, <1>6, <3>2, <3>4, FileMoves DEF LeftAt
    <3>6. Listed' \subseteq Left(fileCalls[c])'
      BY <3>5 DEF Left
    <3>7. QED
      BY <3>1, <3>2, <3>4, <3>6 DEF LeftAt
  <2>2. QED
    BY <1>3, <1>6, <1>meanwhile, <2>1
<1>7. CASE BeginErase(c)
  <2>1. PICK mine : mine = [NotErasing EXCEPT !.at = "files",
                                              !.alone = \A d \in Tab \ {c} : Free(d)]
    OBVIOUS
  <2>2. mine.at = "files" /\ (mine.alone => \A d \in Tab \ {c} : Free(d))
    BY <2>1 DEF NotErasing
  <2>3. erasing'[c] = mine /\ ~ erased'
    BY <1>0, <1>1, <1>7, <2>1, ErasingMoves DEF BeginErase
  <2>4. Listed' \subseteq Left(fileCalls[c])'
    <3>1. CASE Listed = {}
      BY <1>7, <3>1 DEF BeginErase, fileVars, Listed
    <3>2. CASE Listed # {}
      <4>1. BeginDeleteAll(c)
        BY <1>7, <3>2 DEF BeginErase
      <4>2. PICK x \in Listed :
              Goes(c, [NoFileCall EXCEPT !.at = "list", !.file = x, !.rest = Listed \ {x}])
        BY <4>1 DEF BeginDeleteAll
      <4>3. PICK new : new = [NoFileCall EXCEPT !.at = "list", !.file = x, !.rest = Listed \ {x}]
        OBVIOUS
      <4>4. new.at = "list" /\ new.file = x /\ new.rest = Listed \ {x}
        BY <4>3 DEF NoFileCall
      <4>5. fileCalls'[c] = new
        BY <1>0, <4>2, <4>3 DEF Goes, FilesTypeOK
      <4>6. Listed' = Listed
        BY <4>1 DEF BeginDeleteAll, Listed
      <4>7. QED
        BY <4>4, <4>5, <4>6 DEF Left
    <3>3. QED
      BY <3>1, <3>2
  <2>5. QED
    BY <1>3, <2>2, <2>3, <2>4 DEF Alone, LeftAt
<1>8. CASE ListToErase(c)
  <2>1. PICK mine : mine = [erasing[c] EXCEPT !.at = "record", !.rows = CurrentRows]
    OBVIOUS
  <2>2. mine.at = "record" /\ mine.alone = erasing[c].alone /\ mine.rows = CurrentRows
    BY <1>0, <2>1 DEF Erasing
  <2>3. /\ Disturbs(c, mine) /\ UNCHANGED <<lessons, decisions, events, checkpoints, files,
                                           signals, seen, erased>>
        /\ erasing[c].at = "files" /\ fileCalls[c].at = "idle"
    BY <1>8, <2>1 DEF ListToErase, lessonVars, recordVars, fileVars, scanVars
  <2>4. erasing'[c] = mine /\ ~ erased'
    BY <1>0, <1>1, <2>3, ErasingMoves
  <2>5. ASSUME Alone(c)'
        PROVE  LeftAt(c)' /\ \A d \in Tab \ {c} : Free(d)
    <3>1. Alone(c)
      BY <2>2, <2>3, <2>4, <2>5 DEF Alone
    <3>2. Listed = {} /\ \A d \in Tab \ {c} : Free(d)
      BY <1>4, <2>3, <3>1 DEF LeftAt, Left
    <3>3. Listed' = {} /\ Stored(lessons)' = Stored(lessons) /\ Published' = Published
      BY <2>3, <3>2 DEF Listed, Stored, Published
    <3>4. /\ mine.rows.decisions = {d \in DecisionId : decisions[d].there}
          /\ mine.rows.events = events /\ mine.rows.checkpoints = Published
          /\ mine.rows.lessons = Stored(lessons)
          /\ mine.rows.signals = signals /\ mine.rows.seen = seen
      BY <2>2 DEF CurrentRows
    <3>5. QED
      BY <2>2, <2>3, <2>4, <3>2, <3>3, <3>4 DEF LeftAt
  <2>6. QED
    BY <1>3, <2>4, <2>5
\* A kind of row is removed: what the deletion has listed stays.
<1>erase. ASSUME NEW at \in {"record", "lessons", "meta"},
                 NEW next \in {"lessons", "meta", "horizon"}, Erase(c, at, next),
                 Alone(c) => LeftAt(c)'
          PROVE  ErasureKnown'
  <2>1. PICK mine : mine = [erasing[c] EXCEPT !.at = next]
    OBVIOUS
  <2>2. mine.at = next /\ mine.alone = erasing[c].alone
    BY <1>0, <2>1 DEF Erasing
  <2>3. Disturbs(c, mine) /\ ~ erased' /\ erasing[c].at = at
    BY <1>1, <1>erase, <2>1 DEF Erase
  <2>4. erasing'[c] = mine
    BY <1>0, <2>3, ErasingMoves
  <2>5. Alone(c)' => Alone(c)
    BY <2>2, <2>3, <2>4 DEF Alone
  <2>6. QED
    BY <1>3, <1>4, <1>erase, <2>3, <2>5
<1>went. ASSUME NEW at \in {"record", "lessons", "meta"},
                NEW next \in {"lessons", "meta", "horizon"}, Erase(c, at, next)
         PROVE  /\ erasing'[c].at = next /\ erasing'[c].rows = erasing[c].rows
                /\ erasing[c].at = at /\ Listed' = Listed
  <2>1. PICK mine : mine = [erasing[c] EXCEPT !.at = next]
    OBVIOUS
  <2>2. mine.at = next /\ mine.rows = erasing[c].rows
    BY <1>0, <2>1 DEF Erasing
  <2>3. Disturbs(c, mine) /\ erasing[c].at = at /\ Listed' = Listed
    BY <1>went, <2>1 DEF Erase, fileVars, Listed
  <2>4. QED
    BY <1>0, <2>2, <2>3, ErasingMoves
<1>9. CASE EraseRecord(c)
  <2>1. PICK rows \in RowsThere : rows = erasing[c].rows
    BY <1>0 DEF Erasing
  <2>2. /\ decisions' = [d \in DecisionId |-> IF d \in rows.decisions THEN NoDecision
                                              ELSE decisions[d]]
        /\ events' = events \ rows.events
        /\ checkpoints' = [n \in 1..MaxCheckpoints |->
             IF n \in rows.checkpoints THEN NoCheckpoint ELSE checkpoints[n]]
        /\ UNCHANGED <<lessonVars, scanVars>> /\ Erase(c, "record", "lessons")
    BY <1>9, <2>1, Zenon DEF EraseRecord
  <2>3. /\ erasing'[c].at = "lessons" /\ erasing'[c].rows = rows
        /\ erasing[c].at = "record" /\ Listed' = Listed
    BY <1>went, <2>1, <2>2
  <2>4. ASSUME Alone(c) PROVE LeftAt(c)'
    <3>1. LeftAt(c)
      BY <1>4, <2>4
    <3>2. \A d \in DecisionId : ~ decisions'[d].there
      BY <2>1, <2>2, <2>3, <3>1 DEF LeftAt, NoDecision
    <3>3. events' = {} /\ Published' = {}
      BY <2>1, <2>2, <2>3, <3>1 DEF LeftAt, Published
    <3>4. /\ Stored(lessons)' = Stored(lessons) /\ signals' = signals /\ seen' = seen
      BY <2>2 DEF Stored, lessonVars, scanVars
    <3>5. QED
      BY <2>1, <2>3, <3>1, <3>2, <3>3, <3>4 DEF LeftAt
  <2>5. QED
    BY <1>erase, <2>2, <2>4
<1>10. CASE EraseLessons(c)
  <2>1. /\ Erase(c, "lessons", "meta") /\ landscape' = FALSE
        /\ lessons' = [i \in LessonId |-> IF i \in erasing[c].rows.lessons THEN NoLesson
                                          ELSE lessons[i]]
        /\ UNCHANGED <<recordVars, signals, seen>>
    BY <1>10 DEF EraseLessons
  <2>2. /\ erasing'[c].at = "meta" /\ erasing'[c].rows = erasing[c].rows
        /\ erasing[c].at = "lessons" /\ Listed' = Listed
    BY <1>went, <2>1
  <2>3. ASSUME Alone(c) PROVE LeftAt(c)'
    <3>1. LeftAt(c)
      BY <1>4, <2>3
    <3>2. erasing[c].rows.lessons = Stored(lessons)
      BY <2>2, <3>1 DEF LeftAt
    <3>3. Stored(lessons)' = {}
      BY <2>1, <3>2, IdleLessonCall DEF Stored
    <3>4. UNCHANGED <<decisions, events, signals, seen>> /\ Published' = Published
      BY <2>1 DEF recordVars, Published
    <3>5. QED
      BY <2>1, <2>2, <3>1, <3>3, <3>4 DEF LeftAt
  <2>4. QED
    BY <1>erase, <2>1, <2>3
<1>11. CASE EraseMeta(c)
  <2>1. /\ Erase(c, "meta", "horizon") /\ meta' = [meta EXCEPT !.there = FALSE]
        /\ UNCHANGED <<recordVars, lessonVars, Rows>>
    BY <1>11 DEF EraseMeta
  <2>2. /\ erasing'[c].at = "horizon" /\ erasing'[c].rows = erasing[c].rows
        /\ erasing[c].at = "meta" /\ Listed' = Listed
    BY <1>went, <2>1
  <2>3. ASSUME Alone(c) PROVE LeftAt(c)'
    <3>1. LeftAt(c)
      BY <1>4, <2>3
    <3>2. ~ meta'.there
      BY <1>0, <2>1 DEF ScanTypeOK, Workspace
    <3>3. /\ UNCHANGED <<decisions, events, signals, seen, landscape>>
          /\ Published' = Published /\ Stored(lessons)' = Stored(lessons)
      BY <2>1 DEF recordVars, lessonVars, Rows, Published, Stored
    <3>4. QED
      BY <2>2, <3>1, <3>2, <3>3 DEF LeftAt
  <2>4. QED
    BY <1>erase, <2>1, <2>3
<1>12. CASE EraseHorizon(c)
  <2>1. /\ Erase(c, "horizon", "idle")
        /\ signals' = signals \ erasing[c].rows.signals
        /\ seen' = seen \ erasing[c].rows.seen
        /\ UNCHANGED <<recordVars, lessonVars, MetaVars, landscape, scans>>
    BY <1>12 DEF EraseHorizon
  <2>2. /\ Disturbs(c, NotErasing) /\ erased' = erasing[c].alone /\ erasing[c].at = "horizon"
        /\ UNCHANGED fileVars
    BY <2>1 DEF Erase
  <2>3. erasing'[c] = NotErasing
    BY <1>0, <2>2, ErasingMoves
  <2>4. ~ Alone(c)'
    BY <2>3, IdleErasing DEF Alone
  <2>5. ASSUME erased'
        PROVE  Gone' /\ Free(c)' /\ \A d \in Tab \ {c} : Free(d)
    <3>1. LeftAt(c) /\ \A d \in Tab \ {c} : Free(d)
      BY <1>4, <2>2, <2>5 DEF Alone
    <3>2. signals' = {} /\ seen' = {}
      BY <2>1, <2>2, <3>1 DEF LeftAt
    <3>3. /\ \A d \in DecisionId : ~ decisions'[d].there
          /\ events' = {} /\ Published' = {} /\ Stored(lessons)' = {} /\ Listed' = {}
          /\ ~ landscape' /\ ~ meta'.there
      BY <2>1, <2>2, <3>1 DEF LeftAt, recordVars, lessonVars, MetaVars, fileVars, Published,
         Stored, Listed
    <3>4. CurrentRows' = NoRows
      BY <3>2, <3>3 DEF CurrentRows, NoRows
    <3>5. Free(c)'
      <4>1. /\ lessonCalls[c].at = "idle" /\ recordCalls[c].at = "idle"
            /\ fileCalls[c].at = "idle" /\ scans[c].at = "idle"
        BY <1>one, <2>2 DEF OneAt
      <4>2. QED
        BY <2>1, <2>2, <2>3, <4>1, IdleErasing DEF Free, lessonVars, recordVars, fileVars
    <3>6. QED
      BY <3>1, <3>3, <3>4, <3>5 DEF Gone
  <2>6. QED
    BY <1>3, <2>4, <2>5
<1>13. CASE EraseFails(c) \/ FilesFail(c)
  <2>1. Disturbs(c, NotErasing) /\ ~ erased'
    BY <1>1, <1>13 DEF EraseFails, FilesFail
  <2>2. ~ Alone(c)'
    BY <1>0, <2>1, ErasingMoves, IdleErasing DEF Alone
  <2>3. QED
    BY <1>3, <2>1, <2>2
<1>14. QED
  BY <1>5, <1>6, <1>7, <1>8, <1>9, <1>10, <1>11, <1>12, <1>13 DEF Step

\* A workspace deleted while nothing else was under way leaves no row and no part of
\* a file behind, in either partition.
THEOREM NothingLeft == Spec => []DeletedLeavesNothing
<1>1. Init => OneAtATime /\ ErasureKnown
  <2> SUFFICES ASSUME Init PROVE OneAtATime /\ ErasureKnown
    OBVIOUS
  <2>1. \A c \in Tab : /\ lessonCalls[c] = NoLessonCall /\ recordCalls[c] = NoRecordCall
                       /\ fileCalls[c] = NoFileCall /\ scans[c] = NoScan
                       /\ erasing[c] = NotErasing
    BY DEF Init, LessonsInit, RecordInit, FilesInit, ScanInit
  <2>2. OneAtATime
    BY <2>1, IdleLessonCall, IdleRecordCall, IdleFileCall, IdleScan, IdleErasing
       DEF OneAtATime, OneAt
  <2>3. ErasureKnown
    BY <2>1, IdleErasing DEF Init, ErasureKnown, Alone
  <2>4. QED
    BY <2>2, <2>3
<1>2. Types /\ Types' /\ OneAtATime /\ ErasureKnown /\ [Next]_vars
        => OneAtATime' /\ ErasureKnown'
  <2>1. UNCHANGED vars /\ OneAtATime => OneAtATime'
    BY DEF vars, lessonVars, recordVars, fileVars, scanVars, eraseVars, OneAtATime
  <2>2. UNCHANGED vars /\ ErasureKnown => ErasureKnown'
    <3>1. UNCHANGED vars => /\ UNCHANGED CurrentRows /\ UNCHANGED Listed
                            /\ UNCHANGED Published /\ UNCHANGED Stored(lessons)
      BY DEF vars, lessonVars, recordVars, fileVars, scanVars, CurrentRows, Listed, Published,
         Stored
    <3>2. QED
      BY <3>1 DEF vars, lessonVars, recordVars, fileVars, scanVars, eraseVars, ErasureKnown,
         Alone, LeftAt, Left, Gone, Free
  <2>3. QED
    BY <2>1, <2>2, OneStep, ErasureStep DEF Next
<1>3. ErasureKnown /\ FilesKnown => DeletedLeavesNothing
  BY DEF ErasureKnown, Gone, FilesKnown, DeletedLeavesNothing, Listed
<1>4. Spec => []FilesKnown
  <2>1. Types /\ Types' /\ RecordKnown /\ FilesKnown /\ [Next]_vars
          => RecordKnown' /\ FilesKnown'
    BY ServedStep, ServedSame DEF Next
  <2>2. QED
    BY <2>1, ServedAtFirst, WorkspaceTypes, PTL DEF Spec
<1>5. QED
  BY <1>1, <1>2, <1>3, <1>4, WorkspaceTypes, PTL DEF Spec

-----------------------------------------------------------------------------
(* The limits.  Each is read before the row that counts is stored, so what *)
(* stays within it is what is there and will not be cleaned up any more,   *)
(* with allowance for the requests between the two.                        *)

\* Of some numbers, at most n have fewer than n above them: what a clean-up that
\* removes the others leaves.
LEMMA FewNewest ==
  ASSUME NEW S, S \subseteq Nat, IsFiniteSet(S), NEW n \in Nat,
         NEW kept \in SUBSET S,
         \A i \in kept : ~ (Cardinality({j \in S : j > i}) >= n)
  PROVE  IsFiniteSet(kept) /\ Cardinality(kept) <= n
<1>1. IsFiniteSet(kept) /\ Cardinality(kept) \in Nat
  BY FS_Subset, FS_CardinalityType
<1>2. CASE kept = {}
  BY <1>1, <1>2, FS_EmptySet
<1>3. CASE kept # {}
  <2> DEFINE above(i) == {j \in S : j > i}
  <2>1. PICK m \in kept : \A y \in kept : m <= y
    BY <1>3, LeastNumber
  <2>2. kept \ {m} \in SUBSET above(m)
    BY <2>1
  <2>3. IsFiniteSet(above(m)) /\ Cardinality(above(m)) \in Nat
    BY FS_Subset, FS_CardinalityType
  <2>4. ~ (Cardinality(above(m)) >= n)
    BY <2>1
  <2> HIDE DEF above
  <2>5. Cardinality(kept \ {m}) <= Cardinality(above(m))
    BY <2>2, <2>3, FS_Subset
  <2>6. Cardinality(kept \ {m}) = Cardinality(kept) - 1
    BY <1>1, <2>1, FS_RemoveElement
  <2>7. QED
    BY <1>1, <2>3, <2>4, <2>5, <2>6
<1>4. QED
  BY <1>2, <1>3

-----------------------------------------------------------------------------
(* Signals.                                                                *)

\* Signals that are to be removed.
Leaving == {i \in Item : \E c \in Tab : scans[c].at = "remove" /\ i \in scans[c].rest}

\* No scan is between a signal and the list for its trim, nor has one failed there.
Settled == (\A c \in Tab : scans[c].at \notin {"keep", "trim"}) /\ ~ untrimmed

SignalsKept == Settled => Cardinality(signals \ Leaving) <= MAX_SIGNALS

\* Signals are finitely many.
LEMMA SignalsFinite ==
  ASSUME NEW S \in SUBSET Item
  PROVE  IsFiniteSet(S) /\ Cardinality(S) \in Nat
BY ScanAssumption, FS_Subset, FS_CardinalityType

\* What is kept bounds what is stored, once the scans are done.
LEMMA SignalsWithin ==
  ASSUME ScanTypeOK, SignalsKept
  PROVE  SignalsBounded
<1>1. SUFFICES ASSUME \A c \in Tab : ~ Trimming(scans[c]), ~ untrimmed
               PROVE  Cardinality(signals) <= MAX_SIGNALS
  BY DEF SignalsBounded
<1>2. Settled
  BY <1>1 DEF Settled, Trimming
<1>3. Leaving = {}
  BY <1>1 DEF Leaving, Trimming
<1>4. signals \ Leaving = signals
  BY <1>3
<1>5. QED
  BY <1>2, <1>4 DEF SignalsKept

\* A step after which a scan is still before its list, or that takes no signal
\* from those to be removed that it does not remove.
LEMMA SignalsFrame ==
  ASSUME ScanTypeOK, SignalsKept, NEW c \in Tab, NEW new,
         scans' = [scans EXCEPT ![c] = new],
         \/ new.at \in {"keep", "trim"}
         \/ untrimmed'
         \/ /\ scans[c].at \notin {"keep", "trim"} /\ ~ untrimmed
            /\ signals' \subseteq signals
            /\ scans[c].at = "remove" =>
                 \A i \in scans[c].rest : i \in signals' => new.at = "remove" /\ i \in new.rest
  PROVE  SignalsKept'
<1>0. scans \in [Tab -> ScanCall] /\ signals \subseteq Item
  BY DEF ScanTypeOK
<1>s. /\ scans'[c] = new
      /\ \A d \in Tab \ {c} : scans'[d] = scans[d]
  BY <1>0
<1>1. SUFFICES ASSUME Settled'
               PROVE  Cardinality(signals' \ Leaving') <= MAX_SIGNALS
  BY DEF SignalsKept
<1>2. new.at \notin {"keep", "trim"} /\ ~ untrimmed'
  BY <1>1, <1>s DEF Settled
<1>3. /\ scans[c].at \notin {"keep", "trim"} /\ ~ untrimmed
      /\ signals' \subseteq signals
      /\ scans[c].at = "remove" =>
           \A i \in scans[c].rest : i \in signals' => new.at = "remove" /\ i \in new.rest
  BY <1>2
<1>4. Settled
  BY <1>1, <1>3, <1>s DEF Settled
<1>5. ASSUME NEW i \in signals', i \in Leaving
      PROVE  i \in Leaving'
  <2>1. PICK d \in Tab : scans[d].at = "remove" /\ i \in scans[d].rest
    BY <1>5 DEF Leaving
  <2>2. scans'[d].at = "remove" /\ i \in scans'[d].rest
    BY <1>3, <1>5, <1>s, <2>1
  <2>3. QED
    BY <1>5, <2>2 DEF Leaving
<1>6. signals' \ Leaving' \in SUBSET (signals \ Leaving)
  BY <1>3, <1>5
<1>7. Cardinality(signals' \ Leaving') <= Cardinality(signals \ Leaving)
  <2>1. IsFiniteSet(signals \ Leaving)
    BY <1>0, SignalsFinite
  <2>2. QED
    BY <1>6, <2>1, FS_Subset
<1>8. Cardinality(signals' \ Leaving') \in Nat /\ Cardinality(signals \ Leaving) \in Nat
  <2>1. signals' \ Leaving' \in SUBSET Item /\ signals \ Leaving \in SUBSET Item
    BY <1>0, <1>3
  <2>2. QED
    BY <2>1, SignalsFinite
<1>9. QED
  BY <1>4, <1>7, <1>8, ScanAssumption DEF SignalsKept

\* A step of a scan keeps the signals within the limit.
LEMMA SignalsStep ==
  ASSUME ScanTypeOK, ScanTypeOK', SignalsKept, NEW c \in Tab, ScanStep(c)
  PROVE  SignalsKept'
<1>0. scans \in [Tab -> ScanCall] /\ scans[c] \in ScanCall /\ signals \subseteq Item
  BY DEF ScanTypeOK
<1> DEFINE Quietly(new) == /\ scans' = [scans EXCEPT ![c] = new]
                           /\ new.at \notin {"keep", "trim", "remove"}
                           /\ scans[c].at \notin {"keep", "trim", "remove"}
                           /\ signals' = signals /\ untrimmed' = untrimmed
<1>q. ASSUME NEW new, Quietly(new)
      PROVE  SignalsKept'
  <2>1. CASE untrimmed
    BY <1>q, <2>1, SignalsFrame
  <2>2. CASE ~ untrimmed
    BY <1>q, <2>2, SignalsFrame
  <2>3. QED
    BY <2>1, <2>2
<1>1. CASE BeginSettings(c) \/ BeginScan(c) \/ TimerFindsDue(c)
  <2>1. \E at \in {"set", "rows", "claim"} : Quietly([NoScan EXCEPT !.at = at, !.ws = meta])
    BY <1>0, <1>1 DEF BeginSettings, BeginScan, TimerFindsDue, ScanGoes, NoScan, Rows
  <2> HIDE DEF Quietly
  <2>2. QED
    BY <1>q, <2>1
<1>2. CASE SaveSettings(c) \/ SaveScan(c)
  <2>1. Quietly(NoScan)
    BY <1>0, <1>2 DEF SaveSettings, SaveScan, ScanGoes, NoScan, Rows
  <2> HIDE DEF Quietly
  <2>2. QED
    BY <1>q, <2>1
<1>3. CASE ClaimScan(c)
  <2>1. Quietly([scans[c] EXCEPT !.at = "rows"])
    BY <1>0, <1>3 DEF ClaimScan, ScanGoes, Rows, ScanCall
  <2> HIDE DEF Quietly
  <2>2. QED
    BY <1>q, <2>1
<1>4. CASE ListRows(c)
  <2>1. \E candidates \in SUBSET Item :
          Quietly([scans[c] EXCEPT !.at = "triage", !.known = signals,
                     !.fresh = candidates \ (signals \cup seen)])
    BY <1>0, <1>4 DEF ListRows, ScanGoes, Rows, ScanCall
  <2> HIDE DEF Quietly
  <2>2. QED
    BY <1>q, <2>1
<1>5. CASE Triage(c)
  <2>1. \E kept \in SUBSET scans[c].fresh :
          Quietly([scans[c] EXCEPT !.at = IF scans[c].fresh = {} THEN "search" ELSE "mark",
                     !.kept = kept, !.rest = scans[c].fresh])
    BY <1>0, <1>5 DEF Triage, ScanGoes, Rows, ScanCall
  <2> HIDE DEF Quietly
  <2>2. QED
    BY <1>q, <2>1
<1>6. CASE MarkSeen(c)
  <2>1. Quietly([scans[c] EXCEPT !.fresh = {}, !.rest = @ \ {Newest(scans[c].rest)},
                   !.at = IF scans[c].rest = {Newest(scans[c].rest)} THEN "search" ELSE "mark"])
    BY <1>0, <1>6 DEF MarkSeen, ScanGoes, ScanCall
  <2> HIDE DEF Quietly
  <2>2. QED
    BY <1>q, <2>1
<1>7. CASE SearchWeb(c)
  <2>1. PICK found \in SUBSET (Item \ scans[c].known) :
          ScanGoes(c, [scans[c] EXCEPT !.kept = scans[c].kept \cup found,
                         !.rest = scans[c].kept \cup found, !.known = {},
                         !.at = IF scans[c].kept \cup found = {} THEN "trim" ELSE "keep"])
    BY <1>7, Zenon DEF SearchWeb
  <2> DEFINE new == [scans[c] EXCEPT !.kept = scans[c].kept \cup found,
                       !.rest = scans[c].kept \cup found, !.known = {},
                       !.at = IF scans[c].kept \cup found = {} THEN "trim" ELSE "keep"]
  <2>2. scans' = [scans EXCEPT ![c] = new]
    BY <2>1 DEF ScanGoes
  <2>3. new.at \in {"keep", "trim"}
    BY <1>0 DEF ScanCall
  <2> HIDE DEF new
  <2>4. QED
    BY <2>2, <2>3, SignalsFrame
<1>8. CASE KeepSignal(c)
  <2>1. PICK i \in scans[c].rest :
          ScanGoes(c, [scans[c] EXCEPT !.rest = @ \ {i},
                         !.at = IF scans[c].rest = {i} THEN "trim" ELSE "keep"])
    BY <1>8, Zenon DEF KeepSignal
  <2> DEFINE new == [scans[c] EXCEPT !.rest = @ \ {i},
                       !.at = IF scans[c].rest = {i} THEN "trim" ELSE "keep"]
  <2>2. scans' = [scans EXCEPT ![c] = new]
    BY <2>1 DEF ScanGoes
  <2>3. new.at \in {"keep", "trim"}
    BY <1>0 DEF ScanCall
  <2> HIDE DEF new
  <2>4. QED
    BY <2>2, <2>3, SignalsFrame
<1>9. CASE ListSignals(c)
  <2>1. /\ scans' = [scans EXCEPT ![c] = [@ EXCEPT !.at = "remove", !.rest = Oldest(scans[c])]]
        /\ signals' = signals
    BY <1>9 DEF ListSignals, ScanGoes
  <2>2. scans'[c].at = "remove" /\ scans'[c].rest = Oldest(scans[c])
    BY <1>0, <2>1 DEF ScanCall
  <2>3. signals' \ Leaving' \in SUBSET signals
    BY <2>1
  <2>4. ASSUME NEW i \in signals' \ Leaving'
        PROVE  ~ (Cardinality({j \in signals : j > i}) >= MAX_SIGNALS)
    <3>1. i \in signals /\ i \in Item /\ i \notin Leaving'
      BY <1>0, <2>1, <2>4
    <3>2. i \notin scans'[c].rest
      BY <2>2, <3>1 DEF Leaving
    <3>3. QED
      BY <2>2, <3>1, <3>2 DEF Oldest
  <2>5. signals \subseteq Nat /\ IsFiniteSet(signals)
    BY <1>0, SignalsFinite, ScanAssumption
  <2>6. PICK kept : kept = signals' \ Leaving'
    OBVIOUS
  <2>7. Cardinality(kept) <= MAX_SIGNALS
    BY <2>3, <2>4, <2>5, <2>6, FewNewest, ScanAssumption
  <2>8. QED
    BY <2>6, <2>7 DEF SignalsKept
<1>10. CASE RemoveOldSignal(c)
  <2> DEFINE i == Newest(scans[c].rest)
             new == [scans[c] EXCEPT !.rest = @ \ {i}]
  <2>1. /\ scans' = [scans EXCEPT ![c] = new] /\ scans[c].at = "remove"
        /\ signals' = signals \ {i} /\ untrimmed' = untrimmed
    BY <1>10 DEF RemoveOldSignal, ScanGoes
  <2>2. new.at = "remove" /\ new.rest = scans[c].rest \ {i}
    BY <1>0, <2>1 DEF ScanCall
  <2> HIDE DEF new, i
  <2>3. \A j \in scans[c].rest : j \in signals' => new.at = "remove" /\ j \in new.rest
    BY <2>1, <2>2
  <2>4. signals' \subseteq signals /\ scans[c].at \notin {"keep", "trim"}
    BY <2>1
  <2>5. CASE untrimmed
    BY <2>1, <2>5, SignalsFrame
  <2>6. CASE ~ untrimmed
    BY <2>1, <2>3, <2>4, <2>6, SignalsFrame
  <2>7. QED
    BY <2>5, <2>6
<1>11. CASE ForgetOldSeen(c)
  <2> DEFINE new == [scans[c] EXCEPT !.at = IF scans[c].kept # {} \/ ~ landscape
                                            THEN "landscape" ELSE "reload"]
  <2>1. /\ scans' = [scans EXCEPT ![c] = new] /\ scans[c].at = "remove" /\ scans[c].rest = {}
        /\ signals' = signals /\ untrimmed' = untrimmed
    BY <1>11 DEF ForgetOldSeen, ScanGoes
  <2> HIDE DEF new
  <2>2. signals' \subseteq signals /\ scans[c].at \notin {"keep", "trim"}
    BY <2>1
  <2>3. \A j \in scans[c].rest : j \in signals' => new.at = "remove" /\ j \in new.rest
    BY <2>1
  <2>5. CASE untrimmed
    BY <2>1, <2>5, SignalsFrame
  <2>6. CASE ~ untrimmed
    BY <2>1, <2>2, <2>3, <2>6, SignalsFrame
  <2>7. QED
    BY <2>5, <2>6
<1>12. CASE RefreshLandscape(c)
  <2>1. \E at \in {"lessons", "reload"} : Quietly([scans[c] EXCEPT !.at = at])
    BY <1>0, <1>12 DEF RefreshLandscape, ScanGoes, ScanCall
  <2> HIDE DEF Quietly
  <2>2. QED
    BY <1>q, <2>1
<1>13. CASE LessonsProposed(c)
  <2>1. Quietly([scans[c] EXCEPT !.at = "reload"])
    BY <1>0, <1>13 DEF LessonsProposed, ScanGoes, ScanCall, Rows
  <2> HIDE DEF Quietly
  <2>2. QED
    BY <1>q, <2>1
<1>14. CASE Reload(c)
  <2>1. Quietly([scans[c] EXCEPT !.at = "save", !.ws = Current(scans[c].ws)])
    BY <1>0, <1>14 DEF Reload, ScanGoes, ScanCall, Rows
  <2> HIDE DEF Quietly
  <2>2. QED
    BY <1>q, <2>1
<1>15. CASE ScanFails(c)
  <2>1. /\ scans' = [scans EXCEPT ![c] = NoScan]
        /\ signals' = signals /\ untrimmed' = (untrimmed \/ Trimming(scans[c]))
    BY <1>15 DEF ScanFails, ScanGoes
  <2>2. CASE untrimmed \/ Trimming(scans[c])
    BY <2>1, <2>2, SignalsFrame
  <2>3. CASE ~ (untrimmed \/ Trimming(scans[c]))
    <3>1. /\ scans[c].at \notin {"keep", "trim"} /\ ~ untrimmed
          /\ scans[c].at = "remove" => scans[c].rest = {}
      BY <2>3 DEF Trimming
    <3>2. signals' \subseteq signals
      BY <2>1
    <3>3. scans[c].at = "remove" =>
            \A i \in scans[c].rest : i \in signals' => NoScan.at = "remove" /\ i \in NoScan.rest
      BY <3>1
    <3>4. QED
      BY <2>1, <3>1, <3>2, <3>3, SignalsFrame
  <2>4. QED
    BY <2>2, <2>3
<1>16. QED
  BY <1>1, <1>2, <1>3, <1>4, <1>5, <1>6, <1>7, <1>8, <1>9, <1>10, <1>11, <1>12, <1>13, <1>14,
     <1>15, Zenon DEF ScanStep

-----------------------------------------------------------------------------
(* Files.                                                                  *)

\* Files there may come to be (again): a request is going to store a record.
HasInHand(call) == call.at \in {"store", "record", "bytes", "model", "save"}

InHand == {f \in FileId : \E c \in Tab : HasInHand(fileCalls[c]) /\ fileCalls[c].file = f}

FilesKept ==
  /\ IsFiniteSet(Listed \cup InHand)
  /\ Cardinality(Listed \cup InHand) <= MAX_FILES + Cardinality(Tab) - 1

\* There is a tab, and there are finitely many.
LEMMA TabsCounted == IsFiniteSet(Tab) /\ Cardinality(Tab) \in Nat /\ Cardinality(Tab) >= 1
<1>1. IsFiniteSet(Tab) /\ Tab # {}
  BY RequestsAssumption
<1>2. Cardinality(Tab) \in Nat /\ Cardinality(Tab) # 0
  BY <1>1, FS_CardinalityType, FS_EmptySet
<1>3. QED
  BY <1>1, <1>2

\* What is listed or in hand bounds what is listed.
LEMMA FilesWithin ==
  ASSUME FilesKept
  PROVE  FilesBounded
<1>1. Listed \in SUBSET (Listed \cup InHand)
  OBVIOUS
<1>2. IsFiniteSet(Listed) /\ Cardinality(Listed) <= Cardinality(Listed \cup InHand)
  BY <1>1, FS_Subset DEF FilesKept
<1>3. Cardinality(Listed) \in Nat /\ Cardinality(Listed \cup InHand) \in Nat
  BY <1>2, FS_CardinalityType DEF FilesKept
<1>4. QED
  BY <1>2, <1>3, TabsCounted, FilesAssumption DEF FilesKept, FilesBounded

\* A tab has one file in hand.
LEMMA OneInHandEach ==
  ASSUME NEW calls \in [Tab -> FileCall],
         NEW hand, hand = {f \in FileId : \E c \in Tab : HasInHand(calls[c]) /\ calls[c].file = f}
  PROVE  IsFiniteSet(hand) /\ Cardinality(hand) \in Nat /\ Cardinality(hand) <= Cardinality(Tab)
<1> DEFINE busy == {c \in Tab : HasInHand(calls[c])}
           of == [c \in busy |-> calls[c].file]
<1>1. of \in Surjection(busy, hand)
  BY DEF Surjection, FileCall
<1>2. IsFiniteSet(busy) /\ Cardinality(busy) <= Cardinality(Tab)
  <2>1. busy \in SUBSET Tab
    OBVIOUS
  <2>2. QED
    BY <2>1, TabsCounted, FS_Subset
<1> HIDE DEF busy, of
<1>3. IsFiniteSet(hand) /\ Cardinality(hand) <= Cardinality(busy)
  BY <1>1, <1>2, FS_Surjection
<1>4. Cardinality(hand) \in Nat /\ Cardinality(busy) \in Nat
  BY <1>2, <1>3, FS_CardinalityType
<1>5. QED
  BY <1>2, <1>3, <1>4, TabsCounted

\* A step that stores the record it has in hand at most, and takes a listed one.
LEMMA FilesHeld ==
  ASSUME FilesTypeOK, FilesKept, NEW c \in Tab, NEW new,
         fileCalls' = [fileCalls EXCEPT ![c] = new],
         \A f \in FileId : files'[f].there =>
           files[f].there \/ (HasInHand(fileCalls[c]) /\ f = fileCalls[c].file),
         HasInHand(new) => \/ files[new.file].there
                           \/ HasInHand(fileCalls[c]) /\ new.file = fileCalls[c].file
  PROVE  FilesKept'
<1>0. fileCalls \in [Tab -> FileCall] /\ fileCalls[c].file \in FileId
  BY DEF FilesTypeOK, FileCall
<1>1. \A f \in Listed' : f \in Listed \cup InHand
  BY <1>0 DEF Listed, InHand
<1>2. ASSUME NEW f \in InHand'
      PROVE  f \in Listed \cup InHand
  <2>1. PICK d \in Tab : HasInHand(fileCalls'[d]) /\ fileCalls'[d].file = f /\ f \in FileId
    BY <1>2 DEF InHand, HasInHand
  <2>2. CASE d = c
    BY <1>0, <2>1, <2>2 DEF InHand, Listed
  <2>3. CASE d # c
    BY <1>0, <2>1, <2>3 DEF InHand
  <2>4. QED
    BY <2>2, <2>3
<1>3. (Listed \cup InHand)' \in SUBSET (Listed \cup InHand)
  BY <1>1, <1>2
<1>4. PICK S, T : S = Listed \cup InHand /\ T = (Listed \cup InHand)'
  OBVIOUS
<1>5. IsFiniteSet(S) /\ IsFiniteSet(T) /\ Cardinality(T) <= Cardinality(S)
  BY <1>3, <1>4, FS_Subset DEF FilesKept
<1>6. Cardinality(S) \in Nat /\ Cardinality(T) \in Nat
  BY <1>5, FS_CardinalityType
<1>7. Cardinality(S) <= MAX_FILES + Cardinality(Tab) - 1
  BY <1>4 DEF FilesKept
<1>8. Cardinality(T) <= MAX_FILES + Cardinality(Tab) - 1
  BY <1>5, <1>6, <1>7, TabsCounted, FilesAssumption
<1>9. QED
  BY <1>4, <1>5, <1>8 DEF FilesKept

\* A step that takes up a new file, when there were not too many.
LEMMA FileTaken ==
  ASSUME FilesTypeOK, FilesTypeOK', FilesKept, files' = files, ~ Full
  PROVE  FilesKept'
<1>0. /\ fileCalls' \in [Tab -> FileCall]
      /\ Listed' = Listed
  BY DEF FilesTypeOK, Listed
<1>1. PICK H : H = InHand'
  OBVIOUS
<1>2. IsFiniteSet(H) /\ Cardinality(H) \in Nat /\ Cardinality(H) <= Cardinality(Tab)
  <2>1. PICK calls : calls = fileCalls'
    OBVIOUS
  <2>2. H = {f \in FileId : \E c \in Tab : HasInHand(calls[c]) /\ calls[c].file = f}
    BY <1>1, <2>1 DEF InHand, HasInHand
  <2>3. QED
    BY <1>0, <2>1, <2>2, OneInHandEach
<1>3. IsFiniteSet(Listed) /\ Cardinality(Listed) \in Nat
  <2>1. Listed \in SUBSET (Listed \cup InHand)
    OBVIOUS
  <2>2. QED
    BY <2>1, FS_Subset, FS_CardinalityType DEF FilesKept
<1>4. Cardinality(Listed) <= MAX_FILES - 1
  BY <1>3, FilesAssumption DEF Full
<1>5. /\ IsFiniteSet(Listed \cup H)
      /\ Cardinality(Listed \cup H) =
           Cardinality(Listed) + Cardinality(H) - Cardinality(Listed \cap H)
  BY <1>2, <1>3, FS_Union
<1>6. Cardinality(Listed \cap H) \in Nat
  BY <1>3, FS_Intersection, FS_CardinalityType
<1>7. Cardinality(Listed \cup H) <= MAX_FILES + Cardinality(Tab) - 1
  BY <1>2, <1>3, <1>4, <1>5, <1>6, TabsCounted, FilesAssumption
<1>8. QED
  BY <1>0, <1>1, <1>5, <1>7 DEF FilesKept

\* A step on files keeps what is listed or in hand bounded.
LEMMA FilesKeptStep ==
  ASSUME FilesTypeOK, FilesTypeOK', FilesKept, NEW c \in Tab,
         FileStep(c) \/ FileCallFails(c) \/ BeginDeleteAll(c)
  PROVE  FilesKept'
<1>0. /\ files \in [FileId -> Record] /\ fileCalls \in [Tab -> FileCall]
      /\ fileCalls[c] \in FileCall /\ fileCalls[c].file \in FileId
  BY DEF FilesTypeOK, FileCall
<1>n. ~ HasInHand(NoFileCall)
  BY IdleFileCall DEF HasInHand
\* Nothing becomes listed that was not, and the file in hand stays the same.
<1>1. ASSUME NEW new, Goes(c, new),
             files' = files \/ (HasInHand(fileCalls[c])
                                /\ \A f \in FileId \ {fileCalls[c].file} : files'[f] = files[f]),
             ~ HasInHand(new) \/ files[new.file].there
               \/ (HasInHand(fileCalls[c]) /\ new.file = fileCalls[c].file)
      PROVE  FilesKept'
  <2>1. fileCalls' = [fileCalls EXCEPT ![c] = new]
    BY <1>1 DEF Goes
  <2>2. \A f \in FileId : files'[f].there =>
          files[f].there \/ (HasInHand(fileCalls[c]) /\ f = fileCalls[c].file)
    BY <1>1
  <2>3. QED
    BY <1>1, <2>1, <2>2, FilesHeld
<1>2. CASE \E b \in BOOLEAN : BeginUpload(c, b)
  <2>1. PICK b \in BOOLEAN : Goes(c, [NoFileCall EXCEPT !.at = "count", !.row = NewRecord(b)])
                             /\ files' = files
    BY <1>2 DEF BeginUpload
  <2>2. ~ HasInHand([NoFileCall EXCEPT !.at = "count", !.row = NewRecord(b)])
    BY DEF HasInHand, NoFileCall
  <2>3. QED
    BY <1>1, <2>1, <2>2
<1>3. CASE \E f \in FileId : BeginAsk(c, f) \/ BeginUpdate(c, f) \/ BeginDelete(c, f)
  <2>1. PICK f \in FileId, at \in {"bytes", "save", "list"} :
          /\ Goes(c, [NoFileCall EXCEPT !.at = at, !.file = f, !.row = files[f]])
          /\ files' = files /\ files[f].there
    BY <1>3 DEF BeginAsk, BeginUpdate, BeginDelete, Get
  <2>2. [NoFileCall EXCEPT !.at = at, !.file = f, !.row = files[f]].file = f
    BY DEF NoFileCall
  <2>3. QED
    BY <1>1, <2>1, <2>2
<1>4. CASE CountFiles(c)
  <2>1. files' = files /\ (Full => Goes(c, NoFileCall))
    BY <1>4 DEF CountFiles, Ends
  <2>2. CASE Full
    BY <1>1, <1>n, <2>1, <2>2
  <2>3. CASE ~ Full
    BY <2>1, <2>3, FileTaken
  <2>4. QED
    BY <2>2, <2>3
<1>5. CASE StoreChunk(c)
  <2> DEFINE new == [fileCalls[c] EXCEPT !.at = IF blobs[fileCalls[c].file] = "none" THEN "store"
                                                ELSE "record"]
  <2>1. Goes(c, new) /\ files' = files /\ HasInHand(fileCalls[c])
    BY <1>5 DEF StoreChunk, HasInHand
  <2>2. new.file = fileCalls[c].file
    BY <1>0 DEF FileCall
  <2> HIDE DEF new
  <2>3. QED
    BY <1>1, <2>1, <2>2
<1>6. CASE PutRecord(c)
  <2> DEFINE new == [fileCalls[c] EXCEPT !.at = "model", !.readable = TRUE]
  <2>1. /\ Goes(c, new) /\ HasInHand(fileCalls[c])
        /\ files' = [files EXCEPT ![fileCalls[c].file] = fileCalls[c].row]
    BY <1>6 DEF PutRecord, HasInHand
  <2>2. new.file = fileCalls[c].file
    BY <1>0 DEF FileCall
  <2>3. \A f \in FileId \ {fileCalls[c].file} : files'[f] = files[f]
    BY <1>0, <2>1
  <2> HIDE DEF new
  <2>4. QED
    BY <1>1, <2>1, <2>2, <2>3
<1>7. CASE ReadBytes(c)
  <2> DEFINE new == [fileCalls[c] EXCEPT !.at = "model",
                                         !.readable = blobs[fileCalls[c].file] = "all"]
  <2>1. Goes(c, new) /\ files' = files /\ HasInHand(fileCalls[c])
    BY <1>7 DEF ReadBytes, HasInHand
  <2>2. new.file = fileCalls[c].file
    BY <1>0 DEF FileCall
  <2> HIDE DEF new
  <2>3. QED
    BY <1>1, <2>1, <2>2
<1>8. CASE Review(c) \/ SaveFlags(c)
  <2>1. /\ Goes(c, NoFileCall) /\ HasInHand(fileCalls[c])
        /\ \E row : files' = [files EXCEPT ![fileCalls[c].file] = row]
    BY <1>8, Zenon DEF Review, SaveFlags, Ends, HasInHand
  <2>2. \A f \in FileId \ {fileCalls[c].file} : files'[f] = files[f]
    BY <1>0, <2>1
  <2>3. QED
    BY <1>1, <1>n, <2>1, <2>2
<1>9. CASE ListChunks(c) \/ RemoveChunk(c)
  <2>1. PICK at \in {"forget", "remove"} :
          Goes(c, [fileCalls[c] EXCEPT !.at = at]) /\ files' = files
    BY <1>9 DEF ListChunks, RemoveChunk
  <2>2. ~ HasInHand([fileCalls[c] EXCEPT !.at = at])
    BY <1>0, <2>1 DEF HasInHand, FileCall
  <2>3. QED
    BY <1>1, <2>1, <2>2
<1>10. CASE RemoveRecord(c)
  <2>1. files' = [files EXCEPT ![fileCalls[c].file] = NoRecord]
    BY <1>10 DEF RemoveRecord
  <2>2. PICK new : Goes(c, new) /\ ~ HasInHand(new)
    <3>1. CASE fileCalls[c].rest = {}
      BY <1>10, <1>n, <3>1 DEF RemoveRecord, Ends
    <3>2. CASE fileCalls[c].rest # {}
      <4>1. PICK f \in fileCalls[c].rest :
              Goes(c, [fileCalls[c] EXCEPT !.at = "list", !.file = f, !.rest = @ \ {f}])
        BY <1>10, <3>2 DEF RemoveRecord
      <4>2. ~ HasInHand([fileCalls[c] EXCEPT !.at = "list", !.file = f, !.rest = @ \ {f}])
        BY <1>0 DEF HasInHand, FileCall
      <4>3. QED
        BY <4>1, <4>2
    <3>3. QED
      BY <3>1, <3>2
  <2>3. fileCalls' = [fileCalls EXCEPT ![c] = new]
    BY <2>2 DEF Goes
  <2>4. \A f \in FileId : files'[f].there => files[f].there
    BY <1>0, <2>1, IdleFileCall
  <2>5. QED
    BY <2>2, <2>3, <2>4, FilesHeld
<1>11. CASE FileCallFails(c)
  BY <1>1, <1>11, <1>n DEF FileCallFails, Ends
<1>12. CASE BeginDeleteAll(c)
  <2>1. PICK f \in Listed :
          /\ Goes(c, [NoFileCall EXCEPT !.at = "list", !.file = f, !.rest = Listed \ {f}])
          /\ files' = files
    BY <1>12 DEF BeginDeleteAll
  <2>2. ~ HasInHand([NoFileCall EXCEPT !.at = "list", !.file = f, !.rest = Listed \ {f}])
    BY DEF HasInHand, NoFileCall
  <2>3. QED
    BY <1>1, <2>1, <2>2
<1>13. QED
  BY <1>2, <1>3, <1>4, <1>5, <1>6, <1>7, <1>8, <1>9, <1>10, <1>11, <1>12 DEF FileStep

-----------------------------------------------------------------------------
(* The memory of an agent.                                                 *)

\* Lessons a clean-up is going to retire, and additions that are to clean up yet.
Retires(call, a, i) == /\ call.at = "retire" /\ call.row.agent = a
                       /\ call.old[i].status # "absent"

Enforces(call, a) == call.at = "enforce" /\ call.row.agent = a

Kept(a) == {i \in Active(lessons, a) : \A c \in Tab : ~ Retires(lessonCalls[c], a, i)}

Enforcing(a) == {c \in Tab : Enforces(lessonCalls[c], a)}

MemoryKept ==
  \A a \in Agent :
    Cardinality(Kept(a)) <= ActivePerAgent + slack[a] + Cardinality(Enforcing(a))

\* Lessons are finitely many.
LEMMA LessonsFinite ==
  ASSUME NEW S \in SUBSET LessonId
  PROVE  S \subseteq Nat /\ IsFiniteSet(S) /\ Cardinality(S) \in Nat
<1>1. IsFiniteSet(LessonId) /\ LessonId \subseteq Nat
  BY LessonsAssumption, FS_Interval DEF LessonId
<1>2. QED
  BY <1>1, FS_Subset, FS_CardinalityType

\* Tabs at something are finitely many.
LEMMA TabsFinite ==
  ASSUME NEW S \in SUBSET Tab
  PROVE  IsFiniteSet(S) /\ Cardinality(S) \in Nat
BY TabsCounted, FS_Subset, FS_CardinalityType

\* What is kept bounds what is active, once the additions have cleaned up.
LEMMA MemoryWithin ==
  ASSUME LessonsTypeOK, MemoryKept
  PROVE  MemoryBounded
<1>1. SUFFICES ASSUME NEW a \in Agent, ~ Adding(a)
               PROVE  Cardinality(Active(lessons, a)) <= ActivePerAgent + slack[a]
  BY DEF MemoryBounded
<1>2. Kept(a) = Active(lessons, a)
  BY <1>1 DEF Adding, Kept, Retires
<1>3. Enforcing(a) = {}
  BY <1>1 DEF Adding, Enforcing, Enforces
<1>4. Cardinality(Enforcing(a)) = 0
  BY <1>3, FS_EmptySet
<1>5. /\ Cardinality(Kept(a)) <= ActivePerAgent + slack[a] + Cardinality(Enforcing(a))
      /\ slack[a] \in Nat
  BY DEF MemoryKept, LessonsTypeOK
<1>6. QED
  BY <1>2, <1>4, <1>5, LessonsAssumption

\* What one tab's step does to the additions that are to clean up.
LEMMA EnforcingMoves ==
  ASSUME LessonsTypeOK, NEW c \in Tab, NEW new, NEW a \in Agent,
         lessonCalls' = [lessonCalls EXCEPT ![c] = new]
  PROVE  /\ Enforces(new, a) <=> Enforces(lessonCalls[c], a) =>
              Cardinality(Enforcing(a)') = Cardinality(Enforcing(a))
         /\ Enforces(new, a) /\ ~ Enforces(lessonCalls[c], a) =>
              Cardinality(Enforcing(a)') = Cardinality(Enforcing(a)) + 1
         /\ Cardinality(Enforcing(a)) <= Cardinality(Enforcing(a)') + 1
         /\ Cardinality(Enforcing(a)) \in Nat /\ Cardinality(Enforcing(a)') \in Nat
<1>0. lessonCalls'[c] = new /\ \A d \in Tab \ {c} : lessonCalls'[d] = lessonCalls[d]
  BY DEF LessonsTypeOK
<1>1. PICK E, F : E = Enforcing(a) /\ F = Enforcing(a)'
  OBVIOUS
<1>2. /\ E \in SUBSET Tab /\ F \in SUBSET Tab
      /\ E \ {c} = F \ {c}
      /\ c \in E <=> Enforces(lessonCalls[c], a)
      /\ c \in F <=> Enforces(new, a)
  BY <1>0, <1>1 DEF Enforcing, Enforces
<1>3. /\ IsFiniteSet(E) /\ Cardinality(E) \in Nat
      /\ IsFiniteSet(F) /\ Cardinality(F) \in Nat
  BY <1>2, TabsFinite
<1>4. /\ Cardinality(E \ {c}) = IF c \in E THEN Cardinality(E) - 1 ELSE Cardinality(E)
      /\ Cardinality(F \ {c}) = IF c \in F THEN Cardinality(F) - 1 ELSE Cardinality(F)
  BY <1>3, FS_RemoveElement
<1>5. Cardinality(E \ {c}) = Cardinality(F \ {c})
  BY <1>2
<1>6. /\ (c \in F <=> c \in E) => Cardinality(F) = Cardinality(E)
      /\ c \in F /\ c \notin E => Cardinality(F) = Cardinality(E) + 1
      /\ Cardinality(E) <= Cardinality(F) + 1
  BY <1>3, <1>4, <1>5
<1>7. QED
  BY <1>1, <1>2, <1>3, <1>6

\* What one tab's step adds to the lessons that stay: at most those it makes
\* active and those it will not retire any more.
LEMMA KeptMoves ==
  ASSUME LessonsTypeOK, NEW c \in Tab, NEW new, NEW a \in Agent, NEW X,
         lessonCalls' = [lessonCalls EXCEPT ![c] = new],
         \A i \in Active(lessons, a)' : i \in Active(lessons, a) \cup X,
         \A i \in Active(lessons, a)' :
           Retires(lessonCalls[c], a, i) => i \in X \/ Retires(new, a, i)
  PROVE  Kept(a)' \subseteq Kept(a) \cup X
<1>0. lessonCalls'[c] = new /\ \A d \in Tab \ {c} : lessonCalls'[d] = lessonCalls[d]
  BY DEF LessonsTypeOK
<1>1. ASSUME NEW i \in Kept(a)', i \notin X
      PROVE  i \in Kept(a)
  <2>1. i \in Active(lessons, a)' /\ \A d \in Tab : ~ Retires(lessonCalls'[d], a, i)
    BY <1>1 DEF Kept, Retires
  <2>2. i \in Active(lessons, a)
    BY <1>1, <2>1
  <2>3. ASSUME NEW d \in Tab
        PROVE  ~ Retires(lessonCalls[d], a, i)
    <3>1. CASE d = c
      BY <1>0, <1>1, <2>1, <3>1
    <3>2. CASE d # c
      BY <1>0, <2>1, <3>2
    <3>3. QED
      BY <3>1, <3>2
  <2>4. QED
    BY <2>2, <2>3 DEF Kept
<1>2. QED
  BY <1>1

\* What is allowed grows with the lessons that stay.
LEMMA MemoryGrows ==
  ASSUME LessonsTypeOK, LessonsTypeOK', MemoryKept, NEW a \in Agent, NEW X \in SUBSET LessonId,
         Kept(a)' \subseteq Kept(a) \cup X,
         slack[a] + Cardinality(Enforcing(a)) + Cardinality(X)
           <= slack'[a] + Cardinality(Enforcing(a)')
  PROVE  Cardinality(Kept(a)') <= ActivePerAgent + slack'[a] + Cardinality(Enforcing(a)')
<1>1. PICK K, L : K = Kept(a) /\ L = Kept(a)'
  OBVIOUS
<1>2. K \in SUBSET LessonId /\ L \in SUBSET LessonId
  BY <1>1 DEF Kept, Active, Stored, LessonId
<1>3. /\ IsFiniteSet(K) /\ Cardinality(K) \in Nat
      /\ IsFiniteSet(L) /\ Cardinality(L) \in Nat
      /\ IsFiniteSet(X) /\ Cardinality(X) \in Nat
  BY <1>2, LessonsFinite
<1>4. /\ IsFiniteSet(K \cup X)
      /\ Cardinality(K \cup X) = Cardinality(K) + Cardinality(X) - Cardinality(K \cap X)
  BY <1>3, FS_Union
<1>5. Cardinality(K \cap X) \in Nat /\ Cardinality(K \cup X) \in Nat
  BY <1>3, <1>4, FS_Intersection, FS_CardinalityType
<1>6. L \in SUBSET (K \cup X)
  BY <1>1
<1>7. Cardinality(L) <= Cardinality(K \cup X)
  BY <1>4, <1>6, FS_Subset
<1>8. PICK E, F : E = Cardinality(Enforcing(a)) /\ F = Cardinality(Enforcing(a)')
  OBVIOUS
<1>9. E \in Nat /\ F \in Nat
  <2>1. Enforcing(a) \in SUBSET Tab /\ Enforcing(a)' \in SUBSET Tab
    BY DEF Enforcing
  <2>2. QED
    BY <1>8, <2>1, TabsFinite
<1>10. /\ Cardinality(K) <= ActivePerAgent + slack[a] + E
       /\ slack[a] + E + Cardinality(X) <= slack'[a] + F
       /\ slack[a] \in Nat /\ slack'[a] \in Nat /\ ActivePerAgent \in Nat
  BY <1>1, <1>8, LessonsAssumption DEF MemoryKept, LessonsTypeOK
<1>11. Cardinality(L) <= ActivePerAgent + slack'[a] + F
  BY <1>3, <1>4, <1>5, <1>7, <1>9, <1>10
<1>12. QED
  BY <1>1, <1>8, <1>11

\* No lesson becomes active and no clean-up begins or ends.
LEMMA MemoryUnmoved ==
  ASSUME LessonsTypeOK, LessonsTypeOK', MemoryKept, NEW c \in Tab, NEW new,
         lessonCalls' = [lessonCalls EXCEPT ![c] = new],
         lessonCalls[c].at \notin {"enforce", "retire"},
         new.at \notin {"enforce", "retire"},
         \A a \in Agent : Active(lessons, a)' \subseteq Active(lessons, a),
         slack' = slack
  PROVE  MemoryKept'
<1>1. ASSUME NEW a \in Agent
      PROVE  Cardinality(Kept(a)') <= ActivePerAgent + slack'[a] + Cardinality(Enforcing(a)')
  <2>1. /\ \A i \in Active(lessons, a)' : i \in Active(lessons, a) \cup {}
        /\ \A i : ~ Retires(lessonCalls[c], a, i)
        /\ ~ Enforces(lessonCalls[c], a) /\ ~ Enforces(new, a)
    BY DEF Retires, Enforces
  <2>2. Kept(a)' \subseteq Kept(a) \cup {}
    BY <2>1, KeptMoves
  <2>3. /\ Cardinality(Enforcing(a)') = Cardinality(Enforcing(a))
        /\ Cardinality(Enforcing(a)) \in Nat
    BY <2>1, EnforcingMoves
  <2>4. slack[a] \in Nat /\ Cardinality({}) = 0
    BY FS_EmptySet DEF LessonsTypeOK
  <2>5. slack[a] + Cardinality(Enforcing(a)) + Cardinality({})
          <= slack'[a] + Cardinality(Enforcing(a)')
    BY <2>3, <2>4
  <2>6. QED
    BY <2>2, <2>5, MemoryGrows
<1>2. QED
  BY <1>1 DEF MemoryKept

\* A step on lessons keeps the memory of every agent within the limit.
LEMMA MemoryLessonStep ==
  ASSUME LessonsTypeOK, LessonsTypeOK', MemoryKept, NEW c \in Tab, LessonStep(c)
  PROVE  MemoryKept'
<1>0. /\ lessons \in [LessonId -> Lesson] /\ slack \in [Agent -> Nat]
      /\ lessonCalls \in [Tab -> LessonCall] /\ lessonCalls[c] \in LessonCall
  BY DEF LessonsTypeOK
<1> DEFINE call == lessonCalls[c]
<1>00. /\ call.todo \subseteq Offer /\ call.id \in LessonId /\ call.row \in Lesson
       /\ call.old \in [LessonId -> Lesson] /\ call.row.agent \in Agent
  BY <1>0 DEF LessonCall, Lesson
<1>same. ASSUME UNCHANGED lessons, NEW a
         PROVE  Active(lessons, a)' = Active(lessons, a)
  BY <1>same DEF Active, Stored
<1>none. Cardinality({}) = 0
  BY FS_EmptySet
\* Nothing changes for the agents whose lessons the call is not about.
<1>other. ASSUME NEW a \in Agent, a # call.row.agent, NEW new,
                 lessonCalls' = [lessonCalls EXCEPT ![c] = new],
                 new.at \in {"enforce", "retire"} => new.row = call.row,
                 Active(lessons, a)' \subseteq Active(lessons, a),
                 slack'[a] = slack[a]
          PROVE  Cardinality(Kept(a)') <= ActivePerAgent + slack'[a] + Cardinality(Enforcing(a)')
  <2>1. /\ \A i \in Active(lessons, a)' : i \in Active(lessons, a) \cup {}
        /\ \A i : ~ Retires(call, a, i)
        /\ ~ Enforces(call, a) /\ ~ Enforces(new, a)
    BY <1>other DEF Retires, Enforces
  <2>2. Kept(a)' \subseteq Kept(a) \cup {}
    BY <1>other, <2>1, KeptMoves
  <2>3. /\ Cardinality(Enforcing(a)') = Cardinality(Enforcing(a))
        /\ Cardinality(Enforcing(a)) \in Nat
    BY <1>other, <2>1, EnforcingMoves
  <2>4. slack[a] + Cardinality(Enforcing(a)) + Cardinality({})
          <= slack'[a] + Cardinality(Enforcing(a)')
    BY <1>0, <1>none, <1>other, <2>3
  <2>5. QED
    BY <2>2, <2>4, MemoryGrows
<1> HIDE DEF call
\* Requests arrive and hand over their offers.
<1>1. ASSUME NEW new, lessonCalls' = [lessonCalls EXCEPT ![c] = new],
             call.at \notin {"enforce", "retire"}, new.at \notin {"enforce", "retire"},
             UNCHANGED <<lessons, slack>>
      PROVE  MemoryKept'
  <2>1. \A a \in Agent : Active(lessons, a)' \subseteq Active(lessons, a)
    BY <1>1, <1>same
  <2>2. QED
    BY <1>1, <2>1, MemoryUnmoved DEF call
<1>2. ASSUME NEW offers \in SUBSET Offer, BeginAdding(c, offers)
      PROVE  MemoryKept'
  <2>1. /\ lessonCalls' = [lessonCalls EXCEPT ![c] = NextOffer(call, offers)]
        /\ call.at = "idle" /\ UNCHANGED <<lessons, slack>>
    BY <1>2 DEF BeginAdding, call
  <2>2. NextOffer(call, offers).at \in {"idle", "check"}
    BY OffersNext
  <2>3. QED
    BY <1>1, <2>1, <2>2
<1>3. ASSUME NEW a \in Agent, NEW t \in Text, TeachLesson(c, a, t)
      PROVE  MemoryKept'
  <2>1. {[agent |-> a, text |-> t, status |-> "active"]} \in SUBSET Offer
    BY DEF Offer
  <2>2. QED
    BY <1>2, <1>3, <2>1 DEF TeachLesson
<1>4. ASSUME NEW as \in SUBSET Agent, NEW t \in Text, TeachSignal(c, as, t)
      PROVE  MemoryKept'
  <2>1. [agent : as, text : {t}, status : {"active"}] \in SUBSET Offer
    BY DEF Offer
  <2>2. QED
    BY <1>2, <1>4, <2>1 DEF TeachSignal
<1>5. ASSUME NEW a \in Agent, NEW ts \in SUBSET Text, Study(c, a, ts)
      PROVE  MemoryKept'
  <2>1. [agent : {a}, text : ts, status : {"proposed"}] \in SUBSET Offer
    BY DEF Offer
  <2>2. QED
    BY <1>2, <1>5, <2>1 DEF Study
<1>6. ASSUME NEW i \in LessonId, BeginReview(c, i)
      PROVE  MemoryKept'
  <2>1. PICK new : new = [NoLessonCall EXCEPT !.at = "review", !.id = i, !.row = lessons[i]]
    OBVIOUS
  <2>2. new.at = "review"
    BY <2>1, IdleLessonCall DEF LessonCall
  <2>3. /\ lessonCalls' = [lessonCalls EXCEPT ![c] = new]
        /\ call.at = "idle" /\ UNCHANGED <<lessons, slack>>
    BY <1>6, <2>1 DEF BeginReview, call
  <2>4. QED
    BY <1>1, <2>2, <2>3
\* The chair's approval may make one lesson active, which the slack counts.
<1>7. CASE WriteReview(c)
  <2>1. call.at = "review" /\ lessonCalls' = [lessonCalls EXCEPT ![c] = NoLessonCall]
    BY <1>7 DEF WriteReview, call
  <2>2. PICK s \in {"active", "retired"}, t \in Text :
          /\ lessons' = [lessons EXCEPT ![call.id] = [call.row EXCEPT !.status = s, !.text = t]]
          /\ slack' = IF s = "active" THEN [slack EXCEPT ![call.row.agent] = @ + 1] ELSE slack
    BY <1>7 DEF WriteReview, call
  <2>i. PICK i \in LessonId : i = call.id
    BY <1>00
  <2>3. /\ lessons'[i].status = s /\ lessons'[i].agent = call.row.agent
        /\ \A k \in LessonId \ {i} : lessons'[k] = lessons[k]
    BY <1>0, <1>00, <2>i, <2>2 DEF Lesson
  <2>4. ASSUME NEW a \in Agent
        PROVE  Cardinality(Kept(a)') <= ActivePerAgent + slack'[a] + Cardinality(Enforcing(a)')
    <3> DEFINE X == IF s = "active" /\ a = call.row.agent THEN {i} ELSE {}
    <3>1. \A k \in Active(lessons, a)' : k \in Active(lessons, a) \cup X
      BY <2>3 DEF Active, Stored
    <3>2. /\ \A k : ~ Retires(call, a, k)
          /\ ~ Enforces(call, a) /\ ~ Enforces(NoLessonCall, a)
      BY <2>1, IdleLessonCall DEF Retires, Enforces
    <3>3. slack'[a] = slack[a] + Cardinality(X) /\ slack[a] \in Nat /\ Cardinality(X) \in Nat
      <4>1. Cardinality({i}) = 1 /\ slack[a] \in Nat
        BY <1>0, FS_Singleton
      <4>2. CASE s = "active" /\ a = call.row.agent
        <5>1. slack'[a] = slack[a] + 1 /\ X = {i}
          BY <1>0, <2>2, <4>2
        <5>2. QED
          BY <4>1, <5>1
      <4>3. CASE ~ (s = "active" /\ a = call.row.agent)
        <5>1. slack'[a] = slack[a] /\ X = {}
          BY <1>0, <2>2, <4>3
        <5>2. QED
          BY <1>none, <4>1, <5>1
      <4>4. QED
        BY <4>2, <4>3
    <3>4. X \in SUBSET LessonId
      OBVIOUS
    <3> HIDE DEF X
    <3>5. Kept(a)' \subseteq Kept(a) \cup X
      BY <2>1, <3>1, <3>2, KeptMoves DEF call
    <3>6. /\ Cardinality(Enforcing(a)') = Cardinality(Enforcing(a))
          /\ Cardinality(Enforcing(a)) \in Nat
      BY <2>1, <3>2, EnforcingMoves DEF call
    <3>7. slack[a] + Cardinality(Enforcing(a)) + Cardinality(X)
            <= slack'[a] + Cardinality(Enforcing(a)')
      BY <3>3, <3>6
    <3>8. QED
      BY <3>4, <3>5, <3>7, MemoryGrows
  <2>5. QED
    BY <2>4 DEF MemoryKept
<1>8. CASE CheckOffer(c)
  <2>1. /\ call.at = "check" /\ UNCHANGED <<lessons, slack>>
        /\ \E o \in call.todo :
             \/ lessonCalls' = [lessonCalls EXCEPT ![c] = NextOffer(lessonCalls[c], call.todo \ {o})]
             \/ lessonCalls' = [lessonCalls EXCEPT ![c] =
                  [call EXCEPT !.at = "put", !.todo = @ \ {o}, !.id = made + 1,
                     !.row = [agent |-> o.agent, text |-> o.text, status |-> o.status]]]
    BY <1>8 DEF CheckOffer, call
  <2>2. PICK new : lessonCalls' = [lessonCalls EXCEPT ![c] = new]
                   /\ new.at \in {"idle", "check", "put"}
    <3>1. PICK o \in call.todo :
             \/ lessonCalls' = [lessonCalls EXCEPT ![c] = NextOffer(lessonCalls[c], call.todo \ {o})]
             \/ lessonCalls' = [lessonCalls EXCEPT ![c] =
                  [call EXCEPT !.at = "put", !.todo = @ \ {o}, !.id = made + 1,
                     !.row = [agent |-> o.agent, text |-> o.text, status |-> o.status]]]
      BY <2>1
    <3>2. NextOffer(lessonCalls[c], call.todo \ {o}).at \in {"idle", "check"}
      BY <1>00, OffersNext
    <3>3. [call EXCEPT !.at = "put", !.todo = @ \ {o}, !.id = made + 1,
             !.row = [agent |-> o.agent, text |-> o.text, status |-> o.status]].at = "put"
      BY <1>0 DEF LessonCall, call
    <3>4. QED
      BY <3>1, <3>2, <3>3
  <2>3. QED
    BY <1>1, <2>1, <2>2
\* A lesson is put, and its addition is to clean up.
<1>9. CASE PutLesson(c)
  <2>1. PICK new : new = [call EXCEPT !.at = "enforce"]
    OBVIOUS
  <2>2. /\ call.at = "put" /\ lessons' = [lessons EXCEPT ![call.id] = call.row]
        /\ lessonCalls' = [lessonCalls EXCEPT ![c] = new] /\ slack' = slack
    BY <1>0, <1>9, <2>1 DEF PutLesson, call
  <2>3. new.at = "enforce" /\ new.row = call.row
    BY <1>0, <2>1 DEF LessonCall, call
  <2>i. PICK i \in LessonId : i = call.id
    BY <1>00
  <2>4. /\ lessons'[i].agent = call.row.agent
        /\ \A k \in LessonId \ {i} : lessons'[k] = lessons[k]
    BY <1>0, <2>i, <2>2
  <2>5. ASSUME NEW a \in Agent
        PROVE  Cardinality(Kept(a)') <= ActivePerAgent + slack'[a] + Cardinality(Enforcing(a)')
    <3>1. CASE a = call.row.agent
      <4>1. /\ \A k \in Active(lessons, a)' : k \in Active(lessons, a) \cup {i}
            /\ \A k : ~ Retires(call, a, k)
            /\ ~ Enforces(call, a) /\ Enforces(new, a)
        BY <2>2, <2>3, <2>4, <3>1 DEF Active, Stored, Retires, Enforces
      <4>2. Kept(a)' \subseteq Kept(a) \cup {i}
        BY <2>2, <4>1, KeptMoves DEF call
      <4>3. /\ Cardinality(Enforcing(a)') = Cardinality(Enforcing(a)) + 1
            /\ Cardinality(Enforcing(a)) \in Nat
        BY <2>2, <4>1, EnforcingMoves DEF call
      <4>4. Cardinality({i}) = 1
        BY FS_Singleton
      <4>5. slack[a] + Cardinality(Enforcing(a)) + Cardinality({i})
              <= slack'[a] + Cardinality(Enforcing(a)')
        BY <1>0, <2>2, <4>3, <4>4
      <4>6. QED
        BY <4>2, <4>5, MemoryGrows
    <3>2. CASE a # call.row.agent
      <4>1. Active(lessons, a)' \subseteq Active(lessons, a) /\ slack'[a] = slack[a]
        BY <2>2, <2>4, <3>2 DEF Active, Stored
      <4>2. new.at \in {"enforce", "retire"} => new.row = call.row
        BY <2>3
      <4>3. QED
        BY <1>other, <2>2, <3>2, <4>1, <4>2
    <3>3. QED
      BY <3>1, <3>2
  <2>6. QED
    BY <2>5 DEF MemoryKept
\* The clean-up lists what is beyond the limit: the rest is within it.
<1>10. CASE ListActive(c)
  <2>a. PICK a \in Agent : a = call.row.agent
    BY <1>00
  <2>1. PICK old : old = [i \in LessonId |->
                            IF i \in BeyondLimit(lessons, a) THEN lessons[i] ELSE NoLesson]
    OBVIOUS
  <2>2. /\ call.at = "enforce" /\ UNCHANGED lessons /\ slack' = [slack EXCEPT ![a] = 0]
        /\ lessonCalls' = [lessonCalls EXCEPT ![c] =
             IF Stored(old) = {} THEN NextOffer(call, call.todo)
             ELSE [call EXCEPT !.at = "retire", !.old = old]]
    BY <1>10, <2>a, <2>1 DEF ListActive, call
  <2>3. PICK new : /\ lessonCalls' = [lessonCalls EXCEPT ![c] = new]
                   /\ new.at # "enforce"
                   /\ new.at = "retire" => new.row = call.row
                   /\ Stored(old) # {} => new.at = "retire" /\ new.row = call.row /\ new.old = old
    <3>1. NextOffer(call, call.todo).at \in {"idle", "check"}
      BY <1>00, OffersNext
    <3>2. CASE Stored(old) = {}
      BY <2>2, <3>1, <3>2
    <3>3. CASE Stored(old) # {}
      <4>1. PICK new : new = [call EXCEPT !.at = "retire", !.old = old]
        OBVIOUS
      <4>2. new.at = "retire" /\ new.row = call.row /\ new.old = old
        BY <1>0, <4>1 DEF LessonCall, call
      <4>3. QED
        BY <2>2, <3>3, <4>1, <4>2
    <3>4. QED
      BY <3>2, <3>3
  <2>4. \A i \in BeyondLimit(lessons, a) : i \in Stored(old)
    BY <2>1 DEF BeyondLimit, Active, Stored
  <2>5. ASSUME NEW i \in Kept(a)'
        PROVE  i \in Active(lessons, a) /\ i \notin BeyondLimit(lessons, a)
    <3>1. /\ i \in Active(lessons, a)' /\ ~ Retires(lessonCalls'[c], a, i)
      BY <2>5 DEF Kept, Retires
    <3>2. i \in Active(lessons, a) /\ lessonCalls'[c] = new
      BY <1>0, <1>same, <2>2, <2>3, <3>1
    <3>3. ASSUME i \in BeyondLimit(lessons, a)
          PROVE  FALSE
      <4>1. i \in Stored(old)
        BY <2>4, <3>3
      <4>2. new.at = "retire" /\ new.row.agent = a /\ new.old[i].status # "absent"
        BY <2>3, <2>a, <4>1 DEF Stored
      <4>3. QED
        BY <3>1, <3>2, <4>2 DEF Retires
    <3>4. QED
      BY <3>2, <3>3
  <2>6. PICK K, S : K = Kept(a)' /\ S = Active(lessons, a)
    OBVIOUS
  <2>7. S \subseteq Nat /\ IsFiniteSet(S)
    <3>1. S \in SUBSET LessonId
      BY <2>6 DEF Active, Stored
    <3>2. QED
      BY <3>1, LessonsFinite
  <2>8. K \in SUBSET S /\ \A i \in K : ~ (Cardinality({j \in S : j > i}) >= ActivePerAgent)
    BY <2>5, <2>6 DEF BeyondLimit
  <2>9. Cardinality(K) <= ActivePerAgent /\ Cardinality(K) \in Nat
    BY <2>7, <2>8, FewNewest, LessonsAssumption, FS_CardinalityType
  <2>10. ASSUME NEW b \in Agent
         PROVE  Cardinality(Kept(b)') <= ActivePerAgent + slack'[b] + Cardinality(Enforcing(b)')
    <3>1. CASE b = a
      <4>1. slack'[a] = 0
        BY <1>0, <2>2
      <4>2. Cardinality(Enforcing(a)') \in Nat
        BY <2>3, EnforcingMoves
      <4>3. Cardinality(K) <= ActivePerAgent + 0 + Cardinality(Enforcing(a)')
        BY <2>9, <4>2, LessonsAssumption
      <4>4. QED
        BY <2>6, <3>1, <4>1, <4>3
    <3>2. CASE b # a
      <4>1. Active(lessons, b)' \subseteq Active(lessons, b) /\ slack'[b] = slack[b]
        BY <1>0, <1>same, <2>2, <3>2
      <4>2. new.at \in {"enforce", "retire"} => new.row = call.row
        BY <2>3
      <4>3. QED
        BY <1>other, <2>3, <2>a, <3>2, <4>1, <4>2
    <3>3. QED
      BY <3>1, <3>2
  <2>11. QED
    BY <2>10 DEF MemoryKept
\* The clean-up retires one: it is no longer active, nor to be retired.
<1>11. CASE RetireOldest(c)
  <2>1. PICK i : i = CHOOSE j \in Stored(call.old) : \A k \in Stored(call.old) : k <= j
    OBVIOUS
  <2>2. PICK rest : rest = [call.old EXCEPT ![i] = NoLesson]
    OBVIOUS
  <2>3. /\ call.at = "retire" /\ slack' = slack
        /\ lessons' = [lessons EXCEPT ![i] = Retired(call.old[i])]
        /\ lessonCalls' = [lessonCalls EXCEPT ![c] =
             IF Stored(rest) = {} THEN NextOffer(call, call.todo)
             ELSE [call EXCEPT !.old = rest]]
    BY <1>11, <2>1, <2>2 DEF RetireOldest, call
  <2>4. PICK new : /\ lessonCalls' = [lessonCalls EXCEPT ![c] = new]
                   /\ new.at # "enforce"
                   /\ new.at = "retire" => new.row = call.row
                   /\ Stored(rest) # {} => new.at = "retire" /\ new.row = call.row /\ new.old = rest
    <3>1. NextOffer(call, call.todo).at \in {"idle", "check"}
      BY <1>00, OffersNext
    <3>2. CASE Stored(rest) = {}
      BY <2>3, <3>1, <3>2
    <3>3. CASE Stored(rest) # {}
      <4>1. PICK new : new = [call EXCEPT !.old = rest]
        OBVIOUS
      <4>2. new.at = "retire" /\ new.row = call.row /\ new.old = rest
        BY <1>0, <2>3, <4>1 DEF LessonCall, call
      <4>3. QED
        BY <2>3, <3>3, <4>1, <4>2
    <3>4. QED
      BY <3>2, <3>3
  <2>5. /\ \A k \in LessonId : k # i => lessons'[k] = lessons[k] /\ rest[k] = call.old[k]
        /\ i \in LessonId => lessons'[i].status = "retired"
    BY <1>0, <1>00, <2>2, <2>3, RetiredLesson
  <2>6. ASSUME NEW a \in Agent, NEW k \in Active(lessons, a)'
        PROVE  /\ k \in Active(lessons, a) \cup {}
               /\ Retires(call, a, k) => k \in {} \/ Retires(new, a, k)
    <3>1. k \in LessonId /\ lessons'[k].status = "active" /\ lessons'[k].agent = a
      BY <2>6 DEF Active, Stored
    <3>2. k # i /\ lessons'[k] = lessons[k] /\ rest[k] = call.old[k]
      BY <2>5, <3>1
    <3>3. k \in Active(lessons, a)
      BY <3>1, <3>2 DEF Active, Stored
    <3>4. ASSUME Retires(call, a, k)
          PROVE  Retires(new, a, k)
      <4>1. call.row.agent = a /\ rest[k].status # "absent"
        BY <3>2, <3>4 DEF Retires
      <4>2. k \in Stored(rest)
        BY <3>1, <4>1 DEF Stored
      <4>3. QED
        BY <2>4, <4>1, <4>2 DEF Retires
    <3>5. QED
      BY <3>3, <3>4
  <2>7. ASSUME NEW a \in Agent
        PROVE  Cardinality(Kept(a)') <= ActivePerAgent + slack'[a] + Cardinality(Enforcing(a)')
    <3>1. Kept(a)' \subseteq Kept(a) \cup {}
      BY <2>4, <2>6, KeptMoves DEF call
    <3>2. ~ Enforces(call, a) /\ ~ Enforces(new, a)
      BY <2>3, <2>4 DEF Enforces
    <3>3. /\ Cardinality(Enforcing(a)') = Cardinality(Enforcing(a))
          /\ Cardinality(Enforcing(a)) \in Nat
      BY <2>4, <3>2, EnforcingMoves DEF call
    <3>4. slack[a] + Cardinality(Enforcing(a)) + Cardinality({})
            <= slack'[a] + Cardinality(Enforcing(a)')
      BY <1>0, <1>none, <2>3, <3>3
    <3>5. QED
      BY <3>1, <3>4, MemoryGrows
  <2>8. QED
    BY <2>7 DEF MemoryKept
\* What a failing addition leaves behind, the slack counts.
<1>12. CASE LessonCallFails(c)
  <2>1. /\ lessonCalls' = [lessonCalls EXCEPT ![c] = NoLessonCall] /\ UNCHANGED lessons
        /\ slack' = IF call.at \in {"enforce", "retire"}
                    THEN [slack EXCEPT ![call.row.agent] =
                            @ + 1 + Cardinality(Stored(call.old))]
                    ELSE slack
    BY <1>12 DEF LessonCallFails, call
  <2>2. CASE call.at \notin {"enforce", "retire"}
    BY <1>1, <2>1, <2>2, IdleLessonCall
  <2>3. CASE call.at \in {"enforce", "retire"}
    <3>1. ASSUME NEW a \in Agent
          PROVE  Cardinality(Kept(a)') <= ActivePerAgent + slack'[a] + Cardinality(Enforcing(a)')
      <4>1. CASE a = call.row.agent
        <5>1. PICK X : X = Stored(call.old)
          OBVIOUS
        <5>2. X \in SUBSET LessonId
          BY <5>1 DEF Stored
        <5>3. Cardinality(X) \in Nat
          BY <5>2, LessonsFinite
        <5>4. slack'[a] = slack[a] + 1 + Cardinality(X) /\ slack[a] \in Nat
          BY <1>0, <2>1, <2>3, <4>1, <5>1
        <5>5. \A k \in Active(lessons, a)' : k \in Active(lessons, a) \cup X
          BY <1>same, <2>1
        <5>6. \A k \in Active(lessons, a)' :
                Retires(call, a, k) => k \in X \/ Retires(NoLessonCall, a, k)
          BY <5>1 DEF Active, Stored, Retires
        <5>7. Kept(a)' \subseteq Kept(a) \cup X
          BY <2>1, <5>5, <5>6, KeptMoves DEF call
        <5>8. /\ Cardinality(Enforcing(a)) <= Cardinality(Enforcing(a)') + 1
              /\ Cardinality(Enforcing(a)) \in Nat /\ Cardinality(Enforcing(a)') \in Nat
          BY <2>1, EnforcingMoves
        <5>9. slack[a] + Cardinality(Enforcing(a)) + Cardinality(X)
                <= slack'[a] + Cardinality(Enforcing(a)')
          BY <5>3, <5>4, <5>8
        <5>10. QED
          BY <5>2, <5>7, <5>9, MemoryGrows
      <4>2. CASE a # call.row.agent
        <5>1. Active(lessons, a)' \subseteq Active(lessons, a) /\ slack'[a] = slack[a]
          BY <1>0, <1>same, <2>1, <4>2
        <5>2. NoLessonCall.at \in {"enforce", "retire"} => NoLessonCall.row = call.row
          BY IdleLessonCall
        <5>3. QED
          BY <1>other, <2>1, <4>2, <5>1, <5>2
      <4>3. QED
        BY <4>1, <4>2
    <3>2. QED
      BY <3>1 DEF MemoryKept
  <2>4. QED
    BY <2>2, <2>3
<1>13. QED
  BY <1>3, <1>4, <1>5, <1>6, <1>7, <1>8, <1>9, <1>10, <1>11, <1>12, Zenon DEF LessonStep

\* Lessons are proposed when the tab's call on lessons is idle.
LEMMA MemoryProposed ==
  ASSUME LessonsTypeOK, LessonsTypeOK', MemoryKept, NEW c \in Tab, NEW offers \in Proposals,
         lessonCalls[c].at = "idle",
         lessonCalls' = [lessonCalls EXCEPT ![c] = NextOffer(lessonCalls[c], offers)],
         UNCHANGED <<lessons, slack>>
  PROVE  MemoryKept'
<1>1. NextOffer(lessonCalls[c], offers).at \in {"idle", "check"}
  BY ProposalsAreOffers, OffersNext
<1>2. \A a \in Agent : Active(lessons, a)' \subseteq Active(lessons, a)
  BY DEF Active, Stored
<1>3. QED
  BY <1>1, <1>2, MemoryUnmoved

\* Calls stay as they are, and no lesson becomes active.
LEMMA MemorySame ==
  ASSUME LessonsTypeOK, LessonsTypeOK', MemoryKept, UNCHANGED <<lessonCalls, slack>>,
         \A a \in Agent : Active(lessons, a)' \subseteq Active(lessons, a)
  PROVE  MemoryKept'
<1>1. ASSUME NEW a \in Agent
      PROVE  Cardinality(Kept(a)') <= ActivePerAgent + slack'[a] + Cardinality(Enforcing(a)')
  <2>1. Kept(a)' \subseteq Kept(a) \cup {} /\ Enforcing(a)' = Enforcing(a)
    BY DEF Kept, Enforcing, Retires, Enforces
  <2>2. Cardinality({}) = 0 /\ slack[a] \in Nat /\ Cardinality(Enforcing(a)) \in Nat
    <3>1. Enforcing(a) \in SUBSET Tab
      BY DEF Enforcing
    <3>2. QED
      BY <3>1, FS_EmptySet, TabsFinite DEF LessonsTypeOK
  <2>3. slack[a] + Cardinality(Enforcing(a)) + Cardinality({})
          <= slack'[a] + Cardinality(Enforcing(a)')
    BY <2>1, <2>2
  <2>4. QED
    BY <2>1, <2>3, MemoryGrows
<1>2. QED
  BY <1>1 DEF MemoryKept

-----------------------------------------------------------------------------
(* All three, with what a tab is at.                                       *)

Within == OneAtATime /\ MemoryKept /\ FilesKept /\ SignalsKept

\* At first there is nothing to bound.
LEMMA WithinAtFirst == Init => Within
<1> SUFFICES ASSUME Init
             PROVE  Within
  OBVIOUS
<1>1. OneAtATime
  BY IdleLessonCall, IdleFileCall, IdleRecordCall, IdleScan, IdleErasing
     DEF Init, LessonsInit, RecordInit, FilesInit, ScanInit, OneAtATime, OneAt
<1>2. MemoryKept
  <2>1. ASSUME NEW a \in Agent
        PROVE  Cardinality(Kept(a)) <= ActivePerAgent + slack[a] + Cardinality(Enforcing(a))
    <3>1. Kept(a) = {} /\ Enforcing(a) = {} /\ slack[a] = 0
      BY IdleLessonCall
         DEF Init, LessonsInit, Kept, Active, Stored, NoLessons, Enforcing, Enforces
    <3>2. Cardinality({}) = 0
      BY FS_EmptySet
    <3>3. QED
      BY <3>1, <3>2, LessonsAssumption
  <2>2. QED
    BY <2>1 DEF MemoryKept
<1>3. FilesKept
  <2>1. Listed \cup InHand = {}
    BY IdleFileCall DEF Init, FilesInit, Listed, InHand, HasInHand
  <2>2. IsFiniteSet({}) /\ Cardinality({}) = 0
    BY FS_EmptySet
  <2>3. 0 <= MAX_FILES + Cardinality(Tab) - 1
    BY TabsCounted, FilesAssumption
  <2>4. QED
    BY <2>1, <2>2, <2>3 DEF FilesKept
<1>4. SignalsKept
  <2>1. signals \ Leaving = {}
    BY DEF Init, ScanInit
  <2>2. QED
    BY <2>1, FS_EmptySet, ScanAssumption DEF SignalsKept
<1>5. QED
  BY <1>1, <1>2, <1>3, <1>4 DEF Within

\* Where nothing changes, everything stays within its limits.
LEMMA WithinSame ==
  ASSUME Types, Types', Within, UNCHANGED vars
  PROVE  Within'
<1>0. LessonsTypeOK /\ LessonsTypeOK'
  BY DEF Types, TypeOK
<1>1. UNCHANGED <<lessonVars, recordVars, fileVars, scanVars, erasing>>
  BY DEF vars, eraseVars
<1>2. OneAtATime'
  BY <1>1 DEF Within, OneAtATime, lessonVars, recordVars, fileVars, scanVars
<1>3. MemoryKept'
  <2>1. UNCHANGED <<lessons, lessonCalls, slack>>
    BY <1>1 DEF lessonVars
  <2>2. \A a \in Agent : Active(lessons, a)' \subseteq Active(lessons, a)
    BY <2>1 DEF Active, Stored
  <2>3. QED
    BY <1>0, <2>1, <2>2, MemorySame DEF Within
<1>4. FilesKept'
  BY <1>1 DEF Within, FilesKept, Listed, InHand, fileVars
<1>5. SignalsKept'
  BY <1>1 DEF Within, SignalsKept, Settled, Leaving, scanVars
<1>6. QED
  BY <1>2, <1>3, <1>4, <1>5 DEF Within

\* Every step of a tab keeps the memory within the limit.
LEMMA WithinMemory ==
  ASSUME Types, Types', Within, NEW c \in Tab, Step(c)
  PROVE  MemoryKept'
<1>0. LessonsTypeOK /\ LessonsTypeOK' /\ MemoryKept
      /\ OneAt(lessonCalls[c].at, recordCalls[c].at, fileCalls[c].at, scans[c].at, erasing[c].at)
  BY DEF Types, TypeOK, Within, OneAtATime
<1>1. CASE LessonStep(c)
  BY <1>0, <1>1, MemoryLessonStep
<1>2. ASSUME UNCHANGED <<lessons, lessonCalls, slack>>
      PROVE  MemoryKept'
  <2>1. \A a \in Agent : Active(lessons, a)' \subseteq Active(lessons, a)
    BY <1>2 DEF Active, Stored
  <2>2. QED
    BY <1>0, <1>2, <2>1, MemorySame
<1>3. CASE RecordStep(c)
  <2>1. CASE Reflect(c)
    <3>1. PICK offers \in Proposals :
            lessonCalls' = [lessonCalls EXCEPT ![c] = NextOffer(lessonCalls[c], offers)]
      BY <2>1 DEF Reflect
    <3>2. UNCHANGED <<lessons, slack>> /\ recordCalls[c].at = "reflect"
      BY <2>1 DEF Reflect
    <3>3. lessonCalls[c].at = "idle"
      BY <1>0, <3>2 DEF OneAt
    <3>4. QED
      BY <1>0, <3>1, <3>2, <3>3, MemoryProposed
  <2>2. CASE UNCHANGED lessonVars
    BY <1>2, <2>2 DEF lessonVars
  <2>3. QED
    BY <1>3, <2>1, <2>2
       DEF RecordStep, LogDecision, RecordQuestion, BeginEdit, BeginDrop, BeginOutcome,
           ReadDecision, SaveEdit, DropDecision, SaveOutcome, LogEvent, BeginUnlog,
           UnlogEvent, BeginPublish, SaveCheckpoint, RecordCallFails, Others
<1>4. CASE ScanStep(c)
  <2>1. CASE RefreshLandscape(c)
    <3>1. UNCHANGED <<lessons, slack>> /\ scans[c].at = "landscape"
      BY <2>1 DEF RefreshLandscape
    <3>2. CASE UNCHANGED lessonCalls
      BY <1>2, <3>1, <3>2
    <3>3. CASE \E offers \in Proposals :
                 lessonCalls' = [lessonCalls EXCEPT ![c] = NextOffer(lessonCalls[c], offers)]
      <4>1. lessonCalls[c].at = "idle"
        BY <1>0, <3>1 DEF OneAt
      <4>2. QED
        BY <1>0, <3>1, <3>3, <4>1, MemoryProposed
    <3>4. QED
      BY <2>1, <3>2, <3>3 DEF RefreshLandscape
  <2>2. CASE UNCHANGED lessonVars
    BY <1>2, <2>2 DEF lessonVars
  <2>3. QED
    BY <1>4, <2>1, <2>2
       DEF ScanStep, BeginSettings, SaveSettings, BeginScan, TimerFindsDue, ClaimScan,
           ListRows, Triage, MarkSeen, SearchWeb, KeepSignal, ListSignals,
           RemoveOldSignal, ForgetOldSeen, LessonsProposed, Reload, SaveScan, ScanFails
<1>5. CASE EraseLessons(c)
  <2>1. /\ UNCHANGED <<lessonCalls, slack>>
        /\ \A i \in LessonId : lessons'[i] = lessons[i] \/ lessons'[i].status = "absent"
    BY <1>0, <1>5, IdleLessonCall DEF EraseLessons, LessonsTypeOK
  <2>2. \A a \in Agent : Active(lessons, a)' \subseteq Active(lessons, a)
    BY <2>1 DEF Active, Stored
  <2>3. QED
    BY <1>0, <2>1, <2>2, MemorySame
<1>6. CASE \/ FileStep(c) /\ UNCHANGED lessonVars
           \/ BeginErase(c) \/ ListToErase(c) \/ EraseRecord(c) \/ EraseMeta(c)
           \/ EraseHorizon(c) \/ EraseFails(c) \/ FilesFail(c)
  <2>1. UNCHANGED lessonVars
    BY <1>6
       DEF BeginErase, ListToErase, EraseRecord, EraseMeta, EraseHorizon, EraseFails, FilesFail
  <2>2. QED
    BY <1>2, <2>1 DEF lessonVars
<1>7. QED
  BY <1>1, <1>3, <1>4, <1>5, <1>6 DEF Step

\* Every step of a tab keeps the files within the limit.
LEMMA WithinFiles ==
  ASSUME Types, Types', Within, NEW c \in Tab, Step(c)
  PROVE  FilesKept'
<1>0. FilesTypeOK /\ FilesTypeOK' /\ FilesKept
  BY DEF Types, TypeOK, Within
<1>1. CASE FileStep(c) \/ FileCallFails(c) \/ BeginDeleteAll(c)
  BY <1>0, <1>1, FilesKeptStep
<1>2. CASE UNCHANGED fileVars
  BY <1>0, <1>2 DEF FilesKept, Listed, InHand, fileVars
<1>3. CASE EraseRecord(c) \/ EraseLessons(c) \/ EraseMeta(c) \/ EraseHorizon(c)
  BY <1>2, <1>3 DEF EraseRecord, EraseLessons, EraseMeta, EraseHorizon, Erase
<1>4. QED
  BY <1>1, <1>2, <1>3 DEF Step, BeginErase, ListToErase, EraseFails, FilesFail

\* Every step of a tab keeps the signals within the limit.
LEMMA WithinSignals ==
  ASSUME Types, Types', Within, NEW c \in Tab, Step(c)
  PROVE  SignalsKept'
<1>0. ScanTypeOK /\ ScanTypeOK' /\ SignalsKept
  BY DEF Types, TypeOK, ScanTyped, Within
<1>1. CASE ScanStep(c)
  BY <1>0, <1>1, SignalsStep
<1>2. ASSUME signals' \subseteq signals, UNCHANGED <<scans, untrimmed>>
      PROVE  SignalsKept'
  <2>1. SUFFICES ASSUME Settled'
                 PROVE  Cardinality(signals' \ Leaving') <= MAX_SIGNALS
    BY DEF SignalsKept
  <2>2. Settled /\ Leaving' = Leaving
    BY <1>2, <2>1 DEF Settled, Leaving
  <2>3. signals \subseteq Item
    BY <1>0 DEF ScanTypeOK
  <2>4. PICK S, T : S = signals \ Leaving /\ T = signals' \ Leaving'
    OBVIOUS
  <2>5. T \in SUBSET S /\ S \in SUBSET Item /\ T \in SUBSET Item
    BY <1>2, <2>2, <2>3, <2>4
  <2>6. IsFiniteSet(S) /\ Cardinality(S) \in Nat /\ Cardinality(T) \in Nat
    BY <2>5, SignalsFinite
  <2>7. Cardinality(T) <= Cardinality(S)
    BY <2>5, <2>6, FS_Subset
  <2>8. Cardinality(S) <= MAX_SIGNALS
    BY <1>0, <2>2, <2>4 DEF SignalsKept
  <2>9. QED
    BY <2>4, <2>6, <2>7, <2>8, ScanAssumption
<1>3. CASE EraseHorizon(c)
  BY <1>2, <1>3 DEF EraseHorizon
<1>4. CASE UNCHANGED <<signals, scans, untrimmed>>
  BY <1>2, <1>4
<1>5. CASE EraseLessons(c) \/ EraseMeta(c)
  BY <1>4, <1>5 DEF EraseLessons, EraseMeta, Rows
<1>6. CASE UNCHANGED scanVars
  BY <1>4, <1>6 DEF scanVars
<1>7. QED
  BY <1>1, <1>3, <1>5, <1>6, Zenon
     DEF Step, BeginErase, ListToErase, EraseRecord, EraseFails, FilesFail

\* The memory of an agent, the files and the signals stay within their limits, but
\* for what the chair approved since, a failure left, or other tabs have in hand.
THEOREM WithinHolds == Spec => []WithinLimits
<1>1. Types /\ Types' /\ Within /\ [Next]_vars => Within'
  <2> SUFFICES ASSUME Types, Types', Within, [Next]_vars
               PROVE  Within'
    OBVIOUS
  <2>1. CASE UNCHANGED vars
    BY <2>1, WithinSame
  <2>2. CASE Next
    <3>1. PICK c \in Tab : Step(c)
      BY <2>2 DEF Next
    <3>2. OneAtATime'
      BY <3>1, OneStep DEF Within
    <3>3. QED
      BY <3>1, <3>2, WithinMemory, WithinFiles, WithinSignals DEF Within
  <2>3. QED
    BY <2>1, <2>2
<1>2. Types /\ Within => WithinLimits
  <2> SUFFICES ASSUME Types, Within
               PROVE  WithinLimits
    OBVIOUS
  <2>1. TypeOK /\ LessonsTypeOK /\ ScanTypeOK
    BY DEF Types, TypeOK, ScanTyped
  <2>2. MemoryBounded /\ FilesBounded /\ SignalsBounded
    BY <2>1, MemoryWithin, FilesWithin, SignalsWithin DEF Within
  <2>3. QED
    BY <2>1, <2>2 DEF WithinLimits
<1>3. QED
  BY <1>1, <1>2, WithinAtFirst, WorkspaceTypes, PTL DEF Spec
=============================================================================
