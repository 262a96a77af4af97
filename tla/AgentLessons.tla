----------------------------- MODULE AgentLessons -----------------------------
(***************************************************************************)
(* What the agents of a Sage Halpin workspace have learned: the lessons of *)
(* server/workspace.ts and the routes that write them.  The chair writes,  *)
(* approves, edits and retires lessons; studying material, outcomes and    *)
(* horizon scans propose them.  Several such requests run at once.         *)
(*                                                                         *)
(* Not modelled: kind, source and reference of a lesson, and the model's   *)
(* wording (a text is a class of texts that normalise() to the same).      *)
(***************************************************************************)
EXTENDS SageRequests

CONSTANTS
  Agent, Text,
  ActivePerAgent,   \* LESSON_LIMITS.activePerAgent, 30 in the code
  MaxLessons,       \* bound: lessons ever created
  MaxProposals      \* bound: lessons an outcome or a scan proposes

ASSUME LessonsAssumption ==
  /\ Agent # {} /\ Text # {}
  /\ ActivePerAgent \in Nat /\ MaxLessons \in Nat \ {0} /\ MaxProposals \in Nat

LessonId == 1..MaxLessons   \* in the order of createdAt

VARIABLES
  lessons,       \* the rows lesson-<id>
  made,          \* lessons created so far
  lessonCalls,   \* per tab, the request under way on lessons
  chairSaid,     \* history: what the chair wrote, taught or approved
  slack          \* history: per agent, lessons made active since its limit
                 \*   was last enforced: by approval, or by an addition that
                 \*   failed half way

lessonVars == <<lessons, made, lessonCalls, chairSaid, slack>>

Status == {"proposed", "active", "retired"}

Lesson == [agent : Agent, text : Text, status : Status \cup {"absent"}]

NoLesson == [agent |-> CHOOSE a \in Agent : TRUE,
             text |-> CHOOSE t \in Text : TRUE, status |-> "absent"]

\* What a handler hands to addLesson().
Offer == [agent : Agent, text : Text, status : {"proposed", "active"}]

\* What the model may propose to teach the agents.
Proposals == {os \in SUBSET [agent : Agent, text : Text, status : {"proposed"}] :
                Cardinality(os) <= MaxProposals}

LessonCall ==
  [at : {"idle", "check", "put", "enforce", "retire", "review"},
   todo : SUBSET Offer,          \* offers its handler has still to add
   id : LessonId, row : Lesson,  \* the lesson in hand
   old : [LessonId -> Lesson]]   \* copies of the lessons to retire

NoLessons == [i \in LessonId |-> NoLesson]

NoLessonCall ==
  [at |-> "idle", todo |-> {}, id |-> 1, row |-> NoLesson, old |-> NoLessons]

LessonsTypeOK ==
  /\ lessons \in [LessonId -> Lesson]
  /\ made \in 0..MaxLessons
  /\ lessonCalls \in [Tab -> LessonCall]
  /\ chairSaid \subseteq (Agent \X Text)
  /\ slack \in [Agent -> Nat]

LessonsInit ==
  /\ lessons = NoLessons
  /\ made = 0
  /\ lessonCalls = [c \in Tab |-> NoLessonCall]
  /\ chairSaid = {}
  /\ slack = [a \in Agent |-> 0]

Stored(rows) == {i \in LessonId : rows[i].status # "absent"}

Active(rows, a) == {i \in Stored(rows) : rows[i].agent = a /\ rows[i].status = "active"}

\* The call goes on with the next offer of its handler, or answers.
NextOffer(call, todo) ==
  IF todo = {} THEN NoLessonCall
  ELSE [NoLessonCall EXCEPT !.at = "check", !.todo = todo]

\* A handler calls addLesson() for each of the offers.
BeginAdding(c, offers) ==
  /\ lessonCalls[c].at = "idle" /\ offers # {}
  /\ lessonCalls' = [lessonCalls EXCEPT ![c] = NextOffer(@, offers)]
  /\ UNCHANGED <<lessons, made, slack>>

-----------------------------------------------------------------------------
(* The routes.                                                             *)

\* POST agents/:agentId/lessons: the chair teaches an agent directly.
TeachLesson(c, a, t) ==
  /\ Arrive
  /\ BeginAdding(c, {[agent |-> a, text |-> t, status |-> "active"]})
  /\ chairSaid' = chairSaid \cup {<<a, t>>}

\* POST horizon/signals/:signalId/teach: what a signal means, to some agents.
TeachSignal(c, as, t) ==
  /\ Arrive
  /\ BeginAdding(c, [agent : as, text : {t}, status : {"active"}])
  /\ chairSaid' = chairSaid \cup (as \X {t})

\* Mutant: what an agent takes from the material is active at once.
StudyBelieved(c, a, ts) ==
  /\ Arrive
  /\ BeginAdding(c, [agent : {a}, text : ts, status : {"active"}])
  /\ UNCHANGED chairSaid

\* POST agents/:agentId/study: the model proposes what to take from it.
Study(c, a, ts) ==
  /\ Arrive
  /\ BeginAdding(c, [agent : {a}, text : ts, status : {"proposed"}])
  /\ UNCHANGED chairSaid

\* PATCH lessons/:lessonId reads the lesson ...
BeginReview(c, i) ==
  /\ Arrive
  /\ lessonCalls[c].at = "idle" /\ i \in Stored(lessons)
  /\ lessonCalls' = [lessonCalls EXCEPT ![c] =
       [NoLessonCall EXCEPT !.at = "review", !.id = i, !.row = lessons[i]]]
  /\ UNCHANGED <<lessons, made, chairSaid, slack>>

\* ... and writes it back whole, approved or retired, as it was or edited.
\* The active limit is not looked at.
WriteReview(c) ==
  LET call == lessonCalls[c] IN
  /\ call.at = "review"
  /\ \E s \in {"active", "retired"}, t \in Text :
       /\ lessons' = [lessons EXCEPT ![call.id] =
                        [call.row EXCEPT !.status = s, !.text = t]]
       /\ IF s = "active"
          THEN /\ chairSaid' = chairSaid \cup {<<call.row.agent, t>>}
               /\ slack' = [slack EXCEPT ![call.row.agent] = @ + 1]
          ELSE UNCHANGED <<chairSaid, slack>>
  /\ lessonCalls' = [lessonCalls EXCEPT ![c] = NoLessonCall]
  /\ UNCHANGED <<issued, made>>

-----------------------------------------------------------------------------
(* addLesson() and enforceActiveLimit(), one store call at a time.         *)

SameLesson(o) == \E i \in Stored(lessons) :
                    lessons[i].agent = o.agent /\ lessons[i].text = o.text

\* addLesson() lists the lessons: a repeated one is dropped, a new one made.
CheckOffer(c) ==
  LET call == lessonCalls[c] IN
  /\ call.at = "check"
  /\ \E o \in call.todo :
       IF SameLesson(o)
       THEN /\ lessonCalls' =
                 [lessonCalls EXCEPT ![c] = NextOffer(@, call.todo \ {o})]
            /\ UNCHANGED made
       ELSE /\ made < MaxLessons
            /\ made' = made + 1
            /\ lessonCalls' = [lessonCalls EXCEPT ![c] =
                 [call EXCEPT !.at = "put", !.todo = @ \ {o}, !.id = made + 1,
                    !.row = [agent |-> o.agent, text |-> o.text,
                             status |-> o.status]]]
  /\ UNCHANGED <<issued, lessons, chairSaid, slack>>

PutLesson(c) ==
  LET call == lessonCalls[c] IN
  /\ call.at = "put"
  /\ lessons' = [lessons EXCEPT ![call.id] = call.row]
  /\ lessonCalls' = [lessonCalls EXCEPT ![c].at = "enforce"]
  /\ UNCHANGED <<issued, made, chairSaid, slack>>

\* Mutant: one more than the limit stays.
BeyondLimitOneMore(rows, a) ==
  {i \in Active(rows, a) :
     Cardinality({j \in Active(rows, a) : j > i}) > ActivePerAgent}

\* The active lessons beyond the limit, newest first: the oldest go.
BeyondLimit(rows, a) ==
  {i \in Active(rows, a) :
     Cardinality({j \in Active(rows, a) : j > i}) >= ActivePerAgent}

\* enforceActiveLimit() lists the lessons ...
ListActive(c) ==
  LET call == lessonCalls[c]
      a == call.row.agent
      old == [i \in LessonId |->
                IF i \in BeyondLimit(lessons, a) THEN lessons[i] ELSE NoLesson]
  IN
  /\ call.at = "enforce"
  /\ lessonCalls' = [lessonCalls EXCEPT ![c] =
       IF Stored(old) = {} THEN NextOffer(call, call.todo)
       ELSE [call EXCEPT !.at = "retire", !.old = old]]
  /\ slack' = [slack EXCEPT ![a] = 0]
  /\ UNCHANGED <<issued, lessons, made, chairSaid>>

Retired(row) == [row EXCEPT !.status = "retired"]

\* ... and writes the old ones back one by one, as it read them but retired.
RetireOldest(c) ==
  LET call == lessonCalls[c]
      i == CHOOSE j \in Stored(call.old) : \A k \in Stored(call.old) : k <= j
      rest == [call.old EXCEPT ![i] = NoLesson]
  IN
  /\ call.at = "retire"
  /\ lessons' = [lessons EXCEPT ![i] = Retired(call.old[i])]
  /\ lessonCalls' = [lessonCalls EXCEPT ![c] =
       IF Stored(rest) = {} THEN NextOffer(call, call.todo)
       ELSE [call EXCEPT !.old = rest]]
  /\ UNCHANGED <<issued, made, chairSaid, slack>>

\* The store fails a call: the handler ends, what it wrote stays.
LessonCallFails(c) ==
  LET call == lessonCalls[c] IN
  /\ call.at # "idle"
  /\ lessonCalls' = [lessonCalls EXCEPT ![c] = NoLessonCall]
  /\ slack' = IF call.at \in {"enforce", "retire"}
              THEN [slack EXCEPT ![call.row.agent] =
                      @ + 1 + Cardinality(Stored(call.old))]
              ELSE slack
  /\ UNCHANGED <<issued, lessons, made, chairSaid>>

LessonStep(c) ==
  \/ \E a \in Agent, t \in Text : TeachLesson(c, a, t)
  \/ \E as \in SUBSET Agent, t \in Text : TeachSignal(c, as, t)
  \/ \E a \in Agent, ts \in SUBSET Text : Study(c, a, ts)
  \/ \E i \in LessonId : BeginReview(c, i)
  \/ WriteReview(c)
  \/ CheckOffer(c) \/ PutLesson(c) \/ ListActive(c) \/ RetireOldest(c)
  \/ LessonCallFails(c)

-----------------------------------------------------------------------------
(* Properties.                                                             *)

\* Nothing becomes part of an agent's memory without the chair: every active
\* lesson is one the chair wrote, taught or approved in these words, however
\* the routes that write lessons interleave (workspace.ts:151-155).
NothingLearnedAlone ==
  \A i \in Stored(lessons) :
    lessons[i].status = "active" => <<lessons[i].agent, lessons[i].text>> \in chairSaid

Adding(a) ==
  \E c \in Tab : /\ lessonCalls[c].at \in {"enforce", "retire"}
                 /\ lessonCalls[c].row.agent = a

\* An agent's active memory stays bounded under concurrent additions: when no
\* addition is between its write and its clean-up, at most the limit is
\* active, and what the chair approved by PATCH (which does not look at the
\* limit) or a failed addition left since.
MemoryBounded ==
  \A a \in Agent :
    ~ Adding(a) => Cardinality(Active(lessons, a)) <= ActivePerAgent + slack[a]

\* What was retired is not learned again by accident: only a decision of the
\* chair on that very lesson makes a retired one active, although the clean-up
\* writes back copies it read before (workspace.ts:183-188).
RetiredStaysRetired ==
  \A i \in LessonId :
    lessons[i].status = "retired" /\ lessons'[i].status = "active" =>
      \E c \in Tab : lessonCalls[c].at = "review" /\ lessonCalls[c].id = i

\* The agents' memory is what the chair made it: no step makes a lesson active
\* that the chair did not approve, and none brings a retired one back unasked
\* (workspace.ts:151-188).
MemoryIsTheChairs == [][NothingLearnedAlone' /\ RetiredStaysRetired]_lessonVars
=============================================================================
