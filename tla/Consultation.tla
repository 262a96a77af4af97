------------------------------ MODULE Consultation ------------------------------
(***************************************************************************)
(* A board question of the Sage Halpin server                              *)
(* (server/routes/consultations.ts): the lead sends people links to a      *)
(* questionnaire, convenes the shadow board of agents, lets it challenge   *)
(* the people's answers, asks for views and records the decision; people   *)
(* answer; time ends the question.  Every request loads the row `meta'     *)
(* first and works on that copy, whatever others write meanwhile.          *)
(*                                                                         *)
(* One question is modelled; a round of the agents, an answer and a        *)
(* decision are the number of the request that made them.  Not modelled:   *)
(* validation, wording, prompts, the model's retries, email delivery (it   *)
(* changes a label only), who may ask (404 without the token).  Files and  *)
(* lessons are modules of their own (SageFiles, AgentLessons): here a file *)
(* is attached or not, and a lesson is handed over or not.                 *)
(***************************************************************************)
EXTENDS SageRequests

CONSTANTS
  Person,        \* the people the lead names
  Permanent,     \* permanent members among them
  Nobody,        \* no person
  MaxLinks,      \* bound: links ever drawn
  MaxFailures    \* bound: store calls that fail

ASSUME ConsultationAssumption ==
  /\ Permanent \subseteq Person /\ Nobody \notin Person
  /\ MaxLinks \in Nat /\ MaxFailures \in Nat

VARIABLES
  meta,        \* the row META of the question
  tokens,      \* partition TOKENS: the person a link stands for, or none
  drawn,       \* links drawn so far
  responses,   \* rows response-<person>
  shadow,      \* row SHADOW: the agents' first round
  challenge,   \* row CHALLENGE: their second round, and the first it is of
  views,       \* rows synthesis-<view>
  decision,    \* row DECISION
  rated,       \* some row feedback-<agent>
  attached,    \* the question has files
  record,      \* the decision in the workspace's record
  taught,      \* a lesson went to the workspace's agents
  expired,     \* the retention date has passed
  calls,       \* per tab or timer, the request under way
  failures,    \* store calls that have failed
  raced        \* history: what two requests worked on at once, or one left
               \*   half done

boardRows == <<shadow, challenge>>
vars == <<issued, meta, tokens, drawn, responses, boardRows, views, decision,
          rated, attached, record, taught, expired, calls, failures, raced>>

Number == 0..MaxRequests      \* of requests; 0: none
Mode == {"people", "agents", "collaborative"}
View == {"people", "mixed"}

Meta == [there : BOOLEAN, closed : BOOLEAN, mode : Mode, linked : BOOLEAN,
         links : [Person -> 0..MaxLinks]]

NoMeta == [there |-> FALSE, closed |-> FALSE, mode |-> "people", linked |-> FALSE,
           links |-> [p \in Person |-> 0]]

Decision == [n : Number, without : SUBSET Permanent]
Record == [n : Number, answers : [Person -> Number], round : Number]
NoAnswers == [p \in Person |-> 0]
NoDecision == [n |-> 0, without |-> {}]
NoRecord == [n |-> 0, answers |-> NoAnswers, round |-> 0]
NoChallenge == [n |-> 0, of |-> 0]

\* The rows a purge has listed.
Rows == [first : BOOLEAN, meta : BOOLEAN, people : SUBSET Person, rest : BOOLEAN]

Call ==
  [at : {"idle", "unlink", "link", "invited", "close", "convene", "outdate",
         "challenge", "view", "decide", "shut", "reread", "rate", "learn", "answer",
         "files", "links", "list", "first", "meta", "people", "rest"},
   c : Meta, todo : SUBSET Person, view : View, by : Number, of : Number,
   took : Record, without : SUBSET Permanent, rows : Rows]

NoRows == [first |-> FALSE, meta |-> FALSE, people |-> {}, rest |-> FALSE]

NoCall == [at |-> "idle", c |-> NoMeta, todo |-> {}, view |-> "people", by |-> 0,
           of |-> 0, took |-> NoRecord, without |-> {}, rows |-> NoRows]

TypeOK ==
  /\ issued \in Number /\ meta \in Meta
  /\ tokens \in [1..MaxLinks -> Person \cup {Nobody}] /\ drawn \in 0..MaxLinks
  /\ responses \in [Person -> Number]
  /\ shadow \in Number /\ challenge \in [n : Number, of : Number]
  /\ views \subseteq View /\ decision \in Decision /\ record \in Record
  /\ {rated, attached, taught, expired} \subseteq BOOLEAN
  /\ calls \in [Tab -> Call] /\ failures \in 0..MaxFailures
  /\ raced \subseteq {"meta", "board", "decision", "answers", "purge"}

Empty ==
  /\ meta = NoMeta
  /\ tokens = [k \in 1..MaxLinks |-> Nobody] /\ drawn = 0
  /\ responses = NoAnswers /\ shadow = 0 /\ challenge = NoChallenge
  /\ views = {} /\ decision = NoDecision /\ record = NoRecord
  /\ rated = FALSE /\ attached = FALSE /\ taught = FALSE /\ expired = FALSE
  /\ calls = [t \in Tab |-> NoCall] /\ failures = 0 /\ raced = {}

Init == issued = 0 /\ Empty

-----------------------------------------------------------------------------
(* History: what the requests under way work on.                           *)

Purging(call) ==
  call.at \in {"files", "links", "list", "first", "meta", "people", "rest"}

Topics(call) ==
  CASE call.at \in {"unlink", "link", "invited", "close"} -> {"meta"}
    [] call.at \in {"convene", "outdate", "challenge"} -> {"board"}
    [] call.at \in {"decide", "shut"} -> {"meta", "decision", "answers"}
    [] call.at = "reread" -> {"decision", "answers"}
    [] call.at = "answer" -> {"answers"}
    [] Purging(call) -> {"meta", "board", "decision", "answers"}
    [] OTHER -> {}

Meets(one, other) ==
  (Topics(one) \cap Topics(other)) \cup
  (IF {one.at, other.at} \cap {"idle"} = {} /\ (Purging(one) \/ Purging(other))
   THEN {"purge"} ELSE {})

\* The request of tab t goes on as `call'.
Goes(t, call) ==
  /\ calls' = [calls EXCEPT ![t] = call]
  /\ raced' = raced \cup UNION {Meets(call, calls[u]) : u \in Tab \ {t}}

Ends(t) == Goes(t, NoCall)

Free(t) == calls[t].at = "idle"

\* loadConsultation() finds the question and it has not expired.
Load(t, call) ==
  /\ Arrive /\ Free(t) /\ meta.there /\ ~ expired
  /\ Goes(t, [call EXCEPT !.c = meta, !.by = issued'])

Begins(at) == [NoCall EXCEPT !.at = at]

\* All that steps of one kind of request leave alone.
Lifetime == <<attached, taught, expired, failures>>
People == <<tokens, drawn, responses>>
Outcome == <<decision, record>>

Invitees(m) == IF m.mode = "agents" THEN {} ELSE Person

-----------------------------------------------------------------------------
(* The lead: creating, inviting, closing.                                  *)

\* POST /consultations: an id and rows that were never used.
Create(t, mode, linked) ==
  /\ Arrive /\ Free(t)
  /\ meta = NoMeta /\ drawn = 0 /\ \A u \in Tab : Free(u)
  /\ responses = NoAnswers /\ shadow = 0 /\ ~ expired
  /\ decision = NoDecision /\ record = NoRecord
  /\ meta' = [NoMeta EXCEPT !.there = TRUE, !.mode = mode, !.linked = linked]
  /\ UNCHANGED <<People, boardRows, views, Outcome, rated, Lifetime, calls, raced>>

\* The next invitee, or the end of the loop.
NextInvitee(call, c, todo) ==
  [call EXCEPT !.at = IF todo = {} THEN "invited" ELSE "unlink", !.c = c, !.todo = todo]

\* POST invitations, for some people of an open question.
BeginInvite(t, ps) ==
  /\ ~ meta.closed /\ meta.mode # "agents" /\ ps # {}
  /\ Load(t, [NoCall EXCEPT !.at = "unlink", !.todo = ps])
  /\ UNCHANGED <<meta, People, boardRows, views, Outcome, rated, Lifetime>>

\* The first of the people still to do; their order does not matter.
First(ps) == CHOOSE p \in ps : TRUE

\* Mutant: the earlier link stays valid.
UnlinkedKept(old) == tokens

\* The link that is replaced stops working.
Unlinked(old) == IF old = 0 THEN tokens ELSE [tokens EXCEPT ![old] = Nobody]

RemoveLink(t) ==
  LET call == calls[t] IN
  /\ call.at = "unlink"
  /\ tokens' = Unlinked(call.c.links[First(call.todo)])
  /\ Goes(t, [call EXCEPT !.at = "link"])
  /\ UNCHANGED <<issued, meta, drawn, responses, boardRows, views, Outcome, rated, Lifetime>>

\* The new one works before the question knows it; then an email may go out.
PutLink(t) ==
  LET call == calls[t]
      p == First(call.todo)
  IN
  /\ call.at = "link" /\ drawn < MaxLinks
  /\ drawn' = drawn + 1
  /\ tokens' = [tokens EXCEPT ![drawn'] = p]
  /\ Goes(t, NextInvitee(call, [call.c EXCEPT !.links[p] = drawn'], call.todo \ {p}))
  /\ UNCHANGED <<issued, meta, responses, boardRows, views, Outcome, rated, Lifetime>>

\* The question is written back whole, with the new links.
SaveInvited(t) ==
  /\ calls[t].at = "invited"
  /\ meta' = calls[t].c
  /\ Ends(t)
  /\ UNCHANGED <<issued, People, boardRows, views, Outcome, rated, Lifetime>>

\* POST close
BeginClose(t) ==
  /\ Load(t, Begins("close"))
  /\ UNCHANGED <<meta, People, boardRows, views, Outcome, rated, Lifetime>>

Close(t) ==
  /\ calls[t].at = "close"
  /\ meta' = [calls[t].c EXCEPT !.closed = TRUE]
  /\ Ends(t)
  /\ UNCHANGED <<issued, People, boardRows, views, Outcome, rated, Lifetime>>

\* The routes of files, in one step each (SageFiles has their calls).
Attach(t) ==
  /\ Arrive /\ Free(t) /\ meta.there /\ ~ expired /\ ~ attached
  /\ attached' = TRUE
  /\ raced' = raced \cup
       (IF \E u \in Tab : Purging(calls[u]) THEN {"purge"} ELSE {})
  /\ UNCHANGED <<meta, People, boardRows, views, Outcome, rated, taught, expired,
                 failures, calls>>

-----------------------------------------------------------------------------
(* The people.                                                             *)

\* resolveInvite(): the link is known and the question knows it.
Resolves(k) == /\ tokens[k] # Nobody /\ meta.there
               /\ meta.links[tokens[k]] = k

MayAnswer(c) == ~ c.closed

\* POST respond/:token reads the link and the question ...
BeginAnswer(t, k) ==
  /\ Resolves(k) /\ MayAnswer(meta)
  /\ Load(t, [NoCall EXCEPT !.at = "answer", !.todo = {tokens[k]}])
  /\ UNCHANGED <<meta, People, boardRows, views, Outcome, rated, Lifetime>>

\* ... and stores the answers in place of earlier ones.
Answer(t) ==
  LET call == calls[t] IN
  /\ call.at = "answer"
  /\ responses' = [responses EXCEPT ![First(call.todo)] = call.by]
  /\ Ends(t)
  /\ UNCHANGED <<issued, meta, tokens, drawn, boardRows, views, Outcome, rated, Lifetime>>

Answered == {p \in Person : responses[p] # 0}

\* responsesOf()
Heard(c) == Answered \cap Invitees(c)

-----------------------------------------------------------------------------
(* The agents.                                                             *)

\* POST shadow-board: documents and lessons are read, every agent opines and
\* then the chair, or the model fails.
BeginConvene(t) ==
  /\ meta.mode # "people"
  /\ Load(t, Begins("convene"))
  /\ UNCHANGED <<meta, People, boardRows, views, Outcome, rated, Lifetime>>

AfterConvene(call) == [call EXCEPT !.at = "outdate"]

Convene(t) ==
  /\ calls[t].at = "convene"
  /\ shadow' = calls[t].by
  /\ Goes(t, AfterConvene(calls[t]))
  /\ UNCHANGED <<issued, meta, People, challenge, views, Outcome, rated, Lifetime>>

\* A new first round makes the second out of date.
Outdate(t) ==
  /\ calls[t].at = "outdate"
  /\ challenge' = NoChallenge
  /\ Ends(t)
  /\ UNCHANGED <<issued, meta, People, shadow, views, Outcome, rated, Lifetime>>

\* POST challenge, when there is a first round and an answer.
BeginChallenge(t) ==
  /\ meta.mode = "collaborative" /\ shadow # 0 /\ Heard(meta) # {}
  /\ Load(t, [NoCall EXCEPT !.at = "challenge", !.of = shadow])
  /\ UNCHANGED <<meta, People, boardRows, views, Outcome, rated, Lifetime>>

Challenge(t) ==
  LET call == calls[t] IN
  /\ call.at = "challenge"
  /\ challenge' = [n |-> call.by, of |-> call.of]
  /\ Ends(t)
  /\ UNCHANGED <<issued, meta, People, shadow, views, Outcome, rated, Lifetime>>

\* finalOpinions(): the second round if there is one of a first.
FinalRound ==
  IF shadow = 0 THEN 0 ELSE IF challenge.n # 0 THEN challenge.n ELSE shadow

\* POST synthesis: the people's view, or the combined one of a collaboration.
BeginView(t, v) ==
  /\ Heard(meta) # {}
  /\ v = "mixed" => meta.mode = "collaborative" /\ shadow # 0
  /\ Load(t, [NoCall EXCEPT !.at = "view", !.view = v])
  /\ UNCHANGED <<meta, People, boardRows, views, Outcome, rated, Lifetime>>

SaveView(t) ==
  /\ calls[t].at = "view"
  /\ views' = views \cup {calls[t].view}
  /\ Ends(t)
  /\ UNCHANGED <<issued, meta, People, boardRows, Outcome, rated, Lifetime>>

-----------------------------------------------------------------------------
(* The decision and feedback.                                              *)

\* Mutant: who is missing is not written down.
UnheardForgotten(c) == {}

\* The permanent members who have not answered.
Unheard(c) == (Permanent \cap Invitees(c)) \ Heard(c)

\* POST decision, open or closed: confirmed when permanent members are missing.
BeginDecide(t) ==
  /\ Load(t, [NoCall EXCEPT !.at = "decide", !.without = Unheard(meta)])
  /\ UNCHANGED <<meta, People, boardRows, views, Outcome, rated, Lifetime>>

PutDecision(t) ==
  /\ calls[t].at = "decide"
  /\ decision' = [n |-> calls[t].by, without |-> calls[t].without]
  /\ Goes(t, [calls[t] EXCEPT !.at = "shut", !.c.closed = TRUE])
  /\ UNCHANGED <<issued, meta, People, boardRows, views, record, rated, Lifetime>>

Shut(t) ==
  LET call == calls[t] IN
  /\ call.at = "shut"
  /\ meta' = call.c
  /\ Goes(t, IF call.c.linked THEN [call EXCEPT !.at = "reread"] ELSE NoCall)
  /\ UNCHANGED <<issued, People, boardRows, views, Outcome, rated, Lifetime>>

AnswersNow(c) == [p \in Person |-> IF p \in Invitees(c) THEN responses[p] ELSE 0]

\* Mutant: only the first decision reaches the workspace.
SaveRecordOnce(t) ==
  LET call == calls[t] IN
  /\ call.at = "reread"
  /\ record' = IF record.n # 0 THEN record
               ELSE [n |-> call.by, answers |-> AnswersNow(call.c), round |-> FinalRound]
  /\ Ends(t)
  /\ UNCHANGED <<issued, meta, People, boardRows, views, decision, rated, Lifetime>>

\* Answers and opinions are read again and saved with the decision in the
\* workspace's record.
SaveRecord(t) ==
  LET call == calls[t] IN
  /\ call.at = "reread"
  /\ record' = [n |-> call.by, answers |-> AnswersNow(call.c), round |-> FinalRound]
  /\ Ends(t)
  /\ UNCHANGED <<issued, meta, People, boardRows, views, decision, rated, Lifetime>>

\* POST feedback: a note becomes a lesson of the workspace.
BeginRate(t) ==
  /\ Load(t, Begins("rate"))
  /\ UNCHANGED <<meta, People, boardRows, views, Outcome, rated, Lifetime>>

Rate(t) ==
  /\ calls[t].at = "rate"
  /\ rated' = TRUE
  /\ \E noted \in BOOLEAN :
       Goes(t, IF noted /\ calls[t].c.linked THEN [calls[t] EXCEPT !.at = "learn"]
               ELSE NoCall)
  /\ UNCHANGED <<issued, meta, People, boardRows, views, Outcome, Lifetime>>

Learn(t) ==
  /\ calls[t].at = "learn"
  /\ taught' = TRUE
  /\ Ends(t)
  /\ UNCHANGED <<issued, meta, People, boardRows, views, Outcome, rated, attached,
                 expired, failures>>

-----------------------------------------------------------------------------
(* purge(), by the lead, by whoever opens an expired question, or by the   *)
(* sweep.                                                                  *)

Stays == <<issued, drawn, record, taught, expired, failures>>

\* DELETE /consultations/:id
BeginDelete(t) ==
  /\ Load(t, Begins("files"))
  /\ UNCHANGED <<meta, People, boardRows, views, Outcome, rated, Lifetime>>

Expire ==
  /\ ~ expired /\ meta.there /\ expired' = TRUE
  /\ UNCHANGED <<issued, meta, People, boardRows, views, Outcome, rated, attached,
                 taught, calls, failures, raced>>

\* sweepExpired() finds the question by its row META; so does loadConsultation().
BeginSweep(t) ==
  /\ Free(t) /\ meta.there /\ expired
  /\ Goes(t, [NoCall EXCEPT !.at = "files", !.c = meta])
  /\ UNCHANGED <<issued, meta, People, boardRows, views, Outcome, rated, Lifetime>>

LinksOf(c) == {c.links[p] : p \in Person} \ {0}

\* Files first, then the links the copy knows ...
PurgeFiles(t) ==
  /\ calls[t].at = "files"
  /\ attached' = FALSE
  /\ Goes(t, [calls[t] EXCEPT !.at = "links"])
  /\ UNCHANGED <<Stays, meta, tokens, responses, boardRows, views, decision, rated>>

PurgeLinks(t) ==
  /\ calls[t].at = "links"
  /\ tokens' = [k \in 1..MaxLinks |->
                  IF k \in LinksOf(calls[t].c) THEN Nobody ELSE tokens[k]]
  /\ Goes(t, [calls[t] EXCEPT !.at = "list"])
  /\ UNCHANGED <<Stays, meta, responses, boardRows, views, decision, rated, attached>>

\* Mutant: the answers are not among the rows.
CurrentRowsUnanswered ==
  [first |-> challenge.n # 0 \/ decision.n # 0 \/ rated, meta |-> meta.there,
   people |-> {}, rest |-> shadow # 0 \/ views # {}]

CurrentRows ==
  [first |-> challenge.n # 0 \/ decision.n # 0 \/ rated, meta |-> meta.there,
   people |-> Answered, rest |-> shadow # 0 \/ views # {}]

ListRows(t) ==
  /\ calls[t].at = "list"
  /\ Goes(t, [calls[t] EXCEPT !.at = "first", !.rows = CurrentRows])
  /\ UNCHANGED <<Stays, meta, tokens, responses, boardRows, views, decision, rated, attached>>

\* ... then the rows in their order: what comes before `meta', `meta', the
\* answers, and what comes after them.
PurgeFirst(t) ==
  /\ calls[t].at = "first"
  /\ IF calls[t].rows.first
     THEN challenge' = NoChallenge /\ decision' = NoDecision /\ rated' = FALSE
     ELSE UNCHANGED <<challenge, decision, rated>>
  /\ Goes(t, [calls[t] EXCEPT !.at = "meta"])
  /\ UNCHANGED <<Stays, meta, tokens, responses, shadow, views, attached>>

PurgeMeta(t) ==
  /\ calls[t].at = "meta"
  /\ meta' = IF calls[t].rows.meta THEN NoMeta ELSE meta
  /\ Goes(t, [calls[t] EXCEPT !.at = "people"])
  /\ UNCHANGED <<Stays, tokens, responses, boardRows, views, decision, rated, attached>>

PurgePeople(t) ==
  /\ calls[t].at = "people"
  /\ responses' = [p \in Person |-> IF p \in calls[t].rows.people THEN 0 ELSE responses[p]]
  /\ Goes(t, [calls[t] EXCEPT !.at = "rest"])
  /\ UNCHANGED <<Stays, meta, tokens, boardRows, views, decision, rated, attached>>

PurgeRest(t) ==
  /\ calls[t].at = "rest"
  /\ IF calls[t].rows.rest THEN shadow' = 0 /\ views' = {}
     ELSE UNCHANGED <<shadow, views>>
  /\ Ends(t)
  /\ UNCHANGED <<Stays, meta, tokens, responses, challenge, decision, rated, attached>>

\* The model or the store fails a call, or the process dies: what was written
\* stays, and what the request worked on may be half done.
CallFails(t) ==
  /\ ~ Free(t) /\ failures < MaxFailures
  /\ failures' = failures + 1
  /\ calls' = [calls EXCEPT ![t] = NoCall]
  /\ raced' = raced \cup Topics(calls[t]) \cup
       (IF calls[t].at \in {"people", "rest"} THEN {"purge"} ELSE {})
  /\ UNCHANGED <<issued, meta, People, boardRows, views, Outcome, rated, attached,
                 taught, expired>>

\* The handlers that go on after a call.
Proceed(t) ==
  \/ RemoveLink(t) \/ PutLink(t) \/ SaveInvited(t) \/ Close(t) \/ Answer(t)
  \/ Convene(t) \/ Outdate(t) \/ Challenge(t) \/ SaveView(t)
  \/ PutDecision(t) \/ Shut(t) \/ SaveRecord(t) \/ Rate(t) \/ Learn(t)
  \/ PurgeFiles(t) \/ PurgeLinks(t) \/ ListRows(t)
  \/ PurgeFirst(t) \/ PurgeMeta(t) \/ PurgePeople(t) \/ PurgeRest(t)

Request(t) ==
  \/ \E m \in Mode, linked \in BOOLEAN : Create(t, m, linked)
  \/ \E ps \in SUBSET Person : BeginInvite(t, ps)
  \/ \E k \in 1..MaxLinks : BeginAnswer(t, k)
  \/ \E v \in View : BeginView(t, v)
  \/ BeginClose(t) \/ Attach(t) \/ BeginConvene(t) \/ BeginChallenge(t)
  \/ BeginDecide(t) \/ BeginRate(t) \/ BeginDelete(t)

Next == \/ Expire
        \/ \E t \in Tab : Request(t) \/ BeginSweep(t) \/ Proceed(t) \/ CallFails(t)

Spec == Init /\ [][Next]_vars

\* Every replica's timer sweeps again and again, and handlers go on.
Fairness == \A t \in Tab : WF_vars(BeginSweep(t)) /\ WF_vars(Proceed(t))

-----------------------------------------------------------------------------
(* Properties.                                                             *)

Under(ats) == \E t \in Tab : calls[t].at \in ats

PurgeUnderWay == \E t \in Tab : Purging(calls[t])

\* No permanent member is passed over in silence: whoever of them has no
\* stored answer is named in the decision as missing, however answers,
\* decisions and repeated decisions interleave (consultations.ts:859).
PermanentHeard ==
  decision.n # 0 /\ "purge" \notin raced =>
    Permanent \cap Invitees(meta) \subseteq Answered \cup decision.without

\* The workspace's record is true of the question: with no decision under way,
\* cut short or taken twice at once, it is of the decision stored, and once
\* answers are closed its positions are those of the stored answers, except
\* an answer that was under way (consultations.ts:888-908, 1074).
RecordTrue ==
  /\ meta.there /\ raced \cap {"decision", "purge"} = {}
  /\ ~ Under({"decide", "shut", "reread"}) /\ ~ PurgeUnderWay
  => /\ meta.linked => record.n = decision.n
     /\ meta.closed /\ record.n # 0 /\ raced \cap {"answers", "meta"} = {} =>
          record.answers = AnswersNow(meta)

\* A link works exactly as long as the question knows it, through repeated
\* invitations of some or all people: no replaced link stays valid and no
\* current one is dead (consultations.ts:601).
LinksWork ==
  /\ meta.there /\ "meta" \notin raced
  /\ ~ Under({"unlink", "link", "invited"}) /\ ~ PurgeUnderWay
  => \A k \in 1..MaxLinks :
       tokens[k] = Nobody <=> \A p \in Person : meta.links[p] # k

\* A second round of the agents is always of the first round beside it, unless
\* two rounds ran at once or one was cut short (consultations.ts:713).
RoundTwoOfRoundOne ==
  challenge.n # 0 /\ raced \cap {"board", "purge"} = {} /\ ~ Under({"outdate"})
  => challenge.of = shadow

\* Rows stored one after the other agree once nobody is between them: the
\* workspace's record with the decision and the answers, a second round with
\* the first.
StoredApartAgrees == RecordTrue /\ RoundTwoOfRoundOne

RowsGone ==
  /\ ~ meta.there /\ Answered = {} /\ shadow = 0 /\ challenge.n = 0 /\ views = {}
  /\ decision.n = 0 /\ ~ rated /\ ~ attached

LinksGone == \A k \in 1..MaxLinks : tokens[k] = Nobody

\* An expired question disappears, with its answers and its links, whenever
\* the sweep died and whatever was under way when time ran out, except for a
\* purge another request worked beside or that died after it removed `meta',
\* and links two requests drew at once (docs/RUNBOOK.md:77-79).
ExpiredGoes ==
  /\ expired ~> RowsGone \/ "purge" \in raced
  /\ expired ~> LinksGone \/ raced \cap {"purge", "meta"} # {}
=============================================================================
