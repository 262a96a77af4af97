--------------------------- MODULE ConsultationProofs ---------------------------
(***************************************************************************)
(* Theorems about a board question, for every number of people, links,     *)
(* clients and requests: no permanent member is passed over in silence, a  *)
(* link works as long as the question knows it, and rows that are stored   *)
(* one after the other agree.                                              *)
(***************************************************************************)
EXTENDS Consultation, TLAPS

-----------------------------------------------------------------------------
(* What the requests under way work on.                                    *)

PurgeAts == {"files", "links", "list", "first", "meta", "people", "rest"}

Touching ==
  [ meta |-> {"unlink", "link", "invited", "close", "decide", "shut"} \cup PurgeAts,
    board |-> {"convene", "outdate", "challenge"} \cup PurgeAts,
    decision |-> {"decide", "shut", "reread"} \cup PurgeAts,
    answers |-> {"decide", "shut", "reread", "answer"} \cup PurgeAts ]

\* Unless requests raced for it, at most one works on a topic; and a purge, with
\* nobody beside it at all.
Alone ==
  /\ \A topic \in DOMAIN Touching \ raced, t \in Tab :
       calls[t].at \in Touching[topic] =>
         \A u \in Tab \ {t} : calls[u].at \notin Touching[topic]
  /\ "purge" \notin raced => \A t \in Tab :
       calls[t].at \in PurgeAts => \A u \in Tab \ {t} : calls[u].at = "idle"

-----------------------------------------------------------------------------
(* The invariants.                                                         *)

\* What a request has read of the question, and what a purge has left of it.
MetaSeenBy(t) ==
  /\ "purge" \notin raced /\ calls[t].at \notin {"idle", "people", "rest"} =>
       /\ meta.there
       /\ calls[t].c.there /\ calls[t].c.mode = meta.mode
       /\ calls[t].c.linked = meta.linked
  /\ ~ {"meta", "purge"} \subseteq raced =>
       /\ calls[t].at \in {"files", "links", "list"} => meta.there
       /\ calls[t].at \in {"first", "meta"} => calls[t].rows.meta
       /\ calls[t].at \in {"people", "rest"} => ~ meta.there

MetaSeen == \A t \in Tab : MetaSeenBy(t)

\* The permanent members who are missing are named in the decision, and in the
\* one about to be stored.
Named(without) == Permanent \cap Invitees(meta) \subseteq Answered \cup without

DecisionSeenBy(t) ==
  /\ calls[t].at = "decide" => Named(calls[t].without)
  /\ calls[t].at = "first" /\ ~ calls[t].rows.first => decision.n = 0
  /\ calls[t].at \in {"meta", "people", "rest"} => decision.n = 0

DecisionSeen ==
  "purge" \notin raced =>
    /\ decision.n # 0 => Named(decision.without)
    /\ \A t \in Tab : DecisionSeenBy(t)

\* Links are drawn once.
Drawn ==
  /\ \A k \in 1..MaxLinks : k > drawn => tokens[k] = Nobody
  /\ \A p \in Person : meta.links[p] <= drawn
  /\ \A t \in Tab, p \in Person : calls[t].c.links[p] <= drawn

\* A link is the one that a person has, but for those that are being replaced.
Working(links, but) ==
  \A k \in 1..MaxLinks, p \in Person :
    tokens[k] = p <=> links[p] = k /\ p \notin but

Relinking == {"unlink", "link", "invited"} \cup PurgeAts

LinksSeenBy(t) ==
  /\ calls[t].at \in {"close", "decide", "shut"} =>
       calls[t].c.links = meta.links /\ meta.there
  /\ calls[t].at \in {"unlink", "invited"} => Working(calls[t].c.links, {})
  /\ calls[t].at = "link" => Working(calls[t].c.links, {First(calls[t].todo)})

LinksSeen ==
  "meta" \notin raced =>
    /\ meta.there /\ (\A t \in Tab : calls[t].at \notin Relinking)
         => Working(meta.links, {})
    /\ \A t \in Tab : LinksSeenBy(t)

\* The agents' second round is of the first, and the one under way too.
BoardSeenBy(t) ==
  /\ calls[t].at = "challenge" => calls[t].of = shadow
  /\ calls[t].at = "first" /\ ~ calls[t].rows.first => challenge.n = 0
  /\ calls[t].at \in {"meta", "people", "rest"} => challenge.n = 0

BoardSeen ==
  "board" \notin raced =>
    /\ challenge.n # 0 /\ (\A t \in Tab : calls[t].at # "outdate") =>
         challenge.of = shadow
    /\ \A t \in Tab : BoardSeenBy(t)

\* The workspace's record is of the decision, or of the one before it ...
Recording == {"shut", "reread"} \cup PurgeAts

RecordSeen ==
  raced \cap {"decision", "purge"} = {} =>
    /\ meta.there /\ meta.linked /\ (\A t \in Tab : calls[t].at \notin Recording)
         => record.n = decision.n
    /\ \A t \in Tab :
         calls[t].at \in {"shut", "reread"} => decision.n = calls[t].by

\* ... and of the answers, which nobody can change once it is made.
AnswersSeenBy(t) ==
  /\ calls[t].at = "answer" => record.n = 0
  /\ calls[t].at \in {"unlink", "link", "invited"} =>
       record.n = 0 /\ \A u \in Tab : calls[u].at # "reread"
  /\ calls[t].at \in {"shut", "reread"} => calls[t].c.closed
  /\ calls[t].at = "reread" => meta.closed

AnswersSeen ==
  raced \cap {"decision", "purge", "answers", "meta"} = {} =>
    /\ meta.there /\ record.n # 0 =>
         meta.closed /\ record.answers = AnswersNow(meta)
    /\ \A t \in Tab : AnswersSeenBy(t)

-----------------------------------------------------------------------------
(* Types and shapes.                                                       *)

\* An invitation under way has someone to invite, and an answer its number.
Fit(call) ==
  /\ call.at \in {"unlink", "link"} => call.todo # {}
  /\ call.at = "answer" => call.by # 0

Shape == TypeOK /\ \A t \in Tab : Fit(calls[t])

Ats == {"idle", "unlink", "link", "invited", "close", "convene", "outdate",
        "challenge", "view", "decide", "shut", "reread", "rate", "learn", "answer",
        "files", "links", "list", "first", "meta", "people", "rest"}

\* The rows that stand for none have the types of rows.
LEMMA Empties ==
  /\ NoMeta \in Meta /\ NoCall \in Call /\ NoRecord \in Record
  /\ NoDecision \in Decision /\ NoChallenge \in [n : Number, of : Number]
  /\ NoAnswers \in [Person -> Number] /\ 0 \in Number
  /\ NoCall.at = "idle" /\ NoCall.c = NoMeta
  /\ ~ NoMeta.there /\ \A p \in Person : NoMeta.links[p] = 0
<1>1. 0 \in Number /\ 0 \in 0..MaxLinks
  BY RequestsAssumption, ConsultationAssumption DEF Number
<1>2. NoMeta \in Meta /\ ~ NoMeta.there /\ \A p \in Person : NoMeta.links[p] = 0
  BY <1>1 DEF NoMeta, Meta, Mode
<1>3. NoAnswers \in [Person -> Number]
  BY <1>1 DEF NoAnswers
<1>4. NoRecord \in Record /\ NoDecision \in Decision
      /\ NoChallenge \in [n : Number, of : Number]
  BY <1>1, <1>3 DEF NoRecord, Record, NoDecision, Decision, NoChallenge
<1>5. NoRows \in Rows
  BY DEF NoRows, Rows
<1>6. NoCall \in Call /\ NoCall.at = "idle" /\ NoCall.c = NoMeta
  BY <1>1, <1>2, <1>4, <1>5 DEF NoCall, Call, View
<1>7. QED
  BY <1>1, <1>2, <1>3, <1>4, <1>6

\* What a request at a given call works on.
LEMMA TopicsAre ==
  ASSUME NEW call \in Call
  PROVE  /\ Topics(call) \subseteq {"meta", "board", "decision", "answers"}
         /\ \A topic \in DOMAIN Touching :
              call.at \in Touching[topic] <=> topic \in Topics(call)
         /\ Purging(call) <=> call.at \in PurgeAts
<1>1. call.at \in Ats /\ (Purging(call) <=> call.at \in PurgeAts)
  BY DEF Call, Ats, Purging, PurgeAts
<1>2. DOMAIN Touching = {"meta", "board", "decision", "answers"}
  BY DEF Touching
<1>3. CASE call.at \in {"unlink", "link", "invited", "close"}
  <2>1. Topics(call) = {"meta"}
    BY <1>3, Zenon DEF Topics, Purging
  <2>2. QED
    BY <1>1, <1>2, <1>3, <2>1 DEF Touching, PurgeAts
<1>4. CASE call.at \in {"convene", "outdate", "challenge"}
  <2>1. Topics(call) = {"board"}
    BY <1>4, Zenon DEF Topics, Purging
  <2>2. QED
    BY <1>1, <1>2, <1>4, <2>1 DEF Touching, PurgeAts
<1>5. CASE call.at \in {"decide", "shut"}
  <2>1. Topics(call) = {"meta", "decision", "answers"}
    BY <1>5, Zenon DEF Topics, Purging
  <2>2. QED
    BY <1>1, <1>2, <1>5, <2>1 DEF Touching, PurgeAts
<1>6. CASE call.at = "reread"
  <2>1. Topics(call) = {"decision", "answers"}
    BY <1>6, Zenon DEF Topics, Purging
  <2>2. QED
    BY <1>1, <1>2, <1>6, <2>1 DEF Touching, PurgeAts
<1>7. CASE call.at = "answer"
  <2>1. Topics(call) = {"answers"}
    BY <1>7, Zenon DEF Topics, Purging
  <2>2. QED
    BY <1>1, <1>2, <1>7, <2>1 DEF Touching, PurgeAts
<1>8. CASE call.at \in PurgeAts
  <2>1. Topics(call) = {"meta", "board", "decision", "answers"}
    BY <1>8, Zenon DEF Topics, Purging, PurgeAts
  <2>2. QED
    BY <1>1, <1>2, <1>8, <2>1 DEF Touching, PurgeAts
<1>9. CASE call.at \in {"idle", "view", "rate", "learn"}
  <2>1. Topics(call) = {}
    BY <1>9, Zenon DEF Topics, Purging
  <2>2. QED
    BY <1>1, <1>2, <1>9, <2>1 DEF Touching, PurgeAts
<1>10. QED
  BY <1>1, <1>3, <1>4, <1>5, <1>6, <1>7, <1>8, <1>9 DEF Ats, PurgeAts

-----------------------------------------------------------------------------
(* What each step makes of the request it carries on.                      *)

Turns(t, at) ==
  /\ calls'[t].at = at /\ calls'[t] \in Call /\ Goes(t, calls'[t])
  /\ Fit(calls'[t])

\* It starts, with the question as it is ...
Starts(t, at) ==
  /\ Turns(t, at) /\ calls[t].at = "idle" /\ meta.there
  /\ calls'[t].c = meta

\* ... or goes on with what it had.
Continues(t, from, at) ==
  /\ Turns(t, at) /\ calls[t].at = from /\ calls'[t].c = calls[t].c

\* A request that goes on turns to what it is given to do.
LEMMA Turned ==
  ASSUME Shape, NEW t \in Tab, NEW call \in Call, Goes(t, call),
         Fit(call)
  PROVE  Turns(t, call.at) /\ calls'[t] = call
<1>1. calls'[t] = call
  BY DEF Goes, Shape, TypeOK
<1>2. QED
  BY <1>1 DEF Turns

\* A request that ends turns idle.
LEMMA Idled ==
  ASSUME Shape, NEW t \in Tab, Ends(t)
  PROVE  Turns(t, "idle")
  BY Turned, Empties DEF Ends, Fit

\* A request that reads the question when it begins starts with what is stored
\* ...
LEMMA Loaded ==
  ASSUME Shape, NEW t \in Tab, NEW call \in Call, Load(t, call),
         call.at \in {"unlink", "link"} => call.todo # {}
  PROVE  /\ Starts(t, call.at) /\ issued' \in Number
         /\ calls'[t] = [call EXCEPT !.c = meta, !.by = issued']
<1>1. issued' \in Number /\ meta \in Meta
  BY RequestsAssumption DEF Load, Arrive, Shape, TypeOK, Number
<1> DEFINE loaded == [call EXCEPT !.c = meta, !.by = issued']
<1>2. /\ loaded \in Call /\ loaded.at = call.at /\ loaded.c = meta
      /\ loaded.todo = call.todo /\ loaded.by = issued'
  BY <1>1 DEF Call
<1>3. issued' # 0
  BY RequestsAssumption DEF Load, Arrive, Shape, TypeOK, Number
<1>4. Fit(loaded)
  BY <1>2, <1>3 DEF Fit
<1>5. Goes(t, loaded) /\ calls[t].at = "idle" /\ meta.there
  BY DEF Load, Free
<1> HIDE DEF loaded
<1>6. Turns(t, loaded.at) /\ calls'[t] = loaded
  BY <1>2, <1>4, <1>5, Turned
<1>7. QED
  BY <1>1, <1>2, <1>5, <1>6 DEF Starts, loaded

\* ... whatever it begins with.
LEMMA Beginning ==
  ASSUME Shape, NEW t \in Tab,
         NEW at \in {"close", "convene", "rate", "files"}, Load(t, Begins(at))
  PROVE  Starts(t, at) /\ issued' \in Number
<1>1. Begins(at) \in Call /\ Begins(at).at = at
  BY Empties DEF Begins, Call
<1>2. QED
  BY <1>1, Loaded

\* Only the step of the request changes, or it ends.
LEMMA Stepped ==
  ASSUME Shape, NEW t \in Tab, NEW at \in Ats \ {"unlink", "answer"},
         Goes(t, [calls[t] EXCEPT !.at = at]),
         at = "link" => calls[t].at = "unlink"
  PROVE  Continues(t, calls[t].at, at)
         /\ calls'[t] = [calls[t] EXCEPT !.at = at]
<1> DEFINE call == [calls[t] EXCEPT !.at = at]
<1>1. calls[t] \in Call
  BY DEF Shape, TypeOK
<1>2. /\ call \in Call /\ call.at = at /\ call.c = calls[t].c
      /\ call.todo = calls[t].todo /\ Fit(calls[t])
  BY <1>1 DEF Call, Ats, Shape
<1>3. Goes(t, call)
  OBVIOUS
<1> HIDE DEF call
<1>4. Turns(t, at) /\ calls'[t] = call
  BY <1>2, <1>3, Turned DEF Fit
<1>5. QED
  BY <1>2, <1>4 DEF Continues, call

\* What the steps of an invitation do to the request ...
LEMMA Inviting ==
  ASSUME Shape, NEW t \in Tab
  PROVE  /\ \A ps \in SUBSET Person : BeginInvite(t, ps) =>
              Starts(t, "unlink") /\ issued' \in Number
         /\ RemoveLink(t) => Continues(t, "unlink", "link")
                             /\ calls'[t].todo = calls[t].todo
         /\ PutLink(t) =>
              /\ calls[t].at = "link" /\ calls[t].todo # {}
              /\ First(calls[t].todo) \in calls[t].todo
              /\ First(calls[t].todo) \in Person
              /\ Turns(t, "unlink") \/ Turns(t, "invited")
              /\ calls'[t].c =
                   [calls[t].c EXCEPT !.links[First(calls[t].todo)] = drawn']
         /\ SaveInvited(t) => Turns(t, "idle")
         /\ BeginClose(t) => Starts(t, "close") /\ issued' \in Number
         /\ Close(t) => Turns(t, "idle")
<1>1. ASSUME NEW ps \in SUBSET Person, BeginInvite(t, ps)
      PROVE  Starts(t, "unlink") /\ issued' \in Number
  <2> DEFINE call == [NoCall EXCEPT !.at = "unlink", !.todo = ps]
  <2>1. call \in Call /\ call.at = "unlink" /\ call.todo = ps /\ ps # {}
    BY <1>1, Empties DEF Call, BeginInvite
  <2>2. Load(t, call)
    BY <1>1 DEF BeginInvite
  <2>3. call.todo # {}
    BY <2>1
  <2> HIDE DEF call
  <2>4. Starts(t, call.at) /\ issued' \in Number
    BY <2>1, <2>2, <2>3, Loaded
  <2>5. QED
    BY <2>1, <2>4
<1>2. ASSUME RemoveLink(t)
      PROVE  Continues(t, "unlink", "link") /\ calls'[t].todo = calls[t].todo
  <2>1. calls[t].at = "unlink" /\ Goes(t, [calls[t] EXCEPT !.at = "link"])
        /\ calls[t] \in Call
    BY <1>2 DEF RemoveLink, Shape, TypeOK
  <2>2. Continues(t, "unlink", "link")
        /\ calls'[t] = [calls[t] EXCEPT !.at = "link"]
    BY <2>1, Stepped DEF Ats
  <2>3. QED
    BY <2>1, <2>2 DEF Call
<1>3. ASSUME PutLink(t)
      PROVE  /\ calls[t].at = "link" /\ calls[t].todo # {}
             /\ First(calls[t].todo) \in calls[t].todo
             /\ First(calls[t].todo) \in Person
             /\ Turns(t, "unlink") \/ Turns(t, "invited")
             /\ calls'[t].c =
                  [calls[t].c EXCEPT !.links[First(calls[t].todo)] = drawn']
  <2> DEFINE p == First(calls[t].todo)
             c == [calls[t].c EXCEPT !.links[p] = drawn']
             todo == calls[t].todo \ {p}
             call == NextInvitee(calls[t], c, todo)
  <2>1. calls[t].at = "link" /\ drawn < MaxLinks /\ drawn' = drawn + 1
        /\ Goes(t, call)
    BY <1>3 DEF PutLink
  <2>2. calls[t] \in Call /\ calls[t].todo # {} /\ drawn' \in 0..MaxLinks
    BY <2>1, ConsultationAssumption DEF Shape, TypeOK, Fit
  <2>3. p \in calls[t].todo /\ p \in Person
    BY <2>2 DEF First, Call
  <2>4. c \in Meta
    BY <2>2, <2>3 DEF Call, Meta
  <2>5. todo \in SUBSET Person
    BY <2>2 DEF Call
  <2> HIDE DEF p, c, todo
  <2>6. /\ call \in Call /\ call.at = (IF todo = {} THEN "invited" ELSE "unlink")
        /\ call.c = c /\ call.todo = todo
    BY <2>2, <2>4, <2>5 DEF NextInvitee, Call
  <2> HIDE DEF call
  <2>7. Turns(t, call.at) /\ calls'[t] = call
    BY <2>1, <2>6, Turned DEF Fit
  <2>8. QED
    BY <2>1, <2>2, <2>3, <2>6, <2>7 DEF c, p
<1>4. ASSUME SaveInvited(t) \/ Close(t)
      PROVE  Turns(t, "idle")
  BY <1>4, Idled DEF SaveInvited, Close
<1>5. ASSUME BeginClose(t)
      PROVE  Starts(t, "close") /\ issued' \in Number
  BY <1>5, Beginning DEF BeginClose
<1>6. QED
  BY <1>1, <1>2, <1>3, <1>4, <1>5

\* ... those of an answer and of a view ...
LEMMA Responding ==
  ASSUME Shape, NEW t \in Tab
  PROVE  /\ \A k \in 1..MaxLinks : BeginAnswer(t, k) =>
              Starts(t, "answer") /\ issued' \in Number
         /\ Answer(t) => Turns(t, "idle")
         /\ \A v \in View : BeginView(t, v) =>
              Starts(t, "view") /\ issued' \in Number
         /\ SaveView(t) => Turns(t, "idle")
<1>1. ASSUME NEW k \in 1..MaxLinks, BeginAnswer(t, k)
      PROVE  Starts(t, "answer") /\ issued' \in Number
  <2> DEFINE call == [NoCall EXCEPT !.at = "answer", !.todo = {tokens[k]}]
  <2>1. tokens[k] \in Person
    BY <1>1 DEF BeginAnswer, Resolves, Shape, TypeOK
  <2>2. call \in Call /\ call.at = "answer"
    BY <2>1, Empties DEF Call
  <2>3. Load(t, call)
    BY <1>1 DEF BeginAnswer
  <2> HIDE DEF call
  <2>4. QED
    BY <2>2, <2>3, Loaded
<1>2. ASSUME NEW v \in View, BeginView(t, v)
      PROVE  Starts(t, "view") /\ issued' \in Number
  <2> DEFINE call == [NoCall EXCEPT !.at = "view", !.view = v]
  <2>1. call \in Call /\ call.at = "view"
    BY Empties DEF Call
  <2>2. Load(t, call)
    BY <1>2 DEF BeginView
  <2> HIDE DEF call
  <2>3. QED
    BY <2>1, <2>2, Loaded
<1>3. ASSUME Answer(t) \/ SaveView(t)
      PROVE  Turns(t, "idle")
  BY <1>3, Idled DEF Answer, SaveView
<1>4. QED
  BY <1>1, <1>2, <1>3

\* ... those of the board's round and its challenge ...
LEMMA Boarding ==
  ASSUME Shape, NEW t \in Tab
  PROVE  /\ BeginConvene(t) => Starts(t, "convene") /\ issued' \in Number
         /\ Convene(t) => Continues(t, "convene", "outdate")
         /\ Outdate(t) => Turns(t, "idle")
         /\ BeginChallenge(t) =>
              /\ Starts(t, "challenge") /\ issued' \in Number
              /\ calls'[t].of = shadow
         /\ Challenge(t) => Turns(t, "idle")
<1>1. ASSUME BeginConvene(t)
      PROVE  Starts(t, "convene") /\ issued' \in Number
  BY <1>1, Beginning DEF BeginConvene
<1>2. ASSUME Convene(t)
      PROVE  Continues(t, "convene", "outdate")
  <2>1. calls[t].at = "convene" /\ Goes(t, [calls[t] EXCEPT !.at = "outdate"])
    BY <1>2 DEF Convene, AfterConvene
  <2>2. QED
    BY <2>1, Stepped DEF Ats
<1>3. ASSUME BeginChallenge(t)
      PROVE  Starts(t, "challenge") /\ issued' \in Number /\ calls'[t].of = shadow
  <2> DEFINE call == [NoCall EXCEPT !.at = "challenge", !.of = shadow]
  <2>1. shadow \in Number
    BY DEF Shape, TypeOK
  <2>2. call \in Call /\ call.at = "challenge" /\ call.of = shadow
    BY <2>1, Empties DEF Call
  <2>3. Load(t, call)
    BY <1>3 DEF BeginChallenge
  <2> HIDE DEF call
  <2>4. /\ Starts(t, "challenge") /\ issued' \in Number
        /\ calls'[t] = [call EXCEPT !.c = meta, !.by = issued']
    BY <2>2, <2>3, Loaded
  <2>5. QED
    BY <2>2, <2>4 DEF Call
<1>4. ASSUME Outdate(t) \/ Challenge(t)
      PROVE  Turns(t, "idle")
  BY <1>4, Idled DEF Outdate, Challenge
<1>5. QED
  BY <1>1, <1>2, <1>3, <1>4

\* ... those of the decision and its place in the record ...
LEMMA Deciding ==
  ASSUME Shape, NEW t \in Tab
  PROVE  /\ BeginDecide(t) =>
              /\ Starts(t, "decide") /\ issued' \in Number
              /\ calls'[t].without = Unheard(meta)
         /\ PutDecision(t) =>
              /\ Turns(t, "shut") /\ calls[t].at = "decide"
              /\ calls'[t].c = [calls[t].c EXCEPT !.closed = TRUE]
              /\ calls'[t].by = calls[t].by
         /\ Shut(t) =>
              \/ /\ Continues(t, "shut", "reread") /\ calls[t].c.linked
                 /\ calls'[t].by = calls[t].by
              \/ Turns(t, "idle") /\ ~ calls[t].c.linked
         /\ SaveRecord(t) => Turns(t, "idle")
<1>0. calls[t] \in Call
  BY DEF Shape, TypeOK
<1>1. ASSUME BeginDecide(t)
      PROVE  /\ Starts(t, "decide") /\ issued' \in Number
             /\ calls'[t].without = Unheard(meta)
  <2> DEFINE call == [NoCall EXCEPT !.at = "decide", !.without = Unheard(meta)]
  <2>1. Unheard(meta) \subseteq Permanent
    BY DEF Unheard
  <2>2. call \in Call /\ call.at = "decide" /\ call.without = Unheard(meta)
    BY <2>1, Empties DEF Call
  <2>3. Load(t, call)
    BY <1>1 DEF BeginDecide
  <2> HIDE DEF call
  <2>4. /\ Starts(t, "decide") /\ issued' \in Number
        /\ calls'[t] = [call EXCEPT !.c = meta, !.by = issued']
    BY <2>2, <2>3, Loaded
  <2>5. QED
    BY <2>2, <2>4 DEF Call
<1>2. ASSUME PutDecision(t)
      PROVE  /\ Turns(t, "shut") /\ calls[t].at = "decide"
             /\ calls'[t].c = [calls[t].c EXCEPT !.closed = TRUE]
             /\ calls'[t].by = calls[t].by
  <2> DEFINE c == [calls[t].c EXCEPT !.closed = TRUE]
             call == [calls[t] EXCEPT !.at = "shut", !.c.closed = TRUE]
  <2>1. c \in Meta
    BY <1>0 DEF Call, Meta
  <2>2. call = [calls[t] EXCEPT !.at = "shut", !.c = c]
    BY <1>0 DEF Call
  <2>3. Goes(t, call) /\ calls[t].at = "decide"
    BY <1>2 DEF PutDecision
  <2> HIDE DEF call, c
  <2>4. /\ call \in Call /\ call.at = "shut" /\ call.c = c
        /\ call.by = calls[t].by
    BY <1>0, <2>1, <2>2 DEF Call
  <2>5. QED
    BY <2>3, <2>4, Turned DEF c, Fit
<1>3. ASSUME Shut(t)
      PROVE  \/ /\ Continues(t, "shut", "reread") /\ calls[t].c.linked
                /\ calls'[t].by = calls[t].by
             \/ Turns(t, "idle") /\ ~ calls[t].c.linked
  <2>1. calls[t].at = "shut"
    BY <1>3 DEF Shut
  <2>2. CASE calls[t].c.linked
    <3>1. Goes(t, [calls[t] EXCEPT !.at = "reread"])
      BY <1>3, <2>2 DEF Shut
    <3>2. Continues(t, "shut", "reread")
          /\ calls'[t] = [calls[t] EXCEPT !.at = "reread"]
      BY <2>1, <3>1, Stepped DEF Ats
    <3>3. QED
      BY <1>0, <2>2, <3>2 DEF Call
  <2>3. CASE ~ calls[t].c.linked
    <3>1. Ends(t)
      BY <1>3, <2>3 DEF Shut, Ends
    <3>2. QED
      BY <2>3, <3>1, Idled
  <2>4. QED
    BY <2>2, <2>3
<1>4. ASSUME SaveRecord(t)
      PROVE  Turns(t, "idle")
  BY <1>4, Idled DEF SaveRecord
<1>5. QED
  BY <1>1, <1>2, <1>3, <1>4

\* ... those of rating it ...
LEMMA Rating ==
  ASSUME Shape, NEW t \in Tab
  PROVE  /\ BeginRate(t) => Starts(t, "rate") /\ issued' \in Number
         /\ Rate(t) => Continues(t, "rate", "learn") \/ Turns(t, "idle")
         /\ Learn(t) => Turns(t, "idle")
<1>1. ASSUME BeginRate(t)
      PROVE  Starts(t, "rate") /\ issued' \in Number
  BY <1>1, Beginning DEF BeginRate
<1>2. ASSUME Rate(t)
      PROVE  Continues(t, "rate", "learn") \/ Turns(t, "idle")
  <2>1. /\ calls[t].at = "rate"
        /\ Ends(t) \/ Goes(t, [calls[t] EXCEPT !.at = "learn"])
    BY <1>2 DEF Rate, Ends
  <2>2. QED
    BY <2>1, Stepped, Idled DEF Ats
<1>3. ASSUME Learn(t)
      PROVE  Turns(t, "idle")
  BY <1>3, Idled DEF Learn
<1>4. QED
  BY <1>1, <1>2, <1>3

\* ... and those of a purge, asked for or swept.
LEMMA Purges ==
  ASSUME Shape, NEW t \in Tab
  PROVE  /\ BeginDelete(t) => Starts(t, "files") /\ issued' \in Number
         /\ BeginSweep(t) => Starts(t, "files")
         /\ PurgeFiles(t) => Continues(t, "files", "links")
         /\ PurgeLinks(t) => Continues(t, "links", "list")
         /\ ListRows(t) =>
              Continues(t, "list", "first") /\ calls'[t].rows = CurrentRows
         /\ PurgeFirst(t) =>
              Continues(t, "first", "meta") /\ calls'[t].rows = calls[t].rows
         /\ PurgeMeta(t) =>
              Continues(t, "meta", "people") /\ calls'[t].rows = calls[t].rows
         /\ PurgePeople(t) => Continues(t, "people", "rest")
         /\ PurgeRest(t) => Turns(t, "idle") /\ calls[t].at = "rest"
<1>0. calls[t] \in Call
  BY DEF Shape, TypeOK
<1>1. ASSUME BeginDelete(t)
      PROVE  Starts(t, "files") /\ issued' \in Number
  BY <1>1, Beginning DEF BeginDelete
<1>2. ASSUME BeginSweep(t)
      PROVE  Starts(t, "files")
  <2> DEFINE call == [NoCall EXCEPT !.at = "files", !.c = meta]
  <2>1. call \in Call /\ call.at = "files" /\ call.c = meta
    BY Empties DEF Call, Shape, TypeOK
  <2>2. Goes(t, call) /\ calls[t].at = "idle" /\ meta.there
    BY <1>2 DEF BeginSweep, Free
  <2> HIDE DEF call
  <2>3. QED
    BY <2>1, <2>2, Turned DEF Starts, Fit
<1>3. ASSUME PurgeFiles(t)
      PROVE  Continues(t, "files", "links")
  BY <1>3, Stepped DEF PurgeFiles, Ats
<1>4. ASSUME PurgeLinks(t)
      PROVE  Continues(t, "links", "list")
  BY <1>4, Stepped DEF PurgeLinks, Ats
<1>5. ASSUME ListRows(t)
      PROVE  Continues(t, "list", "first") /\ calls'[t].rows = CurrentRows
  <2> DEFINE call == [calls[t] EXCEPT !.at = "first", !.rows = CurrentRows]
  <2>1. CurrentRows \in Rows
    BY DEF CurrentRows, Rows, Answered, Shape, TypeOK, Meta
  <2>2. /\ call \in Call /\ call.at = "first" /\ call.c = calls[t].c
        /\ call.rows = CurrentRows
    BY <1>0, <2>1 DEF Call
  <2>3. Goes(t, call) /\ calls[t].at = "list"
    BY <1>5 DEF ListRows
  <2> HIDE DEF call
  <2>4. QED
    BY <2>2, <2>3, Turned DEF Continues, Fit
<1>6. ASSUME PurgeFirst(t)
      PROVE  Continues(t, "first", "meta") /\ calls'[t].rows = calls[t].rows
  <2>1. calls[t].at = "first" /\ Goes(t, [calls[t] EXCEPT !.at = "meta"])
    BY <1>6 DEF PurgeFirst
  <2>2. QED
    BY <1>0, <2>1, Stepped DEF Ats, Call
<1>7. ASSUME PurgeMeta(t)
      PROVE  Continues(t, "meta", "people") /\ calls'[t].rows = calls[t].rows
  <2>1. calls[t].at = "meta" /\ Goes(t, [calls[t] EXCEPT !.at = "people"])
    BY <1>7 DEF PurgeMeta
  <2>2. QED
    BY <1>0, <2>1, Stepped DEF Ats, Call
<1>8. ASSUME PurgePeople(t)
      PROVE  Continues(t, "people", "rest")
  BY <1>8, Stepped DEF PurgePeople, Ats
<1>9. ASSUME PurgeRest(t)
      PROVE  Turns(t, "idle") /\ calls[t].at = "rest"
  BY <1>9, Idled DEF PurgeRest
<1>10. QED
  BY <1>1, <1>2, <1>3, <1>4, <1>5, <1>6, <1>7, <1>8, <1>9

-----------------------------------------------------------------------------
(* Every step, as the requests see it.                                     *)

AllTopics == {"meta", "board", "decision", "answers", "purge"}

\* The other requests stay as they are.
LEMMA Others ==
  ASSUME Shape, NEW t \in Tab, NEW at, Turns(t, at)
  PROVE  /\ calls' \in [Tab -> Call]
         /\ \A u \in Tab \ {t} : calls'[u] = calls[u]
         /\ raced \subseteq raced' /\ raced' \subseteq AllTopics
<1> DEFINE call == calls'[t]
<1>1. /\ calls \in [Tab -> Call] /\ raced \subseteq AllTopics
      /\ call \in Call
  BY DEF Shape, TypeOK, Turns, AllTopics
<1>2. /\ calls' = [calls EXCEPT ![t] = call]
      /\ raced' = raced \cup UNION {Meets(call, calls[u]) : u \in Tab \ {t}}
  BY DEF Turns, Goes
<1>3. \A u \in Tab : Meets(call, calls[u]) \subseteq AllTopics
  BY <1>1, TopicsAre DEF Meets, AllTopics
<1> HIDE DEF call
<1>4. QED
  BY <1>1, <1>2, <1>3

\* A request that turns to another topic keeps each topic to one, or is counted
\* as racing.
LEMMA AloneTurns ==
  ASSUME Shape, Alone, NEW t \in Tab, NEW at, Turns(t, at)
  PROVE  Alone'
<1> DEFINE call == calls'[t]
<1>1. /\ \A u \in Tab : calls[u] \in Call
      /\ call \in Call
      /\ \A u \in Tab \ {t} : calls'[u] = calls[u]
      /\ raced \subseteq raced'
  BY Others DEF Shape, TypeOK, Turns
<1>2. ASSUME NEW u \in Tab \ {t}
      PROVE  Meets(call, calls[u]) \subseteq raced'
  BY DEF Turns, Goes
<1> HIDE DEF call
<1>3. ASSUME NEW topic \in DOMAIN Touching \ raced', NEW u \in Tab \ {t}
      PROVE  ~ (call.at \in Touching[topic] /\ calls[u].at \in Touching[topic])
  <2>1. topic \notin Topics(call) \cap Topics(calls[u])
    BY <1>2, <1>3 DEF Meets
  <2>2. QED
    BY <1>1, <1>3, <2>1, TopicsAre
<1>4. ASSUME "purge" \notin raced', NEW u \in Tab \ {t}
      PROVE  /\ call.at \in PurgeAts => calls[u].at = "idle"
             /\ calls[u].at \in PurgeAts => call.at = "idle"
  <2>1. (Purging(call) <=> call.at \in PurgeAts)
        /\ (Purging(calls[u]) <=> calls[u].at \in PurgeAts)
    BY <1>1, TopicsAre
  <2>2. "purge" \notin Meets(call, calls[u])
    BY <1>2, <1>4
  <2>3. ~ ({call.at, calls[u].at} \cap {"idle"} = {}
             /\ (Purging(call) \/ Purging(calls[u])))
    BY <2>2 DEF Meets
  <2>4. QED
    BY <2>1, <2>3 DEF PurgeAts
<1>5. ASSUME NEW topic \in DOMAIN Touching \ raced', NEW u \in Tab,
             calls'[u].at \in Touching[topic], NEW v \in Tab \ {u}
      PROVE  calls'[v].at \notin Touching[topic]
  <2>1. CASE u # t /\ v # t
    BY <1>1, <1>5, <2>1 DEF Alone
  <2>2. CASE u = t
    BY <1>1, <1>3, <1>5, <2>2 DEF call
  <2>3. CASE v = t
    BY <1>1, <1>3, <1>5, <2>3 DEF call
  <2>4. QED
    BY <2>1, <2>2, <2>3
<1>6. ASSUME "purge" \notin raced', NEW u \in Tab, calls'[u].at \in PurgeAts,
             NEW v \in Tab \ {u}
      PROVE  calls'[v].at = "idle"
  <2>1. CASE u # t /\ v # t
    BY <1>1, <1>6, <2>1 DEF Alone
  <2>2. CASE u = t
    BY <1>1, <1>4, <1>6, <2>2 DEF call
  <2>3. CASE v = t
    BY <1>1, <1>4, <1>6, <2>3 DEF call
  <2>4. QED
    BY <2>1, <2>2, <2>3
<1>7. QED
  BY <1>5, <1>6 DEF Alone

\* In every step all requests stay, one fails, or one turns.
LEMMA EveryStep ==
  ASSUME Shape, [Next]_vars
  PROVE  \/ /\ calls' = calls /\ raced \subseteq raced' /\ raced' \subseteq AllTopics
            /\ issued' \in Number
         \/ \E t \in Tab : CallFails(t)
         \/ (\E t \in Tab, at \in Ats : Turns(t, at)) /\ issued' \in Number
<1>0. raced \subseteq AllTopics /\ issued \in Number
  BY DEF Shape, TypeOK, AllTopics
<1>1. CASE UNCHANGED vars \/ Expire
  BY <1>0, <1>1 DEF vars, Expire
<1>2. ASSUME NEW t \in Tab,
             Attach(t) \/ \E m \in Mode, linked \in BOOLEAN : Create(t, m, linked)
      PROVE  /\ calls' = calls /\ raced \subseteq raced' /\ raced' \subseteq AllTopics
             /\ issued' \in Number
  <2>1. CASE Attach(t)
    <3>1. Arrive /\ calls' = calls
          /\ (raced' = raced \cup {"purge"} \/ raced' = raced \cup {})
      BY <2>1 DEF Attach
    <3>2. raced \subseteq raced' /\ raced' \subseteq AllTopics
      BY <1>0, <3>1 DEF AllTopics
    <3>3. issued' \in Number
      BY <1>0, <3>1, RequestsAssumption DEF Arrive, Number
    <3>4. QED
      BY <3>1, <3>2, <3>3
  <2>2. ASSUME NEW m \in Mode, NEW linked \in BOOLEAN, Create(t, m, linked)
        PROVE  Arrive /\ calls' = calls /\ raced' = raced
    BY <2>2 DEF Create
  <2>3. QED
    BY <1>0, <1>2, <2>1, <2>2, RequestsAssumption DEF Arrive, Number
<1>3. ASSUME NEW t \in Tab,
             \/ \E ps \in SUBSET Person : BeginInvite(t, ps)
             \/ \E k \in 1..MaxLinks : BeginAnswer(t, k)
             \/ \E v \in View : BeginView(t, v)
             \/ BeginClose(t) \/ BeginConvene(t) \/ BeginChallenge(t)
             \/ BeginDecide(t) \/ BeginRate(t) \/ BeginDelete(t)
      PROVE  (\E at \in Ats : Turns(t, at)) /\ issued' \in Number
  BY <1>3, Inviting, Responding, Boarding, Deciding, Rating, Purges
  DEF Starts, Ats
<1>4. ASSUME NEW t \in Tab, BeginSweep(t) \/ Proceed(t)
      PROVE  (\E at \in Ats : Turns(t, at)) /\ issued' \in Number
  <2>1. issued' = issued
    BY <1>4
    DEF BeginSweep, Proceed, RemoveLink, PutLink, SaveInvited, Close, Answer,
        Convene, Outdate, Challenge, SaveView, PutDecision, Shut, SaveRecord, Rate,
        Learn, PurgeFiles, PurgeLinks, ListRows, PurgeFirst, PurgeMeta, PurgePeople,
        PurgeRest, Stays
  <2>2. CASE \/ RemoveLink(t) \/ PutLink(t) \/ SaveInvited(t) \/ Close(t)
             \/ Answer(t) \/ SaveView(t)
    <3>1. \/ Turns(t, "link") \/ Turns(t, "unlink") \/ Turns(t, "invited")
          \/ Turns(t, "idle")
      BY <2>2, Inviting, Responding DEF Continues
    <3>2. QED
      BY <1>0, <2>1, <3>1 DEF Ats
  <2>3. CASE \/ Convene(t) \/ Outdate(t) \/ Challenge(t)
             \/ PutDecision(t) \/ Shut(t) \/ SaveRecord(t) \/ Rate(t) \/ Learn(t)
    <3>1. \/ Turns(t, "outdate") \/ Turns(t, "idle") \/ Turns(t, "shut")
          \/ Turns(t, "reread") \/ Turns(t, "learn")
      BY <2>3, Boarding, Deciding, Rating DEF Continues
    <3>2. QED
      BY <1>0, <2>1, <3>1 DEF Ats
  <2>4. CASE \/ BeginSweep(t) \/ PurgeFiles(t) \/ PurgeLinks(t) \/ ListRows(t)
             \/ PurgeFirst(t) \/ PurgeMeta(t) \/ PurgePeople(t) \/ PurgeRest(t)
    <3>1. \/ Turns(t, "files") \/ Turns(t, "links") \/ Turns(t, "list")
          \/ Turns(t, "first") \/ Turns(t, "meta") \/ Turns(t, "people")
          \/ Turns(t, "rest") \/ Turns(t, "idle")
      BY <2>4, Purges DEF Continues, Starts
    <3>2. QED
      BY <1>0, <2>1, <3>1 DEF Ats
  <2>5. QED
    BY <1>0, <1>4, <2>1, <2>2, <2>3, <2>4 DEF Proceed
<1>5. QED
  BY <1>1, <1>2, <1>3, <1>4 DEF Next, Request

\* A request that fails was alone with what it leaves half done, or is counted
\* as racing.
LEMMA Failing ==
  ASSUME Shape, NEW t \in Tab, CallFails(t)
  PROVE  /\ calls' \in [Tab -> Call]
         /\ \A u \in Tab : calls'[u] = IF u = t THEN NoCall ELSE calls[u]
         /\ raced \subseteq raced' /\ raced' \subseteq AllTopics
         /\ \A topic \in DOMAIN Touching \ raced' : calls[t].at \notin Touching[topic]
         /\ calls[t].at \in {"people", "rest"} => "purge" \in raced'
<1>1. calls[t] \in Call /\ raced \subseteq AllTopics
  BY DEF Shape, TypeOK, AllTopics
<1>2. Topics(calls[t]) \subseteq raced' /\ raced \subseteq raced'
      /\ raced' \subseteq raced \cup Topics(calls[t]) \cup {"purge"}
      /\ (calls[t].at \in {"people", "rest"} => "purge" \in raced')
  BY DEF CallFails
<1>3. QED
  BY <1>1, <1>2, TopicsAre, Empties DEF CallFails, Shape, TypeOK, AllTopics

\* So every step keeps each topic to one request.
LEMMA AloneStep == Shape /\ Alone /\ [Next]_vars => Alone'
<1> SUFFICES ASSUME Shape, Alone, [Next]_vars PROVE Alone'
  OBVIOUS
<1>1. CASE calls' = calls /\ raced \subseteq raced'
  BY <1>1 DEF Alone
<1>2. ASSUME NEW t \in Tab, CallFails(t)
      PROVE  Alone'
  <2>1. \A topic \in DOMAIN Touching : NoCall.at \notin Touching[topic]
    BY Empties DEF Touching, PurgeAts
  <2>2. NoCall.at = "idle" /\ NoCall.at \notin PurgeAts
    BY Empties DEF PurgeAts
  <2>3. QED
    BY <1>2, <2>1, <2>2, Failing DEF Alone
<1>3. QED
  BY <1>1, <1>2, AloneTurns, EveryStep

-----------------------------------------------------------------------------
(* The steps, grouped by what they change.                                 *)

Seen == <<meta, tokens, drawn, responses, shadow, challenge, decision, record>>
Unseen == <<views, rated, attached, taught, expired, failures>>

Starting(t) ==
  \/ \E ps \in SUBSET Person : BeginInvite(t, ps)
  \/ \E k \in 1..MaxLinks : BeginAnswer(t, k)
  \/ \E v \in View : BeginView(t, v)
  \/ BeginClose(t) \/ BeginConvene(t) \/ BeginChallenge(t) \/ BeginDecide(t)
  \/ BeginRate(t) \/ BeginDelete(t) \/ BeginSweep(t)

\* A request that starts has read the question, and nothing else happens.
LEMMA Started ==
  ASSUME Shape, NEW t \in Tab, Starting(t)
  PROVE  /\ UNCHANGED <<Seen, Unseen>>
         /\ \E at \in {"unlink", "answer", "view", "close", "convene", "challenge",
                       "decide", "rate", "files"} :
              /\ Starts(t, at)
              /\ at \in {"unlink", "answer"} => ~ meta.closed
              /\ at = "challenge" => calls'[t].of = shadow
              /\ at = "decide" => calls'[t].without = Unheard(meta)
<1>1. UNCHANGED <<Seen, Unseen>>
  BY DEF Starting, BeginInvite, BeginAnswer, BeginView, BeginClose, BeginConvene,
     BeginChallenge, BeginDecide, BeginRate, BeginDelete, BeginSweep, Seen, Unseen,
     People, boardRows, Outcome, Lifetime
<1>2. CASE \E ps \in SUBSET Person : BeginInvite(t, ps)
  <2>1. Starts(t, "unlink") /\ ~ meta.closed
    BY <1>2, Inviting DEF BeginInvite
  <2>2. QED
    BY <1>1, <2>1
<1>3. CASE \E k \in 1..MaxLinks : BeginAnswer(t, k)
  <2>1. Starts(t, "answer") /\ ~ meta.closed
    BY <1>3, Responding DEF BeginAnswer, MayAnswer
  <2>2. QED
    BY <1>1, <2>1
<1>4. CASE BeginChallenge(t)
  BY <1>1, <1>4, Boarding
<1>5. CASE BeginDecide(t)
  BY <1>1, <1>5, Deciding
<1>6. CASE (\E v \in View : BeginView(t, v)) \/ BeginClose(t) \/ BeginConvene(t)
             \/ BeginRate(t) \/ BeginDelete(t) \/ BeginSweep(t)
  <2>1. \/ Starts(t, "view") \/ Starts(t, "close") \/ Starts(t, "convene")
        \/ Starts(t, "rate") \/ Starts(t, "files")
    BY <1>6, Responding, Inviting, Boarding, Rating, Purges
  <2>2. QED
    BY <1>1, <2>1
<1>7. QED
  BY <1>2, <1>3, <1>4, <1>5, <1>6 DEF Starting

\* Steps that none of the invariants sees.
Minor(t) == SaveView(t) \/ Rate(t) \/ Learn(t) \/ PurgeFiles(t)

\* They turn idle or go on to the next of their own steps.
LEMMA Passing ==
  ASSUME Shape, NEW t \in Tab, Minor(t)
  PROVE  /\ UNCHANGED Seen
         /\ \/ Turns(t, "idle") /\ calls[t].at \in {"view", "rate", "learn"}
            \/ Continues(t, "rate", "learn")
            \/ Continues(t, "files", "links")
<1>1. CASE SaveView(t) \/ Rate(t) \/ Learn(t)
  <2>1. UNCHANGED Seen /\ calls[t].at \in {"view", "rate", "learn"}
    BY <1>1 DEF SaveView, Rate, Learn, Seen, People, boardRows, Outcome
  <2>2. QED
    BY <1>1, <2>1, Responding, Rating
<1>2. CASE PurgeFiles(t)
  <2>1. UNCHANGED Seen
    BY <1>2 DEF PurgeFiles, Seen, Stays, boardRows
  <2>2. QED
    BY <1>2, <2>1, Purges
<1>3. QED
  BY <1>1, <1>2 DEF Minor

\* Nor does any see a stutter, a lapse of time or a file attached.
LEMMA Aside ==
  ASSUME UNCHANGED vars \/ Expire \/ \E t \in Tab : Attach(t)
  PROVE  UNCHANGED <<Seen, calls>> /\ raced \subseteq raced'
<1>1. ASSUME NEW t \in Tab, Attach(t)
      PROVE  UNCHANGED <<Seen, calls>> /\ raced \subseteq raced'
  BY <1>1 DEF Attach, Seen, People, boardRows, Outcome
<1>2. QED
  BY <1>1 DEF vars, Expire, Seen, People, boardRows, Outcome

\* The steps, sorted by what they write.
LEMMA NextCases ==
  ASSUME [Next]_vars
  PROVE  \/ UNCHANGED vars \/ Expire \/ \E t \in Tab : Attach(t)
         \/ \E t \in Tab, m \in Mode, linked \in BOOLEAN : Create(t, m, linked)
         \/ \E t \in Tab : Starting(t) \/ Minor(t) \/ CallFails(t)
         \/ \E t \in Tab : RemoveLink(t) \/ PutLink(t) \/ SaveInvited(t) \/ Close(t)
         \/ \E t \in Tab : Answer(t) \/ Convene(t) \/ Outdate(t) \/ Challenge(t)
         \/ \E t \in Tab : PutDecision(t) \/ Shut(t) \/ SaveRecord(t)
         \/ \E t \in Tab : PurgeLinks(t) \/ ListRows(t) \/ PurgeFirst(t)
                           \/ PurgeMeta(t) \/ PurgePeople(t) \/ PurgeRest(t)
  BY DEF Next, Request, Proceed, Starting, Minor

\* What is seen of a failure is nothing.
LEMMA FailingLeaves ==
  ASSUME NEW t \in Tab, CallFails(t)
  PROVE  UNCHANGED Seen
  BY DEF CallFails, Seen, People, boardRows, Outcome

-----------------------------------------------------------------------------
(* Types are kept.                                                         *)

RestTyped ==
  /\ meta \in Meta
  /\ tokens \in [1..MaxLinks -> Person \cup {Nobody}] /\ drawn \in 0..MaxLinks
  /\ responses \in [Person -> Number]
  /\ shadow \in Number /\ challenge \in [n : Number, of : Number]
  /\ views \subseteq View /\ decision \in Decision /\ record \in Record
  /\ {rated, attached, taught, expired} \subseteq BOOLEAN
  /\ failures \in 0..MaxFailures

\* Every step keeps the type of what is stored ...
LEMMA RestStep == Shape /\ [Next]_vars => RestTyped'
<1> SUFFICES ASSUME Shape, [Next]_vars PROVE RestTyped'
  OBVIOUS
<1>0. /\ RestTyped /\ \A t \in Tab : calls[t] \in Call
      /\ NoMeta \in Meta /\ NoDecision \in Decision /\ 0 \in Number
      /\ NoChallenge \in [n : Number, of : Number]
  BY Empties DEF Shape, TypeOK, RestTyped
<1>1. CASE UNCHANGED <<Seen, Unseen>>
  BY <1>0, <1>1 DEF Seen, Unseen, RestTyped
<1>2. ASSUME NEW t \in Tab, Starting(t)
      PROVE  RestTyped'
  BY <1>1, <1>2, Started
<1>3. CASE UNCHANGED vars
  BY <1>1, <1>3 DEF vars, Seen, Unseen, boardRows
<1>4. ASSUME Expire
      PROVE  RestTyped'
  BY <1>0, <1>4 DEF Expire, RestTyped, People, boardRows, Outcome
<1>5. ASSUME NEW t \in Tab, Attach(t)
      PROVE  RestTyped'
  BY <1>0, <1>5 DEF Attach, RestTyped, People, boardRows, Outcome
<1>6. ASSUME NEW t \in Tab, NEW m \in Mode, NEW linked \in BOOLEAN,
             Create(t, m, linked)
      PROVE  RestTyped'
  <2>1. meta' \in Meta
    BY <1>0, <1>6 DEF Create, Meta
  <2>2. QED
    BY <1>0, <1>6, <2>1
    DEF Create, RestTyped, People, boardRows, Outcome, Lifetime
<1>7. ASSUME NEW t \in Tab, Minor(t)
      PROVE  RestTyped'
  <2>1. UNCHANGED Seen
    BY <1>7, Passing
  <2>2. /\ views' \subseteq View /\ failures' \in 0..MaxFailures
        /\ {rated', attached', taught', expired'} \subseteq BOOLEAN
    <3>1. calls[t].view \in View
      BY <1>0 DEF Call
    <3>2. QED
      BY <1>0, <1>7, <3>1
      DEF RestTyped, Minor, SaveView, Rate, Learn, PurgeFiles, Lifetime, Stays
  <2>3. QED
    BY <1>0, <2>1, <2>2 DEF RestTyped, Seen
<1>8. ASSUME NEW t \in Tab, CallFails(t)
      PROVE  RestTyped'
  <2>1. failures' \in 0..MaxFailures
    BY <1>0, <1>8, ConsultationAssumption DEF CallFails, RestTyped
  <2>2. QED
    BY <1>0, <1>8, <2>1, FailingLeaves DEF CallFails, RestTyped, Seen
<1>9. ASSUME NEW t \in Tab, RemoveLink(t)
      PROVE  RestTyped'
  <2>1. tokens' \in [1..MaxLinks -> Person \cup {Nobody}]
    BY <1>0, <1>9 DEF RemoveLink, Unlinked, RestTyped
  <2>2. QED
    BY <1>0, <1>9, <2>1 DEF RemoveLink, RestTyped, boardRows, Outcome, Lifetime
<1>10. ASSUME NEW t \in Tab, PutLink(t)
       PROVE  RestTyped'
  <2>1. First(calls[t].todo) \in Person /\ drawn < MaxLinks /\ drawn' = drawn + 1
        /\ tokens' = [tokens EXCEPT ![drawn'] = First(calls[t].todo)]
    BY <1>10, Inviting DEF PutLink
  <2>2. tokens' \in [1..MaxLinks -> Person \cup {Nobody}] /\ drawn' \in 0..MaxLinks
    BY <1>0, <2>1, ConsultationAssumption DEF RestTyped
  <2>3. QED
    BY <1>0, <1>10, <2>2 DEF PutLink, RestTyped, boardRows, Outcome, Lifetime
<1>11. ASSUME NEW t \in Tab, SaveInvited(t) \/ Close(t) \/ Shut(t)
       PROVE  RestTyped'
  <2>1. calls[t].c \in Meta
    BY <1>0 DEF Call
  <2>2. meta' \in Meta
    BY <1>11, <2>1 DEF SaveInvited, Close, Shut, Meta
  <2>3. QED
    BY <1>0, <1>11, <2>2
    DEF SaveInvited, Close, Shut, RestTyped, People, boardRows, Outcome, Lifetime
<1>12. ASSUME NEW t \in Tab, Answer(t)
       PROVE  RestTyped'
  <2>1. calls[t].by \in Number
    BY <1>0 DEF Call
  <2>2. QED
    BY <1>0, <1>12, <2>1 DEF Answer, RestTyped, boardRows, Outcome, Lifetime
<1>13. ASSUME NEW t \in Tab, Convene(t) \/ Outdate(t) \/ Challenge(t)
       PROVE  RestTyped'
  <2>1. calls[t].by \in Number /\ calls[t].of \in Number
    BY <1>0 DEF Call
  <2>2. QED
    BY <1>0, <1>13, <2>1
    DEF Convene, Outdate, Challenge, RestTyped, People, Outcome, Lifetime
<1>14. ASSUME NEW t \in Tab, PutDecision(t)
       PROVE  RestTyped'
  <2>1. decision' \in Decision
    BY <1>0, <1>14 DEF PutDecision, Call, Decision
  <2>2. QED
    BY <1>0, <1>14, <2>1 DEF PutDecision, RestTyped, People, boardRows, Lifetime
<1>15. ASSUME NEW t \in Tab, SaveRecord(t)
       PROVE  RestTyped'
  <2>1. calls[t].by \in Number
    BY <1>0 DEF Call
  <2>2. AnswersNow(calls[t].c) \in [Person -> Number]
    BY <1>0 DEF AnswersNow, RestTyped
  <2>3. FinalRound \in Number
    BY <1>0 DEF FinalRound, RestTyped
  <2>4. record' \in Record
    BY <1>15, <2>1, <2>2, <2>3 DEF SaveRecord, Record
  <2>5. QED
    BY <1>0, <1>15, <2>4 DEF SaveRecord, RestTyped, People, boardRows, Lifetime
<1>16. ASSUME NEW t \in Tab, PurgeLinks(t) \/ ListRows(t) \/ PurgeFirst(t)
       PROVE  RestTyped'
  <2>1. tokens' \in [1..MaxLinks -> Person \cup {Nobody}]
    BY <1>0, <1>16 DEF PurgeLinks, ListRows, PurgeFirst, RestTyped
  <2>2. /\ challenge' \in [n : Number, of : Number] /\ decision' \in Decision
        /\ rated' \in BOOLEAN
    BY <1>0, <1>16 DEF PurgeLinks, ListRows, PurgeFirst, RestTyped, boardRows
  <2>3. QED
    BY <1>0, <1>16, <2>1, <2>2
    DEF PurgeLinks, ListRows, PurgeFirst, RestTyped, Stays, boardRows
<1>17. ASSUME NEW t \in Tab, PurgeMeta(t) \/ PurgePeople(t) \/ PurgeRest(t)
       PROVE  RestTyped'
  <2>1. meta' \in Meta
    BY <1>0, <1>17 DEF PurgeMeta, PurgePeople, PurgeRest, RestTyped
  <2>2. responses' \in [Person -> Number]
    BY <1>0, <1>17 DEF PurgeMeta, PurgePeople, PurgeRest, RestTyped
  <2>3. shadow' \in Number /\ views' \subseteq View
    BY <1>0, <1>17 DEF PurgeMeta, PurgePeople, PurgeRest, RestTyped, boardRows
  <2>4. QED
    BY <1>0, <1>17, <2>1, <2>2, <2>3
    DEF PurgeMeta, PurgePeople, PurgeRest, RestTyped, Stays, boardRows
<1>18. QED
  BY <1>2, <1>3, <1>4, <1>5, <1>6, <1>7, <1>8, <1>9, <1>10, <1>11, <1>12, <1>13,
     <1>14, <1>15, <1>16, <1>17, NextCases

\* ... and of the requests under way.
LEMMA ShapeStep == Shape /\ [Next]_vars => Shape'
<1> SUFFICES ASSUME Shape, [Next]_vars PROVE Shape'
  OBVIOUS
<1>1. RestTyped'
  BY RestStep
<1>2. /\ calls' \in [Tab -> Call] /\ raced' \subseteq AllTopics
      /\ \A t \in Tab : Fit(calls'[t])
      /\ issued' \in Number
  <2>1. CASE calls' = calls /\ raced' \subseteq AllTopics /\ issued' \in Number
    BY <2>1 DEF Shape, TypeOK
  <2>2. ASSUME NEW t \in Tab, CallFails(t)
        PROVE  /\ calls' \in [Tab -> Call] /\ raced' \subseteq AllTopics
               /\ \A u \in Tab : Fit(calls'[u])
               /\ issued' \in Number
    BY <2>2, Failing, Empties DEF Shape, TypeOK, CallFails, Fit
  <2>3. ASSUME NEW t \in Tab, NEW at \in Ats, Turns(t, at), issued' \in Number
        PROVE  /\ calls' \in [Tab -> Call] /\ raced' \subseteq AllTopics
               /\ \A u \in Tab : Fit(calls'[u])
               /\ issued' \in Number
    <3>1. /\ calls' \in [Tab -> Call] /\ raced' \subseteq AllTopics
          /\ \A u \in Tab \ {t} : calls'[u] = calls[u]
      BY <2>3, Others
    <3>2. Fit(calls'[t])
      BY <2>3 DEF Turns
    <3>3. \A u \in Tab : Fit(calls'[u])
      BY <3>1, <3>2 DEF Shape
    <3>4. QED
      BY <2>3, <3>1, <3>3
  <2>4. QED
    BY <2>1, <2>2, <2>3, EveryStep
<1>3. QED
  BY <1>1, <1>2 DEF Shape, TypeOK, RestTyped, AllTopics


-----------------------------------------------------------------------------
(* What is read of the question, and what is left of it, stays true.       *)

SameMeta ==
  meta'.there = meta.there /\ meta'.mode = meta.mode /\ meta'.linked = meta.linked

\* It is enough to look at the request that goes on.
LEMMA MetaKept ==
  ASSUME Shape, MetaSeen, SameMeta, NEW t \in Tab, NEW at, Turns(t, at),
         MetaSeenBy(t)'
  PROVE  MetaSeen'
<1>1. (\A u \in Tab \ {t} : calls'[u] = calls[u]) /\ raced \subseteq raced'
  BY Others
<1>2. ASSUME NEW u \in Tab \ {t}
      PROVE  MetaSeenBy(u)'
  BY <1>1, <1>2 DEF MetaSeen, MetaSeenBy, SameMeta
<1>3. QED
  BY <1>2 DEF MetaSeen

\* A request that starts or goes on by the copy it has, short of a purge's rows.
LEMMA MetaByCopy ==
  ASSUME Shape, MetaSeen, UNCHANGED meta, NEW t \in Tab,
         NEW at \in Ats \ {"first", "meta", "people", "rest"},
         \/ Starts(t, at)
         \/ at = "idle" /\ Turns(t, at)
         \/ \E from \in Ats \ {"idle", "people", "rest"} :
              /\ Continues(t, from, at)
              /\ at \in {"links", "list"} => from \in {"files", "links"}
              /\ at # "files"
  PROVE  MetaSeen'
<1>1. raced \subseteq raced' /\ calls'[t].at = at /\ Turns(t, at)
  BY Others DEF Starts, Continues, Turns
<1>2. MetaSeenBy(t)
  BY DEF MetaSeen
<1>3. CASE Starts(t, at)
  <2>1. MetaSeenBy(t)'
    BY <1>1, <1>3 DEF Starts, MetaSeenBy
  <2>2. QED
    BY <1>1, <2>1, MetaKept DEF SameMeta
<1>4. CASE at = "idle"
  <2>1. MetaSeenBy(t)'
    BY <1>1, <1>4 DEF MetaSeenBy
  <2>2. QED
    BY <1>1, <2>1, MetaKept DEF SameMeta
<1>5. ASSUME NEW from \in Ats \ {"idle", "people", "rest"}, Continues(t, from, at),
             at \in {"links", "list"} => from \in {"files", "links"}, at # "files"
      PROVE  MetaSeen'
  <2>1. calls[t].at = from /\ calls'[t].c = calls[t].c
    BY <1>5 DEF Continues
  <2>2. MetaSeenBy(t)'
    BY <1>1, <1>2, <1>5, <2>1 DEF MetaSeenBy
  <2>3. QED
    BY <1>1, <2>2, MetaKept DEF SameMeta
<1>6. QED
  BY <1>3, <1>4, <1>5

\* The question is written back by a request that works on it alone, or beside
\* others that race for it.
LEMMA MetaWritten ==
  ASSUME Shape, Alone, MetaSeen, NEW t \in Tab,
         NEW at \in {"idle", "reread"}, Turns(t, at),
         calls[t].at \in {"invited", "close", "shut"},
         meta' \in {calls[t].c, [calls[t].c EXCEPT !.closed = TRUE]},
         at = "reread" => calls'[t].c = calls[t].c
  PROVE  MetaSeen'
<1>1. /\ raced \subseteq raced' /\ calls'[t].at = at
      /\ \A u \in Tab \ {t} : calls'[u] = calls[u]
  BY Others DEF Turns
<1>2. /\ meta'.there = calls[t].c.there /\ meta'.mode = calls[t].c.mode
      /\ meta'.linked = calls[t].c.linked
  BY DEF Shape, TypeOK, Call, Meta
<1>3. MetaSeenBy(t)
  BY DEF MetaSeen
<1>4. "purge" \notin raced => SameMeta
  BY <1>2, <1>3 DEF MetaSeenBy, SameMeta
<1>5. MetaSeenBy(t)'
  BY <1>1, <1>2, <1>3 DEF MetaSeenBy
<1>6. CASE "purge" \notin raced
  BY <1>4, <1>5, <1>6, MetaKept
<1>7. CASE "purge" \in raced
  <2>1. "meta" \notin raced => \A u \in Tab \ {t} : calls[u].at \notin PurgeAts
    BY DEF Alone, Touching
  <2>2. ASSUME NEW u \in Tab \ {t}
        PROVE  MetaSeenBy(u)'
    BY <1>1, <1>7, <2>1 DEF MetaSeenBy, PurgeAts
  <2>3. QED
    BY <1>5, <2>2 DEF MetaSeen
<1>8. QED
  BY <1>6, <1>7

\* Every step keeps the copies of the question true to it.
LEMMA MetaSeenStep == Shape /\ Alone /\ MetaSeen /\ [Next]_vars => MetaSeen'
<1> SUFFICES ASSUME Shape, Alone, MetaSeen, [Next]_vars PROVE MetaSeen'
  OBVIOUS
<1>1. CASE UNCHANGED vars \/ Expire \/ \E t \in Tab : Attach(t)
  BY <1>1, Aside DEF MetaSeen, MetaSeenBy, Seen
<1>2. ASSUME NEW t \in Tab, NEW m \in Mode, NEW linked \in BOOLEAN,
             Create(t, m, linked)
      PROVE  MetaSeen'
  <2>1. \A u \in Tab : calls[u].at = "idle" /\ calls'[u].at = "idle"
    BY <1>2 DEF Create, Free
  <2>2. QED
    BY <2>1 DEF MetaSeen, MetaSeenBy
<1>3. ASSUME NEW t \in Tab, Starting(t)
      PROVE  MetaSeen'
  <2>1. UNCHANGED meta
    BY <1>3, Started DEF Seen
  <2>2. PICK at \in Ats \ {"first", "meta", "people", "rest"} : Starts(t, at)
    BY <1>3, Started DEF Ats
  <2>3. QED
    BY <2>1, <2>2, MetaByCopy
<1>4. ASSUME NEW t \in Tab, CallFails(t)
      PROVE  MetaSeen'
  <2>1. /\ UNCHANGED meta /\ raced \subseteq raced' /\ NoCall.at = "idle"
        /\ \A u \in Tab : calls'[u] = IF u = t THEN NoCall ELSE calls[u]
    BY <1>4, Failing, FailingLeaves, Empties DEF Seen
  <2>2. ASSUME NEW u \in Tab
        PROVE  MetaSeenBy(u)'
    BY <2>1 DEF MetaSeen, MetaSeenBy
  <2>3. QED
    BY <2>2 DEF MetaSeen
<1>5. ASSUME NEW t \in Tab,
             \/ Minor(t) \/ Answer(t) \/ Convene(t) \/ Outdate(t) \/ Challenge(t)
             \/ SaveRecord(t) \/ RemoveLink(t) \/ PurgeLinks(t)
      PROVE  MetaSeen'
  <2>1. UNCHANGED meta
    BY <1>5, Passing DEF Seen, Answer, Convene, Outdate, Challenge, SaveRecord,
      RemoveLink, PurgeLinks
  <2>2. \/ Turns(t, "idle") \/ Continues(t, "rate", "learn")
        \/ Continues(t, "files", "links") \/ Continues(t, "convene", "outdate")
        \/ Continues(t, "unlink", "link") \/ Continues(t, "links", "list")
    BY <1>5, Passing, Responding, Boarding, Deciding, Inviting, Purges
  <2>3. CASE Turns(t, "idle")
    BY <2>1, <2>3, MetaByCopy DEF Ats
  <2>4. CASE Continues(t, "rate", "learn")
    BY <2>1, <2>4, MetaByCopy DEF Ats
  <2>5. CASE Continues(t, "files", "links") \/ Continues(t, "links", "list")
    BY <2>1, <2>5, MetaByCopy DEF Ats
  <2>6. CASE Continues(t, "convene", "outdate") \/ Continues(t, "unlink", "link")
    BY <2>1, <2>6, MetaByCopy DEF Ats
  <2>7. QED
    BY <2>2, <2>3, <2>4, <2>5, <2>6
<1>6. ASSUME NEW t \in Tab, PutLink(t) \/ PutDecision(t)
      PROVE  MetaSeen'
  <2>1. UNCHANGED meta /\ calls[t] \in Call
    BY <1>6 DEF PutLink, PutDecision, Shape, TypeOK
  <2>2. PICK at \in {"unlink", "invited", "shut"} :
          Turns(t, at) /\ calls[t].at \in {"link", "decide"}
    BY <1>6, Inviting, Deciding
  <2>3. /\ calls'[t].c.there = calls[t].c.there /\ calls'[t].c.mode = calls[t].c.mode
        /\ calls'[t].c.linked = calls[t].c.linked
    <3>1. calls[t].c \in Meta
      BY <2>1 DEF Call
    <3>2. CASE PutLink(t)
      BY <3>1, <3>2, Inviting DEF Meta
    <3>3. CASE PutDecision(t)
      BY <3>1, <3>3, Deciding DEF Meta
    <3>4. QED
      BY <1>6, <3>2, <3>3
  <2>4. raced \subseteq raced' /\ calls'[t].at = at /\ MetaSeenBy(t)
    BY <2>2, Others DEF Turns, MetaSeen
  <2>5. MetaSeenBy(t)'
    BY <2>1, <2>2, <2>3, <2>4 DEF MetaSeenBy
  <2>6. QED
    BY <2>1, <2>2, <2>5, MetaKept DEF SameMeta
<1>7. ASSUME NEW t \in Tab, SaveInvited(t) \/ Close(t) \/ Shut(t)
      PROVE  MetaSeen'
  <2>1. /\ calls[t].at \in {"invited", "close", "shut"}
        /\ meta' \in {calls[t].c, [calls[t].c EXCEPT !.closed = TRUE]}
    BY <1>7 DEF SaveInvited, Close, Shut
  <2>2. Turns(t, "idle") \/ Continues(t, "shut", "reread")
    BY <1>7, Inviting, Deciding
  <2>3. CASE Turns(t, "idle")
    BY <2>1, <2>3, MetaWritten
  <2>4. CASE Continues(t, "shut", "reread")
    <3>1. Turns(t, "reread") /\ calls'[t].c = calls[t].c
      BY <2>4 DEF Continues
    <3>2. QED
      BY <2>1, <3>1, MetaWritten
  <2>5. QED
    BY <2>2, <2>3, <2>4
<1>8. ASSUME NEW t \in Tab,
             ListRows(t) \/ PurgeFirst(t) \/ PurgePeople(t) \/ PurgeRest(t)
      PROVE  MetaSeen'
  <2>1. UNCHANGED meta /\ MetaSeenBy(t)
    BY <1>8 DEF ListRows, PurgeFirst, PurgePeople, PurgeRest, MetaSeen
  <2>2. CASE ListRows(t)
    <3>0. CurrentRows.meta = meta.there
      BY DEF CurrentRows
    <3>1. /\ Turns(t, "first") /\ calls[t].at = "list"
          /\ calls'[t].rows.meta = meta.there /\ calls'[t].c = calls[t].c
      BY <2>2, <3>0, Purges DEF Continues
    <3>2. calls'[t].at = "first" /\ raced \subseteq raced'
      BY <3>1, Others DEF Turns
    <3>3. MetaSeenBy(t)'
      BY <2>1, <3>1, <3>2 DEF MetaSeenBy
    <3>4. QED
      BY <2>1, <3>1, <3>3, MetaKept DEF SameMeta
  <2>3. CASE PurgeFirst(t)
    <3>1. /\ Turns(t, "meta") /\ calls[t].at = "first"
          /\ calls'[t].rows = calls[t].rows /\ calls'[t].c = calls[t].c
      BY <2>3, Purges DEF Continues
    <3>2. calls'[t].at = "meta" /\ raced \subseteq raced'
      BY <3>1, Others DEF Turns
    <3>3. MetaSeenBy(t)'
      BY <2>1, <3>1, <3>2 DEF MetaSeenBy
    <3>4. QED
      BY <2>1, <3>1, <3>3, MetaKept DEF SameMeta
  <2>4. CASE PurgePeople(t) \/ PurgeRest(t)
    <3>1. PICK at \in {"rest", "idle"} :
            Turns(t, at) /\ calls[t].at \in {"people", "rest"}
      BY <2>4, Purges DEF Continues
    <3>2. calls'[t].at = at /\ raced \subseteq raced'
      BY <3>1, Others DEF Turns
    <3>3. MetaSeenBy(t)'
      BY <2>1, <3>1, <3>2 DEF MetaSeenBy
    <3>4. QED
      BY <2>1, <3>1, <3>3, MetaKept DEF SameMeta
  <2>5. QED
    BY <1>8, <2>2, <2>3, <2>4
<1>9. ASSUME NEW t \in Tab, PurgeMeta(t)
      PROVE  MetaSeen'
  <2>1. /\ Turns(t, "people") /\ calls[t].at = "meta" /\ MetaSeenBy(t)
        /\ meta' = (IF calls[t].rows.meta THEN NoMeta ELSE meta) /\ ~ NoMeta.there
    BY <1>9, Purges, Empties DEF Continues, PurgeMeta, MetaSeen
  <2>2. /\ raced \subseteq raced' /\ calls'[t].at = "people"
        /\ \A u \in Tab \ {t} : calls'[u] = calls[u]
    BY <2>1, Others DEF Turns
  <2>3. MetaSeenBy(t)'
    BY <2>1, <2>2 DEF MetaSeenBy
  <2>4. ASSUME NEW u \in Tab \ {t}
        PROVE  /\ "purge" \notin raced => calls[u].at = "idle"
               /\ "meta" \notin raced => calls[u].at \notin PurgeAts
    BY <2>1, <2>4 DEF Alone, Touching, PurgeAts
  <2>5. ASSUME NEW u \in Tab \ {t}
        PROVE  MetaSeenBy(u)'
    BY <2>2, <2>4 DEF MetaSeenBy, PurgeAts
  <2>6. QED
    BY <2>3, <2>5 DEF MetaSeen
<1>10. QED
  BY <1>1, <1>2, <1>3, <1>4, <1>5, <1>6, <1>7, <1>8, <1>9, NextCases

-----------------------------------------------------------------------------
(* Whoever is missing stays named in the decision.                         *)

\* Who is named as missing stays so, while answers are added and the mode is
\* kept.
LEMMA StaysNamed ==
  ASSUME NEW without, Named(without), meta'.mode = meta.mode,
         Answered \subseteq Answered'
  PROVE  Permanent \cap Invitees(meta') \subseteq Answered' \cup without
  BY DEF Named, Invitees

\* It is enough to look at the request that goes on, when the decision, the kind
\* of question and who has answered stay.
LEMMA DecisionKept ==
  ASSUME Shape, DecisionSeen, NEW t \in Tab, NEW at, Turns(t, at),
         UNCHANGED decision,
         "purge" \notin raced' =>
           /\ meta'.mode = meta.mode /\ Answered \subseteq Answered'
           /\ DecisionSeenBy(t)'
  PROVE  DecisionSeen'
<1> SUFFICES ASSUME "purge" \notin raced'
             PROVE  /\ (decision.n # 0 => Named(decision.without))'
                    /\ \A u \in Tab : DecisionSeenBy(u)'
  BY DEF DecisionSeen
<1>1. /\ \A u \in Tab \ {t} : calls'[u] = calls[u]
      /\ "purge" \notin raced
  BY Others
<1>2. /\ decision.n # 0 => Named(decision.without)
      /\ \A u \in Tab : DecisionSeenBy(u)
  BY <1>1 DEF DecisionSeen
<1>3. (decision.n # 0 => Named(decision.without))'
  BY <1>2, StaysNamed DEF Named
<1>4. ASSUME NEW u \in Tab \ {t}
      PROVE  DecisionSeenBy(u)'
  <2>1. DecisionSeenBy(u) /\ calls'[u] = calls[u]
    BY <1>1, <1>2
  <2>2. calls[u].at = "decide" => Named(calls[u].without)'
    BY <2>1, StaysNamed DEF Named, DecisionSeenBy
  <2>3. QED
    BY <2>1, <2>2 DEF DecisionSeenBy
<1>5. QED
  BY <1>3, <1>4

\* The last steps of a purge that nobody runs beside, when no decision is left.
LEMMA DecisionPurged ==
  ASSUME Shape, Alone, NEW t \in Tab, NEW at \in Ats \ {"decide"}, Turns(t, at),
         calls[t].at \in PurgeAts, "purge" \notin raced' => decision'.n = 0
  PROVE  DecisionSeen'
<1> SUFFICES ASSUME "purge" \notin raced', NEW u \in Tab
             PROVE  DecisionSeenBy(u)' /\ decision'.n = 0
  BY DEF DecisionSeen
<1>1. /\ \A v \in Tab \ {t} : calls'[v] = calls[v]
      /\ "purge" \notin raced /\ calls'[t].at = at
  BY Others DEF Turns
<1>2. \A v \in Tab \ {t} : calls'[v].at = "idle"
  BY <1>1 DEF Alone
<1>3. QED
  BY <1>1, <1>2 DEF DecisionSeenBy

\* Every step keeps the missing named in the decision.
LEMMA DecisionSeenStep ==
  Shape /\ Alone /\ MetaSeen /\ DecisionSeen /\ [Next]_vars => DecisionSeen'
<1> SUFFICES ASSUME Shape, Alone, MetaSeen, DecisionSeen, [Next]_vars
             PROVE  DecisionSeen'
  OBVIOUS
<1>0. /\ NoDecision.n = 0 /\ NoCall.at = "idle"
      /\ \A t \in Tab : calls[t] \in Call /\ Fit(calls[t])
  BY Empties DEF NoDecision, Shape, TypeOK
<1>1. CASE UNCHANGED vars \/ Expire \/ \E t \in Tab : Attach(t)
  <2>1. UNCHANGED <<meta, responses, decision, calls>> /\ raced \subseteq raced'
    BY <1>1, Aside DEF Seen
  <2>2. QED
    BY <2>1 DEF DecisionSeen, DecisionSeenBy, Named, Invitees, Answered
<1>2. ASSUME NEW t \in Tab, NEW m \in Mode, NEW linked \in BOOLEAN,
             Create(t, m, linked)
      PROVE  DecisionSeen'
  <2>1. /\ \A u \in Tab : calls'[u].at = "idle"
        /\ decision'.n = 0
    BY <1>0, <1>2 DEF Create, Free, Outcome
  <2>2. QED
    BY <2>1 DEF DecisionSeen, DecisionSeenBy
<1>3. ASSUME NEW t \in Tab, Starting(t)
      PROVE  DecisionSeen'
  <2>1. UNCHANGED <<meta, responses, decision>>
    BY <1>3, Started DEF Seen
  <2>2. PICK at \in {"unlink", "answer", "view", "close", "convene", "challenge",
                     "decide", "rate", "files"} :
          Starts(t, at) /\ (at = "decide" => calls'[t].without = Unheard(meta))
    BY <1>3, Started
  <2>3. Turns(t, at) /\ calls'[t].at = at /\ Answered' = Answered
    BY <2>1, <2>2 DEF Starts, Turns, Answered
  <2>4. Permanent \cap Invitees(meta) \subseteq Answered \cup Unheard(meta)
    BY DEF Unheard, Heard
  <2>5. DecisionSeenBy(t)'
    BY <2>1, <2>2, <2>3, <2>4 DEF DecisionSeenBy, Named
  <2>6. QED
    BY <2>1, <2>3, <2>5, DecisionKept
<1>4. ASSUME NEW t \in Tab, CallFails(t)
      PROVE  DecisionSeen'
  <2>1. /\ UNCHANGED <<meta, responses, decision>> /\ raced \subseteq raced'
        /\ \A u \in Tab : calls'[u] = IF u = t THEN NoCall ELSE calls[u]
    BY <1>4, Failing, FailingLeaves DEF Seen
  <2>2. QED
    BY <1>0, <2>1 DEF DecisionSeen, DecisionSeenBy, Named, Invitees, Answered
<1>5. ASSUME NEW t \in Tab,
             \/ Minor(t) \/ Convene(t) \/ Outdate(t) \/ Challenge(t)
             \/ SaveRecord(t) \/ RemoveLink(t) \/ PutLink(t) \/ PurgeLinks(t)
             \/ Answer(t)
      PROVE  DecisionSeen'
  <2>1. UNCHANGED <<meta, decision>>
    BY <1>5, Passing DEF Seen, Answer, Convene, Outdate, Challenge, SaveRecord,
       RemoveLink, PutLink, PurgeLinks, Outcome
  <2>2. Answered \subseteq Answered'
    <3>1. CASE Answer(t)
      <4>1. /\ calls[t].by # 0 /\ responses \in [Person -> Number]
            /\ responses' = [responses EXCEPT ![First(calls[t].todo)] = calls[t].by]
        BY <1>0, <3>1 DEF Answer, Fit, Shape, TypeOK
      <4>2. QED
        BY <4>1 DEF Answered
    <3>2. CASE ~ Answer(t)
      <4>1. UNCHANGED responses
        BY <1>5, <3>2, Passing DEF Seen, Convene, Outdate, Challenge, SaveRecord,
          RemoveLink, PutLink, PurgeLinks, People
      <4>2. QED
        BY <4>1 DEF Answered
    <3>3. QED
      BY <3>1, <3>2
  <2>3. PICK at \in {"idle", "learn", "links", "outdate", "link", "unlink",
                     "invited", "list"} : Turns(t, at)
    <3>1. \/ Turns(t, "idle") \/ Turns(t, "learn") \/ Turns(t, "links")
          \/ Turns(t, "outdate") \/ Turns(t, "link") \/ Turns(t, "unlink")
          \/ Turns(t, "invited") \/ Turns(t, "list")
      BY <1>5, Passing, Responding, Boarding, Deciding, Inviting, Purges
      DEF Continues
    <3>2. QED
      BY <3>1
  <2>4. DecisionSeenBy(t)'
    BY <2>3 DEF Turns, DecisionSeenBy
  <2>5. QED
    BY <2>1, <2>2, <2>3, <2>4, DecisionKept
<1>6. ASSUME NEW t \in Tab, SaveInvited(t) \/ Close(t) \/ Shut(t)
      PROVE  DecisionSeen'
  <2>1. /\ calls[t].at \in {"invited", "close", "shut"}
        /\ meta' \in {calls[t].c, [calls[t].c EXCEPT !.closed = TRUE]}
        /\ UNCHANGED <<responses, decision>>
    BY <1>6 DEF SaveInvited, Close, Shut, People, Outcome
  <2>2. PICK at \in {"idle", "reread"} : Turns(t, at)
    BY <1>6, Inviting, Deciding DEF Continues
  <2>3. raced \subseteq raced' /\ calls'[t].at = at
    BY <2>2, Others DEF Turns
  <2>4. "purge" \notin raced => meta'.mode = meta.mode
    BY <1>0, <2>1 DEF MetaSeen, MetaSeenBy, Call, Meta
  <2>5. Answered' = Answered /\ DecisionSeenBy(t)'
    BY <2>1, <2>3 DEF Answered, DecisionSeenBy
  <2>6. QED
    BY <2>1, <2>2, <2>3, <2>4, <2>5, DecisionKept
<1>7. ASSUME NEW t \in Tab, PutDecision(t)
      PROVE  DecisionSeen'
  <2> SUFFICES ASSUME "purge" \notin raced'
               PROVE  /\ Named(decision.without)'
                      /\ \A u \in Tab : DecisionSeenBy(u)'
    BY DEF DecisionSeen
  <2>1. /\ Turns(t, "shut") /\ calls[t].at = "decide"
        /\ decision' = [n |-> calls[t].by, without |-> calls[t].without]
        /\ UNCHANGED <<meta, responses>>
    BY <1>7, Deciding DEF PutDecision, People
  <2>2. /\ \A u \in Tab \ {t} : calls'[u] = calls[u]
        /\ "purge" \notin raced /\ calls'[t].at = "shut"
    BY <2>1, Others DEF Turns
  <2>3. \A u \in Tab : calls[u].at \notin PurgeAts
    BY <2>1, <2>2 DEF Alone, PurgeAts
  <2>4. /\ \A u \in Tab : DecisionSeenBy(u)
        /\ Named(calls[t].without)
    BY <2>1, <2>2 DEF DecisionSeen, DecisionSeenBy
  <2>5. Answered' = Answered
    BY <2>1 DEF Answered
  <2>6. ASSUME NEW u \in Tab
        PROVE  DecisionSeenBy(u)'
    BY <2>1, <2>2, <2>3, <2>4, <2>5 DEF DecisionSeenBy, Named, PurgeAts
  <2>7. QED
    BY <2>1, <2>4, <2>5, <2>6 DEF Named
<1>8. ASSUME NEW t \in Tab, ListRows(t)
      PROVE  DecisionSeen'
  <2>1. /\ Turns(t, "first") /\ calls'[t].rows = CurrentRows
        /\ UNCHANGED <<meta, responses, decision>>
    BY <1>8, Purges DEF Continues, ListRows
  <2>2. ~ CurrentRows.first => decision.n = 0
    BY DEF CurrentRows
  <2>3. Answered' = Answered /\ DecisionSeenBy(t)'
    BY <2>1, <2>2 DEF Answered, DecisionSeenBy, Turns
  <2>4. QED
    BY <2>1, <2>3, DecisionKept
<1>9. ASSUME NEW t \in Tab,
             PurgeFirst(t) \/ PurgeMeta(t) \/ PurgePeople(t) \/ PurgeRest(t)
      PROVE  DecisionSeen'
  <2>1. PICK at \in {"meta", "people", "rest", "idle"} :
          Turns(t, at) /\ calls[t].at \in {"first", "meta", "people", "rest"}
    <3>1. \/ Turns(t, "meta") /\ calls[t].at = "first"
          \/ Turns(t, "people") /\ calls[t].at = "meta"
          \/ Turns(t, "rest") /\ calls[t].at = "people"
          \/ Turns(t, "idle") /\ calls[t].at = "rest"
      BY <1>9, Purges DEF Continues
    <3>2. QED
      BY <3>1
  <2>2. "purge" \notin raced' => DecisionSeenBy(t)
    BY <2>1, Others DEF DecisionSeen
  <2>3. "purge" \notin raced' => decision'.n = 0
    <3>1. CASE PurgeFirst(t)
      BY <1>0, <2>2, <3>1 DEF PurgeFirst, DecisionSeenBy
    <3>2. CASE PurgeMeta(t) \/ PurgePeople(t) \/ PurgeRest(t)
      BY <2>2, <3>2 DEF PurgeMeta, PurgePeople, PurgeRest, DecisionSeenBy
    <3>3. QED
      BY <1>9, <3>1, <3>2
  <2>4. at \in Ats \ {"decide"} /\ calls[t].at \in PurgeAts
    BY <2>1 DEF Ats, PurgeAts
  <2>5. QED
    BY <2>1, <2>3, <2>4, DecisionPurged
<1>10. QED
  BY <1>1, <1>2, <1>3, <1>4, <1>5, <1>6, <1>7, <1>8, <1>9, NextCases

-----------------------------------------------------------------------------
(* Links are drawn once.                                                   *)

\* Every step keeps links drawn once.
LEMMA DrawnStep == Shape /\ Drawn /\ [Next]_vars => Drawn'
<1> SUFFICES ASSUME Shape, Drawn, [Next]_vars PROVE Drawn'
  OBVIOUS
<1>0. /\ \A t \in Tab : calls[t] \in Call
      /\ drawn \in Nat /\ NoCall.c = NoMeta /\ \A p \in Person : NoMeta.links[p] = 0
      /\ meta \in Meta /\ tokens \in [1..MaxLinks -> Person \cup {Nobody}]
  BY Empties, ConsultationAssumption DEF Shape, TypeOK
<1>1. CASE UNCHANGED vars \/ Expire \/ \E t \in Tab : Attach(t)
  <2>1. UNCHANGED <<meta, tokens, drawn, calls>>
    BY <1>1, Aside DEF Seen
  <2>2. QED
    BY <2>1 DEF Drawn
<1>2. ASSUME NEW t \in Tab, NEW m \in Mode, NEW linked \in BOOLEAN,
             Create(t, m, linked)
      PROVE  Drawn'
  <2>1. /\ UNCHANGED <<tokens, drawn, calls>>
        /\ meta' = [NoMeta EXCEPT !.there = TRUE, !.mode = m, !.linked = linked]
    BY <1>2 DEF Create, People
  <2>2. \A p \in Person : meta'.links[p] = 0
    BY <1>0, <2>1 DEF NoMeta
  <2>3. QED
    BY <1>0, <2>1, <2>2 DEF Drawn
<1>3. ASSUME NEW t \in Tab, Starting(t)
      PROVE  Drawn'
  <2>1. UNCHANGED <<meta, tokens, drawn>>
    BY <1>3, Started DEF Seen
  <2>2. PICK at : Starts(t, at)
    BY <1>3, Started
  <2>3. calls'[t].c = meta /\ \A u \in Tab \ {t} : calls'[u] = calls[u]
    BY <2>2, Others DEF Starts
  <2>4. QED
    BY <2>1, <2>3 DEF Drawn
<1>4. ASSUME NEW t \in Tab, CallFails(t)
      PROVE  Drawn'
  <2>1. UNCHANGED <<meta, tokens, drawn>>
    BY <1>4, FailingLeaves DEF Seen
  <2>2. \A u \in Tab : calls'[u] = IF u = t THEN NoCall ELSE calls[u]
    BY <1>4, Failing
  <2>3. QED
    BY <1>0, <2>1, <2>2 DEF Drawn
\* What a request that goes on knows of links, it knew; or it ends.
<1>5. ASSUME NEW t \in Tab, NEW at, Turns(t, at), UNCHANGED drawn,
             \A p \in Person : calls'[t].c.links[p] = calls[t].c.links[p]
                               \/ calls'[t].c.links[p] = 0,
             meta' \in {meta, NoMeta} \/ meta'.links = calls[t].c.links,
             \A k \in 1..MaxLinks : tokens'[k] \in {tokens[k], Nobody}
      PROVE  Drawn'
  <2>1. \A u \in Tab \ {t} : calls'[u] = calls[u]
    BY <1>5, Others
  <2>2. \A p \in Person : meta'.links[p] <= drawn
    BY <1>0, <1>5 DEF Drawn
  <2>3. \A p \in Person : calls'[t].c.links[p] <= drawn
    BY <1>0, <1>5 DEF Drawn
  <2>4. \A u \in Tab, p \in Person : calls'[u].c.links[p] <= drawn
    BY <2>1, <2>3 DEF Drawn
  <2>5. \A k \in 1..MaxLinks : k > drawn => tokens'[k] = Nobody
    BY <1>5 DEF Drawn
  <2>6. QED
    BY <1>5, <2>2, <2>4, <2>5 DEF Drawn
<1>6. ASSUME NEW t \in Tab, Ends(t)
      PROVE  Turns(t, "idle") /\ calls'[t].c = NoMeta
  <2>1. NoCall \in Call /\ Fit(NoCall) /\ NoCall.at = "idle"
    BY Empties DEF Fit
  <2>2. QED
    BY <1>0, <1>6, <2>1, Turned DEF Ends
<1>7. ASSUME NEW t \in Tab,
             \/ SaveView(t) \/ Answer(t) \/ Outdate(t) \/ Challenge(t)
             \/ SaveRecord(t) \/ SaveInvited(t) \/ Close(t) \/ Learn(t)
             \/ PurgeRest(t)
      PROVE  Drawn'
  <2>1. Ends(t) /\ UNCHANGED <<tokens, drawn>>
    BY <1>7 DEF SaveView, Answer, Outdate, Challenge, SaveRecord, SaveInvited,
      Close, Learn, PurgeRest, People, Stays
  <2>2. meta' = meta \/ meta'.links = calls[t].c.links
    <3>1. calls[t].c \in Meta
      BY <1>0 DEF Call
    <3>2. QED
      BY <1>7, <3>1 DEF SaveView, Answer, Outdate, Challenge, SaveRecord,
        SaveInvited, Close, Learn, PurgeRest, Meta
  <2>3. Turns(t, "idle") /\ calls'[t].c = NoMeta
    BY <1>6, <2>1
  <2>4. QED
    BY <1>0, <1>5, <2>1, <2>2, <2>3
<1>8. ASSUME NEW t \in Tab,
             \/ Rate(t) \/ PurgeFiles(t) \/ RemoveLink(t) \/ Convene(t) \/ Shut(t)
             \/ PurgeLinks(t) \/ ListRows(t) \/ PurgeFirst(t) \/ PurgeMeta(t)
             \/ PurgePeople(t) \/ PutDecision(t)
      PROVE  Drawn'
  <2>1. UNCHANGED drawn
    BY <1>8 DEF Rate, PurgeFiles, RemoveLink, Convene, Shut, PurgeLinks, ListRows,
      PurgeFirst, PurgeMeta, PurgePeople, PutDecision, People, Stays
  <2>2. \A k \in 1..MaxLinks : tokens'[k] \in {tokens[k], Nobody}
    <3>1. CASE RemoveLink(t)
      BY <1>0, <3>1 DEF RemoveLink, Unlinked
    <3>2. CASE PurgeLinks(t)
      BY <1>0, <3>2 DEF PurgeLinks
    <3>3. CASE ~ RemoveLink(t) /\ ~ PurgeLinks(t)
      BY <1>8, <3>3 DEF Rate, PurgeFiles, Convene, Shut, ListRows, PurgeFirst,
        PurgeMeta, PurgePeople, PutDecision, People
    <3>4. QED
      BY <3>1, <3>2, <3>3
  <2>3. meta' \in {meta, NoMeta} \/ meta'.links = calls[t].c.links
    BY <1>8 DEF Rate, PurgeFiles, RemoveLink, Convene, Shut, PurgeLinks, ListRows,
      PurgeFirst, PurgeMeta, PurgePeople, PutDecision
  <2>4. \/ \E from, at \in Ats : Continues(t, from, at)
        \/ Ends(t)
        \/ Turns(t, "shut") /\ calls'[t].c = [calls[t].c EXCEPT !.closed = TRUE]
    <3>1. \/ Continues(t, "files", "links") \/ Continues(t, "unlink", "link")
          \/ Continues(t, "convene", "outdate") \/ Continues(t, "links", "list")
          \/ Continues(t, "list", "first") \/ Continues(t, "first", "meta")
          \/ Continues(t, "meta", "people") \/ Continues(t, "people", "rest")
          \/ Rate(t) \/ Shut(t) \/ PutDecision(t)
      BY <1>8, Purges, Inviting, Boarding
    <3>2. Rate(t) => Continues(t, "rate", "learn") \/ Ends(t)
      <4>1. Rate(t) => /\ Ends(t) \/ Goes(t, [calls[t] EXCEPT !.at = "learn"])
                       /\ calls[t].at = "rate"
        BY DEF Rate, Ends
      <4>2. QED
        BY <4>1, Stepped DEF Ats
    <3>3. Shut(t) => Continues(t, "shut", "reread") \/ Ends(t)
      <4>1. Shut(t) => /\ Ends(t) \/ Goes(t, [calls[t] EXCEPT !.at = "reread"])
                       /\ calls[t].at = "shut"
        BY DEF Shut, Ends
      <4>2. QED
        BY <4>1, Stepped DEF Ats
    <3>4. QED
      BY <3>1, <3>2, <3>3, Deciding DEF Ats
  <2>5. /\ \E at : Turns(t, at)
        /\ \/ calls'[t].c = calls[t].c \/ calls'[t].c = NoMeta
           \/ calls'[t].c = [calls[t].c EXCEPT !.closed = TRUE]
    BY <1>6, <2>4 DEF Continues
  <2>6. \A p \in Person : calls'[t].c.links[p] = calls[t].c.links[p]
                          \/ calls'[t].c.links[p] = 0
    BY <1>0, <2>5 DEF Call, Meta
  <2>7. QED
    BY <1>5, <2>1, <2>2, <2>3, <2>5, <2>6
<1>9. ASSUME NEW t \in Tab, PutLink(t)
      PROVE  Drawn'
  <2>1. /\ drawn' = drawn + 1 /\ UNCHANGED meta
        /\ tokens' = [tokens EXCEPT ![drawn'] = First(calls[t].todo)]
    BY <1>9 DEF PutLink
  <2>2. calls'[t].c = [calls[t].c EXCEPT !.links[First(calls[t].todo)] = drawn']
        /\ \E at : Turns(t, at)
    BY <1>9, Inviting
  <2>3. \A u \in Tab \ {t} : calls'[u] = calls[u]
    BY <2>2, Others
  <2>4. \A p \in Person : calls'[t].c.links[p] \in {calls[t].c.links[p], drawn'}
    BY <1>0, <2>2 DEF Call, Meta
  <2>5. \A k \in 1..MaxLinks : k > drawn' => tokens'[k] = Nobody
    BY <1>0, <2>1 DEF Drawn
  <2>6. \A u \in Tab, p \in Person : calls[u].c.links[p] \in Nat /\ meta.links[p] \in Nat
    BY <1>0, ConsultationAssumption DEF Call, Meta
  <2>7. ASSUME NEW u \in Tab, NEW p \in Person
        PROVE  calls'[u].c.links[p] <= drawn'
    <3>1. calls[u].c.links[p] <= drawn /\ calls[u].c.links[p] \in Nat
      BY <2>6 DEF Drawn
    <3>2. calls'[u].c.links[p] \in {calls[u].c.links[p], drawn'}
      BY <2>3, <2>4
    <3>3. drawn' = drawn + 1 /\ drawn \in Nat
      BY <1>0, <2>1
    <3>4. QED
      BY <3>1, <3>2, <3>3
  <2>8. \A p \in Person : meta'.links[p] <= drawn'
    <3>1. ASSUME NEW p \in Person
          PROVE  meta.links[p] <= drawn + 1
      <4>1. meta.links[p] <= drawn /\ meta.links[p] \in Nat
        BY <1>0, ConsultationAssumption DEF Drawn, Meta
      <4>2. QED
        BY <1>0, <4>1
    <3>2. QED
      BY <2>1, <3>1
  <2>9. QED
    BY <2>5, <2>7, <2>8 DEF Drawn
<1>10. QED
  BY <1>1, <1>2, <1>3, <1>4, <1>7, <1>8, <1>9, NextCases DEF Minor

-----------------------------------------------------------------------------
(* Links work as the question has them.                                    *)

\* Who works on the question is alone with it.
LEMMA OnTopic ==
  ASSUME Shape, Alone, NEW t \in Tab, NEW at, Turns(t, at),
         NEW topic \in DOMAIN Touching, topic \notin raced',
         calls[t].at \in Touching[topic] \/ at \in Touching[topic]
  PROVE  /\ topic \notin raced
         /\ \A u \in Tab \ {t} : calls[u].at \notin Touching[topic]
<1>1. /\ Alone' /\ raced \subseteq raced' /\ calls'[t].at = at
      /\ \A u \in Tab \ {t} : calls'[u] = calls[u]
  BY AloneTurns, Others DEF Turns
<1>2. QED
  BY <1>1 DEF Alone

\* Links stay working as long as no token is touched.
LEMMA WorkingKept ==
  ASSUME NEW links, NEW but, Working(links, but), UNCHANGED tokens
  PROVE  \A k \in 1..MaxLinks, p \in Person :
           tokens'[k] = p <=> links[p] = k /\ p \notin but
  BY DEF Working

\* The question and its links stay; the request that goes on is as it should be,
\* and if it no longer is at the links, it leaves them as the question has them.
LEMMA LinksKept ==
  ASSUME Shape, Alone, LinksSeen, UNCHANGED <<meta, tokens>>,
         NEW t \in Tab, NEW at, Turns(t, at),
         "meta" \notin raced' =>
           /\ LinksSeenBy(t)'
           /\ calls[t].at \in Relinking /\ at \notin Relinking => ~ meta.there
  PROVE  LinksSeen'
<1> SUFFICES ASSUME "meta" \notin raced'
             PROVE  /\ (meta.there /\ (\A u \in Tab : calls[u].at \notin Relinking)
                          => Working(meta.links, {}))'
                    /\ \A u \in Tab : LinksSeenBy(u)'
  BY DEF LinksSeen
<1>1. /\ "meta" \notin raced /\ calls'[t].at = at
      /\ \A u \in Tab \ {t} : calls'[u] = calls[u]
  BY Others DEF Turns
<1>2. /\ meta.there /\ (\A u \in Tab : calls[u].at \notin Relinking)
           => Working(meta.links, {})
      /\ \A u \in Tab : LinksSeenBy(u)
  BY <1>1 DEF LinksSeen
<1>3. (meta.there /\ (\A u \in Tab : calls[u].at \notin Relinking)
         => Working(meta.links, {}))'
  BY <1>1, <1>2 DEF Working
<1>4. ASSUME NEW u \in Tab \ {t}
      PROVE  LinksSeenBy(u)'
  BY <1>1, <1>2 DEF LinksSeenBy, Working
<1>5. QED
  BY <1>3, <1>4

\* The question or its links change, by a request that is alone with them.
LEMMA LinksChanged ==
  ASSUME Shape, Alone, NEW t \in Tab, NEW at, Turns(t, at),
         calls[t].at \in Touching["meta"],
         "meta" \notin raced' =>
           /\ LinksSeenBy(t)'
           /\ at \notin Relinking /\ meta'.there => Working(meta.links, {})'
  PROVE  LinksSeen'
<1> SUFFICES ASSUME "meta" \notin raced'
             PROVE  /\ (meta.there /\ (\A u \in Tab : calls[u].at \notin Relinking)
                          => Working(meta.links, {}))'
                    /\ \A u \in Tab : LinksSeenBy(u)'
  BY DEF LinksSeen
<1>1. /\ calls'[t].at = at
      /\ \A u \in Tab \ {t} : calls'[u] = calls[u]
  BY Others DEF Turns
<1>2. "meta" \in DOMAIN Touching
  BY DEF Touching
<1>3. \A u \in Tab \ {t} : calls'[u].at \notin Touching["meta"]
  BY <1>1, <1>2, OnTopic
<1>4. \A u \in Tab \ {t} : LinksSeenBy(u)'
  BY <1>3 DEF LinksSeenBy, Touching
<1>5. QED
  BY <1>1, <1>4

\* A link that is replaced stops working ...
LEMMA RemovedLink ==
  ASSUME Shape, NEW t \in Tab, RemoveLink(t), Working(calls[t].c.links, {}),
         calls[t].todo # {}
  PROVE  \A k \in 1..MaxLinks, p \in Person :
           tokens'[k] = p <=> calls[t].c.links[p] = k /\ p # First(calls[t].todo)
<1> DEFINE who == First(calls[t].todo)
           links == calls[t].c.links
<1>1. /\ tokens' = IF links[who] = 0 THEN tokens ELSE [tokens EXCEPT ![links[who]] = Nobody]
      /\ tokens \in [1..MaxLinks -> Person \cup {Nobody}]
  BY DEF RemoveLink, Unlinked, Shape, TypeOK
<1>2. who \in Person /\ Nobody \notin Person
  BY ConsultationAssumption DEF First, Shape, TypeOK, Call
<1>3. \A k \in 1..MaxLinks, p \in Person : tokens[k] = p <=> links[p] = k
  BY DEF Working
<1> HIDE DEF who, links
<1>4. \A k \in 1..MaxLinks, p \in Person :
        tokens'[k] = p <=> links[p] = k /\ p # who
  BY <1>1, <1>2, <1>3
<1>5. QED
  BY <1>4 DEF who, links

\* ... and a new one works, the only one of its person.
LEMMA AddedLink ==
  ASSUME Shape, Drawn, NEW t \in Tab, PutLink(t),
         Working(calls[t].c.links, {First(calls[t].todo)})
  PROVE  Working(calls[t].c.links, {})'
<1> DEFINE who == First(calls[t].todo)
           links == calls[t].c.links
<1>1. /\ tokens' = [tokens EXCEPT ![drawn + 1] = who] /\ drawn + 1 \in 1..MaxLinks
      /\ tokens \in [1..MaxLinks -> Person \cup {Nobody}] /\ drawn' = drawn + 1
      /\ drawn \in Nat
  BY ConsultationAssumption DEF PutLink, Shape, TypeOK
<1>2. who \in Person /\ calls'[t].c = [calls[t].c EXCEPT !.links[who] = drawn']
  BY Inviting
<1>3. calls[t].c \in Meta
  BY DEF Shape, TypeOK, Call
<1>4. calls'[t].c.links = [links EXCEPT ![who] = drawn + 1]
      /\ links \in [Person -> 0..MaxLinks]
  BY <1>1, <1>2, <1>3 DEF Meta
<1>5. /\ \A k \in 1..MaxLinks, p \in Person :
           tokens[k] = p <=> links[p] = k /\ p # who
      /\ \A p \in Person : links[p] <= drawn
  BY DEF Working, Drawn
<1> HIDE DEF who, links
<1>6. \A k \in 1..MaxLinks, p \in Person :
        tokens'[k] = p <=> calls'[t].c.links[p] = k
  <2> SUFFICES ASSUME NEW k \in 1..MaxLinks, NEW p \in Person
               PROVE  tokens'[k] = p <=> calls'[t].c.links[p] = k
    OBVIOUS
  <2>1. /\ tokens'[k] = IF k = drawn + 1 THEN who ELSE tokens[k]
        /\ calls'[t].c.links[p] = IF p = who THEN drawn + 1 ELSE links[p]
    BY <1>1, <1>2, <1>4
  <2>2. links[p] # drawn + 1
    BY <1>1, <1>4, <1>5
  <2>3. QED
    BY <1>5, <2>1, <2>2
<1>7. QED
  BY <1>6 DEF Working

\* Every step keeps the links in step with what the question knows.
LEMMA LinksSeenStep ==
  Shape /\ Alone /\ MetaSeen /\ Drawn /\ LinksSeen /\ [Next]_vars => LinksSeen'
<1> SUFFICES ASSUME Shape, Alone, MetaSeen, Drawn, LinksSeen, [Next]_vars
             PROVE  LinksSeen'
  OBVIOUS
<1>0. /\ \A t \in Tab : calls[t] \in Call /\ Fit(calls[t])
      /\ NoCall.at = "idle" /\ "meta" \in DOMAIN Touching
  BY Empties DEF Shape, TypeOK, Touching
<1>1. CASE UNCHANGED vars \/ Expire \/ \E t \in Tab : Attach(t)
  <2>1. UNCHANGED <<meta, tokens, calls>> /\ raced \subseteq raced'
    BY <1>1, Aside DEF Seen
  <2>2. QED
    BY <2>1 DEF LinksSeen, LinksSeenBy, Working
<1>2. ASSUME NEW t \in Tab, NEW m \in Mode, NEW linked \in BOOLEAN,
             Create(t, m, linked)
      PROVE  LinksSeen'
  <2>1. /\ UNCHANGED <<tokens, calls>> /\ drawn = 0
        /\ meta' = [NoMeta EXCEPT !.there = TRUE, !.mode = m, !.linked = linked]
        /\ \A u \in Tab : calls'[u].at = "idle"
    BY <1>2 DEF Create, People, Free
  <2>2. \A p \in Person : meta'.links[p] = 0
    BY <2>1, Empties DEF NoMeta
  <2>3. \A k \in 1..MaxLinks : tokens'[k] = Nobody
    BY <2>1 DEF Drawn
  <2>4. Working(meta.links, {})'
    BY <2>2, <2>3, ConsultationAssumption DEF Working
  <2>5. QED
    BY <2>1, <2>4 DEF LinksSeen, LinksSeenBy
<1>3. ASSUME NEW t \in Tab, Starting(t)
      PROVE  LinksSeen'
  <2>1. UNCHANGED <<meta, tokens>>
    BY <1>3, Started DEF Seen
  <2>2. PICK at \in {"unlink", "answer", "view", "close", "convene", "challenge",
                     "decide", "rate", "files"} : Starts(t, at)
    BY <1>3, Started
  <2>3. /\ Turns(t, at) /\ calls'[t].at = at /\ calls[t].at = "idle"
        /\ meta.there /\ calls'[t].c = meta
    BY <2>2 DEF Starts, Turns
  <2>4. ASSUME "meta" \notin raced', at \in Touching["meta"]
        PROVE  Working(meta.links, {})
    <3>1. "meta" \notin raced /\ \A u \in Tab \ {t} : calls[u].at \notin Touching["meta"]
      BY <1>0, <2>3, <2>4, OnTopic
    <3>2. \A u \in Tab : calls[u].at \notin Relinking
      BY <2>3, <3>1 DEF Relinking, Touching, PurgeAts
    <3>3. QED
      BY <2>3, <3>1, <3>2 DEF LinksSeen
  <2>5. "meta" \notin raced' => LinksSeenBy(t)'
    BY <2>1, <2>3, <2>4 DEF LinksSeenBy, Touching, Working
  <2>6. calls[t].at \notin Relinking
    BY <2>3 DEF Relinking, PurgeAts
  <2>7. QED
    BY <2>1, <2>3, <2>5, <2>6, LinksKept
<1>4. ASSUME NEW t \in Tab, CallFails(t)
      PROVE  LinksSeen'
  <2>1. UNCHANGED <<meta, tokens>>
    BY <1>4, FailingLeaves DEF Seen
  <2>2. /\ \A u \in Tab : calls'[u] = IF u = t THEN NoCall ELSE calls[u]
        /\ raced \subseteq raced'
        /\ "meta" \notin raced' => calls[t].at \notin Touching["meta"]
    BY <1>0, <1>4, Failing
  <2>3. "meta" \notin raced' => calls[t].at \notin Relinking
    BY <2>2 DEF Relinking, Touching
  <2>4. QED
    BY <1>0, <2>1, <2>2, <2>3 DEF LinksSeen, LinksSeenBy, Working
<1>5. ASSUME NEW t \in Tab,
             \/ Minor(t) \/ Answer(t) \/ Convene(t) \/ Outdate(t) \/ Challenge(t)
             \/ SaveRecord(t) \/ ListRows(t) \/ PurgeFirst(t) \/ PurgePeople(t)
             \/ PurgeRest(t)
      PROVE  LinksSeen'
  <2>1. UNCHANGED <<meta, tokens>>
    BY <1>5, Passing DEF Seen, Answer, Convene, Outdate, Challenge, SaveRecord,
       ListRows, PurgeFirst, PurgePeople, PurgeRest, People
  <2>2. PICK at \in {"idle", "learn", "links", "outdate", "first", "meta", "rest"} :
          /\ Turns(t, at)
          /\ at \in {"idle", "learn", "outdate"} =>
               calls[t].at \notin Relinking \/ calls[t].at = "rest"
    <3>1. CASE Minor(t)
      <4>1. \/ Turns(t, "idle") /\ calls[t].at \in {"view", "rate", "learn"}
            \/ Turns(t, "learn") /\ calls[t].at = "rate"
            \/ Turns(t, "links")
        BY <3>1, Passing DEF Continues
      <4>2. QED
        BY <4>1 DEF Relinking, PurgeAts
    <3>2. CASE Answer(t) \/ Convene(t) \/ Outdate(t) \/ Challenge(t) \/ SaveRecord(t)
      <4>1. \/ Turns(t, "idle") /\ calls[t].at \in {"answer", "outdate", "challenge",
                                                     "reread"}
            \/ Turns(t, "outdate") /\ calls[t].at = "convene"
        BY <3>2, Responding, Boarding, Deciding
        DEF Continues, Answer, Outdate, Challenge, SaveRecord
      <4>2. QED
        BY <4>1 DEF Relinking, PurgeAts
    <3>3. CASE ListRows(t) \/ PurgeFirst(t) \/ PurgePeople(t) \/ PurgeRest(t)
      <4>1. \/ Turns(t, "idle") /\ calls[t].at = "rest"
            \/ Turns(t, "first") \/ Turns(t, "meta") \/ Turns(t, "rest")
        BY <3>3, Purges DEF Continues
      <4>2. QED
        BY <4>1
    <3>4. QED
      BY <1>5, <3>1, <3>2, <3>3
  <2>3. LinksSeenBy(t)'
    BY <2>2 DEF LinksSeenBy, Turns
  <2>4. ASSUME "meta" \notin raced', calls[t].at = "rest"
        PROVE  ~ meta.there
    <3>1. "meta" \notin raced
      BY <2>2, <2>4, Others
    <3>2. QED
      BY <2>4, <3>1 DEF MetaSeen, MetaSeenBy
  <2>5. at \notin Relinking => at \in {"idle", "learn", "outdate"}
    BY DEF Relinking, PurgeAts
  <2>6. QED
    BY <2>1, <2>2, <2>3, <2>4, <2>5, LinksKept
<1>6. ASSUME NEW t \in Tab, PutDecision(t)
      PROVE  LinksSeen'
  <2>1. /\ Turns(t, "shut") /\ calls[t].at = "decide" /\ UNCHANGED <<meta, tokens>>
        /\ calls'[t].c = [calls[t].c EXCEPT !.closed = TRUE]
    BY <1>6, Deciding DEF PutDecision, People
  <2>2. calls'[t].c.links = calls[t].c.links /\ calls'[t].at = "shut"
    BY <1>0, <2>1 DEF Call, Meta, Turns
  <2>3. "meta" \notin raced' => LinksSeenBy(t)
    BY <2>1, Others DEF LinksSeen
  <2>4. "meta" \notin raced' => LinksSeenBy(t)'
    BY <2>1, <2>2, <2>3 DEF LinksSeenBy
  <2>5. calls[t].at \notin Relinking
    BY <2>1 DEF Relinking, PurgeAts
  <2>6. QED
    BY <2>1, <2>4, <2>5, LinksKept
<1>7. ASSUME NEW t \in Tab, RemoveLink(t)
      PROVE  LinksSeen'
  <2>1. /\ Turns(t, "link") /\ calls[t].at = "unlink" /\ calls'[t].c = calls[t].c
        /\ calls'[t].todo = calls[t].todo
    BY <1>7, Inviting DEF Continues
  <2>2. calls'[t].at = "link" /\ calls[t].todo # {} /\ calls[t].at \in Touching["meta"]
    BY <1>0, <2>1 DEF Turns, Fit, Touching
  <2>3. "meta" \notin raced' => Working(calls[t].c.links, {})
    BY <2>1, Others DEF LinksSeen, LinksSeenBy
  <2>4. "meta" \notin raced' => LinksSeenBy(t)'
    <3>1. "meta" \notin raced' =>
            \A k \in 1..MaxLinks, p \in Person :
              tokens'[k] = p <=> calls[t].c.links[p] = k /\ p # First(calls[t].todo)
      BY <1>7, <2>2, <2>3, RemovedLink
    <3>2. QED
      BY <2>1, <2>2, <3>1 DEF LinksSeenBy, Working
  <2>5. "link" \in Relinking
    BY DEF Relinking
  <2>6. QED
    BY <2>1, <2>2, <2>4, <2>5, LinksChanged
<1>8. ASSUME NEW t \in Tab, PutLink(t)
      PROVE  LinksSeen'
  <2>1. PICK at \in {"unlink", "invited"} : Turns(t, at) /\ calls[t].at = "link"
    BY <1>8, Inviting
  <2>2. calls'[t].at = at /\ calls[t].at \in Touching["meta"]
    BY <2>1 DEF Turns, Touching
  <2>3. "meta" \notin raced' => Working(calls[t].c.links, {First(calls[t].todo)})
    BY <2>1, Others DEF LinksSeen, LinksSeenBy
  <2>4. "meta" \notin raced' => LinksSeenBy(t)'
    <3>1. "meta" \notin raced' => Working(calls[t].c.links, {})'
      BY <1>8, <2>3, AddedLink
    <3>2. QED
      BY <2>1, <2>2, <3>1 DEF LinksSeenBy
  <2>5. at \in Relinking
    BY DEF Relinking
  <2>6. QED
    BY <2>1, <2>2, <2>4, <2>5, LinksChanged
<1>9. ASSUME NEW t \in Tab, SaveInvited(t) \/ Close(t) \/ Shut(t)
      PROVE  LinksSeen'
  <2>1. /\ calls[t].at \in {"invited", "close", "shut"} /\ UNCHANGED tokens
        /\ meta' \in {calls[t].c, [calls[t].c EXCEPT !.closed = TRUE]}
    BY <1>9 DEF SaveInvited, Close, Shut, People
  <2>2. PICK at \in {"idle", "reread"} : Turns(t, at)
    BY <1>9, Inviting, Deciding DEF Continues
  <2>3. /\ calls'[t].at = at /\ calls[t].at \in Touching["meta"]
        /\ meta'.links = calls[t].c.links
    BY <1>0, <2>1, <2>2 DEF Turns, Touching, Call, Meta
  <2>4. ASSUME "meta" \notin raced'
        PROVE  Working(calls[t].c.links, {})
    <3>1. LinksSeenBy(t) /\ "meta" \notin raced
      BY <2>2, <2>4, Others DEF LinksSeen
    <3>2. CASE calls[t].at = "invited"
      BY <3>1, <3>2 DEF LinksSeenBy
    <3>3. CASE calls[t].at \in {"close", "shut"}
      <4>1. \A u \in Tab \ {t} : calls[u].at \notin Touching["meta"]
        BY <1>0, <2>2, <2>3, <2>4, OnTopic
      <4>2. \A u \in Tab : calls[u].at \notin Relinking
        BY <3>3, <4>1 DEF Relinking, Touching, PurgeAts
      <4>3. QED
        BY <3>1, <3>3, <4>2 DEF LinksSeen, LinksSeenBy
    <3>4. QED
      BY <2>1, <3>2, <3>3
  <2>5. "meta" \notin raced' => Working(meta.links, {})'
    BY <2>1, <2>3, <2>4 DEF Working
  <2>6. LinksSeenBy(t)'
    BY <2>3 DEF LinksSeenBy
  <2>7. QED
    BY <2>2, <2>3, <2>5, <2>6, LinksChanged
<1>10. ASSUME NEW t \in Tab, PurgeLinks(t) \/ PurgeMeta(t)
       PROVE  LinksSeen'
  <2>1. PICK at \in {"list", "people"} :
          Turns(t, at) /\ calls[t].at \in {"links", "meta"}
    BY <1>10, Purges DEF Continues
  <2>2. LinksSeenBy(t)' /\ at \in Relinking /\ calls[t].at \in Touching["meta"]
    BY <2>1 DEF LinksSeenBy, Turns, Relinking, PurgeAts, Touching
  <2>3. QED
    BY <2>1, <2>2, LinksChanged
<1>11. QED
  BY <1>1, <1>2, <1>3, <1>4, <1>5, <1>6, <1>7, <1>8, <1>9, <1>10, NextCases

-----------------------------------------------------------------------------
(* A second round of the agents is of the first.                           *)

\* What is known of the board's rounds, when they are not written.
LEMMA BoardKept ==
  ASSUME Shape, BoardSeen, UNCHANGED boardRows,
         NEW t \in Tab, NEW at, Turns(t, at), calls[t].at # "outdate",
         "board" \notin raced' => BoardSeenBy(t)'
  PROVE  BoardSeen'
<1>1. /\ raced \subseteq raced' /\ calls'[t].at = at
      /\ \A u \in Tab \ {t} : calls'[u] = calls[u]
  BY Others DEF Turns
<1>2. UNCHANGED <<shadow, challenge>>
  BY DEF boardRows
<1>3. QED
  BY <1>1, <1>2 DEF BoardSeen, BoardSeenBy

\* The rounds change, by a request that is alone with them.
LEMMA BoardChanged ==
  ASSUME Shape, Alone, NEW t \in Tab, NEW at, Turns(t, at),
         calls[t].at \in Touching["board"],
         "board" \notin raced' =>
           /\ BoardSeenBy(t)'
           /\ challenge'.n # 0 /\ at # "outdate" => challenge'.of = shadow'
  PROVE  BoardSeen'
<1> SUFFICES ASSUME "board" \notin raced'
             PROVE  /\ (challenge.n # 0 /\ (\A u \in Tab : calls[u].at # "outdate") =>
                          challenge.of = shadow)'
                    /\ \A u \in Tab : BoardSeenBy(u)'
  BY DEF BoardSeen
<1>1. calls'[t].at = at /\ \A u \in Tab \ {t} : calls'[u] = calls[u]
  BY Others DEF Turns
<1>2. "board" \in DOMAIN Touching
  BY DEF Touching
<1>3. \A u \in Tab \ {t} : calls'[u].at \notin Touching["board"]
  BY <1>1, <1>2, OnTopic
<1>4. \A u \in Tab \ {t} : BoardSeenBy(u)'
  BY <1>3 DEF BoardSeenBy, Touching, PurgeAts
<1>5. QED
  BY <1>1, <1>4

\* Every step keeps the second round in step with the first.
LEMMA BoardSeenStep == Shape /\ Alone /\ BoardSeen /\ [Next]_vars => BoardSeen'
<1> SUFFICES ASSUME Shape, Alone, BoardSeen, [Next]_vars PROVE BoardSeen'
  OBVIOUS
<1>0. NoCall.at = "idle" /\ NoChallenge.n = 0
  BY Empties DEF NoChallenge
<1>1. CASE UNCHANGED vars \/ Expire \/ \E t \in Tab : Attach(t)
  <2>1. UNCHANGED <<shadow, challenge, calls>> /\ raced \subseteq raced'
    BY <1>1, Aside DEF Seen
  <2>2. QED
    BY <2>1 DEF BoardSeen, BoardSeenBy
<1>2. ASSUME NEW t \in Tab, NEW m \in Mode, NEW linked \in BOOLEAN,
             Create(t, m, linked)
      PROVE  BoardSeen'
  <2>1. UNCHANGED <<shadow, challenge, calls, raced>>
    BY <1>2 DEF Create, boardRows
  <2>2. QED
    BY <2>1 DEF BoardSeen, BoardSeenBy
<1>3. ASSUME NEW t \in Tab, Starting(t)
      PROVE  BoardSeen'
  <2>1. UNCHANGED boardRows /\ UNCHANGED shadow
    BY <1>3, Started DEF Seen, boardRows
  <2>2. PICK at \in {"unlink", "answer", "view", "close", "convene", "challenge",
                     "decide", "rate", "files"} :
          Starts(t, at) /\ (at = "challenge" => calls'[t].of = shadow)
    BY <1>3, Started
  <2>3. Turns(t, at) /\ calls'[t].at = at /\ calls[t].at = "idle"
    BY <2>2 DEF Starts, Turns
  <2>4. BoardSeenBy(t)'
    BY <2>1, <2>2, <2>3 DEF BoardSeenBy
  <2>5. QED
    BY <2>1, <2>3, <2>4, BoardKept
<1>4. ASSUME NEW t \in Tab, CallFails(t)
      PROVE  BoardSeen'
  <2>1. /\ UNCHANGED <<shadow, challenge>> /\ raced \subseteq raced'
        /\ \A u \in Tab : calls'[u] = IF u = t THEN NoCall ELSE calls[u]
    BY <1>4, Failing, FailingLeaves DEF Seen
  <2>2. "board" \notin raced' => calls[t].at # "outdate"
    BY <1>4, Failing DEF Touching
  <2>3. QED
    BY <1>0, <2>1, <2>2 DEF BoardSeen, BoardSeenBy
<1>5. ASSUME NEW t \in Tab,
             \/ Minor(t) \/ Answer(t) \/ SaveRecord(t) \/ RemoveLink(t)
             \/ PutLink(t) \/ PurgeLinks(t) \/ SaveInvited(t) \/ Close(t)
             \/ Shut(t) \/ PutDecision(t)
      PROVE  BoardSeen'
  <2>1. UNCHANGED boardRows
    BY <1>5, Passing DEF Seen, Answer, SaveRecord, RemoveLink, PutLink, PurgeLinks,
       SaveInvited, Close, Shut, PutDecision, boardRows
  <2>2. calls[t].at # "outdate"
    BY <1>5, Passing DEF Answer, SaveRecord, RemoveLink, PutLink, PurgeLinks,
       SaveInvited, Close, Shut, PutDecision, Continues
  <2>3. PICK at \in {"idle", "learn", "links", "link", "unlink", "invited", "list",
                     "reread", "shut"} : Turns(t, at)
    <3>1. \/ Turns(t, "idle") \/ Turns(t, "learn") \/ Turns(t, "links")
          \/ Turns(t, "link") \/ Turns(t, "unlink") \/ Turns(t, "invited")
          \/ Turns(t, "list") \/ Turns(t, "reread") \/ Turns(t, "shut")
      BY <1>5, Passing, Responding, Deciding, Inviting, Purges DEF Continues
    <3>2. QED
      BY <3>1
  <2>4. BoardSeenBy(t)'
    BY <2>3 DEF Turns, BoardSeenBy
  <2>5. QED
    BY <2>1, <2>2, <2>3, <2>4, BoardKept
<1>6. ASSUME NEW t \in Tab, Convene(t) \/ Outdate(t) \/ Challenge(t)
      PROVE  BoardSeen'
  <2>1. PICK at \in {"idle", "outdate"} :
          /\ Turns(t, at) /\ calls[t].at \in Touching["board"]
          /\ at = "idle" => Outdate(t) \/ Challenge(t)
    <3>1. calls[t].at \in Touching["board"]
      BY <1>6 DEF Convene, Outdate, Challenge, Touching
    <3>2. CASE Convene(t)
      BY <3>1, <3>2, Boarding DEF Continues
    <3>3. CASE Outdate(t) \/ Challenge(t)
      BY <3>1, <3>3, Boarding
    <3>4. QED
      BY <1>6, <3>2, <3>3
  <2>2. BoardSeenBy(t)' /\ calls'[t].at = at
    BY <2>1 DEF BoardSeenBy, Turns
  <2>3. ASSUME "board" \notin raced', at # "outdate", challenge'.n # 0
        PROVE  challenge'.of = shadow'
    <3>1. BoardSeenBy(t)
      BY <2>1, <2>3, Others DEF BoardSeen
    <3>2. CASE Outdate(t)
      BY <1>0, <2>3, <3>2 DEF Outdate
    <3>3. CASE Challenge(t)
      BY <3>1, <3>3 DEF Challenge, BoardSeenBy
    <3>4. QED
      BY <2>1, <2>3, <3>2, <3>3
  <2>4. QED
    BY <2>1, <2>2, <2>3, BoardChanged
<1>7. ASSUME NEW t \in Tab, ListRows(t)
      PROVE  BoardSeen'
  <2>1. /\ Turns(t, "first") /\ calls'[t].rows = CurrentRows /\ calls[t].at = "list"
        /\ UNCHANGED boardRows
    BY <1>7, Purges DEF Continues, ListRows
  <2>2. ~ CurrentRows.first => challenge.n = 0
    BY DEF CurrentRows
  <2>3. BoardSeenBy(t)'
    BY <2>1, <2>2 DEF BoardSeenBy, Turns, boardRows
  <2>4. QED
    BY <2>1, <2>3, BoardKept
<1>8. ASSUME NEW t \in Tab,
             PurgeFirst(t) \/ PurgeMeta(t) \/ PurgePeople(t) \/ PurgeRest(t)
      PROVE  BoardSeen'
  <2>1. PICK at \in {"meta", "people", "rest", "idle"} :
          Turns(t, at) /\ calls[t].at \in {"first", "meta", "people", "rest"}
    <3>1. \/ Turns(t, "meta") /\ calls[t].at = "first"
          \/ Turns(t, "people") /\ calls[t].at = "meta"
          \/ Turns(t, "rest") /\ calls[t].at = "people"
          \/ Turns(t, "idle") /\ calls[t].at = "rest"
      BY <1>8, Purges DEF Continues
    <3>2. QED
      BY <3>1
  <2>2. "board" \notin raced' => BoardSeenBy(t)
    BY <2>1, Others DEF BoardSeen
  <2>3. "board" \notin raced' => challenge'.n = 0
    <3>1. CASE PurgeFirst(t)
      BY <1>0, <2>2, <3>1 DEF PurgeFirst, BoardSeenBy
    <3>2. CASE PurgeMeta(t) \/ PurgePeople(t) \/ PurgeRest(t)
      BY <2>2, <3>2 DEF PurgeMeta, PurgePeople, PurgeRest, BoardSeenBy, boardRows
    <3>3. QED
      BY <1>8, <3>1, <3>2
  <2>4. "board" \notin raced' => BoardSeenBy(t)'
    BY <2>1, <2>3 DEF BoardSeenBy, Turns
  <2>5. calls[t].at \in Touching["board"]
    BY <2>1 DEF Touching, PurgeAts
  <2>6. QED
    BY <2>1, <2>3, <2>4, <2>5, BoardChanged
<1>9. QED
  BY <1>1, <1>2, <1>3, <1>4, <1>5, <1>6, <1>7, <1>8, NextCases

-----------------------------------------------------------------------------
(* The workspace's record is of the decision.                              *)

\* Neither the decision nor the record changes, the question stays one that has a
\* record or not, and the request that goes on does not leave them apart.
LEMMA RecordKept ==
  ASSUME Shape, RecordSeen, UNCHANGED Outcome,
         NEW t \in Tab, NEW at, Turns(t, at),
         raced' \cap {"decision", "purge"} = {} =>
           /\ at \in {"shut", "reread"} => decision.n = calls'[t].by
           /\ at \notin Recording /\ meta'.there /\ meta'.linked =>
                meta.there /\ meta.linked /\ calls[t].at \notin Recording
  PROVE  RecordSeen'
<1>1. /\ raced \subseteq raced' /\ calls'[t].at = at
      /\ \A u \in Tab \ {t} : calls'[u] = calls[u]
  BY Others DEF Turns
<1>2. UNCHANGED <<decision, record>>
  BY DEF Outcome
<1>3. QED
  BY <1>1, <1>2 DEF RecordSeen

\* Nobody else works on them.
LEMMA RecordChanged ==
  ASSUME Shape, Alone, NEW t \in Tab, NEW at, Turns(t, at),
         calls[t].at \in Touching["decision"],
         raced' \cap {"decision", "purge"} = {} =>
           /\ at \in {"shut", "reread"} => decision'.n = calls'[t].by
           /\ at \notin Recording => record'.n = decision'.n
  PROVE  RecordSeen'
<1> SUFFICES ASSUME raced' \cap {"decision", "purge"} = {}
             PROVE  /\ (\A u \in Tab : calls'[u].at \notin Recording) =>
                         record'.n = decision'.n
                    /\ \A u \in Tab :
                         calls'[u].at \in {"shut", "reread"} =>
                           decision'.n = calls'[u].by
  BY DEF RecordSeen
<1>1. calls'[t].at = at /\ \A u \in Tab \ {t} : calls'[u] = calls[u]
  BY Others DEF Turns
<1>2. "decision" \in DOMAIN Touching
  BY DEF Touching
<1>3. \A u \in Tab \ {t} : calls'[u].at \notin Touching["decision"]
  BY <1>1, <1>2, OnTopic
<1>4. \A u \in Tab \ {t} : calls'[u].at \notin {"shut", "reread"}
  BY <1>3 DEF Touching
<1>5. QED
  BY <1>1, <1>4

\* Every step keeps the workspace's record in step with the decision.
LEMMA RecordSeenStep ==
  Shape /\ Alone /\ MetaSeen /\ RecordSeen /\ [Next]_vars => RecordSeen'
<1> SUFFICES ASSUME Shape, Alone, MetaSeen, RecordSeen, [Next]_vars
             PROVE  RecordSeen'
  OBVIOUS
<1>0. /\ NoCall.at = "idle" /\ NoRecord.n = 0 /\ NoDecision.n = 0
      /\ \A t \in Tab : calls[t] \in Call
  BY Empties DEF NoRecord, NoDecision, Shape, TypeOK
<1>1. CASE UNCHANGED vars \/ Expire \/ \E t \in Tab : Attach(t)
  <2>1. UNCHANGED <<meta, decision, record, calls>> /\ raced \subseteq raced'
    BY <1>1, Aside DEF Seen
  <2>2. QED
    BY <2>1 DEF RecordSeen
<1>2. ASSUME NEW t \in Tab, NEW m \in Mode, NEW linked \in BOOLEAN,
             Create(t, m, linked)
      PROVE  RecordSeen'
  <2>1. /\ \A u \in Tab : calls'[u].at = "idle"
        /\ record'.n = 0 /\ decision'.n = 0
    BY <1>0, <1>2 DEF Create, Free, Outcome
  <2>2. QED
    BY <2>1 DEF RecordSeen
<1>3. ASSUME NEW t \in Tab, Starting(t)
      PROVE  RecordSeen'
  <2>1. UNCHANGED Outcome /\ UNCHANGED meta
    BY <1>3, Started DEF Seen, Outcome
  <2>2. PICK at \in {"unlink", "answer", "view", "close", "convene", "challenge",
                     "decide", "rate", "files"} : Starts(t, at)
    BY <1>3, Started
  <2>3. Turns(t, at) /\ calls[t].at \notin Recording
    BY <2>2 DEF Starts, Recording, PurgeAts
  <2>4. QED
    BY <2>1, <2>3, RecordKept
<1>4. ASSUME NEW t \in Tab, CallFails(t)
      PROVE  RecordSeen'
  <2>1. /\ UNCHANGED <<meta, decision, record>> /\ raced \subseteq raced'
        /\ \A u \in Tab : calls'[u] = IF u = t THEN NoCall ELSE calls[u]
    BY <1>4, Failing, FailingLeaves DEF Seen
  <2>2. "decision" \notin raced' => calls[t].at \notin Recording
    BY <1>4, Failing DEF Touching, Recording
  <2>3. QED
    BY <1>0, <2>1, <2>2 DEF RecordSeen
<1>5. ASSUME NEW t \in Tab,
             \/ Minor(t) \/ Answer(t) \/ RemoveLink(t) \/ PutLink(t)
             \/ Convene(t) \/ Outdate(t) \/ Challenge(t)
             \/ PurgeLinks(t) \/ ListRows(t) \/ PurgeMeta(t) \/ PurgePeople(t)
      PROVE  RecordSeen'
  <2>1. UNCHANGED Outcome /\ (UNCHANGED meta \/ PurgeMeta(t))
    BY <1>5, Passing DEF Seen, Answer, RemoveLink, PutLink, Convene, Outdate,
       Challenge, PurgeLinks, ListRows, PurgeMeta, PurgePeople, Outcome, Stays
  <2>2. PICK at \in {"idle", "learn", "link", "unlink", "invited", "outdate"} \cup PurgeAts :
          /\ Turns(t, at)
          /\ at \notin Recording => calls[t].at \notin Recording /\ ~ PurgeMeta(t)
    <3>1. CASE Minor(t)
      <4>1. \/ Turns(t, "idle") /\ calls[t].at \in {"view", "rate", "learn"}
            \/ Turns(t, "learn") /\ calls[t].at = "rate"
            \/ Turns(t, "links")
        BY <3>1, Passing DEF Continues
      <4>2. PurgeMeta(t) => calls[t].at = "meta"
        BY DEF PurgeMeta
      <4>3. QED
        BY <4>1, <4>2 DEF Recording, PurgeAts
    <3>2. CASE Answer(t) \/ Convene(t) \/ Outdate(t) \/ Challenge(t)
      <4>1. \/ Turns(t, "idle") /\ calls[t].at \in {"answer", "outdate", "challenge"}
            \/ Turns(t, "outdate") /\ calls[t].at = "convene"
        BY <3>2, Responding, Boarding
        DEF Continues, Answer, Outdate, Challenge
      <4>2. PurgeMeta(t) => calls[t].at = "meta"
        BY DEF PurgeMeta
      <4>3. QED
        BY <4>1, <4>2 DEF Recording, PurgeAts
    <3>3. CASE RemoveLink(t) \/ PutLink(t)
      <4>1. /\ Turns(t, "link") \/ Turns(t, "unlink") \/ Turns(t, "invited")
            /\ calls[t].at \in {"unlink", "link"}
        BY <3>3, Inviting DEF Continues
      <4>2. PurgeMeta(t) => calls[t].at = "meta"
        BY DEF PurgeMeta
      <4>3. QED
        BY <4>1, <4>2 DEF Recording, PurgeAts
    <3>4. CASE PurgeLinks(t) \/ ListRows(t) \/ PurgeMeta(t) \/ PurgePeople(t)
      <4>1. Turns(t, "list") \/ Turns(t, "first") \/ Turns(t, "people") \/ Turns(t, "rest")
        BY <3>4, Purges DEF Continues
      <4>2. QED
        BY <4>1 DEF Recording, PurgeAts
    <3>5. QED
      BY <1>5, <3>1, <3>2, <3>3, <3>4
  <2>3. at \notin {"shut", "reread"}
    BY DEF PurgeAts
  <2>4. QED
    BY <2>1, <2>2, <2>3, RecordKept
<1>6. ASSUME NEW t \in Tab, SaveInvited(t) \/ Close(t)
      PROVE  RecordSeen'
  <2>1. /\ Turns(t, "idle") /\ UNCHANGED Outcome
        /\ calls[t].at \in {"invited", "close"}
        /\ meta' \in {calls[t].c, [calls[t].c EXCEPT !.closed = TRUE]}
    BY <1>6, Inviting DEF SaveInvited, Close
  <2>2. meta'.linked = calls[t].c.linked
    BY <1>0, <2>1 DEF Call, Meta
  <2>3. "purge" \notin raced' => meta.there /\ calls[t].c.linked = meta.linked
    <3>1. "purge" \notin raced' => "purge" \notin raced
      BY <2>1, Others
    <3>2. QED
      BY <2>1, <3>1 DEF MetaSeen, MetaSeenBy
  <2>4. calls[t].at \notin Recording
    BY <2>1 DEF Recording, PurgeAts
  <2>5. QED
    BY <2>1, <2>2, <2>3, <2>4, RecordKept
<1>7. ASSUME NEW t \in Tab, PutDecision(t)
      PROVE  RecordSeen'
  <2>1. /\ Turns(t, "shut") /\ calls[t].at = "decide"
        /\ calls'[t].by = calls[t].by
    BY <1>7, Deciding
  <2>2. decision'.n = calls[t].by
    BY <1>7 DEF PutDecision
  <2>3. calls[t].at \in Touching["decision"] /\ "shut" \in Recording
    BY <2>1 DEF Touching, Recording
  <2>4. QED
    BY <2>1, <2>2, <2>3, RecordChanged
<1>8. ASSUME NEW t \in Tab, Shut(t)
      PROVE  RecordSeen'
  <2>1. UNCHANGED Outcome /\ meta' = calls[t].c /\ calls[t].at = "shut"
    BY <1>8 DEF Shut
  <2>2. CASE Continues(t, "shut", "reread") /\ calls'[t].by = calls[t].by
    <3>1. Turns(t, "reread") /\ "reread" \in Recording
      BY <2>2 DEF Continues, Recording
    <3>2. raced' \cap {"decision", "purge"} = {} => decision.n = calls[t].by
      BY <2>1, <3>1, Others DEF RecordSeen
    <3>3. QED
      BY <2>1, <2>2, <3>1, <3>2, RecordKept
  <2>3. CASE Turns(t, "idle") /\ ~ calls[t].c.linked
    BY <2>1, <2>3, RecordKept
  <2>4. QED
    BY <1>8, <2>2, <2>3, Deciding
<1>9. ASSUME NEW t \in Tab, SaveRecord(t)
      PROVE  RecordSeen'
  <2>1. Turns(t, "idle") /\ calls[t].at = "reread" /\ UNCHANGED decision
        /\ record'.n = calls[t].by
    BY <1>9, Deciding DEF SaveRecord
  <2>2. raced' \cap {"decision", "purge"} = {} => decision.n = calls[t].by
    BY <2>1, Others DEF RecordSeen
  <2>3. calls[t].at \in Touching["decision"]
    BY <2>1 DEF Touching
  <2>4. QED
    BY <2>1, <2>2, <2>3, RecordChanged
<1>10. ASSUME NEW t \in Tab, PurgeFirst(t)
       PROVE  RecordSeen'
  <2>1. Turns(t, "meta") /\ calls[t].at = "first"
    BY <1>10, Purges DEF Continues
  <2>2. calls[t].at \in Touching["decision"] /\ "meta" \in Recording
    BY <2>1 DEF Touching, Recording, PurgeAts
  <2>3. QED
    BY <2>1, <2>2, RecordChanged
<1>11. ASSUME NEW t \in Tab, PurgeRest(t)
       PROVE  RecordSeen'
  <2>1. Turns(t, "idle") /\ calls[t].at = "rest" /\ UNCHANGED meta /\ UNCHANGED Outcome
    BY <1>11, Purges DEF PurgeRest, Stays, Outcome
  <2>2. "purge" \notin raced' => ~ meta.there
    <3>1. "purge" \notin raced' => "purge" \notin raced
      BY <2>1, Others
    <3>2. QED
      BY <2>1, <3>1 DEF MetaSeen, MetaSeenBy
  <2>3. QED
    BY <2>1, <2>2, RecordKept
<1>12. QED
  BY <1>1, <1>2, <1>3, <1>4, <1>5, <1>6, <1>7, <1>8, <1>9, <1>10, <1>11, NextCases

-----------------------------------------------------------------------------
(* The record is of the answers.                                           *)

Clear == raced \cap {"decision", "purge", "answers", "meta"} = {}

\* The question, the answers and the record stay.
LEMMA AnswersKept ==
  ASSUME Shape, AnswersSeen, UNCHANGED <<meta, responses, record>>,
         NEW t \in Tab, NEW at, Turns(t, at), at # "reread",
         Clear' => AnswersSeenBy(t)'
  PROVE  AnswersSeen'
<1> SUFFICES ASSUME Clear'
             PROVE  /\ (meta.there /\ record.n # 0 =>
                          meta.closed /\ record.answers = AnswersNow(meta))'
                    /\ \A u \in Tab : AnswersSeenBy(u)'
  BY DEF AnswersSeen, Clear
<1>1. /\ raced \subseteq raced' /\ calls'[t].at = at
      /\ \A u \in Tab \ {t} : calls'[u] = calls[u]
  BY Others DEF Turns
<1>2. Clear
  BY <1>1 DEF Clear
<1>3. /\ meta.there /\ record.n # 0 =>
           meta.closed /\ record.answers = AnswersNow(meta)
      /\ \A u \in Tab : AnswersSeenBy(u)
  BY <1>2 DEF AnswersSeen, Clear
<1>4. (meta.there /\ record.n # 0 =>
         meta.closed /\ record.answers = AnswersNow(meta))'
  BY <1>3 DEF AnswersNow, Invitees
<1>5. ASSUME NEW u \in Tab \ {t}
      PROVE  AnswersSeenBy(u)'
  BY <1>1, <1>3 DEF AnswersSeenBy
<1>6. QED
  BY <1>4, <1>5

\* What else is under way while the question, its answers or its record change.
LEMMA AnswersBeside ==
  ASSUME Shape, Alone, MetaSeen, AnswersSeen, Clear',
         NEW t \in Tab, NEW at \in Ats, Turns(t, at)
  PROVE  /\ Clear /\ raced \subseteq raced' /\ calls'[t].at = at
         /\ \A u \in Tab \ {t} : calls'[u] = calls[u] /\ AnswersSeenBy(u)
         /\ AnswersSeenBy(t)
         /\ meta.there /\ record.n # 0 =>
              meta.closed /\ record.answers = AnswersNow(meta)
         /\ calls[t].at \in {"invited", "close", "shut"} =>
              /\ meta.there /\ calls[t].c.there /\ calls[t].c.mode = meta.mode
              /\ \A u \in Tab \ {t} :
                   calls[u].at \notin {"unlink", "link", "invited"}
         /\ calls[t].at \in {"shut", "reread"} =>
              /\ meta.there /\ calls[t].c.mode = meta.mode
              /\ \A u \in Tab \ {t} : calls[u].at \notin {"answer", "shut", "reread"}
         /\ calls[t].at \in PurgeAts =>
              \A u \in Tab \ {t} : calls[u].at = "idle"
<1>1. /\ raced \subseteq raced' /\ calls'[t].at = at
      /\ \A u \in Tab \ {t} : calls'[u] = calls[u]
  BY Others DEF Turns
<1>2. /\ Clear /\ {"meta", "answers", "purge"} \cap raced = {}
      /\ {"meta", "answers"} \subseteq DOMAIN Touching
  BY <1>1 DEF Clear, Touching
<1>3. /\ meta.there /\ record.n # 0 =>
           meta.closed /\ record.answers = AnswersNow(meta)
      /\ \A u \in Tab : AnswersSeenBy(u)
  BY <1>2 DEF AnswersSeen, Clear
<1>4. calls[t].at \in {"invited", "close", "shut"} =>
        /\ meta.there /\ calls[t].c.there /\ calls[t].c.mode = meta.mode
        /\ \A u \in Tab \ {t} : calls[u].at \notin {"unlink", "link", "invited"}
  BY <1>2 DEF MetaSeen, MetaSeenBy, Alone, Touching
<1>5. calls[t].at \in {"shut", "reread"} =>
        /\ meta.there /\ calls[t].c.mode = meta.mode
        /\ \A u \in Tab \ {t} : calls[u].at \notin {"answer", "shut", "reread"}
  BY <1>2 DEF MetaSeen, MetaSeenBy, Alone, Touching
<1>6. calls[t].at \in PurgeAts => \A u \in Tab \ {t} : calls[u].at = "idle"
  BY <1>2 DEF Alone
<1>7. QED
  BY <1>1, <1>2, <1>3, <1>4, <1>5, <1>6

\* The answers heard are the same while none is stored and the mode is kept.
LEMMA SameAnswers ==
  ASSUME UNCHANGED responses, meta'.mode = meta.mode
  PROVE  AnswersNow(meta)' = AnswersNow(meta)
  BY DEF AnswersNow, Invitees

\* Every step keeps the answers recorded in step with those stored.
LEMMA AnswersSeenStep ==
  Shape /\ Alone /\ MetaSeen /\ AnswersSeen /\ [Next]_vars => AnswersSeen'
<1> SUFFICES ASSUME Shape, Alone, MetaSeen, AnswersSeen, [Next]_vars
             PROVE  AnswersSeen'
  OBVIOUS
<1>0. /\ NoCall.at = "idle" /\ NoRecord.n = 0 /\ ~ NoMeta.there
      /\ \A t \in Tab : calls[t] \in Call
  BY Empties DEF NoRecord, Shape, TypeOK
<1>1. CASE UNCHANGED vars \/ Expire \/ \E t \in Tab : Attach(t)
  <2>1. UNCHANGED <<meta, responses, record, calls>> /\ raced \subseteq raced'
    BY <1>1, Aside DEF Seen
  <2>2. QED
    BY <2>1 DEF AnswersSeen, AnswersSeenBy, AnswersNow, Invitees
<1>2. ASSUME NEW t \in Tab, NEW m \in Mode, NEW linked \in BOOLEAN,
             Create(t, m, linked)
      PROVE  AnswersSeen'
  <2>1. (\A u \in Tab : calls'[u].at = "idle") /\ record'.n = 0
    BY <1>0, <1>2 DEF Create, Free, Outcome
  <2>2. QED
    BY <2>1 DEF AnswersSeen, AnswersSeenBy
<1>3. ASSUME NEW t \in Tab, Starting(t)
      PROVE  AnswersSeen'
  <2>1. UNCHANGED <<meta, responses, record>>
    BY <1>3, Started DEF Seen
  <2>2. PICK at \in {"unlink", "answer", "view", "close", "convene", "challenge",
                     "decide", "rate", "files"} :
          Starts(t, at) /\ (at \in {"unlink", "answer"} => ~ meta.closed)
    BY <1>3, Started
  <2>3. Turns(t, at) /\ meta.there /\ at \in Ats
    BY <2>2 DEF Starts, Ats
  <2>4. Clear' => AnswersSeenBy(t)'
    <3>1. SUFFICES ASSUME Clear' PROVE AnswersSeenBy(t)'
      OBVIOUS
    <3>2. /\ calls'[t].at = at
          /\ \A u \in Tab \ {t} : calls'[u] = calls[u] /\ AnswersSeenBy(u)
          /\ meta.there /\ record.n # 0 => meta.closed
      BY <2>3, <3>1, AnswersBeside
    <3>3. ~ meta.closed => record.n = 0 /\ \A u \in Tab \ {t} : calls[u].at # "reread"
      BY <2>3, <3>2 DEF AnswersSeenBy
    <3>4. QED
      BY <2>1, <2>2, <3>2, <3>3 DEF AnswersSeenBy
  <2>5. QED
    BY <2>1, <2>2, <2>3, <2>4, AnswersKept
<1>4. ASSUME NEW t \in Tab, CallFails(t)
      PROVE  AnswersSeen'
  <2>1. /\ UNCHANGED <<meta, responses, record>> /\ raced \subseteq raced'
        /\ \A u \in Tab : calls'[u] = IF u = t THEN NoCall ELSE calls[u]
    BY <1>4, Failing, FailingLeaves DEF Seen
  <2>2. QED
    BY <1>0, <2>1 DEF AnswersSeen, AnswersSeenBy, AnswersNow, Invitees
<1>5. ASSUME NEW t \in Tab,
             \/ Minor(t) \/ Convene(t) \/ Outdate(t) \/ Challenge(t)
             \/ PurgeLinks(t) \/ ListRows(t) \/ PurgeFirst(t) \/ PurgeRest(t)
      PROVE  AnswersSeen'
  <2>1. UNCHANGED <<meta, responses, record>>
    BY <1>5, Passing DEF Seen, Convene, Outdate, Challenge, PurgeLinks, ListRows,
       PurgeFirst, PurgeRest, Stays, People, Outcome
  <2>2. PICK at \in {"idle", "learn", "outdate"} \cup PurgeAts : Turns(t, at)
    <3>1. \/ Turns(t, "idle") \/ Turns(t, "learn") \/ Turns(t, "links")
          \/ Turns(t, "outdate") \/ Turns(t, "list") \/ Turns(t, "first")
          \/ Turns(t, "meta")
      BY <1>5, Passing, Boarding, Purges DEF Continues
    <3>2. QED
      BY <3>1 DEF PurgeAts
  <2>3. AnswersSeenBy(t)' /\ at # "reread"
    BY <2>2 DEF AnswersSeenBy, Turns, PurgeAts
  <2>4. QED
    BY <2>1, <2>2, <2>3, AnswersKept
<1>6. ASSUME NEW t \in Tab, RemoveLink(t) \/ PutLink(t)
      PROVE  AnswersSeen'
  <2>1. UNCHANGED <<meta, responses, record>> /\ calls[t].at \in {"unlink", "link"}
    BY <1>6 DEF RemoveLink, PutLink, Outcome
  <2>2. PICK at \in {"unlink", "link", "invited"} : Turns(t, at)
    BY <1>6, Inviting DEF Continues
  <2>3. Clear' => AnswersSeenBy(t)'
    <3>1. SUFFICES ASSUME Clear' PROVE AnswersSeenBy(t)'
      OBVIOUS
    <3>2. /\ calls'[t].at = at /\ AnswersSeenBy(t)
          /\ \A u \in Tab \ {t} : calls'[u] = calls[u]
      BY <2>2, <3>1, AnswersBeside DEF Ats
    <3>3. QED
      BY <2>1, <3>2 DEF AnswersSeenBy
  <2>4. QED
    BY <2>1, <2>2, <2>3, AnswersKept
<1>7. ASSUME NEW t \in Tab, PutDecision(t)
      PROVE  AnswersSeen'
  <2>1. /\ UNCHANGED <<meta, responses, record>> /\ Turns(t, "shut")
        /\ calls'[t].c = [calls[t].c EXCEPT !.closed = TRUE]
    BY <1>7, Deciding DEF PutDecision, People
  <2>2. calls'[t].c.closed
    BY <1>0, <2>1 DEF Call, Meta
  <2>3. AnswersSeenBy(t)'
    BY <2>1, <2>2 DEF AnswersSeenBy, Turns
  <2>4. QED
    BY <2>1, <2>3, AnswersKept
<1>8. ASSUME NEW t \in Tab, SaveInvited(t) \/ Close(t) \/ Shut(t)
      PROVE  AnswersSeen'
  <2> SUFFICES ASSUME Clear'
               PROVE  /\ (meta.there /\ record.n # 0 =>
                            meta.closed /\ record.answers = AnswersNow(meta))'
                      /\ \A u \in Tab : AnswersSeenBy(u)'
    BY DEF AnswersSeen, Clear
  <2>1. /\ calls[t].at \in {"invited", "close", "shut"} /\ UNCHANGED <<responses, record>>
        /\ meta' \in {calls[t].c, [calls[t].c EXCEPT !.closed = TRUE]}
    BY <1>8 DEF SaveInvited, Close, Shut, People, Outcome
  <2>2. PICK at \in {"idle", "reread"} :
          Turns(t, at) /\ (at = "reread" => calls[t].at = "shut")
    BY <1>8, Inviting, Deciding DEF Continues
  <2>3. /\ calls'[t].at = at /\ AnswersSeenBy(t)
        /\ \A u \in Tab \ {t} :
             /\ calls'[u] = calls[u] /\ AnswersSeenBy(u)
             /\ calls[u].at \notin {"unlink", "link", "invited"}
        /\ meta.there /\ calls[t].c.mode = meta.mode
        /\ meta.there /\ record.n # 0 =>
             meta.closed /\ record.answers = AnswersNow(meta)
    BY <2>1, <2>2, AnswersBeside DEF Ats
  <2>4. /\ meta'.mode = meta.mode
        /\ meta'.closed \/ SaveInvited(t)
    <3>1. calls[t].c \in Meta
      BY <1>0 DEF Call
    <3>2. CASE SaveInvited(t)
      BY <2>1, <2>3, <3>1, <3>2 DEF Meta
    <3>3. CASE Close(t)
      BY <2>3, <3>1, <3>3 DEF Meta, Close
    <3>4. CASE Shut(t)
      BY <2>3, <3>4 DEF Shut, AnswersSeenBy
    <3>5. QED
      BY <1>8, <3>2, <3>3, <3>4
  <2>5. AnswersNow(meta)' = AnswersNow(meta)
    BY <2>1, <2>4, SameAnswers
  <2>6. SaveInvited(t) => record.n = 0 /\ \A u \in Tab \ {t} : calls[u].at # "reread"
    BY <2>3 DEF SaveInvited, AnswersSeenBy
  <2>7. (meta.there /\ record.n # 0 =>
           meta.closed /\ record.answers = AnswersNow(meta))'
    BY <2>1, <2>3, <2>4, <2>5, <2>6
  <2>8. SaveInvited(t) => calls[t].at = "invited"
    BY DEF SaveInvited
  <2>9. AnswersSeenBy(t)'
    <3>1. CASE at = "idle"
      BY <2>3, <3>1 DEF AnswersSeenBy
    <3>2. CASE at = "reread"
      <4>1. calls'[t].c = calls[t].c /\ calls[t].at = "shut"
        <5>1. Shut(t)
          BY <2>2, <3>2, <1>8 DEF SaveInvited, Close
        <5>2. ~ Turns(t, "idle")
          BY <2>3, <3>2 DEF Turns
        <5>3. QED
          BY <5>1, <5>2, Deciding DEF Continues
      <4>2. meta'.closed
        BY <2>4, <2>8, <4>1
      <4>3. QED
        BY <2>3, <3>2, <4>1, <4>2 DEF AnswersSeenBy
    <3>3. QED
      BY <3>1, <3>2
  <2>10. ASSUME NEW u \in Tab \ {t}
         PROVE  AnswersSeenBy(u)'
    <3>1. calls'[u] = calls[u] /\ AnswersSeenBy(u)
          /\ calls[u].at \notin {"unlink", "link", "invited"}
      BY <2>3
    <3>2. calls[u].at = "reread" => meta'.closed
      BY <2>4, <2>6
    <3>3. QED
      BY <2>1, <3>1, <3>2 DEF AnswersSeenBy
  <2>11. QED
    BY <2>7, <2>9, <2>10
<1>9. ASSUME NEW t \in Tab, Answer(t)
      PROVE  AnswersSeen'
  <2> SUFFICES ASSUME Clear'
               PROVE  record'.n = 0 /\ \A u \in Tab : AnswersSeenBy(u)'
    BY DEF AnswersSeen, Clear
  <2>1. Turns(t, "idle") /\ calls[t].at = "answer" /\ UNCHANGED <<meta, record>>
    BY <1>9, Responding DEF Answer, Outcome
  <2>2. /\ calls'[t].at = "idle" /\ AnswersSeenBy(t)
        /\ \A u \in Tab \ {t} : calls'[u] = calls[u] /\ AnswersSeenBy(u)
    BY <2>1, AnswersBeside DEF Ats
  <2>3. QED
    BY <2>1, <2>2 DEF AnswersSeenBy
<1>10. ASSUME NEW t \in Tab, SaveRecord(t)
       PROVE  AnswersSeen'
  <2> SUFFICES ASSUME Clear'
               PROVE  /\ meta'.closed /\ record'.answers = AnswersNow(meta)'
                      /\ \A u \in Tab : AnswersSeenBy(u)'
    BY DEF AnswersSeen, Clear
  <2>1. /\ Turns(t, "idle") /\ calls[t].at = "reread" /\ UNCHANGED <<meta, responses>>
        /\ record'.answers = AnswersNow(calls[t].c)
    BY <1>10, Deciding DEF SaveRecord, People
  <2>2. /\ calls'[t].at = "idle" /\ AnswersSeenBy(t)
        /\ \A u \in Tab \ {t} :
             /\ calls'[u] = calls[u] /\ AnswersSeenBy(u)
             /\ calls[u].at \notin {"answer", "shut", "reread"}
        /\ calls[t].c.mode = meta.mode
    BY <2>1, AnswersBeside DEF Ats
  <2>3. meta.closed /\ \A u \in Tab : calls[u].at \notin {"unlink", "link", "invited"}
    BY <2>1, <2>2 DEF AnswersSeenBy
  <2>4. record'.answers = AnswersNow(meta)'
    BY <2>1, <2>2 DEF AnswersNow, Invitees
  <2>5. \A u \in Tab : AnswersSeenBy(u)'
    BY <2>1, <2>2, <2>3 DEF AnswersSeenBy
  <2>6. QED
    BY <2>1, <2>3, <2>4, <2>5
<1>11. ASSUME NEW t \in Tab, PurgeMeta(t) \/ PurgePeople(t)
       PROVE  AnswersSeen'
  <2> SUFFICES ASSUME Clear'
               PROVE  ~ meta'.there /\ \A u \in Tab : AnswersSeenBy(u)'
    BY DEF AnswersSeen, Clear
  <2>1. PICK at \in {"people", "rest"} :
          Turns(t, at) /\ calls[t].at \in {"meta", "people"}
    BY <1>11, Purges DEF Continues
  <2>2. /\ calls'[t].at = at /\ Clear
        /\ \A u \in Tab \ {t} : calls'[u] = calls[u] /\ calls[u].at = "idle"
    BY <2>1, AnswersBeside DEF Ats, PurgeAts
  <2>3. MetaSeenBy(t) /\ "purge" \notin raced
    BY <2>2 DEF MetaSeen, Clear
  <2>4. ~ meta'.there
    BY <1>0, <1>11, <2>3 DEF PurgeMeta, PurgePeople, MetaSeenBy
  <2>5. QED
    BY <2>2, <2>4 DEF AnswersSeenBy
<1>12. QED
  BY <1>1, <1>2, <1>3, <1>4, <1>5, <1>6, <1>7, <1>8, <1>9, <1>10, <1>11, NextCases

-----------------------------------------------------------------------------
(* Every reachable state keeps them all.                                   *)

Kept ==
  /\ Shape /\ Alone /\ MetaSeen /\ DecisionSeen /\ Drawn /\ LinksSeen
  /\ BoardSeen /\ RecordSeen /\ AnswersSeen

\* All of it holds at first ...
LEMMA KeptAtFirst == Init => Kept
<1> SUFFICES ASSUME Init PROVE Kept
  OBVIOUS
<1>1. /\ NoCall.at = "idle" /\ NoCall.c = NoMeta /\ ~ NoMeta.there
      /\ \A p \in Person : NoMeta.links[p] = 0
      /\ NoDecision.n = 0 /\ NoChallenge.n = 0
  BY Empties DEF NoDecision, NoChallenge
<1>2. /\ meta = NoMeta /\ decision = NoDecision /\ challenge = NoChallenge
      /\ raced = {} /\ drawn = 0 /\ \A t \in Tab : calls[t] = NoCall
      /\ \A k \in 1..MaxLinks : tokens[k] = Nobody
  BY DEF Init, Empty
<1>3. Shape
  <2>1. issued \in Number /\ drawn \in 0..MaxLinks /\ failures \in 0..MaxFailures
    BY RequestsAssumption, ConsultationAssumption DEF Init, Empty, Number
  <2>2. Fit(NoCall)
    BY <1>1 DEF Fit
  <2>3. QED
    BY <1>2, <2>1, <2>2, Empties DEF Init, Empty, Shape, TypeOK
<1>4. Alone
  BY <1>1, <1>2 DEF Alone, Touching, PurgeAts
<1>5. MetaSeen /\ DecisionSeen
  BY <1>1, <1>2 DEF MetaSeen, MetaSeenBy, DecisionSeen, DecisionSeenBy
<1>6. Drawn /\ LinksSeen
  BY <1>1, <1>2 DEF Drawn, LinksSeen, LinksSeenBy
<1>7. BoardSeen /\ RecordSeen /\ AnswersSeen
  BY <1>1, <1>2 DEF BoardSeen, BoardSeenBy, RecordSeen, AnswersSeen, AnswersSeenBy
<1>8. QED
  BY <1>3, <1>4, <1>5, <1>6, <1>7 DEF Kept

\* ... and always.
LEMMA AlwaysKept == Spec => []Kept
<1>1. Kept /\ [Next]_vars => Kept'
  BY ShapeStep, AloneStep, MetaSeenStep, DecisionSeenStep, DrawnStep,
     LinksSeenStep, BoardSeenStep, RecordSeenStep, AnswersSeenStep DEF Kept
<1>2. QED
  BY KeptAtFirst, <1>1, PTL DEF Spec

-----------------------------------------------------------------------------
(* The theorems.                                                           *)

\* Every variable of a question has its type, the copies that requests work on
\* included.
THEOREM QuestionTypes == Spec => []TypeOK
<1>1. Kept => TypeOK
  BY DEF Kept, Shape
<1>2. QED
  BY AlwaysKept, <1>1, PTL

\* Whoever of the permanent members has no stored answer is named in the decision
\* as missing, whatever interleaves with taking it (consultations.ts:859).
THEOREM NobodyPassedOver == Spec => []PermanentHeard
<1>1. Kept => PermanentHeard
  BY DEF Kept, DecisionSeen, Named, PermanentHeard
<1>2. QED
  BY AlwaysKept, <1>1, PTL

\* A link works exactly as long as the question knows it, through repeated
\* invitations of some or all people (consultations.ts:601).
THEOREM LinksAsKnown == Spec => []LinksWork
<1>1. Kept => LinksWork
  <2> SUFFICES ASSUME Kept, meta.there, "meta" \notin raced,
                      ~ Under({"unlink", "link", "invited"}), ~ PurgeUnderWay,
                      NEW k \in 1..MaxLinks
               PROVE  tokens[k] = Nobody <=> \A p \in Person : meta.links[p] # k
    BY DEF LinksWork
  <2>1. \A t \in Tab : calls[t].at \notin Relinking
    BY DEF Under, PurgeUnderWay, Purging, Relinking, PurgeAts
  <2>2. Working(meta.links, {}) /\ tokens[k] \in Person \cup {Nobody}
    BY <2>1 DEF Kept, LinksSeen, Shape, TypeOK
  <2>3. \A p \in Person : tokens[k] = p <=> meta.links[p] = k
    BY <2>2 DEF Working
  <2>4. QED
    BY <2>2, <2>3, ConsultationAssumption
<1>2. QED
  BY AlwaysKept, <1>1, PTL

\* Rows stored one after the other agree once nobody is between them: the
\* workspace's record with the decision and the answers, a second round of the
\* agents with the first (consultations.ts:713, 888-908).
THEOREM RowsAgree == Spec => []StoredApartAgrees
<1>1. Kept => RecordTrue
  <2> SUFFICES ASSUME Kept, meta.there, raced \cap {"decision", "purge"} = {},
                      ~ Under({"decide", "shut", "reread"}), ~ PurgeUnderWay
               PROVE  /\ meta.linked => record.n = decision.n
                      /\ /\ meta.closed /\ record.n # 0
                         /\ raced \cap {"answers", "meta"} = {}
                         => record.answers = AnswersNow(meta)
    BY DEF RecordTrue
  <2>1. \A t \in Tab : calls[t].at \notin Recording
    BY DEF Under, PurgeUnderWay, Purging, Recording, PurgeAts
  <2>2. QED
    BY <2>1 DEF Kept, RecordSeen, AnswersSeen
<1>2. Kept => RoundTwoOfRoundOne
  BY DEF Kept, BoardSeen, RoundTwoOfRoundOne, Under
<1>3. Kept => StoredApartAgrees
  BY <1>1, <1>2 DEF StoredApartAgrees
<1>4. QED
  BY AlwaysKept, <1>3, PTL
=============================================================================
