----------------------------- MODULE QuestionRoom -----------------------------
(***************************************************************************)
(* The lead's browser and the people's questionnaires, over the requests   *)
(* of server/routes/consultations.ts: a question is asked (questions.tsx), *)
(* followed and decided in its room (question-room.tsx), and answered from *)
(* a link (respond.tsx).  A request is answered later, possibly after      *)
(* others sent after it, or its answer is lost; what it starts goes on     *)
(* when the page that sent it is left, but touches a page no more.         *)
(*                                                                         *)
(* A handler of the server is one step here: what happens between its      *)
(* awaits is the matter of Consultation.  A link is its number among those *)
(* issued to its person.  Wording, layout and downloads are left out.      *)
(***************************************************************************)
EXTENDS Naturals, FiniteSets

CONSTANTS
  None, Person, Permanent,
  Modes,          \* whose input a question may rest on
  Question,       \* the ids questions get
  Pressed,        \* bound: the buttons pressed in a room
  MaxPresses,     \* bound: buttons pressed in rooms
  MaxOut,         \* bound: requests of the browser under way
  MaxLost         \* bound: answers lost

ASSUME RoomAssumption == Permanent \subseteq Person /\ 0 \notin Question

VARIABLES
  questions,   \* what the server keeps of each
  index,       \* localStorage: the questions asked from this browser
  links,       \* localStorage: the links issued to people from this browser
  page,        \* what the browser shows
  calls,       \* its requests under way
  reply,       \* the questionnaire somebody has open (bound: one at a time)
  presses, lost,
  disturbed,   \* history: questions something came between while a decision
               \*   was on its way: a button, leaving the room, a lost answer
  crossed      \* history: questions of which two invitations were under way at
               \*   once, or the answer to one was lost

roomVars == <<questions, index, links, page, calls, reply, presses, lost, disturbed, crossed>>

------------------------------------------------------------------------------
(* The server.                                                             *)

NoQuestion ==
  [ status |-> "none", mode |-> "agents", token |-> [p \in Person |-> 0], answered |-> {},
    shadow |-> FALSE, decisions |-> 0 ]

NoView == [status |-> "loading", mode |-> "agents", answered |-> {}, shadow |-> FALSE, decided |-> FALSE]

Lives(q) == questions[q].status \in {"open", "closed"}

\* view(): what the room is shown of a question.
View(q) ==
  LET c == questions[q] IN
  [ status |-> c.status, mode |-> c.mode, answered |-> c.answered, shadow |-> c.shadow,
    decided |-> c.decisions > 0 ]

\* Everything but a question just created is refused when it is gone; some of
\* it depends on who decides, on its status, and on who has answered.
Accepts(x) ==
  LET c == questions[x.q] IN
  CASE x.kind = "create" -> TRUE
    [] x.kind \in {"invite", "send"} -> c.status = "open" /\ c.mode # "agents"
    [] x.kind = "shadow" -> Lives(x.q) /\ c.mode # "people"
    [] x.kind = "people" -> Lives(x.q) /\ c.mode # "agents" /\ c.answered # {}
    [] x.kind \in {"challenge", "mixed"} ->
         Lives(x.q) /\ c.mode = "collaborative" /\ c.shadow /\ c.answered # {}
    [] x.kind = "decide" ->
         Lives(x.q) /\ (c.mode = "agents" \/ Permanent \subseteq c.answered \/ x.without)
    [] OTHER -> Lives(x.q)

\* Inviting issues a new link to each person asked for.
Reissued(token, to) == [p \in Person |-> IF p \in to THEN token[p] + 1 ELSE token[p]]

After(x) ==
  LET c == questions[x.q] IN
  CASE x.kind = "create" -> [c EXCEPT !.status = "open", !.mode = x.mode]
    [] x.kind \in {"invite", "send"} -> [c EXCEPT !.token = Reissued(@, x.to)]
    [] x.kind = "shadow" -> [c EXCEPT !.shadow = TRUE]
    [] x.kind = "decide" -> [c EXCEPT !.decisions = @ + 1, !.status = "closed"]
    [] x.kind = "close" -> [c EXCEPT !.status = "closed"]
    [] x.kind = "remove" -> [NoQuestion EXCEPT !.status = "gone"]
    [] OTHER -> c

------------------------------------------------------------------------------
(* Requests.  `mine' until the page that sent one is left; `run' when the  *)
(* room waits for it, and clears its busy button when it ends.             *)

Out(kind, q) ==
  [ kind |-> kind, q |-> q, at |-> "out", mine |-> TRUE, run |-> FALSE, mode |-> "agents",
    to |-> {}, without |-> FALSE, files |-> FALSE, view |-> NoView, token |-> NoQuestion.token ]

\* A request like one that is under way already is that one (bound).
Sends(before, x) == calls' = before \cup {x}

Serve(x) ==
  /\ x.at = "out"
  /\ questions' = IF Accepts(x) THEN [questions EXCEPT ![x.q] = After(x)] ELSE questions
  /\ calls' = (calls \ {x}) \cup
       {[x EXCEPT !.at = IF Accepts(x) THEN "done" ELSE "refused",
                  !.view = IF x.kind = "get" /\ Accepts(x) THEN View(x.q) ELSE @,
                  !.token = IF x.to # {} /\ Accepts(x) THEN Reissued(questions[x.q].token, x.to) ELSE @]}
  /\ UNCHANGED <<index, links, page, reply, presses, lost, disturbed, crossed>>

\* The request or its answer is lost: the page hears of an error.
Lose(x) ==
  /\ x.at \in {"out", "done"} /\ lost < MaxLost
  /\ lost' = lost + 1
  /\ calls' = (calls \ {x}) \cup {[x EXCEPT !.at = "refused"]}
  /\ disturbed' = disturbed \cup IF x.kind = "decide" THEN {x.q} ELSE {}
  /\ crossed' = crossed \cup IF x.kind \in {"invite", "send"} THEN {x.q} ELSE {}
  /\ UNCHANGED <<questions, index, links, page, reply, presses>>

------------------------------------------------------------------------------
(* Asking.                                                                 *)

NotBusy == [kind |-> "nothing", to |-> {}]

Blank == [at |-> "list", q |-> 0, view |-> NoView, busy |-> NotBusy, recorded |-> FALSE]

Orphaned == {[x EXCEPT !.mine = FALSE] : x \in calls}

Deciding == {x.q : x \in {y \in calls : y.kind = "decide"}}

\* The browser goes to another page.
Leaves == disturbed' = disturbed \cup Deciding

GoAsking ==
  /\ page.at # "ask"
  /\ page' = [Blank EXCEPT !.at = "ask"] /\ calls' = Orphaned /\ Leaves
  /\ UNCHANGED <<questions, index, links, reply, presses, lost, crossed>>

\* Opening a room asks for its view at once.
GoRoom(q) ==
  /\ q \in index /\ page.q # q /\ Cardinality(calls) < MaxOut
  /\ page' = [Blank EXCEPT !.at = "room", !.q = q]
  /\ Leaves
  /\ Sends(Orphaned, Out("get", q))
  /\ UNCHANGED <<questions, index, links, reply, presses, lost, crossed>>

\* send(): one step after another, while the button shows that it is sending.
\* A question not heard of again keeps its number.
Ask(mode, files) ==
  LET q == CHOOSE n \in Question : questions[n].status = "none" IN
  /\ page.at = "ask" /\ page.busy = NotBusy /\ Cardinality(calls) < MaxOut
  /\ \E n \in Question : questions[n].status = "none"
  /\ \A x \in calls : x.kind # "create"
  /\ page' = [page EXCEPT !.busy.kind = "send"]
  /\ Sends(calls, [Out("create", q) EXCEPT !.mode = mode, !.files = files])
  /\ UNCHANGED <<questions, index, links, reply, presses, lost, disturbed, crossed>>

Invitation(x) == [Out("send", x.q) EXCEPT !.mine = x.mine, !.to = Person]

Inviting(q) == {x \in calls : x.q = q /\ x.kind \in {"invite", "send"}}

\* What sending goes on with, when a step of it is answered.
Onward(x) ==
  IF x.kind = "create" /\ x.files THEN {[Out("attach", x.q) EXCEPT !.mine = x.mine, !.mode = x.mode]}
  ELSE IF x.kind \in {"create", "attach"} /\ x.mode # "agents" THEN {Invitation(x)}
  ELSE {}

\* Mutant: the question is put on the list when everything has been sent.
RemembersAtTheEnd(x) == x.kind = "send"

Remembers(x) == x.kind = "create"

\* rememberLinks()
Merged(old, new) ==
  [p \in DOMAIN old \cup DOMAIN new |-> IF p \in DOMAIN new THEN new[p] ELSE old[p]]

\* An answer about asking: of an upload that fails the sender is told later.
Asked(x) ==
  LET ok == x.at = "done" \/ x.kind = "attach"
      ended == ok /\ Onward(x) = {}
  IN
  /\ x.kind \in {"create", "attach", "send"} /\ x.at # "out"
  /\ calls' = (IF ended THEN Orphaned \ {[x EXCEPT !.mine = FALSE]} ELSE calls \ {x})
                 \cup (IF ok THEN Onward(x) ELSE {})
                 \cup (IF ended THEN {Out("get", x.q)} ELSE {})
  /\ index' = IF ok /\ Remembers(x) THEN index \cup {x.q} ELSE index
  /\ links' = IF ok /\ x.kind = "send" THEN [links EXCEPT ![x.q] = Merged(@, x.token)] ELSE links
  /\ page' = IF ended THEN [Blank EXCEPT !.at = "room", !.q = x.q]
             ELSE IF ~ ok /\ x.mine THEN [page EXCEPT !.busy = NotBusy] ELSE page
  /\ disturbed' = IF ended THEN disturbed \cup Deciding ELSE disturbed
  /\ crossed' = crossed \cup IF Inviting(x.q) \ {x} # {} THEN {x.q} ELSE {}
  /\ UNCHANGED <<questions, reply, presses, lost>>

------------------------------------------------------------------------------
(* The room.                                                               *)

Missing == IF page.view.mode = "agents" THEN {} ELSE Permanent \ page.view.answered

\* Mutant: the button trusts the view.
MayDecideByView(busy, recorded, view) == ~ view.decided /\ busy # "decide"

MayDecide(busy, recorded, view) == ~ view.decided /\ ~ recorded /\ busy # "decide"

\* When a button is there and can be pressed: each is disabled only while it is
\* itself the one the page calls busy.
MayInvite(p) ==
  /\ page.view.mode # "agents" /\ page.view.status = "open" /\ p \notin page.view.answered
  /\ page.busy # [kind |-> "invite", to |-> {p}]

MayConvene == page.view.mode # "people" /\ page.busy.kind # "shadow"

MaySummarise == page.view.mode # "agents" /\ page.view.answered # {} /\ page.busy.kind # "people"

BothHaveSpoken == page.view.mode = "collaborative" /\ page.view.shadow /\ page.view.answered # {}

MayClose == page.view.status = "open" /\ page.view.mode # "agents" /\ page.busy.kind # "close"

MayRate == page.view.shadow

Offered(kind, p) ==
  \/ kind = "invite" /\ MayInvite(p)
  \/ kind = "shadow" /\ MayConvene
  \/ kind = "people" /\ MaySummarise
  \/ kind \in {"challenge", "mixed"} /\ BothHaveSpoken /\ page.busy.kind # kind
  \/ kind = "decide" /\ MayDecide(page.busy.kind, page.recorded, page.view)
  \/ kind = "close" /\ MayClose
  \/ kind = "feedback" /\ MayRate

Buttons == {"invite", "shadow", "people", "challenge", "mixed", "decide", "close", "feedback"}

\* run(): the button is busy, the request goes out.
Press(kind, p, without) ==
  LET x == [Out(kind, page.q) EXCEPT !.run = TRUE, !.to = IF kind = "invite" THEN {p} ELSE {},
                                     !.without = without]
  IN
  /\ page.at = "room" /\ page.view # NoView
  /\ Cardinality(calls) < MaxOut /\ presses < MaxPresses
  /\ presses' = presses + 1
  /\ kind \in Pressed /\ Offered(kind, p)
  /\ without => kind = "decide" /\ Missing # {}
  /\ kind = "decide" /\ Missing # {} => without
  /\ page' = [page EXCEPT !.busy = [kind |-> kind, to |-> x.to]]
  /\ Sends(calls, x)
  /\ disturbed' = disturbed \cup Deciding
  /\ crossed' = crossed \cup IF kind = "invite" /\ Inviting(page.q) # {} THEN {page.q} ELSE {}
  /\ UNCHANGED <<questions, index, links, reply, lost>>

\* Deleting is asked of the server first, and then of this browser.
PressDelete ==
  /\ page.at = "room" /\ page.view # NoView
  /\ Cardinality(calls) < MaxOut /\ presses < MaxPresses
  /\ presses' = presses + 1
  /\ page' = [page EXCEPT !.busy = [kind |-> "remove", to |-> {}]]
  /\ Sends(calls, Out("remove", page.q))
  /\ disturbed' = disturbed \cup Deciding
  /\ UNCHANGED <<questions, index, links, reply, lost, crossed>>

\* Every half minute.
Poll ==
  /\ page.at = "room" /\ Cardinality(calls) < MaxOut
  /\ Sends(calls, Out("get", page.q))
  /\ UNCHANGED <<questions, index, links, page, reply, presses, lost, disturbed, crossed>>

Acts(x) == x.kind \in Buttons

\* A run is answered: links are remembered, a decision noted, the view asked for.
Acted(x) ==
  /\ Acts(x) /\ x.at = "done"
  /\ calls' = (calls \ {x}) \cup {[Out("get", x.q) EXCEPT !.mine = x.mine, !.run = TRUE]}
  /\ links' = IF x.kind = "invite" THEN [links EXCEPT ![x.q] = Merged(@, [p \in x.to |-> x.token[p]])] ELSE links
  /\ page' = IF x.kind = "decide" /\ x.mine THEN [page EXCEPT !.recorded = TRUE] ELSE page
  /\ UNCHANGED <<questions, index, reply, presses, lost, disturbed, crossed>>

\* Whichever run ends clears the busy button.
Fails(x) ==
  /\ Acts(x) \/ x.kind \in {"get", "remove"}
  /\ x.at = "refused"
  /\ calls' = calls \ {x}
  /\ page' = IF x.mine /\ (x.run \/ x.kind = "remove") THEN [page EXCEPT !.busy = NotBusy] ELSE page
  /\ UNCHANGED <<questions, index, links, reply, presses, lost, disturbed, crossed>>

Shown(x) ==
  /\ x.kind = "get" /\ x.at = "done"
  /\ calls' = calls \ {x}
  /\ page' = IF ~ x.mine THEN page
             ELSE [page EXCEPT !.view = x.view, !.busy = IF x.run THEN NotBusy ELSE @]
  /\ UNCHANGED <<questions, index, links, reply, presses, lost, disturbed, crossed>>

\* forgetConsultation(), and back to the list, wherever the browser is by then.
Removed(x) ==
  /\ x.kind = "remove" /\ x.at = "done"
  /\ calls' = Orphaned \ {[x EXCEPT !.mine = FALSE]}
  /\ index' = index \ {x.q}
  /\ links' = [links EXCEPT ![x.q] = <<>>]
  /\ page' = Blank /\ Leaves
  /\ UNCHANGED <<questions, reply, presses, lost, crossed>>

------------------------------------------------------------------------------
(* The questionnaire.                                                      *)

NoReply == [who |-> None, q |-> 0, link |-> 0, closed |-> FALSE]

\* A link is followed when it was the latest one issued to its person.
OpenQuestionnaire(p, q) ==
  /\ reply = NoReply /\ Lives(q) /\ questions[q].token[p] > 0
  /\ reply' = [who |-> p, q |-> q, link |-> questions[q].token[p], closed |-> questions[q].status = "closed"]
  /\ UNCHANGED <<questions, index, links, page, calls, presses, lost, disturbed, crossed>>

\* The page offers to send while it does not know that the question is closed.
MaySend == reply # NoReply /\ ~ reply.closed

\* The server takes the answers of a live link to an open question.
SendAnswers ==
  LET c == questions[reply.q] IN
  /\ MaySend
  /\ questions' = IF c.status = "open" /\ c.token[reply.who] = reply.link
                  THEN [questions EXCEPT ![reply.q].answered = @ \cup {reply.who}] ELSE questions
  /\ reply' = NoReply
  /\ UNCHANGED <<index, links, page, calls, presses, lost, disturbed, crossed>>

CloseQuestionnaire ==
  /\ reply # NoReply /\ reply' = NoReply
  /\ UNCHANGED <<questions, index, links, page, calls, presses, lost, disturbed, crossed>>

------------------------------------------------------------------------------
RoomInit ==
  /\ questions = [q \in Question |-> NoQuestion]
  /\ index = {} /\ links = [q \in Question |-> <<>>]
  /\ page = Blank /\ calls = {} /\ reply = NoReply
  /\ presses = 0 /\ lost = 0 /\ disturbed = {} /\ crossed = {}

RoomNext ==
  \/ GoAsking
  \/ \E q \in Question : GoRoom(q)
  \/ \E mode \in Modes, files \in BOOLEAN : Ask(mode, files)
  \/ \E kind \in Buttons, p \in Person, without \in BOOLEAN : Press(kind, p, without)
  \/ PressDelete \/ Poll
  \/ \E x \in calls :
       Serve(x) \/ Lose(x) \/ Asked(x) \/ Acted(x) \/ Fails(x) \/ Shown(x) \/ Removed(x)
  \/ SendAnswers \/ CloseQuestionnaire
  \/ \E p \in Person, q \in Question : OpenQuestionnaire(p, q)

RoomSpec == RoomInit /\ [][RoomNext]_roomVars

------------------------------------------------------------------------------
(* Properties.                                                             *)

\* Whoever was sent a questionnaire, the question is on the lead's list, from
\* which alone it can be opened, closed or deleted -- also when a later step of
\* sending it failed (questions.tsx:184-212, question-room.tsx:328-336).
AskedIsListed ==
  \A q \in Question :
    Lives(q) /\ (\E p \in Person : questions[q].token[p] > 0) => q \in index

\* A link the room offers to mail or copy opens the questionnaire, however often
\* links are issued anew, unless invitations crossed or an answer was lost
\* (consultations.ts:111-125, 180-188).
LinksShownWork ==
  \A q \in Question \ crossed :
    questions[q].status = "open" /\ Inviting(q) = {} =>
      \A p \in DOMAIN links[q] : links[q][p] \in {0, questions[q].token[p]}

\* What the browser keeps of the questions asked from it is true, although the
\* server keeps no list of them and shows no link twice.
KeptHereIsTrue == AskedIsListed /\ LinksShownWork

\* One decision is recorded of a question and never another over it, though
\* views of before it arrive after it, unless the lead pressed something else,
\* left the room or lost the answer while it was on its way
\* (question-room.tsx:382-401, 722-730).
DecidedOnce == \A q \in Question \ disturbed : questions[q].decisions <= 1
=============================================================================
