---------------------------- MODULE SagePagesProofs ----------------------------
(***************************************************************************)
(* Theorems about the pages of the browser, for any number of people,      *)
(* questions, decisions and workspaces, of buttons pressed, requests under *)
(* way and answers lost: first those of one question, then those of a      *)
(* workspace.                                                              *)
(***************************************************************************)
EXTENDS QuestionRoom, WorkspaceDesk, FiniteSetTheorems, WellFoundedInduction, TLAPS

-----------------------------------------------------------------------------
(* Types of the room.                                                      *)

Kinds == Buttons \cup {"create", "attach", "send", "get", "remove"}

\* Links of a question as the browser keeps them: of some people.
LinksRow == UNION {[S -> Nat] : S \in SUBSET Person}

QuestionRow ==
  [ status : {"none", "open", "closed", "gone"}, mode : Modes \cup {"agents"},
    token : [Person -> Nat], answered : SUBSET Person, shadow : BOOLEAN, decisions : Nat ]

ViewRow ==
  [ status : {"loading", "none", "open", "closed", "gone"}, mode : Modes \cup {"agents"},
    answered : SUBSET Person, shadow : BOOLEAN, decided : BOOLEAN ]

RoomCall ==
  [ kind : Kinds, q : Question, at : {"out", "done", "refused"}, mine : BOOLEAN, run : BOOLEAN,
    mode : Modes \cup {"agents"}, to : SUBSET Person, without : BOOLEAN, files : BOOLEAN,
    view : ViewRow, token : [Person -> Nat] ]

PageRow ==
  [ at : {"list", "ask", "room"}, q : Question \cup {0}, view : ViewRow,
    busy : [kind : Kinds \cup {"nothing"}, to : SUBSET Person], recorded : BOOLEAN ]

ReplyRow == [who : Person \cup {None}, q : Question \cup {0}, link : Nat, closed : BOOLEAN]

PageTyped == page \in PageRow /\ (page.at = "room" => page.q \in Question)

RoomTypeOK ==
  /\ questions \in [Question -> QuestionRow]
  /\ index \subseteq Question
  /\ links \in [Question -> LinksRow]
  /\ PageTyped
  /\ calls \subseteq RoomCall
  /\ reply \in ReplyRow
  /\ reply # NoReply => reply.who \in Person /\ reply.q \in Question

-----------------------------------------------------------------------------
(* The list of questions.                                                  *)

\* A question is created by one request, before anything else is asked of it.
OneCreation == \A x, y \in calls : x.kind = "create" /\ y.kind = "create" => x = y

Followed ==
  \A x \in calls :
    /\ x.kind = "create" /\ x.at = "out" => questions[x.q] = NoQuestion
    /\ x.kind # "create" \/ x.at = "done" => questions[x.q].status # "none"
    /\ x.kind = "remove" /\ x.at = "done" => questions[x.q].status = "gone"

Known ==
  /\ \A q \in index : questions[q].status # "none"
  /\ page.at = "room" => questions[page.q].status # "none"
  /\ \A q \in Question : questions[q].status = "none" => questions[q] = NoQuestion /\ DOMAIN links[q] = {}

Creation == OneCreation /\ Followed /\ Known

\* What a request was sent of, or a room shows, is listed as long as it lives.
InList ==
  /\ \A x \in calls : x.kind # "create" /\ Lives(x.q) => x.q \in index
  /\ page.at = "room" /\ Lives(page.q) => page.q \in index
  /\ AskedIsListed

\* The links the browser has work, or their successors are on the way to it.
LinksKnownOf(q) ==
  questions[q].status = "open" =>
    /\ \A x, y \in Inviting(q) : x = y
    /\ \A p \in DOMAIN links[q] :
         \/ links[q][p] \in {0, questions[q].token[p]}
         \/ \E x \in Inviting(q) : x.at = "done" /\ p \in x.to
    /\ \A x \in Inviting(q) : /\ x.to = Person \/ (x.kind = "invite" /\ x.to # {})
                              /\ x.at = "done" => x.token = questions[q].token

LinksKnown == \A q \in Question \ crossed : LinksKnownOf(q)

\* What the page on show has started.
Mine ==
  page.at = "room" =>
    \A x \in calls : x.mine => x.q = page.q /\ x.kind \notin {"create", "attach", "send"}

\* A decision goes out where there is none, from a page that waits for it; once it
\* is answered, or seen, that page offers no other.
DecidingOne(q) ==
  \A x \in calls : x.kind = "decide" /\ x.q = q =>
    /\ x.mine /\ page.at = "room" /\ page.q = q
    /\ x.at # "done" => questions[q].decisions = 0
    /\ \A y \in calls : y.kind = "decide" /\ y.q = q => y = x

SeenDecided ==
  /\ page.view = NoView \/ page.view.decided
  /\ \A x \in calls : x.mine /\ x.kind = "get" /\ x.at = "done" => x.view.decided

OffersNoOther(q) ==
  questions[q].decisions = 1 /\ q \notin Deciding /\ page.at = "room" /\ page.q = q =>
    page.recorded \/ SeenDecided

DecisionOf(q) == questions[q].decisions <= 1 /\ DecidingOne(q) /\ OffersNoOther(q)

Decision == \A q \in Question \ disturbed : DecisionOf(q)

RoomIInv == RoomTypeOK /\ Creation /\ InList /\ LinksKnown /\ Mine /\ Decision

-----------------------------------------------------------------------------
(* Requests.                                                               *)

\* What goes out is well-formed.
LEMMA OutGoing ==
  ASSUME NEW kind \in Kinds, NEW q \in Question
  PROVE  /\ Out(kind, q) \in RoomCall
         /\ Out(kind, q).kind = kind /\ Out(kind, q).q = q /\ Out(kind, q).at = "out"
         /\ Out(kind, q).to = {} /\ Out(kind, q).mine
<1>1. NoView \in ViewRow
  BY DEF NoView, ViewRow
<1>2. NoQuestion.token \in [Person -> Nat]
  BY DEF NoQuestion
<1>3. QED
  BY <1>1, <1>2 DEF Out, RoomCall

\* What a request keeps when the page that sent it is left.
Orphan(x) == [x EXCEPT !.mine = FALSE]

\* A request whose page is left differs only in that.
LEMMA OrphanRow ==
  ASSUME NEW x \in RoomCall
  PROVE  /\ Orphan(x) \in RoomCall /\ ~ Orphan(x).mine
         /\ Orphan(x).kind = x.kind /\ Orphan(x).q = x.q /\ Orphan(x).at = x.at
         /\ Orphan(x).to = x.to /\ Orphan(x).token = x.token /\ Orphan(x).view = x.view
BY DEF Orphan, RoomCall

\* The parts two requests have in common.
Like(x, y) ==
  /\ x.kind = y.kind /\ x.q = y.q /\ x.at = y.at /\ x.to = y.to
  /\ x.token = y.token /\ x.view = y.view

\* Those left behind are as many as there were, and like them.
LEMMA Orphans ==
  ASSUME RoomTypeOK
  PROVE  /\ Orphaned \subseteq RoomCall
         /\ \A x \in Orphaned : ~ x.mine /\ \E y \in calls : x = Orphan(y) /\ Like(x, y)
         /\ \A y \in calls : Orphan(y) \in Orphaned /\ Like(Orphan(y), y)
<1>1. Orphaned = {Orphan(y) : y \in calls}
  BY DEF Orphaned, Orphan
<1>2. \A y \in calls : Orphan(y) \in RoomCall /\ ~ Orphan(y).mine /\ Like(Orphan(y), y)
  BY OrphanRow DEF RoomTypeOK, Like
<1>3. QED
  BY <1>1, <1>2

\* The pages that are gone to are pages, and empty.
LEMMA Pages ==
  /\ Blank \in PageRow /\ Blank.at = "list" /\ Blank.q = 0 /\ Blank.view = NoView
  /\ ~ Blank.recorded
  /\ [Blank EXCEPT !.at = "ask"] \in PageRow /\ [Blank EXCEPT !.at = "ask"].at = "ask"
  /\ \A q \in Question :
       LET to == [Blank EXCEPT !.at = "room", !.q = q] IN
       to \in PageRow /\ to.at = "room" /\ to.q = q /\ to.view = NoView /\ ~ to.recorded
  /\ \A old \in PageRow :
       LET new == [old EXCEPT !.busy.kind = "send"] IN new \in PageRow /\ new.at = old.at /\ new.q = old.q
<1>1. NoView \in ViewRow /\ NotBusy \in [kind : Kinds \cup {"nothing"}, to : SUBSET Person]
  BY DEF NoView, ViewRow, NotBusy
<1>2. /\ Blank \in PageRow /\ Blank.at = "list" /\ Blank.q = 0 /\ Blank.view = NoView
      /\ ~ Blank.recorded
  BY <1>1 DEF Blank, PageRow
<1>3. [Blank EXCEPT !.at = "ask"] \in PageRow /\ [Blank EXCEPT !.at = "ask"].at = "ask"
  BY <1>1 DEF Blank, PageRow
<1>4. ASSUME NEW q \in Question
      PROVE  LET to == [Blank EXCEPT !.at = "room", !.q = q] IN
             to \in PageRow /\ to.at = "room" /\ to.q = q /\ to.view = NoView /\ ~ to.recorded
  BY <1>1 DEF Blank, PageRow
<1>5. ASSUME NEW old \in PageRow
      PROVE  LET new == [old EXCEPT !.busy.kind = "send"] IN new \in PageRow /\ new.at = old.at /\ new.q = old.q
  BY DEF PageRow, Kinds
<1>6. QED
  BY <1>2, <1>3, <1>4, <1>5

\* A page that waits, and one that is shown what it asked for.
BusyPage(old, kind, to) == [old EXCEPT !.busy = [kind |-> kind, to |-> to]]

ViewPage(old, view, run) == [old EXCEPT !.view = view, !.busy = IF run THEN NotBusy ELSE @]

\* A page that waits is the page it was otherwise.
LEMMA BusyPages ==
  ASSUME NEW old \in PageRow, NEW kind \in Kinds \cup {"nothing"}, NEW to \in SUBSET Person
  PROVE  /\ BusyPage(old, kind, to) \in PageRow
         /\ BusyPage(old, kind, to).at = old.at /\ BusyPage(old, kind, to).q = old.q
         /\ BusyPage(old, kind, to).view = old.view /\ BusyPage(old, kind, to).recorded = old.recorded
BY DEF PageRow, BusyPage

\* A page that shows something else is the page it was otherwise.
LEMMA ViewPages ==
  ASSUME NEW old \in PageRow, NEW view \in ViewRow, NEW run \in BOOLEAN
  PROVE  /\ ViewPage(old, view, run) \in PageRow
         /\ ViewPage(old, view, run).at = old.at /\ ViewPage(old, view, run).q = old.q
         /\ ViewPage(old, view, run).view = view /\ ViewPage(old, view, run).recorded = old.recorded
<1>1. NotBusy \in [kind : Kinds \cup {"nothing"}, to : SUBSET Person]
  BY DEF NotBusy
<1>2. QED
  BY <1>1 DEF PageRow, ViewPage

\* What the server makes of a question is one.
LEMMA ServedView ==
  ASSUME RoomTypeOK, NEW x \in calls
  PROVE  /\ After(x) \in QuestionRow /\ View(x.q) \in ViewRow
         /\ Reissued(questions[x.q].token, x.to) \in [Person -> Nat]
<1>1. x \in RoomCall /\ questions[x.q] \in QuestionRow
  BY DEF RoomTypeOK, RoomCall
<1>2. Reissued(questions[x.q].token, x.to) \in [Person -> Nat]
  BY <1>1 DEF Reissued, QuestionRow
<1>3. View(x.q) \in ViewRow
  BY <1>1 DEF View, QuestionRow, ViewRow
<1>4. [NoQuestion EXCEPT !.status = "gone"] \in QuestionRow
  BY DEF NoQuestion, QuestionRow
<1>5. Reissued(questions[x.q].token, x.to) \in [Person -> Nat]
      /\ [questions[x.q] EXCEPT !.token = Reissued(@, x.to)] \in QuestionRow
  BY <1>1, <1>2 DEF QuestionRow
<1>6. [questions[x.q] EXCEPT !.status = "open", !.mode = x.mode] \in QuestionRow
  BY <1>1 DEF QuestionRow, RoomCall
<1>7. /\ [questions[x.q] EXCEPT !.shadow = TRUE] \in QuestionRow
      /\ [questions[x.q] EXCEPT !.status = "closed"] \in QuestionRow
  BY <1>1 DEF QuestionRow
<1>9. [questions[x.q] EXCEPT !.decisions = @ + 1, !.status = "closed"] \in QuestionRow
  <2>1. questions[x.q].decisions + 1 \in Nat
    BY <1>1 DEF QuestionRow
  <2>2. ASSUME NEW n \in Nat
        PROVE  [questions[x.q] EXCEPT !.decisions = n, !.status = "closed"] \in QuestionRow
    BY <1>1 DEF QuestionRow
  <2>3. QED
    BY <2>1, <2>2
<1>8. After(x) \in QuestionRow
  <2>1. CASE x.kind = "create"
    BY <1>6, <2>1 DEF After
  <2>2. CASE x.kind = "invite"
    BY <1>5, <2>2 DEF After
  <2>3. CASE x.kind = "send"
    BY <1>5, <2>3 DEF After
  <2>4. CASE x.kind = "shadow"
    BY <1>7, <2>4 DEF After
  <2>5. CASE x.kind = "decide"
    BY <1>9, <2>5 DEF After
  <2>6. CASE x.kind = "close"
    BY <1>7, <2>6 DEF After
  <2>7. CASE x.kind = "remove"
    BY <1>4, <2>7 DEF After
  <2>8. CASE x.kind \notin {"create", "invite", "send", "shadow", "decide", "close", "remove"}
    BY <1>1, <2>8 DEF After
  <2>9. QED
    BY <2>1, <2>2, <2>3, <2>4, <2>5, <2>6, <2>7, <2>8
<1>10. QED
  BY <1>2, <1>3, <1>8

\* A request as it stands once it is served or lost.
AnsweredAs(x, at, view, token) == [x EXCEPT !.at = at, !.view = view, !.token = token]

ServedBy(x) ==
  AnsweredAs(x, IF Accepts(x) THEN "done" ELSE "refused",
                IF x.kind = "get" /\ Accepts(x) THEN View(x.q) ELSE x.view,
                IF x.to # {} /\ Accepts(x) THEN Reissued(questions[x.q].token, x.to) ELSE x.token)

LostAs(x) == [x EXCEPT !.at = "refused"]

\* A request that was answered, or lost, is the request it was otherwise.
LEMMA Answers ==
  ASSUME RoomTypeOK, NEW x \in calls
  PROVE  /\ LostAs(x) \in RoomCall /\ LostAs(x).at = "refused"
         /\ LostAs(x).kind = x.kind /\ LostAs(x).q = x.q /\ LostAs(x).to = x.to
         /\ LostAs(x).mine = x.mine /\ LostAs(x).token = x.token /\ LostAs(x).view = x.view
         /\ ServedBy(x) \in RoomCall
         /\ ServedBy(x).at = IF Accepts(x) THEN "done" ELSE "refused"
         /\ ServedBy(x).kind = x.kind /\ ServedBy(x).q = x.q /\ ServedBy(x).to = x.to
         /\ ServedBy(x).mine = x.mine
         /\ ServedBy(x).view = IF x.kind = "get" /\ Accepts(x) THEN View(x.q) ELSE x.view
         /\ ServedBy(x).token = IF x.to # {} /\ Accepts(x)
                                THEN Reissued(questions[x.q].token, x.to) ELSE x.token
<1>1. x \in RoomCall
  BY DEF RoomTypeOK
<1>2. ASSUME NEW at \in {"done", "refused"}, NEW view \in ViewRow, NEW token \in [Person -> Nat]
      PROVE  /\ AnsweredAs(x, at, view, token) \in RoomCall
             /\ AnsweredAs(x, at, view, token).at = at
             /\ AnsweredAs(x, at, view, token).view = view
             /\ AnsweredAs(x, at, view, token).token = token
             /\ AnsweredAs(x, at, view, token).kind = x.kind
             /\ AnsweredAs(x, at, view, token).q = x.q
             /\ AnsweredAs(x, at, view, token).to = x.to
             /\ AnsweredAs(x, at, view, token).mine = x.mine
  BY <1>1 DEF RoomCall, AnsweredAs
<1>3. x.view \in ViewRow /\ x.token \in [Person -> Nat]
  BY <1>1 DEF RoomCall
<1>4. /\ LostAs(x) \in RoomCall /\ LostAs(x).at = "refused"
      /\ LostAs(x).kind = x.kind /\ LostAs(x).q = x.q /\ LostAs(x).to = x.to
      /\ LostAs(x).mine = x.mine /\ LostAs(x).token = x.token /\ LostAs(x).view = x.view
  BY <1>1 DEF LostAs, RoomCall
<1>5. /\ (IF Accepts(x) THEN "done" ELSE "refused") \in {"done", "refused"}
      /\ (IF x.kind = "get" /\ Accepts(x) THEN View(x.q) ELSE x.view) \in ViewRow
      /\ (IF x.to # {} /\ Accepts(x) THEN Reissued(questions[x.q].token, x.to) ELSE x.token)
           \in [Person -> Nat]
  BY <1>3, ServedView
<1>6. QED
  BY <1>2, <1>4, <1>5 DEF ServedBy

-----------------------------------------------------------------------------
(* Type correctness.                                                       *)

\* Links issued anew take the place of the same people's earlier ones.
LEMMA MergedLinks ==
  ASSUME NEW old \in LinksRow, NEW new \in LinksRow
  PROVE  /\ Merged(old, new) \in LinksRow
         /\ DOMAIN Merged(old, new) = DOMAIN old \cup DOMAIN new
         /\ \A p \in DOMAIN new : Merged(old, new)[p] = new[p]
         /\ \A p \in DOMAIN old \ DOMAIN new : Merged(old, new)[p] = old[p]
<1>1. PICK S \in SUBSET Person : old \in [S -> Nat]
  BY DEF LinksRow
<1>2. PICK T \in SUBSET Person : new \in [T -> Nat]
  BY DEF LinksRow
<1>3. Merged(old, new) = [p \in S \cup T |-> IF p \in T THEN new[p] ELSE old[p]]
  BY <1>1, <1>2 DEF Merged
<1>4. Merged(old, new) \in [S \cup T -> Nat] /\ S \cup T \in SUBSET Person
  BY <1>1, <1>2, <1>3
<1>5. QED
  BY <1>1, <1>2, <1>3, <1>4 DEF LinksRow
\* A button's request.
Run(kind, q, to, without) == [Out(kind, q) EXCEPT !.run = TRUE, !.to = to, !.without = without]

\* A button sends one request about its question.
LEMMA Runs ==
  ASSUME NEW kind \in Kinds, NEW q \in Question, NEW to \in SUBSET Person, NEW without \in BOOLEAN
  PROVE  LET x == Run(kind, q, to, without) IN
         /\ x \in RoomCall /\ x.kind = kind /\ x.q = q /\ x.at = "out" /\ x.to = to /\ x.mine
<1>1. Out(kind, q) \in RoomCall /\ Out(kind, q).kind = kind /\ Out(kind, q).q = q
      /\ Out(kind, q).at = "out" /\ Out(kind, q).mine
  BY OutGoing
<1>2. QED
  BY <1>1 DEF RoomCall, Run

\* A request made on behalf of another, from a page that may have been left.
LEMMA Successors ==
  ASSUME NEW x \in RoomCall
  PROVE  LET attach == [Out("attach", x.q) EXCEPT !.mine = x.mine, !.mode = x.mode]
             get == [Out("get", x.q) EXCEPT !.mine = x.mine, !.run = TRUE]
             send == Invitation(x)
         IN
         /\ attach \in RoomCall /\ attach.kind = "attach" /\ attach.q = x.q /\ attach.at = "out"
         /\ attach.to = {} /\ attach.mine = x.mine
         /\ get \in RoomCall /\ get.kind = "get" /\ get.q = x.q /\ get.at = "out"
         /\ get.to = {} /\ get.mine = x.mine
         /\ send \in RoomCall /\ send.kind = "send" /\ send.q = x.q /\ send.at = "out"
         /\ send.to = Person /\ send.mine = x.mine
<1>1. x.q \in Question /\ x.mine \in BOOLEAN /\ x.mode \in Modes \cup {"agents"}
  BY DEF RoomCall
<1>2. ASSUME NEW kind \in Kinds
      PROVE  /\ Out(kind, x.q) \in RoomCall /\ Out(kind, x.q).kind = kind /\ Out(kind, x.q).q = x.q
             /\ Out(kind, x.q).at = "out" /\ Out(kind, x.q).to = {}
  BY <1>1, OutGoing
<1>3. {"attach", "get", "send"} \subseteq Kinds
  BY DEF Kinds
<1>4. LET attach == [Out("attach", x.q) EXCEPT !.mine = x.mine, !.mode = x.mode] IN
      /\ attach \in RoomCall /\ attach.kind = "attach" /\ attach.q = x.q /\ attach.at = "out"
      /\ attach.to = {} /\ attach.mine = x.mine
  <2>1. Out("attach", x.q) \in RoomCall /\ Out("attach", x.q).kind = "attach" /\ Out("attach", x.q).q = x.q
        /\ Out("attach", x.q).at = "out" /\ Out("attach", x.q).to = {}
    BY <1>2, <1>3
  <2>2. QED
    BY <2>1, <1>1 DEF RoomCall
<1>5. LET get == [Out("get", x.q) EXCEPT !.mine = x.mine, !.run = TRUE] IN
      /\ get \in RoomCall /\ get.kind = "get" /\ get.q = x.q /\ get.at = "out"
      /\ get.to = {} /\ get.mine = x.mine
  <2>1. Out("get", x.q) \in RoomCall /\ Out("get", x.q).kind = "get" /\ Out("get", x.q).q = x.q
        /\ Out("get", x.q).at = "out" /\ Out("get", x.q).to = {}
    BY <1>2, <1>3
  <2>2. QED
    BY <2>1, <1>1 DEF RoomCall
<1>6. /\ Invitation(x) \in RoomCall /\ Invitation(x).kind = "send" /\ Invitation(x).q = x.q
      /\ Invitation(x).at = "out" /\ Invitation(x).to = Person /\ Invitation(x).mine = x.mine
  <2>1. Out("send", x.q) \in RoomCall /\ Out("send", x.q).kind = "send" /\ Out("send", x.q).q = x.q
        /\ Out("send", x.q).at = "out"
    BY <1>2, <1>3
  <2>2. QED
    BY <2>1, <1>1 DEF RoomCall, Invitation
<1>7. QED
  BY <1>4, <1>5, <1>6

\* What sending goes on with is one more request, of the same question.
LEMMA OnwardOne ==
  ASSUME NEW x \in RoomCall
  PROVE  /\ Onward(x) = {} \/ \E y \in RoomCall : Onward(x) = {y}
         /\ \A y \in Onward(x) :
              /\ y \in RoomCall /\ y.q = x.q /\ y.at = "out" /\ y.mine = x.mine
              /\ \/ y.kind = "attach" /\ x.kind = "create"
                 \/ y.kind = "send" /\ x.kind \in {"create", "attach"} /\ y.to = Person
<1> DEFINE attach == [Out("attach", x.q) EXCEPT !.mine = x.mine, !.mode = x.mode]
<1>1. /\ attach \in RoomCall /\ attach.kind = "attach" /\ attach.q = x.q /\ attach.at = "out"
      /\ attach.mine = x.mine
  BY Successors
<1>2. /\ Invitation(x) \in RoomCall /\ Invitation(x).kind = "send" /\ Invitation(x).q = x.q
      /\ Invitation(x).at = "out" /\ Invitation(x).to = Person /\ Invitation(x).mine = x.mine
  BY Successors
<1>3. Onward(x) = IF x.kind = "create" /\ x.files THEN {attach}
                  ELSE IF x.kind \in {"create", "attach"} /\ x.mode # "agents" THEN {Invitation(x)}
                  ELSE {}
  BY Zenon DEF Onward
<1> HIDE DEF attach
<1>4. QED
  BY <1>1, <1>2, <1>3

CreateCall(q, mode, files) == [Out("create", q) EXCEPT !.mode = mode, !.files = files]

\* A question is asked by one request to create it.
LEMMA RoomCreated ==
  ASSUME NEW q \in Question, NEW mode \in Modes, NEW files \in BOOLEAN
  PROVE  LET x == CreateCall(q, mode, files) IN
         x \in RoomCall /\ x.kind = "create" /\ x.q = q /\ x.at = "out" /\ x.to = {}
<1>1. /\ Out("create", q) \in RoomCall /\ Out("create", q).kind = "create" /\ Out("create", q).q = q
      /\ Out("create", q).at = "out" /\ Out("create", q).to = {}
  BY OutGoing DEF Kinds
<1>2. QED
  BY <1>1 DEF RoomCall, CreateCall

\* The server answers one request and leaves the others.
LEMMA ServedCalls ==
  ASSUME RoomTypeOK, NEW x \in calls, Serve(x)
  PROVE  calls' = (calls \ {x}) \cup {ServedBy(x)}
BY Zenon DEF Serve, ServedBy, AnsweredAs

\* A page that waits no longer is the page it was otherwise.
LEMMA IdlePage ==
  ASSUME NEW old \in PageRow
  PROVE  LET new == [old EXCEPT !.busy = NotBusy] IN
         /\ new \in PageRow /\ new.at = old.at /\ new.q = old.q
         /\ new.view = old.view /\ new.recorded = old.recorded
BY DEF PageRow, NotBusy

\* No links are links of some people: of nobody.
LEMMA NoLinks == <<>> \in LinksRow /\ DOMAIN <<>> = {}
<1>1. <<>> \in [{} -> Nat] /\ DOMAIN <<>> = {}
  OBVIOUS
<1>2. QED
  BY <1>1 DEF LinksRow

\* Who has answered is all that an answer changes of a question.
LEMMA AnsweredRow ==
  ASSUME RoomTypeOK, NEW q \in Question, NEW p \in Person
  PROVE  LET new == [questions EXCEPT ![q].answered = questions[q].answered \cup {p}] IN
         /\ new \in [Question -> QuestionRow]
         /\ new[q].status = questions[q].status /\ new[q].token = questions[q].token
         /\ new[q].decisions = questions[q].decisions
         /\ \A k \in Question \ {q} : new[k] = questions[k]
<1>1. questions[q] \in QuestionRow /\ questions \in [Question -> QuestionRow]
  BY DEF RoomTypeOK
<1>2. LET new == [questions[q] EXCEPT !.answered = questions[q].answered \cup {p}] IN
      /\ new \in QuestionRow /\ new.status = questions[q].status /\ new.token = questions[q].token
      /\ new.decisions = questions[q].decisions
  BY <1>1 DEF QuestionRow
<1>3. QED
  BY <1>1, <1>2

\* Pressing a button, in these terms.
PressedTo(kind, p) == IF kind = "invite" THEN {p} ELSE {}

PressedCall(kind, p, without) == Run(kind, page.q, PressedTo(kind, p), without)

\* A button pressed in a room sends a request about its question.
LEMMA Pressing ==
  ASSUME NEW kind \in Buttons, NEW p \in Person, NEW without \in BOOLEAN, Press(kind, p, without), RoomTypeOK
  PROVE  /\ page.at = "room" /\ page.q \in Question /\ kind \in Kinds
         /\ PressedTo(kind, p) \in SUBSET Person
         /\ PressedCall(kind, p, without) \in RoomCall
         /\ PressedCall(kind, p, without).kind = kind
         /\ PressedCall(kind, p, without).q = page.q
         /\ PressedCall(kind, p, without).at = "out"
         /\ PressedCall(kind, p, without).to = PressedTo(kind, p)
         /\ PressedCall(kind, p, without).mine
         /\ page' = BusyPage(page, kind, PressedTo(kind, p))
         /\ calls' = calls \cup {PressedCall(kind, p, without)}
         /\ UNCHANGED <<questions, index, links, reply>>
<1>1. page.at = "room" /\ UNCHANGED <<questions, index, links, reply>>
  BY DEF Press
<1>2. page.q \in Question /\ kind \in Kinds /\ PressedTo(kind, p) \in SUBSET Person
  BY <1>1 DEF RoomTypeOK, PageTyped, Kinds, PressedTo
<1>3. /\ PressedCall(kind, p, without) \in RoomCall
      /\ PressedCall(kind, p, without).kind = kind
      /\ PressedCall(kind, p, without).q = page.q
      /\ PressedCall(kind, p, without).at = "out"
      /\ PressedCall(kind, p, without).to = PressedTo(kind, p)
      /\ PressedCall(kind, p, without).mine
  BY <1>2, Runs DEF PressedCall
<1>4. /\ page' = [page EXCEPT !.busy = [kind |-> kind, to |-> PressedCall(kind, p, without).to]]
      /\ calls' = calls \cup {PressedCall(kind, p, without)}
  BY Zenon DEF Press, Sends, Run, PressedCall, PressedTo
<1>5. page' = BusyPage(page, kind, PressedTo(kind, p))
  BY <1>3, <1>4 DEF BusyPage
<1>6. QED
  BY <1>1, <1>2, <1>3, <1>4, <1>5

\* A page that has recorded a decision is the page it was otherwise.
LEMMA RecordedPage ==
  ASSUME NEW old \in PageRow
  PROVE  LET new == [old EXCEPT !.recorded = TRUE] IN
         new \in PageRow /\ new.at = old.at /\ new.q = old.q /\ new.recorded = TRUE /\ new.view = old.view
BY DEF PageRow

\* The types hold at the start.
LEMMA RoomTypeInit == RoomInit => RoomTypeOK
<1> SUFFICES ASSUME RoomInit PROVE RoomTypeOK
  OBVIOUS
<1> USE DEF PageTyped
<1>1. questions \in [Question -> QuestionRow]
  <2>1. NoQuestion \in QuestionRow
    BY DEF NoQuestion, QuestionRow
  <2>2. QED
    BY <2>1 DEF RoomInit
<1>2. links \in [Question -> LinksRow]
  BY MergedLinks, NoLinks DEF RoomInit
<1>3. page \in PageRow /\ page.at = "list"
  BY Pages DEF RoomInit
<1>4. reply \in ReplyRow /\ reply = NoReply
  BY DEF RoomInit, NoReply, ReplyRow
<1>5. index = {} /\ calls = {}
  BY DEF RoomInit
<1>6. QED
  BY <1>1, <1>2, <1>3, <1>4, <1>5 DEF RoomTypeOK

\* Every step keeps the types.
LEMMA RoomTypeStep == RoomTypeOK /\ [RoomNext]_roomVars => RoomTypeOK'
<1> SUFFICES ASSUME RoomTypeOK, [RoomNext]_roomVars PROVE RoomTypeOK'
  OBVIOUS
<1> USE DEF PageTyped
<1>a. {"get", "create", "remove"} \cup Buttons \subseteq Kinds
  BY DEF Kinds
<1>1. CASE GoAsking
  <2>1. /\ page' = [Blank EXCEPT !.at = "ask"] /\ calls' = Orphaned
        /\ UNCHANGED <<questions, index, links, reply>>
    BY <1>1 DEF GoAsking
  <2>2. QED
    BY <2>1, Pages, Orphans DEF RoomTypeOK
<1>2. ASSUME NEW q \in Question, GoRoom(q)
      PROVE  RoomTypeOK'
  <2>1. /\ page' = [Blank EXCEPT !.at = "room", !.q = q] /\ calls' = Orphaned \cup {Out("get", q)}
        /\ UNCHANGED <<questions, index, links, reply>>
    BY <1>2 DEF GoRoom, Sends
  <2>2. PageTyped'
    BY <2>1, Pages
  <2>3. calls' \subseteq RoomCall
    BY <1>a, <2>1, OutGoing, Orphans
  <2>4. QED
    BY <2>1, <2>2, <2>3 DEF RoomTypeOK
<1>3. ASSUME NEW mode \in Modes, NEW files \in BOOLEAN, Ask(mode, files)
      PROVE  RoomTypeOK'
  <2>1. PICK q \in Question :
          /\ calls' = calls \cup {CreateCall(q, mode, files)}
    BY <1>3 DEF Ask, Sends, CreateCall
  <2>2. page' = [page EXCEPT !.busy.kind = "send"] /\ page.at = "ask"
        /\ UNCHANGED <<questions, index, links, reply>>
    BY <1>3 DEF Ask
  <2>3. PageTyped'
    BY <2>2, Pages DEF RoomTypeOK
  <2>4. CreateCall(q, mode, files) \in RoomCall
    BY RoomCreated
  <2>5. calls' \subseteq RoomCall
    BY <2>1, <2>4 DEF RoomTypeOK
  <2>6. QED
    BY <2>2, <2>3, <2>5 DEF RoomTypeOK
<1>4. ASSUME NEW kind \in Buttons, NEW p \in Person, NEW without \in BOOLEAN, Press(kind, p, without)
      PROVE  RoomTypeOK'
  <2>1. /\ page.at = "room" /\ page.q \in Question /\ kind \in Kinds /\ PressedTo(kind, p) \in SUBSET Person
        /\ PressedCall(kind, p, without) \in RoomCall
        /\ page' = BusyPage(page, kind, PressedTo(kind, p))
        /\ calls' = calls \cup {PressedCall(kind, p, without)}
        /\ UNCHANGED <<questions, index, links, reply>>
    BY <1>4, Pressing
  <2>2. PageTyped'
    BY <2>1, BusyPages DEF RoomTypeOK
  <2>3. QED
    BY <2>1, <2>2 DEF RoomTypeOK
<1>5. CASE PressDelete
  <2>1. page' = BusyPage(page, "remove", {}) /\ calls' = calls \cup {Out("remove", page.q)}
        /\ UNCHANGED <<questions, index, links, reply>> /\ page.at = "room"
    BY <1>5 DEF PressDelete, Sends, BusyPage
  <2>2. page \in PageRow /\ page.q \in Question /\ "remove" \in Kinds /\ {} \in SUBSET Person
    BY <2>1 DEF RoomTypeOK, Kinds
  <2>3. calls' \subseteq RoomCall
    BY <2>1, <2>2, OutGoing DEF RoomTypeOK
  <2>4. PageTyped'
    BY <2>1, <2>2, BusyPages
  <2>5. QED
    BY <2>1, <2>3, <2>4 DEF RoomTypeOK
<1>6. CASE Poll
  <2>1. calls' = calls \cup {Out("get", page.q)} /\ page.at = "room"
        /\ UNCHANGED <<questions, index, links, reply, page>>
    BY <1>6 DEF Poll, Sends
  <2>2. calls' \subseteq RoomCall
    BY <1>a, <2>1, OutGoing DEF RoomTypeOK
  <2>3. QED
    BY <2>1, <2>2 DEF RoomTypeOK
<1>7. ASSUME NEW x \in calls, Serve(x)
      PROVE  RoomTypeOK'
  <2>1. calls' = (calls \ {x}) \cup {ServedBy(x)}
    BY <1>7, ServedCalls
  <2>2. /\ questions' = IF Accepts(x) THEN [questions EXCEPT ![x.q] = After(x)] ELSE questions
        /\ UNCHANGED <<index, links, reply, page>>
    BY <1>7 DEF Serve
  <2>3. questions' \in [Question -> QuestionRow]
    BY <2>2, ServedView DEF RoomTypeOK
  <2>4. calls' \subseteq RoomCall
    BY <2>1, Answers DEF RoomTypeOK
  <2>5. QED
    BY <2>2, <2>3, <2>4 DEF RoomTypeOK
<1>8. ASSUME NEW x \in calls, Lose(x)
      PROVE  RoomTypeOK'
  <2>1. calls' = (calls \ {x}) \cup {LostAs(x)} /\ UNCHANGED <<questions, index, links, reply, page>>
    BY <1>8 DEF Lose, LostAs
  <2>2. calls' \subseteq RoomCall
    BY <2>1, Answers DEF RoomTypeOK
  <2>3. QED
    BY <2>1, <2>2 DEF RoomTypeOK
<1>9. ASSUME NEW x \in calls, Asked(x)
      PROVE  RoomTypeOK'
  <2> DEFINE ok == x.at = "done" \/ x.kind = "attach"
             ended == ok /\ Onward(x) = {}
  <2>1. x \in RoomCall /\ x.q \in Question /\ x.token \in [Person -> Nat]
    BY DEF RoomTypeOK, RoomCall
  <2>2. calls' \subseteq RoomCall
    <3>1. calls' = (IF ended THEN Orphaned \ {[x EXCEPT !.mine = FALSE]} ELSE calls \ {x})
                     \cup (IF ok THEN Onward(x) ELSE {})
                     \cup (IF ended THEN {Out("get", x.q)} ELSE {})
      BY <1>9 DEF Asked
    <3>2. Onward(x) \subseteq RoomCall /\ Out("get", x.q) \in RoomCall
      BY <1>a, <2>1, OnwardOne, OutGoing
    <3>3. QED
      BY <3>1, <3>2, Orphans DEF RoomTypeOK
  <2>3. index' \subseteq Question
    BY <1>9, <2>1 DEF Asked, RoomTypeOK
  <2>4. links' \in [Question -> LinksRow]
    <3>1. links' = IF ok /\ x.kind = "send" THEN [links EXCEPT ![x.q] = Merged(links[x.q], x.token)] ELSE links
      BY <1>9 DEF Asked
    <3>2. x.token \in LinksRow /\ links[x.q] \in LinksRow
      BY <2>1 DEF LinksRow, RoomTypeOK
    <3>3. Merged(links[x.q], x.token) \in LinksRow
      BY <3>2, MergedLinks
    <3>4. QED
      BY <3>1, <3>3 DEF RoomTypeOK
  <2>5. PageTyped'
    <3>1. page' = IF ended THEN [Blank EXCEPT !.at = "room", !.q = x.q]
                  ELSE IF ~ ok /\ x.mine THEN [page EXCEPT !.busy = NotBusy] ELSE page
      BY <1>9 DEF Asked
    <3>2. [Blank EXCEPT !.at = "room", !.q = x.q] \in PageRow
          /\ [Blank EXCEPT !.at = "room", !.q = x.q].q \in Question
      BY <2>1, Pages
    <3>3. [page EXCEPT !.busy = NotBusy] \in PageRow
          /\ [page EXCEPT !.busy = NotBusy].at = page.at /\ [page EXCEPT !.busy = NotBusy].q = page.q
      BY IdlePage DEF RoomTypeOK
    <3>4. QED
      BY <3>1, <3>2, <3>3 DEF RoomTypeOK
  <2>6. UNCHANGED <<questions, reply>>
    BY <1>9 DEF Asked
  <2>7. QED
    BY <2>2, <2>3, <2>4, <2>5, <2>6 DEF RoomTypeOK
<1>10. ASSUME NEW x \in calls, Acted(x)
      PROVE  RoomTypeOK'
  <2>1. /\ calls' = (calls \ {x}) \cup {[Out("get", x.q) EXCEPT !.mine = x.mine, !.run = TRUE]}
        /\ links' = IF x.kind = "invite" THEN [links EXCEPT ![x.q] = Merged(links[x.q], [p \in x.to |-> x.token[p]])]
                    ELSE links
        /\ page' = IF x.kind = "decide" /\ x.mine THEN [page EXCEPT !.recorded = TRUE] ELSE page
        /\ UNCHANGED <<questions, index, reply>>
    BY <1>10 DEF Acted
  <2>2. x \in RoomCall /\ x.q \in Question /\ x.token \in [Person -> Nat] /\ x.to \in SUBSET Person
    BY DEF RoomTypeOK, RoomCall
  <2>3. calls' \subseteq RoomCall
    BY <2>1, <2>2, Successors DEF RoomTypeOK
  <2>4. links' \in [Question -> LinksRow]
    <3>1. [p \in x.to |-> x.token[p]] \in [x.to -> Nat] /\ links[x.q] \in LinksRow
      BY <2>2 DEF RoomTypeOK
    <3>2. [p \in x.to |-> x.token[p]] \in LinksRow
      BY <2>2, <3>1 DEF LinksRow
    <3>3. Merged(links[x.q], [p \in x.to |-> x.token[p]]) \in LinksRow
      BY <3>1, <3>2, MergedLinks
    <3>4. QED
      BY <2>1, <3>3 DEF RoomTypeOK
  <2>5. PageTyped'
    BY <2>1, RecordedPage DEF RoomTypeOK
  <2>6. QED
    BY <2>1, <2>3, <2>4, <2>5 DEF RoomTypeOK
<1>11. ASSUME NEW x \in calls, Fails(x)
      PROVE  RoomTypeOK'
  <2>1. /\ calls' = calls \ {x} /\ UNCHANGED <<questions, index, links, reply>>
        /\ page' = IF x.mine /\ (x.run \/ x.kind = "remove") THEN [page EXCEPT !.busy = NotBusy] ELSE page
    BY <1>11 DEF Fails
  <2>2. PageTyped'
    BY <2>1, IdlePage DEF RoomTypeOK
  <2>3. QED
    BY <2>1, <2>2 DEF RoomTypeOK
<1>12. ASSUME NEW x \in calls, Shown(x)
      PROVE  RoomTypeOK'
  <2>1. /\ calls' = calls \ {x} /\ UNCHANGED <<questions, index, links, reply>>
        /\ page' = IF ~ x.mine THEN page
                   ELSE ViewPage(page, x.view, x.run)
    BY <1>12 DEF Shown, ViewPage
  <2>2. x.view \in ViewRow /\ x.run \in BOOLEAN
    BY DEF RoomTypeOK, RoomCall
  <2>3. PageTyped'
    BY <2>1, <2>2, ViewPages DEF RoomTypeOK
  <2>4. QED
    BY <2>1, <2>3 DEF RoomTypeOK
<1>13. ASSUME NEW x \in calls, Removed(x)
      PROVE  RoomTypeOK'
  <2>1. /\ calls' = Orphaned \ {[x EXCEPT !.mine = FALSE]} /\ index' = index \ {x.q}
        /\ links' = [links EXCEPT ![x.q] = <<>>] /\ page' = Blank /\ UNCHANGED <<questions, reply>>
    BY <1>13 DEF Removed
  <2>2. PageTyped'
    BY <2>1, Pages
  <2>3. links' \in [Question -> LinksRow]
    BY <2>1, NoLinks DEF RoomTypeOK
  <2>4. QED
    BY <2>1, <2>2, <2>3, Orphans DEF RoomTypeOK
<1>14. CASE SendAnswers
  <2>1. /\ reply # NoReply /\ reply' = NoReply /\ UNCHANGED <<index, links, page, calls>>
        /\ \/ questions' = questions
           \/ questions' = [questions EXCEPT ![reply.q].answered = questions[reply.q].answered \cup {reply.who}]
    BY <1>14 DEF SendAnswers, MaySend
  <2>2. reply.q \in Question /\ reply.who \in Person /\ questions[reply.q] \in QuestionRow
    BY <2>1 DEF RoomTypeOK
  <2>3. questions' \in [Question -> QuestionRow]
    BY <2>1, <2>2, AnsweredRow DEF RoomTypeOK
  <2>4. NoReply \in ReplyRow
    BY DEF NoReply, ReplyRow
  <2>5. QED
    BY <2>1, <2>3, <2>4 DEF RoomTypeOK
<1>15. CASE CloseQuestionnaire
  <2>1. reply' = NoReply /\ UNCHANGED <<questions, index, links, page, calls>>
    BY <1>15 DEF CloseQuestionnaire
  <2>2. NoReply \in ReplyRow
    BY DEF NoReply, ReplyRow
  <2>3. QED
    BY <2>1, <2>2 DEF RoomTypeOK
<1>16. ASSUME NEW p \in Person, NEW q \in Question, OpenQuestionnaire(p, q)
       PROVE  RoomTypeOK'
  <2>1. /\ reply' = [who |-> p, q |-> q, link |-> questions[q].token[p], closed |-> questions[q].status = "closed"]
        /\ UNCHANGED <<questions, index, links, page, calls>>
    BY <1>16 DEF OpenQuestionnaire
  <2>2. reply' \in ReplyRow /\ reply'.who = p /\ reply'.q = q
    BY <2>1 DEF ReplyRow, RoomTypeOK, QuestionRow
  <2>3. QED
    BY <2>1, <2>2 DEF RoomTypeOK
<1>17. CASE UNCHANGED roomVars
  BY <1>17 DEF roomVars, RoomTypeOK
<1>18. QED
  BY <1>1, <1>2, <1>3, <1>4, <1>5, <1>6, <1>7, <1>8, <1>9, <1>10, <1>11, <1>12, <1>13, <1>14,
     <1>15, <1>16, <1>17 DEF RoomNext
-----------------------------------------------------------------------------
(* What each action does, in the terms of the invariant.                   *)

\* Going to ask a question leaves the room.
LEMMA GoAskingDoes ==
  ASSUME RoomTypeOK, GoAsking
  PROVE  /\ page'.at = "ask" /\ calls' = Orphaned /\ disturbed' = disturbed \cup Deciding
         /\ UNCHANGED <<questions, index, links, crossed>>
BY Pages DEF GoAsking, Leaves

\* Going to a room shows nothing yet and asks for the question.
LEMMA GoRoomDoes ==
  ASSUME RoomTypeOK, NEW q \in Question, GoRoom(q)
  PROVE  /\ page'.at = "room" /\ page'.q = q /\ page'.view = NoView /\ ~ page'.recorded
         /\ q \in index
         /\ calls' = Orphaned \cup {Out("get", q)}
         /\ Out("get", q) \in RoomCall /\ Out("get", q).kind = "get" /\ Out("get", q).q = q
         /\ Out("get", q).at = "out"
         /\ disturbed' = disturbed \cup Deciding
         /\ UNCHANGED <<questions, index, links, crossed>>
<1>1. "get" \in Kinds
  BY DEF Kinds
<1>2. /\ Out("get", q) \in RoomCall /\ Out("get", q).kind = "get" /\ Out("get", q).q = q
      /\ Out("get", q).at = "out"
  BY <1>1, OutGoing
<1>3. page'.at = "room" /\ page'.q = q /\ page'.view = NoView /\ ~ page'.recorded
  BY Pages DEF GoRoom
<1>4. QED
  BY <1>2, <1>3 DEF GoRoom, Leaves, Sends

\* Asking sends one request, for a question there is not yet.
LEMMA AskDoes ==
  ASSUME RoomTypeOK, NEW mode \in Modes, NEW files \in BOOLEAN, Ask(mode, files)
  PROVE  /\ page.at = "ask" /\ page'.at = "ask"
         /\ \A x \in calls : x.kind # "create"
         /\ \E c \in RoomCall :
              /\ questions[c.q].status = "none" /\ c.kind = "create" /\ c.at = "out"
              /\ calls' = calls \cup {c}
         /\ UNCHANGED <<questions, index, links, disturbed, crossed>>
<1> DEFINE q == CHOOSE n \in Question : questions[n].status = "none"
           c == CreateCall(q, mode, files)
<1>1. q \in Question /\ questions[q].status = "none"
  BY DEF Ask
<1>2. calls' = calls \cup {c}
  BY Zenon DEF Ask, Sends, CreateCall
<1>3. c \in RoomCall /\ c.kind = "create" /\ c.q = q /\ c.at = "out"
  <2> HIDE DEF q
  <2>1. QED
    BY <1>1, RoomCreated
<1>4. page.at = "ask" /\ page'.at = "ask"
  BY Pages DEF Ask, RoomTypeOK, PageTyped
<1> HIDE DEF q, c
<1>5. QED
  BY <1>1, <1>2, <1>3, <1>4 DEF Ask

\* Deleting sends a request and stays in the room.
LEMMA PressDeleteDoes ==
  ASSUME RoomTypeOK, PressDelete
  PROVE  /\ page.at = "room" /\ page'.at = "room" /\ page'.q = page.q /\ page.q \in Question
         /\ page'.view = page.view /\ page'.recorded = page.recorded
         /\ calls' = calls \cup {Out("remove", page.q)}
         /\ Out("remove", page.q) \in RoomCall /\ Out("remove", page.q).kind = "remove"
         /\ Out("remove", page.q).q = page.q /\ Out("remove", page.q).at = "out"
         /\ disturbed' = disturbed \cup Deciding
         /\ UNCHANGED <<questions, index, links, crossed>>
<1>1. page' = BusyPage(page, "remove", {}) /\ calls' = calls \cup {Out("remove", page.q)}
      /\ UNCHANGED <<questions, index, links, crossed>> /\ page.at = "room"
      /\ disturbed' = disturbed \cup Deciding
  BY DEF PressDelete, Sends, BusyPage
<1>2. page \in PageRow /\ page.q \in Question /\ "remove" \in Kinds /\ {} \in SUBSET Person
  BY <1>1 DEF RoomTypeOK, PageTyped, Kinds
<1>3. /\ Out("remove", page.q) \in RoomCall /\ Out("remove", page.q).kind = "remove"
      /\ Out("remove", page.q).q = page.q /\ Out("remove", page.q).at = "out"
  BY <1>2, OutGoing
<1>4. page'.at = page.at /\ page'.q = page.q /\ page'.view = page.view /\ page'.recorded = page.recorded
  BY <1>1, <1>2, BusyPages
<1>5. QED
  BY <1>1, <1>2, <1>3, <1>4

\* A room asks again now and then.
LEMMA PollDoes ==
  ASSUME RoomTypeOK, Poll
  PROVE  /\ page.at = "room" /\ page.q \in Question
         /\ calls' = calls \cup {Out("get", page.q)}
         /\ Out("get", page.q) \in RoomCall /\ Out("get", page.q).kind = "get"
         /\ Out("get", page.q).q = page.q /\ Out("get", page.q).at = "out"
         /\ UNCHANGED <<questions, index, links, page, disturbed, crossed>>
<1>1. page.at = "room" /\ page.q \in Question /\ "get" \in Kinds
  BY DEF Poll, RoomTypeOK, PageTyped, Kinds
<1>2. /\ Out("get", page.q) \in RoomCall /\ Out("get", page.q).kind = "get"
      /\ Out("get", page.q).q = page.q /\ Out("get", page.q).at = "out"
  BY <1>1, OutGoing
<1>3. QED
  BY <1>1, <1>2 DEF Poll, Sends

\* A button is pressed where it is offered, and what the room shows stays.
LEMMA PressDoes ==
  ASSUME RoomTypeOK, NEW kind \in Buttons, NEW p \in Person, NEW without \in BOOLEAN, Press(kind, p, without)
  PROVE  /\ page'.at = "room" /\ page'.q = page.q
         /\ page'.view = page.view /\ page'.recorded = page.recorded
         /\ page.view # NoView /\ Offered(kind, p)
         /\ disturbed' = disturbed \cup Deciding
         /\ crossed' = crossed \cup IF kind = "invite" /\ Inviting(page.q) # {} THEN {page.q} ELSE {}
<1>1. /\ page.at = "room" /\ page \in PageRow /\ kind \in Kinds /\ PressedTo(kind, p) \in SUBSET Person
      /\ page' = BusyPage(page, kind, PressedTo(kind, p))
  BY Pressing DEF RoomTypeOK, PageTyped
<1>2. page'.at = page.at /\ page'.q = page.q /\ page'.view = page.view /\ page'.recorded = page.recorded
  BY <1>1, BusyPages
<1>3. /\ page.view # NoView /\ Offered(kind, p) /\ disturbed' = disturbed \cup Deciding
      /\ crossed' = crossed \cup IF kind = "invite" /\ Inviting(page.q) # {} THEN {page.q} ELSE {}
  BY DEF Press
<1>4. QED
  BY <1>1, <1>2, <1>3

\* A button that was served has the room read again.
LEMMA ActedDoes ==
  ASSUME RoomTypeOK, NEW x \in calls, Acted(x)
  PROVE  LET get == [Out("get", x.q) EXCEPT !.mine = x.mine, !.run = TRUE] IN
         /\ x \in RoomCall /\ x.kind \in Buttons /\ x.at = "done"
         /\ calls' = (calls \ {x}) \cup {get}
         /\ get \in RoomCall /\ get.kind = "get" /\ get.q = x.q /\ get.at = "out"
         /\ get.to = {} /\ get.mine = x.mine
         /\ page'.at = page.at /\ page'.q = page.q /\ page'.view = page.view
         /\ page'.recorded = (page.recorded \/ (x.kind = "decide" /\ x.mine))
         /\ UNCHANGED <<questions, index, disturbed, crossed>>
<1>1. x \in RoomCall
  BY DEF RoomTypeOK
<1>2. page' = IF x.kind = "decide" /\ x.mine THEN [page EXCEPT !.recorded = TRUE] ELSE page
  BY DEF Acted
<1>3. page \in PageRow /\ page.recorded \in BOOLEAN
  BY DEF RoomTypeOK, PageTyped, PageRow
<1>4. /\ page'.at = page.at /\ page'.q = page.q /\ page'.view = page.view
      /\ page'.recorded = (page.recorded \/ (x.kind = "decide" /\ x.mine))
  <2>1. CASE x.kind = "decide" /\ x.mine
    <3>1. page' = [page EXCEPT !.recorded = TRUE]
      BY <1>2, <2>1
    <3>2. QED
      BY <1>3, <2>1, <3>1, RecordedPage
  <2>2. CASE ~ (x.kind = "decide" /\ x.mine)
    BY <1>2, <1>3, <2>2
  <2>3. QED
    BY <2>1, <2>2
<1>5. x.kind \in Buttons /\ x.at = "done" /\ UNCHANGED <<questions, index, disturbed, crossed>>
      /\ calls' = (calls \ {x}) \cup {[Out("get", x.q) EXCEPT !.mine = x.mine, !.run = TRUE]}
  BY DEF Acted, Acts
<1>6. QED
  BY <1>1, <1>4, <1>5, Successors

\* What failed is dropped, and the room shows what it did.
LEMMA FailsDoes ==
  ASSUME RoomTypeOK, NEW x \in calls, Fails(x)
  PROVE  /\ x.at = "refused" /\ x.kind \notin {"create", "attach", "send"}
         /\ calls' = calls \ {x}
         /\ page'.at = page.at /\ page'.q = page.q /\ page'.view = page.view /\ page'.recorded = page.recorded
         /\ UNCHANGED <<questions, index, links, disturbed, crossed>>
<1>1. page' = IF x.mine /\ (x.run \/ x.kind = "remove") THEN [page EXCEPT !.busy = NotBusy] ELSE page
  BY DEF Fails
<1>2. page'.at = page.at /\ page'.q = page.q /\ page'.view = page.view /\ page'.recorded = page.recorded
  BY <1>1, IdlePage DEF RoomTypeOK, PageTyped
<1>3. QED
  BY <1>2 DEF Fails, Acts, Buttons

\* A question read is shown by the page that asked for it, if it is still there.
LEMMA ShownDoes ==
  ASSUME RoomTypeOK, NEW x \in calls, Shown(x)
  PROVE  /\ x.kind = "get" /\ x.at = "done" /\ calls' = calls \ {x}
         /\ page'.at = page.at /\ page'.q = page.q /\ page'.recorded = page.recorded
         /\ page'.view = IF x.mine THEN x.view ELSE page.view
         /\ UNCHANGED <<questions, index, links, disturbed, crossed>>
<1>1. page' = IF ~ x.mine THEN page ELSE ViewPage(page, x.view, x.run)
  BY DEF Shown, ViewPage
<1>2. x.view \in ViewRow /\ x.run \in BOOLEAN /\ page \in PageRow
  BY DEF RoomTypeOK, RoomCall, PageTyped
<1>3. /\ page'.at = page.at /\ page'.q = page.q /\ page'.recorded = page.recorded
      /\ page'.view = IF x.mine THEN x.view ELSE page.view
  BY <1>1, <1>2, ViewPages
<1>4. QED
  BY <1>3 DEF Shown

\* A question removed is neither listed nor linked any more.
LEMMA RemovedDoes ==
  ASSUME RoomTypeOK, NEW x \in calls, Removed(x)
  PROVE  /\ x.kind = "remove" /\ x.at = "done" /\ x \in RoomCall
         /\ calls' = Orphaned \ {Orphan(x)} /\ index' = index \ {x.q} /\ page'.at = "list"
         /\ links' = [links EXCEPT ![x.q] = <<>>]
         /\ disturbed' = disturbed \cup Deciding
         /\ UNCHANGED <<questions, crossed>>
BY Pages DEF Removed, Leaves, Orphan, RoomTypeOK

\* An answer, or a request, lost is a refusal to the browser.
LEMMA RoomLoses ==
  ASSUME RoomTypeOK, NEW x \in calls, Lose(x)
  PROVE  /\ x.at \in {"out", "done"} /\ x \in RoomCall
         /\ calls' = (calls \ {x}) \cup {LostAs(x)}
         /\ disturbed' = disturbed \cup IF x.kind = "decide" THEN {x.q} ELSE {}
         /\ crossed' = crossed \cup IF x.kind \in {"invite", "send"} THEN {x.q} ELSE {}
         /\ UNCHANGED <<questions, index, links, page>>
BY DEF Lose, LostAs, RoomTypeOK

\* Sending that has ended shows the question's room; before, it goes on with
\* another request, or is given up.
Ok(x) == x.at = "done" \/ x.kind = "attach"

\* A question asked goes on to its files, its invitations and its room, or
\* fails.
LEMMA AskedDoes ==
  ASSUME RoomTypeOK, NEW x \in calls, Asked(x)
  PROVE  /\ x.kind \in {"create", "attach", "send"} /\ x.at # "out" /\ x \in RoomCall
         /\ \/ /\ Ok(x) /\ Onward(x) = {}
               /\ calls' = (Orphaned \ {Orphan(x)}) \cup {Out("get", x.q)}
               /\ Out("get", x.q) \in RoomCall /\ Out("get", x.q).kind = "get" /\ Out("get", x.q).q = x.q
               /\ Out("get", x.q).at = "out" /\ Out("get", x.q).mine
               /\ page'.at = "room" /\ page'.q = x.q /\ page'.view = NoView /\ ~ page'.recorded
               /\ disturbed' = disturbed \cup Deciding
            \/ /\ Ok(x)
               /\ \E y \in Onward(x) :
                    /\ calls' = (calls \ {x}) \cup {y}
                    /\ y \in RoomCall /\ y.q = x.q /\ y.at = "out" /\ y.mine = x.mine
                    /\ \/ y.kind = "attach" /\ x.kind = "create"
                       \/ y.kind = "send" /\ x.kind \in {"create", "attach"} /\ y.to = Person
               /\ page' = page /\ disturbed' = disturbed
            \/ /\ ~ Ok(x) /\ calls' = calls \ {x}
               /\ page'.at = page.at /\ page'.q = page.q
               /\ page'.view = page.view /\ page'.recorded = page.recorded
               /\ disturbed' = disturbed
         /\ index' = IF Ok(x) /\ x.kind = "create" THEN index \cup {x.q} ELSE index
         /\ links' = IF Ok(x) /\ x.kind = "send" THEN [links EXCEPT ![x.q] = Merged(links[x.q], x.token)] ELSE links
         /\ crossed' = crossed \cup IF Inviting(x.q) \ {x} # {} THEN {x.q} ELSE {}
         /\ questions' = questions
<1>1. x \in RoomCall /\ x.q \in Question
  BY DEF RoomTypeOK, RoomCall
<1>2. /\ x.kind \in {"create", "attach", "send"} /\ x.at # "out"
      /\ index' = IF Ok(x) /\ x.kind = "create" THEN index \cup {x.q} ELSE index
      /\ links' = IF Ok(x) /\ x.kind = "send" THEN [links EXCEPT ![x.q] = Merged(links[x.q], x.token)] ELSE links
      /\ crossed' = crossed \cup IF Inviting(x.q) \ {x} # {} THEN {x.q} ELSE {}
      /\ questions' = questions
  BY DEF Asked, Ok, Remembers
<1>3. /\ calls' = (IF Ok(x) /\ Onward(x) = {} THEN Orphaned \ {Orphan(x)} ELSE calls \ {x})
                     \cup (IF Ok(x) THEN Onward(x) ELSE {})
                     \cup (IF Ok(x) /\ Onward(x) = {} THEN {Out("get", x.q)} ELSE {})
      /\ page' = IF Ok(x) /\ Onward(x) = {} THEN [Blank EXCEPT !.at = "room", !.q = x.q]
                 ELSE IF ~ Ok(x) /\ x.mine THEN [page EXCEPT !.busy = NotBusy] ELSE page
      /\ disturbed' = IF Ok(x) /\ Onward(x) = {} THEN disturbed \cup Deciding ELSE disturbed
  BY DEF Asked, Ok, Orphan
<1>4. CASE Ok(x) /\ Onward(x) = {}
  <2>1. "get" \in Kinds
    BY DEF Kinds
  <2>2. /\ Out("get", x.q) \in RoomCall /\ Out("get", x.q).kind = "get" /\ Out("get", x.q).q = x.q
        /\ Out("get", x.q).at = "out" /\ Out("get", x.q).mine
    BY <1>1, <2>1, OutGoing
  <2>3. calls' = (Orphaned \ {Orphan(x)}) \cup {Out("get", x.q)} /\ disturbed' = disturbed \cup Deciding
    BY <1>3, <1>4
  <2>4. page'.at = "room" /\ page'.q = x.q /\ page'.view = NoView /\ ~ page'.recorded
    BY <1>1, <1>3, <1>4, Pages
  <2>5. QED
    BY <1>1, <1>2, <1>4, <2>2, <2>3, <2>4
<1>5. CASE Ok(x) /\ Onward(x) # {}
  <2>1. PICK y \in Onward(x) : Onward(x) = {y}
    BY <1>1, <1>5, OnwardOne
  <2>2. /\ y \in RoomCall /\ y.q = x.q /\ y.at = "out" /\ y.mine = x.mine
        /\ \/ y.kind = "attach" /\ x.kind = "create"
           \/ y.kind = "send" /\ x.kind \in {"create", "attach"} /\ y.to = Person
    BY <1>1, OnwardOne
  <2>3. calls' = (calls \ {x}) \cup {y} /\ page' = page /\ disturbed' = disturbed
    BY <1>3, <1>5, <2>1
  <2>4. QED
    BY <1>1, <1>2, <1>5, <2>2, <2>3
<1>6. CASE ~ Ok(x)
  <2>1. page'.at = page.at /\ page'.q = page.q /\ page'.view = page.view /\ page'.recorded = page.recorded
    BY <1>3, <1>6, IdlePage DEF RoomTypeOK, PageTyped
  <2>2. QED
    BY <1>1, <1>2, <1>3, <1>6, <2>1
<1>7. QED
  BY <1>4, <1>5, <1>6
\* What serving a request makes of its question.
LEMMA AfterFields ==
  ASSUME RoomTypeOK, NEW x \in calls
  PROVE  /\ After(x).status = IF x.kind = "create" THEN "open"
                              ELSE IF x.kind \in {"decide", "close"} THEN "closed"
                              ELSE IF x.kind = "remove" THEN "gone" ELSE questions[x.q].status
         /\ After(x).decisions = IF x.kind = "decide" THEN questions[x.q].decisions + 1
                                 ELSE IF x.kind = "remove" THEN 0 ELSE questions[x.q].decisions
         /\ x.kind \in {"invite", "send"} => After(x).token = Reissued(questions[x.q].token, x.to)
         /\ x.kind \notin {"invite", "send", "remove"} => After(x).token = questions[x.q].token
         /\ x.kind = "remove" => After(x).token = NoQuestion.token
<1>1. questions[x.q] \in QuestionRow
  BY DEF RoomTypeOK, RoomCall
<1>2. CASE x.kind = "create"
  BY <1>1, <1>2 DEF After, QuestionRow
<1>3. CASE x.kind \in {"invite", "send"}
  BY <1>1, <1>3 DEF After, QuestionRow
<1>4. CASE x.kind = "shadow"
  BY <1>1, <1>4 DEF After, QuestionRow
<1>5. CASE x.kind = "decide"
  <2>1. After(x) = [questions[x.q] EXCEPT !.decisions = questions[x.q].decisions + 1, !.status = "closed"]
    BY <1>5 DEF After
  <2>2. ASSUME NEW n \in Nat
        PROVE  LET c == [questions[x.q] EXCEPT !.decisions = n, !.status = "closed"] IN
               c.status = "closed" /\ c.decisions = n /\ c.token = questions[x.q].token
    BY <1>1 DEF QuestionRow
  <2>3. questions[x.q].decisions + 1 \in Nat
    BY <1>1 DEF QuestionRow
  <2>4. QED
    BY <1>5, <2>1, <2>2, <2>3
<1>6. CASE x.kind = "close"
  BY <1>1, <1>6 DEF After, QuestionRow
<1>7. CASE x.kind = "remove"
  BY <1>1, <1>7 DEF After, NoQuestion
<1>8. CASE x.kind \notin {"create", "invite", "send", "shadow", "decide", "close", "remove"}
  BY <1>1, <1>8 DEF After
<1>9. QED
  BY <1>2, <1>3, <1>4, <1>5, <1>6, <1>7, <1>8

\* The server does something about a question only while it lives, and invites
\* only while it is open.
LEMMA AcceptsWhen ==
  ASSUME RoomTypeOK, NEW x \in calls, Accepts(x)
  PROVE  /\ x.kind = "create" \/ questions[x.q].status \in {"open", "closed"}
         /\ x.kind \in {"invite", "send"} => questions[x.q].status = "open"
<1>1. x.kind \in Kinds
  BY DEF RoomTypeOK, RoomCall
<1>2. CASE x.kind = "create"
  BY <1>2
<1>3. CASE x.kind \in {"invite", "send"}
  BY <1>3 DEF Accepts
<1>4. CASE x.kind = "shadow"
  BY <1>4 DEF Accepts, Lives
<1>5. CASE x.kind = "people"
  BY <1>5 DEF Accepts, Lives
<1>6. CASE x.kind \in {"challenge", "mixed"}
  BY <1>6 DEF Accepts, Lives
<1>7. CASE x.kind = "decide"
  BY <1>7 DEF Accepts, Lives
<1>8. CASE x.kind \notin {"create", "invite", "send", "shadow", "people", "challenge", "mixed", "decide"}
  BY <1>8 DEF Accepts, Lives
<1>9. QED
  BY <1>2, <1>3, <1>4, <1>5, <1>6, <1>7, <1>8

\* The server changes the question a request is about, or nothing.
LEMMA RoomServes ==
  ASSUME RoomTypeOK, NEW x \in calls, Serve(x)
  PROVE  /\ x \in RoomCall /\ x.at = "out" /\ x.q \in Question
         /\ calls' = (calls \ {x}) \cup {ServedBy(x)}
         /\ ServedBy(x).at = IF Accepts(x) THEN "done" ELSE "refused"
         /\ ServedBy(x).kind = x.kind /\ ServedBy(x).q = x.q /\ ServedBy(x).to = x.to
         /\ ServedBy(x).mine = x.mine
         /\ Accepts(x) => questions'[x.q] = After(x)
         /\ ~ Accepts(x) => questions'[x.q] = questions[x.q]
         /\ \A q \in Question \ {x.q} : questions'[q] = questions[q]
         /\ UNCHANGED <<index, links, page, disturbed, crossed>>
<1>1. x \in RoomCall /\ x.q \in Question /\ questions \in [Question -> QuestionRow]
  BY DEF RoomTypeOK, RoomCall
<1>2. x.at = "out" /\ UNCHANGED <<index, links, page, disturbed, crossed>>
      /\ questions' = IF Accepts(x) THEN [questions EXCEPT ![x.q] = After(x)] ELSE questions
  BY DEF Serve
<1>3. calls' = (calls \ {x}) \cup {ServedBy(x)}
  BY ServedCalls
<1>4. /\ Accepts(x) => questions'[x.q] = After(x)
      /\ ~ Accepts(x) => questions'[x.q] = questions[x.q]
      /\ \A q \in Question \ {x.q} : questions'[q] = questions[q]
  BY <1>1, <1>2
<1>5. QED
  BY <1>1, <1>2, <1>3, <1>4, Answers

\* A questionnaire sent in changes who has answered an open question, and no
\* more.
LEMMA SendAnswersDoes ==
  ASSUME RoomTypeOK, SendAnswers
  PROVE  /\ \A q \in Question : /\ questions'[q].status = questions[q].status
                                /\ questions'[q].token = questions[q].token
                                /\ questions'[q].decisions = questions[q].decisions
                                /\ questions[q].status # "open" => questions'[q] = questions[q]
         /\ UNCHANGED <<index, links, page, calls, disturbed, crossed>>
<1>1. /\ reply # NoReply /\ UNCHANGED <<index, links, page, calls, disturbed, crossed>>
      /\ \/ questions' = questions
         \/ /\ questions[reply.q].status = "open"
            /\ questions' = [questions EXCEPT ![reply.q].answered = questions[reply.q].answered \cup {reply.who}]
  BY DEF SendAnswers, MaySend
<1>2. reply.q \in Question /\ reply.who \in Person
  BY <1>1 DEF RoomTypeOK
<1>3. CASE questions' = questions
  BY <1>1, <1>3
<1>4. CASE /\ questions[reply.q].status = "open"
           /\ questions' = [questions EXCEPT ![reply.q].answered = questions[reply.q].answered \cup {reply.who}]
  <2>1. /\ questions'[reply.q].status = questions[reply.q].status
        /\ questions'[reply.q].token = questions[reply.q].token
        /\ questions'[reply.q].decisions = questions[reply.q].decisions
        /\ \A q \in Question \ {reply.q} : questions'[q] = questions[q]
    BY <1>2, <1>4, AnsweredRow
  <2>2. QED
    BY <1>1, <1>4, <2>1
<1>5. QED
  BY <1>1, <1>3, <1>4

-----------------------------------------------------------------------------
(* The list of questions.                                                  *)

\* Every step keeps what is known of creating questions.
LEMMA CreationStep ==
  ASSUME RoomTypeOK, Creation, [RoomNext]_roomVars
  PROVE  Creation'
<1> USE DEF Creation
<1>q. /\ \A x \in calls : x \in RoomCall /\ x.q \in Question
      /\ NoQuestion.status = "none"
  BY DEF RoomTypeOK, RoomCall, NoQuestion
<1>1. CASE GoAsking
  <2>1. /\ page'.at = "ask" /\ calls' = Orphaned /\ UNCHANGED <<questions, index, links>>
        /\ \A x \in Orphaned : \E y \in calls : x = Orphan(y) /\ Like(x, y)
    BY <1>1, GoAskingDoes, Orphans
  <2>2. QED
    BY <2>1 DEF OneCreation, Followed, Known, Like
<1>2. ASSUME NEW q \in Question, GoRoom(q)
      PROVE  Creation'
  <2>1. /\ page'.at = "room" /\ page'.q = q /\ q \in index
        /\ calls' = Orphaned \cup {Out("get", q)}
        /\ Out("get", q) \in RoomCall /\ Out("get", q).kind = "get" /\ Out("get", q).q = q
        /\ Out("get", q).at = "out"
        /\ UNCHANGED <<questions, index, links>>
        /\ \A x \in Orphaned : \E y \in calls : x = Orphan(y) /\ Like(x, y)
    BY <1>2, GoRoomDoes, Orphans
  <2>2. OneCreation'
    BY <2>1 DEF OneCreation, Like
  <2>3. Followed'
    BY <2>1 DEF Followed, Known, Like
  <2>4. QED
    BY <2>1, <2>2, <2>3 DEF Known
<1>3. ASSUME NEW mode \in Modes, NEW files \in BOOLEAN, Ask(mode, files)
      PROVE  Creation'
  <2>1. PICK c \in RoomCall : /\ questions[c.q].status = "none" /\ c.kind = "create" /\ c.at = "out"
                              /\ calls' = calls \cup {c}
    BY <1>3, AskDoes
  <2>2. /\ \A x \in calls : x.kind # "create"
        /\ page'.at = "ask" /\ UNCHANGED <<questions, index, links>> /\ c.q \in Question
    BY <1>3, AskDoes DEF RoomCall
  <2>3. OneCreation' /\ Followed'
    BY <2>1, <2>2 DEF OneCreation, Followed, Known
  <2>4. QED
    BY <2>2, <2>3 DEF Known
<1>4. ASSUME NEW kind \in Buttons, NEW p \in Person, NEW without \in BOOLEAN, Press(kind, p, without)
      PROVE  Creation'
  <2>1. /\ page.at = "room" /\ page.q \in Question
        /\ PressedCall(kind, p, without).kind = kind
        /\ PressedCall(kind, p, without).q = page.q
        /\ PressedCall(kind, p, without).at = "out"
        /\ calls' = calls \cup {PressedCall(kind, p, without)}
        /\ UNCHANGED <<questions, index, links>>
        /\ page'.at = "room" /\ page'.q = page.q
    BY <1>4, Pressing, PressDoes
  <2>2. kind # "create" /\ kind # "remove"
    BY DEF Buttons
  <2>3. QED
    BY <2>1, <2>2 DEF OneCreation, Followed, Known
<1>5. CASE PressDelete
  <2>1. /\ page.at = "room" /\ page'.at = "room" /\ page'.q = page.q
        /\ calls' = calls \cup {Out("remove", page.q)}
        /\ Out("remove", page.q).kind = "remove"
        /\ Out("remove", page.q).q = page.q /\ Out("remove", page.q).at = "out"
        /\ UNCHANGED <<questions, index, links>>
    BY <1>5, PressDeleteDoes
  <2>2. QED
    BY <2>1 DEF OneCreation, Followed, Known
<1>6. CASE Poll
  <2>1. /\ page.at = "room" /\ calls' = calls \cup {Out("get", page.q)}
        /\ Out("get", page.q).kind = "get" /\ Out("get", page.q).q = page.q
        /\ UNCHANGED <<questions, index, links, page>>
    BY <1>6, PollDoes
  <2>2. QED
    BY <2>1 DEF OneCreation, Followed, Known
<1>7. ASSUME NEW x \in calls, Serve(x)
      PROVE  Creation'
  <2> DEFINE s == ServedBy(x)
  <2>1. /\ x.at = "out" /\ x.q \in Question /\ calls' = (calls \ {x}) \cup {s}
        /\ s.at = IF Accepts(x) THEN "done" ELSE "refused"
        /\ s.kind = x.kind /\ s.q = x.q
        /\ Accepts(x) => questions'[x.q] = After(x)
        /\ ~ Accepts(x) => questions'[x.q] = questions[x.q]
        /\ \A q \in Question \ {x.q} : questions'[q] = questions[q]
        /\ UNCHANGED <<index, links, page>>
    BY <1>7, RoomServes
  <2>2. /\ After(x).status = IF x.kind = "create" THEN "open"
                             ELSE IF x.kind \in {"decide", "close"} THEN "closed"
                             ELSE IF x.kind = "remove" THEN "gone" ELSE questions[x.q].status
        /\ Accepts(x) => x.kind = "create" \/ questions[x.q].status \in {"open", "closed"}
        /\ x.kind = "create" => Accepts(x)
    BY AfterFields, AcceptsWhen DEF Accepts
  <2> HIDE DEF s
  <2>3. OneCreation'
    BY <2>1 DEF OneCreation
  <2>4. /\ questions[x.q].status # "none" => questions'[x.q].status # "none"
        /\ Accepts(x) => questions'[x.q].status # "none"
        /\ questions[x.q].status = "gone" => questions'[x.q].status = "gone"
    BY <1>q, <2>1, <2>2 DEF Followed
  <2>5. Followed'
    <3>1. ASSUME NEW y \in calls, y # x
          PROVE  /\ y.kind = "create" /\ y.at = "out" => questions'[y.q] = NoQuestion
                 /\ y.kind # "create" \/ y.at = "done" => questions'[y.q].status # "none"
                 /\ y.kind = "remove" /\ y.at = "done" => questions'[y.q].status = "gone"
      BY <1>q, <2>1, <2>4, <3>1 DEF OneCreation, Followed
    <3>2. /\ s.kind = "create" /\ s.at = "out" => questions'[s.q] = NoQuestion
          /\ s.kind # "create" \/ s.at = "done" => questions'[s.q].status # "none"
          /\ s.kind = "remove" /\ s.at = "done" => questions'[s.q].status = "gone"
      BY <1>q, <2>1, <2>2, <2>4 DEF Followed
    <3>3. QED
      BY <2>1, <3>1, <3>2 DEF Followed
  <2>6. Known'
    BY <2>1, <2>4 DEF Known, RoomTypeOK, PageTyped
  <2>7. QED
    BY <2>3, <2>5, <2>6
<1>8. ASSUME NEW x \in calls, Lose(x)
      PROVE  Creation'
  <2>1. /\ calls' = (calls \ {x}) \cup {LostAs(x)} /\ LostAs(x).at = "refused"
        /\ LostAs(x).kind = x.kind /\ LostAs(x).q = x.q
        /\ UNCHANGED <<questions, index, links, page>>
    BY <1>8, RoomLoses, Answers
  <2>2. QED
    BY <2>1 DEF OneCreation, Followed, Known
<1>9. ASSUME NEW x \in calls, Asked(x)
      PROVE  Creation'
  <2>1. /\ x.kind \in {"create", "attach", "send"} /\ x.at # "out" /\ questions' = questions
        /\ x.q \in Question /\ x.token \in [Person -> Nat]
        /\ index' = IF Ok(x) /\ x.kind = "create" THEN index \cup {x.q} ELSE index
        /\ links' = IF Ok(x) /\ x.kind = "send" THEN [links EXCEPT ![x.q] = Merged(links[x.q], x.token)] ELSE links
    BY <1>9, AskedDoes DEF RoomTypeOK, RoomCall
  <2>2. Ok(x) => questions[x.q].status # "none"
    BY DEF Followed, Ok
  <2>3. /\ \A q \in index' : questions'[q].status # "none"
        /\ \A q \in Question : questions'[q].status = "none" => questions'[q] = NoQuestion /\ DOMAIN links'[q] = {}
    BY <2>1, <2>2 DEF Known, RoomTypeOK
  <2>4. CASE Ok(x) /\ Onward(x) = {}
    <3>1. /\ calls' = (Orphaned \ {Orphan(x)}) \cup {Out("get", x.q)}
          /\ Out("get", x.q).kind = "get" /\ Out("get", x.q).q = x.q
          /\ page'.at = "room" /\ page'.q = x.q
          /\ \A z \in Orphaned : \E y \in calls : z = Orphan(y) /\ Like(z, y)
      BY <1>9, <2>4, AskedDoes, Orphans
    <3>2. OneCreation'
      BY <3>1 DEF OneCreation, Like
    <3>3. Followed'
      BY <2>1, <2>2, <2>4, <3>1 DEF Followed, Like
    <3>4. QED
      BY <2>1, <2>2, <2>3, <2>4, <3>1, <3>2, <3>3 DEF Known
  <2>5. CASE Ok(x) /\ Onward(x) # {}
    <3>1. PICK y : /\ calls' = (calls \ {x}) \cup {y} /\ y.q = x.q /\ y.kind \in {"attach", "send"} /\ page' = page
      BY <1>9, <2>5, AskedDoes
    <3>2. OneCreation' /\ Followed'
      BY <2>1, <2>2, <2>5, <3>1 DEF OneCreation, Followed
    <3>3. QED
      BY <2>1, <2>3, <3>1, <3>2 DEF Known
  <2>6. CASE ~ Ok(x)
    <3>1. calls' = calls \ {x} /\ page'.at = page.at /\ page'.q = page.q
      BY <1>9, <2>6, AskedDoes
    <3>2. QED
      BY <2>1, <2>3, <3>1 DEF OneCreation, Followed, Known
  <2>7. QED
    BY <2>4, <2>5, <2>6
<1>10. ASSUME NEW x \in calls, Acted(x)
       PROVE  Creation'
  <2> DEFINE get == [Out("get", x.q) EXCEPT !.mine = x.mine, !.run = TRUE]
  <2>1. /\ x.kind \in Buttons /\ x.at = "done" /\ calls' = (calls \ {x}) \cup {get}
        /\ get.kind = "get" /\ get.q = x.q /\ page'.at = page.at /\ page'.q = page.q
        /\ UNCHANGED <<questions, index>>
    BY <1>10, ActedDoes
  <2>2. links' = IF x.kind = "invite" THEN [links EXCEPT ![x.q] = Merged(links[x.q], [p \in x.to |-> x.token[p]])] ELSE links
    BY <1>10 DEF Acted
  <2> HIDE DEF get
  <2>3. questions[x.q].status # "none"
    BY <2>1 DEF Followed
  <2>4. OneCreation' /\ Followed'
    BY <2>1, <2>3 DEF OneCreation, Followed
  <2>5. QED
    BY <1>q, <2>1, <2>2, <2>3, <2>4 DEF Known, RoomTypeOK
<1>11. ASSUME NEW x \in calls, Fails(x)
       PROVE  Creation'
  <2>1. calls' = calls \ {x} /\ page'.at = page.at /\ page'.q = page.q /\ UNCHANGED <<questions, index, links>>
    BY <1>11, FailsDoes
  <2>2. QED
    BY <2>1 DEF OneCreation, Followed, Known
<1>12. ASSUME NEW x \in calls, Shown(x)
       PROVE  Creation'
  <2>1. calls' = calls \ {x} /\ page'.at = page.at /\ page'.q = page.q /\ UNCHANGED <<questions, index, links>>
    BY <1>12, ShownDoes
  <2>2. QED
    BY <2>1 DEF OneCreation, Followed, Known
<1>13. ASSUME NEW x \in calls, Removed(x)
       PROVE  Creation'
  <2>1. /\ x.q \in Question /\ x.kind = "remove" /\ x.at = "done"
        /\ calls' = Orphaned \ {Orphan(x)} /\ index' = index \ {x.q} /\ page'.at = "list"
        /\ links' = [links EXCEPT ![x.q] = <<>>] /\ questions' = questions
        /\ \A z \in Orphaned : \E y \in calls : z = Orphan(y) /\ Like(z, y)
    BY <1>13, <1>q, RemovedDoes, Orphans
  <2>2. OneCreation' /\ Followed'
    BY <2>1 DEF OneCreation, Followed, Like
  <2>3. QED
    BY <2>1, <2>2 DEF Known, RoomTypeOK
<1>14. CASE SendAnswers
  <2>1. /\ \A q \in Question : /\ questions'[q].status = questions[q].status
                               /\ questions[q].status # "open" => questions'[q] = questions[q]
        /\ UNCHANGED <<index, links, page, calls>>
    BY <1>14, SendAnswersDoes
  <2>2. OneCreation' /\ Followed'
    BY <1>q, <2>1 DEF OneCreation, Followed
  <2>3. QED
    BY <2>1, <2>2 DEF Known, RoomTypeOK, PageTyped
<1>15. CASE CloseQuestionnaire
  BY <1>15 DEF CloseQuestionnaire, OneCreation, Followed, Known
<1>16. ASSUME NEW p \in Person, NEW q \in Question, OpenQuestionnaire(p, q)
       PROVE  Creation'
  BY <1>16 DEF OpenQuestionnaire, OneCreation, Followed, Known
<1>17. CASE UNCHANGED roomVars
  BY <1>17 DEF roomVars, OneCreation, Followed, Known
<1>18. QED
  BY <1>1, <1>2, <1>3, <1>4, <1>5, <1>6, <1>7, <1>8, <1>9, <1>10, <1>11, <1>12, <1>13, <1>14,
     <1>15, <1>16, <1>17 DEF RoomNext

\* Every step keeps the list of questions.
LEMMA ListedStep ==
  ASSUME RoomTypeOK, Creation, InList, [RoomNext]_roomVars
  PROVE  InList'
<1>q. \A x \in calls : x \in RoomCall /\ x.q \in Question
  BY DEF RoomTypeOK, RoomCall
<1>1. CASE GoAsking
  <2>1. /\ page'.at = "ask" /\ calls' = Orphaned /\ UNCHANGED <<questions, index, links>>
        /\ \A x \in Orphaned : \E y \in calls : x = Orphan(y) /\ Like(x, y)
    BY <1>1, GoAskingDoes, Orphans
  <2>2. QED
    BY <2>1 DEF InList, AskedIsListed, Lives, Like
<1>2. ASSUME NEW q \in Question, GoRoom(q)
      PROVE  InList'
  <2>1. /\ page'.at = "room" /\ page'.q = q /\ q \in index
        /\ calls' = Orphaned \cup {Out("get", q)}
        /\ Out("get", q).kind = "get" /\ Out("get", q).q = q
        /\ UNCHANGED <<questions, index, links>>
        /\ \A x \in Orphaned : \E y \in calls : x = Orphan(y) /\ Like(x, y)
    BY <1>2, GoRoomDoes, Orphans
  <2>2. QED
    BY <2>1 DEF InList, AskedIsListed, Lives, Like
<1>3. ASSUME NEW mode \in Modes, NEW files \in BOOLEAN, Ask(mode, files)
      PROVE  InList'
  <2>1. PICK c \in RoomCall : /\ questions[c.q].status = "none" /\ c.kind = "create" /\ c.at = "out"
                              /\ calls' = calls \cup {c}
    BY <1>3, AskDoes
  <2>2. page'.at = "ask" /\ UNCHANGED <<questions, index, links>>
    BY <1>3, AskDoes
  <2>3. QED
    BY <2>1, <2>2 DEF InList, AskedIsListed, Lives
<1>4. ASSUME NEW kind \in Buttons, NEW p \in Person, NEW without \in BOOLEAN, Press(kind, p, without)
      PROVE  InList'
  <2>1. /\ page.at = "room" /\ PressedCall(kind, p, without).q = page.q
        /\ calls' = calls \cup {PressedCall(kind, p, without)}
        /\ UNCHANGED <<questions, index>>
        /\ page'.at = "room" /\ page'.q = page.q
    BY <1>4, Pressing, PressDoes
  <2>2. QED
    BY <2>1 DEF InList, AskedIsListed, Lives
<1>5. CASE PressDelete
  <2>1. /\ page.at = "room" /\ page'.at = "room" /\ page'.q = page.q
        /\ calls' = calls \cup {Out("remove", page.q)} /\ Out("remove", page.q).q = page.q
        /\ UNCHANGED <<questions, index>>
    BY <1>5, PressDeleteDoes
  <2>2. QED
    BY <2>1 DEF InList, AskedIsListed, Lives
<1>6. CASE Poll
  <2>1. /\ page.at = "room" /\ calls' = calls \cup {Out("get", page.q)} /\ Out("get", page.q).q = page.q
        /\ UNCHANGED <<questions, index, page>>
    BY <1>6, PollDoes
  <2>2. QED
    BY <2>1 DEF InList, AskedIsListed, Lives
<1>7. ASSUME NEW x \in calls, Serve(x)
      PROVE  InList'
  <2> DEFINE s == ServedBy(x)
  <2>1. /\ x.at = "out" /\ x.q \in Question /\ calls' = (calls \ {x}) \cup {s}
        /\ s.kind = x.kind /\ s.q = x.q
        /\ Accepts(x) => questions'[x.q] = After(x)
        /\ ~ Accepts(x) => questions'[x.q] = questions[x.q]
        /\ \A q \in Question \ {x.q} : questions'[q] = questions[q]
        /\ UNCHANGED <<index, page>>
    BY <1>7, RoomServes
  <2> HIDE DEF s
  <2>2. CASE x.kind = "create"
    <3>1. questions[x.q] = NoQuestion /\ questions[x.q].status = "none"
      <4>1. NoQuestion.status = "none"
        BY DEF NoQuestion
      <4>2. QED
        BY <2>1, <2>2, <4>1 DEF Creation, Followed
    <3>2. Accepts(x) /\ After(x).token = NoQuestion.token
      BY <2>2, <3>1, AfterFields DEF Accepts
    <3>3. \A p \in Person : ~ questions'[x.q].token[p] > 0
      BY <2>1, <3>2 DEF NoQuestion
    <3>4. \A y \in calls : y.kind # "create" => y.q # x.q
      BY <3>1 DEF Creation, Followed
    <3>5. page.at = "room" => page.q # x.q /\ page.q \in Question
      BY <3>1 DEF Creation, Known, RoomTypeOK, PageTyped
    <3>6. QED
      BY <1>q, <2>1, <2>2, <3>3, <3>4, <3>5 DEF InList, AskedIsListed, Lives
  <2>3. CASE x.kind # "create"
    <3>1. Accepts(x) => x.q \in index
      BY <2>3, AcceptsWhen DEF InList, Lives
    <3>2. \A q \in Question : q \notin index => questions'[q] = questions[q]
      BY <2>1, <3>1
    <3>3. QED
      BY <1>q, <2>1, <3>2 DEF InList, AskedIsListed, Lives, RoomTypeOK, PageTyped
  <2>4. QED
    BY <2>2, <2>3
<1>8. ASSUME NEW x \in calls, Lose(x)
      PROVE  InList'
  <2>1. /\ calls' = (calls \ {x}) \cup {LostAs(x)}
        /\ LostAs(x).kind = x.kind /\ LostAs(x).q = x.q
        /\ UNCHANGED <<questions, index, page>>
    BY <1>8, RoomLoses, Answers
  <2>2. QED
    BY <2>1 DEF InList, AskedIsListed, Lives
<1>9. ASSUME NEW x \in calls, Asked(x)
      PROVE  InList'
  <2>1. /\ x.kind \in {"create", "attach", "send"} /\ questions' = questions /\ x.q \in Question
        /\ index' = IF Ok(x) /\ x.kind = "create" THEN index \cup {x.q} ELSE index
    BY <1>9, AskedDoes DEF RoomTypeOK, RoomCall
  <2>2. Ok(x) /\ Lives(x.q) => x.q \in index'
    BY <2>1 DEF InList
  <2>3. CASE Ok(x) /\ Onward(x) = {}
    <3>1. /\ calls' = (Orphaned \ {Orphan(x)}) \cup {Out("get", x.q)}
          /\ Out("get", x.q).kind = "get" /\ Out("get", x.q).q = x.q
          /\ page'.at = "room" /\ page'.q = x.q
          /\ \A z \in Orphaned : \E y \in calls : z = Orphan(y) /\ Like(z, y)
      BY <1>9, <2>3, AskedDoes, Orphans
    <3>2. QED
      BY <2>1, <2>2, <2>3, <3>1 DEF InList, AskedIsListed, Lives, Like
  <2>4. CASE Ok(x) /\ Onward(x) # {}
    <3>1. PICK y : calls' = (calls \ {x}) \cup {y} /\ y.q = x.q /\ y.kind \in {"attach", "send"} /\ page' = page
      BY <1>9, <2>4, AskedDoes
    <3>2. QED
      BY <2>1, <2>2, <2>4, <3>1 DEF InList, AskedIsListed, Lives
  <2>5. CASE ~ Ok(x)
    <3>1. calls' = calls \ {x} /\ page'.at = page.at /\ page'.q = page.q
      BY <1>9, <2>5, AskedDoes
    <3>2. QED
      BY <2>1, <2>5, <3>1 DEF InList, AskedIsListed, Lives
  <2>6. QED
    BY <2>3, <2>4, <2>5
<1>10. ASSUME NEW x \in calls, Acted(x)
       PROVE  InList'
  <2> DEFINE get == [Out("get", x.q) EXCEPT !.mine = x.mine, !.run = TRUE]
  <2>1. /\ x.kind \in Buttons /\ calls' = (calls \ {x}) \cup {get}
        /\ get.kind = "get" /\ get.q = x.q /\ page'.at = page.at /\ page'.q = page.q
        /\ UNCHANGED <<questions, index>>
    BY <1>10, ActedDoes
  <2> HIDE DEF get
  <2>2. x.kind # "create"
    BY <2>1 DEF Buttons
  <2>3. QED
    BY <2>1, <2>2 DEF InList, AskedIsListed, Lives
<1>11. ASSUME NEW x \in calls, Fails(x)
       PROVE  InList'
  <2>1. calls' = calls \ {x} /\ page'.at = page.at /\ page'.q = page.q /\ UNCHANGED <<questions, index, links>>
    BY <1>11, FailsDoes
  <2>2. QED
    BY <2>1 DEF InList, AskedIsListed, Lives
<1>12. ASSUME NEW x \in calls, Shown(x)
       PROVE  InList'
  <2>1. calls' = calls \ {x} /\ page'.at = page.at /\ page'.q = page.q /\ UNCHANGED <<questions, index, links>>
    BY <1>12, ShownDoes
  <2>2. QED
    BY <2>1 DEF InList, AskedIsListed, Lives
<1>13. ASSUME NEW x \in calls, Removed(x)
       PROVE  InList'
  <2>1. /\ x.q \in Question /\ x.kind = "remove" /\ x.at = "done"
        /\ calls' = Orphaned \ {Orphan(x)} /\ index' = index \ {x.q} /\ page'.at = "list"
        /\ questions' = questions
        /\ \A z \in Orphaned : \E y \in calls : z = Orphan(y) /\ Like(z, y)
    BY <1>13, <1>q, RemovedDoes, Orphans
  <2>2. questions[x.q].status = "gone"
    BY <2>1 DEF Creation, Followed
  <2>3. QED
    BY <2>1, <2>2 DEF InList, AskedIsListed, Lives, Like
<1>14. CASE SendAnswers
  <2>1. /\ \A q \in Question : /\ questions'[q].status = questions[q].status
                               /\ questions'[q].token = questions[q].token
        /\ UNCHANGED <<index, links, page, calls>>
    BY <1>14, SendAnswersDoes
  <2>2. QED
    BY <1>q, <2>1 DEF InList, AskedIsListed, Lives, RoomTypeOK, PageTyped
<1>15. CASE CloseQuestionnaire
  BY <1>15 DEF CloseQuestionnaire, InList, AskedIsListed, Lives
<1>16. ASSUME NEW p \in Person, NEW q \in Question, OpenQuestionnaire(p, q)
       PROVE  InList'
  BY <1>16 DEF OpenQuestionnaire, InList, AskedIsListed, Lives
<1>17. CASE UNCHANGED roomVars
  BY <1>17 DEF roomVars, InList, AskedIsListed, Lives
<1>18. QED
  BY <1>1, <1>2, <1>3, <1>4, <1>5, <1>6, <1>7, <1>8, <1>9, <1>10, <1>11, <1>12, <1>13, <1>14,
     <1>15, <1>16, <1>17 DEF RoomNext

\* As long as no invitation sets out, arrives or is given up.
LEMMA LinksKnownKept ==
  ASSUME NEW q \in Question \ crossed', LinksKnown, RoomTypeOK,
         crossed \subseteq crossed',
         questions'[q].status = questions[q].status, questions'[q].token = questions[q].token,
         links'[q] = links[q],
         \/ Inviting(q)' = Inviting(q)
         \/ Inviting(q)' = {Orphan(x) : x \in Inviting(q)}
  PROVE  LinksKnownOf(q)'
<1> DEFINE old == Inviting(q)
           new == Inviting(q)'
<1>1. ASSUME questions'[q].status = "open"
      PROVE  /\ \A x, y \in old : x = y
             /\ \A p \in DOMAIN links[q] :
                  \/ links[q][p] \in {0, questions[q].token[p]}
                  \/ \E x \in old : x.at = "done" /\ p \in x.to
             /\ \A x \in old : /\ x.to = Person \/ (x.kind = "invite" /\ x.to # {})
                               /\ x.at = "done" => x.token = questions[q].token
  BY <1>1 DEF LinksKnown, LinksKnownOf
<1>2. \A x \in old : Like(Orphan(x), x)
  BY Orphans DEF Inviting
<1>3. new = old \/ new = {Orphan(x) : x \in old}
  OBVIOUS
<1> HIDE DEF old, new
<1>4. ASSUME questions'[q].status = "open"
      PROVE  /\ \A x, y \in new : x = y
             /\ \A p \in DOMAIN links'[q] :
                  \/ links'[q][p] \in {0, questions'[q].token[p]}
                  \/ \E x \in new : x.at = "done" /\ p \in x.to
             /\ \A x \in new : /\ x.to = Person \/ (x.kind = "invite" /\ x.to # {})
                               /\ x.at = "done" => x.token = questions'[q].token
  <2>1. CASE new = old
    BY <1>1, <1>4, <2>1
  <2>2. CASE new = {Orphan(x) : x \in old}
    BY <1>1, <1>2, <1>4, <2>2 DEF Like
  <2>3. QED
    BY <1>3, <2>1, <2>2
<1>5. QED
  BY <1>4 DEF LinksKnownOf, new

\* Leaving a page takes nothing off an invitation but its page.
LEMMA InvitingOrphaned ==
  ASSUME RoomTypeOK, NEW q,
         \A x \in calls' \cup Orphaned : x.kind \in {"invite", "send"} => (x \in calls' <=> x \in Orphaned)
  PROVE  Inviting(q)' = {Orphan(x) : x \in Inviting(q)}
<1>1. /\ \A x \in Orphaned : \E y \in calls : x = Orphan(y) /\ Like(x, y)
      /\ \A y \in calls : Orphan(y) \in Orphaned /\ Like(Orphan(y), y)
  BY Orphans
<1>2. QED
  BY <1>1 DEF Inviting, Like

\* Every step keeps the links of a question no two invitations of which have
\* crossed.
LEMMA LinksKnownStep ==
  ASSUME RoomTypeOK, Creation, LinksKnown, [RoomNext]_roomVars
  PROVE  LinksKnown'
<1>q. /\ \A x \in calls : x \in RoomCall /\ x.q \in Question
      /\ NoQuestion.status = "none"
  BY DEF RoomTypeOK, RoomCall, NoQuestion
<1>1. CASE GoAsking
  <2>1. /\ calls' = Orphaned /\ UNCHANGED <<questions, links, crossed>>
    BY <1>1, GoAskingDoes
  <2>2. ASSUME NEW q \in Question PROVE Inviting(q)' = {Orphan(x) : x \in Inviting(q)}
    BY <2>1, InvitingOrphaned
  <2>3. QED
    BY <2>1, <2>2, LinksKnownKept DEF LinksKnown
<1>2. ASSUME NEW q \in Question, GoRoom(q)
      PROVE  LinksKnown'
  <2>1. /\ calls' = Orphaned \cup {Out("get", q)} /\ UNCHANGED <<questions, links, crossed>>
        /\ Out("get", q).kind = "get"
    BY <1>2, GoRoomDoes
  <2>2. ASSUME NEW k \in Question PROVE Inviting(k)' = {Orphan(x) : x \in Inviting(k)}
    BY <2>1, InvitingOrphaned
  <2>3. QED
    BY <2>1, <2>2, LinksKnownKept DEF LinksKnown
<1>3. ASSUME NEW mode \in Modes, NEW files \in BOOLEAN, Ask(mode, files)
      PROVE  LinksKnown'
  <2>1. PICK c \in RoomCall : c.kind = "create" /\ calls' = calls \cup {c}
    BY <1>3, AskDoes
  <2>2. UNCHANGED <<questions, links, crossed>>
    BY <1>3, AskDoes
  <2>3. \A q \in Question : Inviting(q)' = Inviting(q)
    BY <2>1 DEF Inviting
  <2>4. QED
    BY <2>2, <2>3, LinksKnownKept DEF LinksKnown
<1>4. ASSUME NEW kind \in Buttons, NEW p \in Person, NEW without \in BOOLEAN, Press(kind, p, without)
      PROVE  LinksKnown'
  <2> DEFINE new == PressedCall(kind, p, without)
  <2>1. /\ new.kind = kind /\ new.q = page.q /\ new.at = "out" /\ new.to = PressedTo(kind, p)
        /\ calls' = calls \cup {new} /\ UNCHANGED <<questions, links>>
        /\ crossed' = crossed \cup IF kind = "invite" /\ Inviting(page.q) # {} THEN {page.q} ELSE {}
        /\ page.q \in Question /\ kind # "send"
    BY <1>4, Pressing, PressDoes DEF Buttons
  <2> HIDE DEF new
  <2>2. ASSUME NEW q \in Question \ crossed' PROVE LinksKnownOf(q)'
    <3>1. CASE kind # "invite" \/ q # page.q
      <4>1. Inviting(q)' = Inviting(q)
        BY <2>1, <3>1 DEF Inviting
      <4>2. QED
        BY <2>1, <4>1, LinksKnownKept
    <3>2. CASE kind = "invite" /\ q = page.q
      <4>1. Inviting(q) = {} /\ q \notin crossed
        BY <2>1, <2>2, <3>2
      <4>2. Inviting(q)' = {new} /\ new.to # {} /\ new.kind = "invite"
        BY <2>1, <3>2, <4>1 DEF Inviting, PressedTo
      <4>3. QED
        BY <2>1, <4>1, <4>2 DEF LinksKnown, LinksKnownOf
    <3>3. QED
      BY <3>1, <3>2
  <2>3. QED
    BY <2>2 DEF LinksKnown
<1>5. CASE PressDelete
  <2>1. /\ calls' = calls \cup {Out("remove", page.q)} /\ Out("remove", page.q).kind = "remove"
        /\ UNCHANGED <<questions, links, crossed>>
    BY <1>5, PressDeleteDoes
  <2>2. \A q \in Question : Inviting(q)' = Inviting(q)
    BY <2>1 DEF Inviting
  <2>3. QED
    BY <2>1, <2>2, LinksKnownKept DEF LinksKnown
<1>6. CASE Poll
  <2>1. /\ calls' = calls \cup {Out("get", page.q)} /\ Out("get", page.q).kind = "get"
        /\ UNCHANGED <<questions, links, crossed>>
    BY <1>6, PollDoes
  <2>2. \A q \in Question : Inviting(q)' = Inviting(q)
    BY <2>1 DEF Inviting
  <2>3. QED
    BY <2>1, <2>2, LinksKnownKept DEF LinksKnown
<1>7. ASSUME NEW x \in calls, Serve(x)
      PROVE  LinksKnown'
  <2> DEFINE s == ServedBy(x)
  <2>1. /\ x.at = "out" /\ x.q \in Question /\ calls' = (calls \ {x}) \cup {s}
        /\ s.kind = x.kind /\ s.q = x.q /\ s.to = x.to
        /\ s.at = IF Accepts(x) THEN "done" ELSE "refused"
        /\ Accepts(x) => questions'[x.q] = After(x)
        /\ ~ Accepts(x) => questions'[x.q] = questions[x.q]
        /\ \A q \in Question \ {x.q} : questions'[q] = questions[q]
        /\ UNCHANGED <<links, crossed>>
    BY <1>7, RoomServes
  <2>2. s.token = IF x.to # {} /\ Accepts(x) THEN Reissued(questions[x.q].token, x.to) ELSE x.token
    BY Answers
  <2> HIDE DEF s
  <2>3. ASSUME NEW q \in Question \ crossed', q # x.q PROVE LinksKnownOf(q)'
    <3>1. Inviting(q)' = Inviting(q)
      BY <2>1, <2>3 DEF Inviting
    <3>2. QED
      BY <2>1, <2>3, <3>1, LinksKnownKept
  <2>4. ASSUME x.q \notin crossed PROVE LinksKnownOf(x.q)'
    <3>1. CASE x.kind \in {"invite", "send"}
      <4>1. CASE questions'[x.q].status = "open"
        <5>1. questions[x.q].status = "open" /\ x \in Inviting(x.q)
          BY <2>1, <3>1, <4>1, AfterFields, AcceptsWhen DEF Inviting
        <5>2. Inviting(x.q)' = {s} /\ Inviting(x.q) = {x}
          BY <2>1, <2>4, <3>1, <5>1 DEF Inviting, LinksKnown, LinksKnownOf
        <5>3. CASE Accepts(x)
          <6>1. questions'[x.q].token = Reissued(questions[x.q].token, x.to)
            BY <2>1, <3>1, <5>3, AfterFields
          <6>2. s.token = Reissued(questions[x.q].token, x.to)
            <7>1. CASE x.to # {}
              BY <2>2, <5>3, <7>1
            <7>2. CASE x.to = {}
              <8>1. Person = {}
                BY <2>1, <2>4, <5>1, <7>2 DEF LinksKnown, LinksKnownOf
              <8>2. x.token \in [Person -> Nat] /\ Reissued(questions[x.q].token, x.to) \in [Person -> Nat]
                BY ServedView DEF RoomTypeOK, RoomCall
              <8>3. x.token = Reissued(questions[x.q].token, x.to)
                BY <8>1, <8>2
              <8>4. QED
                BY <2>2, <7>2, <8>3
            <7>3. QED
              BY <7>1, <7>2
          <6>3. \A p \in Person \ x.to : Reissued(questions[x.q].token, x.to)[p] = questions[x.q].token[p]
            BY DEF Reissued
          <6>4. DOMAIN links[x.q] \subseteq Person
            BY <2>1 DEF RoomTypeOK, LinksRow
          <6>5. \A p \in DOMAIN links[x.q] : links[x.q][p] \in {0, questions[x.q].token[p]}
            BY <2>1, <2>4, <5>1, <5>2 DEF LinksKnown, LinksKnownOf
          <6>6. s.to = Person \/ (s.kind = "invite" /\ s.to # {})
            BY <2>1, <2>4, <5>1 DEF LinksKnown, LinksKnownOf
          <6>7. \A p \in DOMAIN links'[x.q] :
                  links'[x.q][p] \in {0, questions'[x.q].token[p]} \/ p \in s.to
            BY <2>1, <6>1, <6>3, <6>4, <6>5
          <6>8. s.at = "done" /\ s.token = questions'[x.q].token
            BY <2>1, <5>3, <6>1, <6>2
          <6>9. QED
            BY <5>2, <6>6, <6>7, <6>8 DEF LinksKnownOf
        <5>4. CASE ~ Accepts(x)
          BY <2>1, <2>4, <5>1, <5>2, <5>4 DEF LinksKnown, LinksKnownOf
        <5>5. QED
          BY <5>3, <5>4
      <4>2. CASE questions'[x.q].status # "open"
        BY <4>2 DEF LinksKnownOf
      <4>3. QED
        BY <4>1, <4>2
    <3>2. CASE x.kind = "create"
      <4>1. questions[x.q].status = "none"
        BY <1>q, <2>1, <3>2 DEF Creation, Followed
      <4>2. DOMAIN links'[x.q] = {}
        BY <2>1, <4>1 DEF Creation, Known
      <4>3. Inviting(x.q)' = {}
        BY <1>q, <2>1, <3>2, <4>1 DEF Inviting, Creation, Followed
      <4>4. QED
        BY <4>2, <4>3 DEF LinksKnownOf
    <3>3. CASE x.kind \notin {"create", "invite", "send"}
      <4>1. Inviting(x.q)' = Inviting(x.q)
        BY <2>1, <3>3 DEF Inviting
      <4>2. CASE questions'[x.q].status = "open"
        <5>1. questions'[x.q].status = questions[x.q].status /\ questions'[x.q].token = questions[x.q].token
          BY <2>1, <3>3, <4>2, AfterFields
        <5>2. QED
          BY <2>1, <2>4, <4>1, <5>1, LinksKnownKept
      <4>3. CASE questions'[x.q].status # "open"
        BY <4>3 DEF LinksKnownOf
      <4>4. QED
        BY <4>2, <4>3
    <3>4. QED
      BY <3>1, <3>2, <3>3
  <2>5. QED
    BY <2>1, <2>3, <2>4 DEF LinksKnown
<1>8. ASSUME NEW x \in calls, Lose(x)
      PROVE  LinksKnown'
  <2>1. /\ calls' = (calls \ {x}) \cup {LostAs(x)}
        /\ LostAs(x).kind = x.kind /\ LostAs(x).q = x.q
        /\ crossed' = crossed \cup IF x.kind \in {"invite", "send"} THEN {x.q} ELSE {}
        /\ UNCHANGED <<questions, links>>
    BY <1>8, RoomLoses, Answers
  <2>2. ASSUME NEW q \in Question \ crossed' PROVE LinksKnownOf(q)'
    <3>1. Inviting(q)' = Inviting(q)
      BY <2>1, <2>2 DEF Inviting
    <3>2. QED
      BY <2>1, <2>2, <3>1, LinksKnownKept
  <2>3. QED
    BY <2>2 DEF LinksKnown
<1>9. ASSUME NEW x \in calls, Asked(x)
      PROVE  LinksKnown'
  <2>1. /\ x.kind \in {"create", "attach", "send"} /\ x.at # "out" /\ questions' = questions /\ x.q \in Question
        /\ x.token \in [Person -> Nat]
        /\ links' = IF Ok(x) /\ x.kind = "send" THEN [links EXCEPT ![x.q] = Merged(links[x.q], x.token)] ELSE links
        /\ crossed' = crossed \cup IF Inviting(x.q) \ {x} # {} THEN {x.q} ELSE {}
    BY <1>9, AskedDoes DEF RoomTypeOK, RoomCall
  <2>2. \A q \in Question \ {x.q} : links'[q] = links[q]
    BY <2>1 DEF RoomTypeOK
  <2>3. ASSUME NEW q \in Question \ crossed', x.kind # "send" \/ q # x.q,
               Inviting(q)' = Inviting(q) \/ Inviting(q)' = {Orphan(y) : y \in Inviting(q)}
        PROVE  LinksKnownOf(q)'
    BY <2>1, <2>2, <2>3, LinksKnownKept
  <2>4. ASSUME x.kind = "send", x.q \notin crossed', Inviting(x.q)' = {} PROVE LinksKnownOf(x.q)'
    <3>1. CASE questions[x.q].status = "open"
      <4>1. Inviting(x.q) = {x} /\ x.q \notin crossed
        BY <2>1, <2>4 DEF Inviting
      <4>2. CASE Ok(x)
        <5>1. x.at = "done" /\ x.token = questions[x.q].token
          BY <2>4, <3>1, <4>1, <4>2, <2>1 DEF Ok, LinksKnown, LinksKnownOf
        <5>2. links[x.q] \in LinksRow /\ x.token \in LinksRow /\ DOMAIN x.token = Person
          BY <2>1 DEF RoomTypeOK, LinksRow
        <5>3. DOMAIN links[x.q] \subseteq Person
          BY <5>2 DEF LinksRow
        <5>4. links'[x.q] = Merged(links[x.q], x.token)
          BY <2>1, <2>4, <4>2 DEF RoomTypeOK
        <5>5. /\ DOMAIN Merged(links[x.q], x.token) = DOMAIN links[x.q] \cup Person
              /\ \A p \in Person : Merged(links[x.q], x.token)[p] = x.token[p]
          BY <5>2, MergedLinks
        <5>6. \A p \in DOMAIN links'[x.q] : links'[x.q][p] = questions'[x.q].token[p]
          BY <2>1, <5>1, <5>3, <5>4, <5>5
        <5>7. QED
          BY <2>4, <5>6 DEF LinksKnownOf
      <4>3. CASE ~ Ok(x)
        BY <2>1, <2>4, <3>1, <4>1, <4>3 DEF Ok, LinksKnown, LinksKnownOf
      <4>4. QED
        BY <4>2, <4>3
    <3>2. CASE questions[x.q].status # "open"
      BY <2>1, <3>2 DEF LinksKnownOf
    <3>3. QED
      BY <3>1, <3>2
  <2>5. CASE Ok(x) /\ Onward(x) = {}
    <3>1. /\ calls' = (Orphaned \ {Orphan(x)}) \cup {Out("get", x.q)}
          /\ Out("get", x.q).kind = "get" /\ Like(Orphan(x), x)
          /\ \A z \in Orphaned : \E y \in calls : z = Orphan(y) /\ Like(z, y)
          /\ \A y \in calls : Orphan(y) \in Orphaned /\ Like(Orphan(y), y)
      BY <1>9, <2>5, AskedDoes, Orphans
    <3>2. CASE x.kind # "send"
      <4>1. ASSUME NEW q \in Question PROVE Inviting(q)' = {Orphan(y) : y \in Inviting(q)}
        <5>1. \A z \in {Orphan(x)} \cup {Out("get", x.q)} : z.kind \notin {"invite", "send"}
          BY <2>1, <3>1, <3>2 DEF Like
        <5>2. QED
          BY <3>1, <5>1, InvitingOrphaned
      <4>2. QED
        BY <2>3, <3>2, <4>1 DEF LinksKnown
    <3>3. CASE x.kind = "send"
      <4>1. ASSUME NEW q \in Question \ {x.q} PROVE Inviting(q)' = {Orphan(y) : y \in Inviting(q)}
        BY <3>1 DEF Inviting, Like
      <4>2. ASSUME x.q \notin crossed' PROVE Inviting(x.q)' = {}
        BY <2>1, <3>1, <4>2 DEF Inviting, Like
      <4>3. QED
        BY <2>3, <2>4, <3>3, <4>1, <4>2 DEF LinksKnown
    <3>4. QED
      BY <3>2, <3>3
  <2>6. CASE Ok(x) /\ Onward(x) # {}
    <3>1. PICK y : /\ calls' = (calls \ {x}) \cup {y} /\ y.q = x.q /\ y.at = "out"
                   /\ \/ y.kind = "attach" /\ x.kind = "create"
                      \/ y.kind = "send" /\ x.kind \in {"create", "attach"} /\ y.to = Person
      BY <1>9, <2>6, AskedDoes
    <3>2. ASSUME NEW q \in Question, y.kind # "send" \/ q # x.q PROVE Inviting(q)' = Inviting(q)
      BY <3>1, <3>2 DEF Inviting
    <3>3. ASSUME y.kind = "send", x.q \notin crossed' PROVE LinksKnownOf(x.q)'
      <4>1. Inviting(x.q) = {} /\ x.q \notin crossed
        BY <2>1, <3>1, <3>3 DEF Inviting
      <4>2. Inviting(x.q)' = {y}
        BY <3>1, <3>3, <4>1 DEF Inviting
      <4>3. links' = links
        BY <2>1, <3>1, <3>3
      <4>4. QED
        BY <2>1, <3>1, <3>3, <4>1, <4>2, <4>3 DEF LinksKnown, LinksKnownOf
    <3>4. QED
      BY <2>1, <2>3, <3>1, <3>2, <3>3 DEF LinksKnown
  <2>7. CASE ~ Ok(x)
    <3>1. calls' = calls \ {x}
      BY <1>9, <2>7, AskedDoes
    <3>2. ASSUME NEW q \in Question, x.kind # "send" \/ q # x.q PROVE Inviting(q)' = Inviting(q)
      BY <2>1, <3>1, <3>2 DEF Inviting
    <3>3. ASSUME x.kind = "send", x.q \notin crossed' PROVE LinksKnownOf(x.q)'
      <4>1. Inviting(x.q)' = {}
        BY <2>1, <3>1, <3>3 DEF Inviting
      <4>2. QED
        BY <2>4, <3>3, <4>1
    <3>4. QED
      BY <2>3, <3>2, <3>3 DEF LinksKnown
  <2>8. QED
    BY <2>5, <2>6, <2>7
<1>10. ASSUME NEW x \in calls, Acted(x)
       PROVE  LinksKnown'
  <2> DEFINE get == [Out("get", x.q) EXCEPT !.mine = x.mine, !.run = TRUE]
  <2>1. /\ x.kind \in Buttons /\ x.at = "done" /\ calls' = (calls \ {x}) \cup {get}
        /\ get.kind = "get" /\ get.q = x.q /\ UNCHANGED <<questions, crossed>>
    BY <1>10, ActedDoes
  <2>2. links' = IF x.kind = "invite" THEN [links EXCEPT ![x.q] = Merged(links[x.q], [p \in x.to |-> x.token[p]])] ELSE links
    BY <1>10 DEF Acted
  <2> HIDE DEF get
  <2>3. x.q \in Question /\ x.to \subseteq Person /\ x.token \in [Person -> Nat] /\ x.kind # "send"
    BY <2>1 DEF RoomTypeOK, RoomCall, Buttons
  <2>4. ASSUME NEW q \in Question \ crossed', x.kind # "invite" \/ q # x.q PROVE LinksKnownOf(q)'
    <3>1. Inviting(q)' = Inviting(q)
      BY <2>1, <2>3, <2>4 DEF Inviting
    <3>2. links'[q] = links[q]
      BY <2>2, <2>3, <2>4 DEF RoomTypeOK
    <3>3. QED
      BY <2>1, <2>4, <3>1, <3>2, LinksKnownKept
  <2>5. ASSUME x.kind = "invite", x.q \notin crossed', questions[x.q].status = "open" PROVE LinksKnownOf(x.q)'
    <3>1. Inviting(x.q) = {x} /\ x.token = questions[x.q].token
      BY <2>1, <2>3, <2>5 DEF Inviting, LinksKnown, LinksKnownOf
    <3>2. Inviting(x.q)' = {}
      BY <2>1, <3>1 DEF Inviting
    <3>3. links[x.q] \in LinksRow /\ [p \in x.to |-> x.token[p]] \in LinksRow
      BY <2>3 DEF RoomTypeOK, LinksRow
    <3>4. links'[x.q] = Merged(links[x.q], [p \in x.to |-> x.token[p]])
      BY <2>2, <2>3, <2>5 DEF RoomTypeOK
    <3>5. /\ DOMAIN links'[x.q] = DOMAIN links[x.q] \cup x.to
          /\ \A p \in x.to : links'[x.q][p] = x.token[p]
          /\ \A p \in DOMAIN links[x.q] \ x.to : links'[x.q][p] = links[x.q][p]
      <4> DEFINE new == [p \in x.to |-> x.token[p]]
      <4>1. DOMAIN new = x.to /\ \A p \in x.to : new[p] = x.token[p]
        OBVIOUS
      <4>2. new \in LinksRow /\ links'[x.q] = Merged(links[x.q], new)
        BY <3>3, <3>4
      <4> HIDE DEF new
      <4>3. /\ DOMAIN Merged(links[x.q], new) = DOMAIN links[x.q] \cup DOMAIN new
            /\ \A p \in DOMAIN new : Merged(links[x.q], new)[p] = new[p]
            /\ \A p \in DOMAIN links[x.q] \ DOMAIN new : Merged(links[x.q], new)[p] = links[x.q][p]
        BY <3>3, <4>2, MergedLinks
      <4>4. QED
        BY <4>1, <4>2, <4>3
    <3>6. \A p \in DOMAIN links[x.q] : links[x.q][p] \in {0, questions[x.q].token[p]} \/ p \in x.to
      BY <2>1, <2>3, <2>5, <3>1 DEF LinksKnown, LinksKnownOf
    <3>7. \A p \in DOMAIN links'[x.q] : links'[x.q][p] \in {0, questions'[x.q].token[p]}
      BY <2>1, <3>1, <3>5, <3>6
    <3>8. QED
      BY <3>2, <3>7 DEF LinksKnownOf
  <2>6. ASSUME questions[x.q].status # "open" PROVE LinksKnownOf(x.q)'
    BY <2>1, <2>6 DEF LinksKnownOf
  <2>7. QED
    BY <2>3, <2>4, <2>5, <2>6 DEF LinksKnown
<1>11. ASSUME NEW x \in calls, Fails(x)
       PROVE  LinksKnown'
  <2>1. x.at = "refused" /\ x.kind # "send" /\ calls' = calls \ {x} /\ UNCHANGED <<questions, links, crossed>>
    BY <1>11, FailsDoes
  <2>2. ASSUME NEW q \in Question \ crossed', x.kind # "invite" \/ q # x.q PROVE LinksKnownOf(q)'
    <3>1. Inviting(q)' = Inviting(q)
      BY <2>1, <2>2 DEF Inviting
    <3>2. QED
      BY <2>1, <2>2, <3>1, LinksKnownKept
  <2>3. ASSUME x.kind = "invite", x.q \notin crossed' PROVE LinksKnownOf(x.q)'
    BY <1>q, <2>1, <2>3 DEF LinksKnown, LinksKnownOf, Inviting
  <2>4. QED
    BY <1>q, <2>2, <2>3 DEF LinksKnown
<1>12. ASSUME NEW x \in calls, Shown(x)
       PROVE  LinksKnown'
  <2>1. x.kind = "get" /\ calls' = calls \ {x} /\ UNCHANGED <<questions, links, crossed>>
    BY <1>12, ShownDoes
  <2>2. \A q \in Question : Inviting(q)' = Inviting(q)
    BY <2>1 DEF Inviting
  <2>3. QED
    BY <2>1, <2>2, LinksKnownKept DEF LinksKnown
<1>13. ASSUME NEW x \in calls, Removed(x)
       PROVE  LinksKnown'
  <2>1. /\ x.kind = "remove" /\ x.at = "done" /\ calls' = Orphaned \ {Orphan(x)}
        /\ links' = [links EXCEPT ![x.q] = <<>>] /\ UNCHANGED <<questions, crossed>>
        /\ Like(Orphan(x), x)
    BY <1>13, RemovedDoes, Orphans
  <2>2. questions[x.q].status = "gone"
    BY <2>1 DEF Creation, Followed
  <2>3. ASSUME NEW q \in Question PROVE Inviting(q)' = {Orphan(y) : y \in Inviting(q)}
    <3>1. Orphan(x).kind \notin {"invite", "send"}
      BY <2>1 DEF Like
    <3>2. QED
      BY <2>1, <3>1, InvitingOrphaned
  <2>4. ASSUME NEW q \in Question \ crossed', q # x.q PROVE LinksKnownOf(q)'
    <3>1. links'[q] = links[q]
      BY <1>q, <2>1, <2>4 DEF RoomTypeOK
    <3>2. QED
      BY <2>1, <2>3, <2>4, <3>1, LinksKnownKept
  <2>5. LinksKnownOf(x.q)'
    BY <2>1, <2>2 DEF LinksKnownOf
  <2>6. QED
    BY <2>4, <2>5 DEF LinksKnown
<1>14. CASE SendAnswers
  <2>1. /\ \A q \in Question : /\ questions'[q].status = questions[q].status
                               /\ questions'[q].token = questions[q].token
        /\ UNCHANGED <<links, calls, crossed>>
    BY <1>14, SendAnswersDoes
  <2>2. \A q \in Question : Inviting(q)' = Inviting(q)
    BY <2>1 DEF Inviting
  <2>3. QED
    BY <2>1, <2>2, LinksKnownKept DEF LinksKnown
<1>15. CASE UNCHANGED <<questions, links, calls, crossed>>
  <2>1. \A q \in Question : Inviting(q)' = Inviting(q)
    BY <1>15 DEF Inviting
  <2>2. QED
    BY <1>15, <2>1, LinksKnownKept DEF LinksKnown
<1>16. CASE CloseQuestionnaire
  BY <1>15, <1>16 DEF CloseQuestionnaire
<1>17. ASSUME NEW p \in Person, NEW q \in Question, OpenQuestionnaire(p, q)
       PROVE  LinksKnown'
  BY <1>15, <1>17 DEF OpenQuestionnaire
<1>18. CASE UNCHANGED roomVars
  BY <1>15, <1>18 DEF roomVars
<1>19. QED
  BY <1>1, <1>2, <1>3, <1>4, <1>5, <1>6, <1>7, <1>8, <1>9, <1>10, <1>11, <1>12, <1>13, <1>14,
     <1>16, <1>17, <1>18 DEF RoomNext

-----------------------------------------------------------------------------
(* Deciding.                                                               *)

\* Every step keeps what belongs to the page.
LEMMA MineStep ==
  ASSUME RoomTypeOK, Mine, [RoomNext]_roomVars
  PROVE  Mine'
<1>1. CASE GoAsking
  BY <1>1, GoAskingDoes DEF Mine
<1>2. ASSUME NEW q \in Question, GoRoom(q)
      PROVE  Mine'
  <2>1. /\ page'.q = q /\ calls' = Orphaned \cup {Out("get", q)}
        /\ Out("get", q).kind = "get" /\ Out("get", q).q = q /\ \A x \in Orphaned : ~ x.mine
    BY <1>2, GoRoomDoes, Orphans
  <2>2. QED
    BY <2>1 DEF Mine
<1>3. ASSUME NEW mode \in Modes, NEW files \in BOOLEAN, Ask(mode, files)
      PROVE  Mine'
  BY <1>3, AskDoes DEF Mine
<1>4. ASSUME NEW kind \in Buttons, NEW p \in Person, NEW without \in BOOLEAN, Press(kind, p, without)
      PROVE  Mine'
  <2>1. /\ page.at = "room" /\ PressedCall(kind, p, without).kind = kind
        /\ PressedCall(kind, p, without).q = page.q
        /\ calls' = calls \cup {PressedCall(kind, p, without)}
        /\ page'.at = "room" /\ page'.q = page.q
    BY <1>4, Pressing, PressDoes
  <2>2. kind \notin {"create", "attach", "send"}
    BY DEF Buttons
  <2>3. QED
    BY <2>1, <2>2 DEF Mine
<1>5. CASE PressDelete
  BY <1>5, PressDeleteDoes DEF Mine
<1>6. CASE Poll
  BY <1>6, PollDoes DEF Mine
<1>7. ASSUME NEW x \in calls, Serve(x)
      PROVE  Mine'
  <2>1. /\ calls' = (calls \ {x}) \cup {ServedBy(x)} /\ page' = page
        /\ ServedBy(x).kind = x.kind /\ ServedBy(x).q = x.q /\ ServedBy(x).mine = x.mine
    BY <1>7, RoomServes
  <2>2. QED
    BY <2>1 DEF Mine
<1>8. ASSUME NEW x \in calls, Lose(x)
      PROVE  Mine'
  <2>1. /\ calls' = (calls \ {x}) \cup {LostAs(x)} /\ page' = page
        /\ LostAs(x).kind = x.kind /\ LostAs(x).q = x.q /\ LostAs(x).mine = x.mine
    BY <1>8, RoomLoses, Answers
  <2>2. QED
    BY <2>1 DEF Mine
<1>9. ASSUME NEW x \in calls, Asked(x)
      PROVE  Mine'
  <2>1. x.kind \in {"create", "attach", "send"}
    BY <1>9, AskedDoes
  <2>2. CASE Ok(x) /\ Onward(x) = {}
    <3>1. /\ calls' = (Orphaned \ {Orphan(x)}) \cup {Out("get", x.q)} /\ page'.q = x.q
          /\ Out("get", x.q).kind = "get" /\ Out("get", x.q).q = x.q /\ \A z \in Orphaned : ~ z.mine
      BY <1>9, <2>2, AskedDoes, Orphans
    <3>2. QED
      BY <3>1 DEF Mine
  <2>3. CASE Ok(x) /\ Onward(x) # {}
    <3>1. PICK y : calls' = (calls \ {x}) \cup {y} /\ y.mine = x.mine /\ page' = page
      BY <1>9, <2>3, AskedDoes
    <3>2. QED
      BY <2>1, <3>1 DEF Mine
  <2>4. CASE ~ Ok(x)
    <3>1. calls' = calls \ {x} /\ page'.at = page.at /\ page'.q = page.q
      BY <1>9, <2>4, AskedDoes
    <3>2. QED
      BY <3>1 DEF Mine
  <2>5. QED
    BY <2>2, <2>3, <2>4
<1>10. ASSUME NEW x \in calls, Acted(x)
       PROVE  Mine'
  <2> DEFINE get == [Out("get", x.q) EXCEPT !.mine = x.mine, !.run = TRUE]
  <2>1. /\ calls' = (calls \ {x}) \cup {get} /\ get.kind = "get" /\ get.q = x.q /\ get.mine = x.mine
        /\ page'.at = page.at /\ page'.q = page.q
    BY <1>10, ActedDoes
  <2> HIDE DEF get
  <2>2. QED
    BY <2>1 DEF Mine
<1>11. ASSUME NEW x \in calls, Fails(x)
       PROVE  Mine'
  BY <1>11, FailsDoes DEF Mine
<1>12. ASSUME NEW x \in calls, Shown(x)
       PROVE  Mine'
  BY <1>12, ShownDoes DEF Mine
<1>13. ASSUME NEW x \in calls, Removed(x)
       PROVE  Mine'
  BY <1>13, RemovedDoes DEF Mine
<1>14. CASE SendAnswers
  BY <1>14 DEF SendAnswers, Mine
<1>15. CASE CloseQuestionnaire
  BY <1>15 DEF CloseQuestionnaire, Mine
<1>16. ASSUME NEW p \in Person, NEW q \in Question, OpenQuestionnaire(p, q)
       PROVE  Mine'
  BY <1>16 DEF OpenQuestionnaire, Mine
<1>17. CASE UNCHANGED roomVars
  BY <1>17 DEF roomVars, Mine
<1>18. QED
  BY <1>1, <1>2, <1>3, <1>4, <1>5, <1>6, <1>7, <1>8, <1>9, <1>10, <1>11, <1>12, <1>13, <1>14,
     <1>15, <1>16, <1>17 DEF RoomNext

\* Where no decision is under way, and the page keeps what it shows, a request
\* that is no decision and brings no view changes nothing.
LEMMA UndecidedKept ==
  ASSUME NEW q \in Question, DecisionOf(q),
         questions'[q].decisions = questions[q].decisions,
         page'.at = page.at, page'.q = page.q, page'.view = page.view, page'.recorded = page.recorded,
         \A x \in calls' : \/ x \in calls
                           \/ x.kind # "decide" /\ ~ (x.kind = "get" /\ x.at = "done"),
         \A x \in calls : x.kind = "decide" /\ x.q = q => x \in calls'
  PROVE  DecisionOf(q)'
<1>1. q \in Deciding' <=> q \in Deciding
  BY DEF Deciding
<1>2. DecidingOne(q)'
  BY DEF DecisionOf, DecidingOne
<1>3. OffersNoOther(q)'
  BY <1>1 DEF DecisionOf, OffersNoOther, SeenDecided
<1>4. QED
  BY <1>2, <1>3 DEF DecisionOf

\* A page that is opened anew offers nothing before it is shown a view.
LEMMA LeavingUndecided ==
  ASSUME NEW q \in Question \ disturbed', DecisionOf(q), RoomTypeOK,
         disturbed' = disturbed \cup Deciding, questions' = questions,
         page'.at = "room" => page'.view = NoView,
         \A x \in calls' : \/ x \in Orphaned
                           \/ x.kind = "get" /\ x.at = "out"
  PROVE  DecisionOf(q)'
<1>1. /\ \A x \in Orphaned : ~ x.mine /\ \E y \in calls : x = Orphan(y) /\ Like(x, y)
      /\ \A x \in calls : x.kind = "decide" => x.q # q
  BY Orphans DEF Deciding
<1>2. \A x \in calls' : x.kind = "decide" => x.q # q
  BY <1>1 DEF Like
<1>3. QED
  BY <1>1, <1>2 DEF DecisionOf, DecidingOne, OffersNoOther, SeenDecided

\* Every step keeps the decision of a question nothing came between.
LEMMA DecisionStep ==
  ASSUME RoomTypeOK, Mine, Decision, [RoomNext]_roomVars
  PROVE  Decision'
<1>q. /\ \A x \in calls : x \in RoomCall /\ x.q \in Question
      /\ \A q \in Question : questions[q].decisions \in Nat
  BY DEF RoomTypeOK, RoomCall, QuestionRow
<1>1. CASE GoAsking
  <2>1. /\ page'.at = "ask" /\ calls' = Orphaned /\ questions' = questions
        /\ disturbed' = disturbed \cup Deciding
    BY <1>1, GoAskingDoes
  <2>2. QED
    BY <2>1, LeavingUndecided DEF Decision
<1>2. ASSUME NEW q \in Question, GoRoom(q)
      PROVE  Decision'
  <2>1. /\ page'.view = NoView /\ calls' = Orphaned \cup {Out("get", q)} /\ questions' = questions
        /\ Out("get", q).kind = "get" /\ Out("get", q).at = "out"
        /\ disturbed' = disturbed \cup Deciding
    BY <1>2, GoRoomDoes
  <2>2. QED
    BY <2>1, LeavingUndecided DEF Decision
<1>3. ASSUME NEW mode \in Modes, NEW files \in BOOLEAN, Ask(mode, files)
      PROVE  Decision'
  <2>1. PICK c \in RoomCall : c.kind = "create" /\ calls' = calls \cup {c}
    BY <1>3, AskDoes
  <2>2. page.at = "ask" /\ page'.at = "ask" /\ UNCHANGED <<questions, disturbed>>
    BY <1>3, AskDoes
  <2>3. QED
    BY <2>1, <2>2 DEF Decision, DecisionOf, DecidingOne, OffersNoOther
<1>4. ASSUME NEW kind \in Buttons, NEW p \in Person, NEW without \in BOOLEAN, Press(kind, p, without)
      PROVE  Decision'
  <2> DEFINE new == PressedCall(kind, p, without)
  <2>1. /\ page.at = "room" /\ new.kind = kind /\ new.q = page.q /\ new.at = "out" /\ new.mine
        /\ calls' = calls \cup {new} /\ questions' = questions /\ page.q \in Question
    BY <1>4, Pressing
  <2>2. /\ page'.at = "room" /\ page'.q = page.q
        /\ page'.view = page.view /\ page'.recorded = page.recorded
        /\ page.view # NoView /\ Offered(kind, p)
        /\ disturbed' = disturbed \cup Deciding
    BY <1>4, PressDoes
  <2> HIDE DEF new
  <2>3. ASSUME NEW q \in Question \ disturbed' PROVE DecisionOf(q)'
    <3>1. DecisionOf(q) /\ \A x \in calls : x.kind = "decide" => x.q # q
      BY <2>2, <2>3 DEF Decision, Deciding
    <3>2. CASE kind # "decide" \/ q # page.q
      <4>1. \A x \in calls' : x.kind = "decide" => x.q # q
        BY <2>1, <3>1, <3>2
      <4>2. q \notin Deciding
        BY <3>1 DEF Deciding
      <4>3. QED
        BY <2>1, <2>2, <3>1, <4>1, <4>2 DEF DecisionOf, DecidingOne, OffersNoOther, SeenDecided
    <3>3. CASE kind = "decide" /\ q = page.q
      <4>1. ~ page.view.decided /\ ~ page.recorded
        BY <2>2, <3>3 DEF Offered, MayDecide
      <4>2. questions[q].decisions = 0
        <5>1. q \notin Deciding
          BY <3>1 DEF Deciding
        <5>2. questions[q].decisions # 1
          BY <2>1, <2>2, <3>1, <3>3, <4>1, <5>1 DEF DecisionOf, OffersNoOther, SeenDecided
        <5>3. QED
          BY <1>q, <2>3, <3>1, <5>2 DEF DecisionOf
      <4>3. DecidingOne(q)'
        BY <2>1, <2>2, <3>1, <3>3, <4>2 DEF DecidingOne
      <4>4. QED
        BY <2>1, <4>2, <4>3 DEF DecisionOf, OffersNoOther
    <3>4. QED
      BY <3>2, <3>3
  <2>4. QED
    BY <2>3 DEF Decision
<1>5. CASE PressDelete
  <2>1. /\ page'.at = page.at /\ page'.q = page.q
        /\ page'.view = page.view /\ page'.recorded = page.recorded
        /\ calls' = calls \cup {Out("remove", page.q)} /\ Out("remove", page.q).kind = "remove"
        /\ disturbed' = disturbed \cup Deciding /\ questions' = questions
    BY <1>5, PressDeleteDoes
  <2>2. QED
    BY <2>1, UndecidedKept DEF Decision
<1>6. CASE Poll
  <2>1. /\ calls' = calls \cup {Out("get", page.q)}
        /\ Out("get", page.q).kind = "get" /\ Out("get", page.q).at = "out"
        /\ UNCHANGED <<questions, page, disturbed>>
    BY <1>6, PollDoes
  <2>2. QED
    BY <2>1, UndecidedKept DEF Decision
<1>7. ASSUME NEW x \in calls, Serve(x)
      PROVE  Decision'
  <2> DEFINE s == ServedBy(x)
  <2>1. /\ x.at = "out" /\ x.q \in Question /\ calls' = (calls \ {x}) \cup {s}
        /\ s.kind = x.kind /\ s.q = x.q /\ s.mine = x.mine
        /\ s.at = IF Accepts(x) THEN "done" ELSE "refused"
        /\ Accepts(x) => questions'[x.q] = After(x)
        /\ ~ Accepts(x) => questions'[x.q] = questions[x.q]
        /\ \A q \in Question \ {x.q} : questions'[q] = questions[q]
        /\ UNCHANGED <<page, disturbed>>
    BY <1>7, RoomServes
  <2>2. s.view = IF x.kind = "get" /\ Accepts(x) THEN View(x.q) ELSE x.view
    BY Answers
  <2>3. After(x).decisions = IF x.kind = "decide" THEN questions[x.q].decisions + 1
                             ELSE IF x.kind = "remove" THEN 0 ELSE questions[x.q].decisions
    BY AfterFields
  <2> HIDE DEF s
  <2>4. ASSUME NEW q \in Question \ disturbed' PROVE DecisionOf(q)'
    <3>1. DecisionOf(q) /\ questions[q].decisions \in Nat
      BY <1>q, <2>1, <2>4 DEF Decision
    <3>2. CASE x.kind = "decide" /\ q = x.q
      <4>1. /\ x.mine /\ page.at = "room" /\ page.q = q /\ questions[q].decisions = 0
            /\ \A y \in calls : y.kind = "decide" /\ y.q = q => y = x
        BY <2>1, <3>1, <3>2 DEF DecisionOf, DecidingOne
      <4>2. questions'[q].decisions = IF Accepts(x) THEN 1 ELSE 0
        BY <2>1, <2>3, <3>2, <4>1
      <4>3. DecidingOne(q)'
        BY <2>1, <3>2, <4>1, <4>2 DEF DecidingOne
      <4>4. q \in Deciding'
        BY <2>1, <3>2 DEF Deciding
      <4>5. QED
        BY <4>2, <4>3, <4>4 DEF DecisionOf, OffersNoOther
    <3>3. CASE ~ (x.kind = "decide" /\ q = x.q)
      <4>1. questions'[q].decisions \in {0, questions[q].decisions}
        BY <2>1, <2>3, <2>4, <3>3
      <4>2. DecidingOne(q)'
        BY <2>1, <3>1, <3>3, <4>1 DEF DecisionOf, DecidingOne
      <4>3. OffersNoOther(q)'
        <5>1. SUFFICES ASSUME questions'[q].decisions = 1, q \notin Deciding', page.at = "room", page.q = q,
                              ~ page.recorded
                       PROVE  SeenDecided'
          BY <2>1 DEF OffersNoOther
        <5>2. questions[q].decisions = 1 /\ q \notin Deciding
          BY <2>1, <3>3, <4>1, <5>1 DEF Deciding
        <5>3. SeenDecided
          BY <3>1, <5>1, <5>2 DEF DecisionOf, OffersNoOther
        <5>4. ASSUME s.mine, s.kind = "get", s.at = "done" PROVE s.view.decided
          <6>1. x.q = q
            BY <2>1, <5>1, <5>4 DEF Mine
          <6>2. s.view = View(q)
            BY <2>1, <2>2, <5>4, <6>1
          <6>3. View(q).decided = (questions[q].decisions > 0)
            BY DEF View
          <6>4. questions[q].decisions > 0
            BY <5>2
          <6>5. QED
            BY <6>2, <6>3, <6>4
        <5>5. QED
          BY <2>1, <5>3, <5>4 DEF SeenDecided
      <4>4. QED
        BY <3>1, <4>1, <4>2, <4>3 DEF DecisionOf
    <3>4. QED
      BY <3>2, <3>3
  <2>5. QED
    BY <2>4 DEF Decision
<1>8. ASSUME NEW x \in calls, Lose(x)
      PROVE  Decision'
  <2>1. /\ calls' = (calls \ {x}) \cup {LostAs(x)} /\ LostAs(x).at = "refused"
        /\ LostAs(x).kind = x.kind /\ LostAs(x).q = x.q
        /\ disturbed' = disturbed \cup IF x.kind = "decide" THEN {x.q} ELSE {}
        /\ UNCHANGED <<questions, page>>
    BY <1>8, RoomLoses, Answers
  <2>2. ASSUME NEW q \in Question \ disturbed' PROVE DecisionOf(q)'
    <3>1. DecisionOf(q) /\ ~ (x.kind = "decide" /\ x.q = q)
      BY <2>1, <2>2 DEF Decision
    <3>2. DecidingOne(q)'
      BY <2>1, <3>1 DEF DecisionOf, DecidingOne
    <3>3. q \in Deciding <=> q \in Deciding'
      BY <2>1, <3>1 DEF Deciding
    <3>4. QED
      BY <2>1, <3>1, <3>2, <3>3 DEF DecisionOf, OffersNoOther, SeenDecided
  <2>3. QED
    BY <2>2 DEF Decision
<1>9. ASSUME NEW x \in calls, Asked(x)
      PROVE  Decision'
  <2>1. x.kind \in {"create", "attach", "send"} /\ questions' = questions
    BY <1>9, AskedDoes
  <2>2. CASE Ok(x) /\ Onward(x) = {}
    <3>1. /\ calls' = (Orphaned \ {Orphan(x)}) \cup {Out("get", x.q)} /\ page'.view = NoView
          /\ Out("get", x.q).kind = "get" /\ Out("get", x.q).at = "out"
          /\ disturbed' = disturbed \cup Deciding
      BY <1>9, <2>2, AskedDoes
    <3>2. QED
      BY <2>1, <3>1, LeavingUndecided DEF Decision
  <2>3. CASE Ok(x) /\ Onward(x) # {}
    <3>1. PICK y : calls' = (calls \ {x}) \cup {y} /\ y.kind \in {"attach", "send"} /\ page' = page /\ disturbed' = disturbed
      BY <1>9, <2>3, AskedDoes
    <3>2. QED
      BY <2>1, <3>1, UndecidedKept DEF Decision
  <2>4. CASE ~ Ok(x)
    <3>1. /\ calls' = calls \ {x} /\ page'.at = page.at /\ page'.q = page.q
          /\ page'.view = page.view /\ page'.recorded = page.recorded /\ disturbed' = disturbed
      BY <1>9, <2>4, AskedDoes
    <3>2. QED
      BY <2>1, <3>1, UndecidedKept DEF Decision
  <2>5. QED
    BY <2>2, <2>3, <2>4
<1>10. ASSUME NEW x \in calls, Acted(x)
       PROVE  Decision'
  <2> DEFINE get == [Out("get", x.q) EXCEPT !.mine = x.mine, !.run = TRUE]
  <2>1. /\ calls' = (calls \ {x}) \cup {get} /\ get.kind = "get" /\ get.at = "out"
        /\ page'.at = page.at /\ page'.q = page.q /\ page'.view = page.view
        /\ page'.recorded = (page.recorded \/ (x.kind = "decide" /\ x.mine))
        /\ UNCHANGED <<questions, disturbed>>
    BY <1>10, ActedDoes
  <2> HIDE DEF get
  <2>2. ASSUME NEW q \in Question \ disturbed' PROVE DecisionOf(q)'
    <3>1. DecisionOf(q)
      BY <2>1, <2>2 DEF Decision
    <3>2. DecidingOne(q)'
      BY <2>1, <3>1 DEF DecisionOf, DecidingOne
    <3>3. OffersNoOther(q)'
      <4>1. CASE x.kind = "decide" /\ x.q = q
        <5>1. x.mine
          BY <3>1, <4>1 DEF DecisionOf, DecidingOne
        <5>2. page'.recorded
          BY <2>1, <4>1, <5>1
        <5>3. QED
          BY <5>2 DEF OffersNoOther
      <4>2. CASE ~ (x.kind = "decide" /\ x.q = q)
        <5>1. q \in Deciding <=> q \in Deciding'
          BY <2>1, <4>2 DEF Deciding
        <5>2. SeenDecided => SeenDecided'
          BY <2>1 DEF SeenDecided
        <5>3. page.recorded => page'.recorded
          BY <2>1
        <5>4. QED
          BY <2>1, <3>1, <5>1, <5>2, <5>3 DEF DecisionOf, OffersNoOther
      <4>3. QED
        BY <4>1, <4>2
    <3>4. QED
      BY <2>1, <3>1, <3>2, <3>3 DEF DecisionOf
  <2>3. QED
    BY <2>2 DEF Decision
<1>11. ASSUME NEW x \in calls, Fails(x)
       PROVE  Decision'
  <2>1. /\ x.at = "refused" /\ calls' = calls \ {x}
        /\ page'.at = page.at /\ page'.q = page.q /\ page'.view = page.view /\ page'.recorded = page.recorded
        /\ UNCHANGED <<questions, disturbed>>
    BY <1>11, FailsDoes
  <2>2. ASSUME NEW q \in Question \ disturbed' PROVE DecisionOf(q)'
    <3>1. DecisionOf(q)
      BY <2>1, <2>2 DEF Decision
    <3>2. CASE x.kind = "decide" /\ x.q = q
      <4>1. questions[q].decisions = 0
        BY <2>1, <3>1, <3>2 DEF DecisionOf, DecidingOne
      <4>2. QED
        BY <2>1, <3>1, <4>1 DEF DecisionOf, DecidingOne, OffersNoOther
    <3>3. CASE ~ (x.kind = "decide" /\ x.q = q)
      BY <2>1, <3>1, <3>3, UndecidedKept
    <3>4. QED
      BY <3>2, <3>3
  <2>3. QED
    BY <2>2 DEF Decision
<1>12. ASSUME NEW x \in calls, Shown(x)
       PROVE  Decision'
  <2>1. /\ x.kind = "get" /\ x.at = "done" /\ calls' = calls \ {x}
        /\ page'.at = page.at /\ page'.q = page.q /\ page'.recorded = page.recorded
        /\ page'.view = IF x.mine THEN x.view ELSE page.view
        /\ UNCHANGED <<questions, disturbed>>
    BY <1>12, ShownDoes
  <2>2. Deciding' = Deciding
    BY <2>1 DEF Deciding
  <2>3. SeenDecided => SeenDecided'
    BY <2>1 DEF SeenDecided
  <2>4. ASSUME NEW q \in Question \ disturbed' PROVE DecisionOf(q)'
    <3>1. DecisionOf(q)
      BY <2>1, <2>4 DEF Decision
    <3>2. DecidingOne(q)'
      BY <2>1, <3>1 DEF DecisionOf, DecidingOne
    <3>3. OffersNoOther(q)'
      BY <2>1, <2>2, <2>3, <3>1 DEF DecisionOf, OffersNoOther
    <3>4. QED
      BY <2>1, <3>1, <3>2, <3>3 DEF DecisionOf
  <2>5. QED
    BY <2>4 DEF Decision
<1>13. ASSUME NEW x \in calls, Removed(x)
       PROVE  Decision'
  <2>1. /\ calls' = Orphaned \ {Orphan(x)} /\ page'.at = "list" /\ questions' = questions
        /\ disturbed' = disturbed \cup Deciding
    BY <1>13, RemovedDoes
  <2>2. QED
    BY <2>1, LeavingUndecided DEF Decision
<1>14. CASE SendAnswers
  <2>1. /\ \A q \in Question : questions'[q].decisions = questions[q].decisions
        /\ UNCHANGED <<page, calls, disturbed>>
    BY <1>14, SendAnswersDoes
  <2>2. QED
    BY <2>1, UndecidedKept DEF Decision
<1>15. CASE CloseQuestionnaire
  BY <1>15, UndecidedKept DEF CloseQuestionnaire, Decision
<1>16. ASSUME NEW p \in Person, NEW q \in Question, OpenQuestionnaire(p, q)
       PROVE  Decision'
  BY <1>16, UndecidedKept DEF OpenQuestionnaire, Decision
<1>17. CASE UNCHANGED roomVars
  BY <1>17, UndecidedKept DEF roomVars, Decision
<1>18. QED
  BY <1>1, <1>2, <1>3, <1>4, <1>5, <1>6, <1>7, <1>8, <1>9, <1>10, <1>11, <1>12, <1>13, <1>14,
     <1>15, <1>16, <1>17 DEF RoomNext

-----------------------------------------------------------------------------
\* All of it holds in every state.
LEMMA RoomInductive == RoomSpec => []RoomIInv
<1>1. RoomInit => RoomIInv
  <2>1. SUFFICES ASSUME RoomInit PROVE RoomIInv
    OBVIOUS
  <2>2. RoomTypeOK
    BY <2>1, RoomTypeInit
  <2>3. /\ calls = {} /\ index = {} /\ page.at = "list"
        /\ \A q \in Question : questions[q] = NoQuestion /\ links[q] = <<>>
    BY <2>1, Pages DEF RoomInit
  <2>4. /\ NoQuestion.status = "none" /\ NoQuestion.decisions = 0
        /\ \A p \in Person : NoQuestion.token[p] = 0
    BY DEF NoQuestion
  <2>5. Creation /\ InList /\ Mine
    BY <2>3, <2>4, NoLinks DEF Creation, OneCreation, Followed, Known, InList, AskedIsListed, Lives, Mine
  <2>6. LinksKnown /\ Decision
    BY <2>3, <2>4 DEF LinksKnown, LinksKnownOf, Decision, DecisionOf, DecidingOne, OffersNoOther
  <2>7. QED
    BY <2>2, <2>5, <2>6 DEF RoomIInv
<1>2. RoomIInv /\ [RoomNext]_roomVars => RoomIInv'
  BY RoomTypeStep, CreationStep, ListedStep, LinksKnownStep, MineStep, DecisionStep DEF RoomIInv
<1>3. QED
  BY <1>1, <1>2, PTL DEF RoomSpec

\* Whatever is pressed, answered, lost or left, questions, links, pages and requests
\* are such as the pages and the routes take them to be (question-room.tsx,
\* consultations.ts).
THEOREM RoomTypes == RoomSpec => []RoomTypeOK
<1>1. RoomIInv => RoomTypeOK
  BY DEF RoomIInv
<1>2. QED
  BY <1>1, RoomInductive, PTL

\* What the browser keeps of the questions asked from it is true: each that lives
\* and somebody has a link to is listed, and the links work, unless invitations crossed or an answer was lost
\* (consultations.ts:111-125, 180-188).
THEOREM KeptHere == RoomSpec => []KeptHereIsTrue
<1>1. RoomIInv => KeptHereIsTrue
  BY DEF RoomIInv, InList, LinksKnown, LinksKnownOf, KeptHereIsTrue, LinksShownWork
<1>2. QED
  BY <1>1, RoomInductive, PTL

\* A decision is recorded once, whatever views arrive late, unless something came
\* between while it was on its way (question-room.tsx:382-401, 722-730).
THEOREM Decided == RoomSpec => []DecidedOnce
<1>1. RoomIInv => DecidedOnce
  BY DEF RoomIInv, Decision, DecisionOf, DecidedOnce
<1>2. QED
  BY <1>1, RoomInductive, PTL

-----------------------------------------------------------------------------
(* Types of the desk.                                                      *)

Shelves == {"agents", "horizon", "checkpoint", "log", "documents"}

Steps == {"none", "calibrate", "running", "results", "locked"}

Marks == {"none", "active", "proposed", "retired", "found", "taught", "recorded", "judged", "logged",
          "attached", "published", "watched", "unknown"}

StoredRow == [typed : Nat, link : Space \cup {0}, log : SUBSET Entry, imported : SUBSET Entry]

PutRow == [to : Marks, topics : SUBSET Topic]

SightRow == [item : Marks, topics : SUBSET Topic, fresh : BOOLEAN]

DeskRow ==
  [ at : Shelves \cup {"away", "organisation", "analysis"}, typed : Nat, link : Space \cup {0},
    sight : SightRow, busy : PutRow, step : Steps, round : Nat, crowded : BOOLEAN, timer : BOOLEAN ]

SpaceRow ==
  [ status : {"none", "lives", "gone"}, profile : Nat, log : [Entry -> Nat], topics : SUBSET Topic,
    covered : SUBSET Shelves, published : BOOLEAN, item : [Shelves -> Marks] ]

JobRow ==
  [ kind : {"open", "act", "sync", "lock", "clear"}, page : Shelves \cup {"organisation", "analysis"},
    at : {"create", "profile", "entry", "get", "put", "delete"}, state : {"out", "done", "refused"},
    link : Space \cup {0}, typed : Nat, todo : SUBSET Entry, put : PutRow, sight : SightRow, mine : BOOLEAN ]

DeskTypeOK ==
  /\ stored \in StoredRow /\ desk \in DeskRow
  /\ spaces \in [Space -> SpaceRow]
  /\ jobs \subseteq JobRow
  /\ moves \in Nat /\ adrift \subseteq Space \cup {0} /\ doubled \subseteq Entry

-----------------------------------------------------------------------------
\* Each kind of job has steps of its own, and does them for pages of its own.
Course(j) ==
  /\ j.kind = "sync" => j.at \in {"create", "profile"} /\ j.page = "organisation"
  /\ j.kind = "lock" => j.at \in {"create", "entry"} /\ j.todo # {}
  /\ j.kind = "clear" => j.at = "delete" /\ ~ j.mine
  /\ j.kind = "open" => j.at \in {"create", "entry", "get"} /\ j.page \in DeskPages
  /\ j.kind = "act" => j.at \in {"put", "get"} /\ j.page \in DeskPages
  /\ j.at = "entry" => j.todo # {}
  /\ j.todo # {} => j.kind \in {"open", "lock"} /\ j.at \in {"create", "entry"}

\* A link leads to a workspace that was created, and a request goes to one.
Exists(n) == n \in Space /\ spaces[n].status # "none"

Asking(j) ==
  /\ Course(j)
  /\ j.at # "create" \/ j.state = "done" => Exists(j.link)
  /\ j.mine => j.page = desk.at
  /\ j.mine /\ j.kind = "act" => desk.link # 0

Linked ==
  /\ stored.link # 0 => Exists(stored.link)
  /\ desk.link # 0 => Exists(desk.link)
  /\ desk.at \in DeskPages /\ desk.sight # NoSight => desk.link # 0
  /\ desk.timer => desk.at = "organisation"
  /\ desk.step # "none" => desk.at = "analysis"
  /\ \A j \in jobs : Asking(j)

\* A workspace that lives is linked, or its link is on the way, or its deletion.
Kept ==
  /\ stored.typed = typed
  /\ \A n \in Space : spaces[n].status = "lives" =>
       \/ n \in adrift
       \/ n = stored.link
       \/ \E j \in jobs : j.link = n /\ \/ j.at = "create" /\ j.state = "done"
                                        \/ j.at = "delete" /\ j.state = "out"

\* Nobody creates a workspace while there is a link, but who began before it was
\* stored: that link is known to be written over.  The organisation's page has a
\* link only while there is one.
Overwriting ==
  /\ Creating /\ stored.link # 0 => stored.link \in adrift
  /\ desk.at = "organisation" /\ desk.link # 0 =>
       stored.link # 0 /\ (Creating => desk.link \in adrift)

\* A decision has been sent when a workspace has it; whoever sends it has done so
\* when the answer is in.
Sent(j, e) == j.at = "entry" /\ j.state = "done" /\ e = Newest(j.todo)

SentBy(e) == \E j \in jobs : e \in j.todo /\ Sent(j, e)

NoneSends(e) == \A j \in jobs : e \notin j.todo

Held(n, e) == spaces[n].log[e] > 0

SentOnce(e) ==
  /\ \A i, j \in jobs : e \in i.todo /\ e \in j.todo => i = j
  /\ e \in stored.imported => NoneSends(e)
  /\ \A n \in Space : Held(n, e) =>
       /\ spaces[n].log[e] = 1 /\ \A k \in Space : Held(k, e) => k = n
       /\ e \in stored.imported \/ SentBy(e)

LockedFor(e) ==
  /\ e \in stored.imported \/ SentBy(e) => \E n \in Space : Held(n, e)
  /\ \A n \in Space : Held(n, e) => e \in stored.log
  /\ e \notin doubled => SentOnce(e)

Locked ==
  /\ stored.imported \subseteq stored.log /\ \A j \in jobs : j.todo \subseteq stored.log
  /\ \A e \in Entry : LockedFor(e)

\* A page that nobody crowds waits for one thing at a time.
UpToDate == spaces[desk.link].status = "lives" => desk.sight = Sight(desk.at, desk.link)

Waits(j) ==
  /\ j.mine /\ j.page = desk.at
  /\ \/ j.kind = "open" /\ j.at \in {"create", "entry", "get"} /\ desk.sight = NoSight
     \/ j.kind = "act" /\ j.at \in {"put", "get"} /\ j.link = desk.link
  /\ j.at = "put" =>
       /\ desk.sight # NoSight
       /\ desk.at \in {"log", "documents"} => j.put.to \notin {"published", "watched"}
       /\ j.state = "out" => UpToDate
       /\ j.state = "done" /\ desk.at \in {"log", "documents"} =>
            desk.link \in Space /\ Sight(desk.at, desk.link) = [desk.sight EXCEPT !.item = j.put.to]
  /\ j.at = "get" /\ j.state = "done" => j.sight = Sight(desk.at, j.link)
  /\ j.at # "create" /\ j.state = "refused" => spaces[j.link].status # "lives"

Uncrowded ==
  desk.at \in DeskPages /\ ~ desk.crowded =>
    /\ \A i, j \in jobs : i = j
    /\ \A j \in jobs : Waits(j)
    /\ jobs = {} /\ desk.sight # NoSight => UpToDate

DeskIInv == DeskTypeOK /\ Linked /\ Kept /\ Overwriting /\ Locked /\ Uncrowded


-----------------------------------------------------------------------------
(* Numbers of decisions and of workspaces.                                 *)

\* Under a relation that holds what is less, a least element is the smallest.
LEMMA SmallestOf ==
  ASSUME NEW R, \A x, y \in Nat : x < y => <<x, y>> \in R,
         NEW S \in SUBSET Nat, \E n \in S : \A k \in S : ~ (<<k, n>> \in R)
  PROVE  \E n \in S : \A k \in S : n <= k
<1>1. PICK n \in S : \A k \in S : ~ (<<k, n>> \in R)
  OBVIOUS
<1>2. n \in Nat
  OBVIOUS
<1>3. ASSUME NEW k \in S PROVE n <= k
  <2>1. k \in Nat /\ ~ (<<k, n>> \in R)
    BY <1>1
  <2>2. ~ (k < n)
    BY <1>2, <2>1, Zenon
  <2>3. QED
    BY <1>2, <2>1, <2>2
<1>4. QED
  BY <1>3

\* Numbers, if any, have a smallest.
LEMMA Smallest ==
  ASSUME NEW S \in SUBSET Nat, S # {}
  PROVE  \E n \in S : \A k \in S : n <= k
<1>1. ASSUME NEW x \in Nat, NEW y \in Nat, x < y
      PROVE  <<x, y>> \in OpToRel(<, Nat)
  BY <1>1 DEF OpToRel
<1>2. \E n \in S : \A k \in S : ~ (<<k, n>> \in OpToRel(<, Nat))
  BY NatLessThanWellFounded, WFMin, Zenon
<1>3. QED
  BY <1>1, <1>2, SmallestOf, Zenon

HasGreatest(S) == \E e \in S : \A k \in S : k <= e

\* Finitely many numbers, if any, have a greatest: a smallest set without one
\* would have one after all.
LEMMA Greatest ==
  ASSUME NEW S \in SUBSET Nat, IsFiniteSet(S), S # {}
  PROVE  HasGreatest(S)
<1> DEFINE Wrong(T) == T \in SUBSET S /\ T # {} /\ ~ HasGreatest(T)
           Sizes == {c \in Nat : \E T \in SUBSET S : Wrong(T) /\ Cardinality(T) = c}
<1>1. SUFFICES ASSUME ~ HasGreatest(S) PROVE FALSE
  OBVIOUS
<1>2. Cardinality(S) \in Sizes
  BY <1>1, FS_CardinalityType
<1>3. PICK c \in Sizes : \A d \in Sizes : c <= d
  <2>1. Sizes \in SUBSET Nat /\ Sizes # {}
    BY <1>2
  <2> HIDE DEF Sizes
  <2>2. QED
    BY <2>1, Smallest
<1>4. PICK T \in SUBSET S : Wrong(T) /\ Cardinality(T) = c
  OBVIOUS
<1>5. PICK x \in T : TRUE
  BY <1>4
<1>6. IsFiniteSet(T) /\ T \in SUBSET Nat
  BY FS_Subset
<1>7. IsFiniteSet(T \ {x}) /\ Cardinality(T \ {x}) = c - 1
  BY <1>4, <1>5, <1>6, FS_RemoveElement
<1>8. c \in Nat /\ c - 1 \in Nat
  BY <1>7, FS_CardinalityType
<1>9. ~ Wrong(T \ {x})
  <2>1. SUFFICES ASSUME Wrong(T \ {x}) PROVE FALSE
    OBVIOUS
  <2>2. c - 1 \in Sizes
    BY <1>7, <1>8, <2>1
  <2> HIDE DEF Sizes
  <2>3. QED
    BY <1>3, <1>8, <2>2
<1>10. T \ {x} = {} => HasGreatest(T)
  BY <1>5, <1>6 DEF HasGreatest
<1>11. HasGreatest(T \ {x}) => HasGreatest(T)
  <2>1. HAVE HasGreatest(T \ {x})
  <2>2. PICK e \in T \ {x} : \A k \in T \ {x} : k <= e
    BY <2>1 DEF HasGreatest
  <2>3. e \in Nat /\ x \in Nat /\ \A k \in T : k \in Nat
    BY <1>5, <1>6
  <2>4. CASE x <= e
    BY <2>2, <2>4 DEF HasGreatest
  <2>5. CASE e < x
    <3>1. \A k \in T : k <= x
      BY <2>2, <2>3, <2>5
    <3>2. QED
      BY <1>5, <3>1 DEF HasGreatest
  <2>6. QED
    BY <2>3, <2>4, <2>5
<1>12. QED
  BY <1>4, <1>9, <1>10, <1>11

\* Of some decisions one is the newest.
LEMMA NewestIn ==
  ASSUME NEW S \in SUBSET Entry, S # {}
  PROVE  Newest(S) \in S
<1>1. S \in SUBSET Nat /\ IsFiniteSet(S)
  BY DeskAssumption, FS_Subset
<1>2. \E e \in S : \A k \in S : k <= e
  BY <1>1, Greatest DEF HasGreatest
<1>3. QED
  BY <1>2 DEF Newest

\* Of the workspaces not created yet one is the first.
LEMMA FirstFree ==
  ASSUME NEW S \in SUBSET Space, S # {}
  PROVE  (CHOOSE k \in S : \A i \in S : k <= i) \in S
<1>1. S \in SUBSET Nat
  BY DeskAssumption
<1>2. \E k \in S : \A i \in S : k <= i
  BY <1>1, Smallest
<1>3. QED
  BY <1>2

\* Of the decisions not locked yet one is the first.
LEMMA NextEntry ==
  ASSUME NEW log \in SUBSET Entry, Entry \ log # {}
  PROVE  (CHOOSE n \in Entry : n \notin log /\ \A k \in Entry : k < n => k \in log) \in Entry \ log
<1> DEFINE rest == Entry \ log
<1>1. rest \in SUBSET Nat /\ rest # {}
  BY DeskAssumption
<1>2. PICK n \in rest : \A k \in rest : n <= k
  <2> HIDE DEF rest
  <2>1. QED
    BY <1>1, Smallest
<1>3. \A k \in Entry : k < n => k \in log
  BY <1>1, <1>2, DeskAssumption
<1>4. QED
  BY <1>2, <1>3

-----------------------------------------------------------------------------
(* What a page starts.                                                     *)

\* Nothing to put and nothing to see are well-formed.
LEMMA NullRows == NoPut \in PutRow /\ NoSight \in SightRow
BY DEF NoPut, NoSight, PutRow, SightRow, Marks

\* A job as a page starts it.
LEMMA FreshJob ==
  ASSUME NEW kind \in {"open", "act", "sync", "lock", "clear"},
         NEW shelf \in Shelves \cup {"organisation", "analysis"}
  PROVE  /\ Job(kind, shelf) \in JobRow
         /\ Job(kind, shelf).kind = kind /\ Job(kind, shelf).page = shelf
         /\ Job(kind, shelf).todo = {} /\ Job(kind, shelf).mine = TRUE
BY NullRows DEF Job, JobRow

JobFor(kind, shelf, todo) == [Job(kind, shelf) EXCEPT !.todo = todo]

\* A decision locked is to be sent.
LEMMA FreshLock ==
  ASSUME NEW e \in Entry
  PROVE  /\ JobFor("lock", "analysis", {e}) \in JobRow
         /\ JobFor("lock", "analysis", {e}).kind = "lock"
         /\ JobFor("lock", "analysis", {e}).page = "analysis"
         /\ JobFor("lock", "analysis", {e}).todo = {e}
         /\ JobFor("lock", "analysis", {e}).mine = TRUE
BY NullRows DEF JobFor, Job, JobRow

\* A page opened has decisions to send, or none.
LEMMA FreshOpen ==
  ASSUME NEW p \in Shelves, NEW todo \in SUBSET Entry
  PROVE  /\ JobFor("open", p, todo) \in JobRow
         /\ JobFor("open", p, todo).kind = "open"
         /\ JobFor("open", p, todo).page = p
         /\ JobFor("open", p, todo).todo = todo
         /\ JobFor("open", p, todo).mine = TRUE
BY NullRows DEF JobFor, Job, JobRow

PutJob(shelf, link, put) == [Job("act", shelf) EXCEPT !.at = "put", !.link = link, !.put = put]

\* What a page puts goes to its workspace.
LEMMA FreshPut ==
  ASSUME NEW shelf \in Shelves, NEW link \in Space \cup {0}, NEW put \in PutRow
  PROVE  /\ PutJob(shelf, link, put) \in JobRow
         /\ PutJob(shelf, link, put).kind = "act"
         /\ PutJob(shelf, link, put).page = shelf
         /\ PutJob(shelf, link, put).at = "put"
         /\ PutJob(shelf, link, put).state = "out"
         /\ PutJob(shelf, link, put).link = link
         /\ PutJob(shelf, link, put).put = put
         /\ PutJob(shelf, link, put).todo = {}
         /\ PutJob(shelf, link, put).mine = TRUE
BY NullRows DEF PutJob, Job, JobRow

DeleteJob(link) == [Job("clear", "organisation") EXCEPT !.at = "delete", !.link = link, !.mine = FALSE]

\* A board cleared deletes its workspace, and no page waits for it.
LEMMA FreshDelete ==
  ASSUME NEW link \in Space \cup {0}
  PROVE  /\ DeleteJob(link) \in JobRow
         /\ DeleteJob(link).kind = "clear"
         /\ DeleteJob(link).at = "delete"
         /\ DeleteJob(link).state = "out"
         /\ DeleteJob(link).link = link
         /\ DeleteJob(link).todo = {}
         /\ DeleteJob(link).mine = FALSE
BY NullRows DEF DeleteJob, Job, JobRow

\* The parts two jobs have in common.
Alike(i, j) ==
  /\ i.kind = j.kind /\ i.page = j.page /\ i.at = j.at /\ i.state = j.state /\ i.link = j.link
  /\ i.todo = j.todo /\ i.put = j.put /\ i.sight = j.sight

Left(j) == [j EXCEPT !.mine = FALSE]

Missed(j) == [j EXCEPT !.state = "refused"]

Served(j, state, link, sight) == [j EXCEPT !.state = state, !.link = link, !.sight = sight]

Begun(j) == [j EXCEPT !.at = FirstStep(j), !.state = "out"]

Looking(j) == [j EXCEPT !.at = "get", !.state = "out"]

NothingLeft(j) == [j EXCEPT !.todo = {}, !.at = "get", !.state = "out"]

Rest(j) == [j EXCEPT !.todo = @ \ {Newest(j.todo)}]

\* A job whose page is left differs only in that.
LEMMA LeftRow ==
  ASSUME NEW j \in JobRow
  PROVE  Left(j) \in JobRow /\ Left(j).mine = FALSE /\ Alike(Left(j), j)
BY DEF Left, JobRow, Alike

\* A job that got no answer is refused, and the job it was otherwise.
LEMMA MissedRow ==
  ASSUME NEW j \in JobRow
  PROVE  /\ Missed(j) \in JobRow /\ Missed(j).state = "refused"
         /\ Missed(j).kind = j.kind /\ Missed(j).page = j.page /\ Missed(j).at = j.at
         /\ Missed(j).link = j.link /\ Missed(j).todo = j.todo /\ Missed(j).mine = j.mine
BY DEF Missed, JobRow

\* A job that was served has its answer, and is the job it was otherwise.
LEMMA ServedRow ==
  ASSUME NEW j \in JobRow, NEW state \in {"done", "refused"}, NEW link \in Space, NEW sight \in SightRow
  PROVE  /\ Served(j, state, link, sight) \in JobRow
         /\ Served(j, state, link, sight).state = state
         /\ Served(j, state, link, sight).link = link
         /\ Served(j, state, link, sight).sight = sight
         /\ Served(j, state, link, sight).kind = j.kind
         /\ Served(j, state, link, sight).page = j.page
         /\ Served(j, state, link, sight).at = j.at
         /\ Served(j, state, link, sight).todo = j.todo
         /\ Served(j, state, link, sight).put = j.put
         /\ Served(j, state, link, sight).mine = j.mine
BY DEF Served, JobRow

\* With a workspace at hand a job begins with what it is to send.
LEMMA FirstSteps ==
  ASSUME NEW j, j.kind = "sync" => j.todo = {}
  PROVE  /\ FirstStep(j) \in {"profile", "entry", "get"}
         /\ j.kind = "sync" => FirstStep(j) = "profile"
         /\ FirstStep(j) = "entry" => j.kind = "lock" \/ j.todo # {}
         /\ j.todo # {} /\ j.kind # "sync" => FirstStep(j) = "entry"
         /\ j.kind = "open" /\ j.todo = {} => FirstStep(j) = "get"
<1>1. CASE j.kind = "sync"
  BY <1>1 DEF FirstStep
<1>2. CASE j.kind # "sync" /\ (j.kind = "lock" \/ j.todo # {})
  BY <1>2 DEF FirstStep
<1>3. CASE j.kind # "sync" /\ j.kind # "lock" /\ j.todo = {}
  BY <1>3 DEF FirstStep
<1>4. QED
  BY <1>1, <1>2, <1>3

\* A job that has its workspace is at its first step.
LEMMA BegunRow ==
  ASSUME NEW j \in JobRow, j.kind = "sync" => j.todo = {}
  PROVE  /\ Begun(j) \in JobRow /\ Begun(j).at = FirstStep(j) /\ Begun(j).state = "out"
         /\ Begun(j).kind = j.kind /\ Begun(j).page = j.page /\ Begun(j).link = j.link
         /\ Begun(j).todo = j.todo /\ Begun(j).mine = j.mine
<1>1. FirstStep(j) \in {"profile", "entry", "get"}
  BY FirstSteps
<1>2. QED
  BY <1>1 DEF Begun, JobRow

\* A job that looks is the job it was otherwise.
LEMMA LookingRow ==
  ASSUME NEW j \in JobRow
  PROVE  /\ Looking(j) \in JobRow /\ Looking(j).at = "get" /\ Looking(j).state = "out"
         /\ Looking(j).kind = j.kind /\ Looking(j).page = j.page /\ Looking(j).link = j.link
         /\ Looking(j).todo = j.todo /\ Looking(j).mine = j.mine
BY DEF Looking, JobRow

\* A job that has sent everything looks.
LEMMA NothingLeftRow ==
  ASSUME NEW j \in JobRow
  PROVE  /\ NothingLeft(j) \in JobRow /\ NothingLeft(j).at = "get" /\ NothingLeft(j).state = "out"
         /\ NothingLeft(j).kind = j.kind /\ NothingLeft(j).page = j.page
         /\ NothingLeft(j).link = j.link /\ NothingLeft(j).todo = {} /\ NothingLeft(j).mine = j.mine
BY DEF NothingLeft, JobRow

\* A job that has sent a decision has the others to send.
LEMMA RestRow ==
  ASSUME NEW j \in JobRow
  PROVE  /\ Rest(j) \in JobRow /\ Rest(j).todo = j.todo \ {Newest(j.todo)}
         /\ Rest(j).kind = j.kind /\ Rest(j).page = j.page /\ Rest(j).mine = j.mine
BY DEF Rest, JobRow

\* Ensuring a workspace: what is started is one job or none, on the link there is
\* or about to create one.
LEMMA EnsuredOne ==
  ASSUME DeskTypeOK, Linked, NEW j \in JobRow, j.kind = "sync" => j.todo = {}
  PROVE  /\ \A a, b \in Ensured(j) : a = b
         /\ \A i \in Ensured(j) :
              /\ i \in JobRow /\ i.state = "out"
              /\ i.kind = j.kind /\ i.page = j.page /\ i.todo = j.todo /\ i.mine = j.mine
              /\ \/ i.at = "create" /\ stored.link = 0
                 \/ i.at = FirstStep(j) /\ Exists(i.link)
<1> DEFINE known == [j EXCEPT !.at = FirstStep(j), !.state = "out", !.link = stored.link, !.typed = stored.typed]
           unknown == [j EXCEPT !.at = "create", !.state = "out", !.typed = stored.typed]
<1>1. stored.link \in Space \cup {0} /\ stored.typed \in Nat
  BY DEF DeskTypeOK, StoredRow
<1>2. FirstStep(j) \in {"profile", "entry", "get"}
  BY FirstSteps
<1>3. /\ known \in JobRow /\ known.state = "out" /\ known.at = FirstStep(j) /\ known.link = stored.link
      /\ known.kind = j.kind /\ known.page = j.page /\ known.todo = j.todo /\ known.mine = j.mine
  BY <1>1, <1>2 DEF JobRow
<1>4. /\ unknown \in JobRow /\ unknown.state = "out" /\ unknown.at = "create"
      /\ unknown.kind = j.kind /\ unknown.page = j.page /\ unknown.todo = j.todo /\ unknown.mine = j.mine
  BY <1>1 DEF JobRow
<1>5. Ensured(j) = IF stored.link # 0 THEN {known} ELSE IF stored.typed = 0 THEN {} ELSE {unknown}
  BY Zenon DEF Ensured
<1>6. stored.link # 0 => Exists(stored.link)
  BY DEF Linked
<1> HIDE DEF known, unknown
<1>7. QED
  BY <1>3, <1>4, <1>5, <1>6

-----------------------------------------------------------------------------
(* What the actions do.                                                    *)

\* Another page has nothing of a workspace.
LEMMA AwayRow ==
  /\ OtherPage \in DeskRow /\ OtherPage.link = 0 /\ OtherPage.sight = NoSight
  /\ OtherPage.step = "none" /\ OtherPage.crowded = FALSE /\ OtherPage.timer = FALSE
BY NullRows DEF OtherPage, DeskRow, Steps, Shelves

\* Going to another page of its own leaves what was started behind.
LEMMA GoDoes ==
  ASSUME DeskTypeOK, GoOrganisation \/ GoAnalysis
  PROVE  /\ desk' \in DeskRow /\ desk'.at \in {"organisation", "analysis"}
         /\ desk'.link \in {0, stored.link} /\ (desk'.timer => desk'.at = "organisation")
         /\ desk'.step # "none" => desk'.at = "analysis"
         /\ jobs' = {Left(j) : j \in jobs} /\ moves' = moves + 1
         /\ UNCHANGED <<stored, spaces, typed, adrift, doubled>>
<1>1. stored.link \in Space \cup {0} /\ stored.typed \in Nat
  BY DEF DeskTypeOK, StoredRow
<1>2. ASSUME NEW S, S = Abandoned PROVE S = {Left(j) : j \in jobs}
  BY <1>2 DEF Abandoned, Left
<1>3. CASE GoOrganisation
  <2> DEFINE timer == stored.typed > 0
  <2>1. /\ desk' = [OtherPage EXCEPT !.at = "organisation", !.typed = stored.typed, !.link = stored.link,
                                     !.timer = timer]
        /\ jobs' = Abandoned /\ moves' = moves + 1
        /\ UNCHANGED <<stored, spaces, typed, adrift, doubled>>
    BY <1>3 DEF GoOrganisation
  <2>2. /\ desk' \in DeskRow /\ desk'.at = "organisation" /\ desk'.link = stored.link
        /\ desk'.step = "none"
    <3>1. timer \in BOOLEAN
      BY <1>1
    <3> HIDE DEF timer
    <3>2. QED
      BY <1>1, <2>1, <3>1, AwayRow DEF DeskRow
  <2>3. QED
    BY <1>2, <2>1, <2>2
<1>4. CASE GoAnalysis
  <2>1. /\ desk' = [OtherPage EXCEPT !.at = "analysis", !.step = "calibrate"]
        /\ jobs' = Abandoned /\ moves' = moves + 1
        /\ UNCHANGED <<stored, spaces, typed, adrift, doubled>>
    BY <1>4 DEF GoAnalysis
  <2>2. /\ desk' \in DeskRow /\ desk'.at = "analysis" /\ desk'.link = 0 /\ desk'.timer = FALSE
    BY <2>1, AwayRow DEF DeskRow, Steps
  <2>3. QED
    BY <1>2, <2>1, <2>2
<1>5. QED
  BY <1>3, <1>4

\* Convening the board of agents touches the analysis alone.
LEMMA BoardDoes ==
  ASSUME DeskTypeOK, Convene \/ Convened \/ Cancel \/ Reopen
  PROVE  /\ desk' \in DeskRow /\ desk.step # "none"
         /\ desk'.at = desk.at /\ desk'.link = desk.link /\ desk'.sight = desk.sight
         /\ desk'.timer = desk.timer /\ desk'.crowded = desk.crowded
         /\ UNCHANGED <<stored, spaces, jobs, moves, typed, adrift, doubled>>
<1>1. desk \in DeskRow
  BY DEF DeskTypeOK
<1>2. CASE Convene
  <2>1. /\ desk.step \in {"calibrate", "results"}
        /\ desk' = [desk EXCEPT !.step = "running", !.round = IF desk.step = "results" THEN @ + 1 ELSE 0]
        /\ UNCHANGED <<stored, spaces, jobs, moves, typed, adrift, doubled>>
    BY <1>2 DEF Convene, MayConveneBoard, MayRecalibrate
  <2> DEFINE round == IF desk.step = "results" THEN desk.round + 1 ELSE 0
  <2>2. round \in Nat
    BY <1>1 DEF DeskRow
  <2>3. desk' = [desk EXCEPT !.step = "running", !.round = round]
    BY <2>1
  <2> HIDE DEF round
  <2>4. QED
    BY <1>1, <2>1, <2>2, <2>3 DEF DeskRow, Steps
<1>3. CASE Convened
  <2>1. /\ desk.step = "running"
        /\ \E s \in {"results", "calibrate"} : desk' = [desk EXCEPT !.step = s]
        /\ UNCHANGED <<stored, spaces, jobs, moves, typed, adrift, doubled>>
    BY <1>3 DEF Convened
  <2>2. QED
    BY <1>1, <2>1 DEF DeskRow, Steps
<1>4. CASE Cancel
  <2>1. /\ desk.step = "running" /\ desk' = [desk EXCEPT !.step = "calibrate"]
        /\ UNCHANGED <<stored, spaces, jobs, moves, typed, adrift, doubled>>
    BY <1>4 DEF Cancel
  <2>2. QED
    BY <1>1, <2>1 DEF DeskRow, Steps
<1>5. CASE Reopen
  <2>1. /\ desk.step = "locked" /\ desk' = [desk EXCEPT !.step = "calibrate"]
        /\ UNCHANGED <<stored, spaces, jobs, moves, typed, adrift, doubled>>
    BY <1>5 DEF Reopen
  <2>2. QED
    BY <1>1, <2>1 DEF DeskRow, Steps
<1>6. QED
  BY <1>2, <1>3, <1>4, <1>5

\* An edit stores the page's copy, its link as well.
LEMMA UpdateDoes ==
  ASSUME DeskTypeOK, NEW b \in BOOLEAN, Update(b)
  PROVE  /\ desk.at = "organisation" /\ desk' \in DeskRow
         /\ desk'.at = desk.at /\ desk'.link = desk.link /\ desk'.sight = desk.sight
         /\ desk'.step = desk.step /\ desk'.crowded = desk.crowded
         /\ stored' \in StoredRow /\ stored'.typed = typed' /\ stored'.link = desk.link
         /\ stored'.log = stored.log /\ stored'.imported = stored.imported
         /\ moves' = moves + 1
         /\ adrift' = adrift \cup ({stored.link} \ {desk.link})
         /\ UNCHANGED <<spaces, jobs, doubled>>
<1>1. desk \in DeskRow /\ stored \in StoredRow /\ moves \in Nat
  BY DEF DeskTypeOK
<1>2. /\ desk.at = "organisation" /\ moves' = moves + 1 /\ typed' = moves + 1
      /\ stored' = [stored EXCEPT !.typed = moves + 1, !.link = desk.link]
      /\ desk' = [desk EXCEPT !.typed = moves + 1, !.timer = @ \/ b \/ desk.typed = 0]
      /\ adrift' = adrift \cup ({stored.link} \ {desk.link})
      /\ UNCHANGED <<spaces, jobs, doubled>>
  BY DEF Update
<1>3. moves + 1 \in Nat /\ desk.link \in Space \cup {0}
  BY <1>1 DEF DeskRow
<1>4. /\ stored' \in StoredRow /\ stored'.typed = moves + 1 /\ stored'.link = desk.link
      /\ stored'.log = stored.log /\ stored'.imported = stored.imported
  BY <1>1, <1>2, <1>3 DEF StoredRow
<1> DEFINE timer == desk.timer \/ b \/ desk.typed = 0
<1>5. timer \in BOOLEAN /\ desk' = [desk EXCEPT !.typed = moves + 1, !.timer = timer]
  BY <1>1, <1>2
<1> HIDE DEF timer
<1>6. /\ desk' \in DeskRow /\ desk'.at = desk.at /\ desk'.link = desk.link /\ desk'.sight = desk.sight
      /\ desk'.step = desk.step /\ desk'.crowded = desk.crowded
  BY <1>1, <1>3, <1>5 DEF DeskRow
<1>7. QED
  BY <1>2, <1>4, <1>6

\* When the timer fires the profile is sent.
LEMMA TimerDoes ==
  ASSUME DeskTypeOK, TimerFires
  PROVE  /\ desk.timer = TRUE /\ desk' \in DeskRow
         /\ desk'.at = desk.at /\ desk'.link = desk.link /\ desk'.sight = desk.sight
         /\ desk'.step = desk.step /\ desk'.crowded = desk.crowded /\ desk'.timer = FALSE
         /\ jobs' = jobs \cup Ensured(Job("sync", "organisation"))
         /\ UNCHANGED <<stored, spaces, moves, typed, adrift, doubled>>
<1>1. desk \in DeskRow
  BY DEF DeskTypeOK
<1>2. /\ desk.timer /\ desk' = [desk EXCEPT !.timer = FALSE]
      /\ jobs' = jobs \cup Ensured(Job("sync", "organisation"))
      /\ UNCHANGED <<stored, spaces, moves, typed, adrift, doubled>>
  BY DEF TimerFires
<1>3. desk.timer = TRUE
  BY <1>1, <1>2 DEF DeskRow
<1>4. QED
  BY <1>1, <1>2, <1>3 DEF DeskRow

\* The profile sent, the page takes over what is stored.
LEMMA SyncedDoes ==
  ASSUME DeskTypeOK, NEW j \in jobs, Synced(j)
  PROVE  /\ j.kind = "sync" /\ j.at = "profile"
         /\ desk' \in DeskRow /\ desk'.at = desk.at /\ desk'.sight = desk.sight
         /\ desk'.step = desk.step /\ desk'.crowded = desk.crowded /\ desk'.timer = desk.timer
         /\ desk'.link \in {desk.link, stored.link}
         /\ ~ j.mine => desk' = desk
         /\ jobs' = jobs \ {j}
         /\ UNCHANGED <<stored, spaces, moves, typed, adrift, doubled>>
<1>1. desk \in DeskRow /\ stored.link \in Space \cup {0} /\ stored.typed \in Nat
  BY DEF DeskTypeOK, StoredRow
<1>2. /\ j.kind = "sync" /\ j.at = "profile" /\ jobs' = jobs \ {j}
      /\ desk' = IF j.state = "done" /\ j.mine THEN [desk EXCEPT !.typed = stored.typed, !.link = stored.link]
                 ELSE desk
      /\ UNCHANGED <<stored, spaces, moves, typed, adrift, doubled>>
  BY DEF Synced
<1>3. CASE j.state = "done" /\ j.mine
  <2>1. desk' = [desk EXCEPT !.typed = stored.typed, !.link = stored.link]
    BY <1>2, <1>3
  <2>2. QED
    BY <1>1, <1>2, <1>3, <2>1 DEF DeskRow
<1>4. CASE ~ (j.state = "done" /\ j.mine)
  BY <1>1, <1>2, <1>4
<1>5. QED
  BY <1>3, <1>4

\* Clearing the board forgets the link; the workspace it led to is being deleted.
LEMMA ClearDoes ==
  ASSUME DeskTypeOK, ClearBoard
  PROVE  /\ desk.at = "organisation" /\ desk' \in DeskRow
         /\ desk'.at = desk.at /\ desk'.link = 0 /\ desk'.sight = desk.sight
         /\ desk'.step = desk.step /\ desk'.crowded = desk.crowded /\ desk'.timer = FALSE
         /\ stored' \in StoredRow /\ stored'.typed = typed' /\ stored'.link = 0
         /\ stored'.log = stored.log /\ stored'.imported = stored.imported
         /\ moves' = moves + 1
         /\ jobs' = jobs \cup (IF desk.link = 0 THEN {} ELSE {DeleteJob(desk.link)})
         /\ adrift' = adrift \cup ({stored.link} \ {desk.link})
         /\ UNCHANGED <<spaces, doubled>>
<1>1. desk \in DeskRow /\ stored \in StoredRow /\ moves \in Nat
  BY DEF DeskTypeOK
<1>2. /\ desk.at = "organisation" /\ moves' = moves + 1 /\ typed' = 0
      /\ jobs' = jobs \cup IF desk.link = 0 THEN {}
               ELSE {[Job("clear", "organisation") EXCEPT !.at = "delete", !.link = desk.link, !.mine = FALSE]}
      /\ stored' = [stored EXCEPT !.typed = 0, !.link = 0]
      /\ desk' = [desk EXCEPT !.typed = 0, !.link = 0, !.timer = FALSE]
      /\ adrift' = adrift \cup ({stored.link} \ {desk.link})
      /\ UNCHANGED <<spaces, doubled>>
  BY DEF ClearBoard
<1>3. jobs' = jobs \cup (IF desk.link = 0 THEN {} ELSE {DeleteJob(desk.link)})
  BY <1>2, Zenon DEF DeleteJob
<1>4. /\ stored' \in StoredRow /\ stored'.typed = 0 /\ stored'.link = 0
      /\ stored'.log = stored.log /\ stored'.imported = stored.imported
  BY <1>1, <1>2 DEF StoredRow
<1>5. /\ desk' \in DeskRow /\ desk'.at = desk.at /\ desk'.link = 0 /\ desk'.sight = desk.sight
      /\ desk'.step = desk.step /\ desk'.crowded = desk.crowded /\ desk'.timer = FALSE
  BY <1>1, <1>2 DEF DeskRow
<1>6. QED
  BY <1>2, <1>3, <1>4, <1>5

\* Locking stores the decision, and sends it.
LEMMA LockDoes ==
  ASSUME DeskTypeOK, Lock
  PROVE  \E e \in Entry \ stored.log :
         /\ desk.step # "none" /\ desk' \in DeskRow
         /\ desk'.at = desk.at /\ desk'.link = desk.link /\ desk'.sight = desk.sight
         /\ desk'.timer = desk.timer /\ desk'.crowded = desk.crowded
         /\ stored' \in StoredRow /\ stored'.typed = stored.typed /\ stored'.link = stored.link
         /\ stored'.log = stored.log \cup {e} /\ stored'.imported = stored.imported
         /\ jobs' = jobs \cup Ensured(JobFor("lock", "analysis", {e}))
         /\ moves' = moves + 1
         /\ UNCHANGED <<spaces, typed, adrift, doubled>>
<1>1. desk \in DeskRow /\ stored \in StoredRow /\ stored.log \in SUBSET Entry
  BY DEF DeskTypeOK, StoredRow
<1> DEFINE e == CHOOSE n \in Entry : n \notin stored.log /\ \A k \in Entry : k < n => k \in stored.log
<1>2. /\ desk.step = "results" /\ Entry \ stored.log # {}
      /\ moves' = moves + 1
      /\ stored' = [stored EXCEPT !.log = @ \cup {e}]
      /\ jobs' = jobs \cup Ensured([Job("lock", "analysis") EXCEPT !.todo = {e}])
      /\ desk' = [desk EXCEPT !.step = "locked"]
      /\ UNCHANGED <<spaces, typed, adrift, doubled>>
  BY DEF Lock
<1>3. e \in Entry \ stored.log
  BY <1>1, <1>2, NextEntry
<1> HIDE DEF e
<1>4. jobs' = jobs \cup Ensured(JobFor("lock", "analysis", {e}))
  BY <1>2, Zenon DEF JobFor
<1>5. /\ stored' \in StoredRow /\ stored'.typed = stored.typed /\ stored'.link = stored.link
      /\ stored'.log = stored.log \cup {e} /\ stored'.imported = stored.imported
  BY <1>1, <1>2, <1>3 DEF StoredRow
<1>6. /\ desk' \in DeskRow /\ desk'.at = desk.at /\ desk'.link = desk.link /\ desk'.sight = desk.sight
      /\ desk'.timer = desk.timer /\ desk'.crowded = desk.crowded
  BY <1>1, <1>2 DEF DeskRow, Steps
<1>7. QED
  BY <1>2, <1>3, <1>4, <1>5, <1>6

\* A page opened starts with nothing to show, and what it starts is all it waits
\* for if nothing else was under way.
LEMMA OpenDoes ==
  ASSUME DeskTypeOK, NEW p \in DeskPages, OpenPage(p)
  PROVE  \E todo \in SUBSET Entry :
         /\ todo \subseteq Unsent
         /\ desk' \in DeskRow /\ desk'.at = p /\ desk'.link = stored.link /\ desk'.sight = NoSight
         /\ desk'.step = "none" /\ desk'.timer = FALSE /\ (desk'.crowded \/ jobs = {})
         /\ jobs' = {Left(j) : j \in jobs} \cup Ensured(JobFor("open", p, todo))
         /\ doubled' = doubled \cup {e \in todo : Sending(e) # {}}
         /\ moves' = moves + 1
         /\ UNCHANGED <<stored, spaces, typed, adrift>>
<1> DEFINE todo == IF p = "log" THEN Unsent ELSE {}
           busy == jobs # {}
<1>1. stored.link \in Space \cup {0} /\ stored.log \in SUBSET Entry /\ p \in Shelves
  BY DeskAssumption DEF DeskTypeOK, StoredRow, Shelves
<1>2. /\ moves' = moves + 1
      /\ desk' = [OtherPage EXCEPT !.at = p, !.link = stored.link, !.crowded = jobs # {}]
      /\ jobs' = Abandoned \cup Ensured([Job("open", p) EXCEPT !.todo = todo])
      /\ doubled' = doubled \cup {e \in todo : Sending(e) # {}}
      /\ UNCHANGED <<stored, spaces, typed, adrift>>
  BY DEF OpenPage
<1>3. todo \in SUBSET Entry /\ todo \subseteq Unsent
  BY <1>1 DEF Unsent
<1> HIDE DEF todo
<1>4. Abandoned = {Left(j) : j \in jobs}
  BY Zenon DEF Abandoned, Left
<1>5. jobs' = {Left(j) : j \in jobs} \cup Ensured(JobFor("open", p, todo))
  BY <1>2, <1>4, Zenon DEF JobFor
<1>6. busy \in BOOLEAN /\ desk' = [OtherPage EXCEPT !.at = p, !.link = stored.link, !.crowded = busy]
  BY <1>2
<1>7. /\ desk' \in DeskRow /\ desk'.at = p /\ desk'.link = stored.link /\ desk'.sight = NoSight
      /\ desk'.step = "none" /\ desk'.timer = FALSE /\ desk'.crowded = busy
  <2> HIDE DEF busy
  <2>1. QED
    BY <1>1, <1>6, AwayRow DEF DeskRow
<1>8. QED
  BY <1>2, <1>3, <1>5, <1>7

Offers ==
  {"active", "proposed", "retired", "watched", "found", "taught", "recorded", "none", "published",
   "judged", "logged", "attached"}

\* What a page offers; the log and the documents change one thing in a list.
LEMMA OfferIn ==
  ASSUME NEW p, NEW to \in Offer(p)
  PROVE  to \in Offers /\ (p \in {"log", "documents"} => to \notin {"published", "watched"})
<1> DEFINE item == desk.sight.item
           fresh == desk.sight.fresh
<1>1. CASE p = "agents"
  <2>1. to \in TeachOffer(item) \cup ProposalOffer(item) \cup AppliedOffer(item)
    BY <1>1 DEF Offer
  <2> HIDE DEF item
  <2>2. QED
    BY <1>1, <2>1 DEF TeachOffer, ProposalOffer, AppliedOffer, Offers
<1>2. CASE p = "horizon"
  <2>1. to \in {"watched"} \cup ScanOffer(item) \cup SignalOffer(item)
    BY <1>2 DEF Offer
  <2> HIDE DEF item
  <2>2. QED
    BY <1>2, <2>1 DEF ScanOffer, SignalOffer, Offers
<1>3. CASE p = "checkpoint"
  <2>1. to \in RecordOffer(item) \cup HistoryOffer(item) \cup PublishOffer(fresh)
    BY <1>3 DEF Offer
  <2> HIDE DEF item, fresh
  <2>2. QED
    BY <1>3, <2>1 DEF RecordOffer, HistoryOffer, PublishOffer, Offers
<1>4. CASE p = "log"
  <2>1. to \in FormOffer(item) \cup OutcomeOffer(item) \cup CardOffer(item)
    BY <1>4 DEF Offer
  <2> HIDE DEF item
  <2>2. QED
    BY <1>4, <2>1 DEF FormOffer, OutcomeOffer, CardOffer, Offers
<1>5. CASE p \notin {"agents", "horizon", "checkpoint", "log"}
  <2>1. to \in AttachOffer \cup DocumentOffer(item)
    BY <1>5 DEF Offer
  <2> HIDE DEF item
  <2>2. QED
    BY <1>5, <2>1 DEF AttachOffer, DocumentOffer, Offers
<1>6. QED
  BY <1>1, <1>2, <1>3, <1>4, <1>5

\* The lead does something with what a page shows.
LEMMA ActDoes ==
  ASSUME DeskTypeOK, NEW to, Act(to)
  PROVE  \E put \in PutRow :
         /\ desk.at \in DeskPages /\ desk.sight # NoSight
         /\ desk.at \in {"log", "documents"} => put.to \notin {"published", "watched"}
         /\ desk' \in DeskRow /\ desk'.at = desk.at /\ desk'.link = desk.link /\ desk'.sight = desk.sight
         /\ desk'.step = desk.step /\ desk'.timer = desk.timer
         /\ desk'.crowded \/ (jobs = {} /\ ~ desk.crowded)
         /\ jobs' = jobs \cup {PutJob(desk.at, desk.link, put)}
         /\ moves' = moves + 1
         /\ UNCHANGED <<stored, spaces, typed, adrift, doubled>>
<1>1. desk \in DeskRow /\ desk.sight \in SightRow /\ desk.sight.topics \in SUBSET Topic
  BY DEF DeskTypeOK, DeskRow, SightRow
<1> DEFINE choices == IF to = "watched" THEN Watched(desk.sight) \ {desk.sight.topics} ELSE {{}}
           put(topics) == [to |-> to, topics |-> topics]
           busy == jobs # {}
<1>2. /\ desk.at \in DeskPages /\ desk.sight # NoSight /\ to \in Offer(desk.at)
      /\ moves' = moves + 1
      /\ UNCHANGED <<stored, spaces, typed, adrift, doubled>>
  BY DEF Act
<1>3. PICK topics \in choices :
        /\ jobs' = jobs \cup {[Job("act", desk.at) EXCEPT !.at = "put", !.link = desk.link, !.put = put(topics)]}
        /\ desk' = [desk EXCEPT !.busy = put(topics), !.crowded = @ \/ jobs # {}]
  BY DEF Act
<1>4. topics \in SUBSET Topic
  BY <1>1, <1>3 DEF Watched
<1>5. to \in Offers /\ (desk.at \in {"log", "documents"} => to \notin {"published", "watched"})
  BY <1>2, OfferIn
<1>6. to \in Marks
  BY <1>5 DEF Offers, Marks
<1>7. put(topics) \in PutRow /\ put(topics).to = to
  BY <1>4, <1>6 DEF PutRow
<1> DEFINE crowded == desk.crowded \/ busy
<1>8. crowded \in BOOLEAN /\ desk' = [desk EXCEPT !.busy = put(topics), !.crowded = crowded]
  BY <1>1, <1>3 DEF DeskRow
<1> HIDE DEF put
<1>9. jobs' = jobs \cup {PutJob(desk.at, desk.link, put(topics))}
  BY <1>3, Zenon DEF PutJob
<1>10. /\ desk' \in DeskRow /\ desk'.at = desk.at /\ desk'.link = desk.link /\ desk'.sight = desk.sight
       /\ desk'.step = desk.step /\ desk'.timer = desk.timer /\ desk'.crowded = crowded
  <2> HIDE DEF crowded
  <2>1. QED
    BY <1>1, <1>7, <1>8 DEF DeskRow
<1>11. crowded \/ (jobs = {} /\ ~ desk.crowded)
  OBVIOUS
<1>12. QED
  BY <1>2, <1>5, <1>7, <1>9, <1>10, <1>11

-----------------------------------------------------------------------------
(* What the server does to a workspace.                                    *)

WithProfile(s, t) == [s EXCEPT !.status = "lives", !.profile = t]

WithSameProfile(s, t) == [s EXCEPT !.profile = t]

WithEntry(s, e) == [s EXCEPT !.log[e] = @ + 1]

\* An entry sent is written down, beside those there are.
LEMMA EntryAfter ==
  ASSUME NEW s \in SpaceRow, NEW e \in Entry
  PROVE  /\ WithEntry(s, e) \in SpaceRow /\ WithEntry(s, e).status = s.status
         /\ WithEntry(s, e).log = [s.log EXCEPT ![e] = @ + 1]
<1> DEFINE log == [s.log EXCEPT ![e] = @ + 1]
<1>1. log \in [Entry -> Nat]
  BY DEF SpaceRow
<1>2. WithEntry(s, e) = [s EXCEPT !.log = log]
  BY DEF WithEntry
<1> HIDE DEF log
<1>3. WithEntry(s, e) \in SpaceRow /\ WithEntry(s, e).status = s.status /\ WithEntry(s, e).log = log
  BY <1>1, <1>2 DEF SpaceRow
<1>4. QED
  BY <1>3 DEF log

\* What the lead puts there leaves the workspace living, with the entries it has;
\* one thing is changed, unless a checkpoint is published or what is watched is.
LEMMA PutAfter ==
  ASSUME NEW s \in SpaceRow, NEW p \in Shelves, NEW put \in PutRow
  PROVE  /\ Put(s, p, put) \in SpaceRow /\ Put(s, p, put).status = s.status /\ Put(s, p, put).log = s.log
         /\ put.to \notin {"published", "watched"} => Put(s, p, put).item[p] = put.to
<1>1. CASE put.to = "published"
  <2> DEFINE covered == OnRecord(s)
  <2>1. Put(s, p, put) = [s EXCEPT !.covered = covered, !.published = TRUE]
    BY <1>1 DEF Put
  <2>2. covered \subseteq Shelves
    BY DEF OnRecord, Shelves
  <2> HIDE DEF covered
  <2>3. QED
    BY <1>1, <2>1, <2>2 DEF SpaceRow
<1>2. CASE put.to = "watched"
  <2>1. Put(s, p, put) = [s EXCEPT !.topics = put.topics]
    BY <1>2 DEF Put
  <2>2. put.topics \in SUBSET Topic
    BY DEF PutRow
  <2>3. QED
    BY <1>2, <2>1, <2>2 DEF SpaceRow
<1>3. CASE put.to \notin {"published", "watched"}
  <2> DEFINE item == [s.item EXCEPT ![p] = put.to]
  <2>1. Put(s, p, put) = [s EXCEPT !.item = item]
    BY <1>3 DEF Put
  <2>2. item \in [Shelves -> Marks] /\ item[p] = put.to
    BY DEF PutRow, SpaceRow
  <2> HIDE DEF item
  <2>3. QED
    BY <2>1, <2>2 DEF SpaceRow
<1>4. QED
  BY <1>1, <1>2, <1>3

\* What a page is shown is what it can hold.
LEMMA SightIn ==
  ASSUME DeskTypeOK, NEW p \in Shelves, NEW n \in Space
  PROVE  Sight(p, n) \in SightRow
<1> DEFINE fresh == /\ p = "checkpoint"
                    /\ spaces[n].published => ~ OnRecord(spaces[n]) \subseteq spaces[n].covered
           topics == IF p = "horizon" THEN spaces[n].topics ELSE {}
<1>1. spaces[n] \in SpaceRow
  BY DEF DeskTypeOK
<1>2. fresh \in BOOLEAN /\ topics \in SUBSET Topic /\ spaces[n].item[p] \in Marks
  BY <1>1 DEF SpaceRow
<1>3. Sight(p, n) = [item |-> spaces[n].item[p], topics |-> topics, fresh |-> fresh]
  BY DEF Sight
<1> HIDE DEF fresh, topics
<1>4. QED
  BY <1>2, <1>3 DEF SightRow

\* The first workspace not created yet, or the one the request is for.
Target(j) ==
  LET free == {n \in Space : spaces[n].status = "none"} IN
  IF j.at = "create" THEN CHOOSE k \in free : \A i \in free : k <= i ELSE j.link

Later(j, s) ==
  CASE j.at = "create" -> [s EXCEPT !.status = "lives", !.profile = j.typed]
    [] j.at = "profile" -> [s EXCEPT !.profile = j.typed]
    [] j.at = "entry" -> [s EXCEPT !.log[Newest(j.todo)] = @ + 1]
    [] j.at = "put" -> Put(s, j.page, j.put)
    [] j.at = "delete" -> [s EXCEPT !.status = "gone"]
    [] OTHER -> s

\* What each kind of request does to a workspace.
LEMMA AfterDoes ==
  ASSUME NEW j \in JobRow, NEW s \in SpaceRow, Course(j)
  PROVE  /\ Later(j, s) \in SpaceRow
         /\ Later(j, s).status =
              IF j.at = "create" THEN "lives" ELSE IF j.at = "delete" THEN "gone" ELSE s.status
         /\ j.at # "entry" => Later(j, s).log = s.log
         /\ j.at = "entry" => Later(j, s).log = [s.log EXCEPT ![Newest(j.todo)] = @ + 1]
         /\ j.at = "put" => Later(j, s) = Put(s, j.page, j.put)
         /\ j.at = "get" => Later(j, s) = s
<1>1. j.typed \in Nat /\ j.todo \in SUBSET Entry /\ j.put \in PutRow
  BY DEF JobRow
<1>2. j.at \in {"create", "profile", "entry", "get", "put", "delete"}
  BY DEF JobRow
<1>3. CASE j.at = "create"
  <2>1. Later(j, s) = WithProfile(s, j.typed)
    BY <1>3 DEF Later, WithProfile
  <2>2. /\ WithProfile(s, j.typed) \in SpaceRow /\ WithProfile(s, j.typed).status = "lives"
        /\ WithProfile(s, j.typed).log = s.log
    BY <1>1 DEF WithProfile, SpaceRow
  <2>3. QED
    BY <1>3, <2>1, <2>2
<1>4. CASE j.at = "profile"
  <2>1. Later(j, s) = WithSameProfile(s, j.typed)
    BY <1>4 DEF Later, WithSameProfile
  <2>2. /\ WithSameProfile(s, j.typed) \in SpaceRow /\ WithSameProfile(s, j.typed).status = s.status
        /\ WithSameProfile(s, j.typed).log = s.log
    BY <1>1 DEF WithSameProfile, SpaceRow
  <2>3. QED
    BY <1>4, <2>1, <2>2
<1>5. CASE j.at = "entry"
  <2>1. Newest(j.todo) \in Entry
    BY <1>1, <1>5, NewestIn DEF Course
  <2>2. Later(j, s) = WithEntry(s, Newest(j.todo))
    BY <1>5 DEF Later, WithEntry
  <2>3. /\ WithEntry(s, Newest(j.todo)) \in SpaceRow
        /\ WithEntry(s, Newest(j.todo)).status = s.status
        /\ WithEntry(s, Newest(j.todo)).log = [s.log EXCEPT ![Newest(j.todo)] = @ + 1]
    BY <2>1, EntryAfter
  <2>4. QED
    BY <1>5, <2>2, <2>3
<1>6. CASE j.at = "put"
  <2>1. Later(j, s) = Put(s, j.page, j.put)
    BY <1>6 DEF Later
  <2>2. j.page \in Shelves
    BY <1>6, DeskAssumption DEF Course, JobRow, Shelves
  <2>3. QED
    BY <1>1, <1>6, <2>1, <2>2, PutAfter
<1>7. CASE j.at = "delete"
  <2>1. Later(j, s) = [s EXCEPT !.status = "gone"]
    BY <1>7 DEF Later
  <2>2. /\ [s EXCEPT !.status = "gone"] \in SpaceRow /\ [s EXCEPT !.status = "gone"].status = "gone"
        /\ [s EXCEPT !.status = "gone"].log = s.log
    BY DEF SpaceRow
  <2>3. QED
    BY <1>7, <2>1, <2>2
<1>8. CASE j.at = "get"
  BY <1>8 DEF Later
<1>9. QED
  BY <1>2, <1>3, <1>4, <1>5, <1>6, <1>7, <1>8

\* A request served: by a workspace that lives, or refused, or by a new one.
ServedAs(j, n, state, sight) ==
  /\ j.state = "out"
  /\ jobs' = (jobs \ {j}) \cup {Served(j, state, n, sight)}
  /\ spaces' = IF state = "done" THEN [spaces EXCEPT ![n] = Later(j, spaces[n])] ELSE spaces
  /\ IF j.at = "create" THEN state = "done" /\ spaces[n].status = "none"
     ELSE n = j.link /\ (state = "done" <=> spaces[n].status = "lives")
  /\ sight = IF j.at = "get" /\ state = "done" THEN Sight(j.page, n) ELSE j.sight

\* The server changes the workspace a request goes to, and answers.
LEMMA DeskServes ==
  ASSUME DeskTypeOK, Linked, NEW j \in jobs, ServeJob(j)
  PROVE  /\ \E n \in Space, state \in {"done", "refused"}, sight \in SightRow : ServedAs(j, n, state, sight)
         /\ UNCHANGED <<stored, desk, moves, typed, adrift, doubled>>
<1> DEFINE n == Target(j)
           free == {k \in Space : spaces[k].status = "none"}
           ok == j.at = "create" \/ spaces[n].status = "lives"
           state == IF ok THEN "done" ELSE "refused"
           sight == IF j.at = "get" /\ ok THEN Sight(j.page, n) ELSE j.sight
<1>1. /\ j.state = "out" /\ (j.at = "create" => free # {})
      /\ spaces' = IF ok THEN [spaces EXCEPT ![n] = Later(j, spaces[n])] ELSE spaces
      /\ jobs' = (jobs \ {j}) \cup
             {[j EXCEPT !.state = IF ok THEN "done" ELSE "refused", !.link = n,
                        !.sight = IF j.at = "get" /\ ok THEN Sight(j.page, n) ELSE @]}
      /\ UNCHANGED <<stored, desk, moves, typed, adrift, doubled>>
  BY Zenon DEF ServeJob, Target, Later
<1>2. j \in JobRow /\ Asking(j) /\ Course(j)
  BY DEF DeskTypeOK, Linked, Asking
<1>3. /\ n \in Space
      /\ j.at = "create" => spaces[n].status = "none"
      /\ j.at # "create" => n = j.link
  <2>1. CASE j.at = "create"
    <3>1. n = CHOOSE k \in free : \A i \in free : k <= i
      BY <2>1 DEF Target
    <3>2. free \in SUBSET Space /\ free # {}
      BY <1>1, <2>1
    <3> HIDE DEF free, n
    <3>3. n \in free
      BY <3>1, <3>2, FirstFree
    <3>4. QED
      BY <2>1, <3>3 DEF free
  <2>2. CASE j.at # "create"
    BY <1>2, <2>2 DEF Target, Asking, Exists
  <2>3. QED
    BY <2>1, <2>2
<1> HIDE DEF n
<1>4. jobs' = (jobs \ {j}) \cup {Served(j, state, n, sight)}
  BY <1>1, Zenon DEF Served
<1>5. sight \in SightRow
  <2>1. j.sight \in SightRow /\ (j.at = "get" => j.page \in Shelves)
    BY <1>2, DeskAssumption DEF JobRow, Course, Shelves
  <2>2. j.at = "get" => Sight(j.page, n) \in SightRow
    BY <1>3, <2>1, SightIn
  <2>3. QED
    BY <2>1, <2>2
<1>6. state \in {"done", "refused"} /\ (state = "done" <=> ok)
  OBVIOUS
<1>7. sight = IF j.at = "get" /\ state = "done" THEN Sight(j.page, n) ELSE j.sight
  BY <1>6
<1>8. spaces' = IF state = "done" THEN [spaces EXCEPT ![n] = Later(j, spaces[n])] ELSE spaces
  BY <1>1, <1>6
<1>9. IF j.at = "create" THEN state = "done" /\ spaces[n].status = "none"
      ELSE n = j.link /\ (state = "done" <=> spaces[n].status = "lives")
  BY <1>3, <1>6
<1> HIDE DEF sight, state, ok
<1>10. ServedAs(j, n, state, sight)
  BY <1>1, <1>4, <1>7, <1>8, <1>9, Zenon DEF ServedAs
<1>11. QED
  BY <1>1, <1>3, <1>5, <1>6, <1>10

-----------------------------------------------------------------------------
(* What comes of a job.                                                    *)

\* A request lost, or its answer, is refused for the page, which is crowded by it.
LEMMA DeskLoses ==
  ASSUME DeskTypeOK, Linked, NEW j \in jobs, LoseJob(j)
  PROVE  /\ jobs' = (jobs \ {j}) \cup {Missed(j)}
         /\ desk' \in DeskRow /\ desk'.at = desk.at /\ desk'.link = desk.link /\ desk'.sight = desk.sight
         /\ desk'.step = desk.step /\ desk'.timer = desk.timer
         /\ desk'.crowded = (desk.crowded \/ j.mine)
         /\ adrift \subseteq adrift' /\ adrift' \subseteq adrift \cup {j.link}
         /\ \/ j.at = "create" /\ j.state = "done"
            \/ j.at = "delete" /\ j.state = "out"
            => j.link \in adrift'
         /\ doubled \subseteq doubled' /\ doubled' \subseteq Entry
         /\ j.at = "entry" => Newest(j.todo) \in doubled'
         /\ UNCHANGED <<stored, spaces, moves, typed>>
<1>1. desk \in DeskRow /\ j \in JobRow /\ j.mine \in BOOLEAN /\ doubled \subseteq Entry
  BY DEF DeskTypeOK, JobRow
<1>2. /\ jobs' = (jobs \ {j}) \cup {[j EXCEPT !.state = "refused"]}
      /\ desk' = [desk EXCEPT !.crowded = @ \/ j.mine]
      /\ adrift' = adrift \cup
           IF <<j.at, j.state>> \in {<<"create", "done">>, <<"delete", "out">>} THEN {j.link} ELSE {}
      /\ doubled' = doubled \cup IF j.at = "entry" THEN {Newest(j.todo)} ELSE {}
      /\ UNCHANGED <<stored, spaces, moves, typed>>
  BY DEF LoseJob
<1> DEFINE crowded == desk.crowded \/ j.mine
<1>3. crowded \in BOOLEAN /\ desk' = [desk EXCEPT !.crowded = crowded]
  BY <1>1, <1>2
<1> HIDE DEF crowded
<1>4. /\ desk' \in DeskRow /\ desk'.at = desk.at /\ desk'.link = desk.link /\ desk'.sight = desk.sight
      /\ desk'.step = desk.step /\ desk'.timer = desk.timer /\ desk'.crowded = crowded
  BY <1>1, <1>3 DEF DeskRow
<1>5. jobs' = (jobs \ {j}) \cup {Missed(j)}
  BY <1>2, Zenon DEF Missed
<1>6. doubled \subseteq doubled' /\ (j.at = "entry" => Newest(j.todo) \in doubled')
  BY <1>2
<1>7. doubled' \subseteq Entry
  <2>1. j.at = "entry" => Newest(j.todo) \in Entry
    BY <1>1, NewestIn DEF JobRow, Linked, Asking, Course
  <2>2. QED
    BY <1>1, <1>2, <2>1
<1>8. QED
  BY <1>1, <1>2, <1>4, <1>5, <1>6, <1>7 DEF crowded

\* A workspace created is linked, and the job goes on with it.
LEMMA CreatedDoes ==
  ASSUME DeskTypeOK, Linked, NEW j \in jobs, Created(j)
  PROVE  /\ j.at = "create" /\ j.state \in {"done", "refused"}
         /\ j.state = "done" =>
              /\ jobs' = (jobs \ {j}) \cup {Begun(j)}
              /\ stored' \in StoredRow /\ stored'.link = j.link
              /\ stored'.typed = stored.typed /\ stored'.log = stored.log /\ stored'.imported = stored.imported
              /\ (\E i \in jobs \ {j} : i.at = "create") => j.link \in adrift'
              /\ desk'.link \in {desk.link, j.link}
              /\ j.kind = "open" /\ j.mine => desk'.link = j.link
         /\ j.state = "refused" => jobs' = jobs \ {j} /\ UNCHANGED <<stored, desk, adrift>>
         /\ desk' \in DeskRow /\ desk'.at = desk.at /\ desk'.sight = desk.sight
         /\ desk'.step = desk.step /\ desk'.timer = desk.timer /\ desk'.crowded = desk.crowded
         /\ adrift \subseteq adrift' /\ adrift' \subseteq adrift \cup {j.link}
         /\ UNCHANGED <<spaces, moves, typed, doubled>>
<1>1. /\ desk \in DeskRow /\ stored \in StoredRow /\ j \in JobRow
      /\ j.state = "done" => j.link \in Space
  BY DEF DeskTypeOK, Linked, Asking, Exists
<1> DEFINE begins == j.state = "done"
           shows == j.state = "done" /\ j.mine /\ j.kind = "open"
<1>2. /\ j.at = "create" /\ j.state # "out"
      /\ stored' = IF begins THEN LinkedTo(j.link, j) ELSE stored
      /\ adrift' = adrift \cup {j.link : k \in {i \in jobs \ {j} : i.at = "create" /\ begins}}
      /\ jobs' = (jobs \ {j}) \cup IF begins THEN {Begun(j)} ELSE {}
      /\ desk' = IF shows THEN [desk EXCEPT !.link = j.link] ELSE desk
      /\ UNCHANGED <<spaces, moves, typed, doubled>>
  BY Zenon DEF Created, Begun
<1>3. j.state \in {"done", "refused"}
  BY <1>1, <1>2 DEF JobRow
<1>4. /\ desk' \in DeskRow /\ desk'.at = desk.at /\ desk'.sight = desk.sight
      /\ desk'.step = desk.step /\ desk'.timer = desk.timer /\ desk'.crowded = desk.crowded
      /\ shows => desk'.link = j.link
      /\ ~ shows => desk' = desk
  <2>1. CASE shows
    <3>1. desk' = [desk EXCEPT !.link = j.link] /\ j.link \in Space
      BY <1>1, <1>2, <2>1
    <3>2. QED
      BY <1>1, <2>1, <3>1 DEF DeskRow
  <2>2. CASE ~ shows
    BY <1>1, <1>2, <2>2
  <2>3. QED
    BY <2>1, <2>2
<1>5. CASE begins
  <2>1. stored' = [stored EXCEPT !.link = j.link]
    BY <1>2, <1>5 DEF LinkedTo
  <2>2. /\ stored' \in StoredRow /\ stored'.link = j.link
        /\ stored'.typed = stored.typed /\ stored'.log = stored.log /\ stored'.imported = stored.imported
    BY <1>1, <1>5, <2>1 DEF StoredRow
  <2>3. /\ adrift \subseteq adrift' /\ adrift' \subseteq adrift \cup {j.link}
        /\ (\E i \in jobs \ {j} : i.at = "create") => j.link \in adrift'
    BY <1>2, <1>5
  <2>4. jobs' = (jobs \ {j}) \cup {Begun(j)}
    BY <1>2, <1>5
  <2>5. QED
    BY <1>2, <1>3, <1>4, <1>5, <2>2, <2>3, <2>4
<1>6. CASE ~ begins
  <2>1. adrift' = adrift
    BY <1>2, <1>6
  <2>2. QED
    BY <1>1, <1>2, <1>3, <1>4, <1>6, <2>1
<1>7. QED
  BY <1>5, <1>6

\* A decision that was sent is marked; the log goes on with the rest, or looks.
LEMMA EnteredDoes ==
  ASSUME DeskTypeOK, Linked, NEW j \in jobs, Entered(j)
  PROVE  \E next \in SUBSET JobRow :
         /\ j.at = "entry" /\ j.state \in {"done", "refused"}
         /\ jobs' = (jobs \ {j}) \cup next
         /\ \A a, b \in next : a = b
         /\ \A i \in next :
              /\ j.kind # "lock"
              /\ i.kind = j.kind /\ i.page = j.page /\ i.mine = j.mine /\ i.state = "out"
              /\ \/ i.at = "get" /\ i.link = j.link /\ i.todo = {}
                 \/ /\ j.state = "done" /\ i.todo = j.todo \ {Newest(j.todo)} /\ i.todo # {}
                    /\ (i.at = "create" /\ stored.link = 0) \/ (i.at = "entry" /\ Exists(i.link))
         /\ stored' \in StoredRow /\ stored'.typed = stored.typed /\ stored'.link = stored.link
         /\ stored'.log = stored.log
         /\ stored'.imported = stored.imported \cup IF j.state = "done" THEN {Newest(j.todo)} ELSE {}
         /\ UNCHANGED <<desk, spaces, moves, typed, adrift, doubled>>
<1>1. stored \in StoredRow /\ j \in JobRow /\ Course(j)
  BY DEF DeskTypeOK, Linked, Asking
<1> DEFINE e == Newest(j.todo)
           marked == IF j.state = "done" THEN {e} ELSE {}
           next == IF j.kind = "lock" THEN {}
                   ELSE IF j.state = "done" /\ Rest(j).todo # {} /\ Ensured(Rest(j)) # {} THEN Ensured(Rest(j))
                   ELSE {NothingLeft(j)}
<1>2. /\ j.at = "entry" /\ j.state # "out"
      /\ stored' = [stored EXCEPT !.imported = @ \cup marked]
      /\ jobs' = (jobs \ {j}) \cup next
      /\ UNCHANGED <<desk, spaces, moves, typed, adrift, doubled>>
  BY Zenon DEF Entered, Rest, NothingLeft
<1>3. e \in Entry /\ e \in j.todo
  BY <1>1, <1>2, NewestIn DEF Course, JobRow
<1>4. j.state \in {"done", "refused"}
  BY <1>1, <1>2 DEF JobRow
<1>5. marked \subseteq Entry
  BY <1>3
<1>6. /\ stored' \in StoredRow /\ stored'.typed = stored.typed /\ stored'.link = stored.link
      /\ stored'.log = stored.log /\ stored'.imported = stored.imported \cup marked
  <2> HIDE DEF marked
  <2>1. QED
    BY <1>1, <1>2, <1>5 DEF StoredRow
<1>7. j.kind = "open" \/ j.kind = "lock"
  BY <1>1, <1>2 DEF Course
<1>8. /\ next \in SUBSET JobRow /\ (\A a, b \in next : a = b)
      /\ \A i \in next :
           /\ j.kind # "lock"
           /\ i.kind = j.kind /\ i.page = j.page /\ i.mine = j.mine /\ i.state = "out"
           /\ \/ i.at = "get" /\ i.link = j.link /\ i.todo = {}
              \/ /\ j.state = "done" /\ i.todo = j.todo \ {e} /\ i.todo # {}
                 /\ (i.at = "create" /\ stored.link = 0) \/ (i.at = "entry" /\ Exists(i.link))
  <2>1. CASE j.kind = "lock"
    BY <2>1
  <2>2. CASE j.kind # "lock" /\ j.state = "done" /\ Rest(j).todo # {} /\ Ensured(Rest(j)) # {}
    <3>1. next = Ensured(Rest(j))
      BY <2>2
    <3>2. /\ Rest(j) \in JobRow /\ Rest(j).todo = j.todo \ {e} /\ Rest(j).kind = "open"
          /\ Rest(j).kind = j.kind /\ Rest(j).page = j.page /\ Rest(j).mine = j.mine
      BY <1>1, <1>7, <2>2, RestRow
    <3>3. FirstStep(Rest(j)) = "entry"
      BY <2>2, <3>2, FirstSteps
    <3>4. /\ \A a, b \in Ensured(Rest(j)) : a = b
          /\ \A i \in Ensured(Rest(j)) :
              /\ i \in JobRow /\ i.state = "out"
              /\ i.kind = Rest(j).kind /\ i.page = Rest(j).page /\ i.todo = Rest(j).todo /\ i.mine = Rest(j).mine
              /\ \/ i.at = "create" /\ stored.link = 0
                 \/ i.at = FirstStep(Rest(j)) /\ Exists(i.link)
      BY <3>2, EnsuredOne
    <3> HIDE DEF next, e
    <3>5. QED
      BY <2>2, <3>1, <3>2, <3>3, <3>4
  <2>3. CASE j.kind # "lock" /\ ~ (j.state = "done" /\ Rest(j).todo # {} /\ Ensured(Rest(j)) # {})
    <3>1. next = {NothingLeft(j)}
      BY <2>3
    <3> HIDE DEF next
    <3>2. QED
      BY <1>1, <2>3, <3>1, NothingLeftRow
  <2>4. QED
    BY <2>1, <2>2, <2>3
<1> HIDE DEF next
<1>9. QED
  BY <1>2, <1>4, <1>6, <1>8

\* What was looked up is shown, if the page that asked is still there.
LEMMA SeenDoes ==
  ASSUME DeskTypeOK, Linked, NEW j \in jobs, Seen(j)
  PROVE  /\ j.at = "get" /\ j.state \in {"done", "refused"}
         /\ jobs' = jobs \ {j}
         /\ desk' \in DeskRow /\ desk'.at = desk.at /\ desk'.step = desk.step
         /\ desk'.timer = desk.timer /\ desk'.crowded = desk.crowded
         /\ ~ j.mine => desk' = desk
         /\ j.mine => desk'.link = j.link /\ desk'.sight = IF j.state = "done" THEN j.sight ELSE desk.sight
         /\ UNCHANGED <<stored, spaces, moves, typed, adrift, doubled>>
<1>1. /\ desk \in DeskRow /\ desk.sight \in SightRow /\ desk.busy \in PutRow
      /\ j \in JobRow /\ j.sight \in SightRow /\ j.link \in Space \cup {0}
  BY DEF DeskTypeOK, DeskRow, JobRow
<1> DEFINE sight == IF j.state = "done" THEN j.sight ELSE desk.sight
           busy == IF j.kind = "act" THEN NoPut ELSE desk.busy
<1>2. /\ j.at = "get" /\ j.state # "out" /\ jobs' = jobs \ {j}
      /\ desk' = IF ~ j.mine THEN desk ELSE [desk EXCEPT !.link = j.link, !.sight = sight, !.busy = busy]
      /\ UNCHANGED <<stored, spaces, moves, typed, adrift, doubled>>
  BY DEF Seen
<1>3. sight \in SightRow /\ busy \in PutRow
  BY <1>1, NullRows
<1>4. j.state \in {"done", "refused"}
  BY <1>1, <1>2 DEF JobRow
<1>5. CASE j.mine
  <2>1. desk' = [desk EXCEPT !.link = j.link, !.sight = sight, !.busy = busy]
    BY <1>2, <1>5
  <2> HIDE DEF sight, busy
  <2>2. /\ desk' \in DeskRow /\ desk'.at = desk.at /\ desk'.step = desk.step
        /\ desk'.timer = desk.timer /\ desk'.crowded = desk.crowded
        /\ desk'.link = j.link /\ desk'.sight = sight
    BY <1>1, <1>3, <2>1 DEF DeskRow
  <2>3. QED
    BY <1>2, <1>4, <1>5, <2>2 DEF sight
<1>6. CASE ~ j.mine
  BY <1>1, <1>2, <1>4, <1>6
<1>7. QED
  BY <1>5, <1>6

\* What was put there: a page looks again, or changes its list.
LEMMA AnsweredDoes ==
  ASSUME DeskTypeOK, Linked, NEW j \in jobs, Answered(j)
  PROVE  /\ j.at = "put" /\ j.state \in {"done", "refused"}
         /\ jobs' = (jobs \ {j}) \cup (IF j.state = "done" /\ LooksAgain(j.page) THEN {Looking(j)} ELSE {})
         /\ desk' \in DeskRow /\ desk'.at = desk.at /\ desk'.link = desk.link /\ desk'.step = desk.step
         /\ desk'.timer = desk.timer /\ desk'.crowded = desk.crowded
         /\ ~ j.mine => desk' = desk
         /\ desk'.sight = IF j.mine /\ j.state = "done" /\ j.page \in {"log", "documents"}
                          THEN [desk.sight EXCEPT !.item = j.put.to] ELSE desk.sight
         /\ UNCHANGED <<stored, spaces, moves, typed, adrift, doubled>>
<1>1. /\ desk \in DeskRow /\ desk.sight \in SightRow
      /\ j \in JobRow /\ j.put.to \in Marks
  BY DEF DeskTypeOK, DeskRow, JobRow, PutRow
<1>2. /\ j.at = "put" /\ j.state # "out"
      /\ jobs' = (jobs \ {j}) \cup
           (IF j.state = "done" /\ LooksAgain(j.page) THEN {[j EXCEPT !.at = "get", !.state = "out"]} ELSE {})
      /\ desk' = IF ~ j.mine THEN desk
                 ELSE IF ~ (j.state = "done") THEN [desk EXCEPT !.busy = NoPut]
                 ELSE IF j.page \in {"log", "documents"} THEN Listed(j.put.to)
                 ELSE desk
      /\ UNCHANGED <<stored, spaces, moves, typed, adrift, doubled>>
  BY DEF Answered
<1>3. j.state \in {"done", "refused"}
  BY <1>1, <1>2 DEF JobRow
<1>4. jobs' = (jobs \ {j}) \cup (IF j.state = "done" /\ LooksAgain(j.page) THEN {Looking(j)} ELSE {})
  BY <1>2, Zenon DEF Looking
<1>5. CASE ~ j.mine
  BY <1>1, <1>2, <1>3, <1>4, <1>5
<1>6. CASE j.mine /\ j.state # "done"
  <2>1. desk' = [desk EXCEPT !.busy = NoPut]
    BY <1>2, <1>6
  <2>2. /\ desk' \in DeskRow /\ desk'.at = desk.at /\ desk'.link = desk.link /\ desk'.step = desk.step
        /\ desk'.timer = desk.timer /\ desk'.crowded = desk.crowded /\ desk'.sight = desk.sight
    BY <1>1, <2>1, NullRows DEF DeskRow
  <2>3. QED
    BY <1>2, <1>3, <1>4, <1>6, <2>2
<1>7. CASE j.mine /\ j.state = "done" /\ j.page \in {"log", "documents"}
  <2> DEFINE sight == [desk.sight EXCEPT !.item = j.put.to]
  <2>1. desk' = [desk EXCEPT !.sight = sight]
    BY <1>2, <1>7 DEF Listed
  <2>2. sight \in SightRow
    BY <1>1 DEF SightRow
  <2> HIDE DEF sight
  <2>3. /\ desk' \in DeskRow /\ desk'.at = desk.at /\ desk'.link = desk.link /\ desk'.step = desk.step
        /\ desk'.timer = desk.timer /\ desk'.crowded = desk.crowded /\ desk'.sight = sight
    BY <1>1, <2>1, <2>2 DEF DeskRow
  <2>4. QED
    BY <1>2, <1>3, <1>4, <1>7, <2>3 DEF sight
<1>8. CASE j.mine /\ j.state = "done" /\ j.page \notin {"log", "documents"}
  BY <1>1, <1>2, <1>3, <1>4, <1>8
<1>9. QED
  BY <1>5, <1>6, <1>7, <1>8

-----------------------------------------------------------------------------
(* Types.                                                                  *)

\* The steps there are.
LEMMA DeskCases ==
  ASSUME DeskNext
  PROVE  \/ GoOrganisation \/ GoAnalysis
         \/ Convene \/ Convened \/ Cancel \/ Reopen
         \/ \E b \in BOOLEAN : Update(b)
         \/ TimerFires \/ ClearBoard \/ Lock
         \/ \E p \in DeskPages : OpenPage(p)
         \/ \E to \in UNION {Offer(p) : p \in DeskPages} : Act(to)
         \/ \E j \in jobs : ServeJob(j) \/ LoseJob(j)
         \/ \E j \in jobs : Synced(j) \/ Cleared(j) \/ Created(j) \/ Entered(j) \/ Seen(j) \/ Answered(j)
<1>1. CASE EditProfile \/ EditPeople \/ EditAgents
  <2>1. Update(TRUE) \/ Update(FALSE)
    BY <1>1 DEF EditProfile, EditPeople, EditAgents
  <2>2. QED
    BY <2>1
<1>2. CASE ~ (EditProfile \/ EditPeople \/ EditAgents)
  BY <1>2, Zenon DEF DeskNext
<1>3. QED
  BY <1>1, <1>2

\* What a page leaves behind are jobs.
LEMMA LeftRows ==
  ASSUME DeskTypeOK
  PROVE  {Left(j) : j \in jobs} \subseteq JobRow
<1>1. ASSUME NEW j \in jobs PROVE Left(j) \in JobRow
  BY LeftRow DEF DeskTypeOK
<1>2. QED
  BY <1>1

\* A request served leaves a workspace of its kind, and a job.
LEMMA ServedTypes ==
  ASSUME DeskTypeOK, Linked, NEW j \in jobs,
         NEW n \in Space, NEW state \in {"done", "refused"}, NEW sight \in SightRow,
         ServedAs(j, n, state, sight)
  PROVE  /\ spaces' \in [Space -> SpaceRow] /\ jobs' \subseteq JobRow
         /\ Later(j, spaces[n]) \in SpaceRow
<1>1. j \in JobRow /\ Course(j) /\ spaces \in [Space -> SpaceRow] /\ spaces[n] \in SpaceRow
  BY DEF DeskTypeOK, Linked, Asking
<1>2. Later(j, spaces[n]) \in SpaceRow
  BY <1>1, AfterDoes
<1>3. spaces' \in [Space -> SpaceRow]
  BY <1>1, <1>2 DEF ServedAs
<1>4. Served(j, state, n, sight) \in JobRow
  BY <1>1, ServedRow
<1>5. QED
  BY <1>2, <1>3, <1>4 DEF ServedAs, DeskTypeOK

\* What is on the desk, stored and under way keeps its form.
LEMMA DeskTypeStep ==
  ASSUME DeskTypeOK, Linked, DeskNext
  PROVE  DeskTypeOK'
<1>1. /\ stored \in StoredRow /\ desk \in DeskRow /\ spaces \in [Space -> SpaceRow] /\ jobs \subseteq JobRow
      /\ moves \in Nat /\ adrift \subseteq Space \cup {0} /\ doubled \subseteq Entry
      /\ desk.link \in Space \cup {0} /\ stored.link \in Space \cup {0}
      /\ \A j \in jobs : j.link \in Space \cup {0}
  BY DEF DeskTypeOK, DeskRow, StoredRow, JobRow
<1> DEFINE Rows ==
             /\ stored' \in StoredRow /\ desk' \in DeskRow /\ spaces' \in [Space -> SpaceRow]
             /\ jobs' \subseteq JobRow
             /\ moves' \in Nat /\ adrift' \subseteq Space \cup {0} /\ doubled' \subseteq Entry
<1>2. SUFFICES Rows
  BY DEF DeskTypeOK, StoredRow, DeskRow, SpaceRow, JobRow, PutRow, SightRow, Shelves, Marks, Steps
<1>3. moves + 1 \in Nat
  BY <1>1
<1>4. CASE GoOrganisation \/ GoAnalysis
  BY <1>1, <1>3, <1>4, GoDoes, LeftRows
<1>5. CASE Convene \/ Convened \/ Cancel \/ Reopen
  BY <1>1, <1>5, BoardDoes
<1>6. CASE \E b \in BOOLEAN : Update(b)
  BY <1>1, <1>3, <1>6, UpdateDoes
<1>7. CASE TimerFires
  <2>1. Job("sync", "organisation") \in JobRow /\ Job("sync", "organisation").todo = {}
    BY FreshJob
  <2>2. Ensured(Job("sync", "organisation")) \subseteq JobRow
    BY <2>1, EnsuredOne
  <2>3. QED
    BY <1>1, <1>7, <2>2, TimerDoes
<1>8. CASE ClearBoard
  <2>1. desk.link \in Space \cup {0}
    BY <1>1 DEF DeskRow
  <2>2. DeleteJob(desk.link) \in JobRow
    BY <2>1, FreshDelete
  <2>3. QED
    BY <1>1, <1>3, <1>8, <2>2, ClearDoes
<1>9. CASE Lock
  <2>1. PICK e \in Entry \ stored.log :
          /\ desk' \in DeskRow /\ stored' \in StoredRow
          /\ jobs' = jobs \cup Ensured(JobFor("lock", "analysis", {e}))
          /\ moves' = moves + 1
          /\ UNCHANGED <<spaces, typed, adrift, doubled>>
    BY <1>9, LockDoes
  <2>2. JobFor("lock", "analysis", {e}) \in JobRow /\ JobFor("lock", "analysis", {e}).kind = "lock"
    BY FreshLock
  <2>3. Ensured(JobFor("lock", "analysis", {e})) \subseteq JobRow
    BY <2>2, EnsuredOne
  <2>4. QED
    BY <1>1, <1>3, <2>1, <2>3
<1>10. CASE \E p \in DeskPages : OpenPage(p)
  <2>1. PICK p \in DeskPages : OpenPage(p)
    BY <1>10
  <2>2. PICK todo \in SUBSET Entry :
          /\ desk' \in DeskRow
          /\ jobs' = {Left(j) : j \in jobs} \cup Ensured(JobFor("open", p, todo))
          /\ doubled' = doubled \cup {e \in todo : Sending(e) # {}}
          /\ moves' = moves + 1
          /\ UNCHANGED <<stored, spaces, typed, adrift>>
    BY <2>1, OpenDoes
  <2>3. JobFor("open", p, todo) \in JobRow /\ JobFor("open", p, todo).kind = "open"
    <3>1. p \in Shelves
      BY DeskAssumption DEF Shelves
    <3>2. QED
      BY <3>1, FreshOpen
  <2>4. Ensured(JobFor("open", p, todo)) \subseteq JobRow
    BY <2>3, EnsuredOne
  <2>5. doubled' \subseteq Entry
    BY <1>1, <2>2
  <2>6. QED
    BY <1>1, <1>3, <2>2, <2>4, <2>5, LeftRows
<1>11. CASE \E to \in UNION {Offer(p) : p \in DeskPages} : Act(to)
  <2>1. PICK put \in PutRow :
          /\ desk.at \in DeskPages /\ desk' \in DeskRow
          /\ jobs' = jobs \cup {PutJob(desk.at, desk.link, put)}
          /\ moves' = moves + 1
          /\ UNCHANGED <<stored, spaces, typed, adrift, doubled>>
    BY <1>11, ActDoes
  <2>2. PutJob(desk.at, desk.link, put) \in JobRow
    <3>1. desk.at \in Shelves /\ desk.link \in Space \cup {0}
      BY <1>1, <2>1, DeskAssumption DEF DeskRow, Shelves
    <3>2. QED
      BY <3>1, FreshPut
  <2>3. QED
    BY <1>1, <1>3, <2>1, <2>2
<1>12. ASSUME NEW j \in jobs, ServeJob(j) PROVE Rows
  <2>1. PICK n \in Space, state \in {"done", "refused"}, sight \in SightRow : ServedAs(j, n, state, sight)
    BY <1>12, DeskServes
  <2>2. spaces' \in [Space -> SpaceRow] /\ jobs' \subseteq JobRow
    BY <2>1, ServedTypes
  <2>3. UNCHANGED <<stored, desk, moves, typed, adrift, doubled>>
    BY <1>12, DeskServes
  <2>4. QED
    BY <1>1, <2>2, <2>3
<1>13. ASSUME NEW j \in jobs, LoseJob(j) PROVE Rows
  <2>1. Missed(j) \in JobRow
    BY <1>1, MissedRow
  <2>2. QED
    BY <1>1, <1>13, <2>1, DeskLoses
<1>14. ASSUME NEW j \in jobs, Synced(j) PROVE Rows
  BY <1>1, <1>14, SyncedDoes
<1>15. ASSUME NEW j \in jobs, Cleared(j) PROVE Rows
  <2>1. jobs' = jobs \ {j} /\ UNCHANGED <<stored, desk, spaces, moves, missed, typed, adrift, doubled>>
    BY <1>15 DEF Cleared
  <2>2. QED
    BY <1>1, <2>1
<1>16. ASSUME NEW j \in jobs, Created(j) PROVE Rows
  <2>1. j \in JobRow /\ (j.kind = "sync" => j.todo = {})
    BY <1>1 DEF Linked, Asking, Course
  <2>2. Begun(j) \in JobRow
    BY <2>1, BegunRow
  <2>3. CASE j.state = "done"
    BY <1>1, <1>16, <2>2, <2>3, CreatedDoes
  <2>4. CASE j.state = "refused"
    BY <1>1, <1>16, <2>4, CreatedDoes
  <2>5. QED
    BY <1>16, <2>3, <2>4, CreatedDoes
<1>17. ASSUME NEW j \in jobs, Entered(j) PROVE Rows
  <2>1. PICK next \in SUBSET JobRow :
          /\ jobs' = (jobs \ {j}) \cup next
          /\ stored' \in StoredRow
          /\ UNCHANGED <<desk, spaces, moves, typed, adrift, doubled>>
    BY <1>17, EnteredDoes
  <2>2. QED
    BY <1>1, <2>1
<1>18. ASSUME NEW j \in jobs, Seen(j) PROVE Rows
  BY <1>1, <1>18, SeenDoes
<1>19. ASSUME NEW j \in jobs, Answered(j) PROVE Rows
  <2>1. Looking(j) \in JobRow
    BY <1>1, LookingRow
  <2>2. jobs' \subseteq JobRow
    BY <1>1, <1>19, <2>1, AnsweredDoes
  <2>3. QED
    BY <1>1, <1>19, <2>2, AnsweredDoes
<1>20. QED
  BY <1>4, <1>5, <1>6, <1>7, <1>8, <1>9, <1>10, <1>11, <1>12, <1>13, <1>14, <1>15, <1>16, <1>17, <1>18,
     <1>19, DeskCases

-----------------------------------------------------------------------------
(* Links.                                                                  *)

\* A workspace created stays one that was.
LEMMA Grows ==
  ASSUME DeskTypeOK, Linked, DeskNext, NEW n, Exists(n)
  PROVE  Exists(n)'
<1>1. n \in Space /\ spaces[n].status # "none"
  BY DEF Exists
<1>2. CASE spaces' = spaces
  BY <1>1, <1>2 DEF Exists
<1>3. ASSUME NEW j \in jobs, ServeJob(j)
      PROVE  Exists(n)'
  <2>1. PICK k \in Space, state \in {"done", "refused"}, sight \in SightRow : ServedAs(j, k, state, sight)
    BY <1>3, DeskServes
  <2>2. j \in JobRow /\ Course(j) /\ spaces[k] \in SpaceRow /\ spaces \in [Space -> SpaceRow]
    BY DEF DeskTypeOK, Linked, Asking
  <2>3. Later(j, spaces[k]).status \in {"lives", "gone", spaces[k].status}
    BY <2>2, AfterDoes
  <2>4. CASE state = "done"
    <3>1. spaces' = [spaces EXCEPT ![k] = Later(j, spaces[k])]
      BY <2>1, <2>4 DEF ServedAs
    <3>2. n # k => spaces'[n] = spaces[n]
      BY <1>1, <2>2, <3>1
    <3>3. n = k => spaces'[n].status # "none"
      BY <1>1, <2>2, <2>3, <3>1
    <3>4. QED
      BY <1>1, <3>2, <3>3 DEF Exists
  <2>5. CASE state = "refused"
    BY <1>1, <2>1, <2>5 DEF ServedAs, Exists
  <2>6. QED
    BY <2>4, <2>5
<1>4. CASE GoOrganisation \/ GoAnalysis
  BY <1>2, <1>4, GoDoes
<1>5. CASE Convene \/ Convened \/ Cancel \/ Reopen
  BY <1>2, <1>5, BoardDoes
<1>6. CASE \E b \in BOOLEAN : Update(b)
  BY <1>2, <1>6, UpdateDoes
<1>7. CASE TimerFires \/ ClearBoard \/ Lock
  BY <1>2, <1>7, TimerDoes, ClearDoes, LockDoes
<1>8. CASE \E p \in DeskPages : OpenPage(p)
  BY <1>2, <1>8, OpenDoes
<1>9. CASE \E to \in UNION {Offer(p) : p \in DeskPages} : Act(to)
  BY <1>2, <1>9, ActDoes
<1>10. CASE \E j \in jobs : LoseJob(j)
  BY <1>2, <1>10, DeskLoses
<1>11. CASE \E j \in jobs : Synced(j) \/ Cleared(j) \/ Created(j) \/ Entered(j) \/ Seen(j) \/ Answered(j)
  <2>1. PICK j \in jobs : Synced(j) \/ Cleared(j) \/ Created(j) \/ Entered(j) \/ Seen(j) \/ Answered(j)
    BY <1>11
  <2>2. Cleared(j) => spaces' = spaces
    BY DEF Cleared
  <2>3. QED
    BY <1>2, <2>1, <2>2, SyncedDoes, CreatedDoes, EnteredDoes, SeenDoes, AnsweredDoes
<1>12. QED
  BY <1>3, <1>4, <1>5, <1>6, <1>7, <1>8, <1>9, <1>10, <1>11, DeskCases

\* A page has no other's name.
LEMMA PagesApart ==
  /\ DeskPages \subseteq Shelves
  /\ "organisation" \notin DeskPages /\ "analysis" \notin DeskPages /\ "away" \notin DeskPages
BY DeskAssumption DEF Shelves

\* Links lead to workspaces that were created, on the desk and in the store.
LEMMA DeskLinks ==
  ASSUME DeskTypeOK, Linked, DeskNext
  PROVE  /\ stored'.link # 0 => Exists(stored'.link)
         /\ desk'.link # 0 => Exists(desk'.link)
         /\ desk'.at \in DeskPages /\ desk'.sight # NoSight => desk'.link # 0
         /\ desk'.timer => desk'.at = "organisation"
         /\ desk'.step # "none" => desk'.at = "analysis"
<1>1. /\ stored.link # 0 => Exists(stored.link)
      /\ desk.link # 0 => Exists(desk.link)
      /\ desk.at \in DeskPages /\ desk.sight # NoSight => desk.link # 0
      /\ desk.timer => desk.at = "organisation"
      /\ desk.step # "none" => desk.at = "analysis"
      /\ \A j \in jobs : Asking(j)
  BY DEF Linked
<1>2. ASSUME NEW j \in jobs
      PROVE  /\ j.at # "create" \/ j.state = "done" => Exists(j.link)
             /\ j.mine => j.page = desk.at
             /\ j.mine /\ j.kind = "act" => desk.link # 0
             /\ j.kind = "sync" => j.page = "organisation"
             /\ j.at = "put" => j.kind = "act"
  BY <1>1 DEF Asking, Course, DeskTypeOK, JobRow
<1>3. \A n : Exists(n) => n # 0
  BY DeskAssumption DEF Exists
<1>4. CASE GoOrganisation \/ GoAnalysis
  BY <1>1, <1>4, GoDoes, PagesApart
<1>5. CASE Convene \/ Convened \/ Cancel \/ Reopen
  BY <1>1, <1>5, BoardDoes
<1>6. CASE \E b \in BOOLEAN : Update(b)
  BY <1>1, <1>6, UpdateDoes
<1>7. CASE TimerFires
  BY <1>1, <1>7, TimerDoes
<1>8. CASE ClearBoard
  BY <1>1, <1>8, ClearDoes, PagesApart
<1>9. CASE Lock
  BY <1>1, <1>9, LockDoes
<1>10. CASE \E p \in DeskPages : OpenPage(p)
  BY <1>1, <1>10, OpenDoes
<1>11. CASE \E to \in UNION {Offer(p) : p \in DeskPages} : Act(to)
  BY <1>1, <1>11, ActDoes
<1>12. CASE \E j \in jobs : ServeJob(j) \/ LoseJob(j)
  BY <1>1, <1>12, DeskServes, DeskLoses
<1>13. ASSUME NEW j \in jobs, Synced(j)
       PROVE  /\ stored' = stored
              /\ desk'.link # 0 => Exists(desk'.link)
              /\ desk'.at \in DeskPages /\ desk'.sight # NoSight => desk'.link # 0
              /\ desk'.timer => desk'.at = "organisation"
              /\ desk'.step # "none" => desk'.at = "analysis"
  BY <1>1, <1>2, <1>13, SyncedDoes, PagesApart
<1>14. ASSUME NEW j \in jobs, Cleared(j)
       PROVE  stored' = stored /\ desk' = desk
  BY <1>14 DEF Cleared
<1>15. ASSUME NEW j \in jobs, Created(j)
       PROVE  /\ stored'.link # 0 => Exists(stored'.link)
              /\ desk'.link # 0 => Exists(desk'.link)
              /\ desk'.at \in DeskPages /\ desk'.sight # NoSight => desk'.link # 0
              /\ desk'.timer => desk'.at = "organisation"
              /\ desk'.step # "none" => desk'.at = "analysis"
  <2>1. CASE j.state = "done"
    BY <1>1, <1>2, <1>3, <1>15, <2>1, CreatedDoes
  <2>2. CASE j.state = "refused"
    BY <1>1, <1>15, <2>2, CreatedDoes
  <2>3. QED
    BY <1>15, <2>1, <2>2, CreatedDoes
<1>16. ASSUME NEW j \in jobs, Entered(j)
       PROVE  desk' = desk /\ stored'.link = stored.link
  BY <1>16, EnteredDoes
<1>17. ASSUME NEW j \in jobs, Seen(j)
       PROVE  /\ stored' = stored
              /\ desk'.link # 0 => Exists(desk'.link)
              /\ desk'.at \in DeskPages /\ desk'.sight # NoSight => desk'.link # 0
              /\ desk'.timer => desk'.at = "organisation"
              /\ desk'.step # "none" => desk'.at = "analysis"
  BY <1>1, <1>2, <1>3, <1>17, SeenDoes
<1>18. ASSUME NEW j \in jobs, Answered(j)
       PROVE  /\ stored' = stored
              /\ desk'.link # 0 => Exists(desk'.link)
              /\ desk'.at \in DeskPages /\ desk'.sight # NoSight => desk'.link # 0
              /\ desk'.timer => desk'.at = "organisation"
              /\ desk'.step # "none" => desk'.at = "analysis"
  <2>1. CASE j.mine
    BY <1>1, <1>2, <1>18, <2>1, AnsweredDoes
  <2>2. CASE ~ j.mine
    BY <1>1, <1>18, <2>2, AnsweredDoes
  <2>3. QED
    BY <2>1, <2>2
<1>19. QED
  BY <1>1, <1>4, <1>5, <1>6, <1>7, <1>8, <1>9, <1>10, <1>11, <1>12, <1>13, <1>14, <1>15, <1>16, <1>17, <1>18,
     DeskCases

\* A job that goes on as it was, with a link that leads somewhere.
LEMMA AskingStays ==
  ASSUME NEW i, NEW j, Asking(j),
         i.kind = j.kind, i.page = j.page, i.at = j.at, i.todo = j.todo,
         i.mine => j.mine /\ desk'.at = desk.at /\ (desk.link # 0 => desk'.link # 0),
         i.at # "create" \/ i.state = "done" => Exists(i.link)'
  PROVE  Asking(i)'
BY DEF Asking, Course

\* A job begun: its request goes to a workspace, or creates one.
LEMMA AskingBegins ==
  ASSUME NEW i, i.state = "out", i.at = "create" \/ Exists(i.link)', Course(i),
         i.mine => i.page = desk'.at /\ i.kind # "act"
  PROVE  Asking(i)'
BY DEF Asking, Course

\* What a page starts with ensureWorkspace() asks as it should.
LEMMA EnsuredAsks ==
  ASSUME DeskTypeOK, Linked, DeskNext, NEW j \in JobRow,
         \/ j.kind = "sync" /\ j.todo = {} /\ j.page = "organisation"
         \/ j.kind = "lock" /\ j.todo # {}
         \/ j.kind = "open" /\ j.page \in DeskPages,
         j.page = desk'.at,
         NEW i \in Ensured(j)
  PROVE  Asking(i)'
<1>1. /\ i \in JobRow /\ i.state = "out"
      /\ i.kind = j.kind /\ i.page = j.page /\ i.todo = j.todo /\ i.mine = j.mine
      /\ \/ i.at = "create"
         \/ i.at = FirstStep(j) /\ Exists(i.link)
  BY EnsuredOne
<1>2. /\ j.kind = "sync" => FirstStep(j) = "profile"
      /\ j.kind = "lock" => FirstStep(j) = "entry"
      /\ j.kind = "open" => FirstStep(j) = IF j.todo = {} THEN "get" ELSE "entry"
  BY FirstSteps
<1>3. Course(i)
  BY <1>1, <1>2 DEF Course
<1>4. i.at = "create" \/ Exists(i.link)'
  BY <1>1, Grows
<1>5. i.mine => i.page = desk'.at /\ i.kind # "act"
  BY <1>1
<1>6. QED
  BY <1>1, <1>3, <1>4, <1>5, AskingBegins

\* Every request goes where it should.
LEMMA AskingStep ==
  ASSUME DeskTypeOK, Linked, DeskNext, NEW i \in jobs'
  PROVE  Asking(i)'
<1>1. /\ jobs \subseteq JobRow
      /\ desk.link # 0 => Exists(desk.link)
      /\ desk.timer => desk.at = "organisation"
      /\ desk.step # "none" => desk.at = "analysis"
      /\ desk.link \in Space \cup {0}
  BY DEF Linked, DeskTypeOK, DeskRow
<1>2. ASSUME NEW j \in jobs
      PROVE  /\ Asking(j)
             /\ j \in JobRow /\ Course(j)
             /\ j.at # "create" \/ j.state = "done" => Exists(j.link)'
             /\ j.mine => j.page = desk.at
             /\ j.mine /\ j.kind = "act" => desk.link # 0
  BY <1>1, Grows DEF Linked, Asking
<1>3. ASSUME i \in jobs, i.mine => desk'.at = desk.at /\ (desk.link # 0 => desk'.link # 0)
      PROVE  Asking(i)'
  BY <1>2, <1>3, AskingStays
<1>4. ASSUME NEW j \in jobs, i = Left(j)
      PROVE  Asking(i)'
  <2>1. i.mine = FALSE /\ Alike(i, j)
    BY <1>2, <1>4, LeftRow
  <2>2. QED
    BY <1>2, <2>1, AskingStays DEF Alike
<1>5. CASE GoOrganisation \/ GoAnalysis
  BY <1>4, <1>5, GoDoes
<1>6. CASE Convene \/ Convened \/ Cancel \/ Reopen
  BY <1>3, <1>6, BoardDoes
<1>7. CASE \E b \in BOOLEAN : Update(b)
  BY <1>3, <1>7, UpdateDoes
<1>8. CASE TimerFires
  <2>1. /\ desk.at = "organisation" /\ desk'.at = desk.at /\ desk'.link = desk.link
        /\ jobs' = jobs \cup Ensured(Job("sync", "organisation"))
    BY <1>1, <1>8, TimerDoes
  <2>2. /\ Job("sync", "organisation") \in JobRow /\ Job("sync", "organisation").todo = {}
        /\ Job("sync", "organisation").kind = "sync" /\ Job("sync", "organisation").page = "organisation"
    BY FreshJob
  <2>3. CASE i \in Ensured(Job("sync", "organisation"))
    BY <2>1, <2>2, <2>3, EnsuredAsks
  <2>4. CASE i \in jobs
    BY <1>3, <2>1, <2>4
  <2>5. QED
    BY <2>1, <2>3, <2>4
<1>9. CASE ClearBoard
  <2>1. /\ desk.at = "organisation" /\ desk'.at = desk.at
        /\ jobs' = jobs \cup (IF desk.link = 0 THEN {} ELSE {DeleteJob(desk.link)})
    BY <1>9, ClearDoes
  <2>2. CASE i \in jobs
    <3>1. i.mine => i.kind # "act"
      BY <1>2, <2>1, <2>2, PagesApart DEF Course
    <3>2. QED
      BY <1>2, <2>1, <2>2, <3>1 DEF Asking, Course
  <2>3. CASE i \notin jobs
    <3>1. i = DeleteJob(desk.link) /\ desk.link # 0
      BY <2>1, <2>3
    <3>2. /\ i.kind = "clear" /\ i.at = "delete" /\ i.link = desk.link /\ i.todo = {} /\ i.mine = FALSE
          /\ i.state = "out"
      BY <1>1, <3>1, FreshDelete
    <3>3. Exists(i.link)'
      BY <1>1, <3>1, <3>2, Grows
    <3>4. Course(i)
      BY <3>2 DEF Course
    <3>5. QED
      BY <3>2, <3>3, <3>4, AskingBegins
  <2>4. QED
    BY <2>2, <2>3
<1>10. CASE Lock
  <2>1. PICK e \in Entry \ stored.log :
          /\ desk.step # "none" /\ desk'.at = desk.at /\ desk'.link = desk.link
          /\ jobs' = jobs \cup Ensured(JobFor("lock", "analysis", {e}))
    BY <1>10, LockDoes
  <2>2. /\ JobFor("lock", "analysis", {e}) \in JobRow
        /\ JobFor("lock", "analysis", {e}).kind = "lock"
        /\ JobFor("lock", "analysis", {e}).page = "analysis"
        /\ JobFor("lock", "analysis", {e}).todo = {e}
    BY FreshLock
  <2>3. CASE i \in Ensured(JobFor("lock", "analysis", {e}))
    <3>1. desk'.at = "analysis" /\ JobFor("lock", "analysis", {e}).todo # {}
      BY <1>1, <2>1, <2>2
    <3>2. QED
      BY <2>2, <2>3, <3>1, EnsuredAsks
  <2>4. CASE i \in jobs
    BY <1>3, <2>1, <2>4
  <2>5. QED
    BY <2>1, <2>3, <2>4
<1>11. CASE \E p \in DeskPages : OpenPage(p)
  <2>1. PICK p \in DeskPages : OpenPage(p)
    BY <1>11
  <2>2. PICK todo \in SUBSET Entry :
          /\ desk'.at = p
          /\ jobs' = {Left(j) : j \in jobs} \cup Ensured(JobFor("open", p, todo))
    BY <2>1, OpenDoes
  <2>3. /\ JobFor("open", p, todo) \in JobRow
        /\ JobFor("open", p, todo).kind = "open"
        /\ JobFor("open", p, todo).page = p
    BY PagesApart, FreshOpen
  <2>4. CASE i \in Ensured(JobFor("open", p, todo))
    BY <2>2, <2>3, <2>4, EnsuredAsks
  <2>5. CASE i \in {Left(j) : j \in jobs}
    BY <1>4, <2>5
  <2>6. QED
    BY <2>2, <2>4, <2>5
<1>12. CASE \E to \in UNION {Offer(p) : p \in DeskPages} : Act(to)
  <2>1. PICK put \in PutRow :
          /\ desk.at \in DeskPages /\ desk.sight # NoSight
          /\ desk'.at = desk.at /\ desk'.link = desk.link
          /\ jobs' = jobs \cup {PutJob(desk.at, desk.link, put)}
    BY <1>12, ActDoes
  <2>2. CASE i \in jobs
    BY <1>3, <2>1, <2>2
  <2>3. CASE i = PutJob(desk.at, desk.link, put)
    <3>1. /\ i.kind = "act" /\ i.page = desk.at /\ i.at = "put" /\ i.state = "out"
          /\ i.link = desk.link /\ i.todo = {}
      BY <2>3 DEF PutJob, Job
    <3>2. desk.link # 0
      BY <2>1 DEF Linked
    <3>3. Exists(i.link)'
      BY <1>1, <3>1, <3>2, Grows
    <3>4. Course(i)
      BY <2>1, <3>1 DEF Course
    <3>5. QED
      BY <2>1, <3>1, <3>2, <3>3, <3>4 DEF Asking
  <2>4. QED
    BY <2>1, <2>2, <2>3
<1>13. ASSUME NEW j \in jobs, ServeJob(j)
       PROVE  Asking(i)'
  <2>1. PICK n \in Space, state \in {"done", "refused"}, sight \in SightRow : ServedAs(j, n, state, sight)
    BY <1>13, DeskServes
  <2>2. desk' = desk /\ jobs' = (jobs \ {j}) \cup {Served(j, state, n, sight)}
    BY <1>13, <2>1, DeskServes DEF ServedAs
  <2>3. CASE i \in jobs
    BY <1>3, <2>2, <2>3
  <2>4. CASE i = Served(j, state, n, sight)
    <3>1. /\ i.kind = j.kind /\ i.page = j.page /\ i.at = j.at /\ i.todo = j.todo /\ i.mine = j.mine
          /\ i.link = n
      BY <1>2, <2>4, ServedRow
    <3>2. Exists(n)'
      <4>1. CASE j.at = "create"
        <5>1. /\ spaces' = [spaces EXCEPT ![n] = Later(j, spaces[n])] /\ spaces[n] \in SpaceRow
              /\ spaces \in [Space -> SpaceRow]
          BY <2>1, <4>1 DEF ServedAs, DeskTypeOK
        <5>2. Later(j, spaces[n]).status = "lives"
          BY <1>2, <4>1, <5>1, AfterDoes
        <5>3. QED
          BY <5>1, <5>2 DEF Exists
      <4>2. CASE j.at # "create"
        BY <1>2, <2>1, <4>2 DEF ServedAs
      <4>3. QED
        BY <4>1, <4>2
    <3>3. QED
      BY <1>2, <2>2, <3>1, <3>2, AskingStays
  <2>5. QED
    BY <2>2, <2>3, <2>4
<1>14. ASSUME NEW j \in jobs, LoseJob(j)
       PROVE  Asking(i)'
  <2>1. desk'.at = desk.at /\ desk'.link = desk.link /\ jobs' = (jobs \ {j}) \cup {Missed(j)}
    BY <1>14, DeskLoses
  <2>2. CASE i \in jobs
    BY <1>3, <2>1, <2>2
  <2>3. CASE i = Missed(j)
    <3>1. /\ i.kind = j.kind /\ i.page = j.page /\ i.at = j.at /\ i.todo = j.todo /\ i.mine = j.mine
          /\ i.link = j.link /\ i.state = "refused"
      BY <1>2, <2>3, MissedRow
    <3>2. QED
      BY <1>2, <2>1, <3>1, AskingStays
  <2>4. QED
    BY <2>1, <2>2, <2>3
<1>15. ASSUME NEW j \in jobs, Synced(j)
       PROVE  Asking(i)'
  <2>1. /\ i \in jobs /\ desk'.at = desk.at /\ (~ j.mine => desk' = desk)
        /\ j.kind = "sync"
    BY <1>15, SyncedDoes
  <2>2. CASE j.mine
    <3>1. desk.at = "organisation"
      BY <1>2, <2>1, <2>2 DEF Course
    <3>2. i.mine => i.kind # "act"
      BY <1>2, <2>1, <3>1, PagesApart DEF Course
    <3>3. QED
      BY <1>2, <2>1, <3>2 DEF Asking, Course
  <2>3. CASE ~ j.mine
    BY <1>3, <2>1, <2>3
  <2>4. QED
    BY <2>2, <2>3
<1>16. ASSUME NEW j \in jobs, Cleared(j)
       PROVE  Asking(i)'
  <2>1. i \in jobs /\ desk' = desk
    BY <1>16 DEF Cleared
  <2>2. QED
    BY <1>3, <2>1
<1>17. ASSUME NEW j \in jobs, Created(j)
       PROVE  Asking(i)'
  <2>1. /\ j.at = "create" /\ j.state \in {"done", "refused"}
        /\ desk'.at = desk.at
        /\ j.state = "done" => jobs' = (jobs \ {j}) \cup {Begun(j)} /\ desk'.link \in {desk.link, j.link}
        /\ j.state = "refused" => jobs' = jobs \ {j} /\ desk' = desk
    BY <1>17, CreatedDoes
  <2>2. j.state = "done" => Exists(j.link)' /\ j.link # 0
    BY <1>2, DeskAssumption DEF Exists
  <2>3. CASE i \in jobs
    BY <1>3, <2>1, <2>2, <2>3
  <2>4. CASE i \notin jobs
    <3>1. j.state = "done" /\ i = Begun(j)
      BY <2>1, <2>4
    <3>2. /\ j.kind \in {"open", "lock", "sync"}
          /\ j.kind = "sync" => j.todo = {}
      BY <1>2, <2>1 DEF Course, JobRow
    <3>3. /\ i.at = FirstStep(j) /\ i.state = "out" /\ i.kind = j.kind /\ i.page = j.page /\ i.link = j.link
          /\ i.todo = j.todo /\ i.mine = j.mine
      BY <1>2, <3>1, <3>2, BegunRow
    <3>4. /\ j.kind = "sync" => FirstStep(j) = "profile"
          /\ j.kind = "lock" => FirstStep(j) = "entry"
          /\ j.kind = "open" => FirstStep(j) = IF j.todo = {} THEN "get" ELSE "entry"
      BY <1>2, <2>1, <3>2, FirstSteps DEF Course
    <3>5. Course(i)
      BY <1>2, <3>2, <3>3, <3>4 DEF Course
    <3>6. QED
      BY <1>2, <2>1, <2>2, <3>1, <3>2, <3>3, <3>5, AskingBegins
  <2>5. QED
    BY <2>3, <2>4
<1>18. ASSUME NEW j \in jobs, Entered(j)
       PROVE  Asking(i)'
  <2>1. PICK next \in SUBSET JobRow :
         /\ j.at = "entry"
         /\ jobs' = (jobs \ {j}) \cup next
         /\ \A k \in next :
              /\ j.kind # "lock"
              /\ k.kind = j.kind /\ k.page = j.page /\ k.mine = j.mine /\ k.state = "out"
              /\ \/ k.at = "get" /\ k.link = j.link /\ k.todo = {}
                 \/ /\ j.state = "done" /\ k.todo = j.todo \ {Newest(j.todo)} /\ k.todo # {}
                    /\ (k.at = "create" /\ stored.link = 0) \/ (k.at = "entry" /\ Exists(k.link))
         /\ desk' = desk
    BY <1>18, EnteredDoes
  <2>2. CASE i \in jobs
    BY <1>3, <2>1, <2>2
  <2>3. CASE i \in next
    <3>1. j.kind = "open" /\ Exists(j.link)'
      BY <1>2, <2>1, <2>3 DEF Course, JobRow
    <3>2. i.state = "out" /\ i.kind = "open" /\ i.page = j.page /\ i.mine = j.mine
      BY <2>1, <2>3, <3>1
    <3>3. \/ i.at = "get" /\ i.link = j.link /\ i.todo = {}
          \/ i.todo # {} /\ (i.at = "create" \/ (i.at = "entry" /\ Exists(i.link)))
      BY <2>1, <2>3
    <3>4. i.at = "create" \/ Exists(i.link)'
      BY <3>1, <3>3, Grows
    <3>5. j.page \in DeskPages
      BY <1>2, <3>1 DEF Course
    <3>6. Course(i)
      BY <3>2, <3>3, <3>5 DEF Course
    <3>7. QED
      BY <1>2, <2>1, <3>2, <3>4, <3>6, AskingBegins
  <2>4. QED
    BY <2>1, <2>2, <2>3
<1>19. ASSUME NEW j \in jobs, Seen(j)
       PROVE  Asking(i)'
  <2>1. /\ i \in jobs /\ j.at = "get" /\ desk'.at = desk.at
        /\ (j.mine => desk'.link = j.link) /\ (~ j.mine => desk' = desk)
    BY <1>19, SeenDoes
  <2>2. j.link # 0
    BY <1>2, <2>1, DeskAssumption DEF Exists
  <2>3. QED
    BY <1>3, <2>1, <2>2
<1>20. ASSUME NEW j \in jobs, Answered(j)
       PROVE  Asking(i)'
  <2>1. /\ j.at = "put" /\ desk'.at = desk.at /\ desk'.link = desk.link
        /\ jobs' = (jobs \ {j}) \cup (IF j.state = "done" /\ LooksAgain(j.page) THEN {Looking(j)} ELSE {})
    BY <1>20, AnsweredDoes
  <2>2. CASE i \in jobs
    BY <1>3, <2>1, <2>2
  <2>3. CASE i \notin jobs
    <3>1. i = Looking(j)
      BY <2>1, <2>3
    <3>2. /\ i.at = "get" /\ i.state = "out" /\ i.kind = j.kind /\ i.page = j.page /\ i.link = j.link
          /\ i.todo = j.todo /\ i.mine = j.mine
      BY <1>2, <3>1, LookingRow
    <3>3. j.kind = "act" /\ j.todo = {} /\ j.page \in DeskPages
      BY <1>2, <2>1 DEF Course, JobRow
    <3>4. Course(i)
      BY <3>2, <3>3 DEF Course
    <3>5. Exists(i.link)'
      BY <1>2, <2>1, <3>2
    <3>6. QED
      BY <1>2, <2>1, <3>2, <3>4, <3>5 DEF Asking
  <2>4. QED
    BY <2>2, <2>3
<1>21. QED
  BY <1>5, <1>6, <1>7, <1>8, <1>9, <1>10, <1>11, <1>12, <1>13, <1>14, <1>15, <1>16, <1>17, <1>18, <1>19, <1>20,
     DeskCases

\* Every step keeps links and requests at workspaces that exist.
LEMMA LinkedStep ==
  ASSUME DeskTypeOK, Linked, DeskNext
  PROVE  Linked'
<1>1. /\ stored'.link # 0 => Exists(stored.link)'
      /\ desk'.link # 0 => Exists(desk.link)'
  <2>1. ASSUME Exists(stored'.link)
        PROVE  Exists(stored.link)'
    <3>1. \A m : Exists(m) => m \in Space /\ spaces'[m].status # "none"
      BY Grows DEF Exists
    <3>2. QED
      BY <2>1, <3>1 DEF Exists
  <2>2. ASSUME Exists(desk'.link)
        PROVE  Exists(desk.link)'
    <3>1. \A m : Exists(m) => m \in Space /\ spaces'[m].status # "none"
      BY Grows DEF Exists
    <3>2. QED
      BY <2>2, <3>1 DEF Exists
  <2>3. QED
    BY <2>1, <2>2, DeskLinks
<1>2. \A i \in jobs' : Asking(i)'
  BY AskingStep
<1>3. QED
  BY <1>1, <1>2, DeskLinks DEF Linked

-----------------------------------------------------------------------------
(* The organisation is kept.                                               *)

\* A job that shows where a living workspace's link is, or its deletion.
Holding(j, n) ==
  j.link = n /\ \/ j.at = "create" /\ j.state = "done"
                \/ j.at = "delete" /\ j.state = "out"

IsThere(n) == spaces[n].status = "lives"

Reached(n) == n = stored.link \/ \E j \in jobs : Holding(j, n)

\* The organisation is kept, in other words.
LEMMA KeptSays ==
  Kept <=> (stored.typed = typed /\ \A n \in Space : IsThere(n) => n \in adrift \/ Reached(n))
BY DEF Kept, IsThere, Reached, Holding

\* A link that stays stored, and jobs that go on, keep it.
LEMMA KeptWith ==
  ASSUME Kept, stored'.typed = typed', adrift \subseteq adrift', spaces' = spaces,
         stored'.link = stored.link \/ stored.link \in adrift',
         \A j \in jobs : \A n : Holding(j, n) => n \in adrift' \/ \E i \in jobs' : Holding(i, n)
  PROVE  Kept'
<1>1. \A n : IsThere(n)' <=> IsThere(n)
  BY DEF IsThere
<1>2. ASSUME NEW n, Reached(n) PROVE n \in adrift' \/ Reached(n)'
  BY <1>2 DEF Reached, Holding
<1>3. \A n \in Space : IsThere(n) => n \in adrift \/ Reached(n)
  BY KeptSays
<1>4. stored'.typed = typed' /\ \A n \in Space : IsThere(n)' => n \in adrift' \/ Reached(n)'
  BY <1>1, <1>2, <1>3
<1>5. QED
  BY <1>4 DEF Kept, IsThere, Reached, Holding

\* Every step keeps the organisation and its workspace.
LEMMA KeptStep ==
  ASSUME DeskTypeOK, Linked, Kept, Overwriting, DeskNext
  PROVE  Kept'
<1>1. /\ stored.typed = typed
      /\ \A n \in Space : IsThere(n) => n \in adrift \/ Reached(n)
      /\ jobs \subseteq JobRow
  BY KeptSays DEF DeskTypeOK
<1> DEFINE Keeps == stored'.typed = typed' /\ \A n \in Space : IsThere(n)' => n \in adrift' \/ Reached(n)'
<1>2. SUFFICES Keeps
  BY DEF Kept, IsThere, Reached, Holding
<1>3. ASSUME NEW j \in jobs, NEW n, Holding(j, n)
      PROVE  Holding(Left(j), n)
  BY <1>1, <1>3, LeftRow DEF Holding, Alike
<1>4. Kept' => Keeps
  BY DEF Kept, IsThere, Reached, Holding
<1>5. CASE GoOrganisation \/ GoAnalysis
  <2>1. UNCHANGED <<stored, spaces, typed, adrift>> /\ jobs' = {Left(j) : j \in jobs}
    BY <1>5, GoDoes
  <2>2. \A j \in jobs : \A n : Holding(j, n) => \E i \in jobs' : Holding(i, n)
    BY <1>3, <2>1
  <2>3. QED
    BY <1>1, <1>4, <2>1, <2>2, KeptWith
<1>6. CASE Convene \/ Convened \/ Cancel \/ Reopen
  <2>1. UNCHANGED <<stored, spaces, jobs, typed, adrift>>
    BY <1>6, BoardDoes
  <2>2. QED
    BY <1>1, <1>4, <2>1, KeptWith
<1>7. CASE \E b \in BOOLEAN : Update(b)
  <2>1. /\ UNCHANGED <<spaces, jobs>> /\ stored'.typed = typed' /\ stored'.link = desk.link
        /\ adrift' = adrift \cup ({stored.link} \ {desk.link})
    BY <1>7, UpdateDoes
  <2>2. stored'.link = stored.link \/ stored.link \in adrift'
    BY <2>1
  <2>3. QED
    BY <1>1, <1>4, <2>1, <2>2, KeptWith
<1>8. CASE TimerFires
  <2>1. UNCHANGED <<stored, spaces, typed, adrift>> /\ jobs \subseteq jobs'
    BY <1>8, TimerDoes
  <2>2. QED
    BY <1>1, <1>4, <2>1, KeptWith
<1>9. CASE ClearBoard
  <2>1. /\ spaces' = spaces /\ stored'.typed = typed'
        /\ adrift' = adrift \cup ({stored.link} \ {desk.link})
        /\ jobs' = jobs \cup (IF desk.link = 0 THEN {} ELSE {DeleteJob(desk.link)})
        /\ desk.link \in Space \cup {0}
    BY <1>9, ClearDoes DEF DeskTypeOK, DeskRow
  <2>2. ASSUME NEW n \in Space, IsThere(n)', n \notin adrift'
        PROVE  \E i \in jobs' : Holding(i, n)
    <3>1. IsThere(n) /\ n \notin adrift /\ (n = stored.link => n = desk.link)
      BY <2>1, <2>2 DEF IsThere
    <3>2. CASE n = stored.link
      <4>1. desk.link = n /\ n # 0
        BY <3>1, <3>2, DeskAssumption
      <4>2. DeleteJob(n) \in jobs'
        BY <2>1, <4>1
      <4>3. DeleteJob(n).at = "delete" /\ DeleteJob(n).state = "out" /\ DeleteJob(n).link = n
        BY FreshDelete
      <4>4. QED
        BY <4>2, <4>3 DEF Holding
    <3>3. CASE n # stored.link
      BY <1>1, <2>1, <3>1, <3>3 DEF Reached
    <3>4. QED
      BY <3>2, <3>3
  <2>3. QED
    BY <2>1, <2>2 DEF Reached, Holding
<1>10. CASE Lock
  <2>1. /\ UNCHANGED <<spaces, typed, adrift>> /\ jobs \subseteq jobs'
        /\ stored'.typed = stored.typed /\ stored'.link = stored.link
    BY <1>10, LockDoes
  <2>2. QED
    BY <1>1, <1>4, <2>1, KeptWith
<1>11. CASE \E p \in DeskPages : OpenPage(p)
  <2>1. UNCHANGED <<stored, spaces, typed, adrift>> /\ {Left(j) : j \in jobs} \subseteq jobs'
    BY <1>11, OpenDoes
  <2>2. \A j \in jobs : \A n : Holding(j, n) => \E i \in jobs' : Holding(i, n)
    BY <1>3, <2>1
  <2>3. QED
    BY <1>1, <1>4, <2>1, <2>2, KeptWith
<1>12. CASE \E to \in UNION {Offer(p) : p \in DeskPages} : Act(to)
  <2>1. UNCHANGED <<stored, spaces, typed, adrift>> /\ jobs \subseteq jobs'
    BY <1>12, ActDoes
  <2>2. QED
    BY <1>1, <1>4, <2>1, KeptWith
<1>13. ASSUME NEW j \in jobs, ServeJob(j)
       PROVE  Keeps
  <2>1. PICK n \in Space, state \in {"done", "refused"}, sight \in SightRow : ServedAs(j, n, state, sight)
    BY <1>13, DeskServes
  <2>2. /\ UNCHANGED <<stored, typed, adrift>>
        /\ j.state = "out" /\ jobs' = (jobs \ {j}) \cup {Served(j, state, n, sight)}
        /\ spaces' = IF state = "done" THEN [spaces EXCEPT ![n] = Later(j, spaces[n])] ELSE spaces
        /\ IF j.at = "create" THEN state = "done" /\ spaces[n].status = "none"
           ELSE n = j.link /\ (state = "done" <=> spaces[n].status = "lives")
    BY <1>13, <2>1, DeskServes DEF ServedAs
  <2>3. j \in JobRow /\ Course(j) /\ spaces \in [Space -> SpaceRow] /\ spaces[n] \in SpaceRow
    BY DEF DeskTypeOK, Linked, Asking
  <2>4. Later(j, spaces[n]).status =
          IF j.at = "create" THEN "lives" ELSE IF j.at = "delete" THEN "gone" ELSE spaces[n].status
    BY <2>3, AfterDoes
  <2>5. ASSUME NEW m \in Space, IsThere(m)', m \notin adrift
        PROVE  m = stored.link \/ \E i \in jobs' : Holding(i, m)
    <3>1. CASE j.at = "create" /\ m = n
      <4>1. /\ Served(j, state, n, sight).at = "create" /\ Served(j, state, n, sight).state = "done"
            /\ Served(j, state, n, sight).link = n
        BY <2>2, <2>3, <3>1, ServedRow
      <4>2. QED
        BY <2>2, <3>1, <4>1 DEF Holding
    <3>2. CASE ~ (j.at = "create" /\ m = n)
      <4>1. IsThere(m) /\ ~ (j.at = "delete" /\ m = n)
        BY <2>2, <2>3, <2>4, <2>5, <3>2 DEF IsThere
      <4>2. ~ Holding(j, m)
        BY <2>2, <4>1 DEF Holding
      <4>3. QED
        BY <1>1, <2>2, <2>5, <4>1, <4>2 DEF Reached
    <3>3. QED
      BY <3>1, <3>2
  <2>6. QED
    BY <1>1, <2>2, <2>5 DEF Reached, Holding
<1>14. ASSUME NEW j \in jobs, LoseJob(j)
       PROVE  Keeps
  <2>1. /\ UNCHANGED <<stored, spaces, typed>> /\ adrift \subseteq adrift'
        /\ \/ j.at = "create" /\ j.state = "done"
           \/ j.at = "delete" /\ j.state = "out"
           => j.link \in adrift'
        /\ jobs' = (jobs \ {j}) \cup {Missed(j)}
    BY <1>14, DeskLoses
  <2>2. \A n : Holding(j, n) => n \in adrift'
    BY <2>1 DEF Holding
  <2>3. QED
    BY <1>1, <1>4, <2>1, <2>2, KeptWith
<1>15. ASSUME NEW j \in jobs, j.at \notin {"create", "delete"} \/ j.state = "refused",
              stored'.typed = typed', adrift' = adrift, spaces' = spaces, stored'.link = stored.link,
              jobs \ {j} \subseteq jobs'
       PROVE  Keeps
  <2>1. \A n : ~ Holding(j, n)
    BY <1>15 DEF Holding
  <2>2. \A k \in jobs : \A n : Holding(k, n) => \E i \in jobs' : Holding(i, n)
    BY <1>15, <2>1
  <2>3. QED
    BY <1>1, <1>4, <1>15, <2>2, KeptWith
<1>16. ASSUME NEW j \in jobs, Synced(j)
       PROVE  Keeps
  BY <1>1, <1>15, <1>16, SyncedDoes
<1>17. ASSUME NEW j \in jobs, Cleared(j)
       PROVE  Keeps
  <2>1. /\ j.kind = "clear" /\ j.state # "out" /\ jobs' = jobs \ {j}
        /\ UNCHANGED <<stored, spaces, typed, adrift>>
    BY <1>17 DEF Cleared
  <2>2. j.at = "delete"
    BY <2>1 DEF Linked, Asking, Course
  <2>3. \A n : ~ Holding(j, n)
    BY <2>1, <2>2 DEF Holding
  <2>4. QED
    BY <1>1, <1>4, <2>1, <2>3, KeptWith
<1>18. ASSUME NEW j \in jobs, Created(j)
       PROVE  Keeps
  <2>1. CASE j.state = "refused"
    BY <1>1, <1>15, <1>18, <2>1, CreatedDoes
  <2>2. CASE j.state = "done"
    <3>1. /\ jobs \ {j} \subseteq jobs' /\ stored'.link = j.link /\ stored'.typed = typed'
          /\ adrift \subseteq adrift' /\ spaces' = spaces
      BY <1>1, <1>18, <2>2, CreatedDoes
    <3>2. stored.link # 0 => stored.link \in adrift
      BY <1>18, CreatedDoes DEF Overwriting, Creating
    <3>3. ASSUME NEW n \in Space, IsThere(n)', n \notin adrift'
          PROVE  n = j.link \/ \E i \in jobs' : Holding(i, n)
      <4>1. IsThere(n) /\ n \notin adrift /\ n # stored.link
        BY <3>1, <3>2, <3>3, DeskAssumption DEF IsThere
      <4>2. PICK i \in jobs : Holding(i, n)
        BY <1>1, <4>1 DEF Reached
      <4>3. i = j => n = j.link
        BY <4>2 DEF Holding
      <4>4. QED
        BY <3>1, <4>2, <4>3
    <3>4. QED
      BY <3>1, <3>3 DEF Reached, Holding
  <2>3. QED
    BY <1>18, <2>1, <2>2, CreatedDoes
<1>19. ASSUME NEW j \in jobs, Entered(j)
       PROVE  Keeps
  BY <1>1, <1>15, <1>19, EnteredDoes
<1>20. ASSUME NEW j \in jobs, Seen(j)
       PROVE  Keeps
  BY <1>1, <1>15, <1>20, SeenDoes
<1>21. ASSUME NEW j \in jobs, Answered(j)
       PROVE  Keeps
  BY <1>1, <1>15, <1>21, AnsweredDoes
<1> HIDE DEF Keeps
<1>22. QED
  BY <1>5, <1>6, <1>7, <1>8, <1>9, <1>10, <1>11, <1>12, <1>13, <1>14, <1>16, <1>17, <1>18, <1>19, <1>20, <1>21,
     DeskCases


\* Who creates a workspace began so before there was a link.
LEMMA OverwritingStep ==
  ASSUME DeskTypeOK, Linked, Overwriting, DeskNext
  PROVE  Overwriting'
<1>1. /\ Creating /\ stored.link # 0 => stored.link \in adrift
      /\ desk.at = "organisation" /\ desk.link # 0 =>
           stored.link # 0 /\ (Creating => desk.link \in adrift)
      /\ jobs \subseteq JobRow
      /\ desk.step # "none" => desk.at = "analysis"
  BY DEF Overwriting, DeskTypeOK, Linked
<1> DEFINE created == \E j \in jobs : j.at = "create"
           creating == \E j \in jobs' : j.at = "create"
<1>2. /\ created /\ stored.link # 0 => stored.link \in adrift
      /\ desk.at = "organisation" /\ created /\ desk.link # 0 => desk.link \in adrift
      /\ desk.at = "organisation" /\ desk.link # 0 => stored.link # 0
  BY <1>1 DEF Creating
<1> DEFINE Safe == /\ creating /\ stored'.link # 0 => stored'.link \in adrift'
                   /\ desk'.at = "organisation" /\ desk'.link # 0 =>
                        stored'.link # 0 /\ (creating => desk'.link \in adrift')
<1>3. SUFFICES Safe
  BY DEF Overwriting, Creating
<1>4. \A j \in jobs : j \in JobRow /\ Course(j) /\ (j.mine => j.page = desk.at)
  BY <1>1 DEF Linked, Asking
<1>5. ASSUME stored'.link = stored.link, adrift \subseteq adrift',
             desk'.at = "organisation" =>
               (desk.at = "organisation" /\ desk'.link = desk.link) \/ desk'.link \in {0, stored.link},
             \A i \in jobs' : i.at = "create" => stored.link = 0 \/ created
      PROVE  Safe
  <2> HIDE DEF created
  <2>1. creating => stored.link = 0 \/ created
    BY <1>5
  <2> HIDE DEF creating
  <2>2. QED
    BY <1>2, <1>5, <2>1
<1> HIDE DEF Safe
<1>6. CASE GoOrganisation \/ GoAnalysis
  <2>1. /\ UNCHANGED <<stored, adrift>> /\ jobs' = {Left(j) : j \in jobs}
        /\ desk'.link \in {0, stored.link}
    BY <1>6, GoDoes
  <2>2. ASSUME NEW j \in jobs PROVE Left(j).at = j.at
    BY <1>4, LeftRow DEF Alike
  <2>3. \A i \in jobs' : i.at = "create" => created
    BY <2>1, <2>2
  <2>4. QED
    BY <1>5, <2>1, <2>3
<1>7. CASE Convene \/ Convened \/ Cancel \/ Reopen
  <2>1. UNCHANGED <<stored, adrift, jobs>> /\ desk'.at = desk.at /\ desk'.link = desk.link
    BY <1>7, BoardDoes
  <2>2. QED
    BY <1>5, <2>1
<1>8. CASE \E b \in BOOLEAN : Update(b)
  <2>1. /\ jobs' = jobs /\ stored'.link = desk.link /\ adrift \subseteq adrift'
        /\ desk.at = "organisation" /\ desk'.link = desk.link
    BY <1>8, UpdateDoes
  <2>2. QED
    BY <1>2, <2>1 DEF Safe
<1>9. CASE TimerFires
  <2>1. /\ UNCHANGED <<stored, adrift>> /\ desk'.at = desk.at /\ desk'.link = desk.link
        /\ jobs' = jobs \cup Ensured(Job("sync", "organisation"))
    BY <1>9, TimerDoes
  <2>2. Job("sync", "organisation") \in JobRow /\ Job("sync", "organisation").todo = {}
    BY FreshJob
  <2>3. \A i \in Ensured(Job("sync", "organisation")) : i.at = "create" => stored.link = 0
    BY <2>2, EnsuredOne, FirstSteps
  <2>4. QED
    BY <1>5, <2>1, <2>3
<1>10. CASE ClearBoard
  <2>1. stored'.link = 0 /\ desk'.link = 0
    BY <1>10, ClearDoes
  <2>2. QED
    BY <2>1 DEF Safe
<1>11. CASE Lock
  <2>1. PICK e \in Entry \ stored.log :
          /\ desk'.at = desk.at /\ desk'.link = desk.link /\ stored'.link = stored.link
          /\ jobs' = jobs \cup Ensured(JobFor("lock", "analysis", {e}))
          /\ adrift' = adrift
    BY <1>11, LockDoes
  <2>2. JobFor("lock", "analysis", {e}) \in JobRow /\ JobFor("lock", "analysis", {e}).kind = "lock"
    BY FreshLock
  <2>3. \A i \in Ensured(JobFor("lock", "analysis", {e})) : i.at = "create" => stored.link = 0
    BY <2>2, EnsuredOne, FirstSteps
  <2>4. QED
    BY <1>5, <2>1, <2>3
<1>12. CASE \E p \in DeskPages : OpenPage(p)
  <2>1. PICK p \in DeskPages : OpenPage(p)
    BY <1>12
  <2>2. PICK todo \in SUBSET Entry :
          /\ desk'.at = p /\ UNCHANGED <<stored, adrift>>
          /\ jobs' = {Left(j) : j \in jobs} \cup Ensured(JobFor("open", p, todo))
    BY <2>1, OpenDoes
  <2>3. JobFor("open", p, todo) \in JobRow /\ JobFor("open", p, todo).kind = "open"
    BY FreshOpen, PagesApart
  <2>4. \A i \in Ensured(JobFor("open", p, todo)) : i.at = "create" => stored.link = 0
    BY <2>3, EnsuredOne, FirstSteps
  <2>5. ASSUME NEW j \in jobs PROVE Left(j).at = j.at
    BY <1>4, LeftRow DEF Alike
  <2>6. \A i \in jobs' : i.at = "create" => stored.link = 0 \/ created
    BY <2>2, <2>4, <2>5
  <2>7. QED
    BY <1>5, <2>2, <2>6, PagesApart
<1>13. CASE \E to \in UNION {Offer(p) : p \in DeskPages} : Act(to)
  <2>1. PICK put \in PutRow :
          /\ desk.at \in DeskPages /\ desk'.at = desk.at
          /\ jobs' = jobs \cup {PutJob(desk.at, desk.link, put)}
          /\ UNCHANGED <<stored, adrift>>
    BY <1>13, ActDoes
  <2>2. PutJob(desk.at, desk.link, put).at = "put"
    BY DEF PutJob, Job
  <2>3. QED
    BY <1>5, <2>1, <2>2, PagesApart
<1>14. ASSUME NEW j \in jobs, jobs' \subseteq (jobs \ {j}) \cup {i \in JobRow : i.at # "create" \/ j.at = "create"},
              stored'.link = stored.link, adrift \subseteq adrift',
              desk'.at = "organisation" =>
                (desk.at = "organisation" /\ desk'.link = desk.link) \/ desk'.link \in {0, stored.link}
       PROVE  Safe
  <2>1. \A i \in jobs' : i.at = "create" => created
    BY <1>14
  <2>2. QED
    BY <1>5, <1>14, <2>1
<1>15. ASSUME NEW j \in jobs, ServeJob(j)
       PROVE  Safe
  <2>1. PICK n \in Space, state \in {"done", "refused"}, sight \in SightRow : ServedAs(j, n, state, sight)
    BY <1>15, DeskServes
  <2>2. UNCHANGED <<stored, desk, adrift>> /\ jobs' = (jobs \ {j}) \cup {Served(j, state, n, sight)}
    BY <1>15, <2>1, DeskServes DEF ServedAs
  <2>3. Served(j, state, n, sight) \in JobRow /\ Served(j, state, n, sight).at = j.at
    BY <1>4, ServedRow
  <2>4. QED
    BY <1>14, <2>2, <2>3
<1>16. ASSUME NEW j \in jobs, LoseJob(j)
       PROVE  Safe
  <2>1. /\ stored' = stored /\ adrift \subseteq adrift' /\ desk'.at = desk.at /\ desk'.link = desk.link
        /\ jobs' = (jobs \ {j}) \cup {Missed(j)}
    BY <1>16, DeskLoses
  <2>2. Missed(j) \in JobRow /\ Missed(j).at = j.at
    BY <1>4, MissedRow
  <2>3. QED
    BY <1>14, <2>1, <2>2
<1>17. ASSUME NEW j \in jobs, Synced(j)
       PROVE  Safe
  <2>1. /\ UNCHANGED <<stored, adrift>> /\ desk'.at = desk.at /\ jobs' = jobs \ {j}
        /\ desk'.link \in {desk.link, stored.link}
    BY <1>17, SyncedDoes
  <2>2. QED
    BY <1>14, <2>1
<1>18. ASSUME NEW j \in jobs, Cleared(j)
       PROVE  Safe
  <2>1. UNCHANGED <<stored, desk, adrift>> /\ jobs' = jobs \ {j}
    BY <1>18 DEF Cleared
  <2>2. QED
    BY <1>14, <2>1
<1>19. ASSUME NEW j \in jobs, Created(j)
       PROVE  Safe
  <2>1. j.at = "create" /\ j.state \in {"done", "refused"} /\ desk'.at = desk.at
    BY <1>19, CreatedDoes
  <2>2. CASE j.state = "refused"
    BY <1>14, <1>19, <2>2, CreatedDoes
  <2>3. CASE j.state = "done"
    <3>1. /\ jobs' = (jobs \ {j}) \cup {Begun(j)} /\ stored'.link = j.link /\ adrift \subseteq adrift'
          /\ (\E i \in jobs \ {j} : i.at = "create") => j.link \in adrift'
          /\ desk'.link \in {desk.link, j.link}
      BY <1>19, <2>3, CreatedDoes
    <3>2. Begun(j).at # "create"
      <4>1. j.kind = "sync" => j.todo = {}
        BY <1>4 DEF Course
      <4>2. QED
        BY <1>4, <4>1, BegunRow, FirstSteps
    <3>3. creating => j.link \in adrift'
      BY <3>1, <3>2
    <3>4. j.link # 0
      BY <2>3, DeskAssumption DEF Linked, Asking, Exists
    <3>5. desk.at = "organisation" /\ desk.link # 0 => desk.link \in adrift'
      BY <1>2, <2>1, <3>1
    <3> HIDE DEF creating
    <3>6. QED
      BY <2>1, <3>1, <3>3, <3>4, <3>5 DEF Safe
  <2>4. QED
    BY <2>1, <2>2, <2>3
<1>20. ASSUME NEW j \in jobs, Entered(j)
       PROVE  Safe
  <2>1. PICK next \in SUBSET JobRow :
          /\ jobs' = (jobs \ {j}) \cup next
          /\ \A i \in next : i.at = "create" => stored.link = 0
          /\ stored'.link = stored.link /\ UNCHANGED <<desk, adrift>>
    BY <1>20, EnteredDoes
  <2>2. QED
    BY <1>5, <2>1
<1>21. ASSUME NEW j \in jobs, Seen(j)
       PROVE  Safe
  <2>1. /\ UNCHANGED <<stored, adrift>> /\ desk'.at = desk.at /\ jobs' = jobs \ {j}
        /\ j.at = "get" /\ (~ j.mine => desk' = desk)
    BY <1>21, SeenDoes
  <2>2. j.mine => desk.at # "organisation"
    BY <1>4, <2>1, PagesApart DEF Course, JobRow
  <2>3. QED
    BY <1>14, <2>1, <2>2
<1>22. ASSUME NEW j \in jobs, Answered(j)
       PROVE  Safe
  <2>1. /\ UNCHANGED <<stored, adrift>> /\ desk'.at = desk.at /\ desk'.link = desk.link
        /\ jobs' \subseteq (jobs \ {j}) \cup {Looking(j)}
    BY <1>22, AnsweredDoes
  <2>2. Looking(j) \in JobRow /\ Looking(j).at = "get"
    BY <1>4, LookingRow
  <2>3. QED
    BY <1>14, <2>1, <2>2
<1>23. QED
  BY <1>6, <1>7, <1>8, <1>9, <1>10, <1>11, <1>12, <1>13, <1>15, <1>16, <1>17, <1>18, <1>19, <1>20, <1>21, <1>22,
     DeskCases

-----------------------------------------------------------------------------
(* A page nobody crowds is up to date.                                     *)

\* What a page shown as d waits for, and shows.
UpToDateAt(d) == spaces[d.link].status = "lives" => d.sight = Sight(d.at, d.link)

WaitsAt(j, d) ==
  /\ j.mine /\ j.page = d.at
  /\ \/ j.kind = "open" /\ j.at \in {"create", "entry", "get"} /\ d.sight = NoSight
     \/ j.kind = "act" /\ j.at \in {"put", "get"} /\ j.link = d.link
  /\ j.at = "put" =>
       /\ d.sight # NoSight
       /\ d.at \in {"log", "documents"} => j.put.to \notin {"published", "watched"}
       /\ j.state = "out" => UpToDateAt(d)
       /\ j.state = "done" /\ d.at \in {"log", "documents"} =>
            d.link \in Space /\ Sight(d.at, d.link) = [d.sight EXCEPT !.item = j.put.to]
  /\ j.at = "get" /\ j.state = "done" => j.sight = Sight(d.at, j.link)
  /\ j.at # "create" /\ j.state = "refused" => spaces[j.link].status # "lives"

\* What a page waits for depends on the desk only.
LEMMA WaitsSays ==
  ASSUME NEW j
  PROVE  (Waits(j) <=> WaitsAt(j, desk)) /\ (UpToDate <=> UpToDateAt(desk))
BY Zenon DEF Waits, UpToDate, WaitsAt, UpToDateAt

\* While the workspaces stay as they are, what is to be shown is told from the desk.
LEMMA WaitsNext ==
  ASSUME spaces' = spaces
  PROVE  (\A j : WaitsAt(j, desk') => Waits(j)') /\ (UpToDateAt(desk') => UpToDate')
<1>1. Sight(desk.at, desk.link)' = Sight(desk'.at, desk'.link)
  BY Zenon DEF Sight
<1>2. UpToDateAt(desk') <=> UpToDate'
  BY <1>1 DEF UpToDateAt, UpToDate
<1>3. ASSUME NEW j, WaitsAt(j, desk') PROVE Waits(j)'
  <2>1. Sight(desk.at, j.link)' = Sight(desk'.at, j.link)
    BY Zenon DEF Sight
  <2>2. QED
    BY <1>1, <1>2, <1>3, <2>1 DEF Waits, WaitsAt
<1>4. QED
  BY <1>2, <1>3

\* A put into the log or the documents shows as the one thing changed.
LEMMA PutShows ==
  ASSUME DeskTypeOK, NEW p \in {"log", "documents"}, NEW n \in Space, NEW put \in PutRow, spaces \in [Space -> SpaceRow],
         put.to \notin {"published", "watched"},
         spaces'[n] = Put(spaces[n], p, put)
  PROVE  Sight(p, n)' = [Sight(p, n) EXCEPT !.item = put.to]
<1>1. p \in Shelves /\ spaces[n] \in SpaceRow
  BY DEF Shelves
<1>2. spaces'[n].item[p] = put.to
  BY <1>1, PutAfter
<1>3. PICK fresh : fresh = FALSE
  OBVIOUS
<1>4. Sight(p, n)' = [item |-> put.to, topics |-> {}, fresh |-> fresh]
  BY <1>2, <1>3 DEF Sight
<1>5. Sight(p, n) = [item |-> spaces[n].item[p], topics |-> {}, fresh |-> fresh]
  BY <1>3 DEF Sight
<1>6. [Sight(p, n) EXCEPT !.item = put.to] = [item |-> put.to, topics |-> {}, fresh |-> fresh]
  BY <1>5
<1>7. QED
  BY <1>4, <1>6

\* A request served is still one that the page waits for.
LEMMA ServedWaits ==
  ASSUME DeskTypeOK, Linked, NEW j \in jobs, Waits(j), desk' = desk, desk.at \in DeskPages,
         NEW n \in Space, NEW state \in {"done", "refused"}, NEW sight \in SightRow,
         ServedAs(j, n, state, sight)
  PROVE  Waits(Served(j, state, n, sight))'
<1>1. /\ j \in JobRow /\ j.put \in PutRow /\ Course(j)
      /\ spaces \in [Space -> SpaceRow] /\ spaces[n] \in SpaceRow
  BY DEF DeskTypeOK, Linked, Asking, JobRow
<1>2. PICK i : i = Served(j, state, n, sight)
  OBVIOUS
<1>3. /\ i.state = state /\ i.link = n /\ i.sight = sight
      /\ i.kind = j.kind /\ i.page = j.page /\ i.at = j.at
      /\ i.put = j.put /\ i.mine = j.mine
  BY <1>1, <1>2, ServedRow
<1>4. /\ j.state = "out"
      /\ spaces' = IF state = "done" THEN [spaces EXCEPT ![n] = Later(j, spaces[n])] ELSE spaces
      /\ IF j.at = "create" THEN state = "done" /\ spaces[n].status = "none"
         ELSE n = j.link /\ (state = "done" <=> spaces[n].status = "lives")
      /\ sight = IF j.at = "get" /\ state = "done" THEN Sight(j.page, n) ELSE j.sight
  BY DEF ServedAs
<1>5. /\ j.mine /\ j.page = desk.at
      /\ \/ j.kind = "open" /\ j.at \in {"create", "entry", "get"} /\ desk.sight = NoSight
         \/ j.kind = "act" /\ j.at \in {"put", "get"} /\ j.link = desk.link
      /\ j.at = "put" =>
           /\ desk.sight # NoSight
           /\ desk.at \in {"log", "documents"} => j.put.to \notin {"published", "watched"}
           /\ UpToDate
  BY <1>4 DEF Waits
<1>6. /\ i.mine /\ i.page = desk.at
      /\ \/ i.kind = "open" /\ i.at \in {"create", "entry", "get"} /\ desk.sight = NoSight
         \/ i.kind = "act" /\ i.at \in {"put", "get"} /\ i.link = desk.link
  BY <1>3, <1>4, <1>5
<1>7. ASSUME i.at = "put"
      PROVE  /\ desk.sight # NoSight
             /\ desk.at \in {"log", "documents"} => i.put.to \notin {"published", "watched"}
             /\ i.state # "out"
             /\ i.state = "done" /\ desk.at \in {"log", "documents"} =>
                  desk.link \in Space /\ Sight(desk.at, desk.link)' = [desk.sight EXCEPT !.item = i.put.to]
  <2>1. n = desk.link /\ (state = "done" => spaces[n].status = "lives")
    BY <1>3, <1>4, <1>5, <1>7
  <2>2. ASSUME state = "done", desk.at \in {"log", "documents"}
        PROVE  Sight(desk.at, n)' = [desk.sight EXCEPT !.item = j.put.to]
    <3>1. desk.sight = Sight(desk.at, n)
      BY <1>3, <1>5, <1>7, <2>1, <2>2 DEF UpToDate
    <3>2. spaces'[n] = Put(spaces[n], desk.at, j.put)
      <4>1. j.at = "put" /\ j.page = desk.at
        BY <1>3, <1>5, <1>7
      <4>2. Later(j, spaces[n]) = Put(spaces[n], j.page, j.put)
        BY <1>1, <4>1, AfterDoes
      <4>3. spaces' = [spaces EXCEPT ![n] = Later(j, spaces[n])]
        BY <1>4, <2>2
      <4>4. spaces'[n] = Later(j, spaces[n])
        BY <1>1, <4>3
      <4>5. QED
        BY <4>1, <4>2, <4>4
    <3>3. j.put.to \notin {"published", "watched"}
      BY <1>3, <1>5, <1>7, <2>2
    <3>4. ASSUME NEW p, p = desk.at PROVE Sight(p, n)' = [Sight(p, n) EXCEPT !.item = j.put.to]
      BY <1>1, <2>2, <3>2, <3>3, <3>4, PutShows
    <3>5. PICK p : p = desk.at
      OBVIOUS
    <3>6. Sight(p, n)' = Sight(desk.at, n)'
      BY <3>5, Zenon DEF Sight
    <3>7. QED
      BY <3>1, <3>4, <3>5, <3>6
  <2>3. Sight(desk.at, n)' = Sight(desk.at, desk.link)'
    BY <2>1, Zenon DEF Sight
  <2>4. QED
    BY <1>3, <1>5, <1>7, <2>1, <2>2, <2>3
<1>8. ASSUME i.at = "get", i.state = "done"
      PROVE  i.sight = Sight(desk.at, i.link)'
  <2>1. spaces'[n] = spaces[n]
    BY <1>1, <1>3, <1>4, <1>8, AfterDoes
  <2>2. Sight(desk.at, i.link)' = Sight(desk.at, n)
    BY <1>3, <2>1, Zenon DEF Sight
  <2>3. QED
    BY <1>3, <1>4, <1>5, <1>8, <2>2
<1>9. i.at # "create" /\ i.state = "refused" => spaces'[i.link].status # "lives"
  BY <1>3, <1>4
<1>10. Waits(i)'
  BY <1>6, <1>7, <1>8, <1>9 DEF Waits
<1>11. QED
  BY <1>2, <1>10

\* What a page uncrowded has: one thing under way, that it waits for.
LEMMA UncrowdedSays ==
  ASSUME Uncrowded, desk.at \in DeskPages, ~ desk.crowded
  PROVE  /\ \A i, j \in jobs : i = j
         /\ \A j \in jobs : WaitsAt(j, desk)
         /\ jobs = {} /\ desk.sight # NoSight => UpToDateAt(desk)
<1>1. /\ \A i, j \in jobs : i = j
      /\ \A j \in jobs : Waits(j)
      /\ jobs = {} /\ desk.sight # NoSight => UpToDate
  BY DEF Uncrowded
<1>2. QED
  BY <1>1, WaitsSays

\* Every step keeps a page nobody crowds at one thing.
LEMMA UncrowdedStep ==
  ASSUME DeskTypeOK, Linked, Uncrowded, DeskNext
  PROVE  Uncrowded'
<1> DEFINE Fresh == /\ \A i, j \in jobs' : i = j
                    /\ \A j \in jobs' : Waits(j)'
                    /\ jobs' = {} /\ desk'.sight # NoSight => UpToDate'
<1>1. SUFFICES ASSUME desk'.at \in DeskPages, ~ desk'.crowded
               PROVE  Fresh
  BY DEF Uncrowded
<1>2. ASSUME spaces' = spaces,
             \A i, j \in jobs' : i = j,
             \A j \in jobs' : WaitsAt(j, desk'),
             jobs' = {} /\ desk'.sight # NoSight => UpToDateAt(desk')
      PROVE  Fresh
  BY <1>2, WaitsNext
<1>3. /\ desk.step # "none" => desk.at = "analysis"
      /\ desk.timer => desk.at = "organisation"
      /\ \A j \in jobs : Course(j) /\ (j.mine => j.page = desk.at)
      /\ desk.link \in Space \cup {0} /\ jobs \subseteq JobRow
      /\ desk.at \in DeskPages /\ desk.sight # NoSight => desk.link \in Space
  BY DEF Linked, Asking, DeskTypeOK, DeskRow, Exists
<1>4. ASSUME desk.at \in DeskPages, ~ desk.crowded
      PROVE  /\ \A i, j \in jobs : i = j
             /\ \A j \in jobs : WaitsAt(j, desk)
             /\ jobs = {} /\ desk.sight # NoSight => UpToDateAt(desk)
  BY <1>4, UncrowdedSays
<1>5. CASE \/ GoOrganisation \/ GoAnalysis \/ Convene \/ Convened \/ Cancel \/ Reopen
           \/ TimerFires \/ ClearBoard \/ Lock \/ \E b \in BOOLEAN : Update(b)
  <2>1. CASE GoOrganisation \/ GoAnalysis
    BY <1>1, <2>1, GoDoes, PagesApart
  <2>2. CASE Convene \/ Convened \/ Cancel \/ Reopen
    BY <1>1, <1>3, <2>2, BoardDoes, PagesApart
  <2>3. CASE TimerFires
    BY <1>1, <1>3, <2>3, TimerDoes, PagesApart
  <2>4. CASE ClearBoard
    BY <1>1, <2>4, ClearDoes, PagesApart
  <2>5. CASE Lock
    BY <1>1, <1>3, <2>5, LockDoes, PagesApart
  <2>6. CASE \E b \in BOOLEAN : Update(b)
    BY <1>1, <2>6, UpdateDoes, PagesApart
  <2>7. QED
    BY <1>5, <2>1, <2>2, <2>3, <2>4, <2>5, <2>6
<1>6. ASSUME NEW p \in DeskPages, OpenPage(p)
      PROVE  Fresh
  <2>1. PICK todo \in SUBSET Entry :
          /\ desk'.at = p /\ desk'.sight = NoSight /\ (desk'.crowded \/ jobs = {})
          /\ jobs' = {Left(j) : j \in jobs} \cup Ensured(JobFor("open", p, todo))
          /\ spaces' = spaces
    BY <1>6, OpenDoes
  <2>2. jobs' = Ensured(JobFor("open", p, todo))
    BY <1>1, <2>1
  <2>3. /\ JobFor("open", p, todo) \in JobRow
        /\ JobFor("open", p, todo).kind = "open"
        /\ JobFor("open", p, todo).page = p
        /\ JobFor("open", p, todo).todo = todo
        /\ JobFor("open", p, todo).mine = TRUE
    BY PagesApart, FreshOpen
  <2>4. FirstStep(JobFor("open", p, todo)) \in {"get", "entry"}
    <3>1. FirstStep(JobFor("open", p, todo)) = IF todo = {} THEN "get" ELSE "entry"
      BY <2>3, FirstSteps
    <3>2. QED
      BY <3>1
  <2>5. /\ \A a, b \in jobs' : a = b
        /\ \A i \in jobs' :
             /\ i.state = "out" /\ i.kind = "open" /\ i.page = p /\ i.mine = TRUE
             /\ i.at \in {"create", "get", "entry"}
    BY <2>2, <2>3, <2>4, EnsuredOne
  <2>6. \A i \in jobs' : WaitsAt(i, desk')
    BY <2>1, <2>5 DEF WaitsAt
  <2>7. QED
    BY <1>2, <2>1, <2>5, <2>6
<1>7. CASE \E to \in UNION {Offer(p) : p \in DeskPages} : Act(to)
  <2>1. PICK put \in PutRow :
          /\ desk.at \in DeskPages /\ desk.sight # NoSight
          /\ desk.at \in {"log", "documents"} => put.to \notin {"published", "watched"}
          /\ desk'.at = desk.at /\ desk'.link = desk.link /\ desk'.sight = desk.sight
          /\ desk'.crowded \/ (jobs = {} /\ ~ desk.crowded)
          /\ jobs' = jobs \cup {PutJob(desk.at, desk.link, put)}
          /\ spaces' = spaces
    BY <1>7, ActDoes
  <2>2. jobs = {} /\ ~ desk.crowded
    BY <1>1, <2>1
  <2>3. PICK i : i = PutJob(desk.at, desk.link, put)
    OBVIOUS
  <2>4. jobs' = {i}
    BY <2>1, <2>2, <2>3
  <2>5. /\ i.kind = "act" /\ i.page = desk.at /\ i.at = "put" /\ i.state = "out"
        /\ i.link = desk.link /\ i.put = put /\ i.mine = TRUE
    BY <2>3 DEF PutJob, Job
  <2>6. UpToDateAt(desk')
    <3>1. UpToDateAt(desk)
      BY <1>4, <2>1, <2>2
    <3>2. QED
      BY <2>1, <3>1 DEF UpToDateAt
  <2>7. WaitsAt(i, desk')
    BY <2>1, <2>5, <2>6 DEF WaitsAt
  <2>8. QED
    BY <1>2, <2>1, <2>4, <2>7
<1>8. ASSUME NEW j \in jobs, ServeJob(j)
      PROVE  Fresh
  <2>1. PICK n \in Space, state \in {"done", "refused"}, sight \in SightRow : ServedAs(j, n, state, sight)
    BY <1>8, DeskServes
  <2>2. desk' = desk /\ jobs' = (jobs \ {j}) \cup {Served(j, state, n, sight)}
    BY <1>8, <2>1, DeskServes DEF ServedAs
  <2>3. jobs' = {Served(j, state, n, sight)} /\ WaitsAt(j, desk)
    BY <1>1, <1>4, <2>2
  <2>4. Waits(j)
    BY <2>3, WaitsSays
  <2>5. Waits(Served(j, state, n, sight))'
    BY <1>1, <2>1, <2>2, <2>4, ServedWaits
  <2>6. QED
    BY <2>3, <2>5
<1>9. ASSUME NEW j \in jobs, desk'.at = desk.at, desk'.crowded = desk.crowded
      PROVE  /\ desk.at \in DeskPages /\ WaitsAt(j, desk) /\ jobs \ {j} = {}
             /\ j.mine /\ j.page = desk.at /\ j.kind \in {"open", "act"}
  BY <1>1, <1>4, <1>9 DEF WaitsAt
<1>10. ASSUME NEW j \in jobs, LoseJob(j)
       PROVE  Fresh
  <2>1. /\ desk'.at = desk.at /\ desk'.crowded = (desk.crowded \/ j.mine)
    BY <1>10, DeskLoses
  <2>2. ~ desk.crowded /\ ~ j.mine
    BY <1>1, <2>1
  <2>3. FALSE
    BY <1>1, <1>4, <2>1, <2>2 DEF WaitsAt
  <2>4. QED
    BY <2>3
<1>11. ASSUME NEW j \in jobs, Synced(j) \/ Cleared(j)
       PROVE  Fresh
  <2>1. desk'.at = desk.at /\ desk'.crowded = desk.crowded /\ j.kind \notin {"open", "act"}
    <3>1. Cleared(j) => desk' = desk /\ j.kind = "clear"
      BY DEF Cleared
    <3>2. QED
      BY <1>11, <3>1, SyncedDoes
  <2>2. QED
    BY <1>9, <2>1
<1>12. ASSUME NEW j \in jobs, Created(j)
       PROVE  Fresh
  <2>1. /\ j.at = "create" /\ j.state \in {"done", "refused"}
        /\ j.state = "done" => jobs' = (jobs \ {j}) \cup {Begun(j)}
        /\ j.state = "refused" => jobs' = jobs \ {j}
        /\ desk'.at = desk.at /\ desk'.sight = desk.sight /\ desk'.crowded = desk.crowded
        /\ spaces' = spaces
    BY <1>12, CreatedDoes
  <2>2. /\ WaitsAt(j, desk) /\ jobs \ {j} = {} /\ j.mine /\ j.page = desk.at
    BY <1>9, <2>1
  <2>3. j.kind = "open" /\ desk.sight = NoSight
    BY <2>1, <2>2 DEF WaitsAt
  <2>4. CASE j.state = "refused"
    BY <1>2, <2>1, <2>2, <2>3, <2>4
  <2>5. CASE j.state = "done"
    <3>1. FirstStep(j) \in {"get", "entry"}
      <4>1. FirstStep(j) = IF j.todo = {} THEN "get" ELSE "entry"
        BY <2>3, FirstSteps
      <4>2. QED
        BY <4>1
    <3>2. PICK i : i = Begun(j)
      OBVIOUS
    <3>3. jobs' = {i}
      BY <2>1, <2>2, <2>5, <3>2
    <3>4. i.at = FirstStep(j) /\ i.state = "out" /\ i.kind = "open" /\ i.page = desk.at /\ i.mine
      BY <1>3, <2>2, <2>3, <3>2, BegunRow
    <3>5. WaitsAt(i, desk')
      BY <2>1, <2>3, <3>1, <3>4 DEF WaitsAt
    <3>6. QED
      BY <1>2, <2>1, <3>3, <3>5
  <2>6. QED
    BY <2>1, <2>4, <2>5
<1>13. ASSUME NEW j \in jobs, Entered(j)
       PROVE  Fresh
  <2>1. PICK next \in SUBSET JobRow :
         /\ j.at = "entry"
         /\ jobs' = (jobs \ {j}) \cup next
         /\ \A a, b \in next : a = b
         /\ \A i \in next :
              /\ i.kind = j.kind /\ i.page = j.page /\ i.mine = j.mine /\ i.state = "out"
              /\ i.at \in {"get", "create", "entry"}
         /\ desk' = desk /\ spaces' = spaces
    BY <1>13, EnteredDoes
  <2>2. /\ WaitsAt(j, desk) /\ jobs \ {j} = {} /\ j.mine /\ j.page = desk.at
    BY <1>9, <2>1
  <2>3. j.kind = "open" /\ desk.sight = NoSight
    BY <2>1, <2>2 DEF WaitsAt
  <2>4. jobs' = next
    BY <2>1, <2>2
  <2>5. \A i \in jobs' : WaitsAt(i, desk')
    BY <2>1, <2>2, <2>3, <2>4 DEF WaitsAt
  <2>6. QED
    BY <1>2, <2>1, <2>3, <2>4, <2>5
<1>14. ASSUME NEW j \in jobs, Seen(j)
       PROVE  Fresh
  <2>1. /\ j.at = "get" /\ j.state \in {"done", "refused"}
        /\ jobs' = jobs \ {j}
        /\ desk'.at = desk.at /\ desk'.crowded = desk.crowded
        /\ j.mine => desk'.link = j.link /\ desk'.sight = IF j.state = "done" THEN j.sight ELSE desk.sight
        /\ spaces' = spaces
    BY <1>14, SeenDoes
  <2>2. /\ WaitsAt(j, desk) /\ jobs \ {j} = {} /\ j.mine
    BY <1>9, <2>1
  <2>3. UpToDateAt(desk')
    <3>1. CASE j.state = "done"
      BY <2>1, <2>2, <3>1 DEF WaitsAt, UpToDateAt
    <3>2. CASE j.state = "refused"
      BY <2>1, <2>2, <3>2 DEF WaitsAt, UpToDateAt
    <3>3. QED
      BY <2>1, <3>1, <3>2
  <2>4. QED
    BY <1>2, <2>1, <2>2, <2>3
<1>15. ASSUME NEW j \in jobs, Answered(j)
       PROVE  Fresh
  <2>1. /\ j.at = "put" /\ j.state \in {"done", "refused"}
        /\ jobs' = (jobs \ {j}) \cup (IF j.state = "done" /\ LooksAgain(j.page) THEN {Looking(j)} ELSE {})
        /\ desk'.at = desk.at /\ desk'.link = desk.link /\ desk'.crowded = desk.crowded
        /\ desk'.sight = IF j.mine /\ j.state = "done" /\ j.page \in {"log", "documents"}
                         THEN [desk.sight EXCEPT !.item = j.put.to] ELSE desk.sight
        /\ spaces' = spaces
    BY <1>15, AnsweredDoes
  <2>2. /\ WaitsAt(j, desk) /\ jobs \ {j} = {} /\ j.mine /\ j.page = desk.at /\ desk.at \in DeskPages
    BY <1>9, <2>1
  <2>3. j.kind = "act" /\ j.link = desk.link
    BY <2>1, <2>2 DEF WaitsAt
  <2>4. CASE j.state = "refused"
    <3>1. jobs' = {} /\ spaces[desk.link].status # "lives"
      BY <2>1, <2>2, <2>3, <2>4 DEF WaitsAt
    <3>2. UpToDateAt(desk')
      BY <2>1, <3>1 DEF UpToDateAt
    <3>3. QED
      BY <1>2, <2>1, <3>1, <3>2
  <2>5. CASE j.state = "done" /\ LooksAgain(j.page)
    <3>1. PICK i : i = Looking(j)
      OBVIOUS
    <3>2. jobs' = {i}
      BY <2>1, <2>2, <2>5, <3>1
    <3>3. i.at = "get" /\ i.state = "out" /\ i.kind = "act" /\ i.page = desk.at /\ i.link = desk.link /\ i.mine
      BY <1>3, <2>2, <2>3, <3>1, LookingRow
    <3>4. WaitsAt(i, desk')
      BY <2>1, <3>3 DEF WaitsAt
    <3>5. QED
      BY <1>2, <2>1, <3>2, <3>4
  <2>6. CASE j.state = "done" /\ ~ LooksAgain(j.page)
    <3>1. j.page \in {"log", "documents"}
      BY <2>2, <2>6, DeskAssumption DEF LooksAgain
    <3>2. Sight(desk.at, desk.link) = [desk.sight EXCEPT !.item = j.put.to]
      BY <2>1, <2>2, <2>6, <3>1 DEF WaitsAt
    <3>3. UpToDateAt(desk')
      BY <2>1, <2>2, <2>6, <3>1, <3>2 DEF UpToDateAt
    <3>4. jobs' = {}
      BY <2>1, <2>2, <2>6
    <3>5. QED
      BY <1>2, <2>1, <3>3, <3>4
  <2>7. QED
    BY <2>1, <2>4, <2>5, <2>6
<1> HIDE DEF Fresh
<1>16. QED
  BY <1>5, <1>6, <1>7, <1>8, <1>10, <1>11, <1>12, <1>13, <1>14, <1>15, DeskCases

-----------------------------------------------------------------------------
(* Decisions locked are sent once.                                         *)

\* What is started sends what nobody has sent, or what is known to be doubled.
LEMMA AddedSends ==
  ASSUME DeskTypeOK, NEW e \in Entry, LockedFor(e),
         NEW B, NEW N, jobs' = B \cup N,
         B = jobs \/ B = {Left(j) : j \in jobs},
         \A a, b \in N : a = b, \A a \in N : a.state = "out",
         \A a \in N : e \in a.todo =>
           \/ e \in doubled'
           \/ NoneSends(e) /\ e \notin stored.imported /\ \A n \in Space : ~ Held(n, e),
         spaces' = spaces, stored'.imported = stored.imported, stored.log \subseteq stored'.log,
         doubled \subseteq doubled'
  PROVE  LockedFor(e)'
<1>1. ASSUME NEW i \in B
      PROVE  \E j \in jobs : Alike(i, j) /\ \/ i = j /\ B = jobs
                                            \/ i = Left(j) /\ B # jobs
  <2>1. CASE B = jobs
    BY <2>1 DEF Alike
  <2>2. CASE B # jobs
    <3>1. PICK j \in jobs : i = Left(j)
      BY <2>2
    <3>2. Alike(i, j)
      BY <3>1, LeftRow DEF DeskTypeOK
    <3>3. QED
      BY <2>2, <3>1, <3>2
  <2>3. QED
    BY <2>1, <2>2
<1>2. ASSUME NEW j \in jobs
      PROVE  \E i \in B : Alike(i, j)
  <2>1. Alike(j, j) /\ Alike(Left(j), j)
    BY LeftRow DEF DeskTypeOK, Alike
  <2>2. QED
    BY <2>1
<1>3. SentBy(e)' <=> SentBy(e)
  <2>1. ASSUME SentBy(e) PROVE SentBy(e)'
    <3>1. PICK j \in jobs : e \in j.todo /\ Sent(j, e)
      BY <2>1 DEF SentBy
    <3>2. PICK i \in B : Alike(i, j)
      BY <1>2
    <3>3. i \in jobs' /\ e \in i.todo /\ Sent(i, e)
      BY <3>1, <3>2 DEF Alike, Sent
    <3>4. QED
      BY <3>3 DEF SentBy, Sent
  <2>2. ASSUME SentBy(e)' PROVE SentBy(e)
    <3>1. PICK i \in jobs' : e \in i.todo /\ Sent(i, e)
      BY <2>2 DEF SentBy, Sent
    <3>2. i \in B
      BY <3>1 DEF Sent
    <3>3. PICK j \in jobs : Alike(i, j)
      BY <1>1, <3>2
    <3>4. e \in j.todo /\ Sent(j, e)
      BY <3>1, <3>3 DEF Alike, Sent
    <3>5. QED
      BY <3>4 DEF SentBy
  <2>3. QED
    BY <2>1, <2>2
<1>4. \A n : Held(n, e)' <=> Held(n, e)
  BY DEF Held
<1>5. \A i \in B : \E j \in jobs : i.todo = j.todo
  BY <1>1 DEF Alike
<1>6. ASSUME e \notin doubled'
      PROVE  SentOnce(e)'
  <2>1. SentOnce(e)
    BY <1>6 DEF LockedFor
  <2>2. ASSUME NEW i \in B, NEW k \in B, e \in i.todo, e \in k.todo
        PROVE  i = k
    <3>1. PICK p \in jobs : Alike(i, p) /\ ((i = p /\ B = jobs) \/ (i = Left(p) /\ B # jobs))
      BY <1>1
    <3>2. PICK q \in jobs : Alike(k, q) /\ ((k = q /\ B = jobs) \/ (k = Left(q) /\ B # jobs))
      BY <1>1
    <3>3. p = q
      BY <2>1, <2>2, <3>1, <3>2 DEF SentOnce, Alike
    <3>4. QED
      BY <3>1, <3>2, <3>3
  <2>3. ASSUME NEW i \in N, e \in i.todo
        PROVE  (\A k \in B : e \notin k.todo) /\ e \notin stored.imported
    <3>1. NoneSends(e) /\ e \notin stored.imported
      BY <1>6, <2>3
    <3>2. QED
      BY <1>5, <3>1 DEF NoneSends
  <2>4. \A i, k \in jobs' : e \in i.todo /\ e \in k.todo => i = k
    BY <2>2, <2>3
  <2>5. e \in stored.imported => \A i \in jobs' : e \notin i.todo
    <3>1. e \in stored.imported => \A i \in B : e \notin i.todo
      BY <1>5, <2>1 DEF SentOnce, NoneSends
    <3>2. QED
      BY <2>3, <3>1
  <2>6. \A n \in Space : Held(n, e) =>
          /\ spaces[n].log[e] = 1 /\ \A k \in Space : Held(k, e) => k = n
          /\ e \in stored.imported \/ SentBy(e)
    BY <2>1 DEF SentOnce
  <2>7. QED
    BY <1>3, <1>4, <2>4, <2>5, <2>6 DEF SentOnce, NoneSends
<1>7. QED
  BY <1>3, <1>4, <1>6 DEF LockedFor

\* A job that goes on with less, or ends, once what it had sent is marked or known
\* to be doubled.
LEMMA Resends ==
  ASSUME DeskTypeOK, NEW e \in Entry, LockedFor(e),
         NEW j \in jobs, NEW N, jobs' = (jobs \ {j}) \cup N,
         \A a, b \in N : a = b, \A a \in N : a.todo \subseteq j.todo /\ a.state # "done",
         spaces' = spaces, stored'.log = stored.log, doubled \subseteq doubled',
         e \in stored.imported => e \in stored'.imported,
         e \in stored'.imported /\ e \notin stored.imported =>
           e \in j.todo /\ Sent(j, e) /\ \A a \in N : e \notin a.todo,
         e \in j.todo /\ Sent(j, e) => e \in stored'.imported \/ e \in doubled'
  PROVE  LockedFor(e)'
<1>1. ASSUME SentBy(e)' PROVE SentBy(e)
  <2>1. PICK i \in jobs' : e \in i.todo /\ Sent(i, e)
    BY <1>1 DEF SentBy, Sent
  <2>2. i \in jobs
    BY <2>1 DEF Sent
  <2>3. QED
    BY <2>1, <2>2 DEF SentBy
<1>2. ASSUME SentBy(e) PROVE SentBy(e)' \/ (e \in j.todo /\ Sent(j, e))
  <2>1. PICK i \in jobs : e \in i.todo /\ Sent(i, e)
    BY <1>2 DEF SentBy
  <2>2. i # j => i \in jobs'
    OBVIOUS
  <2>3. QED
    BY <2>1, <2>2 DEF SentBy, Sent
<1>3. \A n : Held(n, e)' <=> Held(n, e)
  BY DEF Held
<1>4. e \in stored'.imported \/ SentBy(e)' => e \in stored.imported \/ SentBy(e)
  BY <1>1 DEF SentBy
<1>5. ASSUME e \notin doubled'
      PROVE  SentOnce(e)'
  <2>1. SentOnce(e)
    BY <1>5 DEF LockedFor
  <2>2. \A i, k \in jobs : e \in i.todo /\ e \in k.todo => i = k
    BY <2>1 DEF SentOnce
  <2>3. \A i, k \in jobs' : e \in i.todo /\ e \in k.todo => i = k
    BY <2>2
  <2>4. e \in stored'.imported => \A i \in jobs' : e \notin i.todo
    <3>1. CASE e \in stored.imported
      BY <2>1, <3>1 DEF SentOnce, NoneSends
    <3>2. CASE e \in stored'.imported /\ e \notin stored.imported
      BY <2>2, <3>2
    <3>3. QED
      BY <3>1, <3>2
  <2>5. \A n \in Space : Held(n, e) =>
          /\ spaces[n].log[e] = 1 /\ \A k \in Space : Held(k, e) => k = n
          /\ e \in stored.imported \/ SentBy(e)
    BY <2>1 DEF SentOnce
  <2>6. e \in stored.imported \/ SentBy(e) => e \in stored'.imported \/ SentBy(e)'
    BY <1>2, <1>5
  <2>7. QED
    BY <1>3, <2>3, <2>4, <2>5, <2>6 DEF SentOnce, NoneSends
<1>6. QED
  BY <1>3, <1>4, <1>5 DEF LockedFor

\* Nothing happens to the decisions.
LEMMA SameSends ==
  ASSUME NEW e \in Entry, LockedFor(e), jobs' = jobs, spaces' = spaces, doubled' = doubled,
         stored'.log = stored.log, stored'.imported = stored.imported
  PROVE  LockedFor(e)'
<1>1. (SentBy(e)' <=> SentBy(e)) /\ (NoneSends(e)' <=> NoneSends(e)) /\ \A n : Held(n, e)' <=> Held(n, e)
  BY DEF SentBy, Sent, NoneSends, Held
<1>2. SentOnce(e)' <=> SentOnce(e)
  BY <1>1 DEF SentOnce
<1>3. QED
  BY <1>1, <1>2 DEF LockedFor

\* A workspace takes a decision down once; another request changes no entry.
LEMMA ServedSends ==
  ASSUME DeskTypeOK, Linked, NEW e \in Entry, LockedFor(e),
         NEW j \in jobs, j.todo \subseteq stored.log,
         NEW n \in Space, NEW state \in {"done", "refused"}, NEW sight \in SightRow,
         ServedAs(j, n, state, sight), UNCHANGED <<stored, doubled>>
  PROVE  LockedFor(e)'
<1>1. /\ j \in JobRow /\ Course(j) /\ spaces \in [Space -> SpaceRow] /\ spaces[n] \in SpaceRow
      /\ spaces[n].log \in [Entry -> Nat] /\ j.todo \in SUBSET Entry
  BY DEF DeskTypeOK, Linked, Asking, JobRow, SpaceRow
<1>2. /\ j.state = "out"
      /\ spaces' = IF state = "done" THEN [spaces EXCEPT ![n] = Later(j, spaces[n])] ELSE spaces
  BY DEF ServedAs
<1>3. PICK i : i = Served(j, state, n, sight)
  OBVIOUS
<1>4. i.state = state /\ i.at = j.at /\ i.todo = j.todo /\ jobs' = (jobs \ {j}) \cup {i}
  BY <1>1, <1>3, ServedRow DEF ServedAs
<1>5. ~ Sent(j, e)
  BY <1>2 DEF Sent
<1>6. \A m \in Space : spaces[m].log[e] \in Nat
  BY DEF DeskTypeOK, SpaceRow
<1>7. CASE j.at = "entry" /\ state = "done" /\ e = Newest(j.todo)
  <2>1. e \in j.todo /\ e \in stored.log
    BY <1>1, <1>7, NewestIn DEF Course
  <2>2. Later(j, spaces[n]).log = [spaces[n].log EXCEPT ![e] = @ + 1]
    BY <1>1, <1>7, AfterDoes
  <2>3. Later(j, spaces[n]).log[e] = spaces[n].log[e] + 1
    BY <1>1, <2>2
  <2>4. spaces'[n].log[e] = spaces[n].log[e] + 1
    BY <1>1, <1>2, <1>7, <2>3
  <2>5. \A m \in Space : m # n => spaces'[m].log[e] = spaces[m].log[e]
    BY <1>1, <1>2, <1>7
  <2>6. SentBy(e)'
    BY <1>4, <1>7, <2>1 DEF SentBy, Sent
  <2>7. spaces'[n].log[e] > 0
    BY <1>6, <2>4
  <2>8. \A m \in Space : spaces'[m].log[e] > 0 => e \in stored'.log
    BY <2>1
  <2>9. ASSUME e \notin doubled'
        PROVE  SentOnce(e)'
    <3>1. SentOnce(e)
      BY <2>9 DEF LockedFor
    <3>2. ~ SentBy(e)
      BY <1>5, <2>1, <3>1 DEF SentOnce, SentBy
    <3>3. e \notin stored.imported
      BY <2>1, <3>1 DEF SentOnce, NoneSends
    <3>4. \A m \in Space : ~ (spaces[m].log[e] > 0)
      BY <3>1, <3>2, <3>3 DEF SentOnce, Held
    <3>5. spaces'[n].log[e] = 1 /\ \A m \in Space : spaces'[m].log[e] > 0 => m = n
      BY <1>6, <2>4, <2>5, <3>4
    <3>6. \A a, b \in jobs' : e \in a.todo /\ e \in b.todo => a = b
      BY <1>4, <2>1, <3>1 DEF SentOnce
    <3>7. QED
      BY <2>6, <3>3, <3>5, <3>6 DEF SentOnce, Held
  <2>10. QED
    BY <2>7, <2>8, <2>9 DEF LockedFor, Held
<1>8. CASE ~ (j.at = "entry" /\ state = "done" /\ e = Newest(j.todo))
  <2>1. \A m \in Space : spaces'[m].log[e] = spaces[m].log[e]
    <3>1. CASE state = "refused"
      BY <1>2, <3>1
    <3>2. CASE state = "done" /\ j.at # "entry"
      <4>1. Later(j, spaces[n]).log = spaces[n].log
        BY <1>1, <3>2, AfterDoes
      <4>2. spaces' = [spaces EXCEPT ![n] = Later(j, spaces[n])]
        BY <1>2, <3>2
      <4>3. QED
        BY <1>1, <4>1, <4>2
    <3>3. CASE state = "done" /\ j.at = "entry"
      <4>1. Later(j, spaces[n]).log = [spaces[n].log EXCEPT ![Newest(j.todo)] = @ + 1]
        BY <1>1, <3>3, AfterDoes
      <4>2. Later(j, spaces[n]).log[e] = spaces[n].log[e]
        BY <1>1, <1>8, <3>3, <4>1
      <4>3. spaces' = [spaces EXCEPT ![n] = Later(j, spaces[n])]
        BY <1>2, <3>3
      <4>4. QED
        BY <1>1, <4>2, <4>3
    <3>4. QED
      BY <3>1, <3>2, <3>3
  <2>2. ~ Sent(i, e)
    BY <1>4, <1>8 DEF Sent
  <2>3. SentBy(e)' <=> SentBy(e)
    BY <1>4, <1>5, <2>2 DEF SentBy, Sent
  <2>4. ASSUME e \notin doubled'
        PROVE  SentOnce(e)'
    <3>1. SentOnce(e)
      BY <2>4 DEF LockedFor
    <3>2. \A a, b \in jobs' : e \in a.todo /\ e \in b.todo => a = b
      BY <1>4, <3>1 DEF SentOnce
    <3>3. e \in stored'.imported => \A a \in jobs' : e \notin a.todo
      BY <1>4, <3>1 DEF SentOnce, NoneSends
    <3>4. \A m \in Space : spaces[m].log[e] > 0 =>
            /\ spaces[m].log[e] = 1 /\ \A k \in Space : spaces[k].log[e] > 0 => k = m
            /\ e \in stored.imported \/ SentBy(e)
      BY <3>1 DEF SentOnce, Held
    <3>5. QED
      BY <2>1, <2>3, <3>2, <3>3, <3>4 DEF SentOnce, NoneSends, Held
  <2>5. QED
    BY <2>1, <2>3, <2>4 DEF LockedFor, Held
<1>9. QED
  BY <1>7, <1>8

\* Every step keeps what is known of the decisions locked.
LEMMA LockedStep ==
  ASSUME DeskTypeOK, Linked, Locked, DeskNext
  PROVE  Locked'
<1>1. /\ stored.imported \subseteq stored.log /\ \A j \in jobs : j.todo \subseteq stored.log
      /\ \A e \in Entry : LockedFor(e)
      /\ jobs \subseteq JobRow /\ stored.log \in SUBSET Entry
  BY DEF Locked, DeskTypeOK, StoredRow
<1> DEFINE Sound == /\ stored'.imported \subseteq stored'.log /\ \A i \in jobs' : i.todo \subseteq stored'.log
                    /\ \A e \in Entry : LockedFor(e)'
<1>2. SUFFICES Sound
  BY DEF Locked
<1>3. ASSUME NEW j \in jobs
      PROVE  /\ j \in JobRow /\ Course(j) /\ j.todo \subseteq stored.log /\ j.todo \in SUBSET Entry
             /\ j.at \notin {"create", "entry"} => j.todo = {}
             /\ Left(j).todo = j.todo
  BY <1>1, LeftRow DEF Linked, Asking, Course, JobRow, Alike
<1>4. \A i \in {Left(j) : j \in jobs} : i.todo \subseteq stored.log
  BY <1>3
\* Nothing is sent by what is started, or it sends what nobody has.
<1>5. ASSUME NEW B, NEW N, jobs' = B \cup N, B = jobs \/ B = {Left(j) : j \in jobs},
             \A a, b \in N : a = b, \A a \in N : a.state = "out",
             \A a \in N : \A e \in a.todo :
               /\ e \in stored'.log
               /\ \/ e \in doubled'
                  \/ NoneSends(e) /\ e \notin stored.imported /\ \A n \in Space : ~ Held(n, e),
             spaces' = spaces, stored'.imported = stored.imported, stored.log \subseteq stored'.log,
             doubled \subseteq doubled'
      PROVE  Sound
  <2>1. \A i \in jobs' : i.todo \subseteq stored'.log
    <3>1. \A i \in B : i.todo \subseteq stored.log
      BY <1>1, <1>4, <1>5
    <3>2. QED
      BY <1>5, <3>1
  <2>2. ASSUME NEW e \in Entry PROVE LockedFor(e)'
    BY <1>1, <1>5, <2>2, AddedSends
  <2>3. QED
    BY <1>1, <1>5, <2>1, <2>2
\* A job goes on or ends that has sent nothing, or what it sent is known to be doubled.
<1>6. ASSUME NEW j \in jobs, NEW N, jobs' = (jobs \ {j}) \cup N,
             \A a, b \in N : a = b, \A a \in N : a.todo \subseteq j.todo /\ a.state # "done",
             spaces' = spaces, stored'.log = stored.log, stored'.imported = stored.imported,
             doubled \subseteq doubled',
             j.at # "entry" \/ Newest(j.todo) \in doubled'
      PROVE  Sound
  <2>1. \A i \in jobs' : i.todo \subseteq stored'.log
    BY <1>1, <1>6
  <2>2. ASSUME NEW e \in Entry PROVE LockedFor(e)'
    <3>1. Sent(j, e) => e \in doubled'
      BY <1>6 DEF Sent
    <3>2. QED
      BY <1>1, <1>6, <2>2, <3>1, Resends
  <2>3. QED
    BY <1>1, <1>6, <2>1, <2>2
<1>7. ASSUME jobs' = jobs, spaces' = spaces, doubled' = doubled,
             stored'.log = stored.log, stored'.imported = stored.imported
      PROVE  Sound
  <2>1. ASSUME NEW e \in Entry PROVE LockedFor(e)'
    BY <1>1, <1>7, <2>1, SameSends
  <2>2. QED
    BY <1>1, <1>7, <2>1
<1>8. CASE GoOrganisation \/ GoAnalysis
  <2>1. jobs' = {Left(j) : j \in jobs} \cup {} /\ UNCHANGED <<stored, spaces, doubled>>
    BY <1>8, GoDoes
  <2>2. PICK N : N = {}
    OBVIOUS
  <2>3. PICK B : B = {Left(j) : j \in jobs}
    OBVIOUS
  <2>4. jobs' = B \cup N /\ (\A a, b \in N : a = b) /\ \A a \in N : a.state = "out" /\ a.todo = {}
    BY <2>1, <2>2, <2>3
  <2>5. QED
    BY <1>5, <2>1, <2>3, <2>4
<1>9. CASE Convene \/ Convened \/ Cancel \/ Reopen
  <2>1. UNCHANGED <<stored, spaces, jobs, doubled>>
    BY <1>9, BoardDoes
  <2>2. QED
    BY <1>7, <2>1
<1>10. CASE \E b \in BOOLEAN : Update(b)
  <2>1. /\ UNCHANGED <<spaces, jobs, doubled>>
        /\ stored'.log = stored.log /\ stored'.imported = stored.imported
    BY <1>10, UpdateDoes
  <2>2. QED
    BY <1>7, <2>1
<1>11. CASE TimerFires
  <2> DEFINE N == Ensured(Job("sync", "organisation"))
  <2>1. jobs' = jobs \cup N /\ UNCHANGED <<stored, spaces, doubled>>
    BY <1>11, TimerDoes
  <2>2. Job("sync", "organisation") \in JobRow /\ Job("sync", "organisation").todo = {}
    BY FreshJob
  <2>3. (\A a, b \in N : a = b) /\ \A a \in N : a.state = "out" /\ a.todo = {}
    BY <2>2, EnsuredOne
  <2> HIDE DEF N
  <2>4. QED
    BY <1>5, <2>1, <2>3
<1>12. CASE ClearBoard
  <2> DEFINE N == IF desk.link = 0 THEN {} ELSE {DeleteJob(desk.link)}
  <2>1. /\ jobs' = jobs \cup N /\ UNCHANGED <<spaces, doubled>>
        /\ stored'.log = stored.log /\ stored'.imported = stored.imported
    BY <1>12, ClearDoes
  <2>2. (\A a, b \in N : a = b) /\ \A a \in N : a.state = "out" /\ a.todo = {}
    <3>1. desk.link \in Space \cup {0}
      BY DEF DeskTypeOK, DeskRow
    <3>2. DeleteJob(desk.link).state = "out" /\ DeleteJob(desk.link).todo = {}
      BY <3>1, FreshDelete
    <3>3. QED
      BY <3>2
  <2> HIDE DEF N
  <2>3. QED
    BY <1>5, <2>1, <2>2
<1>13. CASE Lock
  <2>1. PICK f \in Entry \ stored.log :
          /\ stored'.log = stored.log \cup {f} /\ stored'.imported = stored.imported
          /\ jobs' = jobs \cup Ensured(JobFor("lock", "analysis", {f}))
          /\ UNCHANGED <<spaces, doubled>>
    BY <1>13, LockDoes
  <2> DEFINE N == Ensured(JobFor("lock", "analysis", {f}))
  <2>2. /\ JobFor("lock", "analysis", {f}) \in JobRow
        /\ JobFor("lock", "analysis", {f}).kind = "lock"
        /\ JobFor("lock", "analysis", {f}).todo = {f}
    BY FreshLock
  <2>3. (\A a, b \in N : a = b) /\ \A a \in N : a.state = "out" /\ a.todo = {f}
    BY <2>2, EnsuredOne
  <2> HIDE DEF N
  <2>4. NoneSends(f) /\ f \notin stored.imported
    BY <1>1 DEF NoneSends
  <2>5. \A n \in Space : ~ Held(n, f)
    BY <1>1, <2>1 DEF LockedFor
  <2>6. jobs' = jobs \cup N
    BY <2>1 DEF N
  <2>7. ASSUME NEW a \in N, NEW e \in a.todo
        PROVE  /\ e \in stored'.log
               /\ \/ e \in doubled'
                  \/ NoneSends(e) /\ e \notin stored.imported /\ \A n \in Space : ~ Held(n, e)
    <3>1. e = f
      BY <2>3
    <3>2. QED
      BY <2>1, <2>4, <2>5, <3>1
  <2>8. stored.log \subseteq stored'.log
    BY <2>1
  <2>9. QED
    BY <1>5, <2>1, <2>3, <2>6, <2>7, <2>8
<1>14. ASSUME NEW p \in DeskPages, OpenPage(p)
       PROVE  Sound
  <2>1. PICK todo \in SUBSET Entry :
          /\ todo \subseteq Unsent
          /\ jobs' = {Left(j) : j \in jobs} \cup Ensured(JobFor("open", p, todo))
          /\ doubled' = doubled \cup {e \in todo : Sending(e) # {}}
          /\ UNCHANGED <<stored, spaces>>
    BY <1>14, OpenDoes
  <2> DEFINE N == Ensured(JobFor("open", p, todo))
  <2>2. /\ JobFor("open", p, todo) \in JobRow
        /\ JobFor("open", p, todo).kind = "open"
        /\ JobFor("open", p, todo).todo = todo
    BY PagesApart, FreshOpen
  <2>3. (\A a, b \in N : a = b) /\ \A a \in N : a.state = "out" /\ a.todo = todo
    BY <2>2, EnsuredOne
  <2> HIDE DEF N
  <2>4. ASSUME NEW e \in todo, e \notin doubled'
        PROVE  NoneSends(e) /\ e \notin stored.imported /\ \A n \in Space : ~ Held(n, e)
    <3>1. NoneSends(e)
      BY <2>1, <2>4 DEF NoneSends, Sending
    <3>2. e \in stored.log /\ e \notin stored.imported
      BY <2>1 DEF Unsent
    <3>3. SentOnce(e)
      BY <1>1, <2>1, <2>4 DEF LockedFor
    <3>4. ~ SentBy(e)
      BY <3>1 DEF SentBy, NoneSends
    <3>5. QED
      BY <3>1, <3>2, <3>3, <3>4 DEF SentOnce
  <2>5. todo \subseteq stored'.log
    BY <2>1 DEF Unsent
  <2>6. QED
    BY <1>5, <2>1, <2>3, <2>4, <2>5 DEF N
<1>15. CASE \E to \in UNION {Offer(p) : p \in DeskPages} : Act(to)
  <2>1. PICK put \in PutRow :
          /\ jobs' = jobs \cup {PutJob(desk.at, desk.link, put)}
          /\ UNCHANGED <<stored, spaces, doubled>>
    BY <1>15, ActDoes
  <2>2. PutJob(desk.at, desk.link, put).state = "out" /\ PutJob(desk.at, desk.link, put).todo = {}
    BY DEF PutJob, Job
  <2>3. QED
    BY <1>5, <2>1, <2>2
<1>16. ASSUME NEW j \in jobs, ServeJob(j)
       PROVE  Sound
  <2>1. PICK n \in Space, state \in {"done", "refused"}, sight \in SightRow : ServedAs(j, n, state, sight)
    BY <1>16, DeskServes
  <2>2. UNCHANGED <<stored, doubled>> /\ jobs' = (jobs \ {j}) \cup {Served(j, state, n, sight)}
    BY <1>16, <2>1, DeskServes DEF ServedAs
  <2>3. Served(j, state, n, sight).todo = j.todo
    BY <1>3, ServedRow
  <2>4. ASSUME NEW e \in Entry PROVE LockedFor(e)'
    BY <1>1, <1>3, <2>1, <2>2, <2>4, ServedSends
  <2>5. QED
    BY <1>1, <2>2, <2>3, <2>4
<1>17. ASSUME NEW j \in jobs, LoseJob(j)
       PROVE  Sound
  <2>1. /\ jobs' = (jobs \ {j}) \cup {Missed(j)} /\ UNCHANGED <<stored, spaces>>
        /\ doubled \subseteq doubled' /\ (j.at = "entry" => Newest(j.todo) \in doubled')
    BY <1>17, DeskLoses
  <2>2. Missed(j).todo = j.todo /\ Missed(j).state = "refused"
    BY <1>3, MissedRow
  <2>3. PICK N : N = {Missed(j)}
    OBVIOUS
  <2>4. /\ jobs' = (jobs \ {j}) \cup N /\ \A a, b \in N : a = b
        /\ \A a \in N : a.todo \subseteq j.todo /\ a.state # "done"
    BY <2>1, <2>2, <2>3
  <2>5. j.at # "entry" \/ Newest(j.todo) \in doubled'
    BY <2>1
  <2>6. QED
    BY <1>6, <2>1, <2>4, <2>5
<1>18. ASSUME NEW j \in jobs, Synced(j) \/ Cleared(j) \/ Seen(j)
       PROVE  Sound
  <2>1. /\ j.at \in {"profile", "delete", "get"} /\ jobs' = (jobs \ {j}) \cup {}
        /\ UNCHANGED <<stored, spaces, doubled>>
    <3>1. CASE Synced(j)
      BY <3>1, SyncedDoes
    <3>2. CASE Cleared(j)
      BY <1>3, <3>2 DEF Cleared, Course
    <3>3. CASE Seen(j)
      BY <3>3, SeenDoes
    <3>4. QED
      BY <1>18, <3>1, <3>2, <3>3
  <2>2. PICK N : N = {}
    OBVIOUS
  <2>3. /\ jobs' = (jobs \ {j}) \cup N /\ \A a, b \in N : a = b
        /\ \A a \in N : a.todo \subseteq j.todo /\ a.state # "done"
    BY <2>1, <2>2
  <2>4. j.at # "entry"
    BY <2>1
  <2>5. QED
    BY <1>6, <2>1, <2>3, <2>4
<1>19. ASSUME NEW j \in jobs, Created(j)
       PROVE  Sound
  <2>1. /\ j.at = "create" /\ j.state \in {"done", "refused"}
        /\ j.state = "done" => jobs' = (jobs \ {j}) \cup {Begun(j)}
        /\ j.state = "refused" => jobs' = (jobs \ {j}) \cup {}
        /\ stored'.log = stored.log /\ stored'.imported = stored.imported
        /\ UNCHANGED <<spaces, doubled>>
    BY <1>19, CreatedDoes
  <2>2. Begun(j).todo = j.todo /\ Begun(j).state = "out"
    <3>1. j.kind = "sync" => j.todo = {}
      BY <1>3 DEF Course
    <3>2. QED
      BY <1>3, <3>1, BegunRow
  <2>3. PICK N : N = IF j.state = "done" THEN {Begun(j)} ELSE {}
    OBVIOUS
  <2>4. /\ jobs' = (jobs \ {j}) \cup N /\ \A a, b \in N : a = b
        /\ \A a \in N : a.todo \subseteq j.todo /\ a.state # "done"
    BY <2>1, <2>2, <2>3
  <2>5. j.at # "entry"
    BY <2>1
  <2>6. QED
    BY <1>6, <2>1, <2>4, <2>5
<1>20. ASSUME NEW j \in jobs, Entered(j)
       PROVE  Sound
  <2>1. PICK next \in SUBSET JobRow :
         /\ j.at = "entry" /\ j.state \in {"done", "refused"}
         /\ jobs' = (jobs \ {j}) \cup next
         /\ \A a, b \in next : a = b
         /\ \A i \in next :
              /\ i.state = "out"
              /\ i.todo = {} \/ (j.state = "done" /\ i.todo = j.todo \ {Newest(j.todo)})
         /\ stored'.log = stored.log
         /\ stored'.imported = stored.imported \cup IF j.state = "done" THEN {Newest(j.todo)} ELSE {}
         /\ UNCHANGED <<spaces, doubled>>
    BY <1>20, EnteredDoes
  <2>2. Newest(j.todo) \in j.todo
    BY <1>3, <2>1, NewestIn DEF Course
  <2>3. stored'.imported \subseteq stored'.log
    BY <1>1, <1>3, <2>1, <2>2
  <2>4. \A i \in jobs' : i.todo \subseteq stored'.log
    BY <1>1, <2>1
  <2>5. ASSUME NEW e \in Entry PROVE LockedFor(e)'
    <3>1. LockedFor(e)
      BY <1>1
    <3>2. \A a \in next : a.todo \subseteq j.todo /\ a.state # "done" /\ Newest(j.todo) \notin a.todo
      BY <2>1
    <3>3. e \in stored'.imported /\ e \notin stored.imported => e = Newest(j.todo) /\ j.state = "done"
      BY <2>1
    <3>4. Sent(j, e) <=> (j.state = "done" /\ e = Newest(j.todo))
      BY <2>1 DEF Sent
    <3>5. e \in stored.imported => e \in stored'.imported
      BY <2>1
    <3>6. Sent(j, e) => e \in stored'.imported
      BY <2>1, <3>4
    <3>7. e \in stored'.imported /\ e \notin stored.imported =>
            e \in j.todo /\ Sent(j, e) /\ \A a \in next : e \notin a.todo
      BY <2>2, <3>2, <3>3, <3>4
    <3>8. QED
      BY <2>1, <3>1, <3>2, <3>5, <3>6, <3>7, Resends
  <2>6. QED
    BY <2>3, <2>4, <2>5
<1>21. ASSUME NEW j \in jobs, Answered(j)
       PROVE  Sound
  <2>1. /\ j.at = "put"
        /\ jobs' = (jobs \ {j}) \cup (IF j.state = "done" /\ LooksAgain(j.page) THEN {Looking(j)} ELSE {})
        /\ UNCHANGED <<stored, spaces, doubled>>
    BY <1>21, AnsweredDoes
  <2>2. Looking(j).todo = j.todo /\ Looking(j).state = "out"
    BY <1>3, LookingRow
  <2>3. PICK N : N = IF j.state = "done" /\ LooksAgain(j.page) THEN {Looking(j)} ELSE {}
    OBVIOUS
  <2>4. /\ jobs' = (jobs \ {j}) \cup N /\ \A a, b \in N : a = b
        /\ \A a \in N : a.todo \subseteq j.todo /\ a.state # "done"
    BY <2>1, <2>2, <2>3
  <2>5. j.at # "entry"
    BY <2>1
  <2>6. QED
    BY <1>6, <2>1, <2>4, <2>5
<1> HIDE DEF Sound
<1>22. QED
  BY <1>8, <1>9, <1>10, <1>11, <1>12, <1>13, <1>14, <1>15, <1>16, <1>17, <1>18, <1>19, <1>20, <1>21, DeskCases

\* At the start nothing is stored, shown, created or under way.
LEMMA DeskStarts ==
  ASSUME DeskInit
  PROVE  DeskIInv
<1>1. /\ stored = [typed |-> 0, link |-> 0, log |-> {}, imported |-> {}]
      /\ desk = OtherPage /\ spaces = [n \in Space |-> NoSpace] /\ jobs = {}
      /\ moves = 0 /\ typed = 0 /\ adrift = {} /\ doubled = {}
  BY DEF DeskInit
<1>2. \A n \in Space : spaces[n] = NoSpace
  BY <1>1
<1>3. DeskTypeOK
  <2>1. stored \in StoredRow
    BY <1>1 DEF StoredRow
  <2>2. NoPut \in PutRow
    BY DEF NoPut, PutRow, Marks
  <2>3. NoSight \in SightRow
    BY DEF NoSight, SightRow, Marks
  <2>4. OtherPage \in DeskRow
    BY <2>2, <2>3 DEF OtherPage, DeskRow, Steps
  <2>5. NoSpace \in SpaceRow
    BY DEF NoSpace, SpaceRow, Shelves, Marks
  <2>6. spaces \in [Space -> SpaceRow]
    BY <1>1, <2>5
  <2>7. QED
    BY <1>1, <2>1, <2>4, <2>6 DEF DeskTypeOK
<1>4. Linked
  BY <1>1, PagesApart DEF Linked, OtherPage
<1>5. Kept /\ Overwriting
  BY <1>1, <1>2 DEF Kept, NoSpace, Overwriting, OtherPage
<1>6. Locked
  <2>1. \A n \in Space, e \in Entry : ~ Held(n, e)
    BY <1>2 DEF Held, NoSpace
  <2>2. QED
    BY <1>1, <2>1 DEF Locked, LockedFor, SentOnce, SentBy, NoneSends
<1>7. Uncrowded
  BY <1>1 DEF Uncrowded, OtherPage
<1>8. QED
  BY <1>3, <1>4, <1>5, <1>6, <1>7 DEF DeskIInv

\* A step that changes nothing keeps the invariant.
LEMMA DeskRests ==
  ASSUME DeskIInv, UNCHANGED deskVars
  PROVE  DeskIInv'
<1>1. UNCHANGED <<stored, desk, spaces, jobs, moves, missed, typed, adrift, doubled>>
  BY DEF deskVars
<1>2. DeskTypeOK'
  BY <1>1 DEF DeskIInv, DeskTypeOK
<1>3. Linked'
  BY <1>1 DEF DeskIInv, Linked, Asking, Exists, NoSight
<1>4. Kept' /\ Overwriting'
  BY <1>1 DEF DeskIInv, Kept, Overwriting, Creating
<1>5. Locked'
  BY <1>1, SameSends DEF DeskIInv, Locked
<1>6. Uncrowded'
  BY <1>1 DEF DeskIInv, Uncrowded, Waits, UpToDate, Sight, OnRecord, NoSight
<1>7. QED
  BY <1>2, <1>3, <1>4, <1>5, <1>6 DEF DeskIInv

\* The inductive invariant of the desk: what is stored, shown, sent and known.
LEMMA DeskInductive == DeskSpec => []DeskIInv
<1>1. DeskInit => DeskIInv
  BY DeskStarts
<1>2. DeskIInv /\ [DeskNext]_deskVars => DeskIInv'
  <2>1. DeskIInv /\ DeskNext => DeskIInv'
    BY DeskTypeStep, LinkedStep, KeptStep, OverwritingStep, LockedStep, UncrowdedStep DEF DeskIInv
  <2>2. DeskIInv /\ UNCHANGED deskVars => DeskIInv'
    BY DeskRests
  <2>3. QED
    BY <2>1, <2>2
<1>3. QED
  BY <1>1, <1>2, PTL DEF DeskSpec

\* What is stored, shown, asked for and kept is of the form the code gives it.
THEOREM DeskTypes == DeskSpec => []DeskTypeOK
<1>1. DeskIInv => DeskTypeOK
  BY DEF DeskIInv
<1>2. QED
  BY <1>1, DeskInductive, PTL

\* The organisation as last edited is what is stored: nothing started earlier
\* undoes an edit.  And each workspace that lives is linked, or the answer with its
\* link or the request to delete it is on the way -- but for those whose link the
\* page wrote over with its copy, or another first use under way when it was
\* stored, and those whose creation was not heard of or whose deletion was lost;
\* nothing that befell another workspace excuses one (workspace.ts:77-89,
\* organisation.tsx:165-202).
THEOREM Organisation == DeskSpec => []OrganisationKept
<1>1. DeskIInv => OrganisationKept
  <2>1. SUFFICES ASSUME DeskIInv, NEW n \in Space \ adrift, spaces[n].status = "lives", n # stored.link
                 PROVE  \E j \in jobs : j.link = n /\ <<j.at, j.state>> \in {<<"create", "done">>, <<"delete", "out">>}
    BY DEF OrganisationKept, DeskIInv, Kept
  <2>2. QED
    BY <2>1 DEF DeskIInv, Kept
<1>2. QED
  BY <1>1, DeskInductive, PTL

\* A decision marked as sent is in a workspace, and only one has it, once, unless
\* its sending was doubled (decisionLog.ts:42-102).
THEOREM Decisions == DeskSpec => []LockedSentOnce
<1>1. DeskIInv => LockedSentOnce
  <2>1. SUFFICES ASSUME DeskIInv, NEW e \in Entry, NEW holders, holders = {n \in Space : spaces[n].log[e] > 0}
                 PROVE  /\ e \in stored.imported => holders # {}
                        /\ e \notin doubled => Cardinality(holders) <= 1 /\ \A n \in holders : spaces[n].log[e] = 1
    BY DEF LockedSentOnce
  <2>2. LockedFor(e)
    BY <2>1 DEF DeskIInv, Locked
  <2>3. \A n : n \in holders <=> n \in Space /\ Held(n, e)
    BY <2>1 DEF Held
  <2>4. e \in stored.imported => holders # {}
    BY <2>2, <2>3 DEF LockedFor
  <2>5. ASSUME e \notin doubled
        PROVE  Cardinality(holders) <= 1 /\ \A n \in holders : spaces[n].log[e] = 1
    <3>1. \A n \in holders : spaces[n].log[e] = 1 /\ \A k \in holders : k = n
      BY <2>2, <2>3, <2>5 DEF LockedFor, SentOnce
    <3>2. CASE holders = {}
      BY <3>2, FS_EmptySet
    <3>3. CASE holders # {}
      <4>1. PICK n : n \in holders
        BY <3>3
      <4>2. holders = {n}
        BY <3>1, <4>1
      <4>3. Cardinality(holders) = 1
        BY <4>2, FS_Singleton
      <4>4. QED
        BY <3>1, <4>3
    <3>4. QED
      BY <3>1, <3>2, <3>3
  <2>6. QED
    BY <2>4, <2>5
<1>2. QED
  BY <1>1, DeskInductive, PTL

\* A page at rest shows what its workspace has, unless something was started
\* there while something else went on, or an answer was lost
\* (agents.tsx:228-242, Documents.tsx:357-371).
THEOREM ShownSo == DeskSpec => []ShownIsSo
<1>1. DeskIInv => ShownIsSo
  <2>1. SUFFICES ASSUME DeskIInv, desk.at \in DeskPages, desk.sight # NoSight, ~ desk.crowded,
                        \A j \in jobs : ~ j.mine, spaces[desk.link].status = "lives"
                 PROVE  desk.sight = Sight(desk.at, desk.link)
    BY DEF ShownIsSo
  <2>2. \A j \in jobs : j.mine
    BY <2>1 DEF DeskIInv, Uncrowded, Waits
  <2>3. jobs = {}
    BY <2>1, <2>2
  <2>4. QED
    BY <2>1, <2>3 DEF DeskIInv, Uncrowded, UpToDate
<1>2. QED
  BY <1>1, DeskInductive, PTL
=============================================================================
