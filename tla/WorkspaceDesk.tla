----------------------------- MODULE WorkspaceDesk -----------------------------
(***************************************************************************)
(* The pages of the lead's browser that work on the organisation and its   *)
(* workspace on the server.  The organisation, the link to its workspace   *)
(* and the decisions locked in scenario analyses live in localStorage; the *)
(* organisation page writes the organisation whole from a copy of its own. *)
(* The first page that needs a workspace creates it (ensureWorkspace).     *)
(* What a page starts goes on when it is left, but touches a page no more; *)
(* requests are answered late, in any order, or never.                     *)
(*                                                                         *)
(* The server is taken at its routes, one step each: what happens between  *)
(* their awaits is the matter of SageWorkspace.  Of each kind of thing a   *)
(* workspace keeps there is one (bound).  Wording and downloads are left   *)
(* out.                                                                    *)
(***************************************************************************)
EXTENDS Naturals, FiniteSets

CONSTANTS
  Entry,       \* 1..n: decisions that can be locked in an analysis
  Topic,       \* what a workspace may be set to watch
  Space,       \* 1..n: workspaces, numbered as they are created
  DeskPages,   \* bound: pages visited besides the organisation's and the analysis
  MaxMoves,    \* bound: what the lead does
  MaxJobs,     \* bound: things under way in the browser
  MaxMissed    \* bound: requests lost or whose answer is

ASSUME DeskAssumption ==
  /\ Entry \subseteq Nat /\ IsFiniteSet(Entry) /\ Space \subseteq Nat \ {0} /\ MaxMoves \in Nat
  /\ DeskPages \subseteq {"agents", "horizon", "checkpoint", "log", "documents"}

VARIABLES
  stored,    \* localStorage: the organisation, the decisions locked, those sent
  desk,      \* the page shown, and what it holds
  spaces,    \* the workspaces on the server
  jobs,      \* what pages have started
  moves, missed,
  typed,     \* history: the last edit of the organisation
  adrift,    \* history: workspaces whose link was written over, or whose creation
             \* or deletion the browser did not hear of
  doubled    \* history: decisions sent twice at once, or with no answer

deskVars == <<stored, desk, spaces, jobs, moves, missed, typed, adrift, doubled>>

------------------------------------------------------------------------------
(* The server.                                                             *)

NoSpace ==
  [ status |-> "none", profile |-> 0, log |-> [e \in Entry |-> 0], topics |-> {}, covered |-> {},
    published |-> FALSE, item |-> [p \in {"agents", "horizon", "checkpoint", "log", "documents"} |-> "none"] ]

NoPut == [to |-> "none", topics |-> {}]

NoSight == [item |-> "unknown", topics |-> {}, fresh |-> FALSE]

\* What the record of a checkpoint has entries of.
OnRecord(s) == {p \in {"agents", "checkpoint", "log"} : s.item[p] \notin {"none", "proposed"}}

\* What a page is shown of a workspace: the thing there is, and whether a checkpoint
\* can be published, the first one without anything on record.
Sight(p, n) ==
  [ item |-> spaces[n].item[p],
    topics |-> IF p = "horizon" THEN spaces[n].topics ELSE {},
    fresh |-> /\ p = "checkpoint"
              /\ spaces[n].published => ~ OnRecord(spaces[n]) \subseteq spaces[n].covered ]

\* What the lead puts there: a new state of a page's thing, what is watched, or
\* a checkpoint of what is on record.
Put(s, p, put) ==
  CASE put.to = "published" -> [s EXCEPT !.covered = OnRecord(s), !.published = TRUE]
    [] put.to = "watched" -> [s EXCEPT !.topics = put.topics]
    [] OTHER -> [s EXCEPT !.item[p] = put.to]

------------------------------------------------------------------------------
(* What is under way.                                                      *)

Job(kind, page) ==
  [ kind |-> kind, page |-> page, at |-> "create", state |-> "out", link |-> 0, typed |-> 0,
    todo |-> {}, put |-> NoPut, sight |-> NoSight, mine |-> TRUE ]

Newest(S) == CHOOSE e \in S : \A k \in S : k <= e

FirstStep(j) ==
  CASE j.kind = "sync" -> "profile"
    [] j.kind = "lock" \/ j.todo # {} -> "entry"
    [] OTHER -> "get"

\* ensureWorkspace(): the link there is, or a workspace is created, or there is
\* no name to create one in.
Ensured(j) ==
  IF stored.link # 0 THEN {[j EXCEPT !.at = FirstStep(j), !.state = "out", !.link = stored.link, !.typed = stored.typed]}
  ELSE IF stored.typed = 0 THEN {}
  ELSE {[j EXCEPT !.at = "create", !.state = "out", !.typed = stored.typed]}

\* Mutant: the organisation is saved as it was when creating started.
LinkedAsItWas(n, j) == [stored EXCEPT !.link = n, !.typed = j.typed]

LinkedTo(n, j) == [stored EXCEPT !.link = n]

\* Mutant: what was sent before is not told from what was not.
UnsentIsAll == stored.log

\* unsavedLocalDecisions()
Unsent == stored.log \ stored.imported

\* Two alike, left behind, count as one (bound).
Abandoned == {[j EXCEPT !.mine = FALSE] : j \in jobs}

Sending(e) == {j \in jobs : e \in j.todo}

Creating == \E j \in jobs : j.at = "create"

MayStart == Cardinality(jobs) < MaxJobs /\ moves < MaxMoves

ServeJob(j) ==
  /\ j.state = "out"
  /\ LET free == {n \in Space : spaces[n].status = "none"}
         n == IF j.at = "create" THEN CHOOSE k \in free : \A i \in free : k <= i ELSE j.link
         s == spaces[n]
         ok == j.at = "create" \/ s.status = "lives"
         after ==
           CASE j.at = "create" -> [s EXCEPT !.status = "lives", !.profile = j.typed]
             [] j.at = "profile" -> [s EXCEPT !.profile = j.typed]
             [] j.at = "entry" -> [s EXCEPT !.log[Newest(j.todo)] = @ + 1]
             [] j.at = "put" -> Put(s, j.page, j.put)
             [] j.at = "delete" -> [s EXCEPT !.status = "gone"]
             [] OTHER -> s
     IN /\ j.at = "create" => free # {}
        /\ spaces' = IF ok THEN [spaces EXCEPT ![n] = after] ELSE spaces
        /\ jobs' = (jobs \ {j}) \cup
             {[j EXCEPT !.state = IF ok THEN "done" ELSE "refused", !.link = n,
                        !.sight = IF j.at = "get" /\ ok THEN Sight(j.page, n) ELSE @]}
  /\ UNCHANGED <<stored, desk, moves, missed, typed, adrift, doubled>>

LoseJob(j) ==
  /\ j.state \in {"out", "done"} /\ missed < MaxMissed
  /\ missed' = missed + 1
  /\ jobs' = (jobs \ {j}) \cup {[j EXCEPT !.state = "refused"]}
  /\ adrift' = adrift \cup
       IF <<j.at, j.state>> \in {<<"create", "done">>, <<"delete", "out">>} THEN {j.link} ELSE {}
  /\ doubled' = doubled \cup IF j.at = "entry" THEN {Newest(j.todo)} ELSE {}
  /\ desk' = [desk EXCEPT !.crowded = @ \/ j.mine]
  /\ UNCHANGED <<stored, spaces, moves, typed>>

------------------------------------------------------------------------------
(* The organisation page.                                                  *)

OtherPage == [at |-> "away", typed |-> 0, link |-> 0, sight |-> NoSight, busy |-> NoPut, step |-> "none",
              round |-> 0, crowded |-> FALSE, timer |-> FALSE]

\* The page takes a copy of the organisation; its timer starts as it opens.
GoOrganisation ==
  /\ desk.at # "organisation" /\ moves < MaxMoves
  /\ moves' = moves + 1
  /\ desk' = [OtherPage EXCEPT !.at = "organisation", !.typed = stored.typed, !.link = stored.link,
                               !.timer = stored.typed > 0]
  /\ jobs' = Abandoned
  /\ UNCHANGED <<stored, spaces, missed, typed, adrift, doubled>>

\* update(): the page's copy is stored whole, its link as well.  Edits of the
\* profile start the timer anew, those of people and agents do not.
Update(ofProfile) ==
  /\ desk.at = "organisation" /\ moves < MaxMoves
  /\ moves' = moves + 1
  /\ typed' = moves + 1
  /\ stored' = [stored EXCEPT !.typed = moves + 1, !.link = desk.link]
  /\ desk' = [desk EXCEPT !.typed = moves + 1, !.timer = @ \/ ofProfile \/ desk.typed = 0]
  /\ adrift' = adrift \cup ({stored.link} \ {desk.link})
  /\ UNCHANGED <<spaces, jobs, missed, doubled>>

EditProfile == Update(TRUE)
EditPeople == Update(FALSE)
EditAgents == Update(FALSE)

\* syncProfile() of what is stored by then.
TimerFires ==
  /\ desk.timer /\ Cardinality(jobs) < MaxJobs
  /\ desk' = [desk EXCEPT !.timer = FALSE]
  /\ jobs' = jobs \cup Ensured(Job("sync", "organisation"))
  /\ UNCHANGED <<stored, spaces, moves, missed, typed, adrift, doubled>>

\* The page takes over what is stored; when anything failed it does not.
Synced(j) ==
  /\ j.kind = "sync" /\ j.at = "profile" /\ j.state # "out"
  /\ jobs' = jobs \ {j}
  /\ desk' = IF j.state = "done" /\ j.mine THEN [desk EXCEPT !.typed = stored.typed, !.link = stored.link] ELSE desk
  /\ UNCHANGED <<stored, spaces, moves, missed, typed, adrift, doubled>>

\* The workspace the page knows of is deleted, and nobody waits for it.
ClearBoard ==
  /\ desk.at = "organisation" /\ MayStart
  /\ moves' = moves + 1
  /\ jobs' = jobs \cup IF desk.link = 0 THEN {}
               ELSE {[Job("clear", "organisation") EXCEPT !.at = "delete", !.link = desk.link, !.mine = FALSE]}
  /\ stored' = [stored EXCEPT !.typed = 0, !.link = 0]
  /\ desk' = [desk EXCEPT !.typed = 0, !.link = 0, !.timer = FALSE]
  /\ typed' = 0
  /\ adrift' = adrift \cup ({stored.link} \ {desk.link})
  /\ UNCHANGED <<spaces, missed, doubled>>

Cleared(j) ==
  /\ j.kind = "clear" /\ j.state # "out" /\ jobs' = jobs \ {j}
  /\ UNCHANGED <<stored, desk, spaces, moves, missed, typed, adrift, doubled>>

------------------------------------------------------------------------------
(* Scenario analysis: the board of agents is convened, with up to two rounds *)
(* of feedback, and a decision locked.                                     *)

GoAnalysis ==
  /\ desk.at # "analysis" /\ moves < MaxMoves
  /\ moves' = moves + 1
  /\ desk' = [OtherPage EXCEPT !.at = "analysis", !.step = "calibrate"]
  /\ jobs' = Abandoned
  /\ UNCHANGED <<stored, spaces, missed, typed, adrift, doubled>>

MayConveneBoard == desk.step = "calibrate"

MayRecalibrate == desk.step = "results" /\ desk.round < 2

Convene ==
  /\ MayConveneBoard \/ MayRecalibrate
  /\ desk' = [desk EXCEPT !.step = "running", !.round = IF desk.step = "results" THEN @ + 1 ELSE 0]
  /\ UNCHANGED <<stored, spaces, jobs, moves, missed, typed, adrift, doubled>>

\* The answer comes; or it fails or times out.
Convened ==
  /\ desk.step = "running"
  /\ desk' \in {[desk EXCEPT !.step = s] : s \in {"results", "calibrate"}}
  /\ UNCHANGED <<stored, spaces, jobs, moves, missed, typed, adrift, doubled>>

Cancel ==
  /\ desk.step = "running"
  /\ desk' = [desk EXCEPT !.step = "calibrate"]
  /\ UNCHANGED <<stored, spaces, jobs, moves, missed, typed, adrift, doubled>>

\* lockDecision(): the decision is stored first, and then sent.
Lock ==
  LET e == CHOOSE n \in Entry : n \notin stored.log /\ \A k \in Entry : k < n => k \in stored.log IN
  /\ desk.step = "results" /\ MayStart /\ Entry \ stored.log # {}
  /\ moves' = moves + 1
  /\ stored' = [stored EXCEPT !.log = @ \cup {e}]
  /\ jobs' = jobs \cup Ensured([Job("lock", "analysis") EXCEPT !.todo = {e}])
  /\ desk' = [desk EXCEPT !.step = "locked"]
  /\ UNCHANGED <<spaces, missed, typed, adrift, doubled>>

Reopen ==
  /\ desk.step = "locked"
  /\ desk' = [desk EXCEPT !.step = "calibrate"]
  /\ UNCHANGED <<stored, spaces, jobs, moves, missed, typed, adrift, doubled>>

------------------------------------------------------------------------------
(* The pages that show the workspace.                                      *)

Named == stored.typed > 0 \/ stored.link # 0

\* The decision log first sends the decisions not sent yet.
OpenPage(p) ==
  LET todo == IF p = "log" THEN Unsent ELSE {} IN
  /\ desk.at # p /\ MayStart
  /\ p = "log" => Named
  /\ p # "log" => stored.typed > 0
  /\ moves' = moves + 1
  /\ desk' = [OtherPage EXCEPT !.at = p, !.link = stored.link, !.crowded = jobs # {}]
  /\ jobs' = Abandoned \cup Ensured([Job("open", p) EXCEPT !.todo = todo])
  /\ doubled' = doubled \cup {e \in todo : Sending(e) # {}}
  /\ UNCHANGED <<stored, spaces, missed, typed, adrift>>

\* The answer to creating: the link is stored beside what is stored by then, and
\* will be written over by that of another first use under way.
Created(j) ==
  /\ j.at = "create" /\ j.state # "out"
  /\ LET to == [j EXCEPT !.at = FirstStep(j), !.state = "out"] IN
     /\ stored' = IF j.state = "done" THEN LinkedTo(j.link, j) ELSE stored
     /\ adrift' = adrift \cup {j.link : k \in {i \in jobs \ {j} : i.at = "create" /\ j.state = "done"}}
     /\ jobs' = (jobs \ {j}) \cup IF j.state = "done" THEN {to} ELSE {}
     /\ desk' = IF j.state = "done" /\ j.mine /\ j.kind = "open" THEN [desk EXCEPT !.link = j.link] ELSE desk
  /\ UNCHANGED <<spaces, moves, missed, typed, doubled>>

\* saveLocalDecisions() goes on until one cannot be sent; a decision is marked
\* when it has been.
Entered(j) ==
  LET e == Newest(j.todo)
      ok == j.state = "done"
      rest == [j EXCEPT !.todo = @ \ {e}]
      look == {[j EXCEPT !.todo = {}, !.at = "get", !.state = "out"]}
  IN
  /\ j.at = "entry" /\ j.state # "out"
  /\ stored' = [stored EXCEPT !.imported = @ \cup IF ok THEN {e} ELSE {}]
  /\ jobs' = (jobs \ {j}) \cup
       IF j.kind = "lock" THEN {}
       ELSE IF ok /\ rest.todo # {} /\ Ensured(rest) # {} THEN Ensured(rest) ELSE look
  /\ UNCHANGED <<desk, spaces, moves, missed, typed, adrift, doubled>>

Seen(j) ==
  /\ j.at = "get" /\ j.state # "out"
  /\ jobs' = jobs \ {j}
  /\ desk' = IF ~ j.mine THEN desk
             ELSE [desk EXCEPT !.link = j.link,
                               !.sight = IF j.state = "done" THEN j.sight ELSE @,
                               !.busy = IF j.kind = "act" THEN NoPut ELSE @]
  /\ UNCHANGED <<stored, spaces, moves, missed, typed, adrift, doubled>>

\* What the parts of a page offer, of the thing shown.  A lesson is taught, or
\* proposed from what the agent studied.
TeachOffer(item) == IF item = "none" THEN {"active", "proposed"} ELSE {}
ProposalOffer(item) == IF item = "proposed" THEN {"active", "retired"} ELSE {}
AppliedOffer(item) == IF item = "active" THEN {"retired"} ELSE IF item = "retired" THEN {"active"} ELSE {}

ScanOffer(item) == IF item = "none" THEN {"found"} ELSE {}
SignalOffer(item) == IF item # "none" THEN {"taught"} ELSE {}

RecordOffer(item) == IF item = "none" THEN {"recorded"} ELSE {}
HistoryOffer(item) == IF item # "none" THEN {"none"} ELSE {}
PublishOffer(fresh) == IF fresh THEN {"published"} ELSE {}

FormOffer(item) == IF item = "judged" THEN {"judged"} ELSE {"logged"}    \* new, or edited
OutcomeOffer(item) == IF item = "logged" THEN {"judged"} ELSE {}
CardOffer(item) == IF item # "none" THEN {"none"} ELSE {}

AttachOffer == {"attached"}
DocumentOffer(item) == IF item # "none" THEN {"attached", "none"} ELSE {}

Offer(p) ==
  LET item == desk.sight.item IN
  CASE p = "agents" -> TeachOffer(item) \cup ProposalOffer(item) \cup AppliedOffer(item)
    [] p = "horizon" -> {"watched"} \cup ScanOffer(item) \cup SignalOffer(item)
    [] p = "checkpoint" -> RecordOffer(item) \cup HistoryOffer(item) \cup PublishOffer(desk.sight.fresh)
    [] p = "log" -> FormOffer(item) \cup OutcomeOffer(item) \cup CardOffer(item)
    [] OTHER -> AttachOffer \cup DocumentOffer(item)

\* Mutant: a page takes its own list for what the workspace watches.
LooksAgainButHorizon(p) == p \in {"agents", "checkpoint"}

\* Pages whose run() asks for the view again; the others change their list.
LooksAgain(p) == p \in {"agents", "horizon", "checkpoint"}

\* A button is disabled while it is the one the page calls busy; a form while
\* its own request is under way.  Not so what is watched, Remove and Delete, a
\* lesson's Restore, and a document's switches.
FreeToPress(put) ==
  \/ put.to \in {"watched", "none"}
  \/ <<desk.at, desk.sight.item>> \in {<<"agents", "retired">>, <<"documents", "attached">>}
  \/ LooksAgain(desk.at) /\ desk.busy # put
  \/ ~ LooksAgain(desk.at) /\ \A j \in jobs : j.mine /\ j.at = "put" => j.put # put

Watched(s) == {s.topics \cup {t} : t \in Topic} \cup {s.topics \ {t} : t \in Topic}

Act(to) ==
  /\ desk.at \in DeskPages /\ desk.sight # NoSight /\ MayStart
  /\ to \in Offer(desk.at)
  /\ moves' = moves + 1
  /\ \E topics \in IF to = "watched" THEN Watched(desk.sight) \ {desk.sight.topics} ELSE {{}} :
       LET put == [to |-> to, topics |-> topics] IN
       /\ FreeToPress(put)
       /\ jobs' = jobs \cup {[Job("act", desk.at) EXCEPT !.at = "put", !.link = desk.link, !.put = put]}
       /\ desk' = [desk EXCEPT !.busy = put, !.crowded = @ \/ jobs # {}]
  /\ UNCHANGED <<stored, spaces, missed, typed, adrift, doubled>>

\* The log's and the documents' lists: an entry added, replaced or taken out.
Listed(to) == [desk EXCEPT !.sight.item = to]

\* run() looks again; the log and the documents put the answer into their list.
Answered(j) ==
  LET ok == j.state = "done" IN
  /\ j.at = "put" /\ j.state # "out"
  /\ jobs' = (jobs \ {j}) \cup IF ok /\ LooksAgain(j.page) THEN {[j EXCEPT !.at = "get", !.state = "out"]} ELSE {}
  /\ desk' = IF ~ j.mine THEN desk
             ELSE IF ~ ok THEN [desk EXCEPT !.busy = NoPut]
             ELSE IF j.page \in {"log", "documents"} THEN Listed(j.put.to)
             ELSE desk
  /\ UNCHANGED <<stored, spaces, moves, missed, typed, adrift, doubled>>

------------------------------------------------------------------------------
DeskInit ==
  /\ stored = [typed |-> 0, link |-> 0, log |-> {}, imported |-> {}]
  /\ desk = OtherPage /\ spaces = [n \in Space |-> NoSpace] /\ jobs = {}
  /\ moves = 0 /\ missed = 0 /\ typed = 0 /\ adrift = {} /\ doubled = {}

DeskNext ==
  \/ GoOrganisation \/ TimerFires \/ ClearBoard
  \/ EditProfile \/ EditPeople \/ EditAgents
  \/ GoAnalysis \/ Convene \/ Convened \/ Cancel \/ Lock \/ Reopen
  \/ \E p \in DeskPages : OpenPage(p)
  \/ \E to \in UNION {Offer(p) : p \in DeskPages} : Act(to)
  \/ \E j \in jobs :
       ServeJob(j) \/ LoseJob(j) \/ Synced(j) \/ Cleared(j) \/ Created(j) \/ Entered(j) \/ Seen(j) \/ Answered(j)

DeskSpec == DeskInit /\ [][DeskNext]_deskVars

------------------------------------------------------------------------------
(* Properties.                                                             *)

\* Nothing typed into the organisation is undone by what was started before it,
\* and a workspace that lives is linked, or being created or deleted -- unless the
\* page wrote its copy over the link, another first use was under way when it was
\* linked, or the answer that created it, or the request to delete it, was lost
\* (workspace.ts:77-89, organisation.tsx:165-202).
OrganisationKept ==
  /\ stored.typed = typed
  /\ \A n \in Space \ adrift : spaces[n].status = "lives" =>
       \/ n = stored.link
       \/ \E j \in jobs : j.link = n /\ <<j.at, j.state>> \in {<<"create", "done">>, <<"delete", "out">>}

\* A decision locked in an analysis counts as sent only when a workspace has it,
\* and is sent once, unless two sends of it overlapped or one went unanswered
\* (decisionLog.ts:42-102).
LockedSentOnce ==
  \A e \in Entry :
    LET holders == {n \in Space : spaces[n].log[e] > 0} IN
    /\ e \in stored.imported => holders # {}
    /\ e \notin doubled => Cardinality(holders) <= 1 /\ \A n \in holders : spaces[n].log[e] = 1

\* When all is quiet a page shows what the workspace has, its own changes
\* included, unless the lead did something there while something else was under
\* way or an answer was lost (agents.tsx:228-242, Documents.tsx:357-371).
ShownIsSo ==
  (/\ desk.at \in DeskPages /\ desk.sight # NoSight /\ ~ desk.crowded
   /\ \A j \in jobs : ~ j.mine
   /\ spaces[desk.link].status = "lives")
    => desk.sight = Sight(desk.at, desk.link)
=============================================================================
