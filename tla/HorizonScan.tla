------------------------------ MODULE HorizonScan ------------------------------
(***************************************************************************)
(* The horizon scan of a Sage Halpin workspace (server/horizon.ts) and the *)
(* settings it runs under.  A scan is started by the chair or by the timer *)
(* of a replica; it reads feeds, lets the model judge what is new, keeps   *)
(* signals, refreshes the briefing, proposes lessons, and at the end saves *)
(* the workspace it has read again.  Settings are saved meanwhile.         *)
(*                                                                         *)
(* Not modelled: parsing feeds and answers, what an assessment says, the   *)
(* single settings (they are one version), time, and the scan's outcome.   *)
(***************************************************************************)
EXTENDS AgentLessons

CONSTANTS
  Item,           \* what feeds and searches find: numbers, newer is greater
  MAX_SIGNALS     \* signals kept, 300 in the code

ASSUME ScanAssumption == Item \subseteq Nat /\ IsFiniteSet(Item) /\ MAX_SIGNALS \in Nat

VARIABLES
  meta,        \* the row `meta': the workspace itself
  signals,     \* rows signal-<item>
  seen,        \* rows seen-<item>
  landscape,   \* whether the row `landscape' is there
  untrimmed,   \* history: a scan failed between a signal and the trim since
               \*   the signals were last listed to be trimmed
  scans,       \* per caller, the scan or change of settings under way
  told,        \* history: the settings last asked for
  late,        \* history: callers whose copy of `meta' is no longer current
  clobbered    \* history: a late caller has written `meta' since `told'

scanVars == <<meta, signals, seen, landscape, untrimmed, scans, told, late, clobbered>>

Workspace == [there : BOOLEAN, settings : 0..MaxRequests]

ScanCall ==
  [at : {"idle", "claim", "rows", "triage", "mark", "search", "keep", "trim",
         "remove", "landscape", "lessons", "reload", "save", "set"},
   ws : Workspace,              \* the copy it will write back
   known : SUBSET Item,         \* signals stored when it listed the rows
   fresh : SUBSET Item, kept : SUBSET Item,
   rest : SUBSET Item]          \* of the loop it is in

NoScan == [at |-> "idle", ws |-> [there |-> FALSE, settings |-> 0],
           known |-> {}, fresh |-> {}, kept |-> {}, rest |-> {}]

ScanTypeOK ==
  /\ meta \in Workspace
  /\ signals \subseteq Item /\ seen \subseteq Item
  /\ landscape \in BOOLEAN /\ untrimmed \in BOOLEAN
  /\ scans \in [Tab -> ScanCall]
  /\ told \in 0..MaxRequests /\ late \subseteq Tab /\ clobbered \in BOOLEAN

\* POST /workspaces has made the workspace.
ScanInit ==
  /\ meta = [there |-> TRUE, settings |-> 0]
  /\ signals = {} /\ seen = {} /\ landscape = FALSE
  /\ untrimmed = FALSE /\ scans = [c \in Tab |-> NoScan]
  /\ told = 0 /\ late = {} /\ clobbered = FALSE

Rows == <<signals, seen, landscape, untrimmed>>
MetaVars == <<meta, told, late, clobbered>>

ScanGoes(c, call) == scans' = [scans EXCEPT ![c] = call]

Newest(items) == CHOOSE i \in items : \A j \in items : j <= i

\* The callers that hold a copy of `meta' they are going to write.
Holding == {c \in Tab : scans[c].at \in {"claim", "set", "save"}}

\* Whoever saves the workspace makes every other copy in hand out of date.
SaveMeta(c, ws, settled) ==
  /\ meta' = [ws EXCEPT !.there = TRUE]
  /\ late' = (late \cup Holding) \ {c}
  /\ clobbered' = (~ settled /\ (clobbered \/ c \in late))

-----------------------------------------------------------------------------
(* PUT /workspaces/:id                                                     *)

BeginSettings(c) ==
  /\ Arrive /\ scans[c].at = "idle" /\ meta.there
  /\ ScanGoes(c, [NoScan EXCEPT !.at = "set", !.ws = meta])
  /\ UNCHANGED <<lessonVars, MetaVars, Rows>>

SaveSettings(c) ==
  /\ scans[c].at = "set" /\ told < MaxRequests
  /\ told' = told + 1
  /\ SaveMeta(c, [scans[c].ws EXCEPT !.settings = told + 1], TRUE)
  /\ ScanGoes(c, NoScan)
  /\ UNCHANGED <<issued, lessonVars, Rows>>

-----------------------------------------------------------------------------
(* scanDueWorkspaces() and POST horizon/scan                               *)

\* POST horizon/scan works with the workspace its authorisation has read.
BeginScan(c) ==
  /\ Arrive /\ scans[c].at = "idle" /\ meta.there
  /\ ScanGoes(c, [NoScan EXCEPT !.at = "rows", !.ws = meta])
  /\ UNCHANGED <<lessonVars, MetaVars, Rows>>

\* A replica's timer lists the workspaces and finds this one due (the interval
\* may have passed at any time) ...
TimerFindsDue(c) ==
  /\ Arrive /\ scans[c].at = "idle" /\ meta.there
  /\ ScanGoes(c, [NoScan EXCEPT !.at = "claim", !.ws = meta])
  /\ UNCHANGED <<lessonVars, MetaVars, Rows>>

\* ... saves the workspace it listed with the time of the scan, and scans.
ClaimScan(c) ==
  /\ scans[c].at = "claim"
  /\ SaveMeta(c, scans[c].ws, FALSE)
  /\ ScanGoes(c, [scans[c] EXCEPT !.at = "rows"])
  /\ UNCHANGED <<issued, lessonVars, Rows, told>>

-----------------------------------------------------------------------------
(* scanWorkspace()                                                         *)

\* The feeds that could be read have some items; those in no row are fresh.
ListRows(c) ==
  /\ scans[c].at = "rows"
  /\ \E candidates \in SUBSET Item :
       ScanGoes(c, [scans[c] EXCEPT !.at = "triage", !.known = signals,
                   !.fresh = candidates \ (signals \cup seen)])
  /\ UNCHANGED <<issued, lessonVars, MetaVars, Rows>>

\* The model keeps some of the fresh items, or fails and keeps none: all of
\* them will be marked as seen.
Triage(c) ==
  LET call == scans[c] IN
  /\ call.at = "triage"
  /\ \E kept \in SUBSET call.fresh :
       ScanGoes(c, [call EXCEPT !.at = IF call.fresh = {} THEN "search" ELSE "mark",
                   !.kept = kept, !.rest = call.fresh])
  /\ UNCHANGED <<issued, lessonVars, MetaVars, Rows>>

MarkSeen(c) ==
  LET call == scans[c] IN
  /\ call.at = "mark"
  /\ LET i == Newest(call.rest) IN
       /\ seen' = seen \cup {i}
       /\ ScanGoes(c, [call EXCEPT !.fresh = {}, !.rest = @ \ {i},
                      !.at = IF call.rest = {i} THEN "search" ELSE "mark"])
  /\ UNCHANGED <<issued, lessonVars, MetaVars, signals, landscape, untrimmed>>

\* The web search finds more, finds nothing, fails or is off.
SearchWeb(c) ==
  LET call == scans[c] IN
  /\ call.at = "search"
  /\ \E found \in SUBSET (Item \ call.known) :
       LET kept == call.kept \cup found IN
       ScanGoes(c, [call EXCEPT !.kept = kept, !.rest = kept, !.known = {},
                   !.at = IF kept = {} THEN "trim" ELSE "keep"])
  /\ UNCHANGED <<issued, lessonVars, MetaVars, Rows>>

KeepSignal(c) ==
  LET call == scans[c] IN
  /\ call.at = "keep"
  /\ \E i \in call.rest :
       /\ signals' = signals \cup {i}
       /\ ScanGoes(c, [call EXCEPT !.rest = @ \ {i},
                      !.at = IF call.rest = {i} THEN "trim" ELSE "keep"])
  /\ UNCHANGED <<issued, lessonVars, MetaVars, seen, landscape, untrimmed>>

\* The signals beyond the limit, newest first.
Oldest(call) ==
  {i \in signals : Cardinality({j \in signals : j > i}) >= MAX_SIGNALS}

ListSignals(c) ==
  LET call == scans[c] IN
  /\ call.at = "trim"
  /\ ScanGoes(c, [call EXCEPT !.at = "remove", !.rest = Oldest(call)])
  /\ untrimmed' = FALSE
  /\ UNCHANGED <<issued, lessonVars, MetaVars, signals, seen, landscape>>

RemoveOldSignal(c) ==
  LET call == scans[c] IN
  /\ call.at = "remove" /\ call.rest # {}
  /\ LET i == Newest(call.rest) IN
       /\ signals' = signals \ {i}
       /\ ScanGoes(c, [call EXCEPT !.rest = @ \ {i}])
  /\ UNCHANGED <<issued, lessonVars, MetaVars, seen, landscape, untrimmed>>

\* The markers past their age, whichever these are, are listed and removed:
\* one step, since nothing renews a marker that is still there.
ForgetOldSeen(c) ==
  LET call == scans[c] IN
  /\ call.at = "remove" /\ call.rest = {}
  /\ \E old \in SUBSET seen : seen' = seen \ old
  /\ ScanGoes(c, [call EXCEPT !.at = IF call.kept # {} \/ ~ landscape
                                  THEN "landscape" ELSE "reload"])
  /\ UNCHANGED <<issued, lessonVars, MetaVars, signals, landscape, untrimmed>>

\* refreshLandscape(): the briefing is saved, and when there are new signals
\* lessons are proposed; or the model fails, and the scan goes on.
RefreshLandscape(c) ==
  LET call == scans[c] IN
  /\ call.at = "landscape"
  /\ \/ /\ landscape' = TRUE
        /\ \E offers \in Proposals :
             IF call.kept = {} \/ offers = {} THEN UNCHANGED lessonCalls
             ELSE lessonCalls' = [lessonCalls EXCEPT ![c] = NextOffer(@, offers)]
        /\ ScanGoes(c, [call EXCEPT !.at = "lessons"])
     \/ /\ ScanGoes(c, [call EXCEPT !.at = "reload"])
        /\ UNCHANGED <<landscape, lessonCalls>>
  /\ UNCHANGED <<issued, lessons, made, chairSaid, slack, MetaVars, signals, seen,
                 untrimmed>>

LessonsProposed(c) ==
  /\ scans[c].at = "lessons" /\ lessonCalls[c].at = "idle"
  /\ ScanGoes(c, [scans[c] EXCEPT !.at = "reload"])
  /\ UNCHANGED <<issued, lessonVars, MetaVars, Rows>>

\* Mutant: the workspace is saved as it was when the scan began.
CurrentAtStart(ws) == ws

\* The workspace as it is now, or as it was when it is gone.
Current(ws) == IF meta.there THEN meta ELSE ws

Reload(c) ==
  LET call == scans[c] IN
  /\ call.at = "reload"
  /\ ScanGoes(c, [call EXCEPT !.at = "save", !.ws = Current(call.ws)])
  /\ late' = IF meta.there THEN late \ {c} ELSE late \cup {c}
  /\ UNCHANGED <<issued, lessonVars, meta, told, clobbered, Rows>>

SaveScan(c) ==
  LET call == scans[c] IN
  /\ call.at = "save"
  /\ SaveMeta(c, call.ws, FALSE)
  /\ ScanGoes(c, NoScan)
  /\ UNCHANGED <<issued, lessonVars, Rows, told>>

\* Between its first signal and its last removal.
Trimming(call) == \/ call.at \in {"keep", "trim"}
                  \/ call.at = "remove" /\ call.rest # {}

\* The store fails a call or the process dies: what was written stays.
ScanFails(c) ==
  /\ scans[c].at \notin {"idle", "lessons"}
  /\ ScanGoes(c, NoScan) /\ late' = late \ {c}
  /\ untrimmed' = (untrimmed \/ Trimming(scans[c]))
  /\ UNCHANGED <<issued, lessonVars, meta, told, clobbered, signals, seen,
                 landscape>>

ScanStep(c) ==
  \/ BeginSettings(c) \/ SaveSettings(c)
  \/ BeginScan(c) \/ TimerFindsDue(c) \/ ClaimScan(c)
  \/ ListRows(c) \/ Triage(c) \/ MarkSeen(c) \/ SearchWeb(c) \/ KeepSignal(c)
  \/ ListSignals(c) \/ RemoveOldSignal(c) \/ ForgetOldSeen(c)
  \/ RefreshLandscape(c) \/ LessonsProposed(c) \/ Reload(c) \/ SaveScan(c)
  \/ ScanFails(c)

-----------------------------------------------------------------------------
(* Properties.                                                             *)

\* Settings the chair saves while a scan runs survive it (horizon.ts:438): the
\* workspace holds what was asked for last, unless a caller wrote a copy that
\* another write had made out of date between its read and its write.
SettingsSurvive == meta.there /\ ~ clobbered => meta.settings = told

\* The signals stay bounded however scans overlap (horizon.ts:421): when no
\* scan is between its signals and its trim, at most the limit is stored,
\* unless one failed there and none has trimmed since.
SignalsBounded ==
  (\A c \in Tab : ~ Trimming(scans[c])) /\ ~ untrimmed =>
     Cardinality(signals) <= MAX_SIGNALS
=============================================================================
