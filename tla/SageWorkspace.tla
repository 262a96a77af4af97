----------------------------- MODULE SageWorkspace -----------------------------
(***************************************************************************)
(* A workspace of the Sage Halpin server: its agents' lessons, the board's *)
(* record, its files and its horizon scan, with the deletion of it all     *)
(* (workspace.ts: deleteWorkspace).  Every request is first let in by the  *)
(* row `meta' (routes/workspaces.ts: requireWorkspace); the read of that   *)
(* row and the handler's first store call are one step.  A tab, or the     *)
(* timer of a replica, has one request under way, whatever it works on.    *)
(***************************************************************************)
EXTENDS HorizonScan, WorkspaceRecord, SageFiles

VARIABLES
  erasing,     \* per tab, the deletion of the workspace under way
  erased       \* history: the last deletion ended, alone from start to end

eraseVars == <<erasing, erased>>

vars == <<issued, lessonVars, recordVars, fileVars, scanVars, eraseVars>>

\* The rows of the workspace's partition.
RowsThere ==
  [decisions : SUBSET DecisionId, events : SUBSET EventId,
   checkpoints : SUBSET (1..MaxCheckpoints), lessons : SUBSET LessonId,
   signals : SUBSET Item, seen : SUBSET Item]

CurrentRows ==
  [decisions |-> {d \in DecisionId : decisions[d].there}, events |-> events,
   checkpoints |-> Published, lessons |-> Stored(lessons),
   signals |-> signals, seen |-> seen]

NoRows == [decisions |-> {}, events |-> {}, checkpoints |-> {}, lessons |-> {},
           signals |-> {}, seen |-> {}]

Erasing == [at : {"idle", "files", "record", "lessons", "meta", "horizon"},
            rows : RowsThere, alone : BOOLEAN]

NotErasing == [at |-> "idle", rows |-> NoRows, alone |-> FALSE]

TypeOK ==
  /\ issued \in 0..MaxRequests
  /\ LessonsTypeOK /\ RecordTypeOK /\ FilesTypeOK /\ ScanTypeOK
  /\ erasing \in [Tab -> Erasing] /\ erased \in BOOLEAN

Init ==
  /\ issued = 0
  /\ LessonsInit /\ RecordInit /\ FilesInit /\ ScanInit
  /\ erasing = [c \in Tab |-> NotErasing] /\ erased = FALSE

Free(c) ==
  /\ lessonCalls[c].at = "idle" /\ recordCalls[c].at = "idle"
  /\ fileCalls[c].at = "idle" /\ scans[c].at = "idle" /\ erasing[c].at = "idle"

\* A request is let in when the workspace is there and its tab is free.
LetIn(c) == issued' # issued => meta.there /\ Free(c)

\* What tab c does falls into every deletion of another tab.
Disturbs(c, mine) ==
  erasing' = [d \in Tab |-> IF d = c THEN mine
                            ELSE [erasing[d] EXCEPT !.alone = FALSE]]

Meanwhile(c) == LetIn(c) /\ Disturbs(c, erasing[c]) /\ UNCHANGED erased

-----------------------------------------------------------------------------
(* DELETE /workspaces/:id                                                  *)

\* deleteAllFiles() first, when there are any.
BeginErase(c) ==
  /\ Arrive /\ LetIn(c)
  /\ Disturbs(c, [NotErasing EXCEPT !.at = "files",
                    !.alone = \A d \in Tab \ {c} : Free(d)])
  /\ IF Listed = {} THEN UNCHANGED fileVars ELSE BeginDeleteAll(c)
  /\ UNCHANGED <<lessonVars, recordVars, scanVars, erased>>

\* Then the rows are listed ...
ListToErase(c) ==
  /\ erasing[c].at = "files" /\ fileCalls[c].at = "idle"
  /\ Disturbs(c, [erasing[c] EXCEPT !.at = "record", !.rows = CurrentRows])
  /\ UNCHANGED <<issued, lessonVars, recordVars, fileVars, scanVars, erased>>

Erase(c, at, next) ==
  /\ erasing[c].at = at
  /\ Disturbs(c, IF next = "idle" THEN NotErasing ELSE [erasing[c] EXCEPT !.at = next])
  /\ erased' = IF next = "idle" THEN erasing[c].alone ELSE erased
  /\ UNCHANGED <<issued, fileVars>>

\* ... and removed in their order, here one kind of row at a time.
EraseRecord(c) ==
  LET rows == erasing[c].rows IN
  /\ Erase(c, "record", "lessons")
  /\ decisions' = [d \in DecisionId |-> IF d \in rows.decisions THEN NoDecision
                                        ELSE decisions[d]]
  /\ said' = [d \in DecisionId |-> IF d \in rows.decisions THEN NoDecision ELSE said[d]]
  /\ contested' = contested \cup
       {d \in rows.decisions : \E e \in Tab : HasDecision(recordCalls[e], d)}
  /\ events' = events \ rows.events
  /\ checkpoints' = [n \in 1..MaxCheckpoints |->
       IF n \in rows.checkpoints THEN NoCheckpoint ELSE checkpoints[n]]
  /\ UNCHANGED <<recordCalls, lessonVars, scanVars>>

EraseLessons(c) ==
  /\ Erase(c, "lessons", "meta")
  /\ landscape' = FALSE
  /\ lessons' = [i \in LessonId |-> IF i \in erasing[c].rows.lessons THEN NoLesson
                                    ELSE lessons[i]]
  /\ UNCHANGED <<recordVars, made, lessonCalls, chairSaid, slack, meta, told, late,
                 clobbered, signals, seen, untrimmed, scans>>

EraseMeta(c) ==
  /\ Erase(c, "meta", "horizon")
  /\ meta' = [meta EXCEPT !.there = FALSE]
  /\ UNCHANGED <<recordVars, lessonVars, told, late, clobbered, Rows, scans>>

EraseHorizon(c) ==
  LET rows == erasing[c].rows IN
  /\ Erase(c, "horizon", "idle")
  /\ signals' = signals \ rows.signals
  /\ seen' = seen \ rows.seen
  /\ UNCHANGED <<recordVars, lessonVars, MetaVars, landscape, untrimmed, scans>>

\* The store fails a call of the deletion: the rest stays.
EraseFails(c) ==
  /\ erasing[c].at \notin {"idle", "files"}
  /\ Disturbs(c, NotErasing)
  /\ UNCHANGED <<issued, lessonVars, recordVars, fileVars, scanVars, erased>>

\* A failing file call also ends the deletion it belongs to.
FilesFail(c) ==
  /\ FileCallFails(c)
  /\ Disturbs(c, NotErasing)
  /\ UNCHANGED <<lessonVars, recordVars, scanVars, erased>>

-----------------------------------------------------------------------------
Step(c) ==
  \/ LessonStep(c) /\ Meanwhile(c) /\ UNCHANGED <<recordVars, fileVars, scanVars>>
  \/ RecordStep(c) /\ Meanwhile(c) /\ UNCHANGED <<fileVars, scanVars>>
  \/ FileStep(c) /\ Meanwhile(c) /\ UNCHANGED <<lessonVars, recordVars, scanVars>>
  \/ ScanStep(c) /\ Meanwhile(c) /\ UNCHANGED <<recordVars, fileVars>>
  \/ BeginErase(c) \/ ListToErase(c) \/ EraseRecord(c) \/ EraseLessons(c)
  \/ EraseMeta(c) \/ EraseHorizon(c) \/ EraseFails(c) \/ FilesFail(c)

Next == \E c \in Tab : Step(c)

Spec == Init /\ [][Next]_vars

-----------------------------------------------------------------------------
(* Properties.                                                             *)

\* The rows are well-formed and the memory of an agent, the files and the
\* signals stay within their limits, each of which is read well before the row
\* that counts is stored (workspace.ts:182, files.ts, horizon.ts:421).
WithinLimits == TypeOK /\ MemoryBounded /\ FilesBounded /\ SignalsBounded

\* What no other request was at meanwhile is left as was asked, though every
\* handler writes back the whole row it read and may fail at any call: of files,
\* whose bytes are there, of decisions, and of the checkpoints published
\* (files.ts:98, workspaces.ts:412, 447, 675).
ServedInTurn ==
  [][RecordHasBytes' /\ FilesServedInTurn' /\ DecisionsServedInTurn' /\ CheckpointsKept]_vars

\* A workspace deleted while nothing else was under way leaves no row and no
\* part of a file behind, in either partition (workspace.ts:312).
DeletedLeavesNothing ==
  erased => /\ CurrentRows = NoRows /\ ~ landscape /\ ~ meta.there
            /\ \A f \in FileId : ~ files[f].there /\ (f \in cleared => blobs[f] = "none")
=============================================================================
