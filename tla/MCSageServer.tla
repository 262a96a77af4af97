----------------------------- MODULE MCSageServer -----------------------------
(***************************************************************************)
(* The Sage Halpin server for TLC: a behaviour is about a workspace in use *)
(* and two requests, or about one address's account and MaxRequests.       *)
(***************************************************************************)
EXTENDS SageWorkspace, SageAccounts, TLC

CONSTANTS t1, t2, pw1, pw2, a1, x1, x2, f1, f2, f3, q1, l1, e1

MCTab == {t1, t2}
MCPassword == {pw1, pw2}
MCAgent == {a1}
MCText == {x1, x2}
MCFile == {f1, f2, f3}
MCQuestion == {q1}
MCLogged == {l1}
MCEvent == {e1}
MCItem == {1, 2}

\* The chair has taught a lesson, perhaps attached a file, and had a decision recorded.
InUse ==
  /\ issued = 0 /\ erasing = [c \in Tab |-> NotErasing] /\ erased = FALSE
  /\ lessons = [NoLessons EXCEPT ![1] =
                  [agent |-> a1, text |-> x1, status |-> "active"]]
  /\ made = 1 /\ chairSaid = {<<a1, x1>>} /\ slack = [a \in Agent |-> 0]
  /\ lessonCalls = [c \in Tab |-> NoLessonCall]
  /\ decisions = [d \in DecisionId |->
       IF d = q1 THEN [NoDecision EXCEPT !.there = TRUE, !.notes = 1] ELSE NoDecision]
  /\ said = decisions /\ events = {} /\ contested = {}
  /\ checkpoints = [n \in 1..MaxCheckpoints |-> NoCheckpoint]
  /\ recordCalls = [c \in Tab |-> NoRecordCall]
  /\ \E stored \in SUBSET {f1} :
       /\ files = [f \in FileId |-> IF f \in stored THEN Answered(NewRecord(FALSE))
                                   ELSE NoRecord]
       /\ blobs = [f \in FileId |-> IF f \in stored THEN "all" ELSE "none"]
  /\ asked = files
  /\ fileCalls = [c \in Tab |-> NoFileCall] /\ overlapped = {} /\ cleared = {}
  /\ ScanInit

VARIABLE focus

WorkspaceRequests == 2     \* bound: requests in a behaviour about a workspace

workspaceVars == <<lessonVars, recordVars, fileVars, scanVars, eraseVars>>

ServerInit == InUse /\ AccountsInit /\ focus \in {"workspace", "account"}

ServerNext ==
  /\ UNCHANGED focus
  /\ \/ /\ focus = "workspace"
        /\ Next /\ issued' <= WorkspaceRequests /\ UNCHANGED accountVars
     \/ /\ focus = "account"
        /\ AccountsNext /\ UNCHANGED workspaceVars

ServerSpec == ServerInit /\ [][ServerNext]_<<issued, workspaceVars, accountVars, focus>>

Symmetry ==
  Permutations(MCTab) \cup Permutations(MCText) \cup Permutations({f2, f3})
=============================================================================
