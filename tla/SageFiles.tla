------------------------------- MODULE SageFiles -------------------------------
(***************************************************************************)
(* The files attached to a Sage Halpin workspace or board question         *)
(* (server/files.ts): a record per file, and its bytes and text in chunks  *)
(* of another partition.  Uploading, asking Sentinel about a file, sharing *)
(* it and deleting it are requests of several store calls; asking also     *)
(* waits for the model, with the record it read in hand.                   *)
(*                                                                         *)
(* Not modelled: types, sizes (every file is one unit of both limits),     *)
(* extraction, the prompt and the wording of answers (their number is).    *)
(***************************************************************************)
EXTENDS SageRequests

CONSTANTS
  FileId,       \* ids files can get
  MAX_FILES,    \* files an owner may have, 100 in the code
  HISTORY_MAX   \* answers kept with a file, 10 in the code

ASSUME FilesAssumption ==
  FileId # {} /\ MAX_FILES \in Nat /\ HISTORY_MAX \in Nat \ {0}

VARIABLES
  files,        \* partition files-<owner>: the records
  blobs,        \* partition blob-<id>: which chunks are stored
  fileCalls,    \* per tab, the request under way on files
  asked,        \* history: the record requests served one by one would leave
  overlapped,   \* history: files two requests worked on at the same time
  cleared       \* history: files a deletion was begun for

fileVars == <<files, blobs, fileCalls, asked, overlapped, cleared>>

Record == [there : BOOLEAN, shared : BOOLEAN, useInBoard : BOOLEAN,
           done : BOOLEAN, answers : 0..HISTORY_MAX]

NoRecord == [there |-> FALSE, shared |-> FALSE, useInBoard |-> FALSE,
             done |-> FALSE, answers |-> 0]

NewRecord(shared) ==
  [there |-> TRUE, shared |-> shared, useInBoard |-> TRUE,
   done |-> FALSE, answers |-> 0]

Chunks == {"none", "some", "all"}

FileCall ==
  [at : {"idle", "count", "store", "record", "bytes", "model", "save", "list",
         "remove", "forget"},
   file : FileId, row : Record, readable : BOOLEAN, rest : SUBSET FileId]

NoFileCall == [at |-> "idle", file |-> CHOOSE f \in FileId : TRUE,
               row |-> NoRecord, readable |-> FALSE, rest |-> {}]

FilesTypeOK ==
  /\ files \in [FileId -> Record] /\ asked \in [FileId -> Record]
  /\ blobs \in [FileId -> Chunks]
  /\ fileCalls \in [Tab -> FileCall]
  /\ overlapped \subseteq FileId /\ cleared \subseteq FileId

FilesInit ==
  /\ files = [f \in FileId |-> NoRecord] /\ asked = files
  /\ blobs = [f \in FileId |-> "none"]
  /\ fileCalls = [c \in Tab |-> NoFileCall]
  /\ overlapped = {} /\ cleared = {}

Listed == {f \in FileId : files[f].there}

\* Whether a call works on the file, or deletes all files this one included.
WorksOn(call, f) ==
  \/ call.at \notin {"idle", "count"} /\ call.file = f
  \/ f \in call.rest

\* The tab's call goes on as `call', which may meet others on its files.
Goes(c, call) ==
  /\ fileCalls' = [fileCalls EXCEPT ![c] = call]
  /\ overlapped' = overlapped \cup
       {f \in FileId : /\ WorksOn(call, f)
                       /\ \E d \in Tab \ {c} : WorksOn(fileCalls[d], f)}

Ends(c) == Goes(c, NoFileCall)

-----------------------------------------------------------------------------
(* handleUpload()                                                          *)

BeginUpload(c, shared) ==
  /\ Arrive /\ fileCalls[c].at = "idle"
  /\ Goes(c, [NoFileCall EXCEPT !.at = "count", !.row = NewRecord(shared)])
  /\ UNCHANGED <<files, blobs, asked, cleared>>

\* Ids are random and never drawn twice.
Unused(f) == /\ ~ files[f].there /\ blobs[f] = "none" /\ f \notin cleared
             /\ \A d \in Tab : fileCalls[d].at \in {"idle", "count"}
                               \/ fileCalls[d].file # f

Full == Cardinality(Listed) >= MAX_FILES

\* The limit is read here; the record follows several store calls later.
CountFiles(c) ==
  /\ fileCalls[c].at = "count"
  /\ IF Full THEN Ends(c)
     ELSE \E f \in FileId :
            /\ Unused(f)
            /\ Goes(c, [fileCalls[c] EXCEPT !.at = "store", !.file = f])
  /\ UNCHANGED <<issued, files, blobs, asked, cleared>>

StoreChunk(c) ==
  LET f == fileCalls[c].file IN
  /\ fileCalls[c].at = "store"
  /\ blobs' = [blobs EXCEPT ![f] = IF @ = "none" THEN "some" ELSE "all"]
  /\ Goes(c, [fileCalls[c] EXCEPT !.at = IF blobs[f] = "none" THEN "store"
                                         ELSE "record"])
  /\ UNCHANGED <<issued, files, asked, cleared>>

\* The record goes in when the bytes are stored; the review has them in hand.
PutRecord(c) ==
  LET call == fileCalls[c] IN
  /\ call.at = "record"
  /\ files' = [files EXCEPT ![call.file] = call.row]
  /\ asked' = [asked EXCEPT ![call.file] = call.row]
  /\ Goes(c, [call EXCEPT !.at = "model", !.readable = TRUE])
  /\ UNCHANGED <<issued, blobs, cleared>>

-----------------------------------------------------------------------------
(* handleAsk() and review()                                                *)

\* getFile(), with a request for the file
Get(c, f, at) ==
  /\ Arrive /\ fileCalls[c].at = "idle" /\ files[f].there
  /\ Goes(c, [NoFileCall EXCEPT !.at = at, !.file = f, !.row = files[f]])
  /\ UNCHANGED <<files, blobs, asked>>

BeginAsk(c, f) == Get(c, f, "bytes") /\ UNCHANGED cleared

\* readBytes() throws inside review() when a chunk is missing.
ReadBytes(c) ==
  LET call == fileCalls[c] IN
  /\ call.at = "bytes"
  /\ Goes(c, [call EXCEPT !.at = "model", !.readable = blobs[call.file] = "all"])
  /\ UNCHANGED <<issued, files, blobs, asked, cleared>>

\* Mutant: an answer replaces the ones before it.
AnsweredOnly(row) == [row EXCEPT !.done = TRUE, !.answers = 1]

Answered(row) ==
  [row EXCEPT !.done = TRUE,
              !.answers = IF @ = HISTORY_MAX THEN @ ELSE @ + 1]

Unanswered(row) == [row EXCEPT !.done = FALSE]

\* The model answers or does not; the record read before goes back whole.
Review(c) ==
  LET call == fileCalls[c]
      f == call.file
      Write(row, served) ==
        /\ files' = [files EXCEPT ![f] = row]
        /\ asked' = [asked EXCEPT ![f] = IF @.there THEN served ELSE @]
  IN
  /\ call.at = "model"
  /\ \/ /\ call.readable
        /\ Write(Answered(call.row),
                 [asked[f] EXCEPT !.done = TRUE,
                    !.answers = IF @ = HISTORY_MAX THEN @ ELSE @ + 1])
     \/ Write(Unanswered(call.row), [asked[f] EXCEPT !.done = FALSE])
  /\ Ends(c)
  /\ UNCHANGED <<issued, blobs, cleared>>

-----------------------------------------------------------------------------
(* handleUpdate(), handleDelete(), deleteAllFiles()                        *)

BeginUpdate(c, f) == Get(c, f, "save") /\ UNCHANGED cleared

\* The flags a request names are set, the others go back as they were read.
SaveFlags(c) ==
  LET call == fileCalls[c]
      f == call.file
  IN
  /\ call.at = "save"
  /\ \/ \E b \in BOOLEAN :
          /\ files' = [files EXCEPT ![f] = [call.row EXCEPT !.shared = b]]
          /\ asked' = [asked EXCEPT ![f].shared = IF asked[f].there THEN b ELSE @]
     \/ \E b \in BOOLEAN :
          /\ files' = [files EXCEPT ![f] = [call.row EXCEPT !.useInBoard = b]]
          /\ asked' = [asked EXCEPT ![f].useInBoard = IF asked[f].there THEN b ELSE @]
  /\ Ends(c)
  /\ UNCHANGED <<issued, blobs, cleared>>

BeginDelete(c, f) == Get(c, f, "list") /\ cleared' = cleared \cup {f}

\* deleteAllFiles() lists the records when a workspace or question goes.
BeginDeleteAll(c) ==
  /\ fileCalls[c].at = "idle" /\ Listed # {}
  /\ \E f \in Listed :
       Goes(c, [NoFileCall EXCEPT !.at = "list", !.file = f, !.rest = Listed \ {f}])
  /\ cleared' = cleared \cup Listed
  /\ UNCHANGED <<files, blobs, asked>>

\* deleteFile() lists the chunks ...
ListChunks(c) ==
  LET call == fileCalls[c] IN
  /\ call.at = "list"
  /\ Goes(c, [call EXCEPT !.at = IF blobs[call.file] = "none" THEN "forget"
                                 ELSE "remove"])
  /\ UNCHANGED <<issued, files, blobs, asked, cleared>>

\* Mutant: only the first chunk is removed.
RemoveChunkFirst(c) ==
  LET call == fileCalls[c] IN
  /\ call.at = "remove"
  /\ blobs' = [blobs EXCEPT ![call.file] = IF @ = "all" THEN "some" ELSE "none"]
  /\ Goes(c, [call EXCEPT !.at = "forget"])
  /\ UNCHANGED <<issued, files, asked, cleared>>

\* ... removes them one after the other ...
RemoveChunk(c) ==
  LET call == fileCalls[c] IN
  /\ call.at = "remove"
  /\ blobs' = [blobs EXCEPT ![call.file] = IF @ = "all" THEN "some" ELSE "none"]
  /\ Goes(c, [call EXCEPT !.at = IF blobs[call.file] = "all" THEN "remove"
                                 ELSE "forget"])
  /\ UNCHANGED <<issued, files, asked, cleared>>

\* ... and then the record.
RemoveRecord(c) ==
  LET call == fileCalls[c] IN
  /\ call.at = "forget"
  /\ files' = [files EXCEPT ![call.file] = NoRecord]
  /\ asked' = [asked EXCEPT ![call.file] = NoRecord]
  /\ IF call.rest = {} THEN Ends(c)
     ELSE \E f \in call.rest :
            Goes(c, [call EXCEPT !.at = "list", !.file = f, !.rest = @ \ {f}])
  /\ UNCHANGED <<issued, blobs, cleared>>

\* The store fails a call, or the process dies: what was written stays.
FileCallFails(c) ==
  /\ fileCalls[c].at # "idle"
  /\ Ends(c)
  /\ UNCHANGED <<issued, files, blobs, asked, cleared>>

FileStep(c) ==
  \/ \E b \in BOOLEAN : BeginUpload(c, b)
  \/ \E f \in FileId : BeginAsk(c, f) \/ BeginUpdate(c, f) \/ BeginDelete(c, f)
  \/ CountFiles(c) \/ StoreChunk(c) \/ PutRecord(c)
  \/ ReadBytes(c) \/ Review(c) \/ SaveFlags(c)
  \/ ListChunks(c) \/ RemoveChunk(c) \/ RemoveRecord(c)

-----------------------------------------------------------------------------
(* Properties.                                                             *)

\* A listed file can be downloaded: as long as nobody began to delete it, all
\* its chunks are stored, wherever an upload or a store call failed
\* (files.ts:98, readBytes throws on a missing part).
RecordHasBytes ==
  \A f \in Listed \ cleared : blobs[f] = "all"

\* Requests that met no other on their file leave what they were asked for:
\* flags, number of answers and deletions, though every handler writes back
\* the whole record it read and may fail at any call.
FilesServedInTurn ==
  \A f \in FileId \ overlapped : files[f] = asked[f]

\* The limit on files is read long before the record that counts is stored:
\* concurrent uploads overshoot it, but by one file per other tab at most.
FilesBounded ==
  Cardinality(Listed) <= MAX_FILES + Cardinality(Tab) - 1
=============================================================================
