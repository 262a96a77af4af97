------------------------------- MODULE AccountSync -------------------------------
(***************************************************************************)
(* The saved workspace of a Sage Halpin account, kept in step by the       *)
(* browsers signed in to it (sage-halpin/src/lib/account.ts) through       *)
(* GET and PUT /account/data.  A browser works on its own copy and saves   *)
(* it whole every few seconds; what it last saved or loaded, the baseline, *)
(* tells at the next opening which of its entries are newer than the       *)
(* account's.  Requests are delayed, reordered and lost, pages close with  *)
(* saves in flight.                                                        *)
(*                                                                         *)
(* An entry is absent or has a text, which may be one it has had before; a *)
(* fingerprint is taken to tell texts apart.  Not modelled: work done      *)
(* before signing up, sessions that end (SageAccounts), full storage, and  *)
(* two pages of one browser.                                               *)
(***************************************************************************)
EXTENDS Integers, Sequences, FiniteSets, SequencesExt

CONSTANTS
  Browser, Entry,
  Text,         \* what an entry can be
  Absent,       \* an entry that is not there
  NoBaseline,
  MaxEdits,     \* bound: edits made
  MaxSaves,     \* bound: saves of a page waiting or in flight
  MaxLost,      \* bound: saves that fail
  MaxVisits     \* bound: times a page is opened

Content == [Entry -> Text \cup {Absent}]
Empty == [e \in Entry |-> Absent]

ASSUME SyncAssumption ==
  /\ {MaxEdits, MaxSaves, MaxLost, MaxVisits} \subseteq Nat
  /\ Absent \notin Text /\ NoBaseline \notin Content

VARIABLES
  server,      \* the account's data
  local,       \* per browser, its copy in local storage
  baseline,    \* per browser, the fingerprints of what it saved or loaded
  page,        \* per browser, the page: closed, open or signing out
  lastSaved,   \* per open page
  saves,       \* per open page, saveNow() calls under way
  saving,      \* per open page, the call `saving' stands for, or 0
  stray,       \* saves sent by pages that are closed
  edits, visits, lost,
  newest,      \* history: per entry, its last edit
  unheard,     \* history: per open page, entries stored in its name as another
               \* text than it takes for saved, the answer being lost
  setBack,     \* history: entries left as the text saved before such a save
  overtaken,   \* history: entries edited in one browser on top of an edit that
               \* another has saved without hearing so
  leftOver,    \* history: entries of a baseline written after signing out
  excused      \* history: entries two browsers worked on at once, and so on

copies == <<server, local, baseline, page, lastSaved, saves, saving, stray>>
bounds == <<edits, visits, lost>>
excuses == <<setBack, overtaken, leftOver, excused>>
vars == <<copies, bounds, newest, unheard, excuses>>

Save == [data : Content, at : {"waiting", "sent", "stored"}]

TypeOK ==
  /\ server \in Content /\ newest \in Content
  /\ local \in [Browser -> Content]
  /\ baseline \in [Browser -> Content \cup {NoBaseline}]
  /\ page \in [Browser -> {"closed", "open", "leaving"}]
  /\ lastSaved \in [Browser -> Content]
  /\ \A b \in Browser : /\ Len(saves[b]) <= MaxSaves
                        /\ \A i \in DOMAIN saves[b] : saves[b][i] \in Save
                        /\ saving[b] \in 0..Len(saves[b])
  /\ stray \subseteq Content
  /\ edits \in 0..MaxEdits /\ visits \in 0..MaxVisits /\ lost \in 0..MaxLost
  /\ unheard \in [Browser -> SUBSET Entry]
  /\ {setBack, overtaken, leftOver, excused} \subseteq SUBSET Entry

Init ==
  /\ server = Empty /\ newest = Empty
  /\ local = [b \in Browser |-> Empty] /\ baseline = [b \in Browser |-> NoBaseline]
  /\ page = [b \in Browser |-> "closed"] /\ lastSaved = [b \in Browser |-> Empty]
  /\ saves = [b \in Browser |-> <<>>] /\ saving = [b \in Browser |-> 0]
  /\ stray = {} /\ edits = 0 /\ visits = 0 /\ lost = 0
  /\ unheard = [b \in Browser |-> {}]
  /\ setBack = {} /\ overtaken = {} /\ leftOver = {} /\ excused = {}

-----------------------------------------------------------------------------
(* Saving.                                                                 *)

\* saveNow() on a copy, given the page's calls, what `saving' is and what was
\* saved last: nothing new, or a request, or waiting for the one under way.
Queue(b, copy, saved) ==
  IF copy = saved \/ Len(saves[b]) = MaxSaves
  THEN UNCHANGED <<saves, saving>>
  ELSE /\ saves' = [saves EXCEPT ![b] =
                      Append(@, [data |-> copy, at |-> IF saving[b] = 0 THEN "sent" ELSE "waiting"])]
       /\ saving' = [saving EXCEPT ![b] = IF @ = 0 THEN Len(saves[b]) + 1 ELSE @]

\* The timer, and hiding the page.
Tick(b) ==
  /\ page[b] = "open" /\ local[b] # lastSaved[b] /\ Len(saves[b]) < MaxSaves
  /\ Queue(b, local[b], lastSaved[b])
  /\ UNCHANGED <<server, local, baseline, page, lastSaved, stray, bounds, newest, unheard,
                 excuses>>

\* A request arrives, of an open page or of one that closed.
Put(b, i) ==
  /\ saves[b][i].at = "sent"
  /\ server' = saves[b][i].data
  /\ saves' = [saves EXCEPT ![b][i].at = "stored"]
  /\ UNCHANGED <<local, baseline, page, lastSaved, saving, stray, bounds, newest, unheard,
                 excuses>>

PutStray(d) ==
  /\ server' = d /\ stray' = stray \ {d}
  /\ UNCHANGED <<local, baseline, page, lastSaved, saves, saving, bounds, newest, unheard,
                 excuses>>

Waiting(list) == {j \in DOMAIN list : list[j].at = "waiting"}
InFlight(list) == DOMAIN list \ Waiting(list)

\* A call is over, and `saving' empty whichever call it was.  Those that waited
\* for it go on, all at once, and the last of them is `saving'; while others are
\* in flight, it is left open which had waited for this one.
Over(b, i) ==
  LET rest == RemoveAt(saves[b], i) IN
  \E on \in IF InFlight(rest) = {} THEN {Waiting(rest)} ELSE SUBSET Waiting(rest) :
    /\ saves' = [saves EXCEPT ![b] =
         [j \in DOMAIN rest |-> [rest[j] EXCEPT !.at = IF j \in on THEN "sent" ELSE @]]]
    /\ saving' = [saving EXCEPT ![b] = IF on = {} THEN 0 ELSE Max(on)]

\* Two saves of a page go out at once when two were waiting.
Crossing(b) ==
  excused' = IF Cardinality(InFlight(saves'[b])) > 1 THEN Entry ELSE excused

\* Mutant: the copy as it is now counts as saved.
SavedCopyNow(b, data) == local[b]

SavedCopy(b, data) == data

\* The answer: the copy that was sent is what was saved last.
Answered(b, i) ==
  LET data == saves[b][i].data IN
  /\ saves[b][i].at = "stored"
  /\ lastSaved' = [lastSaved EXCEPT ![b] = SavedCopy(b, data)]
  /\ baseline' = [baseline EXCEPT ![b] = SavedCopy(b, data)]
  /\ unheard' = [unheard EXCEPT ![b] = {}]
  /\ Over(b, i) /\ Crossing(b)
  /\ UNCHANGED <<server, local, page, stray, bounds, newest, setBack, overtaken, leftOver>>

\* Entries that a save has, or may have, stored as another text than the page
\* takes for saved.
Unlike(b, list) ==
  {e \in Entry : \E i \in InFlight(list) : list[i].data[e] # lastSaved[b][e]}

\* The request or its answer is lost: the next tick tries again, if the copy is
\* not by then what the page takes for saved.
Lost(b, i) ==
  /\ saves[b][i].at \in {"sent", "stored"} /\ lost < MaxLost
  /\ lost' = lost + 1
  /\ unheard' = [unheard EXCEPT ![b] =
       IF saves[b][i].at = "stored" THEN @ \cup Unlike(b, <<saves[b][i]>>) ELSE @]
  /\ Over(b, i) /\ Crossing(b)
  /\ UNCHANGED <<server, local, baseline, page, lastSaved, stray, edits, visits, newest,
                 setBack, overtaken, leftOver>>

-----------------------------------------------------------------------------
(* Pages.                                                                  *)

\* Mutant: an entry that is here wins, newer or not.
MergeHere(s, l, b) == [e \in Entry |-> IF l[e] # Absent THEN l[e] ELSE s[e]]

\* merge(): entries changed or removed here since the baseline, on top of
\* the account's.
Merge(s, l, b) ==
  [e \in Entry |->
     IF l[e] # Absent /\ l[e] # b[e] THEN l[e]
     ELSE IF l[e] = Absent /\ b[e] # Absent /\ s[e] = b[e] THEN Absent
     ELSE s[e]]

\* activate(): the copy after loading the account's data.
Loaded(b) ==
  IF server = Empty THEN local[b]
  ELSE IF baseline[b] = NoBaseline THEN server
  ELSE Merge(server, local[b], baseline[b])

\* The session is resumed before any page is shown, so before any edit.
MayOpen(b) == page[b] = "closed" /\ visits < MaxVisits

\* A page opens with a session, or somebody signs in.
Open(b) ==
  /\ MayOpen(b)
  /\ visits' = visits + 1
  /\ page' = [page EXCEPT ![b] = "open"]
  /\ local' = [local EXCEPT ![b] = Loaded(b)]
  /\ baseline' = [baseline EXCEPT ![b] = server]
  /\ lastSaved' = [lastSaved EXCEPT ![b] = server]
  /\ Queue(b, local'[b], server)
  /\ excused' = IF (\E c \in Browser \ {b} : page[c] # "closed") \/ stray # {}
                THEN Entry
                ELSE IF server = Empty THEN excused \cup {e \in Entry : local[b][e] # Absent}
                ELSE excused
  /\ UNCHANGED <<server, stray, edits, lost, newest, unheard, setBack, overtaken, leftOver>>

\* Another browser holds a change of the entry for unsaved: one this copy has, or not.
ChangedToo(b, e, here) ==
  \E c \in Browser \ {b} :
    /\ baseline[c] # NoBaseline /\ local[c][e] # baseline[c][e]
    /\ (local[c][e] = local[b][e]) = here

\* Somebody changes an entry of the open page, back to a former text it may be,
\* or removes it.
Edit(b, e) ==
  /\ page[b] = "open" /\ edits < MaxEdits
  /\ edits' = edits + 1
  /\ \E v \in (Text \cup {Absent}) \ {local[b][e]} :
       /\ local' = [local EXCEPT ![b][e] = v]
       /\ newest' = [newest EXCEPT ![e] = v]
  /\ overtaken' = overtaken \cup {d \in {e} : ChangedToo(b, d, TRUE)}
  /\ excused' = excused \cup {d \in {e} \ overtaken : ChangedToo(b, d, FALSE)}
  /\ UNCHANGED <<server, baseline, page, lastSaved, saves, saving, stray, visits, lost,
                 unheard, setBack, leftOver>>

\* The page is gone: what it had in flight, and has sent on leaving, is stray.
Leaves(b, sent) ==
  /\ stray' = stray \cup {saves[b][i].data : i \in
                           {j \in DOMAIN saves[b] : saves[b][j].at = "sent"}} \cup sent
  /\ saves' = [saves EXCEPT ![b] = <<>>] /\ saving' = [saving EXCEPT ![b] = 0]
  /\ page' = [page EXCEPT ![b] = "closed"]
  /\ lastSaved' = [lastSaved EXCEPT ![b] = Empty]
  /\ unheard' = [unheard EXCEPT ![b] = {}]

\* Entries the page shows as it takes them for saved, though it may have saved
\* them as another text since: it saves nothing, and will not be asked to.
SetBackTo(b) ==
  {e \in Entry : /\ e \in unheard[b] \cup Unlike(b, saves[b])
                 /\ local[b][e] = lastSaved[b][e]}

\* The page closes; a last save leaves with it unless it has to wait.
Close(b) ==
  /\ page[b] # "closed"
  /\ Leaves(b, IF saving[b] = 0 /\ local[b] # lastSaved[b] THEN {local[b]} ELSE {})
  /\ setBack' = setBack \cup SetBackTo(b)
  /\ UNCHANGED <<server, local, baseline, bounds, newest, overtaken, leftOver,
                 excused>>

\* The menu's button, disabled from then on; signOut() saves first ...
BeginSignOut(b) ==
  /\ page[b] = "open" /\ Len(saves[b]) < MaxSaves
  /\ page' = [page EXCEPT ![b] = "leaving"]
  /\ Queue(b, local[b], lastSaved[b])
  /\ UNCHANGED <<server, local, baseline, lastSaved, stray, bounds, newest, unheard, excuses>>

\* ... and removes the copy when that is over, whether it was saved or not: at
\* once, when there was nothing new to save, other saves still being under way.
\* The answer to one may arrive after that, and leave a baseline with no copy.
EndSignOut(b) ==
  /\ page[b] = "leaving" /\ (saves[b] = <<>> \/ local[b] = lastSaved[b])
  /\ local' = [local EXCEPT ![b] = Empty]
  /\ \E late \in {NoBaseline} \cup
                 {saves[b][i].data : i \in {j \in DOMAIN saves[b] : saves[b][j].at = "stored"}} :
       /\ baseline' = [baseline EXCEPT ![b] = late]
       /\ leftOver' = IF late = NoBaseline THEN leftOver ELSE Entry
  /\ setBack' = setBack \cup SetBackTo(b)
  /\ Leaves(b, {})
  /\ excused' = excused \cup {e \in Entry : local[b][e] # lastSaved[b][e]}
  /\ UNCHANGED <<server, bounds, newest, overtaken>>

\* A stray save never arrives.
LoseStray(d) ==
  /\ stray' = stray \ {d}
  /\ UNCHANGED <<server, local, baseline, page, lastSaved, saves, saving, bounds, newest,
                 unheard, excuses>>

Next ==
  \/ \E b \in Browser :
       \/ Open(b) \/ Tick(b) \/ Close(b) \/ BeginSignOut(b) \/ EndSignOut(b)
       \/ \E e \in Entry : Edit(b, e)
       \/ \E i \in DOMAIN saves[b] : Put(b, i) \/ Answered(b, i) \/ Lost(b, i)
  \/ \E d \in stray : PutStray(d) \/ LoseStray(d)

\* The timer runs while the page is open, and requests end.
Fairness ==
  \A b \in Browser :
    /\ WF_vars(Tick(b)) /\ WF_vars(EndSignOut(b))
    /\ WF_vars(\E i \in DOMAIN saves[b] : Put(b, i))
    /\ WF_vars(\E i \in DOMAIN saves[b] : Answered(b, i))

Spec == Init /\ [][Next]_vars /\ Fairness

-----------------------------------------------------------------------------
(* Properties.                                                             *)

\* The page's copy, or what is newer in it than the baseline, is not lost.
Pending(b, e) == page[b] # "closed" \/ local[b][e] # baseline[b][e]

\* The last edit of an entry is in the account, or in a browser that knows it
\* for unsaved.
LastKept(e) ==
  newest[e] # Absent =>
    \/ server[e] = newest[e]
    \/ \E b \in Browser : local[b][e] = newest[e] /\ Pending(b, e)

\* No edit is lost, through saves lost or late and pages closed at any moment --
\* unless another browser was open or an older save of a closed one was still on
\* its way, two saves of one page went out at once, two browsers changed the entry
\* apart, a failed save was signed out of, or the account was empty while the
\* browser had a copy (account.ts:187); and but for three ways in which the code
\* does lose an edit, against its own words:
\* - setBack: a text is set back to the one saved last, while a save of another has
\*   been stored and not been heard of.  It counts as saved (account.ts:134, against
\*   :65-68, "so neither is lost").
\* - overtaken: a save was stored, its page closed without hearing so, and the entry
\*   then edited on another device.  The older text counts as new (account.ts:103,
\*   against :176-178, "never overwritten by an older copy here").
\* - leftOver: the answer to a save arrives after signing out has cleared the
\*   browser.  At the next sign-in its entries count as removed here
\*   (account.ts:141, 232-238, against :97-99, "comes from the account").
EditsKept ==
  \A e \in Entry \ (excused \cup setBack \cup overtaken \cup leftOver) : LastKept(e)

\* What an open page shows is saved in the end, whatever was lost before: while
\* the page stays, the account comes to have its entries, removed ones too --
\* except one set back to the text that the page takes for saved, since it never
\* heard that another was stored.
SavedInTheEnd ==
  \A b \in Browser :
    page[b] = "open" ~>
      \/ page[b] # "open"
      \/ \A e \in Entry \ excused :
           \/ local[b][e] = server[e]
           \/ e \in unheard[b] /\ local[b][e] = lastSaved[b][e]
=============================================================================
