---------------------------- MODULE MCAccountSync ----------------------------
(* A behaviour is about two browsers that change one entry, or about one   *)
(* browser that changes two and has saves waiting for one another.         *)
EXTENDS AccountSync

CONSTANTS b1, b2, x, y

MCBrowser == {b1, b2}
MCEntry == {x, y}

VARIABLE focus

SyncInit == Init /\ focus \in {"browsers", "entries"}

\* The bounds of either.  Where a page has one save at a time, none has to wait.
InFocus ==
  IF focus = "browsers"
  THEN lost <= 1 /\ \A b \in Browser : local[b][y] = Absent /\ Len(saves[b]) <= 1
  ELSE visits <= 2 /\ page[b2] = "closed"

\* Browsers, entries and texts are alike: it does not matter which is first.
InOrder ==
  /\ visits <= 1 => page[b2] = "closed"
  /\ edits <= 1 => \A b \in Browser : local[b][y] = Absent /\ local[b][x] # "B"

SyncNext == Next /\ UNCHANGED focus /\ InFocus' /\ InOrder'

SyncSpec == SyncInit /\ [][SyncNext]_<<vars, focus>> /\ Fairness
=============================================================================
