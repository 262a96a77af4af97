CONSTANTS
  b1 = b1
  b2 = b2
  x = x
  y = y
  Browser <- MCBrowser
  Entry <- MCEntry
  Text = {"A", "B"}
  Absent = Absent
  NoBaseline = NoBaseline
  MaxEdits = 3
  MaxSaves = 2
  MaxLost = 2
  MaxVisits = 3
SPECIFICATION SyncSpec
 
PROPERTY SavedInTheEnd
CHECK_DEADLOCK FALSE
