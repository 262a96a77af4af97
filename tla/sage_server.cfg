CONSTANTS
  t1 = t1
  t2 = t2
  pw1 = pw1
  pw2 = pw2
  a1 = a1
  x1 = x1
  x2 = x2
  f1 = f1
  f2 = f2
  f3 = f3
  q1 = q1
  l1 = l1
  e1 = e1
  Tab <- MCTab
  Password <- MCPassword
  Agent <- MCAgent
  Text <- MCText
  FileId <- MCFile
  QuestionId <- MCQuestion
  LoggedId <- MCLogged
  EventId <- MCEvent
  Item <- MCItem
  MaxRequests = 4
  ActivePerAgent = 1
  MaxLessons = 3
  MaxProposals = 1
  MAX_FILES = 1
  HISTORY_MAX = 2
  MaxCheckpoints = 2
  MAX_SIGNALS = 1
  LOCK_AFTER = 2
  MaxAccounts = 2
  MaxSessions = 4
  MaxGuesses = 4
SPECIFICATION ServerSpec
INVARIANTS
  WithinLimits SettingsSurvive DeletedLeavesNothing
  NothingOutlives LockHolds
PROPERTIES
  MemoryIsTheChairs ServedInTurn
SYMMETRY Symmetry
CHECK_DEADLOCK FALSE
