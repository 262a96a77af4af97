CONSTANTS
  ann = ann  ben = ben  topic = topic
  Person <- Chair
  Permanent <- Chair
  Modes = {"agents", "collaborative"}
  None = None
  Pressed = {"invite", "shadow", "decide", "close"}
  Question = {1}
  MaxPresses = 3
  MaxOut = 2
  MaxLost = 1
  Entry = {1}
  Topic = {topic}
  Space = {1, 2}
  DeskPages = {"agents", "horizon", "checkpoint", "log", "documents"}
  MaxMoves = 5
  MaxJobs = 2
  MaxMissed = 1
SPECIFICATION PagesSpec
INVARIANTS KeptHereIsTrue DecidedOnce OrganisationKept LockedSentOnce ShownIsSo
CHECK_DEADLOCK FALSE
