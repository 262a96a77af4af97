CONSTANTS
  j1 = j1  j2 = j2  w1 = w1  w2 = w2  a1 = a1
  None = None
  Worker <- TwoWorkers
  Delta = {0, 1}
  Job <- OneJob
  MaxAttempts <- TwoAttempts
  Api <- OneRequest
  MaxCrashes = 1
CHECK_DEADLOCK FALSE
SPECIFICATION FairSpec
INVARIANTS
  SuccessIsBooked ExclusiveUntilOverrun
PROPERTIES LoopConcludes SettledStays
