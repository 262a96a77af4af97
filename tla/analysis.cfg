CONSTANTS
  w1 = w1  j1 = j1  j2 = j2  t1 = t1  domain = domain
  None = None
  Worker <- OneWorker
  Job <- TwoJobs
  MaxAttempts <- TwoAttempts
  MaxCrashes = 1
  Twins <- OneTwin
  Domain = domain
  Sites <- WebsiteVersions
  Systems <- ConnectedSystems
  Answers <- WhoAnswers
  Purchases <- Recorded
  Plannable <- FirstService
  MaxPlans = 1
CHECK_DEADLOCK FALSE
SPECIFICATION FairAnalysisSpec
INVARIANTS
  Booked BoughtNotProposed
PROPERTIES RefreshReached
