\* Two plans for one opportunity, one run at a time, and the process may die
\* between any two writes.
CONSTANTS
  p1 = p1  p2 = p2  o1 = o1  a1 = a1  a2 = a2  r1 = r1  r2 = r2
  None = None
  Opportunity <- OneOpportunity
  Plan <- TwoPlans
  OpportunityOf <- AllForTheSame
  NTasks = 1
  ExternalTasks = {}
  GatedTasks <- FirstTask
  ApprovalId <- OneApproval
  Request <- OneRequest
  TaskValue = {1, 2}
  Delta = {0, 1, 2}
  MAX_RETRIES = 2
  MaxCrashes = 1
  MaxCommands = 1
CHECK_DEADLOCK FALSE
SPECIFICATION FairSpec
INVARIANTS ConsentFirst LedgerInStep
PROPERTIES BaselineBeforeWork LedgerSpec RunsEnd
