CONSTANTS
  p1 = p1  p2 = p2  o1 = o1  a1 = a1  a2 = a2  r1 = r1  r2 = r2
  None = None
  Opportunity <- OneOpportunity
  Plan <- OnePlan
  OpportunityOf <- AllForTheSame
  NTasks = 2
  ExternalTasks <- SecondTask
  GatedTasks <- SecondTask
  ApprovalId <- TwoApprovals
  Request <- OneRequest
  TaskValue = {1}
  Delta = {1}
  MAX_RETRIES = 0
  MaxCrashes = 0
  MaxCommands = 0
CHECK_DEADLOCK FALSE
SPECIFICATION Spec
PROPERTY GateHolds
