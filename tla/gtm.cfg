SPECIFICATION Spec
CONSTANTS
  acme = acme
  r1 = r1
  r2 = r2
  None = None
  Runs = {r1}
  Accounts = {acme}
  Records <- MCRecords
  Connected = TRUE
  Stages <- MCStages
  Mapped <- MCMapped
  Findings <- MCFindings
  Edits <- MCEdits
  Jumps = {100}
  MaxTicks = 1
  MaxMoves = 2
  MaxFaults = 1
INVARIANTS
  OneRecordEach
  OncePerDay
PROPERTIES
  CrmCatchesUp
CHECK_DEADLOCK FALSE
