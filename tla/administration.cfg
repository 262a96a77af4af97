CONSTANTS
  ann = ann  ben = ben  s1 = s1  s2 = s2  r1 = r1  r2 = r2  x1 = x1
  None = None
  GrantIds <- Ids
  Requests <- Asking
  Opportunities <- Everything
  Likenesses <- Alike
  MaxSaves = 2
  MaxHalts = 1
  User <- People
  Session = {s1, s2}
  Request = {r1, r2}
  Ticket = {x1}
  Founders <- Seeds
  Provisioning = TRUE
  MaxFailures = 1
  MaxResets = 2
  MaxSpells = 1
  MaxServed = 5
SPECIFICATION AdministrationSpec
SYMMETRY Symmetry
INVARIANTS
  AuthorityAsGranted TasksCanBeDone AdministratorRemains SignedInAnew
CHECK_DEADLOCK FALSE
