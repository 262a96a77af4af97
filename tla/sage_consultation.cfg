CONSTANTS
  t1 = t1
  t2 = t2
  p1 = p1
  p2 = p2
  Nobody = Nobody
  Tab <- MCTab
  Person <- MCPerson
  Permanent <- MCPermanent
  MaxRequests = 4
  MaxLinks = 6
  MaxFailures = 1
SPECIFICATION MCSpec
INVARIANTS
  PermanentHeard
  StoredApartAgrees
  LinksWork
PROPERTIES
  ExpiredGoes
CHECK_DEADLOCK FALSE
