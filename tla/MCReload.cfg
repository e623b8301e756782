SPECIFICATION FairSpec
CONSTANTS
  r1 = r1
  r2 = r2
  r3 = r3
  Requests = {r1, r2}
  Written <- Mixed
  DefaultQueue = 2
  MaxEdits = 2
  MaxTime = 3
CHECK_DEADLOCK FALSE
INVARIANTS
  PartsAgree
  ViewsInOrder
  EditIsFound
PROPERTY
  RequestsPass
