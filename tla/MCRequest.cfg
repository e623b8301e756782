SPECIFICATION MCSpec
CONSTANTS
  r1 = r1
  r2 = r2
  r3 = r3
  Calls = {r1, r2, r3}
  LimitArg = 1
  MaxPending = 1
  NArgs = {0, 2}
  MaxImages = 2
  JobErrors = {"poll_timeout"}
CHECK_DEADLOCK FALSE
INVARIANTS
  TurnedAwayIsUnavailable
  JobsUnderSlot
  NothingLost
  ErrorOnlyIfAllFailed
PROPERTIES
  GoneReturns
  RequestEnds
