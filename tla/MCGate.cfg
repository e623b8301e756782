SPECIFICATION FairSpec
CONSTANTS
  c1 = c1
  c2 = c2
  c3 = c3
  c4 = c4
  Calls = {c1, c2, c3, c4}
  LimitArg = 0
  MaxPending = 2
INVARIANTS
  CountersMatch
PROPERTIES
  GateIsFifoSlots
  CancelReturns
  WaiterServed
