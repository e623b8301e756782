SPECIFICATION RunFairSpec
CONSTANTS
  a = a
  b = b
  cred = cred
  j1 = j1
  j2 = j2
  o1 = o1
  o2 = o2
  Names = {a, b}
  Creds = {cred}
  Personas = {"paid"}
  Paid = "paid"
  Window = 2
  FreeThreshold = 1
  FreeCooldown = 2
  PaidThreshold = 2
  PaidCooldown = 1
  StoreMayFail = FALSE
  Jobs = {j1}
  Edits = {j1}
  Objects = {o1, o2}
  Configs <- Shrinking
  Intervals = {0}
  RateCooldown = 1
  Nobody = Nobody
  MaxTime = 3
  MaxReloads = 1
  MaxReports = 4
VIEW RunView
INVARIANT
  SecondTaskOnlyUnseen
PROPERTIES
  RetryElsewhere
  FailurePolicy
  RunReturns
CHECK_DEADLOCK FALSE
