SPECIFICATION RunSpec
CONSTANTS
  a = a
  b = b
  cred = cred
  j1 = j1
  j2 = j2
  o1 = o1
  o2 = o2
  Names = {a, b}
  Creds = {cred}
  Personas = {"paid"}
  Paid = "paid"
  Window = 2
  FreeThreshold = 1
  FreeCooldown = 2
  PaidThreshold = 2
  PaidCooldown = 1
  StoreMayFail = FALSE
  Jobs = {j1, j2}
  Edits = {j2}
  Objects = {o1}
  Configs <- One
  Intervals = {0}
  RateCooldown = 1
  Nobody = Nobody
  MaxTime = 1
  MaxReloads = 0
  MaxReports = 8
VIEW RunView
INVARIANTS
  LeaseSpansAttempt
PROPERTIES
  CodeTellsTheMark
CHECK_DEADLOCK FALSE
