SPECIFICATION Spec
CONSTANTS
  a = a
  b = b
  oldCred = oldCred
  newCred = newCred
  j1 = j1
  j2 = j2
  o1 = o1
  o2 = o2
  o3 = o3
  Names = {a, b}
  Creds = {oldCred, newCred}
  Personas = {"paid"}
  Paid = "paid"
  Window = 2
  FreeThreshold = 1
  FreeCooldown = 1
  PaidThreshold = 2
  PaidCooldown = 1
  StoreMayFail = TRUE
  Jobs = {j1, j2}
  Objects = {o1, o2, o3}
  Configs <- Lists
  Intervals = {1}
  RateCooldown = 2
  Nobody = Nobody
  MaxTime = 3
  MaxReloads = 2
  MaxReports = 2
CONSTRAINT Bounded
VIEW View
SYMMETRY Symm
INVARIANTS
  TypeOK
  LeaseExclusive
  OneLeasePerListedName
PROPERTIES
  GrantHonoursMarks
  CooldownKept
  DisabledUntilNewCredentials
