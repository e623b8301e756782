SPECIFICATION PartsSpec
CONSTANTS
  b1 = b1
  b2 = b2
  b3 = b3
  f1 = f1
  f2 = f2
  f3 = f3
  s1 = s1
  Ids = {b1, b2, b3}
  TTLs <- SomeTTLs
  MaxTime = 4
  Payloads = {f1, f2}
  Capacity = 2
  MaxLines = 5
  Files = {f1, f2, f3}
  Seds = {s1}
  Ignored = {f3}
  ExpectedN = 2
  MaxWait = 24
  Interval = 1
  BackoffStep = 3
  BackoffCap = 9
  CallMax = 3
CHECK_DEADLOCK FALSE
INVARIANTS
  Conveyed
  ResultIsPrefix
  StatusTellsAll
  OverrunBounded
PROPERTIES
  LazyIsPrompt
  CancelReleases
  BacksOff
  CtxReturns
