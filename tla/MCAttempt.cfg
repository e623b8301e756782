SPECIFICATION FairSpec
CONSTANTS
  x = x
  y = y
  f = f
  s = s
  MaxRefs = 2
  FileIds = {x, y, f}
  Seds = {s}
  Personas = {"free", "paid"}
CHECK_DEADLOCK FALSE
INVARIANTS
  FitsOneChallenge
  OnlyNewImages
PROPERTIES
  AttemptIsRunners
  AttemptEnds
