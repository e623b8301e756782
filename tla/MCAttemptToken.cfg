SPECIFICATION Spec
CONSTANTS
  x = x
  y = y
  f = f
  s = s
  MaxRefs = 1
  FileIds = {x, y, f}
  Seds = {s}
  Personas = {"free", "paid"}
CHECK_DEADLOCK FALSE
INVARIANT
  TokenSent
