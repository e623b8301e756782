SPECIFICATION Spec
CONSTANTS
  s1 = s1
  s2 = s2
  Sidecars = {s1, s2}
  Names = {"a"}
  Cooldowns = {1, 2}
  Window = 1
  Late = TRUE
  MaxTime = 3
  MaxCalls = 3
  MaxLate = 1
SYMMETRY Symm
INVARIANTS
  FailuresCountedOnce
PROPERTIES
  FreshIsAtomic
CHECK_DEADLOCK FALSE
