SPECIFICATION Spec
CONSTANTS
  Device = {d1, d2}
  Message = {m1, m2}
  Repeats = TRUE
  MaxSaid = 3
  MaxBlocks = 3
  MaxRestarts = 0
INVARIANTS
  AppliedIsHeld
CHECK_DEADLOCK FALSE
