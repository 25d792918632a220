SPECIFICATION Spec
CONSTANTS
  Device = {d1, d2, d3}
  Message = {m1, m2, m3}
  Repeats = FALSE
  MaxSaid = 3
  MaxBlocks = 4
  MaxRestarts = 1
INVARIANTS
  TypeOK
  AppliedIsHeld
  CausalOrder
PROPERTIES
  OnlyExtends
  ChatSpec
SYMMETRY Alike
CHECK_DEADLOCK FALSE
