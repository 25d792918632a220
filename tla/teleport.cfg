SPECIFICATION Spec
CONSTANTS
  Segment = {"a", "b"}
  Object = {"x"}
  MaxParts = 3
  MaxSteps = 6
INVARIANTS
  
  ChangesOnce
CHECK_DEADLOCK FALSE
