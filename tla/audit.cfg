SPECIFICATION Spec
CONSTANTS
  Org = {o1, o2}
  Data = {x1, x2}
  Caller = {c1, c2}
  MaxRows = 3
  MaxEdits = 2
INVARIANTS
  TypeOK
  ForksFound
  UntouchedIsValid
  
CHECK_DEADLOCK FALSE
