SPECIFICATION Spec
CONSTANTS
  Message = {m1, m2}
  Absent = Absent
  MaxLen = 3
  MaxFaults = 2
INVARIANTS
  TypeOK
  SavedLoads
  NothingLostSilently
