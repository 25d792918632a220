SPECIFICATION Spec
CONSTANTS
  d1 = d1
  d2 = d2
  w1 = w1
  w2 = w2
  w3 = w3
  Device = {d1, d2}
  Worker = {w1, w2}
  Home <- OneEach
  Item = {i1}
  Kept = {i1}
  Message = {m1, m2}
  Absent = Absent
  PageSize = 2
  MaxSeq = 4
  Faults = {"save"}
  MaxFaults = 1
  SayAt = {"idle"}
INVARIANTS
  CursorCovers
CHECK_DEADLOCK FALSE
