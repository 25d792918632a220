SPECIFICATION Spec
CONSTANTS
  d1 = d1
  d2 = d2
  w1 = w1
  w2 = w2
  w3 = w3
  Device = {d1, d2}
  Worker = {w1, w2, w3}
  Home <- OneDeviceTwoWorkers
  Item = {i1}
  Kept = {i1}
  Message = {m1, m2}
  Absent = Absent
  PageSize = 2
  MaxSeq = 4
  Faults = {}
  MaxFaults = 0
  SayAt = {"idle"}
INVARIANTS
  KeptNeverTombstoned
CHECK_DEADLOCK FALSE
