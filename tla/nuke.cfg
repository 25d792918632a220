SPECIFICATION FairSpec
CONSTANTS
  Device = {d1, d2}
  Key = {"k1", "k2"}
  Settings <- MCSettings
INVARIANTS
  TypeOK
  
  StaysPurged
PROPERTY EveryDevicePurges
