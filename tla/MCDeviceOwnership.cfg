SPECIFICATION FairSpec
CONSTANTS
  Null = Null
  Users = {u1, u2}
  Devices = {d1, d2}
  Calls = {c1, c2}
  MaxReadings = 1
  MaxFaults = 1
CHECK_DEADLOCK FALSE
INVARIANTS
  TypeOK
  OwnersExist
  OldDataExcused
PROPERTIES
  RelinkKeepsHistory
  DeletionCompletes
