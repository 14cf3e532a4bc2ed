SPECIFICATION Spec
CONSTANTS
  Null = Null
  Devices = {d1, d2}
  Active = {d1}
  Requests = {q1, q2}
  Handlers = {h1, h2}
  MaxRequests = 2
  MaxFaults = 1
  MaxDrops = 1
  MaxUp = 2
CHECK_DEADLOCK FALSE
SYMMETRY ProcessSymmetry
INVARIANTS
  TypeOK
  RowsShowReports
  CommandsHaveRows
PROPERTIES
  ClearedAfterEnd
  ImplementsLedger
