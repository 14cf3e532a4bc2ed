SPECIFICATION Spec
CONSTANTS
  Null = Null
  Calls = {c1, c2}
  Limit = 3
  MaxCodes = 5
  MaxFaults = 1
SYMMETRY CallSymmetry
CHECK_DEADLOCK FALSE
INVARIANTS
  TypeOK
  MailsBounded
  LockoutEnds
  UsedCodesRefused
