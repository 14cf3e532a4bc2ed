SPECIFICATION Spec
CONSTANTS
  Null = Null
  Clients = {k1, k2}
  Calls = {c1, c2}
  MaxTokens = 3
  MaxFaults = 1
SYMMETRY Symmetry
INVARIANTS
  TypeOK
  CurrentTokenUsable
  RetiredTokensRefused
CHECK_DEADLOCK FALSE
