CONSTANTS
  u1 = u1
  u2 = u2
  n1 = n1
  n2 = n2
  r1 = r1
  r2 = r2
  Users = {u1}
  Names = {n1}
  Requests = {r1, r2}
  MaxHashes = 3
  MaxVersion = 3
  MaxTokens = 2
SYMMETRY Interchangeable
SPECIFICATION Spec
PROPERTIES ReEnableRestoresNothing
CHECK_DEADLOCK FALSE
