CONSTANTS
  u1 = u1
  u2 = u2
  n1 = n1
  n2 = n2
  r1 = r1
  r2 = r2
  Users = {u1, u2}
  Names = {n1, n2}
  Requests = {r1, r2}
  MaxHashes = 3
  MaxVersion = 3
  MaxTokens = 1
SYMMETRY Interchangeable
SPECIFICATION Spec
INVARIANTS UniqueNames RevokedUnlessRacing
PROPERTIES NoLostUpdate
CHECK_DEADLOCK FALSE
