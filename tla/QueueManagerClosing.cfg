CONSTANTS
  t1 = t1
  t2 = t2
  t3 = t3
  h1 = h1
  Tasks = {t1, t2}
  Handles = {h1}
  MaxMade = 2
SYMMETRY Interchangeable
SPECIFICATION Spec
INVARIANTS ConsumersCloseFirst
CHECK_DEADLOCK FALSE
