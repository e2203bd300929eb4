CONSTANTS
  c1 = c1
  c2 = c2
  t1 = t1
  t2 = t2
  t3 = t3
  Consumers = {c1}
  Lanes = {t1, t2}
  Home <- HomeTwoLanes
  MaxMessages = 3
  MaxFaults = 1
SPECIFICATION Spec
PROPERTIES FailedWorkerTakesNoMore
CHECK_DEADLOCK FALSE
