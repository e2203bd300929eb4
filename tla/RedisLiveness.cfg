CONSTANTS
  c1 = c1
  c2 = c2
  t1 = t1
  t2 = t2
  t3 = t3
  Consumers = {c1, c2}
  Lanes = {t1, t2}
  Home <- HomeOneLane
  MaxMessages = 1
  MaxFaults = 1
SPECIFICATION FairSpec
PROPERTIES EventuallySettled StopEnds
CHECK_DEADLOCK FALSE
