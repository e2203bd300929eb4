CONSTANTS
  c1 = c1
  c2 = c2
  t1 = t1
  t2 = t2
  t3 = t3
  p1 = p1
  Consumers = {c1, c2}
  Lanes = {t1, t2}
  Home <- HomeOneLane
  Partitions = {p1}
  PartitionOf <- OnePartition
  MaxMessages = 2
  MaxFaults = 1
SPECIFICATION FairSpec
PROPERTIES EventuallySettled
ACTION_CONSTRAINT NoStop
CHECK_DEADLOCK FALSE
