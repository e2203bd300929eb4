CONSTANTS
  c1 = c1
  c2 = c2
  t1 = t1
  t2 = t2
  t3 = t3
  p1 = p1
  Consumers = {c1, c2}
  Lanes = {t1, t2, t3}
  Home <- HomeThreeLanes
  Partitions = {p1}
  PartitionOf <- OnePartition
  MaxMessages = 2
  MaxFaults = 1
SPECIFICATION Spec
INVARIANTS IdleRebalanceHarmless PartitionOrder
PROPERTIES CommitsAdvance DeliversAtLeastOnce
SYMMETRY SwapLanes
CHECK_DEADLOCK FALSE
ACTION_CONSTRAINT StopOrFault
