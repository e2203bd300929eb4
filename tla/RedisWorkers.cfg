CONSTANTS
  c1 = c1
  c2 = c2
  t1 = t1
  t2 = t2
  t3 = t3
  Consumers = {c1, c2}
  Lanes = {t1, t2, t3}
  Home <- HomeThreeLanes
  MaxMessages = 2
  MaxFaults = 1
SYMMETRY SwapLanes
SPECIFICATION Spec
INVARIANTS NoSpuriousFailure OneLanePerMessage RunByOneWorker
PROPERTIES NoRerunOfRecordedFailure DeliversAtLeastOnce
ACTION_CONSTRAINT StopOnlyFirst
CHECK_DEADLOCK FALSE
