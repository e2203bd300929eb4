CONSTANTS
  c1 = c1
  c2 = c2
  t1 = t1
  t2 = t2
  Consumers = {c1, c2}
  Lanes = {t1, t2}
  Home <- HomeOneLane
  MaxMessages = 2
  MaxFaults = 1
SPECIFICATION FairSpec
INVARIANTS NoneHeldBack
PROPERTIES NoRerunOfRecordedFailure DeliversAtLeastOnce EventuallySettled LostWorkerEnds
ACTION_CONSTRAINT StopOnlyFirst
CHECK_DEADLOCK FALSE
