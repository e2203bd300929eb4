CONSTANTS
  t1 = t1
  t2 = t2
  t3 = t3
  h1 = h1
  s1 = s1
  s2 = s2
  s3 = s3
  Tasks = {t1, t2, t3}
  Handles = {h1}
  MaxMade = 2
  Schedules = {s1, s2, s3}
  Immediate = {s1, s2}
  Coalesced = {s1}
  MaxStartup = 1
  MaxTicks = 2
  MaxCancels = 2
  Requests = {r1, r2, r3}
  MaxFailures = 3
  FailureWindow = 2
  LockTime = 3
SPECIFICATION ServicesSpec
INVARIANTS BlockHasItsBackend DispatchesHaveQueues OneDispatchPerSchedule
PROPERTIES NothingEscapes ConsumersEventuallyClosed StopReleasesEverything LockSurvivesSuccess LockEnds
CHECK_DEADLOCK FALSE
