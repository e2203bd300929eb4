CONSTANTS
  q1 = q1
  q2 = q2
  c1 = c1
  u1 = u1
  u2 = u2
  a1 = a1
  a2 = a2
  Requests = {q1, q2}
  Clients = {c1}
  ClientOf <- SameClient
  MaxEvents = 1
  MaxRequests = 1
  WindowTicks = 3
  TicksPerSecond = 2
  MaxTime = 4
  UserCalls = {u1, u2}
  Callers = {a1, a2}
  PoolLimit = 1
  WarningAt = 2
  MaxBytes = 1
  MaxCalls = 3
SPECIFICATION HttpSumSpec
INVARIANTS AnsweredOnce StreamsEnd WindowHonest CallsAccounted AnswersTellTheTruth
SYMMETRY Interchangeable
CHECK_DEADLOCK FALSE
