----------------------------- MODULE RateLimit ------------------------------
(***************************************************************************)
(* The shared fixed-window quota: RedisFixedWindowLimiter                  *)
(* (infrastructure/rate_limit/redis.py) and the script it runs in Redis    *)
(* (scripts/acquire_window.lua).  Time is counted in ticks of Redis'       *)
(* clock, a second being TicksPerSecond of them; a key is there as long as *)
(* its expiry has not come.  HttpServer EXTENDS this module.               *)
(***************************************************************************)
EXTENDS Naturals, FiniteSetsExt

CONSTANTS
  Clients,         \* client identities
  MaxRequests,     \* max_requests
  WindowTicks,     \* window_seconds, in ticks
  TicksPerSecond,
  MaxTime          \* bound: ticks of the clock

(* RateLimitSettings: both settings are positive.                          *)
ASSUME LimitAssumption == /\ MaxRequests \in Nat \ {0} /\ WindowTicks \in Nat \ {0}
                          /\ TicksPerSecond \in Nat \ {0} /\ MaxTime \in Nat

VARIABLES
  now,        \* the clock
  quota,      \* quota[c]: the counter of c's key
  expiry,     \* expiry[c]: when that key expires
  windows,    \* windows[c]: history: windows opened so far
  granted     \* granted[c]: history: admissions in the current window

limitVars == <<now, quota, expiry, windows, granted>>

LimitInit ==
  /\ now = 0
  /\ quota = [c \in Clients |-> 0]
  /\ expiry = [c \in Clients |-> 0]
  /\ windows = [c \in Clients |-> 0]
  /\ granted = [c \in Clients |-> 0]

ClockTick == now < MaxTime /\ now' = now + 1
             /\ UNCHANGED <<quota, expiry, windows, granted>>

(* The reply of the script: [allowed, ttl].                                *)
KeyExists(c) == now < expiry[c]
Reply(c) ==
  IF ~KeyExists(c) \/ quota[c] < MaxRequests
  THEN [allowed |-> TRUE, ttl |-> 0]
  ELSE [allowed |-> FALSE, ttl |-> expiry[c] - now]

(* acquire_window.lua: the first admission opens the window, the others    *)
(* count, and a refusal changes nothing.                                   *)
AcquireWindow(c) ==
  \/ /\ ~KeyExists(c)
     /\ quota' = [quota EXCEPT ![c] = 1]
     /\ expiry' = [expiry EXCEPT ![c] = now + WindowTicks]
     /\ windows' = [windows EXCEPT ![c] = @ + 1]
     /\ granted' = [granted EXCEPT ![c] = 1]
  \/ /\ KeyExists(c) /\ quota[c] < MaxRequests
     /\ quota' = [quota EXCEPT ![c] = @ + 1]
     /\ granted' = [granted EXCEPT ![c] = @ + 1]
     /\ UNCHANGED <<expiry, windows>>
  \/ /\ KeyExists(c) /\ quota[c] >= MaxRequests
     /\ UNCHANGED <<quota, expiry, windows, granted>>

(* Mutant: the rest of a second is cut off.                                *)
RetryAfterFloor(ttl) == Max({1, ttl \div TicksPerSecond})

(* acquire(): Retry-After in whole seconds, at least one.                  *)
RetryAfter(ttl) == Max({1, (ttl + TicksPerSecond - 1) \div TicksPerSecond})
=============================================================================
