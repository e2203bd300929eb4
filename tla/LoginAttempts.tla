--------------------------- MODULE LoginAttempts ---------------------------
(***************************************************************************)
(* The login-failure counter in Redis under concurrent logins of one user  *)
(* name: RedisLoginAttemptLimiter                                          *)
(* (contexts/user/infrastructure/security/redis_login_attempts.py), its    *)
(* two Lua scripts, and the calls login() makes of it.  Every command and  *)
(* every script is one atomic step of Redis; between two of them other     *)
(* requests run and time passes.                                           *)
(*                                                                         *)
(* Names do not share counters, so that one name is enough.  Whether the   *)
(* credentials are right is a free choice.                                 *)
(***************************************************************************)
EXTENDS Naturals, FiniteSets

CONSTANTS Requests,       \* concurrent login requests
          MaxFailures,    \* max_failures
          FailureWindow,  \* failure_window_seconds, in ticks
          LockTime        \* lock_seconds, in ticks

ASSUME FiniteRequests == IsFiniteSet(Requests)
ASSUME PositiveSettings ==          \* RedisLoginAttemptLimiter.__post_init__
  /\ MaxFailures \in Nat \ {0}
  /\ FailureWindow \in Nat \ {0}
  /\ LockTime \in Nat \ {0}

VARIABLES
  count,   \* the counter; 0 when the key does not exist
  ttl,     \* ticks until the key expires; 0 for a key without expiry
  lpc       \* lpc[r]: the command request r is about to send

loginVars == <<count, ttl, lpc>>

(*   get      retry_after: GET           ttl     retry_after: TTL          *)
(*   verify   hashing and the database   incr    record_failure: INCR      *)
(*   expire   record_failure: EXPIRE     clear   clear: delete_below       *)
LoginPcs == {"idle", "get", "ttl", "verify", "incr", "expire", "clear"}

LoginTypeOK == count \in Nat /\ ttl \in Nat /\ lpc \in [Requests -> LoginPcs]

LoginInit == count = 0 /\ ttl = 0 /\ lpc = [r \in Requests |-> "idle"]

LoginGoto(r, from, to) == lpc[r] = from /\ lpc' = [lpc EXCEPT ![r] = to]

Locked == count >= MaxFailures

-----------------------------------------------------------------------------
Begin(r) == LoginGoto(r, "idle", "get") /\ UNCHANGED <<count, ttl>>

(* retry_after: GET; below the threshold the login goes on.                *)
RetryAfterGet(r) ==
  /\ LoginGoto(r, "get", IF Locked THEN "ttl" ELSE "verify")
  /\ UNCHANGED <<count, ttl>>

(* Mutant: an attempt during the lock starts it anew.                      *)
RetryAfterSliding(r) ==
  /\ LoginGoto(r, "ttl", IF count = 0 THEN "verify" ELSE "idle")
  /\ ttl' = IF count = 0 THEN ttl ELSE LockTime
  /\ UNCHANGED count

(* retry_after: TTL.  The key may have expired since, and then the login   *)
(* goes on; otherwise it is refused.                                       *)
RetryAfterTtl(r) ==
  /\ LoginGoto(r, "ttl", IF count = 0 THEN "verify" ELSE "idle")
  /\ UNCHANGED <<count, ttl>>

(* login: the snapshot and the password are read and compared.             *)
Verify(r) ==
  /\ LoginGoto(r, "verify", "clear") \/ LoginGoto(r, "verify", "incr")
  /\ UNCHANGED <<count, ttl>>

(* record_failure: increment_with_ttl.lua.                                 *)
Increment(r) ==
  /\ count' = count + 1
  /\ ttl' = IF count = 0 THEN FailureWindow ELSE ttl
  /\ LoginGoto(r, "incr", IF count + 1 >= MaxFailures THEN "expire" ELSE "idle")

(* record_failure: EXPIRE of the key; it reports an error when the key has *)
(* expired since.                                                          *)
ExtendLock(r) ==
  /\ LoginGoto(r, "expire", "idle")
  /\ ttl' = IF count = 0 THEN ttl ELSE LockTime
  /\ UNCHANGED count

(* Mutant: the counter is deleted whatever its value.                      *)
ClearAlways(r) ==
  /\ LoginGoto(r, "clear", "idle")
  /\ count' = 0 /\ ttl' = 0

(* clear: delete_below.lua.                                                *)
Clear(r) ==
  /\ LoginGoto(r, "clear", "idle")
  /\ count' = IF Locked THEN count ELSE 0
  /\ ttl' = IF Locked THEN ttl ELSE 0

(* A command fails, before or after Redis executed it, the database fails, *)
(* or the request is cancelled.                                            *)
Fail(r) ==
  /\ lpc[r] # "idle"
  /\ lpc' = [lpc EXCEPT ![r] = "idle"]
  /\ UNCHANGED <<count, ttl>>

(* Time passes in Redis.                                                   *)
RedisTick ==
  /\ ttl > 0
  /\ ttl' = ttl - 1
  /\ count' = IF ttl = 1 THEN 0 ELSE count
  /\ UNCHANGED lpc

LoginNext ==
  \/ RedisTick
  \/ \E r \in Requests :
       \/ Begin(r) \/ RetryAfterGet(r) \/ RetryAfterTtl(r) \/ Verify(r)
       \/ Increment(r) \/ ExtendLock(r) \/ Clear(r) \/ Fail(r)

LoginSpec == LoginInit /\ [][LoginNext]_loginVars

(* Only Redis's clock is needed: requests may stop anywhere.               *)
LoginFairSpec == LoginSpec /\ WF_loginVars(RedisTick)

-----------------------------------------------------------------------------
(* Properties.                                                             *)

(* The counter always expires: no interleaving of increments, extensions   *)
(* and expiries leaves a key without a TTL, which would lock a user out    *)
(* for good ("登录失败计数缺少过期时间" in retry_after).                    *)
CounterExpires == count > 0 <=> ttl > 0

(* Requests that have passed the check of the lock and may still fail.     *)
Passed == {r \in Requests : lpc[r] \in {"verify", "incr"}}

(* Concurrency does not defeat the limit: until the counter expires or a   *)
(* login succeeds, no more than MaxFailures - 1 + |Requests| failures can  *)
(* be counted, however the requests interleave, because each of them has   *)
(* looked at the counter below the threshold.                              *)
FailuresBounded == count + Cardinality(Passed) < MaxFailures + Cardinality(Requests)

(* A lock ends by expiry only: a successful login whose check was made     *)
(* before the lock does not remove it.                                     *)
LockSurvivesSuccess == [][Locked /\ count' < MaxFailures => ttl = 1]_loginVars

(* A lock always ends, however many logins are attempted meanwhile: an     *)
(* attempt during the lock does not extend it.                             *)
LockEnds == Locked ~> ~Locked
=============================================================================
