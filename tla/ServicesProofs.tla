--------------------------- MODULE ServicesProofs ---------------------------
(***************************************************************************)
(* Proofs about two services of a process: the login-failure counter, for  *)
(* any number of requests and any positive settings, and the host with its *)
(* container and scheduler engine, for any set of schedules.               *)
(***************************************************************************)
EXTENDS LoginAttempts, Hosts, FiniteSetTheorems, TLAPS

-----------------------------------------------------------------------------
(* The login-failure counter                                               *)

(* Type correctness of the counter, its expiry and the requests.           *)
THEOREM LoginTypeCorrect == LoginSpec => []LoginTypeOK
<1>1. LoginInit => LoginTypeOK
  BY DEF LoginInit, LoginTypeOK, LoginPcs
<1>2. LoginTypeOK /\ [LoginNext]_loginVars => LoginTypeOK'
  BY PositiveSettings DEF LoginTypeOK, LoginPcs, LoginNext, loginVars, Begin, RetryAfterGet,
    RetryAfterTtl,
     Verify, Increment, ExtendLock, Clear, Fail, RedisTick, LoginGoto, Locked
<1> QED
  BY <1>1, <1>2, PTL DEF LoginSpec

(* The counter exists exactly as long as it has an expiry: record_failure  *)
(* sets both in one script, and EXPIRE does nothing to a vanished key.     *)
THEOREM CounterAlwaysExpires == LoginSpec => []CounterExpires
<1>1. LoginInit => CounterExpires
  BY DEF LoginInit, CounterExpires
<1>2. LoginTypeOK /\ CounterExpires /\ [LoginNext]_loginVars => CounterExpires'
  BY PositiveSettings DEF LoginTypeOK, CounterExpires, LoginPcs, LoginNext, loginVars, Begin,
    RetryAfterGet,
     RetryAfterTtl, Verify, Increment, ExtendLock, Clear, Fail, RedisTick, LoginGoto, Locked
<1> QED
  BY <1>1, <1>2, LoginTypeCorrect, PTL DEF LoginSpec

(* Only expiry ends a lock: delete_below.lua leaves a counter at the       *)
(* threshold alone, whatever the login had seen before.                    *)
THEOREM LocksSurviveSuccess == LoginSpec => LockSurvivesSuccess
<1>1. LoginTypeOK /\ [LoginNext]_loginVars => [Locked /\ count' < MaxFailures => ttl = 1]_loginVars
  BY PositiveSettings DEF LoginTypeOK, LoginPcs, LoginNext, loginVars, Begin, RetryAfterGet,
     RetryAfterTtl, Verify, Increment, ExtendLock, Clear, Fail, RedisTick, LoginGoto, Locked
<1> QED
  BY <1>1, LoginTypeCorrect, PTL DEF LoginSpec, LockSurvivesSuccess

(* Cardinalities of sets of requests.                                      *)
LEMMA RequestSets ==
  ASSUME NEW S \in SUBSET Requests, NEW T \in SUBSET Requests
  PROVE  /\ Cardinality(S) \in Nat /\ Cardinality(T) \in Nat
         /\ Cardinality(Requests) \in Nat
         /\ Cardinality(T) <= Cardinality(Requests)
         /\ T \subseteq S => Cardinality(T) <= Cardinality(S)
         /\ \A r \in S : T = S \ {r} => Cardinality(T) = Cardinality(S) - 1
<1>1. /\ IsFiniteSet(S) /\ IsFiniteSet(T)
      /\ Cardinality(T) <= Cardinality(Requests)
  BY FiniteRequests, FS_Subset
<1>2. Cardinality(S) \in Nat /\ Cardinality(T) \in Nat /\ Cardinality(Requests) \in Nat
  BY <1>1, FiniteRequests, FS_CardinalityType
<1>3. T \subseteq S => Cardinality(T) <= Cardinality(S)
  BY <1>1, FS_Subset
<1>4. ASSUME NEW r \in S, T = S \ {r} PROVE Cardinality(T) = Cardinality(S) - 1
  BY <1>1, <1>4, FS_RemoveElement
<1> QED
  BY <1>1, <1>2, <1>3, <1>4

(* Fewer than MaxFailures + |Requests| failures are counted before the     *)
(* counter goes, however many logins run at once: a request adds its       *)
(* failure only after it has seen the counter below the threshold.         *)
THEOREM FailuresAreBounded == LoginSpec => []FailuresBounded
<1>1. LoginInit => FailuresBounded
  <2> SUFFICES ASSUME LoginInit PROVE FailuresBounded
    OBVIOUS
  <2>1. Passed = {}
    BY DEF LoginInit, Passed
  <2>2. Cardinality(Passed) = 0 /\ Cardinality(Requests) \in Nat
    BY <2>1, FS_EmptySet, FS_CardinalityType, FiniteRequests
  <2> QED
    BY <2>2, PositiveSettings DEF LoginInit, FailuresBounded
<1>2. LoginTypeOK /\ FailuresBounded /\ [LoginNext]_loginVars => FailuresBounded'
  <2> SUFFICES ASSUME LoginTypeOK, FailuresBounded, [LoginNext]_loginVars PROVE FailuresBounded'
    OBVIOUS
  <2>1. Passed \in SUBSET Requests /\ Passed' \in SUBSET Requests
    BY DEF Passed
  <2>2. /\ Cardinality(Passed) \in Nat /\ Cardinality(Passed') \in Nat
        /\ Cardinality(Requests) \in Nat
        /\ Cardinality(Passed') <= Cardinality(Requests)
        /\ Passed' \subseteq Passed => Cardinality(Passed') <= Cardinality(Passed)
        /\ \A r \in Passed : Passed' = Passed \ {r} =>
              Cardinality(Passed') = Cardinality(Passed) - 1
    BY <2>1, RequestSets
  (* Nothing is counted and nobody passes; ... *)
  <2>3. CASE count' <= count /\ count' \in Nat /\ Passed' \subseteq Passed
    BY <2>2, <2>3, PositiveSettings DEF FailuresBounded, LoginTypeOK
  (* ... somebody passes, but then the counter is below the threshold; ... *)
  <2>4. CASE count' = count /\ count < MaxFailures
    BY <2>2, <2>4, PositiveSettings DEF FailuresBounded, LoginTypeOK
  (* ... or a request that had passed is counted. *)
  <2>5. ASSUME NEW r \in Passed, count' = count + 1, Passed' = Passed \ {r}
        PROVE  FailuresBounded'
    <3>1. Cardinality(Passed') = Cardinality(Passed) - 1
      BY <2>2, <2>5, Zenon
    <3> QED
      BY <2>2, <2>5, <3>1, PositiveSettings DEF FailuresBounded, LoginTypeOK
  <2>6. ASSUME NEW r \in Requests, Begin(r) PROVE FailuresBounded'
    BY <2>3, <2>6 DEF Begin, LoginGoto, Passed, LoginTypeOK
  <2>7. ASSUME NEW r \in Requests, RetryAfterGet(r) PROVE FailuresBounded'
    <3>1. CASE Locked
      BY <2>3, <2>7, <3>1 DEF RetryAfterGet, LoginGoto, Passed, LoginTypeOK
    <3>2. CASE ~Locked
      BY <2>4, <2>7, <3>2, PositiveSettings DEF RetryAfterGet, Locked, LoginTypeOK
    <3> QED
      BY <3>1, <3>2
  <2>8. ASSUME NEW r \in Requests, RetryAfterTtl(r) PROVE FailuresBounded'
    <3>1. CASE count # 0
      BY <2>3, <2>8, <3>1 DEF RetryAfterTtl, LoginGoto, Passed, LoginTypeOK
    <3>2. CASE count = 0
      BY <2>4, <2>8, <3>2, PositiveSettings DEF RetryAfterTtl, LoginTypeOK
    <3> QED
      BY <3>1, <3>2
  <2>9. ASSUME NEW r \in Requests, Verify(r) PROVE FailuresBounded'
    BY <2>3, <2>9 DEF Verify, LoginGoto, Passed, LoginTypeOK
  <2>10. ASSUME NEW r \in Requests, Increment(r) PROVE FailuresBounded'
    <3>1. r \in Passed /\ count' = count + 1
      BY <2>10 DEF Increment, LoginGoto, Passed
    <3>2. Passed' = Passed \ {r}
      BY <2>10 DEF Increment, LoginGoto, Passed, LoginTypeOK
    <3> QED
      BY <2>5, <3>1, <3>2
  <2>11. ASSUME NEW r \in Requests, ExtendLock(r) \/ Clear(r) \/ Fail(r)
         PROVE  FailuresBounded'
    BY <2>3, <2>11 DEF ExtendLock, Clear, Fail, LoginGoto, Passed, LoginTypeOK, Locked
  <2>12. CASE RedisTick \/ UNCHANGED loginVars
    BY <2>3, <2>12 DEF RedisTick, loginVars, Passed, LoginTypeOK
  <2> QED
    BY <2>6, <2>7, <2>8, <2>9, <2>10, <2>11, <2>12 DEF LoginNext
<1> QED
  BY <1>1, <1>2, LoginTypeCorrect, PTL DEF LoginSpec

-----------------------------------------------------------------------------
(* The host and the scheduler engine                                       *)

(* Where the engine is when the host's task is at each of its awaits.  A   *)
(* schedule is with APScheduler or in its initial dispatch, not in both.   *)
EngineTypeOK ==
  /\ initial \in [Schedules -> {"none", "dispatch", "cancelling", "done", "failed"}]
  /\ runs \in [Schedules -> Nat]
  /\ jobs \in SUBSET Schedules

NotStarted == apState = "none" /\ jobs = {} /\ (\A s \in Schedules : initial[s] = "none")

Handover ==
  /\ \A s \in Schedules : Dispatching(s) => s \notin jobs
  /\ \A s \in Schedules : runs[s] > 0 => s \in jobs
  /\ apState = "none" => NotStarted

NoInitial == \A s \in Schedules : ~Dispatching(s)

Ended == {"close", "closing", "callback", "done"}

EnginePlace ==
  /\ apState \in {"none", "running", "paused", "down"}
  /\ cutShort \in {"no", "gather", "drain"}
  /\ hostKind # "scheduler" \/ hostPc \in {"build", "startup", "engine"} => apState = "none"
  /\ hostPc \in {"engine", "initial", "closeEngine"} => hostKind = "scheduler"
  /\ apState = "running" => hostPc \in {"initial", "work", "closeEngine"}
  /\ hostPc \in {"initial", "work", "closeEngine"} => apState \in {"none", "running"}
  /\ hostPc \in {"gather", "drain", "shutdown"} => apState = "paused"
  /\ hostPc \notin {"gather", "drain", "shutdown"} \cup Ended => cutShort = "no"
  /\ hostPc = "gather" => cutShort \in {"no", "gather"}
  /\ hostPc = "drain" => NoInitial /\ cutShort \in {"no", "drain"}
  /\ hostPc = "shutdown" => NoInitial /\ Drained
  /\ hostPc \in Ended => NoInitial /\ (Drained \/ cutShort = "gather")
  /\ begun # {} => hostPc \in Ended

HostInv == EngineTypeOK /\ Handover /\ EnginePlace

(* A step that leaves the engine alone keeps the schedules where they are. *)
LEMMA EngineUntouched ==
  ASSUME EngineTypeOK, Handover, UNCHANGED engineState
  PROVE  /\ EngineTypeOK' /\ Handover' /\ (NoInitial' <=> NoInitial) /\ (Drained' <=> Drained)
         /\ UNCHANGED <<apState, cutShort>>
  BY DEF EngineTypeOK, Handover, NotStarted, NoInitial, Drained, Dispatching, engineState

(* HostInv is inductive: one case for each step of the host and the engine.*)
LEMMA HostStepInv == HostInv /\ [HostNext]_hostVars => HostInv'
<1> SUFFICES ASSUME HostInv, [HostNext]_hostVars PROVE HostInv'
  OBVIOUS
<1>0. EngineTypeOK /\ Handover /\ EnginePlace
  BY DEF HostInv
<1>00. apState = "none" => NoInitial /\ Drained
  BY <1>0 DEF EngineTypeOK, Handover, NotStarted, NoInitial, Drained, Dispatching
<1>1. CASE RuntimeBuild
  <2>1. UNCHANGED engineState
    BY <1>1 DEF RuntimeBuild
  <2>2. EnginePlace'
    BY <1>0, <1>00, <1>1, <2>1, EngineUntouched DEF EnginePlace, Ended, RuntimeBuild
  <2> QED
    BY <1>0, <2>1, <2>2, EngineUntouched DEF HostInv
<1>2. CASE ContainerStart
  <2>1. UNCHANGED engineState
    BY <1>2 DEF ContainerStart, StartupFails
  <2>2. EnginePlace'
    BY <1>0, <1>00, <1>2, <2>1, EngineUntouched DEF EnginePlace, Ended, ContainerStart, StartupFails
  <2> QED
    BY <1>0, <2>1, <2>2, EngineUntouched DEF HostInv
<1>3. CASE RuntimeAclose
  <2>1. UNCHANGED engineState
    BY <1>3 DEF RuntimeAclose
  <2>2. EnginePlace'
    BY <1>0, <1>00, <1>3, <2>1, EngineUntouched DEF EnginePlace, Ended, RuntimeAclose
  <2> QED
    BY <1>0, <2>1, <2>2, EngineUntouched DEF HostInv
<1>4. CASE CallbackBegin
  <2>1. UNCHANGED engineState
    BY <1>4 DEF CallbackBegin
  <2>2. EnginePlace'
    BY <1>0, <1>00, <1>4, <2>1, EngineUntouched DEF EnginePlace, Ended, CallbackBegin
  <2> QED
    BY <1>0, <2>1, <2>2, EngineUntouched DEF HostInv
<1>5. CASE CallbackEnd
  <2>1. UNCHANGED engineState
    BY <1>5 DEF CallbackEnd
  <2>2. EnginePlace'
    BY <1>0, <1>00, <1>5, <2>1, EngineUntouched DEF EnginePlace, Ended, CallbackEnd
  <2> QED
    BY <1>0, <2>1, <2>2, EngineUntouched DEF HostInv
<1>6. CASE LifespanServe
  <2>1. UNCHANGED engineState
    BY <1>6 DEF LifespanServe
  <2>2. EnginePlace'
    BY <1>0, <1>00, <1>6, <2>1, EngineUntouched DEF EnginePlace, Ended, LifespanServe
  <2> QED
    BY <1>0, <2>1, <2>2, EngineUntouched DEF HostInv
<1>7. CASE WorkerServe
  <2>1. UNCHANGED engineState
    BY <1>7 DEF WorkerServe
  <2>2. EnginePlace'
    BY <1>0, <1>00, <1>7, <2>1, EngineUntouched DEF EnginePlace, Ended, WorkerServe
  <2> QED
    BY <1>0, <2>1, <2>2, EngineUntouched DEF HostInv
<1>8. CASE ConsoleRun
  <2>1. UNCHANGED engineState
    BY <1>8 DEF ConsoleRun
  <2>2. EnginePlace'
    BY <1>0, <1>00, <1>8, <2>1, EngineUntouched DEF EnginePlace, Ended, ConsoleRun
  <2> QED
    BY <1>0, <2>1, <2>2, EngineUntouched DEF HostInv
<1>9. CASE SchedulerDiscover
  <2>1. UNCHANGED engineState
    BY <1>9 DEF SchedulerDiscover
  <2>2. EnginePlace'
    BY <1>0, <1>00, <1>9, <2>1, EngineUntouched DEF EnginePlace, Ended, SchedulerDiscover
  <2> QED
    BY <1>0, <2>1, <2>2, EngineUntouched DEF HostInv
<1>10. CASE WorkEnds
  <2>1. UNCHANGED engineState
    BY <1>10 DEF WorkEnds, Closing
  <2>2. EnginePlace'
    BY <1>0, <1>00, <1>10, <2>1, EngineUntouched DEF EnginePlace, Ended, WorkEnds, Closing
  <2> QED
    BY <1>0, <2>1, <2>2, EngineUntouched DEF HostInv
<1>11. CASE HostEnd
  <2>1. UNCHANGED engineState
    BY <1>11 DEF HostEnd
  <2>2. EnginePlace'
    BY <1>0, <1>00, <1>11, <2>1, EngineUntouched DEF EnginePlace, Ended, HostEnd
  <2> QED
    BY <1>0, <2>1, <2>2, EngineUntouched DEF HostInv
<1>12. CASE EngineStartFails
  <2>1. UNCHANGED engineState
    BY <1>12 DEF EngineStartFails
  <2>2. EnginePlace'
    BY <1>0, <1>00, <1>12, <2>1, EngineUntouched DEF EnginePlace, Ended, EngineStartFails
  <2> QED
    BY <1>0, <2>1, <2>2, EngineUntouched DEF HostInv
<1>13. CASE InitialGathered
  <2>1. UNCHANGED engineState
    BY <1>13 DEF InitialGathered
  <2>2. EnginePlace'
    BY <1>0, <1>00, <1>13, <2>1, EngineUntouched DEF EnginePlace, Ended, InitialGathered
  <2> QED
    BY <1>0, <2>1, <2>2, EngineUntouched DEF HostInv
<1>14. CASE EngineGathered
  <2>1. UNCHANGED engineState
    BY <1>14 DEF EngineGathered
  <2>2. EnginePlace'
    BY <1>0, <1>00, <1>14, <2>1, EngineUntouched DEF EnginePlace, Ended, EngineGathered, NoInitial
  <2> QED
    BY <1>0, <2>1, <2>2, EngineUntouched DEF HostInv
<1>15. CASE EngineDrained
  <2>1. UNCHANGED engineState
    BY <1>15 DEF EngineDrained
  <2>2. EnginePlace'
    BY <1>0, <1>00, <1>15, <2>1, EngineUntouched DEF EnginePlace, Ended, EngineDrained
  <2> QED
    BY <1>0, <2>1, <2>2, EngineUntouched DEF HostInv
<1>16. CASE Stop
  <2>1. UNCHANGED engineState
    BY <1>16 DEF Stop
  <2>2. EnginePlace'
    BY <1>0, <1>00, <1>16, <2>1, EngineUntouched DEF EnginePlace, Ended, Stop
  <2> QED
    BY <1>0, <2>1, <2>2, EngineUntouched DEF HostInv
<1>17. CASE EngineStart
  <2>1. /\ hostPc = "engine" /\ hostPc' = "initial" /\ apState' = "running" /\ jobs' = Schedules \ Immediate
        /\ initial' = [s \in Schedules |-> IF s \in Immediate THEN "dispatch" ELSE "none"]
        /\ UNCHANGED <<hostKind, begun, runs, cutShort>>
    BY <1>17 DEF EngineStart, RegisteredAtStart
  <2>2. EngineTypeOK'
    BY <1>0, <2>1 DEF EngineTypeOK
  <2>3. Handover'
    <3>1. \A s \in Schedules : runs'[s] = 0
      BY <1>0, <1>00, <2>1 DEF EnginePlace, Drained
    <3>2. \A s \in Schedules : Dispatching(s)' => s \in Immediate
      BY <2>1 DEF Dispatching
    <3> QED
      BY <2>1, <3>1, <3>2 DEF Handover
  <2>4. EnginePlace'
    BY <1>0, <2>1 DEF EnginePlace, Ended
  <2> QED
    BY <2>2, <2>3, <2>4 DEF HostInv
<1>18. ASSUME NEW s \in Schedules, InitialEnd(s) PROVE HostInv'
  <2>1. /\ Dispatching(s) /\ UNCHANGED <<hostState, apState, runs, cutShort>>
        /\ initial' = [initial EXCEPT ![s] = "done"] \/ initial' = [initial EXCEPT ![s] = "failed"]
        /\ jobs' \in {jobs, jobs \cup {s}}
    BY <1>18 DEF InitialEnd
  <2>2. EngineTypeOK'
    BY <1>0, <2>1 DEF EngineTypeOK
  <2>3. \A u \in Schedules : Dispatching(u)' => Dispatching(u) /\ u # s
    BY <1>0, <2>1 DEF EngineTypeOK, Dispatching
  <2>4. apState # "none"
    BY <1>00, <2>1 DEF NoInitial
  <2>5. Handover'
    BY <1>0, <2>1, <2>3, <2>4 DEF Handover
  <2>6. (NoInitial => NoInitial') /\ (Drained <=> Drained')
    BY <2>1, <2>3 DEF NoInitial, Drained
  <2>7. EnginePlace'
    BY <1>0, <2>1, <2>6 DEF EnginePlace, Ended, hostState
  <2> QED
    BY <2>2, <2>5, <2>7 DEF HostInv
<1>19. ASSUME NEW s \in Schedules, NEW due \in 0..2, Tick(s, due) PROVE HostInv'
  <2>1. /\ apState = "running" /\ s \in jobs /\ UNCHANGED <<hostState, apState, jobs, initial, cutShort>>
        /\ \A u \in Schedules \ {s} : runs'[u] = runs[u]
        /\ runs' \in [Schedules -> Nat]
    BY <1>0, <1>19 DEF Tick, EngineTypeOK
  <2>2. EngineTypeOK' /\ Handover'
    BY <1>0, <2>1 DEF EngineTypeOK, Handover, Dispatching
  <2>3. NoInitial' <=> NoInitial
    BY <2>1 DEF NoInitial, Dispatching
  <2>4. EnginePlace'
    BY <1>0, <2>1, <2>3 DEF EnginePlace, Ended, hostState
  <2> QED
    BY <2>2, <2>4 DEF HostInv
<1>20. ASSUME NEW s \in Schedules, RunEnd(s) PROVE HostInv'
  <2>1. /\ runs[s] > 0 /\ UNCHANGED <<hostState, apState, jobs, initial, cutShort>>
        /\ runs' \in [Schedules -> Nat] /\ \A u \in Schedules : runs'[u] <= runs[u]
    BY <1>0, <1>20 DEF RunEnd, EngineTypeOK
  <2>2. EngineTypeOK' /\ Handover'
    BY <1>0, <1>00, <2>1 DEF EngineTypeOK, Handover, NotStarted, Dispatching, Drained
  <2>3. (NoInitial' <=> NoInitial) /\ (Drained => Drained')
    BY <1>0, <2>1 DEF NoInitial, Dispatching, Drained, EngineTypeOK
  <2>4. EnginePlace'
    BY <1>0, <2>1, <2>3 DEF EnginePlace, Ended, hostState
  <2> QED
    BY <2>2, <2>4 DEF HostInv
<1>21. CASE EngineAclose
  <2>1. UNCHANGED <<jobs, initial, runs, cutShort>>
    BY <1>21 DEF EngineAclose
  <2>2. EngineTypeOK' /\ Handover' /\ (NoInitial' <=> NoInitial) /\ (Drained' <=> Drained)
    BY <1>0, <1>21, <2>1 DEF EngineTypeOK, Handover, NotStarted, NoInitial, Drained, Dispatching,
      EngineAclose
  <2>3. EnginePlace'
    BY <1>0, <1>00, <1>21, <2>1, <2>2 DEF EnginePlace, Ended, EngineAclose
  <2> QED
    BY <2>2, <2>3 DEF HostInv
<1>22. CASE EngineShutdown
  <2>1. UNCHANGED <<jobs, initial, runs, cutShort>>
    BY <1>22 DEF EngineShutdown
  <2>2. EngineTypeOK' /\ Handover' /\ (NoInitial' <=> NoInitial) /\ (Drained' <=> Drained)
    BY <1>0, <1>22, <2>1 DEF EngineTypeOK, Handover, NotStarted, NoInitial, Drained, Dispatching,
      EngineShutdown
  <2>3. EnginePlace'
    BY <1>0, <1>22, <2>1, <2>2 DEF EnginePlace, Ended, EngineShutdown
  <2> QED
    BY <2>2, <2>3 DEF HostInv
<1>23. CASE HostCancelled
  <2>1. /\ UNCHANGED <<hostKind, begun, jobs, runs>>
        /\ initial' = [s \in Schedules |-> IF hostPc = "gather" /\ initial[s] = "dispatch"
                                            THEN "cancelling" ELSE initial[s]]
        /\ apState' = IF hostPc = "shutdown" THEN "down" ELSE apState
        /\ hostPc \in {"work", "initial", "shutdown", "gather", "drain"}
        /\ hostPc' = IF hostPc \in {"work", "initial"} THEN Closing
                     ELSE IF hostPc = "shutdown" THEN "close" ELSE hostPc
        /\ cutShort' = IF hostPc \in {"gather", "drain"} THEN hostPc ELSE cutShort
    BY <1>23 DEF HostCancelled
  <2>2. EngineTypeOK' /\ \A s \in Schedules : Dispatching(s)' <=> Dispatching(s)
    BY <1>0, <2>1 DEF EngineTypeOK, Dispatching
  <2>3. Handover' /\ (NoInitial' <=> NoInitial) /\ (Drained' <=> Drained)
    BY <1>0, <2>1, <2>2 DEF Handover, NotStarted, NoInitial, Drained
  <2>4. EnginePlace'
    BY <1>0, <1>00, <2>1, <2>3 DEF EnginePlace, Ended, Closing
  <2> QED
    BY <2>2, <2>3, <2>4 DEF HostInv
<1>24. CASE UNCHANGED hostVars
  <2>1. UNCHANGED engineState /\ UNCHANGED hostState
    BY <1>24 DEF hostVars
  <2>2. EnginePlace'
    BY <1>0, <2>1, EngineUntouched DEF EnginePlace, Ended, hostState
  <2> QED
    BY <1>0, <2>1, <2>2, EngineUntouched DEF HostInv
<1> QED
  BY <1>1, <1>2, <1>3, <1>4, <1>5, <1>6, <1>7, <1>8, <1>9, <1>10, <1>11, <1>12, <1>13, <1>14,
     <1>15, <1>16, <1>17, <1>18, <1>19, <1>20, <1>21, <1>22, <1>23, <1>24
  DEF HostNext, HostStep

(* It holds before a host is built.                                        *)
LEMMA HostInitInv == HostInit => HostInv
  BY DEF HostInit, HostInv, EngineTypeOK, Handover, NotStarted, EnginePlace, Dispatching, Ended

(* No dispatch is under way once the queues begin to close, whichever step *)
(* of the start or the end failed or was cancelled: for any schedules,     *)
(* DispatchesHaveQueues.                                                   *)
THEOREM DispatchesKeepTheirQueues == HostSpec => []DispatchesHaveQueues
<1>1. HostInv => DispatchesHaveQueues
  <2> SUFFICES ASSUME HostInv, "queues" \in begun
               PROVE  apState # "running" /\ \A s \in Schedules : ~Dispatching(s) /\ (runs[s] > 0 => cutShort = "gather")
    BY DEF DispatchesHaveQueues
  <2>1. hostPc \in Ended
    BY DEF HostInv, EnginePlace
  <2> QED
    BY <2>1 DEF HostInv, EngineTypeOK, EnginePlace, NoInitial, Drained, Ended
<1> QED
  BY <1>1, HostInitInv, HostStepInv, PTL DEF HostSpec

(* The dispatches of one schedule do not overlap: OneDispatchPerSchedule,  *)
(* for any schedules.                                                      *)
THEOREM SchedulesDispatchOnce == HostSpec => []OneDispatchPerSchedule
<1>1. HostInv => OneDispatchPerSchedule
  BY DEF HostInv, Handover, OneDispatchPerSchedule
<1> QED
  BY <1>1, HostInitInv, HostStepInv, PTL DEF HostSpec
=============================================================================
