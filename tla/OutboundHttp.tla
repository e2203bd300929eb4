---------------------------- MODULE OutboundHttp ----------------------------
(***************************************************************************)
(* Outbound HTTP calls: HttpClientManager, ManagedHttpClient and the       *)
(* httpx2 driver (infrastructure/http/).  Calls of any number of tasks     *)
(* share one driver with two pools, one for buffered requests and one for  *)
(* streams; the manager may be closed while calls are under way.           *)
(*                                                                         *)
(* A step is the code of one task between two awaits.  httpx2 is external: *)
(* it gives a call one of the pool's connections or lets it time out, and  *)
(* closing a client takes the connections of its calls away.               *)
(***************************************************************************)
EXTENDS Naturals, Sequences, FiniteSets, FiniteSetsExt

CONSTANTS
  Callers,      \* tasks that make calls
  PoolLimit,    \* max_connections of either pool
  WarningAt,    \* HttpPoolRuntime.warning_at
  MaxBytes,     \* max_response_bytes, in chunks
  MaxCalls      \* bound: calls made

ASSUME CallersAssumption == IsFiniteSet(Callers)

PoolNames == {"standard", "stream"}

VARIABLES
  callPc,      \* callPc[t]: the await at which the call of t is
  callPool,    \* callPool[t]: the pool of the call: stream() or request()
  ending,      \* ending[t]: what the call is about to return or raise
  got,         \* got[t]: chunks of the response buffered so far
  conns,       \* tasks that hold a connection (external)
  active,      \* HttpPoolRuntime.active of each pool
  counted,     \* HttpPoolRuntime.cancelled and pool_timeout of each pool
  events,      \* events[t]: what has been logged of the call of t
  calls,       \* calls made so far
  driver,      \* AsyncLazy of the manager: none, open or sealed
  openClients, \* httpx2 clients that are not closed
  closerPc     \* the task that closes the manager

outVars == <<callPc, callPool, ending, got, conns, active, counted, events, calls,
             driver, openClients, closerPc>>

OutInit ==
  /\ callPc = [t \in Callers |-> "idle"]
  /\ callPool = [t \in Callers |-> "standard"]
  /\ ending = [t \in Callers |-> "none"]
  /\ got = [t \in Callers |-> 0]
  /\ conns = {} /\ calls = 0
  /\ active = [k \in PoolNames |-> 0]
  /\ counted = [k \in PoolNames |-> [cancelled |-> 0, pool_timeout |-> 0]]
  /\ events = [t \in Callers |-> <<>>]
  /\ driver = "none" /\ openClients = {} /\ closerPc = "idle"

OutGoto(t, where) == callPc' = [callPc EXCEPT ![t] = where]

Log(t, event) == Append(events[t], event)

-----------------------------------------------------------------------------
(* The pools' counters                                                     *)

(* acquire(): counted in, with a warning when this call crosses the line.  *)
Acquire(k) == active' = [active EXCEPT ![k] = @ + 1]
Crosses(k) == active[k] < WarningAt /\ active[k] + 1 >= WarningAt

(* release()                                                               *)
Release(k) == active' = [active EXCEPT ![k] = Max({0, @ - 1})]

-----------------------------------------------------------------------------
(* HttpClientManager                                                       *)

(* get(): the driver is created by the first call, refused once sealed     *)
(* (the factory does not await).  open_httpx2_stream then counts the call  *)
(* in and awaits the response.                                             *)
Call(t, k) ==
  /\ callPc[t] = "idle" /\ driver # "sealed" /\ calls < MaxCalls
  /\ calls' = calls + 1
  /\ driver' = "open"
  /\ openClients' = IF driver = "none" THEN PoolNames ELSE openClients
  /\ callPool' = [callPool EXCEPT ![t] = k]
  /\ ending' = [ending EXCEPT ![t] = "none"]
  /\ got' = [got EXCEPT ![t] = 0]
  /\ Acquire(k)
  /\ events' = [events EXCEPT ![t] = IF Crosses(k) THEN <<"pressure">> ELSE <<>>]
  /\ OutGoto(t, "opening")
  /\ UNCHANGED <<conns, counted, closerPc>>

(* aclose() of the manager seals the handle and closes the driver if there *)
(* is one.  A driver that could not be closed is kept for another call.    *)
ManagerAclose ==
  /\ closerPc = "idle" /\ (driver # "sealed" \/ openClients # {})
  /\ driver' = "sealed"
  /\ closerPc' = IF openClients # {} THEN "stream" ELSE "idle"
  /\ UNCHANGED <<callPc, callPool, ending, got, conns, active, counted, events, calls,
                 openClients>>

(* Httpx2Resource.aclose: the streams' client is closed, then the other,   *)
(* whatever the first one raises.                                          *)
ClientAclose ==
  /\ closerPc \in PoolNames
  /\ closerPc' = IF closerPc = "stream" THEN "standard" ELSE "idle"
  /\ \/ /\ openClients' = openClients \ {closerPc}
        /\ conns' = {t \in conns : callPool[t] # closerPc}
     \/ UNCHANGED <<openClients, conns>>
  /\ UNCHANGED <<callPc, callPool, ending, got, active, counted, events, calls, driver>>

-----------------------------------------------------------------------------
(* open_httpx2_stream                                                      *)

(* Mutant: a call that was never connected is not counted out.             *)
LeaveOpenedOnly(t, how) ==
  /\ ending' = [ending EXCEPT ![t] = how]
  /\ OutGoto(t, IF callPc[t] = "opening" THEN "ending" ELSE "exiting")
  /\ UNCHANGED active

(* Into the "finally" with what the call is about to raise: a call that    *)
(* was connected awaits __aexit__ first, the other is counted out at once. *)
Leave(t, how) ==
  /\ ending' = [ending EXCEPT ![t] = how]
  /\ IF callPc[t] = "opening" THEN OutGoto(t, "ending") /\ Release(callPool[t])
                              ELSE OutGoto(t, "exiting") /\ UNCHANGED active

(* The response has begun; the stream's connection is logged.              *)
Opened(t) ==
  /\ callPc[t] = "opening" /\ callPool[t] \in openClients
  /\ Cardinality({u \in conns : callPool[u] = callPool[t]}) < PoolLimit
  /\ conns' = conns \cup {t}
  /\ OutGoto(t, "body")
  /\ events' = IF callPool[t] = "stream"
               THEN [events EXCEPT ![t] = Log(t, "connected")] ELSE events
  /\ UNCHANGED <<callPool, ending, got, active, counted, calls, driver, openClients, closerPc>>

(* No connection became free in time: counted, and HttpPoolTimeoutError.   *)
PoolTimeout(t) ==
  /\ callPc[t] = "opening" /\ callPool[t] \in openClients
  /\ Cardinality({u \in conns : callPool[u] = callPool[t]}) = PoolLimit
  /\ counted' = [counted EXCEPT ![callPool[t]].pool_timeout = @ + 1]
  /\ events' = [events EXCEPT ![t] = Log(t, "pool_timeout")]
  /\ Leave(t, "http")
  /\ UNCHANGED <<callPool, got, conns, calls, driver, openClients, closerPc>>

(* Another timeout or transport error, or the client was closed before the *)
(* request was sent (not an HttpError).                                    *)
OpenFails(t) ==
  /\ callPc[t] = "opening"
  /\ Leave(t, "http") \/ (callPool[t] \notin openClients /\ Leave(t, "foreign"))
  /\ UNCHANGED <<callPool, got, conns, counted, events, calls, driver, openClients, closerPc>>

(* The task is cancelled while it waits for the response or in the block.  *)
CallCancelled(t) ==
  /\ callPc[t] \in {"opening", "body"}
  /\ counted' = [counted EXCEPT ![callPool[t]].cancelled = @ + 1]
  /\ Leave(t, "cancel")
  /\ UNCHANGED <<callPool, got, conns, events, calls, driver, openClients, closerPc>>

(* __aexit__ returns, raises or is cancelled; the connection is given back *)
(* and the call counted out in every case.                                 *)
Exited(t) ==
  /\ callPc[t] = "exiting"
  /\ conns' = conns \ {t}
  /\ Release(callPool[t])
  /\ \/ UNCHANGED ending
     \/ ending' = [ending EXCEPT ![t] = IF @ = "caller" THEN "callerForeign" ELSE "foreign"]
     \/ ending' = [ending EXCEPT ![t] = "cancel"]
  /\ OutGoto(t, "ending")
  /\ UNCHANGED <<callPool, got, counted, events, calls, driver, openClients, closerPc>>

-----------------------------------------------------------------------------
(* The body of the call                                                    *)

(* _read_limited: a chunk more, refused when it does not fit.              *)
ReadChunk(t) ==
  /\ callPc[t] = "body" /\ callPool[t] = "standard" /\ t \in conns
  /\ IF got[t] + 1 > MaxBytes
     THEN Leave(t, "http") /\ UNCHANGED got
     ELSE got' = [got EXCEPT ![t] = @ + 1] /\ UNCHANGED <<callPc, ending, active>>
  /\ UNCHANGED <<callPool, conns, counted, events, calls, driver, openClients, closerPc>>

(* Httpx2StreamResponse: reading fails, with a public error.               *)
ReadFails(t) ==
  /\ callPc[t] = "body"
  /\ Leave(t, "http")
  /\ UNCHANGED <<callPool, got, conns, counted, events, calls, driver, openClients, closerPc>>

(* The response has been read, or the block of the caller ends ...         *)
BodyEnds(t) ==
  /\ callPc[t] = "body" /\ (callPool[t] = "standard" => t \in conns)
  /\ Leave(t, "ok")
  /\ UNCHANGED <<callPool, got, conns, counted, events, calls, driver, openClients, closerPc>>

(* ... or raises an error of the caller's own.                             *)
CallerFails(t) ==
  /\ callPc[t] = "body" /\ callPool[t] = "stream"
  /\ Leave(t, "caller")
  /\ UNCHANGED <<callPool, got, conns, counted, events, calls, driver, openClients, closerPc>>

-----------------------------------------------------------------------------
(* ManagedHttpClient                                                       *)

(* The last event of a call.                                               *)
EventOf(how) ==
  CASE how = "ok" -> <<"completed">>
    [] how = "cancel" -> <<"cancelled">>
    [] how \in {"http", "foreign"} -> <<"failed">>
    [] how \in {"caller", "callerForeign"} -> <<>>

(* request() or stream() logs how the call ended, and passes it on.        *)
CallEnd(t) ==
  /\ callPc[t] = "ending"
  /\ events' = [events EXCEPT ![t] = @ \o EventOf(ending[t])]
  /\ OutGoto(t, "idle")
  /\ UNCHANGED <<callPool, ending, got, conns, active, counted, calls, driver, openClients,
                 closerPc>>

-----------------------------------------------------------------------------
OutNext ==
  \/ ManagerAclose \/ ClientAclose
  \/ \E t \in Callers :
       \/ \E k \in PoolNames : Call(t, k)
       \/ Opened(t) \/ PoolTimeout(t) \/ OpenFails(t) \/ CallCancelled(t) \/ Exited(t)
       \/ ReadChunk(t) \/ ReadFails(t) \/ BodyEnds(t) \/ CallerFails(t) \/ CallEnd(t)

OutSpec == OutInit /\ [][OutNext]_outVars

-----------------------------------------------------------------------------
(* Properties                                                              *)

Terminal == {"completed", "failed", "cancelled"}

(* Every call is accounted for.  Each pool's "active" is the number of     *)
(* calls that have been counted in and not out, on every path out of a     *)
(* call (pool timeout, cancellation at any await, a closed client, a       *)
(* failing exit), and a call that is over holds no connection.  It has     *)
(* exactly one terminal event, the last one; only a stream whose caller    *)
(* raised has none, and it had been connected.                             *)
CallsAccounted ==
  /\ \A k \in PoolNames :
       active[k] = Cardinality({t \in Callers : callPool[t] = k
                                  /\ callPc[t] \in {"opening", "body", "exiting"}})
  /\ \A t \in conns : callPc[t] \in {"body", "exiting"}
  /\ \A t \in Callers :
       /\ callPc[t] # "idle" => \A i \in DOMAIN events[t] : events[t][i] \notin Terminal
       /\ callPc[t] = "idle" /\ ending[t] # "none" =>
            LET last == events[t][Len(events[t])]
            IN  IF ending[t] \in {"caller", "callerForeign"}
                THEN last = "connected"
                ELSE last \in Terminal /\ (last = "completed" <=> ending[t] = "ok")
=============================================================================
