------------------------------- MODULE MCHttp -------------------------------
(* A small instance for TLC of the sides of HTTP, which share no state:    *)
(* the requests on their way to an endpoint, the user endpoints, and the   *)
(* calls the application makes.  Each behaviour is one of the component in *)
(* "focus".                                                                *)
EXTENDS HttpServer, UserRequests, OutboundHttp, TLC

CONSTANTS q1, q2, c1, u1, u2, a1, a2
VARIABLE focus

http == <<httpVars, userVars, outVars, focus>>

(* Both requests come from one client, which is how they meet.             *)
SameClient == [r \in Requests |-> c1]

HttpSumInit ==
  /\ focus \in {"server", "users", "outbound"}
  /\ HttpInit /\ UserInit /\ OutInit
  /\ focus # "server" => settings = [failOpen |-> FALSE, debug |-> FALSE]

HttpSumNext ==
  \/ focus = "server" /\ HttpNext /\ UNCHANGED <<userVars, outVars, focus>>
  \/ focus = "users" /\ UserNext /\ UNCHANGED <<httpVars, outVars, focus>>
  \/ focus = "outbound" /\ OutNext /\ UNCHANGED <<httpVars, userVars, focus>>

HttpSumSpec == HttpSumInit /\ [][HttpSumNext]_http

(* Requests are interchangeable, and so are callers.                       *)
Interchangeable == Permutations(Requests) \cup Permutations(UserCalls) \cup Permutations(Callers)
=============================================================================
