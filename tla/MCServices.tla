----------------------------- MODULE MCServices -----------------------------
(* A small instance for TLC of three components that run side by side in a *)
(* process and share no state: the queue manager, the host (container,     *)
(* entry points, scheduler engine) and the login limiter.  Each behaviour  *)
(* is one of the component in "focus"; the other two stand still, which    *)
(* is what a product of independent components need not repeat.            *)
EXTENDS QueueManager, Hosts, LoginAttempts

CONSTANTS t1, t2, t3, h1, s1, s2, s3
VARIABLE focus

services == <<vars, hostVars, loginVars, focus>>

ServicesInit ==
  /\ focus \in {"queues", "host", "login"}
  /\ Init /\ HostInit /\ LoginInit
  /\ focus # "host" => hostKind = "worker" /\ startupLeft = 0

Queues(A) == focus = "queues" /\ A /\ UNCHANGED <<hostVars, loginVars, focus>>
Host(A)   == focus = "host" /\ A /\ UNCHANGED <<vars, loginVars, focus>>
Login(A)  == focus = "login" /\ A /\ UNCHANGED <<vars, hostVars, focus>>

(* Queues: a task that is not blocked runs, remote calls end, asyncio.Lock *)
(* is first come, first served.  Host: the process takes its steps and     *)
(* every dispatch ends.  Login: Redis's clock runs.                        *)
ServicesSpec ==
  /\ ServicesInit /\ [][Queues(Next) \/ Host(HostNext) \/ Login(LoginNext)]_services
  /\ \A t \in Tasks : SF_services(Queues(TaskStep(t)))
  /\ WF_services(Host(HostStep))
  /\ \A s \in Schedules : WF_services(Host(InitialEnd(s))) /\ WF_services(Host(RunEnd(s)))
  /\ WF_services(Login(RedisTick))
=============================================================================
