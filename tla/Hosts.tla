------------------------------- MODULE Hosts --------------------------------
(***************************************************************************)
(* The processes of the application from start to end: ApplicationRuntime  *)
(* and ApplicationContainer (runtime/), the four hosts that own one        *)
(* (bootstrap/http/lifespan.py, worker, console and scheduler              *)
(* application.py), and in the scheduler's process ApschedulerEngine       *)
(* (interfaces/scheduler/apscheduler.py), whose dispatches use the queues  *)
(* of the container.                                                       *)
(*                                                                         *)
(* A step is the code between two awaits of the host's task, of an initial *)
(* dispatch or of an instance of APScheduler's executor.  What a dispatch  *)
(* publishes, and how a manager closes its resources, is modelled          *)
(* elsewhere; here a dispatch is a span of time and the closing of a       *)
(* resource succeeds or raises.                                            *)
(***************************************************************************)
EXTENDS Naturals, Sequences, FiniteSets, SequencesExt

CONSTANTS
  Schedules,     \* ids of the schedules the deployment declares
  Immediate,     \* those with IntervalStartPolicy.IMMEDIATELY
  Coalesced,     \* those with CoalescePolicy.LATEST
  MaxStartup,    \* bound: startup callbacks of the container
  MaxTicks,      \* bound: times APScheduler looks at each schedule
  MaxCancels     \* bound: cancellations of the host's task

VARIABLES
  hostKind,    \* which host the process runs
  hostPc,      \* the await at which the host's task is
  startupLeft, \* startup callbacks yet to run
  container,   \* ApplicationRuntime._container is set
  exposed,     \* app.state.container is set (http)
  closeLeft,   \* shutdown callbacks yet to run, the next one first
  attempted,   \* history: resources whose shutdown callback has been run
  begun,       \* history: resources whose shutdown callback has begun
  raised,      \* errors the host will raise
  stopSet,     \* the stop event, or what else ends the host's work
  cancelsLeft  \* cancellations that may still happen

VARIABLES
  apState,     \* APScheduler: none, running, paused or down
  engClosed,   \* ApschedulerEngine._closed
  jobs,        \* schedules registered with APScheduler
  initial,     \* initial[s]: the initial dispatch of s
  runs,        \* runs[s]: dispatches left in the running instance of s
  ticks,       \* ticks[s]: times s was looked at
  cutShort     \* the await of aclose() that was cancelled: gather, drain or no

hostState   == <<hostKind, hostPc, startupLeft, container, exposed, closeLeft, attempted,
                 begun, raised, stopSet, cancelsLeft>>
engineState == <<apState, engClosed, jobs, initial, runs, ticks, cutShort>>
hostVars    == <<hostState, engineState>>

HostKinds == {"http", "worker", "console", "scheduler"}

(* async_shutdown_callbacks, in the order of the container.                *)
ShutdownCallbacks == <<"databases", "caches", "http", "vectors", "queues">>
Resources == ToSet(ShutdownCallbacks)

HostInit ==
  /\ hostKind \in HostKinds /\ hostPc = "build"
  /\ startupLeft \in 0..MaxStartup
  /\ container = FALSE /\ exposed = FALSE
  /\ closeLeft = <<>> /\ attempted = {} /\ begun = {} /\ raised = {}
  /\ stopSet = FALSE /\ cancelsLeft = MaxCancels
  /\ apState = "none" /\ engClosed = FALSE /\ jobs = {} /\ cutShort = "no"
  /\ initial = [s \in Schedules |-> "none"]
  /\ runs = [s \in Schedules |-> 0]
  /\ ticks = [s \in Schedules |-> 0]

-----------------------------------------------------------------------------
(* ApplicationRuntime and ApplicationContainer                             *)

(* start(): the container is built, or its factory raises, before anything *)
(* is owned.                                                               *)
RuntimeBuild ==
  /\ hostPc = "build"
  /\ \/ /\ container' = TRUE /\ hostPc' = "startup"
        /\ UNCHANGED raised
     \/ /\ raised' = raised \cup {"start"} /\ hostPc' = "close"
        /\ UNCHANGED container
  /\ UNCHANGED <<hostKind, startupLeft, exposed, closeLeft, attempted, begun, stopSet,
                 cancelsLeft, engineState>>

(* A startup callback raises or is cancelled: start() closes the container *)
(* before it passes the error on.                                          *)
StartupFails ==
  /\ hostPc = "startup" /\ startupLeft > 0
  /\ container' = FALSE /\ raised' = raised \cup {"start"}
  /\ closeLeft' = Reverse(ShutdownCallbacks) /\ hostPc' = "closing"

(* container.start(): the callbacks in order; the first failure ends it.   *)
ContainerStart ==
  /\ \/ /\ hostPc = "startup" /\ startupLeft > 0
        /\ startupLeft' = startupLeft - 1
        /\ UNCHANGED <<hostPc, container, raised, closeLeft>>
     \/ StartupFails /\ UNCHANGED startupLeft
  /\ UNCHANGED <<hostKind, exposed, attempted, begun, stopSet, cancelsLeft, engineState>>

(* aclose() of the runtime: the reference goes first, then the container   *)
(* is closed; a second call finds nothing to close.                        *)
RuntimeAclose ==
  /\ hostPc = "close"
  /\ closeLeft' = IF container THEN Reverse(ShutdownCallbacks) ELSE <<>>
  /\ container' = FALSE /\ hostPc' = "closing"
  /\ UNCHANGED <<hostKind, startupLeft, exposed, attempted, begun, raised, stopSet,
                 cancelsLeft, engineState>>

(* container.aclose(): the next callback is called ...                     *)
CallbackBegin ==
  /\ hostPc = "closing" /\ closeLeft # <<>>
  /\ begun' = begun \cup {Head(closeLeft)} /\ hostPc' = "callback"
  /\ UNCHANGED <<hostKind, startupLeft, container, exposed, closeLeft, attempted, raised,
                 stopSet, cancelsLeft, engineState>>

(* Mutant: the first failure ends the loop.                                *)
AfterFailureStop == <<>>

(* What is left to close after a callback has raised: the others.          *)
AfterFailure == Tail(closeLeft)

(* ... and returns, or raises (a cancellation included), which is kept.    *)
CallbackEnd ==
  /\ hostPc = "callback"
  /\ attempted' = attempted \cup {Head(closeLeft)}
  /\ \/ closeLeft' = Tail(closeLeft) /\ UNCHANGED raised
     \/ closeLeft' = AfterFailure /\ raised' = raised \cup {"close"}
  /\ hostPc' = "closing"
  /\ UNCHANGED <<hostKind, startupLeft, container, exposed, begun, stopSet, cancelsLeft,
                 engineState>>

-----------------------------------------------------------------------------
(* The hosts                                                               *)

(* lifespan: the container is exposed once it has started completely, and  *)
(* requests are served.                                                    *)
LifespanServe ==
  /\ hostKind = "http" /\ hostPc = "startup" /\ startupLeft = 0
  /\ exposed' = TRUE /\ hostPc' = "work"
  /\ UNCHANGED <<hostKind, startupLeft, container, closeLeft, attempted, begun, raised,
                 stopSet, cancelsLeft, engineState>>

(* WorkerHost.serve: the resolver is built, which may raise, and the queue *)
(* is consumed (the runner and the manager's consume() are in modules of   *)
(* their own).                                                             *)
WorkerServe ==
  /\ hostKind = "worker" /\ hostPc = "startup" /\ startupLeft = 0
  /\ \/ hostPc' = "work" /\ UNCHANGED raised
     \/ hostPc' = "close" /\ raised' = raised \cup {"start"}
  /\ UNCHANGED <<hostKind, startupLeft, container, exposed, closeLeft, attempted, begun,
                 stopSet, cancelsLeft, engineState>>

(* ConsoleHost._run: one operation inside "async with runtime".            *)
ConsoleRun ==
  /\ hostKind = "console" /\ hostPc = "startup" /\ startupLeft = 0
  /\ hostPc' = "work"
  /\ UNCHANGED <<hostKind, startupLeft, container, exposed, closeLeft, attempted, begun,
                 raised, stopSet, cancelsLeft, engineState>>

(* SchedulerHost._start: the schedules are discovered and their routes     *)
(* checked before anything can fire.                                       *)
SchedulerDiscover ==
  /\ hostKind = "scheduler" /\ hostPc = "startup" /\ startupLeft = 0
  /\ \/ hostPc' = "engine" /\ UNCHANGED raised
     \/ hostPc' = "closeEngine" /\ raised' = raised \cup {"start"}
  /\ UNCHANGED <<hostKind, startupLeft, container, exposed, closeLeft, attempted, begun,
                 stopSet, cancelsLeft, engineState>>

(* The signal handler, the server's shutdown, the end of the operation.    *)
Stop ==
  /\ ~stopSet /\ stopSet' = TRUE
  /\ UNCHANGED <<hostKind, hostPc, startupLeft, container, exposed, closeLeft, attempted,
                 begun, raised, cancelsLeft, engineState>>

(* Where a host goes when its work is over: the scheduler's host closes    *)
(* the engine first, the others close the runtime.                         *)
Closing == IF hostKind = "scheduler" THEN "closeEngine" ELSE "close"

(* The work ends because of the stop, or raises.                           *)
WorkEnds ==
  /\ hostPc = "work"
  /\ \/ stopSet /\ UNCHANGED raised
     \/ hostKind \in {"worker", "console"} /\ raised' = raised \cup {"work"}
  /\ hostPc' = Closing
  /\ UNCHANGED <<hostKind, startupLeft, container, exposed, closeLeft, attempted, begun,
                 stopSet, cancelsLeft, engineState>>

(* The end: app.state.container goes, signal handlers are removed, what    *)
(* was raised is raised.                                                   *)
HostEnd ==
  /\ hostPc = "closing" /\ closeLeft = <<>>
  /\ exposed' = FALSE /\ hostPc' = "done"
  /\ UNCHANGED <<hostKind, startupLeft, container, closeLeft, attempted, begun, raised,
                 stopSet, cancelsLeft, engineState>>

-----------------------------------------------------------------------------
(* ApschedulerEngine                                                       *)

(* Mutant: every schedule is registered at once, and the immediate ones    *)
(* are dispatched as well.                                                 *)
RegisteredAtStartAll == Schedules

(* Schedules that start immediately are registered after their initial     *)
(* dispatch, so that the interval counts from its end.                     *)
RegisteredAtStart == Schedules \ Immediate

(* start(): registration or the start of APScheduler raises ...            *)
EngineStartFails ==
  /\ hostPc = "engine"
  /\ raised' = raised \cup {"start"} /\ hostPc' = "closeEngine"
  /\ UNCHANGED <<hostKind, startupLeft, container, exposed, closeLeft, attempted, begun,
                 stopSet, cancelsLeft, engineState>>

(* ... or APScheduler runs and the initial dispatches are tasks.           *)
EngineStart ==
  /\ hostPc = "engine"
  /\ apState' = "running" /\ jobs' = RegisteredAtStart
  /\ initial' = [s \in Schedules |-> IF s \in Immediate THEN "dispatch" ELSE "none"]
  /\ hostPc' = "initial"
  /\ UNCHANGED <<hostKind, startupLeft, container, exposed, closeLeft, attempted, begun,
                 raised, stopSet, cancelsLeft, engClosed, runs, ticks, cutShort>>

Dispatching(s) == initial[s] \in {"dispatch", "cancelling"}

(* _dispatch_initial_then_register: the dispatch ends, well or badly, and  *)
(* the schedule is registered unless the engine is closed by now; the      *)
(* registration may raise, and a cancelled task does not come to it.       *)
InitialEnd(s) ==
  /\ Dispatching(s)
  /\ \/ /\ initial' = [initial EXCEPT ![s] = "done"]
        /\ jobs' = IF engClosed THEN jobs ELSE jobs \cup {s}
     \/ /\ initial[s] = "cancelling" \/ ~engClosed
        /\ initial' = [initial EXCEPT ![s] = "failed"]
        /\ UNCHANGED jobs
  /\ UNCHANGED <<hostState, apState, engClosed, runs, ticks, cutShort>>

(* _start_initial_dispatches: all are over (the schedules' routes having   *)
(* been checked); a failed registration fails the start.                   *)
InitialGathered ==
  /\ hostPc = "initial" /\ \A s \in Schedules : ~Dispatching(s)
  /\ \/ (\A s \in Schedules : initial[s] # "failed") /\ hostPc' = "work" /\ UNCHANGED raised
     \/ (\E s \in Schedules : initial[s] = "failed") /\ hostPc' = "closeEngine"
        /\ raised' = raised \cup {"start"}
  /\ UNCHANGED <<hostKind, startupLeft, container, exposed, closeLeft, attempted, begun,
                 stopSet, cancelsLeft, engineState>>

(* APScheduler, with the options _register gives it, looks at a schedule   *)
(* with "due" run times: those later than the grace time are left out, all *)
(* but the last are when it coalesces, and with max_instances = 1 nothing  *)
(* is submitted while the last instance is running.                        *)
Tick(s, due) ==
  /\ apState = "running" /\ s \in jobs /\ ticks[s] < MaxTicks
  /\ ticks' = [ticks EXCEPT ![s] = @ + 1]
  /\ runs' = IF runs[s] > 0 THEN runs
             ELSE [runs EXCEPT ![s] = IF s \in Coalesced /\ due > 0 THEN 1 ELSE due]
  /\ UNCHANGED <<hostState, apState, engClosed, jobs, initial, cutShort>>

(* The callback of _build_callback: a dispatch ends, and whatever it       *)
(* raises is logged; a cancelled instance makes no further one.            *)
RunEnd(s) ==
  /\ runs[s] > 0
  /\ runs' = [runs EXCEPT ![s] = IF cutShort = "drain" THEN 0 ELSE @ - 1]
  /\ UNCHANGED <<hostState, apState, engClosed, jobs, initial, ticks, cutShort>>

(* aclose(): the fields are cleared, no task may register any more, and    *)
(* APScheduler is paused if it was started.                                *)
EngineAclose ==
  /\ hostPc = "closeEngine"
  /\ engClosed' = TRUE
  /\ \/ apState = "none" /\ hostPc' = "close" /\ UNCHANGED apState
     \/ apState = "running" /\ hostPc' = "gather" /\ apState' = "paused"
  /\ UNCHANGED <<hostKind, startupLeft, container, exposed, closeLeft, attempted, begun,
                 raised, stopSet, cancelsLeft, jobs, initial, runs, ticks, cutShort>>

(* aclose(): the initial dispatches are over.  A cancelled gather ends as  *)
(* well only when they are, and then raises.                               *)
EngineGathered ==
  /\ hostPc = "gather" /\ \A s \in Schedules : ~Dispatching(s)
  /\ hostPc' = IF cutShort # "no" THEN "close" ELSE "drain"
  /\ UNCHANGED <<hostKind, startupLeft, container, exposed, closeLeft, attempted, begun,
                 raised, stopSet, cancelsLeft, engineState>>

(* Mutant: shutdown(wait=True) is trusted to wait.                         *)
DrainedTrusting == TRUE

(* drain() of the executor: no instance is left.                           *)
Drained == \A s \in Schedules : runs[s] = 0

EngineDrained ==
  /\ hostPc = "drain" /\ Drained
  /\ hostPc' = IF cutShort # "no" THEN "close" ELSE "shutdown"
  /\ UNCHANGED <<hostKind, startupLeft, container, exposed, closeLeft, attempted, begun,
                 raised, stopSet, cancelsLeft, engineState>>

(* shutdown(wait=False) runs in the event loop, and its event is awaited.  *)
EngineShutdown ==
  /\ hostPc = "shutdown"
  /\ apState' = "down" /\ hostPc' = "close"
  /\ UNCHANGED <<hostKind, startupLeft, container, exposed, closeLeft, attempted, begun,
                 raised, stopSet, cancelsLeft, engClosed, jobs, initial, runs, ticks,
                 cutShort>>

(* The host's task is cancelled by whoever embeds it.  The shield of the   *)
(* start keeps the initial dispatches running; the gathers of aclose()     *)
(* pass the cancellation on to what they wait for; the wait for the        *)
(* shutdown event is given up.                                             *)
HostCancelled ==
  /\ cancelsLeft > 0 /\ cancelsLeft' = cancelsLeft - 1
  /\ \/ hostPc \in {"work", "initial", "shutdown"}
     \/ hostPc = "gather" /\ \E s \in Schedules : Dispatching(s)
     \/ hostPc = "drain" /\ ~Drained
  /\ raised' = raised \cup {"cancel"}
  /\ hostPc' = IF hostPc \in {"work", "initial"} THEN Closing
               ELSE IF hostPc = "shutdown" THEN "close" ELSE hostPc
  /\ cutShort' = IF hostPc \in {"gather", "drain"} THEN hostPc ELSE cutShort
  /\ initial' = [s \in Schedules |-> IF hostPc = "gather" /\ initial[s] = "dispatch"
                                     THEN "cancelling" ELSE initial[s]]
  /\ apState' = IF hostPc = "shutdown" THEN "down" ELSE apState
  /\ UNCHANGED <<hostKind, startupLeft, container, exposed, closeLeft, attempted, begun,
                 stopSet, engClosed, jobs, runs, ticks>>

-----------------------------------------------------------------------------
HostStep ==
  \/ RuntimeBuild \/ ContainerStart \/ RuntimeAclose \/ CallbackBegin \/ CallbackEnd
  \/ LifespanServe \/ WorkerServe \/ ConsoleRun \/ SchedulerDiscover \/ WorkEnds \/ HostEnd
  \/ EngineStartFails \/ EngineStart \/ InitialGathered
  \/ EngineAclose \/ EngineGathered \/ EngineDrained \/ EngineShutdown
  \/ \E s \in Schedules : InitialEnd(s) \/ RunEnd(s)

HostNext == HostStep \/ Stop \/ HostCancelled
            \/ \E s \in Schedules, due \in 0..2 : Tick(s, due)

HostSpec == HostInit /\ [][HostNext]_hostVars

-----------------------------------------------------------------------------
(* Properties                                                              *)

(* From the moment the container begins to close the queues no dispatch of *)
(* a schedule is under way, whether it was an initial one or an instance   *)
(* of APScheduler, and APScheduler fires no more: aclose() of the engine   *)
(* has paused it and waited, also when the start was cancelled or had      *)
(* failed half-way, or the drain was cancelled.  The one exception is a    *)
(* cancellation of aclose() while it waits for the initial dispatches: it  *)
(* never comes to the drain, and an instance may be running.               *)
DispatchesHaveQueues ==
  "queues" \in begun =>
    /\ apState # "running"
    /\ \A s \in Schedules : ~Dispatching(s) /\ (runs[s] > 0 => cutShort = "gather")

(* The dispatches of one schedule do not overlap: the initial one is over  *)
(* before APScheduler knows of the schedule.                               *)
OneDispatchPerSchedule ==
  \A s \in Schedules : ~(Dispatching(s) /\ runs[s] > 0)

(* A process that is told to stop ends, and then every resource of a       *)
(* container that was built has been closed or has failed to close, its    *)
(* startup or other closings having failed or not; nothing refers to the   *)
(* container any longer.                                                   *)
StopReleasesEverything ==
  stopSet ~> /\ hostPc = "done" /\ ~container /\ ~exposed
             /\ attempted \in {{}, Resources}
             /\ attempted = {} => raised # {}
=============================================================================
