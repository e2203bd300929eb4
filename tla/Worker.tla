------------------------------- MODULE Worker -------------------------------
(***************************************************************************)
(* The part of a worker process that does not depend on the queue driver:  *)
(*   - WorkerRunner (interfaces/worker/runner.py): concurrent lanes, the   *)
(*     stop event, draining, cancellation, the failure path;               *)
(*   - JobExecutor (interfaces/worker/executor.py): look up an earlier     *)
(*     failure, run the job, save a failure, only then acknowledge;        *)
(*   - SqlFailedJobStore (infrastructure/queue/failed/sql/store.py).       *)
(*                                                                         *)
(* A driver module EXTENDS this one, adds the backend's state and the      *)
(* receive and acknowledge steps, and frames the actions below with        *)
(* UNCHANGED on its own variables.                                         *)
(*                                                                         *)
(* A "consumer" is one worker process with its one queue consumer, a       *)
(* "lane" is one asyncio task of WorkerRunner._lane.  A step of a lane is  *)
(* the code between two awaits; every awaited call on a remote party is    *)
(* split into the remote effect and the reply.                             *)
(***************************************************************************)
EXTENDS Naturals, FiniteSets

CONSTANTS Consumers,    \* worker processes; a restart is a new consumer
          Lanes,        \* all lane tasks
          Home,         \* Home[t]: the consumer whose runner created lane t
          MaxMessages,  \* bound: messages ever published
          MaxFaults     \* bound: connection errors, crashes, stalls ...

ASSUME HomeAssumption == Home \in [Lanes -> Consumers]
ASSUME NoneAssumption == "none" \notin Consumers    \* uuid4 names
ASSUME BoundsAssumption == MaxMessages \in Nat /\ MaxFaults \in Nat

VARIABLES
  mode,        \* mode[c]: where WorkerRunner.run of c is
  stop,        \* stop[c]: the stop event is set
  pc,          \* pc[t]: the await at which lane t is
  held,        \* held[t]: the message lane t works on, 0 for none
  cancelled,   \* cancelled[t]: a cancellation not yet delivered to lane t
  failures,    \* messages with a row in the failed-job table
  recorded,    \* history: messages that ever had such a row
  succeeded,   \* history: messages whose handler completed
  faults       \* faults that have happened so far

runnerVars == <<mode, stop>>
laneVars   == <<pc, held, cancelled>>
storeVars  == <<failures, recorded, succeeded>>
workerVars == <<runnerVars, laneVars, storeVars, faults>>

Messages == 1..MaxMessages    \* identities in publication order
None == "none"

(* Where a lane can be, apart from the driver's own receive steps:         *)
(*   off        not started, or gone with its crashed process              *)
(*   find       failures.find of a possibly redelivered message            *)
(*   found      the SELECT saw a row, the reply is on its way              *)
(*   absent     the SELECT saw none, the reply is on its way               *)
(*   run        resolver.resolve and run_attempts, backoff included        *)
(*   save       failures.save: waiting for the write lock or the INSERT    *)
(*   saved      the row is committed, or was seen by the SELECT after an   *)
(*              IntegrityError; the reply is on its way                    *)
(*   duplicate  IntegrityError: the failure_id has a row, SELECT it        *)
(*   ack        Delivery.acknowledge called, nothing sent yet              *)
(*   ackOk/No   the backend has decided, the reply is on its way           *)
(*   done       _lane returned or was cancelled while closing              *)
(*   failed     _lane raised                                               *)
(* Every other pc is an await inside consumer.receive().                   *)
FindingPcs == {"find", "found", "absent"}
SavePcs    == {"save", "saved", "duplicate"}
AckPcs     == {"ack", "ackOk", "ackNo"}
ExecutePcs == FindingPcs \cup {"run"} \cup SavePcs \cup AckPcs
EndPcs     == {"off", "done", "failed"}

Executing(t) == pc[t] \in ExecutePcs
Ended(t)     == pc[t] \in EndPcs
Receiving(t) == ~Executing(t) /\ ~Ended(t)

LanesOf(c) == {t \in Lanes : Home[t] = c}
Modes   == {"new", "running", "draining", "cancelling", "failing", "closed", "crashed"}
Alive(c)   == mode[c] \in {"running", "draining", "cancelling", "failing"}
Closing(c) == mode[c] # "running"        \* WorkerRunner._closing of a live worker

WorkerTypeOK ==
  /\ mode \in [Consumers -> Modes]
  /\ stop \in [Consumers -> BOOLEAN]
  /\ held \in [Lanes -> Messages \cup {0}]
  /\ cancelled \in [Lanes -> BOOLEAN]
  /\ failures \in SUBSET Messages
  /\ recorded \in SUBSET Messages
  /\ succeeded \in SUBSET Messages
  /\ faults \in 0..MaxFaults

WorkerInit ==
  /\ mode = [c \in Consumers |-> "new"]
  /\ stop = [c \in Consumers |-> FALSE]
  /\ pc = [t \in Lanes |-> "off"]
  /\ held = [t \in Lanes |-> 0]
  /\ cancelled = [t \in Lanes |-> FALSE]
  /\ failures = {} /\ recorded = {} /\ succeeded = {}
  /\ faults = 0

(* One more of the bounded number of faults of the environment.            *)
Fault == faults < MaxFaults /\ faults' = faults + 1

-----------------------------------------------------------------------------
(* Building blocks for a lane's step.                                      *)

(* A lane runs code only while no cancellation is waiting for it: asyncio  *)
(* throws CancelledError at the await instead of resuming it.              *)
At(t, where) == pc[t] = where /\ ~cancelled[t]

Goto(t, where) == pc' = [pc EXCEPT ![t] = where]

(* task.cancel() on a set of lanes; it does nothing to an ended task.      *)
Cancel(ts) == cancelled' = [t \in Lanes |-> cancelled[t] \/ (t \in ts /\ ~Ended(t))]

(* The head of _lane's loop: "while not stop.is_set()".                    *)
LoopHead(t) == IF stop[Home[t]] THEN "done" ELSE "wait"

(* _lane is left; its local delivery is gone and stays unacknowledged.     *)
EndLane(t, how) == /\ Goto(t, how)
                   /\ held' = [held EXCEPT ![t] = 0]
                   /\ cancelled' = [cancelled EXCEPT ![t] = FALSE]

(* An exception other than CancelledError leaves _lane.                    *)
Raise(t) == EndLane(t, "failed")

-----------------------------------------------------------------------------
(* WorkerRunner.                                                           *)

(* run(): create the lanes, each of which goes straight into receive().    *)
StartLanes(c) ==
  /\ mode[c] = "new"
  /\ mode' = [mode EXCEPT ![c] = "running"]
  /\ pc' = [t \in Lanes |-> IF Home[t] = c THEN LoopHead(t) ELSE pc[t]]
  /\ UNCHANGED <<stop, held, cancelled, storeVars, faults>>

(* A signal handler or the host sets the stop event.                       *)
SetStop(c) ==
  /\ mode[c] \in {"running", "failing"}
  /\ ~stop[c]
  /\ stop' = [stop EXCEPT ![c] = TRUE]
  /\ UNCHANGED <<mode, laneVars, storeVars, faults>>

(* Mutant: the receivers are not cancelled.                                *)
RunnerStopWaits(c) ==
  /\ mode[c] = "running" /\ stop[c]
  /\ \A t \in LanesOf(c) : pc[t] # "failed"
  /\ mode' = [mode EXCEPT ![c] = "draining"]
  /\ UNCHANGED <<stop, laneVars, storeVars, faults>>

(* run() wakes up on the stop event and no lane has failed: cancel the     *)
(* lanes that are inside receive(), leave the others to drain.             *)
RunnerStop(c) ==
  /\ mode[c] = "running" /\ stop[c]
  /\ \A t \in LanesOf(c) : pc[t] # "failed"
  /\ mode' = [mode EXCEPT ![c] = "draining"]
  /\ Cancel({t \in LanesOf(c) : Receiving(t)})
  /\ UNCHANGED <<stop, pc, held, storeVars, faults>>

(* run() wakes up on a failed lane: its "finally" cancels every lane and   *)
(* waits for all of them; the stop event is not set on this path.          *)
RunnerFail(c) ==
  /\ mode[c] = "running"
  /\ \E t \in LanesOf(c) : pc[t] = "failed"
  /\ mode' = [mode EXCEPT ![c] = "failing"]
  /\ Cancel(LanesOf(c))
  /\ UNCHANGED <<stop, pc, held, storeVars, faults>>

(* shutdown_timeout expires with lanes still running: cancel them once.    *)
DrainTimeout(c) ==
  /\ mode[c] = "draining"
  /\ \E t \in LanesOf(c) : ~Ended(t)
  /\ mode' = [mode EXCEPT ![c] = "cancelling"]
  /\ Cancel(LanesOf(c))
  /\ UNCHANGED <<stop, pc, held, storeVars, faults>>

(* Every lane has ended: run() returns or raises, the host leaves the      *)
(* consume() context, which closes the consumer, and the process exits.    *)
RunnerExit(c) ==
  /\ mode[c] \in {"draining", "cancelling", "failing"}
  /\ \A t \in LanesOf(c) : Ended(t)
  /\ mode' = [mode EXCEPT ![c] = "closed"]
  /\ UNCHANGED <<stop, laneVars, storeVars, faults>>

(* The process dies at any await.                                          *)
RunnerCrash(c) ==
  /\ Alive(c)
  /\ Fault
  /\ mode' = [mode EXCEPT ![c] = "crashed"]
  /\ pc' = [t \in Lanes |-> IF Home[t] = c THEN "off" ELSE pc[t]]
  /\ held' = [t \in Lanes |-> IF Home[t] = c THEN 0 ELSE held[t]]
  /\ cancelled' = [t \in Lanes |-> Home[t] # c /\ cancelled[t]]
  /\ UNCHANGED <<stop, storeVars>>

(* CancelledError reaches _lane.  While closing it ends the lane quietly,  *)
(* otherwise it is reported as DeliveryLostError.                          *)
CancelLane(t) ==
  /\ ~Ended(t) /\ cancelled[t]
  /\ EndLane(t, IF Closing(Home[t]) THEN "done" ELSE "failed")
  /\ UNCHANGED <<runnerVars, storeVars, faults>>

(* The handler catches the CancelledError and goes on.                     *)
SwallowCancel(t) ==
  /\ pc[t] = "run" /\ cancelled[t]
  /\ cancelled' = [cancelled EXCEPT ![t] = FALSE]
  /\ UNCHANGED <<runnerVars, pc, held, storeVars, faults>>

-----------------------------------------------------------------------------
(* JobExecutor.execute, from the delivery to the call of acknowledge().    *)

(* Mutant: no look-up of an earlier failure.                               *)
FirstStepRun(flag) == "run"

(* Where execute() goes first: only a possibly redelivered message is      *)
(* looked up in the failed-job store.                                      *)
FirstStep(flag) == IF flag THEN "find" ELSE "run"

(* Mutant: the test of the look-up's result is inverted.                   *)
FindReplyInverted(t) ==
  /\ pc[t] \in {"found", "absent"} /\ ~cancelled[t]
  /\ Goto(t, IF pc[t] = "found" THEN "run" ELSE "ack")
  /\ UNCHANGED <<runnerVars, held, cancelled, storeVars, faults>>

(* The SELECT of failures.find, executed by the database.                  *)
Find(t) ==
  /\ At(t, "find")
  /\ Goto(t, IF held[t] \in failures THEN "found" ELSE "absent")
  /\ UNCHANGED <<runnerVars, held, cancelled, storeVars, faults>>

(* Its reply.  A recorded failure is acknowledged without being run again; *)
(* a row committed since the SELECT is not seen.                           *)
FindReply(t) ==
  /\ pc[t] \in {"found", "absent"} /\ ~cancelled[t]
  /\ Goto(t, IF pc[t] = "found" THEN "ack" ELSE "run")
  /\ UNCHANGED <<runnerVars, held, cancelled, storeVars, faults>>

(* The handler completes within its timeout.                               *)
Succeed(t) ==
  /\ At(t, "run")
  /\ succeeded' = succeeded \cup {held[t]}
  /\ Goto(t, "ack")
  /\ UNCHANGED <<runnerVars, held, cancelled, failures, recorded, faults>>

(* The message cannot be decoded or resolved, the handler fails for good,  *)
(* its timeout was suppressed, or its attempts are exhausted.              *)
FailJob(t) ==
  /\ At(t, "run")
  /\ Goto(t, "save")
  /\ UNCHANGED <<runnerVars, held, cancelled, storeVars, faults>>

(* JobDefinitionError: a deployment fault, the message is left alone.      *)
DefinitionError(t) ==
  /\ At(t, "run")
  /\ Fault
  /\ Raise(t)
  /\ UNCHANGED <<runnerVars, storeVars>>

(* The store's write lock admits one save of the process at a time.        *)
WriteLockFree(t) ==
  \A u \in LanesOf(Home[t]) : pc[u] \notin {"saved", "duplicate"}

(* INSERT and COMMIT in the database: a second row with the same           *)
(* failure_id is refused, so the first record is kept.                     *)
Save(t) ==
  /\ At(t, "save")
  /\ WriteLockFree(t)
  /\ Goto(t, IF held[t] \in failures THEN "duplicate" ELSE "saved")
  /\ failures' = failures \cup {held[t]}
  /\ recorded' = recorded \cup {held[t]}
  /\ UNCHANGED <<runnerVars, held, cancelled, succeeded, faults>>

SaveReply(t) ==
  /\ At(t, "saved")
  /\ Goto(t, "ack")
  /\ UNCHANGED <<runnerVars, held, cancelled, storeVars, faults>>

(* After the IntegrityError the record is found, or has been deleted in    *)
(* the meantime and the error is raised.                                   *)
SaveDuplicate(t) ==
  /\ At(t, "duplicate") /\ held[t] \in failures
  /\ Goto(t, "saved")
  /\ UNCHANGED <<runnerVars, held, cancelled, storeVars, faults>>

SaveVanished(t) ==
  /\ At(t, "duplicate") /\ held[t] \notin failures
  /\ Raise(t)
  /\ UNCHANGED <<runnerVars, storeVars, faults>>

(* The database fails, before or after it executed the statement.          *)
StoreError(t) ==
  /\ ~cancelled[t] /\ pc[t] \in FindingPcs \cup SavePcs
  /\ Fault
  /\ Raise(t)
  /\ UNCHANGED <<runnerVars, storeVars>>

(* An operator deletes a failure record (console "queue forget").          *)
Forget(m) ==
  /\ m \in failures
  /\ Fault
  /\ failures' = failures \ {m}
  /\ UNCHANGED <<runnerVars, laneVars, recorded, succeeded>>

(* The step that settles that lane t will run its message: the delivery,   *)
(* if nothing is looked up, else the execution of the look-up.  Another    *)
(* worker may still save before the handler starts: docs/queue.md says     *)
(* that the look-up is no lock.                                            *)
DecidesToRun(t) == pc[t] \notin {"absent", "run"} /\ pc'[t] \in {"absent", "run"}

WorkerStep ==
  \/ \E c \in Consumers : SetStop(c) \/ RunnerStop(c) \/ RunnerFail(c) \/ DrainTimeout(c)
  \/ \E t \in Lanes :
       \/ CancelLane(t) \/ SwallowCancel(t)
       \/ Find(t) \/ FindReply(t) \/ Succeed(t) \/ FailJob(t) \/ DefinitionError(t)
       \/ Save(t) \/ SaveReply(t) \/ SaveDuplicate(t) \/ SaveVanished(t)
       \/ StoreError(t)
  \/ \E m \in Messages : Forget(m)
=============================================================================
