---------------------------- MODULE RedisWorker ----------------------------
(***************************************************************************)
(* Workers on the Redis Streams driver                                     *)
(* (infrastructure/queue/drivers/redis.py).  The backend is a stream with  *)
(* one consumer group.  A delivered message stays in the group's pending   *)
(* entries list (PEL) under the name of its consumer until it is           *)
(* acknowledged; when it has been idle for lease_seconds, any consumer may *)
(* take it over with XAUTOCLAIM.  A renewal task of every consumer keeps   *)
(* the entries of its running jobs from becoming idle.                     *)
(*                                                                         *)
(* Time is abstracted to fresh[m]: the entry has been idle for less than   *)
(* the lease.  A lease that is being renewed expires only by a fault (a    *)
(* stalled event loop); a lease nobody renews just expires.                *)
(***************************************************************************)
EXTENDS Worker

VARIABLES
  published,     \* entries 1..published have been XADDed
  lastDelivered, \* the group's last-delivered-id
  owner,         \* owner[m]: consumer name in m's PEL entry, None outside it
  fresh,         \* fresh[m]: m's entry is idle for less than the lease
  acked,         \* acked[m]: XACK and XDEL have been executed
  pending,       \* pending[c]: keys of RedisConsumer.pending
  renewal,       \* renewal[c]: the renewal task and its batch script
  cursor,        \* cursor[c]: RedisConsumer._cursor, 0 for "0-0"
  scanned        \* scanned[c]: the next cursor in an XAUTOCLAIM reply

streamVars   == <<published, lastDelivered, owner, fresh, acked>>
consumerVars == <<pending, renewal, cursor, scanned>>
driverVars   == <<streamVars, consumerVars>>
vars         == <<workerVars, driverVars>>

(* The awaits of receive():                                                *)
(*   wait       for _receive_lock                                          *)
(*   claim      XAUTOCLAIM to be executed                                  *)
(*   claimed    its reply, an entry taken over                             *)
(*   read       XREADGROUP to be executed                                  *)
(*   readReply  its reply, a new entry                                     *)
ReplyPcs   == {"claimed", "readReply"}
ReceivePcs == {"wait", "claim", "read"} \cup ReplyPcs

(* The renewal task: off, asleep between two batches ("sleep"), the script *)
(* found all entries owned and refreshed them ("kept"), the script found a *)
(* foreign or missing entry ("lost"), ended with an error ("failed").      *)
RenewalStates == {"off", "sleep", "kept", "lost", "failed"}

TypeOK ==
  /\ WorkerTypeOK
  /\ pc \in [Lanes -> ReceivePcs \cup ExecutePcs \cup EndPcs]
  /\ published \in 0..MaxMessages
  /\ lastDelivered \in 0..MaxMessages
  /\ owner \in [Messages -> Consumers \cup {None}]
  /\ fresh \in [Messages -> BOOLEAN]
  /\ acked \in [Messages -> BOOLEAN]
  /\ pending \in [Consumers -> SUBSET Messages]
  /\ renewal \in [Consumers -> RenewalStates]
  /\ cursor \in [Consumers -> Messages \cup {0}]
  /\ scanned \in [Consumers -> Messages \cup {0}]

Init ==
  /\ WorkerInit
  /\ published = 0 /\ lastDelivered = 0
  /\ owner = [m \in Messages |-> None]
  /\ fresh = [m \in Messages |-> FALSE]
  /\ acked = [m \in Messages |-> FALSE]
  /\ pending = [c \in Consumers |-> {}]
  /\ renewal = [c \in Consumers |-> "off"]
  /\ cursor = [c \in Consumers |-> 0]
  /\ scanned = [c \in Consumers |-> 0]

-----------------------------------------------------------------------------
(* RedisBackend.publish: XADD.                                             *)
Publish ==
  /\ published < MaxMessages
  /\ published' = published + 1
  /\ UNCHANGED <<workerVars, lastDelivered, owner, fresh, acked, consumerVars>>

(* RedisBackend.consumer and RedisConsumer.start, then WorkerRunner.run.   *)
Start(c) ==
  /\ StartLanes(c)
  /\ renewal' = [renewal EXCEPT ![c] = "sleep"]
  /\ UNCHANGED <<streamVars, pending, cursor, scanned>>

-----------------------------------------------------------------------------
(* RedisConsumer.receive.                                                  *)

ReceiveLockFree(c) == \A u \in LanesOf(c) : pc[u] \notin ReceivePcs \ {"wait"}

(* The head of receive()'s loop: go for XAUTOCLAIM unless the renewal task *)
(* has ended.  ("closed" is set only after every lane has ended.)          *)
EnterReceive(t) ==
  /\ At(t, "wait") /\ ReceiveLockFree(Home[t])
  /\ renewal[Home[t]] # "failed"
  /\ Goto(t, "claim")
  /\ UNCHANGED <<runnerVars, held, cancelled, storeVars, faults, driverVars>>

InPel(m) == owner[m] # None

(* n is the first member of S at or after start, in the order of the       *)
(* identities, or 0 if there is none.  0 as a cursor is the beginning.     *)
IsFirst(n, S, start) ==
  LET ahead == {k \in S : k >= start}
  IN  IF n = 0 THEN ahead = {} ELSE n \in ahead /\ \A k \in ahead : n <= k

Idle == {m \in Messages : InPel(m) /\ ~fresh[m]}

(* What XAUTOCLAIM with count 1 finds for consumer c: the first idle entry *)
(* at or after its cursor, whoever owns it; 0 for no entry.                *)
(* Mutants: entries of other consumers are not scanned (OwnIdleOnly), the  *)
(* minimum idle time is not observed (AnyEntry).                           *)
OwnIdleOnly(c, m) == IsFirst(m, {n \in Idle : owner[n] = c}, cursor[c])
AnyEntry(c, m) == IsFirst(m, {n \in Messages : InPel(n)}, cursor[c])
Claims(c, m) == IsFirst(m, Idle, cursor[c])

(* Take the entry over.  The reply carries the entry and, as the next      *)
(* cursor, the identity of the PEL entry after it.                         *)
AutoClaim(t) ==
  LET c == Home[t]
  IN  \E m \in Messages, n \in Messages \cup {0} :
        /\ At(t, "claim")
        /\ Claims(c, m)
        /\ IsFirst(n, {k \in Messages : InPel(k)}, m + 1)
        /\ owner' = [owner EXCEPT ![m] = c]
        /\ fresh' = [fresh EXCEPT ![m] = TRUE]
        /\ held' = [held EXCEPT ![t] = m]
        /\ scanned' = [scanned EXCEPT ![c] = n]
        /\ Goto(t, "claimed")
        /\ UNCHANGED <<runnerVars, cancelled, storeVars, faults,
                       published, lastDelivered, acked, pending, renewal, cursor>>

(* XAUTOCLAIM finds nothing: the scan is complete, the cursor is "0-0".    *)
AutoClaimEmpty(t) ==
  /\ At(t, "claim")
  /\ Claims(Home[t], 0)
  /\ cursor' = [cursor EXCEPT ![Home[t]] = 0]
  /\ Goto(t, "read")
  /\ UNCHANGED <<runnerVars, held, cancelled, storeVars, faults, streamVars,
                 pending, renewal, scanned>>

(* XREADGROUP with id ">": the next entry never delivered to the group.    *)
ReadNew(t) ==
  LET m == lastDelivered + 1
  IN  /\ At(t, "read")
      /\ m <= published
      /\ lastDelivered' = m
      /\ owner' = [owner EXCEPT ![m] = Home[t]]
      /\ fresh' = [fresh EXCEPT ![m] = TRUE]
      /\ held' = [held EXCEPT ![t] = m]
      /\ Goto(t, "readReply")
      /\ UNCHANGED <<runnerVars, cancelled, storeVars, faults, published, acked,
                     consumerVars>>

(* The block time runs out: back to the head of the loop.                  *)
ReadEmpty(t) ==
  /\ At(t, "read") /\ lastDelivered = published
  /\ renewal[Home[t]] # "failed"
  /\ Goto(t, "claim")
  /\ UNCHANGED <<runnerVars, held, cancelled, storeVars, faults, driverVars>>

(* The head of the loop finds the renewal task ended: raise its error.     *)
ReceiveRaises(t) ==
  /\ \/ At(t, "wait") /\ ReceiveLockFree(Home[t])
     \/ At(t, "read") /\ lastDelivered = published
  /\ renewal[Home[t]] = "failed"
  /\ Raise(t)
  /\ UNCHANGED <<runnerVars, storeVars, faults, driverVars>>

(* A reply sets the cursor, if it is XAUTOCLAIM's.                         *)
TakeCursor(t) ==
  cursor' = IF pc[t] = "claimed" THEN [cursor EXCEPT ![Home[t]] = scanned[Home[t]]] ELSE cursor

(* Mutant: the "key in self.pending" check is missing.                     *)
DeliverAgain(t) ==
  /\ pc[t] \in ReplyPcs /\ ~cancelled[t]
  /\ TakeCursor(t)
  /\ pending' = [pending EXCEPT ![Home[t]] = @ \cup {held[t]}]
  /\ Goto(t, FirstStep(pc[t] = "claimed"))
  /\ UNCHANGED <<runnerVars, held, cancelled, storeVars, faults, streamVars, renewal, scanned>>

(* The entry becomes a delivery of this consumer and goes to the executor. *)
Deliver(t) ==
  /\ pc[t] \in ReplyPcs /\ ~cancelled[t]
  /\ held[t] \notin pending[Home[t]]
  /\ TakeCursor(t)
  /\ pending' = [pending EXCEPT ![Home[t]] = @ \cup {held[t]}]
  /\ Goto(t, FirstStep(pc[t] = "claimed"))
  /\ UNCHANGED <<runnerVars, held, cancelled, storeVars, faults, streamVars, renewal, scanned>>

(* The entry is still pending here: it has been taken over from ourselves  *)
(* after its lease expired.  DeliveryLostError.                            *)
DeliverLapsed(t) ==
  /\ pc[t] \in ReplyPcs /\ ~cancelled[t]
  /\ held[t] \in pending[Home[t]]
  /\ TakeCursor(t)
  /\ Raise(t)
  /\ UNCHANGED <<runnerVars, storeVars, faults, streamVars, pending, renewal, scanned>>

-----------------------------------------------------------------------------
(* RedisDelivery.acknowledge and RedisConsumer._renew, which exclude each  *)
(* other by RedisConsumer.lock.                                            *)

(* Mutant: acknowledge() does not take the lock.                           *)
LockFreeOfRenewal(c) == renewal[c] \notin {"kept", "lost"}

(* No batch and no acknowledgement of this consumer is under way.          *)
LockFree(c) == /\ renewal[c] \notin {"kept", "lost"}
               /\ \A u \in LanesOf(c) : pc[u] \notin {"ackOk", "ackNo"}

(* _OWNED_ACK: XACK and XDEL.                                              *)
Settle(t) ==
  /\ owner' = [owner EXCEPT ![held[t]] = None]
  /\ fresh' = [fresh EXCEPT ![held[t]] = FALSE]
  /\ acked' = [acked EXCEPT ![held[t]] = TRUE]
  /\ Goto(t, "ackOk")
  /\ UNCHANGED <<runnerVars, held, cancelled, storeVars, faults,
                 published, lastDelivered, consumerVars>>

(* The PEL entry is still ours.                                            *)
Ack(t) ==
  /\ At(t, "ack") /\ LockFree(Home[t])
  /\ owner[held[t]] = Home[t]
  /\ Settle(t)

(* The PEL entry is gone or belongs to another consumer: nothing is done.  *)
AckRefused(t) ==
  /\ At(t, "ack") /\ LockFree(Home[t])
  /\ owner[held[t]] # Home[t]
  /\ Goto(t, "ackNo")
  /\ UNCHANGED <<runnerVars, held, cancelled, storeVars, faults, driverVars>>

(* The reply: forget the delivery and go for the next one ...              *)
AckReply(t) ==
  /\ At(t, "ackOk")
  /\ pending' = [pending EXCEPT ![Home[t]] = @ \ {held[t]}]
  /\ EndLane(t, LoopHead(t))
  /\ UNCHANGED <<runnerVars, storeVars, faults, streamVars, renewal, cursor, scanned>>

(* ... or raise DeliveryLostError.                                         *)
AckLost(t) ==
  /\ At(t, "ackNo")
  /\ Raise(t)
  /\ UNCHANGED <<runnerVars, storeVars, faults, driverVars>>

(* A Redis command of a lane fails: not executed, or executed and its      *)
(* reply lost.                                                             *)
RedisError(t) ==
  /\ ~cancelled[t] /\ pc[t] \in (ReceivePcs \ {"wait"}) \cup AckPcs
  /\ Fault
  /\ Raise(t)
  /\ UNCHANGED <<runnerVars, storeVars, driverVars>>

(* _OWNED_RENEW_BATCH over all local deliveries: refresh all of them ...   *)
Renew(c) ==
  /\ Alive(c) /\ renewal[c] = "sleep" /\ pending[c] # {} /\ LockFree(c)
  /\ \A m \in pending[c] : owner[m] = c
  /\ fresh' = [m \in Messages |-> fresh[m] \/ m \in pending[c]]
  /\ renewal' = [renewal EXCEPT ![c] = "kept"]
  /\ UNCHANGED <<workerVars, published, lastDelivered, owner, acked, pending, cursor, scanned>>

(* ... or, if one of them is not ours any more, none.                      *)
RenewRefused(c) ==
  /\ Alive(c) /\ renewal[c] = "sleep" /\ LockFree(c)
  /\ \E m \in pending[c] : owner[m] # c
  /\ renewal' = [renewal EXCEPT ![c] = "lost"]
  /\ UNCHANGED <<workerVars, streamVars, pending, cursor, scanned>>

RenewReply(c) ==
  /\ Alive(c) /\ renewal[c] = "kept"
  /\ renewal' = [renewal EXCEPT ![c] = "sleep"]
  /\ UNCHANGED <<workerVars, streamVars, pending, cursor, scanned>>

(* _renew ends with an exception: cancel the lanes of all deliveries.      *)
EndRenewal(c) ==
  /\ renewal' = [renewal EXCEPT ![c] = "failed"]
  /\ Cancel({t \in LanesOf(c) : Executing(t) /\ held[t] \in pending[c]})
  /\ UNCHANGED <<runnerVars, pc, held, storeVars, streamVars, pending, cursor, scanned>>

RenewLost(c) ==
  /\ Alive(c) /\ renewal[c] = "lost"
  /\ EndRenewal(c)
  /\ UNCHANGED faults

(* The batch times out, waiting for the lock included, or its command      *)
(* fails.                                                                  *)
RenewError(c) ==
  /\ Alive(c) /\ renewal[c] \in {"sleep", "kept"} /\ pending[c] # {}
  /\ Fault
  /\ EndRenewal(c)

-----------------------------------------------------------------------------
(* RedisConsumer.aclose: the renewal task is cancelled, unacknowledged     *)
(* entries are left to expire.                                             *)
Close(c) ==
  /\ RunnerExit(c)
  /\ renewal' = [renewal EXCEPT ![c] = "off"]
  /\ UNCHANGED <<streamVars, pending, cursor, scanned>>

Crash(c) ==
  /\ RunnerCrash(c)
  /\ renewal' = [renewal EXCEPT ![c] = "off"]
  /\ UNCHANGED <<streamVars, pending, cursor, scanned>>

(* The owner of m's entry is alive and is renewing it, or is about to      *)
(* receive the reply that gave it the entry.                               *)
LeaseKept(m) ==
  LET c == owner[m]
  IN  /\ Alive(c)
      /\ \/ m \in pending[c] /\ renewal[c] # "failed"
         \/ \E t \in LanesOf(c) : pc[t] \in ReplyPcs /\ held[t] = m

(* m's entry has been idle for the lease.                                  *)
Expire(m) ==
  /\ InPel(m) /\ fresh[m]
  /\ fresh' = [fresh EXCEPT ![m] = FALSE]
  /\ IF LeaseKept(m) THEN Fault ELSE UNCHANGED faults
  /\ UNCHANGED <<runnerVars, laneVars, storeVars, published, lastDelivered,
                 owner, acked, consumerVars>>

-----------------------------------------------------------------------------
LaneStep(t) ==
  \/ EnterReceive(t) \/ AutoClaim(t) \/ AutoClaimEmpty(t) \/ ReadNew(t) \/ ReadEmpty(t)
  \/ ReceiveRaises(t) \/ Deliver(t) \/ DeliverLapsed(t)
  \/ Ack(t) \/ AckRefused(t) \/ AckReply(t) \/ AckLost(t)

Next ==
  \/ Publish
  \/ WorkerStep /\ UNCHANGED driverVars
  \/ \E t \in Lanes : LaneStep(t) \/ RedisError(t)
  \/ \E c \in Consumers :
       \/ Start(c) \/ Close(c) \/ Crash(c)
       \/ Renew(c) \/ RenewRefused(c) \/ RenewReply(c) \/ RenewLost(c) \/ RenewError(c)
  \/ \E m \in Messages : Expire(m)

Spec == Init /\ [][Next]_vars
-----------------------------------------------------------------------------
(* Fairness.  Code that is not blocked runs: lanes (a handler ends, by its *)
(* own timeout if need be), the runner, the renewal task, and Redis's      *)
(* clock for entries nobody renews.  A supervisor starts the workers.      *)
(* Fairness of a lane is strong because asyncio.Lock is first come, first  *)
(* served: the renewal task that takes the lock again and again does not   *)
(* keep an acknowledgement waiting for ever.                               *)
(* No fairness for publishing, stop signals, drain timeouts or faults.     *)
LaneProgress(t) ==
  \/ LaneStep(t)
  \/ /\ \/ CancelLane(t) \/ SwallowCancel(t)
        \/ Find(t) \/ FindReply(t) \/ Succeed(t) \/ FailJob(t)
        \/ Save(t) \/ SaveReply(t) \/ SaveDuplicate(t) \/ SaveVanished(t)
     /\ UNCHANGED driverVars

RunnerProgress(c) ==
  \/ Start(c) \/ Close(c)
  \/ (RunnerStop(c) \/ RunnerFail(c)) /\ UNCHANGED driverVars

RenewalProgress(c) == RenewReply(c) \/ RenewLost(c)

UnkeptExpire(m) == InPel(m) /\ ~LeaseKept(m) /\ Expire(m)

Fairness ==
  /\ \A t \in Lanes : SF_vars(LaneProgress(t))
  /\ \A c \in Consumers : WF_vars(RunnerProgress(c)) /\ WF_vars(RenewalProgress(c))
  /\ \A m \in Messages : WF_vars(UnkeptExpire(m))

FairSpec == Spec /\ Fairness

-----------------------------------------------------------------------------
(* Properties.                                                             *)

(* A message leaves Redis only after its job succeeded or its failure was  *)
(* persisted: _finish saves first and acknowledges last, whatever lane,    *)
(* consumer or restart the message went through.                           *)
NoLoss == \A m \in Messages : acked[m] => m \in succeeded \cup recorded

(* Two lanes of one worker never execute the same message at once: an      *)
(* entry reclaimed from ourselves is refused by "key in self.pending".     *)
OneLanePerMessage ==
  \A t, u \in Lanes :
    /\ t # u /\ Home[t] = Home[u]
    /\ Executing(t) /\ Executing(u)
    => held[t] # held[u]

(* A worker fails only if something went wrong outside it: while there was *)
(* no fault, acknowledgements, renewals, takeovers and stops of any number *)
(* of workers never make a lane raise or a renewal end, except in a worker *)
(* whose drain has timed out (a lane cancelled while it waited for the     *)
(* reply to an acknowledgement leaves a delivery behind, which the next    *)
(* renewal takes for a lost one).                                          *)
NoSpuriousFailure ==
  faults = 0 => /\ \A t \in Lanes : pc[t] = "failed" => mode[Home[t]] \in {"cancelling", "closed"}
                /\ \A c \in Consumers :
                     renewal[c] \in {"lost", "failed"} => mode[c] = "cancelling"

(* Two workers never work on the same message at once while there was no   *)
(* fault: takeovers wait for the lease, and the renewals of its worker     *)
(* keep the lease of every job in hand, however long it runs and whatever  *)
(* else that worker acknowledges, receives or drains.  The exception is a  *)
(* worker whose drain has timed out: its renewal task may end (see above)  *)
(* while a handler that absorbed its cancellation still runs.              *)
RunByOneWorker ==
  faults = 0 =>
    \A t, u \in Lanes :
      /\ Home[t] # Home[u]
      /\ Executing(t) /\ Executing(u) /\ held[t] = held[u]
      => "cancelling" \in {mode[Home[t]], mode[Home[u]]}

(* The owner of a message does not decide to run it while its failure is   *)
(* on record: after a lost acknowledgement the redelivery finds the record *)
(* and only acknowledges, and what is delivered without a look-up cannot   *)
(* have failed before.                                                     *)
NoRerunOfRecordedFailure ==
  [][\A t \in Lanes :
       DecidesToRun(t) /\ owner[held'[t]] = Home[t] => held'[t] \notin failures]_vars

(* Every published message is settled eventually, unless every worker has  *)
(* gone: orphaned entries expire, are taken over, and get done.            *)
EventuallySettled ==
  \A m \in Messages :
    m <= published ~> \/ acked[m]
                      \/ \A c \in Consumers : mode[c] \in {"closed", "crashed"}

(* A stop signal ends a worker that has not failed before it drains:       *)
(* receivers are cancelled, running jobs complete or are cancelled, and    *)
(* the consumer is closed.                                                 *)
StopEnds ==
  \A c \in Consumers :
    mode[c] = "running" /\ stop[c] ~> mode[c] \in {"closed", "crashed", "failing"}

(* docs/worker.md: a consumption, acknowledgement, store, definition or    *)
(* lease error stops the whole worker.  Taken at its word, a worker that   *)
(* is going down on such an error hands no further message to a lane.      *)
(* Violated: on this path the stop event is not set, so a lane whose       *)
(* handler absorbs the one cancellation goes back to receive().            *)
FailedWorkerTakesNoMore ==
  [][\A t \in Lanes :
       mode[Home[t]] = "failing" /\ Receiving(t) => pc'[t] \notin ExecutePcs]_vars

(* The workers and the stream implement the abstract promise.              *)
JD == INSTANCE JobDelivery WITH
        status <- [m \in Messages |->
                     IF acked[m] THEN "settled"
                     ELSE IF m <= published THEN "live" ELSE "unsent"]

DeliversAtLeastOnce == JD!Spec
=============================================================================
