---------------------------- MODULE RabbitWorker ----------------------------
(***************************************************************************)
(* Workers on the RabbitMQ driver (infrastructure/queue/drivers/           *)
(* rabbitmq.py): a durable queue, one channel per consumer with a prefetch *)
(* of one message per lane, manual acknowledgement.                        *)
(*                                                                         *)
(* The broker pushes messages into the buffer of the consumer's iterator.  *)
(* An acknowledgement is a frame that nobody answers: ack() returns once   *)
(* it is sent.  The broker puts what a channel has not acknowledged back   *)
(* into the queue, marked as redelivered, when the channel ends; the two   *)
(* ends of a broken connection notice that one after the other.            *)
(***************************************************************************)
EXTENDS Worker

(* concurrency is a number of the worker's settings.                       *)
ASSUME LanesAssumption == \A c \in Consumers : IsFiniteSet(LanesOf(c))

VARIABLES
  published,    \* messages 1..published have been confirmed to their publisher
  ready,        \* messages waiting in the queue
  redelivered,  \* messages that have been put back at least once
  unacked,      \* unacked[c]: messages the broker has pushed to c's channel
  channel,      \* channel[c]: the broker holds c's channel open
  link,         \* link[c]: what c's client knows of it: none, open, ended, lost
  buffer,       \* buffer[c]: <<message, redelivered flag>> in c's iterator
  flight        \* <<c, m>>: an acknowledgement on its way to the broker

brokerVars == <<published, ready, redelivered, unacked, channel>>
clientVars == <<link, buffer, flight>>
driverVars == <<brokerVars, clientVars>>
vars       == <<workerVars, driverVars>>

(* The awaits of receive(): _receive_lock ("wait") and __anext__ ("next"). *)
ReceivePcs == {"wait", "next"}

Settled(m) == m <= published /\ m \notin ready /\ \A c \in Consumers : m \notin unacked[c]

TypeOK ==
  /\ WorkerTypeOK
  /\ pc \in [Lanes -> ReceivePcs \cup ExecutePcs \cup EndPcs]
  /\ published \in 0..MaxMessages
  /\ ready \in SUBSET Messages
  /\ redelivered \in SUBSET Messages
  /\ unacked \in [Consumers -> SUBSET Messages]
  /\ channel \in [Consumers -> BOOLEAN]
  /\ link \in [Consumers -> {"none", "open", "ended", "lost"}]
  /\ buffer \in [Consumers -> SUBSET (Messages \X BOOLEAN)]
  /\ flight \in SUBSET (Consumers \X Messages)

Init ==
  /\ WorkerInit
  /\ published = 0
  /\ ready = {} /\ redelivered = {} /\ flight = {}
  /\ unacked = [c \in Consumers |-> {}]
  /\ channel = [c \in Consumers |-> FALSE]
  /\ link = [c \in Consumers |-> "none"]
  /\ buffer = [c \in Consumers |-> {}]

-----------------------------------------------------------------------------
(* RabbitBackend.                                                          *)

(* publish(): the queue exists, the message is persistent and confirmed.   *)
Publish ==
  /\ published < MaxMessages
  /\ published' = published + 1
  /\ ready' = ready \cup {published + 1}
  /\ UNCHANGED <<workerVars, redelivered, unacked, channel, clientVars>>

(* consumer(): open a channel and its iterator; then WorkerRunner.run.     *)
Start(c) ==
  /\ StartLanes(c)
  /\ channel' = [channel EXCEPT ![c] = TRUE]
  /\ link' = [link EXCEPT ![c] = "open"]
  /\ UNCHANGED <<published, ready, redelivered, unacked, buffer, flight>>

(* consumer() fails at one of its steps and closes the channel again; the  *)
(* worker ends without having run.                                         *)
StartError(c) ==
  /\ mode[c] = "new"
  /\ Fault
  /\ mode' = [mode EXCEPT ![c] = "closed"]
  /\ UNCHANGED <<stop, laneVars, storeVars, driverVars>>

(* Mutant: no set_qos, so that the broker pushes as it likes.              *)
Unlimited(c) == MaxMessages

(* set_qos(prefetch_count=concurrency).                                    *)
Prefetch(c) == Cardinality(LanesOf(c))

(* The broker pushes the first message of the queue.                       *)
Push(c, m) ==
  /\ channel[c] /\ link[c] = "open"
  /\ Cardinality(unacked[c]) < Prefetch(c)
  /\ m \in ready /\ \A n \in ready : m <= n
  /\ ready' = ready \ {m}
  /\ unacked' = [unacked EXCEPT ![c] = @ \cup {m}]
  /\ buffer' = [buffer EXCEPT ![c] = @ \cup {<<m, m \in redelivered>>}]
  /\ UNCHANGED <<workerVars, published, redelivered, channel, link, flight>>

(* Mutant: the messages are dropped instead.                               *)
DropUnacked(c) ==
  /\ channel' = [channel EXCEPT ![c] = FALSE]
  /\ unacked' = [unacked EXCEPT ![c] = {}]
  /\ flight' = {r \in flight : r[1] # c}
  /\ UNCHANGED <<ready, redelivered>>

(* The broker ends c's channel: what it has not acknowledged goes back.    *)
Requeue(c) ==
  /\ channel' = [channel EXCEPT ![c] = FALSE]
  /\ ready' = ready \cup unacked[c]
  /\ redelivered' = redelivered \cup unacked[c]
  /\ unacked' = [unacked EXCEPT ![c] = {}]
  /\ flight' = {r \in flight : r[1] # c}

-----------------------------------------------------------------------------
(* RabbitConsumer.receive.                                                 *)

EnterReceive(t) ==
  /\ At(t, "wait") /\ \A u \in LanesOf(Home[t]) : pc[u] # "next"
  /\ Goto(t, "next")
  /\ UNCHANGED <<runnerVars, held, cancelled, storeVars, faults, driverVars>>

(* Mutant: possibly_redelivered is always False.                           *)
DeliverUnmarked(t, d) ==
  /\ At(t, "next") /\ link[Home[t]] # "ended"
  /\ d \in buffer[Home[t]] /\ \A e \in buffer[Home[t]] : d[1] <= e[1]
  /\ buffer' = [buffer EXCEPT ![Home[t]] = @ \ {d}]
  /\ held' = [held EXCEPT ![t] = d[1]]
  /\ Goto(t, FirstStep(FALSE))
  /\ UNCHANGED <<runnerVars, cancelled, storeVars, faults, brokerVars, link, flight>>

(* __anext__ returns the first message of the buffer, also when the        *)
(* channel it came by is already gone.                                     *)
Deliver(t, d) ==
  /\ At(t, "next") /\ link[Home[t]] # "ended"
  /\ d \in buffer[Home[t]] /\ \A e \in buffer[Home[t]] : d[1] <= e[1]
  /\ buffer' = [buffer EXCEPT ![Home[t]] = @ \ {d}]
  /\ held' = [held EXCEPT ![t] = d[1]]
  /\ Goto(t, FirstStep(d[2]))
  /\ UNCHANGED <<runnerVars, cancelled, storeVars, faults, brokerVars, link, flight>>

(* Mutant: the end of the stream is taken for an empty one.                *)
StreamEndIgnored(t) ==
  /\ At(t, "next") /\ link[Home[t]] \in {"ended", "lost"}
  /\ Goto(t, "wait")
  /\ UNCHANGED <<runnerVars, held, cancelled, storeVars, faults, driverVars>>

(* __anext__ raises StopAsyncIteration: QueueError.                        *)
StreamEnd(t) ==
  /\ At(t, "next") /\ link[Home[t]] \in {"ended", "lost"}
  /\ Raise(t)
  /\ UNCHANGED <<runnerVars, storeVars, faults, driverVars>>

(* A lane is cancelled inside __anext__, which closes the iterator.        *)
CancelReceive(t) ==
  /\ pc[t] = "next"
  /\ CancelLane(t)
  /\ link' = [link EXCEPT ![Home[t]] = IF @ = "open" THEN "ended" ELSE @]
  /\ UNCHANGED <<brokerVars, buffer, flight>>

-----------------------------------------------------------------------------
(* RabbitDelivery.acknowledge.                                             *)

(* The channel is closed, as far as the client knows.                      *)
AckError(t) ==
  /\ At(t, "ack") /\ link[Home[t]] = "lost"
  /\ Raise(t)
  /\ UNCHANGED <<runnerVars, storeVars, faults, driverVars>>

(* Mutant: the job is done and its message not acknowledged.               *)
AckForgotten(t) ==
  /\ At(t, "ack") /\ link[Home[t]] # "lost"
  /\ EndLane(t, LoopHead(t))
  /\ UNCHANGED <<runnerVars, storeVars, faults, driverVars>>

(* The frame is sent; on a connection that broke unnoticed it is lost.     *)
AckSend(t) ==
  LET c == Home[t]
  IN  /\ At(t, "ack") /\ link[c] # "lost"
      /\ flight' = IF channel[c] THEN flight \cup {<<c, held[t]>>} ELSE flight
      /\ EndLane(t, LoopHead(t))
      /\ UNCHANGED <<runnerVars, storeVars, faults, brokerVars, link, buffer>>

(* The broker executes it.                                                 *)
BrokerAck(c, m) ==
  /\ <<c, m>> \in flight /\ channel[c]
  /\ flight' = flight \ {<<c, m>>}
  /\ unacked' = [unacked EXCEPT ![c] = @ \ {m}]
  /\ UNCHANGED <<workerVars, published, ready, redelivered, channel, link, buffer>>

-----------------------------------------------------------------------------
(* The connection.                                                         *)

(* The broker drops a channel: the connection broke, or heartbeats of a    *)
(* dead process fail to arrive.                                            *)
Drop(c) ==
  /\ channel[c]
  /\ IF Alive(c) /\ link[c] # "lost" THEN Fault ELSE UNCHANGED faults
  /\ Requeue(c)
  /\ UNCHANGED <<runnerVars, laneVars, storeVars, published, link, buffer>>

(* The client notices, perhaps before the broker does.                     *)
Notice(c) ==
  /\ Alive(c) /\ link[c] \in {"open", "ended"}
  /\ IF channel[c] THEN Fault ELSE UNCHANGED faults
  /\ link' = [link EXCEPT ![c] = "lost"]
  /\ UNCHANGED <<runnerVars, laneVars, storeVars, brokerVars, buffer, flight>>

(* RabbitConsumer.aclose: the iterator is closed and then, in any case,    *)
(* the channel.  The broker takes frames in order, so the acknowledgements *)
(* sent before are executed first; of a connection that the client has     *)
(* lost it hears nothing more, and drops the channel in its own time.      *)
Close(c) ==
  /\ RunnerExit(c)
  /\ IF link[c] = "lost"
     THEN UNCHANGED <<ready, redelivered, unacked, channel, flight>>
     ELSE (\A m \in Messages : <<c, m>> \notin flight) /\ Requeue(c)
  /\ link' = [link EXCEPT ![c] = "lost"]
  /\ buffer' = [buffer EXCEPT ![c] = {}]
  /\ UNCHANGED published

Crash(c) ==
  /\ RunnerCrash(c)
  /\ link' = [link EXCEPT ![c] = "lost"]
  /\ buffer' = [buffer EXCEPT ![c] = {}]
  /\ UNCHANGED <<brokerVars, flight>>

-----------------------------------------------------------------------------
LaneStep(t) ==
  \/ EnterReceive(t) \/ CancelReceive(t) \/ StreamEnd(t) \/ AckSend(t) \/ AckError(t)
  \/ \E d \in Messages \X BOOLEAN : Deliver(t, d)

BrokerStep(c) == \E m \in Messages : Push(c, m) \/ BrokerAck(c, m)

Next ==
  \/ Publish
  \/ WorkerStep /\ UNCHANGED driverVars
  \/ \E t \in Lanes : LaneStep(t)
  \/ \E c \in Consumers :
       \/ Start(c) \/ StartError(c) \/ Close(c) \/ Crash(c)
       \/ BrokerStep(c) \/ Drop(c) \/ Notice(c)

Spec == Init /\ [][Next]_vars

-----------------------------------------------------------------------------
(* Fairness, as for the other drivers: lanes, runner and broker; both ends *)
(* notice a broken connection (heartbeats).                                *)
LaneProgress(t) ==
  \/ LaneStep(t)
  \/ /\ \/ CancelLane(t) \/ SwallowCancel(t)
        \/ Find(t) \/ FindReply(t) \/ Succeed(t) \/ FailJob(t)
        \/ Save(t) \/ SaveReply(t) \/ SaveDuplicate(t) \/ SaveVanished(t)
     /\ UNCHANGED driverVars

RunnerProgress(c) ==
  \/ Start(c) \/ Close(c)
  \/ (RunnerStop(c) \/ RunnerFail(c)) /\ UNCHANGED driverVars

HeartbeatMissed(c) == \/ (~Alive(c) \/ link[c] = "lost") /\ Drop(c)
                      \/ ~channel[c] /\ Notice(c)

Fairness ==
  /\ \A t \in Lanes : SF_vars(LaneProgress(t))
  /\ \A c \in Consumers :
       WF_vars(RunnerProgress(c)) /\ SF_vars(BrokerStep(c)) /\ WF_vars(HeartbeatMissed(c))

FairSpec == Spec /\ Fairness

-----------------------------------------------------------------------------
(* Properties.                                                             *)

(* A message in a worker's buffer has an idle lane to take it: with the    *)
(* concurrency as prefetch, no message waits behind the busy lanes of one  *)
(* worker while another worker could run it.                               *)
NoneHeldBack ==
  \A c \in Consumers : mode[c] = "running" =>
    Cardinality(buffer[c]) <= Cardinality({t \in LanesOf(c) : ~Executing(t)})

(* The holder of a message does not decide to run it while its failure is  *)
(* on record: after a lost acknowledgement the redelivery finds the record *)
(* and only acknowledges, and what the broker delivers for the first time  *)
(* cannot have failed before.                                              *)
NoRerunOfRecordedFailure ==
  [][\A t \in Lanes :
       DecidesToRun(t) /\ held'[t] \in unacked[Home[t]] => held'[t] \notin failures]_vars

(* Every message is settled eventually, unless every worker has gone.      *)
EventuallySettled ==
  \A m \in Messages :
    m <= published ~> \/ Settled(m)
                      \/ \A c \in Consumers : mode[c] \in {"closed", "crashed"}

(* A worker that has lost its channel does not go on waiting for messages  *)
(* that cannot arrive: it ends, so that its supervisor can start it again. *)
LostWorkerEnds ==
  \A c \in Consumers : link[c] = "lost" ~> mode[c] \in {"closed", "crashed"}

(* The workers and the queue implement the abstract promise.               *)
JD == INSTANCE JobDelivery WITH
        status <- [m \in Messages |->
                     IF Settled(m) THEN "settled"
                     ELSE IF m <= published THEN "live" ELSE "unsent"]

DeliversAtLeastOnce == JD!Spec
=============================================================================
