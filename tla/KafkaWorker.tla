---------------------------- MODULE KafkaWorker ----------------------------
(***************************************************************************)
(* Workers on the Kafka driver (infrastructure/queue/drivers/kafka.py): a  *)
(* topic whose partitions are shared out among the members of one consumer *)
(* group, with manual commits.  A partition has at most one delivery in a  *)
(* consumer; committing its offset settles it and lets the next one in.    *)
(* A change of the group's members takes every partition from every member *)
(* and hands them out again, from the committed offsets on.                *)
(*                                                                         *)
(* The group and the client are external and modelled as the driver uses   *)
(* them: while a reassignment is under way getone() returns nothing, the   *)
(* listener's callbacks run to their end without interruption, and the     *)
(* broker accepts a commit only from a member of the present generation.   *)
(* A commit that was sent may be executed after its lane was cancelled.    *)
(***************************************************************************)
EXTENDS Worker

CONSTANTS Partitions,   \* partitions of the topic
          PartitionOf   \* PartitionOf[m]: the partition m is published to

ASSUME PartitionAssumption == PartitionOf \in [Messages -> Partitions]

Unread == [p \in Partitions |-> 0]

VARIABLES
  published,  \* messages 1..published have been sent; the order in a partition
  committed,  \* committed[p]: the last message of p settled by a commit, or 0
  members,    \* members of the group's present generation
  assigned,   \* assigned[p]: the member this generation gives p to
  flight,     \* <<c, m>>: a commit of m by c that the broker has yet to execute
  phase,      \* phase[c]: where c's client is in joining the group
  parts,      \* parts[c]: the partitions c's client reads
  position,   \* position[c][p]: the last message c's client returned, or 0
  paused,     \* paused[c]: partitions paused in c's client
  pending,    \* pending[c]: keys of KafkaConsumer.pending
  trusted,    \* trusted[c]: KafkaConsumer.trusted_partitions
  stale       \* stale[t]: t's delivery is of an earlier KafkaConsumer.generation

brokerVars   == <<published, committed, members, assigned, flight>>
clientVars   == <<phase, parts, position, paused>>
consumerVars == <<pending, trusted, stale>>
driverVars   == <<brokerVars, clientVars, consumerVars>>
vars         == <<workerVars, driverVars>>

(* The awaits of receive(): _lock ("wait") and getone() ("poll").          *)
ReceivePcs == {"wait", "poll"}

(* A client is out of the group, has asked to join the next generation, is *)
(* in it and waits for its partitions, or reads them.                      *)
Phases == {"out", "joining", "syncing", "stable"}

TypeOK ==
  /\ WorkerTypeOK
  /\ pc \in [Lanes -> ReceivePcs \cup ExecutePcs \cup EndPcs]
  /\ published \in 0..MaxMessages
  /\ committed \in [Partitions -> Messages \cup {0}]
  /\ members \in SUBSET Consumers
  /\ assigned \in [Partitions -> Consumers \cup {None}]
  /\ flight \in SUBSET (Consumers \X Messages)
  /\ phase \in [Consumers -> Phases]
  /\ parts \in [Consumers -> SUBSET Partitions]
  /\ position \in [Consumers -> [Partitions -> Messages \cup {0}]]
  /\ paused \in [Consumers -> SUBSET Partitions]
  /\ pending \in [Consumers -> SUBSET Partitions]
  /\ trusted \in [Consumers -> SUBSET Partitions]
  /\ stale \in [Lanes -> BOOLEAN]

Init ==
  /\ WorkerInit
  /\ published = 0
  /\ committed = Unread
  /\ members = {} /\ flight = {}
  /\ assigned = [p \in Partitions |-> None]
  /\ phase = [c \in Consumers |-> "out"]
  /\ parts = [c \in Consumers |-> {}]
  /\ position = [c \in Consumers |-> Unread]
  /\ paused = [c \in Consumers |-> {}]
  /\ pending = [c \in Consumers |-> {}]
  /\ trusted = [c \in Consumers |-> {}]
  /\ stale = [t \in Lanes |-> FALSE]

(* c's client drops its assignment, and with it positions and pauses.      *)
Unassign(c) == /\ parts' = [parts EXCEPT ![c] = {}]
               /\ position' = [position EXCEPT ![c] = Unread]
               /\ paused' = [paused EXCEPT ![c] = {}]

(* The consumer object is gone with its process, or after aclose().        *)
Discard(c) == /\ phase' = [phase EXCEPT ![c] = "out"]
              /\ Unassign(c)
              /\ pending' = [pending EXCEPT ![c] = {}]
              /\ trusted' = [trusted EXCEPT ![c] = {}]

-----------------------------------------------------------------------------
(* KafkaBackend.publish.                                                   *)
Publish ==
  /\ published < MaxMessages
  /\ published' = published + 1
  /\ UNCHANGED <<workerVars, committed, members, assigned, flight, clientVars, consumerVars>>

(* KafkaBackend.consumer, then WorkerRunner.run.                           *)
Start(c) ==
  /\ StartLanes(c)
  /\ phase' = [phase EXCEPT ![c] = "joining"]
  /\ UNCHANGED <<brokerVars, parts, position, paused, consumerVars>>

-----------------------------------------------------------------------------
(* The consumer group.                                                     *)

(* The group has to be rebuilt: somebody wants to join, or the owner of a  *)
(* partition has gone.                                                     *)
RebalanceDue == \/ \E c \in Consumers : phase[c] = "joining"
                \/ \E p \in Partitions : assigned[p] \notin members \cup {None}

(* Commits under way that the broker will refuse: their lanes get an error.*)
Refuse(requests) ==
  /\ flight' = flight \ requests
  /\ pc' = [t \in Lanes |-> IF pc[t] = "ack" /\ <<Home[t], held[t]>> \in requests
                            THEN "ackNo" ELSE pc[t]]

(* All members have asked for the next generation, or have been removed:   *)
(* it begins, with the partitions handed out anew.                         *)
Rebalance(a) ==
  LET joining == {c \in Consumers : phase[c] = "joining"}
  IN  /\ joining # {} /\ members \subseteq joining
      /\ a \in [Partitions -> joining]
      /\ members' = joining
      /\ assigned' = a
      /\ phase' = [c \in Consumers |-> IF c \in joining THEN "syncing" ELSE phase[c]]
      /\ Refuse(flight)
      /\ UNCHANGED <<runnerVars, held, cancelled, storeVars, faults, published, committed,
                     parts, position, paused, consumerVars>>

(* The broker has not heard of c for the session timeout: c has crashed,   *)
(* or its event loop is stalled.                                           *)
Evict(c) ==
  /\ c \in members
  /\ IF Alive(c) THEN Fault ELSE UNCHANGED faults
  /\ members' = members \ {c}
  /\ Refuse({r \in flight : r[1] = c})
  /\ UNCHANGED <<runnerVars, held, cancelled, storeVars, published, committed, assigned,
                 clientVars, consumerVars>>

-----------------------------------------------------------------------------
(* RebalanceListener.                                                      *)

(* c's client learns that it has to join again: on_partitions_revoked.     *)
(* The deliveries of the old generation are void, their lanes cancelled.   *)
Revoking(c) == /\ Alive(c) /\ phase[c] \in {"stable", "syncing"}
               /\ RebalanceDue \/ c \notin members

Voided(c) == {t \in LanesOf(c) : Executing(t) /\ ~stale[t]}

(* Mutant: every lane is cancelled, not only those with a delivery.        *)
RevokeCancelsAll(c) ==
  /\ Revoking(c)
  /\ phase' = [phase EXCEPT ![c] = "joining"]
  /\ pending' = [pending EXCEPT ![c] = {}]
  /\ Unassign(c)
  /\ trusted' = [trusted EXCEPT ![c] = @ \ parts[c]]
  /\ Cancel(LanesOf(c))
  /\ stale' = [t \in Lanes |-> stale[t] \/ t \in Voided(c)]
  /\ UNCHANGED <<runnerVars, pc, held, storeVars, faults, brokerVars>>

Revoke(c) ==
  /\ Revoking(c)
  /\ phase' = [phase EXCEPT ![c] = "joining"]
  /\ pending' = [pending EXCEPT ![c] = {}]
  /\ Unassign(c)
  /\ trusted' = [trusted EXCEPT ![c] = @ \ parts[c]]
  /\ Cancel(Voided(c))
  /\ stale' = [t \in Lanes |-> stale[t] \/ t \in Voided(c)]
  /\ UNCHANGED <<runnerVars, pc, held, storeVars, faults, brokerVars>>

(* Mutant: auto_offset_reset="latest".                                     *)
StartAtEnd == [p \in Partitions |-> IF committed[p] = 0 THEN published ELSE committed[p]]

(* Where a client starts to read: after the committed offset, or at the    *)
(* beginning if there is none (auto_offset_reset="earliest").              *)
StartPositions == committed

(* c's client obtains its partitions: on_partitions_assigned.              *)
Assign(c) ==
  LET ps == {p \in Partitions : assigned[p] = c}
  IN  /\ Alive(c) /\ phase[c] = "syncing" /\ c \in members
      /\ phase' = [phase EXCEPT ![c] = "stable"]
      /\ parts' = [parts EXCEPT ![c] = ps]
      /\ position' = [position EXCEPT ![c] = StartPositions]
      /\ paused' = [paused EXCEPT ![c] = {}]
      /\ trusted' = [trusted EXCEPT ![c] = @ \ ps]
      /\ UNCHANGED <<workerVars, brokerVars, pending, stale>>

-----------------------------------------------------------------------------
(* KafkaConsumer.receive.                                                  *)

EnterReceive(t) ==
  /\ At(t, "wait") /\ \A u \in LanesOf(Home[t]) : pc[u] # "poll"
  /\ Goto(t, "poll")
  /\ UNCHANGED <<runnerVars, held, cancelled, storeVars, faults, driverVars>>

(* m is the message of its partition that follows message n.               *)
Follows(m, n) ==
  /\ n < m
  /\ \A k \in Messages : PartitionOf[k] = PartitionOf[m] /\ n < k => m <= k

(* getone() returns m; its partition is paused until m is settled.  (That  *)
(* a partition with a pending delivery is not paused is refused by the     *)
(* code; it does not happen.)                                              *)
Deliver(t, m) ==
  LET c == Home[t]
      p == PartitionOf[m]
  IN  /\ At(t, "poll") /\ phase[c] = "stable"
      /\ p \in parts[c] \ paused[c]
      /\ m <= published /\ Follows(m, position[c][p])
      /\ position' = [position EXCEPT ![c][p] = m]
      /\ paused' = [paused EXCEPT ![c] = @ \cup {p}]
      /\ pending' = [pending EXCEPT ![c] = @ \cup {p}]
      /\ held' = [held EXCEPT ![t] = m]
      /\ stale' = [stale EXCEPT ![t] = FALSE]
      /\ Goto(t, FirstStep(p \notin trusted[c]))
      /\ UNCHANGED <<runnerVars, cancelled, storeVars, faults, brokerVars, phase, parts,
                     trusted>>

-----------------------------------------------------------------------------
(* KafkaDelivery.acknowledge.                                              *)

Sent(t) == <<Home[t], held[t]>> \in flight

(* Mutant: the generation is not looked at.                                *)
AckSendStale(t) ==
  /\ At(t, "ack") /\ ~Sent(t)
  /\ Home[t] \in members
  /\ flight' = flight \cup {<<Home[t], held[t]>>}
  /\ UNCHANGED <<workerVars, published, committed, members, assigned, clientVars, consumerVars>>

(* The delivery is of the present generation: the commit is sent.          *)
AckSend(t) ==
  /\ At(t, "ack") /\ ~Sent(t) /\ ~stale[t]
  /\ Home[t] \in members
  /\ flight' = flight \cup {<<Home[t], held[t]>>}
  /\ UNCHANGED <<workerVars, published, committed, members, assigned, clientVars, consumerVars>>

(* The broker has removed us from the group: the commit fails.             *)
AckRefused(t) ==
  /\ At(t, "ack") /\ ~Sent(t) /\ ~stale[t]
  /\ Home[t] \notin members
  /\ Goto(t, "ackNo")
  /\ UNCHANGED <<runnerVars, held, cancelled, storeVars, faults, driverVars>>

(* The delivery is void: DeliveryLostError.                                *)
AckStale(t) ==
  /\ At(t, "ack") /\ ~Sent(t) /\ stale[t]
  /\ Raise(t)
  /\ UNCHANGED <<runnerVars, storeVars, faults, driverVars>>

(* The broker executes a commit.                                           *)
Commit(c, m) ==
  /\ <<c, m>> \in flight
  /\ flight' = flight \ {<<c, m>>}
  /\ committed' = [committed EXCEPT ![PartitionOf[m]] = m]
  /\ pc' = [t \in Lanes |-> IF pc[t] = "ack" /\ Home[t] = c /\ held[t] = m
                            THEN "ackOk" ELSE pc[t]]
  /\ UNCHANGED <<runnerVars, held, cancelled, storeVars, faults, published, members, assigned,
                 clientVars, consumerVars>>

(* Mutant: the partition stays paused.                                     *)
AckReplyPaused(t) ==
  LET c == Home[t]
      p == PartitionOf[held[t]]
  IN  /\ At(t, "ackOk") /\ ~stale[t]
      /\ pending' = [pending EXCEPT ![c] = @ \ {p}]
      /\ trusted' = [trusted EXCEPT ![c] = @ \cup {p}]
      /\ EndLane(t, LoopHead(t))
      /\ UNCHANGED <<runnerVars, storeVars, faults, brokerVars, phase, parts, position, paused,
                     stale>>

(* The reply: let the next message of the partition in ...                 *)
AckReply(t) ==
  LET c == Home[t]
      p == PartitionOf[held[t]]
  IN  /\ At(t, "ackOk") /\ ~stale[t]
      /\ pending' = [pending EXCEPT ![c] = @ \ {p}]
      /\ trusted' = [trusted EXCEPT ![c] = @ \cup {p}]
      /\ paused' = [paused EXCEPT ![c] = @ \ {p}]
      /\ EndLane(t, LoopHead(t))
      /\ UNCHANGED <<runnerVars, storeVars, faults, brokerVars, phase, parts, position,
                     stale>>

(* ... or the commit has failed, or the generation has changed meanwhile.  *)
AckLost(t) ==
  /\ pc[t] \in {"ackOk", "ackNo"} /\ ~cancelled[t]
  /\ pc[t] = "ackOk" => stale[t]
  /\ Raise(t)
  /\ UNCHANGED <<runnerVars, storeVars, faults, driverVars>>

(* getone() or commit() fails; a commit may have been sent.                *)
KafkaError(t) ==
  /\ ~cancelled[t] /\ pc[t] \in {"poll"} \cup AckPcs
  /\ Fault
  /\ Raise(t)
  /\ UNCHANGED <<runnerVars, storeVars, driverVars>>

-----------------------------------------------------------------------------
(* KafkaConsumer.aclose: the client leaves the group.                      *)
Close(c) ==
  /\ RunnerExit(c)
  /\ Discard(c)
  /\ members' = members \ {c}
  /\ flight' = {r \in flight : r[1] # c}
  /\ UNCHANGED <<published, committed, assigned, stale>>

Crash(c) ==
  /\ RunnerCrash(c)
  /\ Discard(c)
  /\ UNCHANGED <<brokerVars, stale>>

-----------------------------------------------------------------------------
LaneStep(t) ==
  \/ EnterReceive(t) \/ \E m \in Messages : Deliver(t, m)
  \/ AckSend(t) \/ AckRefused(t) \/ AckStale(t) \/ AckReply(t) \/ AckLost(t)

GroupStep ==
  \/ \E c \in Consumers : Revoke(c) \/ Assign(c)
  \/ \E a \in [Partitions -> Consumers] : Rebalance(a)
  \/ \E c \in Consumers, m \in Messages : Commit(c, m)

Next ==
  \/ Publish \/ GroupStep
  \/ WorkerStep /\ UNCHANGED driverVars
  \/ \E t \in Lanes : LaneStep(t) \/ KafkaError(t)
  \/ \E c \in Consumers : Start(c) \/ Close(c) \/ Crash(c) \/ Evict(c)

Spec == Init /\ [][Next]_vars

-----------------------------------------------------------------------------
(* Fairness, as for Redis: lanes, runner, group protocol, and the session  *)
(* timeout of a dead member.                                               *)
LaneProgress(t) ==
  \/ LaneStep(t)
  \/ /\ \/ CancelLane(t) \/ SwallowCancel(t)
        \/ Find(t) \/ FindReply(t) \/ Succeed(t) \/ FailJob(t)
        \/ Save(t) \/ SaveReply(t) \/ SaveDuplicate(t) \/ SaveVanished(t)
     /\ UNCHANGED driverVars

RunnerProgress(c) ==
  \/ Start(c) \/ Close(c)
  \/ (RunnerStop(c) \/ RunnerFail(c)) /\ UNCHANGED driverVars

GroupProgress(c) ==
  \/ Revoke(c) \/ Assign(c) \/ (~Alive(c) /\ Evict(c))
  \/ \E m \in Messages : Commit(c, m)

Fairness ==
  /\ \A t \in Lanes : SF_vars(LaneProgress(t))
  /\ \A c \in Consumers : WF_vars(RunnerProgress(c)) /\ WF_vars(GroupProgress(c))
  /\ WF_vars(\E a \in [Partitions -> Consumers] : Rebalance(a))

FairSpec == Spec /\ Fairness

-----------------------------------------------------------------------------
(* Properties.                                                             *)

Settled(m) == m <= committed[PartitionOf[m]]

(* Commits never go back: a late or void commit of a consumer that lost    *)
(* the partition does not undo the progress of the new owner.              *)
CommitsAdvance == [][\A p \in Partitions : committed'[p] >= committed[p]]_vars

(* Jobs of one partition run one after the other ("保证同一分区只有一条未  *)
(* 确认任务"): whoever executes a message and has not lost it, everything   *)
(* before it in the partition is settled, across lanes, workers and        *)
(* reassignments.                                                          *)
PartitionOrder ==
  \A t \in Lanes : Executing(t) /\ ~stale[t] =>
    \A m \in Messages : PartitionOf[m] = PartitionOf[held[t]] /\ m < held[t] => Settled(m)

(* docs/worker.md: a rebalance with no job in hand does not stop a worker. *)
(* Lanes fail only after a fault, or with a lane that lost its delivery.   *)
IdleRebalanceHarmless ==
  faults = 0 => \A t \in Lanes : pc[t] = "failed" => \E u \in LanesOf(Home[t]) : stale[u]

(* A member of the group does not decide to run a message while its        *)
(* failure is on record, although only the first message after an          *)
(* assignment is looked up.                                                *)
NoRerunOfRecordedFailure ==
  [][\A t \in Lanes :
       /\ DecidesToRun(t)
       /\ Home[t] \in members /\ assigned[PartitionOf[held'[t]]] = Home[t] /\ ~stale'[t]
       => held'[t] \notin failures]_vars

(* Every message is settled eventually, unless every worker has gone.      *)
EventuallySettled ==
  \A m \in Messages :
    m <= published ~> \/ Settled(m)
                      \/ \A c \in Consumers : mode[c] \in {"closed", "crashed"}

(* The workers and the topic implement the abstract promise.               *)
JD == INSTANCE JobDelivery WITH
        status <- [m \in Messages |->
                     IF Settled(m) THEN "settled"
                     ELSE IF m <= published THEN "live" ELSE "unsent"]

DeliversAtLeastOnce == JD!Spec
=============================================================================
