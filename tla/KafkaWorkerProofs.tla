------------------------- MODULE KafkaWorkerProofs --------------------------
(***************************************************************************)
(* Theorems about KafkaWorker for any number of workers, lanes, partitions,*)
(* messages, generations of the group and faults.                          *)
(***************************************************************************)
EXTENDS KafkaWorker, TLAPS

(* A lane from the delivery to the end of the acknowledgement holds a      *)
(* message.                                                                *)
HeldOK == \A t \in Lanes : pc[t] \in ExecutePcs => held[t] # 0

TypeInv == TypeOK /\ HeldOK

USE HomeAssumption, NoneAssumption, BoundsAssumption, PartitionAssumption
    DEF Messages, Modes, Phases, None, Unread, ReceivePcs, ExecutePcs, EndPcs, FindingPcs, SavePcs,
        AckPcs

-----------------------------------------------------------------------------
(* Type correctness.                                                       *)

(* The workers start with their types.                                     *)
LEMMA InitTypeInv == Init => TypeInv
BY DEF Init, WorkerInit, TypeInv, TypeOK, WorkerTypeOK, HeldOK

(* No step breaks the types.                                               *)
LEMMA TypeInvStep == TypeInv /\ [Next]_vars => TypeInv'
<1> SUFFICES ASSUME TypeInv, [Next]_vars PROVE TypeInv'
  OBVIOUS
<1> USE DEF TypeInv, TypeOK, WorkerTypeOK, HeldOK, workerVars, driverVars, runnerVars, laneVars,
            storeVars, brokerVars, clientVars, consumerVars
<1>1. CASE Publish
  BY <1>1 DEF Publish
<1>2. ASSUME NEW c \in Consumers, SetStop(c), UNCHANGED driverVars PROVE TypeInv'
  BY <1>2 DEF SetStop
<1>3. ASSUME NEW c \in Consumers, RunnerStop(c), UNCHANGED driverVars PROVE TypeInv'
  BY <1>3 DEF RunnerStop, Cancel
<1>4. ASSUME NEW c \in Consumers, RunnerFail(c), UNCHANGED driverVars PROVE TypeInv'
  BY <1>4 DEF RunnerFail, Cancel
<1>5. ASSUME NEW c \in Consumers, DrainTimeout(c), UNCHANGED driverVars PROVE TypeInv'
  BY <1>5 DEF DrainTimeout, Cancel
<1>6. ASSUME NEW t \in Lanes, CancelLane(t), UNCHANGED driverVars PROVE TypeInv'
  BY <1>6 DEF CancelLane, EndLane, Goto
<1>7. ASSUME NEW t \in Lanes, SwallowCancel(t), UNCHANGED driverVars PROVE TypeInv'
  BY <1>7 DEF SwallowCancel
<1>8. ASSUME NEW t \in Lanes, Find(t), UNCHANGED driverVars PROVE TypeInv'
  BY <1>8 DEF Find, Goto, At
<1>8a. ASSUME NEW t \in Lanes, FindReply(t), UNCHANGED driverVars PROVE TypeInv'
  BY <1>8a DEF FindReply, Goto, At
<1>9. ASSUME NEW t \in Lanes, Succeed(t), UNCHANGED driverVars PROVE TypeInv'
  BY <1>9 DEF Succeed, Goto, At
<1>10. ASSUME NEW t \in Lanes, FailJob(t), UNCHANGED driverVars PROVE TypeInv'
  BY <1>10 DEF FailJob, Goto, At
<1>11. ASSUME NEW t \in Lanes, DefinitionError(t), UNCHANGED driverVars PROVE TypeInv'
  BY <1>11 DEF DefinitionError, Raise, EndLane, Goto, At, Fault
<1>12. ASSUME NEW t \in Lanes, Save(t), UNCHANGED driverVars PROVE TypeInv'
  BY <1>12 DEF Save, Goto, At
<1>13. ASSUME NEW t \in Lanes, SaveReply(t), UNCHANGED driverVars PROVE TypeInv'
  BY <1>13 DEF SaveReply, Goto, At
<1>14. ASSUME NEW t \in Lanes, SaveDuplicate(t), UNCHANGED driverVars PROVE TypeInv'
  BY <1>14 DEF SaveDuplicate, Goto, At
<1>15. ASSUME NEW t \in Lanes, SaveVanished(t), UNCHANGED driverVars PROVE TypeInv'
  BY <1>15 DEF SaveVanished, Raise, EndLane, Goto, At
<1>16. ASSUME NEW t \in Lanes, StoreError(t), UNCHANGED driverVars PROVE TypeInv'
  BY <1>16 DEF StoreError, Raise, EndLane, Goto, At, Fault
<1>17. ASSUME NEW m \in Messages, Forget(m), UNCHANGED driverVars PROVE TypeInv'
  BY <1>17 DEF Forget, Fault
<1>18. ASSUME NEW t \in Lanes, EnterReceive(t) PROVE TypeInv'
  BY <1>18 DEF EnterReceive, Goto, At
<1>19. ASSUME NEW t \in Lanes, NEW m \in Messages, Deliver(t, m) PROVE TypeInv'
  BY <1>19 DEF Deliver, FirstStep, Goto, At
<1>20. ASSUME NEW t \in Lanes, AckSend(t) PROVE TypeInv'
  BY <1>20 DEF AckSend, At
<1>21. ASSUME NEW t \in Lanes, AckRefused(t) PROVE TypeInv'
  BY <1>21 DEF AckRefused, Goto, At
<1>22. ASSUME NEW t \in Lanes, AckStale(t) PROVE TypeInv'
  BY <1>22 DEF AckStale, Raise, EndLane, Goto, At
<1>23. ASSUME NEW t \in Lanes, AckReply(t) PROVE TypeInv'
  BY <1>23 DEF AckReply, LoopHead, EndLane, Goto, At
<1>24. ASSUME NEW t \in Lanes, AckLost(t) PROVE TypeInv'
  BY <1>24 DEF AckLost, Raise, EndLane, Goto
<1>25. ASSUME NEW t \in Lanes, KafkaError(t) PROVE TypeInv'
  BY <1>25 DEF KafkaError, Raise, EndLane, Goto, Fault
<1>26. ASSUME NEW c \in Consumers, Revoke(c) PROVE TypeInv'
  BY <1>26 DEF Revoke, Unassign, Cancel
<1>27. ASSUME NEW c \in Consumers, Assign(c) PROVE TypeInv'
  BY <1>27 DEF Assign, StartPositions
<1>28. ASSUME NEW a \in [Partitions -> Consumers], Rebalance(a) PROVE TypeInv'
  BY <1>28 DEF Rebalance, Refuse
<1>29. ASSUME NEW c \in Consumers, NEW m \in Messages, Commit(c, m) PROVE TypeInv'
  BY <1>29 DEF Commit
<1>30. ASSUME NEW c \in Consumers, Start(c) PROVE TypeInv'
  BY <1>30 DEF Start, StartLanes, LoopHead
<1>31. ASSUME NEW c \in Consumers, Close(c) PROVE TypeInv'
  BY <1>31 DEF Close, RunnerExit, Discard, Unassign
<1>32. ASSUME NEW c \in Consumers, Crash(c) PROVE TypeInv'
  BY <1>32 DEF Crash, RunnerCrash, Discard, Unassign, Fault
<1>33. ASSUME NEW c \in Consumers, Evict(c) PROVE TypeInv'
  BY <1>33 DEF Evict, Refuse, Fault
<1>34. CASE UNCHANGED vars
  BY <1>34 DEF vars
<1> QED
  BY <1>1, <1>2, <1>3, <1>4, <1>5, <1>6, <1>7, <1>8, <1>8a, <1>9, <1>10, <1>11, <1>12, <1>13, <1>14,
     <1>15, <1>16, <1>17, <1>18, <1>19, <1>20, <1>21, <1>22, <1>23, <1>24, <1>25, <1>26, <1>27,
     <1>28, <1>29, <1>30, <1>31, <1>32, <1>33, <1>34
  DEF Next, WorkerStep, LaneStep, GroupStep

(* Type correctness: every variable of the topic, the group, the clients,  *)
(* the runners and the lanes keeps its type.                               *)
THEOREM KafkaTypeCorrect == Spec => []TypeOK
<1>1. Spec => []TypeInv
  BY InitTypeInv, TypeInvStep, PTL DEF Spec
<1>2. TypeInv => TypeOK
  BY DEF TypeInv
<1> QED
  BY <1>1, <1>2, PTL

-----------------------------------------------------------------------------
(* The group.  That commits advance and that a partition is worked off in  *)
(* order rests on who may commit: only a member of the present generation, *)
(* for a partition that this generation gave it, and what it commits is    *)
(* the first message that is not settled.  A worker that the group has     *)
(* dropped without its knowledge goes on executing, but gets no further.   *)

(* A lane whose delivery is of its consumer's present generation.          *)
Live(t) == Executing(t) /\ ~stale[t]

(* Everything before m in its partition is settled.                        *)
Preds(m) == \A n \in Messages : PartitionOf[n] = PartitionOf[m] /\ n < m => Settled(n)

(* Only a live worker is in the group; its client has partitions, and      *)
(* trusts them, only while it is stable, and those of a member are the     *)
(* ones that the group has given it.                                       *)
ClientOK ==
  \A c \in Consumers :
    /\ phase[c] # "out" => Alive(c)
    /\ phase[c] # "stable" => parts[c] = {}
    /\ trusted[c] \subseteq parts[c]
    /\ c \in members => \A p \in parts[c] : assigned[p] = c

(* The partition of a live delivery is read and paused at it.              *)
LaneOK ==
  \A t \in Lanes : Live(t) =>
    /\ PartitionOf[held[t]] \in parts[Home[t]] \cap paused[Home[t]]
    /\ position[Home[t]][PartitionOf[held[t]]] = held[t]

(* A partition has at most one live delivery in a consumer.                *)
LanesApart ==
  \A t, u \in Lanes :
    /\ Live(t) /\ Live(u) /\ Home[t] = Home[u]
    /\ PartitionOf[held[t]] = PartitionOf[held[u]]
    => t = u

(* A partition that is not paused has been settled up to the position; a   *)
(* member is never behind the commits.                                     *)
PositionOK ==
  \A c \in Consumers : \A p \in parts[c] :
    /\ p \notin paused[c] => position[c][p] <= committed[p]
    /\ c \in members => committed[p] <= position[c][p]

(* A commit under way is of a member for a partition it was given, of the  *)
(* first message that is not settled; while the client reads on, the       *)
(* partition is paused at it.                                              *)
FlightOK ==
  \A c \in Consumers, m \in Messages : <<c, m>> \in flight =>
    /\ c \in members /\ assigned[PartitionOf[m]] = c /\ phase[c] # "syncing"
    /\ Preds(m) /\ ~Settled(m)
    /\ phase[c] = "stable" => /\ PartitionOf[m] \in parts[c] \cap paused[c]
                              /\ position[c][PartitionOf[m]] = m

(* A lane knows what has become of its commit.                             *)
CommitOK ==
  \A t \in Lanes :
    /\ pc[t] = "ackOk" => Settled(held[t])
    /\ Live(t) /\ Home[t] \in members /\ pc[t] \notin {"ackOk", "ackNo"} => ~Settled(held[t])
    /\ Live(t) /\ <<Home[t], held[t]>> \in flight => pc[t] = "ack"

(* Whatever has been delivered or recorded, everything before it is        *)
(* settled.                                                                *)
OrderOK ==
  /\ \A t \in Lanes : held[t] # 0 => Preds(held[t])
  /\ \A m \in recorded : Preds(m)

GroupInv == ClientOK /\ LaneOK /\ LanesApart /\ PositionOK /\ FlightOK /\ CommitOK /\ OrderOK

(* What a step of a lane or a runner does to this, if it is not about the  *)
(* acknowledgement: a lane goes on with its message, or lets go of it.     *)
Quiet ==
  /\ UNCHANGED driverVars
  /\ \A t \in Lanes :
       \/ held'[t] = 0 /\ ~Executing(t)'
       \/ /\ held'[t] = held[t]
          /\ Executing(t)' => Executing(t)
          /\ pc'[t] = pc[t] \/ (pc[t] \notin AckPcs /\ pc'[t] \notin {"ackOk", "ackNo"})
  /\ \A c \in Consumers : Alive(c) => Alive(c)'
  /\ \A m \in recorded' : m \in recorded \/ (m \in Messages /\ \E t \in Lanes : held[t] = m)

(* The steps of Worker leave the consumer group alone.                     *)
LEMMA WorkerQuiet == TypeInv /\ WorkerStep /\ UNCHANGED driverVars => Quiet
<1> SUFFICES ASSUME TypeInv, WorkerStep, UNCHANGED driverVars PROVE Quiet
  OBVIOUS
<1> USE DEF TypeInv, TypeOK, WorkerTypeOK, HeldOK, Quiet, Executing, Alive, runnerVars, laneVars,
            storeVars
<1>1. ASSUME NEW c \in Consumers, SetStop(c), UNCHANGED driverVars PROVE Quiet
  BY <1>1 DEF SetStop
<1>2. ASSUME NEW c \in Consumers, RunnerStop(c), UNCHANGED driverVars PROVE Quiet
  BY <1>2 DEF RunnerStop, Cancel
<1>3. ASSUME NEW c \in Consumers, RunnerFail(c), UNCHANGED driverVars PROVE Quiet
  BY <1>3 DEF RunnerFail, Cancel
<1>4. ASSUME NEW c \in Consumers, DrainTimeout(c), UNCHANGED driverVars PROVE Quiet
  BY <1>4 DEF DrainTimeout, Cancel
<1>5. ASSUME NEW t \in Lanes, CancelLane(t), UNCHANGED driverVars PROVE Quiet
  BY <1>5 DEF CancelLane, EndLane, Goto
<1>6. ASSUME NEW t \in Lanes, SwallowCancel(t), UNCHANGED driverVars PROVE Quiet
  BY <1>6 DEF SwallowCancel
<1>7. ASSUME NEW t \in Lanes, Find(t), UNCHANGED driverVars PROVE Quiet
  BY <1>7 DEF Find, Goto, At
<1>7a. ASSUME NEW t \in Lanes, FindReply(t), UNCHANGED driverVars PROVE Quiet
  BY <1>7a DEF FindReply, Goto, At
<1>8. ASSUME NEW t \in Lanes, Succeed(t), UNCHANGED driverVars PROVE Quiet
  BY <1>8 DEF Succeed, Goto, At
<1>9. ASSUME NEW t \in Lanes, FailJob(t), UNCHANGED driverVars PROVE Quiet
  BY <1>9 DEF FailJob, Goto, At
<1>10. ASSUME NEW t \in Lanes, DefinitionError(t), UNCHANGED driverVars PROVE Quiet
  BY <1>10 DEF DefinitionError, Raise, EndLane, Goto, At, Fault
<1>11. ASSUME NEW t \in Lanes, Save(t), UNCHANGED driverVars PROVE Quiet
  BY <1>11 DEF Save, Goto, At
<1>12. ASSUME NEW t \in Lanes, SaveReply(t), UNCHANGED driverVars PROVE Quiet
  BY <1>12 DEF SaveReply, Goto, At
<1>13. ASSUME NEW t \in Lanes, SaveDuplicate(t), UNCHANGED driverVars PROVE Quiet
  BY <1>13 DEF SaveDuplicate, Goto, At
<1>14. ASSUME NEW t \in Lanes, SaveVanished(t), UNCHANGED driverVars PROVE Quiet
  BY <1>14 DEF SaveVanished, Raise, EndLane, Goto, At
<1>15. ASSUME NEW t \in Lanes, StoreError(t), UNCHANGED driverVars PROVE Quiet
  BY <1>15 DEF StoreError, Raise, EndLane, Goto, At, Fault
<1>16. ASSUME NEW m \in Messages, Forget(m), UNCHANGED driverVars PROVE Quiet
  BY <1>16 DEF Forget, Fault
<1> QED
  BY <1>1, <1>2, <1>3, <1>4, <1>5, <1>6, <1>7, <1>7a, <1>8, <1>9, <1>10, <1>11, <1>12, <1>13, <1>14,
     <1>15, <1>16
  DEF WorkerStep

(* So do these steps of the driver.                                        *)
LEMMA LaneQuiet ==
  TypeInv => \A t \in Lanes :
    EnterReceive(t) \/ AckStale(t) \/ AckLost(t) \/ KafkaError(t) => Quiet
<1> USE DEF TypeInv, TypeOK, WorkerTypeOK, Quiet, Executing, Alive, runnerVars, laneVars,
            storeVars
<1> SUFFICES ASSUME TypeInv, NEW t \in Lanes,
                    EnterReceive(t) \/ AckStale(t) \/ AckLost(t) \/ KafkaError(t)
             PROVE  Quiet
  OBVIOUS
<1>1. CASE EnterReceive(t)
  BY <1>1 DEF EnterReceive, Goto, At
<1>2. CASE AckStale(t)
  BY <1>2 DEF AckStale, Raise, EndLane, Goto, At
<1>3. CASE AckLost(t)
  BY <1>3 DEF AckLost, Raise, EndLane, Goto
<1>4. CASE KafkaError(t)
  BY <1>4 DEF KafkaError, Raise, EndLane, Goto
<1> QED
  BY <1>1, <1>2, <1>3, <1>4

(* A step that leaves the group alone keeps GroupInv.                      *)
LEMMA GroupInvQuiet == TypeInv /\ GroupInv /\ Quiet => GroupInv'
<1> SUFFICES ASSUME TypeInv, GroupInv, Quiet PROVE GroupInv'
  OBVIOUS
<1> USE DEF TypeInv, TypeOK, WorkerTypeOK, GroupInv, Quiet, driverVars, brokerVars, clientVars,
            consumerVars
<1>1. \A m \in Messages : (Settled(m)' <=> Settled(m)) /\ (Preds(m)' <=> Preds(m))
  BY DEF Settled, Preds
<1>2. \A t \in Lanes : Live(t)' => Live(t) /\ held'[t] = held[t] /\ held[t] \in Messages
  BY DEF Live, Executing, HeldOK
<1>3. ClientOK'
  BY DEF ClientOK, Alive
<1>4. LaneOK' /\ LanesApart'
  BY <1>2 DEF LaneOK, LanesApart
<1>5. PositionOK'
  BY DEF PositionOK
<1>6. FlightOK'
  BY <1>1 DEF FlightOK
<1>7. CommitOK'
  <2>1. ASSUME NEW t \in Lanes, pc'[t] = "ackOk" PROVE Settled(held[t])'
    BY <2>1 DEF CommitOK, Executing, HeldOK, Settled
  <2>2. ASSUME NEW t \in Lanes, Live(t)', Home[t] \in members, pc'[t] \notin {"ackOk", "ackNo"}
        PROVE  ~Settled(held[t])'
    <3>1. Live(t) /\ held'[t] = held[t] /\ pc[t] \notin {"ackOk", "ackNo"}
      BY <1>2, <2>2 DEF Live
    <3>2. ~Settled(held[t])
      BY <2>2, <3>1 DEF CommitOK
    <3> QED BY <3>1, <3>2 DEF Settled
  <2>3. ASSUME NEW t \in Lanes, Live(t)', <<Home[t], held'[t]>> \in flight PROVE pc'[t] = "ack"
    BY <1>2, <2>3 DEF CommitOK
  <2> QED BY <2>1, <2>2, <2>3 DEF CommitOK
<1>8. OrderOK'
  <2>1. ASSUME NEW t \in Lanes, held'[t] # 0 PROVE Preds(held[t])'
    BY <2>1 DEF OrderOK, Preds, Settled
  <2>2. ASSUME NEW m \in recorded' PROVE Preds(m)'
    <3>1. m \in Messages /\ Preds(m)
      <4>1. CASE m \in recorded
        BY <4>1 DEF OrderOK
      <4>2. CASE m \in Messages /\ \E t \in Lanes : held[t] = m
        BY <4>2 DEF OrderOK
      <4> QED BY <2>2, <4>1, <4>2
    <3> QED BY <1>1, <3>1
  <2> QED BY <2>1, <2>2 DEF OrderOK
<1> QED
  BY <1>3, <1>4, <1>5, <1>6, <1>7, <1>8

(* A commit settles the one message it is for, and moves the offset on.    *)
LEMMA CommitSettles ==
  ASSUME TypeInv, GroupInv, NEW c \in Consumers, NEW m \in Messages, Commit(c, m)
  PROVE  /\ committed[PartitionOf[m]] < m
         /\ \A n \in Messages : Settled(n)' <=> Settled(n) \/ n = m
<1>1. Preds(m) /\ ~Settled(m)
  BY DEF Commit, GroupInv, FlightOK
<1>2. committed \in [Partitions -> Messages \cup {0}]
  BY DEF TypeInv, TypeOK
<1>3. committed' = [committed EXCEPT ![PartitionOf[m]] = m]
  BY DEF Commit
<1>4. PICK q \in Nat : q = committed[PartitionOf[m]]
  BY <1>2
<1>5. ~(m <= q) /\ \A n \in Messages : PartitionOf[n] = PartitionOf[m] /\ n < m => n <= q
  BY <1>1, <1>4 DEF Settled, Preds
<1>6. q < m
  BY <1>5
<1>7. ASSUME NEW n \in Messages, PartitionOf[n] = PartitionOf[m]
      PROVE  n <= m <=> n <= q \/ n = m
  BY <1>5, <1>7
<1>8. ASSUME NEW n \in Messages, PartitionOf[n] # PartitionOf[m]
      PROVE  committed'[PartitionOf[n]] = committed[PartitionOf[n]] /\ n # m
  BY <1>2, <1>3, <1>8
<1>9. committed'[PartitionOf[m]] = m
  BY <1>2, <1>3
<1> QED
  BY <1>4, <1>6, <1>7, <1>8, <1>9 DEF Settled

(* GroupInv is inductive: one case for each step of group and driver.      *)
LEMMA GroupInvStep == TypeInv /\ GroupInv /\ [Next]_vars => GroupInv'
<1> SUFFICES ASSUME TypeInv, GroupInv, [Next]_vars PROVE GroupInv'
  OBVIOUS
<1> USE DEF TypeInv, TypeOK, WorkerTypeOK, HeldOK, GroupInv, workerVars, driverVars, runnerVars,
            laneVars, storeVars, brokerVars, clientVars, consumerVars
<1>1. CASE Publish
  <2>1. \A m \in Messages : (Settled(m)' <=> Settled(m)) /\ (Preds(m)' <=> Preds(m))
    BY <1>1 DEF Publish, Settled, Preds
  <2>2. ClientOK'
    BY <1>1 DEF ClientOK, Publish, Alive
  <2>3. LaneOK'
    BY <1>1, <2>1 DEF LaneOK, Publish, Live, Executing
  <2>4. LanesApart'
    BY <1>1, <2>1 DEF LanesApart, Publish, Live, Executing
  <2>5. PositionOK'
    BY <1>1, <2>1 DEF PositionOK, Publish
  <2>6. FlightOK'
    BY <1>1, <2>1 DEF FlightOK, Publish
  <2>7. CommitOK'
    BY <1>1, <2>1 DEF CommitOK, Publish, Live, Executing
  <2>8. OrderOK'
    BY <1>1, <2>1 DEF OrderOK, Publish
  <2> QED BY <2>2, <2>3, <2>4, <2>5, <2>6, <2>7, <2>8
<1>2. ASSUME NEW t \in Lanes, NEW m \in Messages, Deliver(t, m) PROVE GroupInv'
  <2>1. \A n \in Messages : (Settled(n)' <=> Settled(n)) /\ (Preds(n)' <=> Preds(n))
    BY <1>2 DEF Deliver, Settled, Preds
  <2>2. /\ PartitionOf[m] \in parts[Home[t]] \ paused[Home[t]] /\ phase[Home[t]] = "stable"
        /\ position[Home[t]][PartitionOf[m]] < m
        /\ \A n \in Messages :
             PartitionOf[n] = PartitionOf[m] /\ n < m => n <= position[Home[t]][PartitionOf[m]]
    <3>1. /\ PartitionOf[m] \in parts[Home[t]] \ paused[Home[t]] /\ phase[Home[t]] = "stable"
          /\ Follows(m, position[Home[t]][PartitionOf[m]])
      BY <1>2 DEF Deliver
    <3>2. PICK k \in Nat : k = position[Home[t]][PartitionOf[m]]
      OBVIOUS
    <3>3. k < m /\ \A n \in Messages : PartitionOf[n] = PartitionOf[m] /\ k < n => m <= n
      BY <3>1, <3>2 DEF Follows
    <3>4. \A n \in Messages : PartitionOf[n] = PartitionOf[m] /\ n < m => n <= k
      BY <3>3
    <3> QED BY <3>1, <3>2, <3>3, <3>4
  <2>3. /\ pc[t] = "poll" /\ pc' = [pc EXCEPT ![t] = pc'[t]] /\ pc'[t] \in {"find", "run"}
        /\ held' = [held EXCEPT ![t] = m] /\ stale' = [stale EXCEPT ![t] = FALSE]
        /\ UNCHANGED <<runnerVars, recorded, brokerVars, phase, parts, trusted>>
        /\ position' = [position EXCEPT ![Home[t]][PartitionOf[m]] = m]
        /\ paused' = [paused EXCEPT ![Home[t]] = @ \cup {PartitionOf[m]}]
    BY <1>2 DEF Deliver, FirstStep, Goto, At
  <2>4. Preds(m) /\ (Home[t] \in members => ~Settled(m)) /\ <<Home[t], m>> \notin flight
    <3>a. PICK k \in Nat : k = position[Home[t]][PartitionOf[m]]
      OBVIOUS
    <3>b. PICK q \in Nat : q = committed[PartitionOf[m]]
      OBVIOUS
    <3>1. k = position[Home[t]][PartitionOf[m]] /\ q = committed[PartitionOf[m]]
      BY <3>a, <3>b
    <3>2. k <= q /\ (Home[t] \in members => q <= k)
      BY <2>2, <3>1 DEF PositionOK
    <3>3. k < m /\ \A n \in Messages : PartitionOf[n] = PartitionOf[m] /\ n < m => n <= k
      BY <2>2, <3>1
    <3>4. ASSUME NEW n \in Messages, PartitionOf[n] = PartitionOf[m], n < m PROVE Settled(n)
      <4>1. n <= q
        BY <3>2, <3>3, <3>4
      <4> QED BY <3>1, <3>4, <4>1 DEF Settled
    <3>5. Home[t] \in members => ~(m <= q)
      BY <3>2, <3>3
    <3>6. <<Home[t], m>> \notin flight
      BY <2>2 DEF FlightOK
    <3> QED BY <3>1, <3>4, <3>5, <3>6 DEF Preds, Settled
  <2>5. ClientOK'
    BY <2>3 DEF ClientOK, Alive
  <2>6. LaneOK'
    BY <2>2, <2>3 DEF LaneOK, Live, Executing
  <2>7. LanesApart'
    <3>1. ASSUME NEW u \in Lanes, u # t, Live(u)', Home[u] = Home[t]
          PROVE  PartitionOf[held'[u]] # PartitionOf[m]
      BY <2>2, <2>3, <3>1 DEF Live, Executing, LaneOK
    <3>2. ASSUME NEW u \in Lanes, u # t PROVE (Live(u)' <=> Live(u)) /\ held'[u] = held[u]
      BY <2>3, <3>2 DEF Live, Executing
    <3>3. held'[t] = m
      BY <2>3
    <3> QED BY <3>1, <3>2, <3>3 DEF LanesApart
  <2>8. PositionOK'
    <3>1. ASSUME NEW e \in Consumers, NEW p \in parts[e], e # Home[t] \/ p # PartitionOf[m]
          PROVE  /\ position'[e][p] = position[e][p]
                 /\ p \in paused'[e] <=> p \in paused[e]
      BY <2>3, <3>1
    <3>2. PartitionOf[m] \in paused'[Home[t]] /\ position'[Home[t]][PartitionOf[m]] = m
      BY <2>3
    <3>3. Home[t] \in members => committed[PartitionOf[m]] <= m
      <4>a. PICK k \in Nat : k = position[Home[t]][PartitionOf[m]]
        OBVIOUS
      <4>b. PICK q \in Nat : q = committed[PartitionOf[m]]
        OBVIOUS
      <4>1. k = position[Home[t]][PartitionOf[m]] /\ q = committed[PartitionOf[m]]
        BY <4>a, <4>b
      <4>2. k < m /\ (Home[t] \in members => q <= k)
        BY <2>2, <4>1 DEF PositionOK
      <4>3. Home[t] \in members => q <= m
        BY <4>2
      <4> QED BY <4>1, <4>3
    <3>4. UNCHANGED <<parts, members, committed>>
      BY <2>3
    <3>5. ASSUME NEW e \in Consumers, NEW p \in parts[e]
          PROVE  /\ p \notin paused'[e] => position'[e][p] <= committed[p]
                 /\ e \in members => committed[p] <= position'[e][p]
      <4>1. CASE e = Home[t] /\ p = PartitionOf[m]
        BY <3>2, <3>3, <4>1
      <4>2. CASE e # Home[t] \/ p # PartitionOf[m]
        BY <3>1, <4>2 DEF PositionOK
      <4> QED BY <4>1, <4>2
    <3> QED BY <3>4, <3>5 DEF PositionOK
  <2>9. FlightOK'
    BY <1>2, <2>1, <2>2, <2>3, <2>4 DEF FlightOK, Deliver, FirstStep, Goto, At
  <2>10. CommitOK'
    <3>1. ASSUME NEW u \in Lanes, u # t
          PROVE  pc'[u] = pc[u] /\ held'[u] = held[u] /\ (Live(u)' <=> Live(u))
      BY <2>3, <3>1 DEF Live, Executing
    <3>2. ASSUME NEW u \in Lanes, u # t
          PROVE  /\ pc'[u] = "ackOk" => Settled(held[u])'
                 /\ Live(u)' /\ Home[u] \in members /\ pc'[u] \notin {"ackOk", "ackNo"}
                      => ~Settled(held[u])'
                 /\ Live(u)' /\ <<Home[u], held'[u]>> \in flight => pc'[u] = "ack"
      BY <2>3, <3>1, <3>2 DEF CommitOK, Settled
    <3>3. pc'[t] # "ackOk" /\ held'[t] = m
      BY <2>3
    <3>4. Home[t] \in members => ~Settled(held[t])'
      BY <2>3, <2>4, <3>3 DEF Settled
    <3> QED BY <2>3, <2>4, <3>2, <3>3, <3>4 DEF CommitOK
  <2>11. OrderOK'
    <3>1. ASSUME NEW u \in Lanes, held'[u] # 0 PROVE Preds(held[u])'
      <4>1. Preds(held'[u])
        BY <2>3, <2>4, <3>1 DEF OrderOK
      <4> QED BY <2>3, <4>1 DEF Preds, Settled
    <3> QED BY <2>1, <2>3, <3>1 DEF OrderOK
  <2> QED BY <2>5, <2>6, <2>7, <2>8, <2>9, <2>10, <2>11
<1>3. ASSUME NEW t \in Lanes, AckSend(t) PROVE GroupInv'
  <2>1. \A m \in Messages : (Settled(m)' <=> Settled(m)) /\ (Preds(m)' <=> Preds(m))
    BY <1>3 DEF AckSend, Settled, Preds
  <2>2. /\ pc[t] = "ack" /\ Live(t) /\ Home[t] \in members /\ held[t] \in Messages
        /\ flight' = flight \cup {<<Home[t], held[t]>>}
    BY <1>3 DEF AckSend, At, Live, Executing
  <2>3. UNCHANGED <<workerVars, committed, members, assigned, clientVars, consumerVars>>
    BY <1>3 DEF AckSend
  <2>4. /\ PartitionOf[held[t]] \in parts[Home[t]] \cap paused[Home[t]]
        /\ position[Home[t]][PartitionOf[held[t]]] = held[t]
        /\ assigned[PartitionOf[held[t]]] = Home[t] /\ phase[Home[t]] = "stable"
    BY <2>2 DEF LaneOK, ClientOK
  <2>5. Preds(held[t]) /\ ~Settled(held[t])
    BY <2>2 DEF OrderOK, CommitOK
  <2>6. ClientOK'
    BY <2>3 DEF ClientOK, Alive
  <2>7. LaneOK'
    BY <2>3 DEF LaneOK, Live, Executing
  <2>8. LanesApart'
    BY <2>3 DEF LanesApart, Live, Executing
  <2>9. PositionOK'
    BY <2>3 DEF PositionOK
  <2>10. FlightOK'
    <3>1. ASSUME NEW c \in Consumers, NEW m \in Messages, <<c, m>> \in flight'
          PROVE  /\ c \in members /\ assigned[PartitionOf[m]] = c /\ phase[c] # "syncing"
                 /\ Preds(m) /\ ~Settled(m)
                 /\ phase[c] = "stable" => /\ PartitionOf[m] \in parts[c] \cap paused[c]
                                           /\ position[c][PartitionOf[m]] = m
      <4>1. CASE <<c, m>> \in flight
        BY <4>1 DEF FlightOK
      <4>2. CASE c = Home[t] /\ m = held[t]
        BY <2>2, <2>4, <2>5, <4>2
      <4> QED BY <2>2, <3>1, <4>1, <4>2
    <3> QED BY <2>1, <2>3, <3>1 DEF FlightOK
  <2>11. CommitOK'
    <3>1. ASSUME NEW u \in Lanes, Live(u), <<Home[u], held[u]>> \in flight' PROVE pc[u] = "ack"
      <4>1. CASE <<Home[u], held[u]>> \in flight
        BY <3>1, <4>1 DEF CommitOK
      <4>2. CASE Home[u] = Home[t] /\ held[u] = held[t]
        BY <2>2, <3>1, <4>2 DEF LanesApart
      <4> QED BY <2>2, <3>1, <4>1, <4>2
    <3>2. \A u \in Lanes : Live(u)' <=> Live(u)
      BY <2>3 DEF Live, Executing
    <3> QED BY <2>3, <3>1, <3>2 DEF CommitOK, Settled
  <2>12. OrderOK'
    BY <2>1, <2>3 DEF OrderOK
  <2> QED BY <2>6, <2>7, <2>8, <2>9, <2>10, <2>11, <2>12
<1>4. ASSUME NEW t \in Lanes, AckRefused(t) PROVE GroupInv'
  <2>1. \A m \in Messages : (Settled(m)' <=> Settled(m)) /\ (Preds(m)' <=> Preds(m))
    BY <1>4 DEF AckRefused, Settled, Preds
  <2>2. /\ pc[t] = "ack" /\ pc' = [pc EXCEPT ![t] = "ackNo"] /\ <<Home[t], held[t]>> \notin flight
        /\ UNCHANGED <<runnerVars, held, recorded, driverVars>>
    BY <1>4 DEF AckRefused, At, Goto, Sent
  <2>3. \A u \in Lanes : Live(u)' <=> Live(u)
    BY <2>2 DEF Live, Executing
  <2>4. ClientOK'
    BY <2>2 DEF ClientOK, Alive
  <2>5. LaneOK'
    BY <2>2, <2>3 DEF LaneOK
  <2>6. LanesApart'
    BY <2>2, <2>3 DEF LanesApart
  <2>7. PositionOK'
    BY <2>2 DEF PositionOK
  <2>8. FlightOK'
    BY <2>1, <2>2 DEF FlightOK
  <2>9. CommitOK'
    BY <2>2, <2>3 DEF CommitOK, Settled
  <2>10. OrderOK'
    BY <2>2 DEF OrderOK, Preds, Settled
  <2> QED BY <2>4, <2>5, <2>6, <2>7, <2>8, <2>9, <2>10
<1>5. ASSUME NEW t \in Lanes, AckReply(t) PROVE GroupInv'
  <2>1. \A m \in Messages : (Settled(m)' <=> Settled(m)) /\ (Preds(m)' <=> Preds(m))
    BY <1>5 DEF AckReply, Settled, Preds
  <2>2. /\ pc[t] = "ackOk" /\ Live(t) /\ held[t] \in Messages /\ pc'[t] \in {"wait", "done"}
        /\ pc' = [pc EXCEPT ![t] = pc'[t]] /\ held' = [held EXCEPT ![t] = 0]
        /\ UNCHANGED <<runnerVars, recorded, brokerVars, phase, parts, position, stale>>
        /\ trusted' = [trusted EXCEPT ![Home[t]] = @ \cup {PartitionOf[held[t]]}]
        /\ paused' = [paused EXCEPT ![Home[t]] = @ \ {PartitionOf[held[t]]}]
    BY <1>5 DEF AckReply, At, EndLane, LoopHead, Goto, Live, Executing
  <2>3. /\ PartitionOf[held[t]] \in parts[Home[t]] /\ phase[Home[t]] = "stable"
        /\ position[Home[t]][PartitionOf[held[t]]] = held[t] /\ Settled(held[t])
    BY <2>2 DEF LaneOK, ClientOK, CommitOK
  <2>4. \A u \in Lanes : Live(u)' => u # t /\ Live(u) /\ held'[u] = held[u] /\ pc'[u] = pc[u]
    BY <2>2 DEF Live, Executing
  <2>5. ClientOK'
    BY <2>2, <2>3 DEF ClientOK, Alive
  <2>6. LaneOK'
    <3>1. ASSUME NEW u \in Lanes, Live(u)', Home[u] = Home[t]
          PROVE  PartitionOf[held[u]] # PartitionOf[held[t]]
      BY <2>2, <2>4, <3>1 DEF LanesApart
    <3> QED BY <2>2, <2>4, <3>1 DEF LaneOK
  <2>7. LanesApart'
    BY <2>4 DEF LanesApart
  <2>8. PositionOK'
    <3>1. held[t] <= committed[PartitionOf[held[t]]]
      BY <2>3 DEF Settled
    <3> QED BY <2>2, <2>3, <3>1 DEF PositionOK
  <2>9. FlightOK'
    <3>1. ASSUME NEW m \in Messages, <<Home[t], m>> \in flight
          PROVE  PartitionOf[m] # PartitionOf[held[t]]
      BY <2>3, <3>1 DEF FlightOK
    <3> QED BY <2>1, <2>2, <3>1 DEF FlightOK
  <2>10. CommitOK'
    <3>1. ASSUME NEW u \in Lanes, pc'[u] = "ackOk" PROVE Settled(held[u])'
      BY <2>2, <3>1 DEF CommitOK, Settled
    <3>2. ASSUME NEW u \in Lanes, Live(u)', Home[u] \in members, pc'[u] \notin {"ackOk", "ackNo"}
          PROVE  ~Settled(held[u])'
      BY <2>2, <2>4, <3>2 DEF CommitOK, Settled
    <3> QED BY <2>2, <2>4, <3>1, <3>2 DEF CommitOK
  <2>11. OrderOK'
    <3>1. ASSUME NEW u \in Lanes, held'[u] # 0 PROVE Preds(held[u])'
      BY <2>2, <3>1 DEF OrderOK, Preds, Settled
    <3> QED BY <2>1, <2>2, <3>1 DEF OrderOK
  <2> QED BY <2>5, <2>6, <2>7, <2>8, <2>9, <2>10, <2>11
<1>6. ASSUME NEW c \in Consumers, Revoke(c) PROVE GroupInv'
  <2>1. \A m \in Messages : (Settled(m)' <=> Settled(m)) /\ (Preds(m)' <=> Preds(m))
    BY <1>6 DEF Revoke, Unassign, Cancel, Settled, Preds
  <2>2. \A u \in Lanes : Live(u)' => Live(u) /\ Home[u] # c
    BY <1>6 DEF Revoke, Voided, LanesOf, Live, Executing
  <2>3. UNCHANGED <<runnerVars, pc, held, recorded, brokerVars>>
    BY <1>6 DEF Revoke
  <2>4. ClientOK'
    BY <1>6 DEF ClientOK, Revoke, Revoking, Unassign, Alive
  <2>5. LaneOK'
    BY <1>6, <2>2 DEF LaneOK, Revoke, Unassign
  <2>6. LanesApart'
    BY <2>2, <2>3 DEF LanesApart
  <2>7. PositionOK'
    BY <1>6, <2>1, <2>2, <2>3 DEF PositionOK, Revoke, Unassign, Cancel
  <2>8. FlightOK'
    BY <1>6, <2>1, <2>2, <2>3 DEF FlightOK, Revoke, Unassign, Cancel
  <2>9. CommitOK'
    BY <2>2, <2>3 DEF CommitOK, Settled
  <2>10. OrderOK'
    BY <2>3 DEF OrderOK, Preds, Settled
  <2> QED BY <2>4, <2>5, <2>6, <2>7, <2>8, <2>9, <2>10
<1>7. ASSUME NEW c \in Consumers, Assign(c) PROVE GroupInv'
  <2>1. \A m \in Messages : (Settled(m)' <=> Settled(m)) /\ (Preds(m)' <=> Preds(m))
    BY <1>7 DEF Assign, StartPositions, Settled, Preds
  <2>2. UNCHANGED <<workerVars, brokerVars, stale>> /\ phase[c] = "syncing"
    BY <1>7 DEF Assign
  <2>3. \A u \in Lanes : (Live(u)' <=> Live(u)) /\ (Live(u) => Home[u] # c)
    BY <2>2 DEF Live, Executing, LaneOK, ClientOK
  <2>4. ClientOK'
    BY <1>7 DEF ClientOK, Assign, Alive
  <2>5. LaneOK'
    BY <1>7, <2>3 DEF LaneOK, Assign
  <2>6. LanesApart'
    BY <2>2, <2>3 DEF LanesApart
  <2>7. PositionOK'
    <3>1. ASSUME NEW e \in Consumers, NEW p \in parts'[e], e # c
          PROVE  /\ p \notin paused'[e] => position'[e][p] <= committed[p]
                 /\ e \in members => committed[p] <= position'[e][p]
      BY <1>7, <3>1 DEF Assign, PositionOK
    <3>2. \A p \in Partitions : position'[c][p] = committed[p] /\ committed[p] \in Nat
      BY <1>7 DEF Assign, StartPositions
    <3>3. parts'[c] \subseteq Partitions
      BY <1>7 DEF Assign
    <3>4. ASSUME NEW p \in parts'[c] PROVE position'[c][p] <= committed[p] /\ committed[p] <= position'[c][p]
      BY <3>2, <3>3
    <3> QED BY <2>2, <3>1, <3>4 DEF PositionOK
  <2>8. FlightOK'
    BY <1>7, <2>1, <2>2 DEF FlightOK, Assign
  <2>9. CommitOK'
    BY <2>2, <2>3 DEF CommitOK, Settled
  <2>10. OrderOK'
    BY <2>2 DEF OrderOK, Preds, Settled
  <2> QED BY <2>4, <2>5, <2>6, <2>7, <2>8, <2>9, <2>10
<1>8. ASSUME NEW a \in [Partitions -> Consumers], Rebalance(a) PROVE GroupInv'
  <2>1. \A m \in Messages : (Settled(m)' <=> Settled(m)) /\ (Preds(m)' <=> Preds(m))
    BY <1>8 DEF Rebalance, Refuse, Settled, Preds
  <2>2. /\ \A c \in members' : phase[c] = "joining" /\ parts[c] = {}
        /\ UNCHANGED <<runnerVars, held, recorded, committed, parts, position, paused, trusted, stale>>
    BY <1>8 DEF Rebalance, ClientOK
  <2>3. flight' = {} /\ pc' = [u \in Lanes |-> IF pc[u] = "ack" /\ <<Home[u], held[u]>> \in flight
                                             THEN "ackNo" ELSE pc[u]]
    BY <1>8 DEF Rebalance, Refuse
  <2>4. \A u \in Lanes : (Live(u)' <=> Live(u)) /\ (Live(u) => Home[u] \notin members')
    BY <2>2, <2>3 DEF Live, Executing, LaneOK
  <2>5. ClientOK'
    BY <1>8, <2>2 DEF ClientOK, Rebalance, Alive
  <2>6. LaneOK'
    BY <2>2, <2>4 DEF LaneOK
  <2>7. LanesApart'
    BY <2>2, <2>4 DEF LanesApart
  <2>8. PositionOK'
    BY <2>2 DEF PositionOK
  <2>9. FlightOK'
    BY <2>3 DEF FlightOK
  <2>10. CommitOK'
    BY <2>2, <2>3, <2>4 DEF CommitOK, Settled
  <2>11. OrderOK'
    BY <2>2 DEF OrderOK, Preds, Settled
  <2> QED BY <2>5, <2>6, <2>7, <2>8, <2>9, <2>10, <2>11
<1>9. ASSUME NEW c \in Consumers, NEW m \in Messages, Commit(c, m) PROVE GroupInv'
  <2>1. /\ c \in members /\ assigned[PartitionOf[m]] = c /\ Preds(m) /\ ~Settled(m)
        /\ phase[c] = "stable" => position[c][PartitionOf[m]] = m
    BY <1>9 DEF Commit, FlightOK
  <2>2. /\ <<c, m>> \in flight /\ flight' = flight \ {<<c, m>>}
        /\ committed' = [committed EXCEPT ![PartitionOf[m]] = m]
        /\ pc' = [t \in Lanes |-> IF pc[t] = "ack" /\ Home[t] = c /\ held[t] = m
                                  THEN "ackOk" ELSE pc[t]]
        /\ UNCHANGED <<runnerVars, held, recorded, members, assigned, clientVars, consumerVars>>
    BY <1>9 DEF Commit
  <2>3. \A n \in Messages : Settled(n)' <=> Settled(n) \/ n = m
    BY <1>9, CommitSettles
  <2>4. \A n \in Messages : Preds(n) => Preds(n)'
    BY <2>3 DEF Preds
  <2>5. \A u \in Lanes : Live(u)' <=> Live(u)
    BY <2>2 DEF Live, Executing
  <2>6. \A u \in Lanes : Live(u) => held[u] \in Messages
    BY DEF Live, Executing
  <2>7. ClientOK'
    BY <2>2 DEF ClientOK, Alive
  <2>8. LaneOK'
    BY <2>2, <2>5 DEF LaneOK
  <2>9. LanesApart'
    BY <2>2, <2>5 DEF LanesApart
  <2>10. PositionOK'
    <3>1. committed[PartitionOf[m]] < m
      BY <1>9, CommitSettles
    <3>2. ASSUME NEW e \in Consumers, PartitionOf[m] \in parts[e], e \in members
          PROVE  position[e][PartitionOf[m]] = m
      BY <2>1, <3>2 DEF ClientOK
    <3> QED BY <2>2, <3>1, <3>2 DEF PositionOK
  <2>11. FlightOK'
    <3>1. ASSUME NEW d \in Consumers, NEW n \in Messages, <<d, n>> \in flight' PROVE n # m
      BY <2>1, <2>2, <3>1 DEF FlightOK
    <3> QED BY <2>2, <2>3, <2>4, <3>1 DEF FlightOK
  <2>12. CommitOK'
    <3>1. ASSUME NEW u \in Lanes, pc'[u] = "ackOk" PROVE Settled(held[u])'
      <4>1. held[u] \in Messages /\ (Settled(held[u]) \/ held[u] = m)
        BY <2>2, <3>1 DEF CommitOK
      <4>2. PICK n \in Messages : n = held[u] /\ Settled(n)'
        BY <2>3, <4>1
      <4> QED BY <2>2, <4>2 DEF Settled
    <3>2. ASSUME NEW u \in Lanes, Live(u)', Home[u] \in members, pc'[u] \notin {"ackOk", "ackNo"}
          PROVE  ~Settled(held[u])'
      <4>1. Live(u) /\ pc'[u] = pc[u] /\ held[u] \in Messages /\ ~Settled(held[u])
        BY <2>2, <2>5, <2>6, <3>2 DEF CommitOK
      <4>2. held[u] # m
        <5>1. ASSUME held[u] = m PROVE FALSE
          <6>1. Home[u] = c
            BY <2>1, <3>2, <4>1, <5>1 DEF LaneOK, ClientOK
          <6>2. pc[u] = "ack"
            BY <2>2, <4>1, <5>1, <6>1 DEF CommitOK
          <6> QED BY <2>2, <3>2, <5>1, <6>1, <6>2
        <5> QED BY <5>1
      <4>3. PICK n \in Messages : n = held[u] /\ ~Settled(n)'
        BY <2>3, <4>1, <4>2
      <4> QED BY <2>2, <4>3 DEF Settled
    <3>3. ASSUME NEW u \in Lanes, Live(u)', <<Home[u], held'[u]>> \in flight' PROVE pc'[u] = "ack"
      BY <2>2, <2>5, <3>3 DEF CommitOK
    <3> QED BY <2>2, <3>1, <3>2, <3>3 DEF CommitOK
  <2>13. OrderOK'
    <3>1. ASSUME NEW u \in Lanes, held'[u] # 0 PROVE Preds(held[u])'
      <4>1. PICK n \in Messages : n = held[u] /\ Preds(n)'
        BY <2>2, <2>4, <3>1 DEF OrderOK
      <4> QED BY <2>2, <4>1 DEF Preds, Settled
    <3> QED BY <2>2, <2>4, <3>1 DEF OrderOK
  <2> QED BY <2>7, <2>8, <2>9, <2>10, <2>11, <2>12, <2>13
<1>10. ASSUME NEW c \in Consumers, Start(c) PROVE GroupInv'
  <2>1. \A m \in Messages : (Settled(m)' <=> Settled(m)) /\ (Preds(m)' <=> Preds(m))
    BY <1>10 DEF Start, StartLanes, LoopHead, Settled, Preds
  <2>2. ClientOK'
    BY <1>10 DEF ClientOK, Start, StartLanes, Alive
  <2>3. LaneOK'
    BY <1>10, <2>1 DEF LaneOK, Start, StartLanes, LoopHead, Live, Executing
  <2>4. LanesApart'
    BY <1>10, <2>1 DEF LanesApart, Start, StartLanes, LoopHead, Live, Executing
  <2>5. PositionOK'
    BY <1>10, <2>1 DEF PositionOK, Start, StartLanes, LoopHead
  <2>6. FlightOK'
    BY <1>10, <2>1 DEF FlightOK, Start, StartLanes, LoopHead
  <2>7. CommitOK'
    BY <1>10, <2>1 DEF CommitOK, Start, StartLanes, LoopHead, Live, Executing
  <2>8. OrderOK'
    BY <1>10, <2>1 DEF OrderOK, Start, StartLanes, LoopHead
  <2> QED BY <2>2, <2>3, <2>4, <2>5, <2>6, <2>7, <2>8
<1>11. ASSUME NEW c \in Consumers, Close(c) PROVE GroupInv'
  <2>1. \A m \in Messages : (Settled(m)' <=> Settled(m)) /\ (Preds(m)' <=> Preds(m))
    BY <1>11 DEF Close, RunnerExit, Discard, Unassign, Settled, Preds
  <2>2. \A u \in Lanes : Live(u)' => Live(u) /\ Home[u] # c
    BY <1>11 DEF Close, RunnerExit, Ended, LanesOf, Live, Executing
  <2>3. ClientOK'
    BY <1>11 DEF ClientOK, Close, RunnerExit, Discard, Unassign, Alive
  <2>4. LaneOK'
    BY <1>11, <2>2 DEF LaneOK, Close, RunnerExit, Discard, Unassign
  <2>5. LanesApart'
    BY <1>11, <2>1, <2>2 DEF LanesApart, Close, RunnerExit, Discard, Unassign, Live, Executing
  <2>6. PositionOK'
    BY <1>11, <2>1, <2>2 DEF PositionOK, Close, RunnerExit, Discard, Unassign
  <2>7. FlightOK'
    BY <1>11, <2>1, <2>2 DEF FlightOK, Close, RunnerExit, Discard, Unassign
  <2>8. CommitOK'
    BY <1>11, <2>1, <2>2 DEF CommitOK, Close, RunnerExit, Discard, Unassign, Live, Executing
  <2>9. OrderOK'
    BY <1>11, <2>1, <2>2 DEF OrderOK, Close, RunnerExit, Discard, Unassign
  <2> QED BY <2>3, <2>4, <2>5, <2>6, <2>7, <2>8, <2>9
<1>12. ASSUME NEW c \in Consumers, Crash(c) PROVE GroupInv'
  <2>1. \A m \in Messages : (Settled(m)' <=> Settled(m)) /\ (Preds(m)' <=> Preds(m))
    BY <1>12 DEF Crash, RunnerCrash, Discard, Unassign, Fault, Settled, Preds
  <2>2. ClientOK'
    BY <1>12 DEF ClientOK, Crash, RunnerCrash, Discard, Unassign, Alive
  <2>3. LaneOK'
    BY <1>12, <2>1 DEF LaneOK, Crash, RunnerCrash, Discard, Unassign, Fault, Live, Executing
  <2>4. LanesApart'
    BY <1>12, <2>1 DEF LanesApart, Crash, RunnerCrash, Discard, Unassign, Fault, Live, Executing
  <2>5. PositionOK'
    BY <1>12, <2>1 DEF PositionOK, Crash, RunnerCrash, Discard, Unassign, Fault
  <2>6. FlightOK'
    BY <1>12, <2>1 DEF FlightOK, Crash, RunnerCrash, Discard, Unassign, Fault
  <2>7. CommitOK'
    BY <1>12, <2>1 DEF CommitOK, Crash, RunnerCrash, Discard, Unassign, Fault, Live, Executing
  <2>8. OrderOK'
    BY <1>12, <2>1 DEF OrderOK, Crash, RunnerCrash, Discard, Unassign, Fault
  <2> QED BY <2>2, <2>3, <2>4, <2>5, <2>6, <2>7, <2>8
<1>13. ASSUME NEW c \in Consumers, Evict(c) PROVE GroupInv'
  <2>1. \A m \in Messages : (Settled(m)' <=> Settled(m)) /\ (Preds(m)' <=> Preds(m))
    BY <1>13 DEF Evict, Refuse, Fault, Settled, Preds
  <2>2. ClientOK'
    BY <1>13 DEF ClientOK, Evict, Alive
  <2>3. LaneOK'
    BY <1>13, <2>1 DEF LaneOK, Evict, Refuse, Fault, Live, Executing
  <2>4. LanesApart'
    BY <1>13, <2>1 DEF LanesApart, Evict, Refuse, Fault, Live, Executing
  <2>5. PositionOK'
    BY <1>13, <2>1 DEF PositionOK, Evict, Refuse, Fault
  <2>6. FlightOK'
    BY <1>13, <2>1 DEF FlightOK, Evict, Refuse, Fault
  <2>7. CommitOK'
    BY <1>13, <2>1 DEF CommitOK, Evict, Refuse, Fault, Live, Executing
  <2>8. OrderOK'
    BY <1>13, <2>1 DEF OrderOK, Evict, Refuse, Fault
  <2> QED BY <2>2, <2>3, <2>4, <2>5, <2>6, <2>7, <2>8
<1>14. CASE WorkerStep /\ UNCHANGED driverVars
  <2>1. Quiet
    BY <1>14, WorkerQuiet
  <2> QED BY <2>1, GroupInvQuiet
<1>15. ASSUME NEW t \in Lanes, EnterReceive(t) \/ AckStale(t) \/ AckLost(t) \/ KafkaError(t)
      PROVE  GroupInv'
  <2>1. Quiet
    BY <1>15, LaneQuiet
  <2> QED BY <2>1, GroupInvQuiet
<1>16. CASE UNCHANGED vars
  <2>1. Quiet
    BY <1>16 DEF vars, Quiet, Executing, Alive
  <2> QED BY <2>1, GroupInvQuiet
<1>17. CASE Next
  <2> HIDE DEF TypeInv, GroupInv
  <2> QED
    BY <1>1, <1>2, <1>3, <1>4, <1>5, <1>6, <1>7, <1>8, <1>9, <1>10, <1>11, <1>12, <1>13, <1>14,
       <1>15, <1>17
    DEF Next, LaneStep, GroupStep
<1> QED
  BY <1>16, <1>17

(* Types and group, in every state.                                        *)
LEMMA GroupInvariant == Spec => [](TypeInv /\ GroupInv)
<1>1. Init => GroupInv
  BY DEF Init, WorkerInit, GroupInv, ClientOK, LaneOK, LanesApart, PositionOK, FlightOK, CommitOK,
         OrderOK, Live, Executing, Alive
<1> QED
  BY <1>1, InitTypeInv, TypeInvStep, GroupInvStep, PTL DEF Spec

(* Nothing but a commit that the broker executes moves an offset.          *)
LEMMA OnlyCommit ==
  ASSUME [Next]_vars, ~(\E c \in Consumers, m \in Messages : Commit(c, m))
  PROVE  UNCHANGED committed
<1> USE DEF brokerVars, driverVars
<1>1. CASE WorkerStep /\ UNCHANGED driverVars
  BY <1>1
<1>2. CASE Publish \/ UNCHANGED vars
  BY <1>2 DEF Publish, vars
<1>3. ASSUME NEW t \in Lanes, LaneStep(t) \/ KafkaError(t) PROVE UNCHANGED committed
  BY <1>3 DEF LaneStep, EnterReceive, Deliver, AckSend, AckRefused, AckStale, AckReply, AckLost,
              KafkaError
<1>4. ASSUME NEW c \in Consumers,
             Revoke(c) \/ Assign(c) \/ Start(c) \/ Close(c) \/ Crash(c) \/ Evict(c)
      PROVE  UNCHANGED committed
  BY <1>4 DEF Revoke, Assign, Start, Close, Crash, Evict
<1>5. ASSUME NEW a \in [Partitions -> Consumers], Rebalance(a) PROVE UNCHANGED committed
  BY <1>5 DEF Rebalance
<1> QED
  BY <1>1, <1>2, <1>3, <1>4, <1>5 DEF Next, GroupStep

(* Commits never go back, whatever becomes of the group while a commit is  *)
(* under way: the broker executes only commits of the present generation,  *)
(* and of those the driver sends each for the first unsettled message.     *)
THEOREM CommitsNeverGoBack == Spec => CommitsAdvance
<1>1. TypeInv /\ GroupInv /\ [Next]_vars => [\A p \in Partitions : committed'[p] >= committed[p]]_vars
  <2> SUFFICES ASSUME TypeInv, GroupInv, [Next]_vars, NEW p \in Partitions
               PROVE  committed'[p] >= committed[p]
    OBVIOUS
  <2>1. committed \in [Partitions -> Messages \cup {0}]
    BY DEF TypeInv, TypeOK
  <2>2. ASSUME NEW c \in Consumers, NEW m \in Messages, Commit(c, m)
        PROVE  committed'[p] >= committed[p]
    <3>1. committed[PartitionOf[m]] < m
      BY <2>2, CommitSettles
    <3>2. committed' = [committed EXCEPT ![PartitionOf[m]] = m]
      BY <2>2 DEF Commit
    <3> QED BY <2>1, <3>1, <3>2
  <2>3. CASE UNCHANGED committed
    BY <2>1, <2>3
  <2> QED BY <2>2, <2>3, OnlyCommit
<1> QED
  BY <1>1, GroupInvariant, PTL DEF Spec, CommitsAdvance

(* The jobs of a partition run one after the other: with every delivery    *)
(* that a worker may still settle, all that was published before it to the *)
(* partition is settled, across lanes, workers and reassignments.          *)
THEOREM PartitionsWorkedInOrder == Spec => []PartitionOrder
<1>1. TypeInv /\ GroupInv => PartitionOrder
  <2> SUFFICES ASSUME TypeInv, GroupInv, NEW t \in Lanes, Executing(t) PROVE Preds(held[t])
    BY DEF PartitionOrder, Preds
  <2> QED BY DEF TypeInv, HeldOK, GroupInv, OrderOK, Executing
<1> QED
  BY <1>1, GroupInvariant, PTL

-----------------------------------------------------------------------------
(* What lanes and commits know of the outcome of a job.                    *)

(* A lane that acknowledges has seen its job succeed or its failure on     *)
(* record.                                                                 *)
LaneKnows ==
  \A t \in Lanes :
    /\ pc[t] \in {"found", "saved", "duplicate"} => held[t] \in recorded
    /\ pc[t] \in AckPcs => held[t] \in succeeded \cup recorded

(* So has the lane whose commit is under way.                              *)
CommitKnows ==
  \A c \in Consumers, m \in Messages : <<c, m>> \in flight => m \in succeeded \cup recorded

(* Nobody works on, or has committed, a message that was not published.    *)
Known ==
  /\ \A t \in Lanes : held[t] <= published
  /\ \A c \in Consumers, m \in Messages : <<c, m>> \in flight => m <= published
  /\ \A p \in Partitions : committed[p] <= published

SafeInv == LaneKnows /\ failures \subseteq recorded /\ CommitKnows /\ Known

(* What is committed, or about to be, is done.                             *)
LEMMA SafeInvStep == TypeInv /\ SafeInv /\ [Next]_vars => SafeInv'
<1> SUFFICES ASSUME TypeInv, SafeInv, [Next]_vars PROVE SafeInv'
  OBVIOUS
<1> USE DEF TypeInv, TypeOK, WorkerTypeOK, HeldOK, SafeInv, LaneKnows, CommitKnows, Known,
            workerVars, driverVars, runnerVars, laneVars, storeVars, brokerVars, clientVars,
            consumerVars
<1>1. CASE Publish
  <2>1. \A n \in Messages \cup {0} : n <= published => n <= published'
    BY <1>1 DEF Publish
  <2>2. UNCHANGED <<workerVars, committed, flight>>
    BY <1>1 DEF Publish
  <2>3. LaneKnows' /\ CommitKnows' /\ (failures \subseteq recorded)'
    BY <2>2
  <2>4. Known'
    BY <2>1, <2>2
  <2> QED BY <2>3, <2>4
<1>2. ASSUME NEW c \in Consumers, SetStop(c), UNCHANGED driverVars PROVE SafeInv'
  BY <1>2 DEF SetStop
<1>3. ASSUME NEW c \in Consumers, RunnerStop(c), UNCHANGED driverVars PROVE SafeInv'
  BY <1>3 DEF RunnerStop, Cancel
<1>4. ASSUME NEW c \in Consumers, RunnerFail(c), UNCHANGED driverVars PROVE SafeInv'
  BY <1>4 DEF RunnerFail, Cancel
<1>5. ASSUME NEW c \in Consumers, DrainTimeout(c), UNCHANGED driverVars PROVE SafeInv'
  BY <1>5 DEF DrainTimeout, Cancel
<1>6. ASSUME NEW t \in Lanes, CancelLane(t), UNCHANGED driverVars PROVE SafeInv'
  BY <1>6 DEF CancelLane, EndLane, Goto
<1>7. ASSUME NEW t \in Lanes, SwallowCancel(t), UNCHANGED driverVars PROVE SafeInv'
  BY <1>7 DEF SwallowCancel
<1>8. ASSUME NEW t \in Lanes, Find(t), UNCHANGED driverVars PROVE SafeInv'
  BY <1>8 DEF Find, Goto, At
<1>8a. ASSUME NEW t \in Lanes, FindReply(t), UNCHANGED driverVars PROVE SafeInv'
  BY <1>8a DEF FindReply, Goto, At
<1>9. ASSUME NEW t \in Lanes, Succeed(t), UNCHANGED driverVars PROVE SafeInv'
  BY <1>9 DEF Succeed, Goto, At
<1>10. ASSUME NEW t \in Lanes, FailJob(t), UNCHANGED driverVars PROVE SafeInv'
  BY <1>10 DEF FailJob, Goto, At
<1>11. ASSUME NEW t \in Lanes, DefinitionError(t), UNCHANGED driverVars PROVE SafeInv'
  BY <1>11 DEF DefinitionError, Raise, EndLane, Goto, At, Fault
<1>12. ASSUME NEW t \in Lanes, Save(t), UNCHANGED driverVars PROVE SafeInv'
  BY <1>12 DEF Save, Goto, At
<1>13. ASSUME NEW t \in Lanes, SaveReply(t), UNCHANGED driverVars PROVE SafeInv'
  BY <1>13 DEF SaveReply, Goto, At
<1>14. ASSUME NEW t \in Lanes, SaveDuplicate(t), UNCHANGED driverVars PROVE SafeInv'
  BY <1>14 DEF SaveDuplicate, Goto, At
<1>15. ASSUME NEW t \in Lanes, SaveVanished(t), UNCHANGED driverVars PROVE SafeInv'
  BY <1>15 DEF SaveVanished, Raise, EndLane, Goto, At
<1>16. ASSUME NEW t \in Lanes, StoreError(t), UNCHANGED driverVars PROVE SafeInv'
  BY <1>16 DEF StoreError, Raise, EndLane, Goto, At, Fault
<1>17. ASSUME NEW m \in Messages, Forget(m), UNCHANGED driverVars PROVE SafeInv'
  BY <1>17 DEF Forget, Fault
<1>18. ASSUME NEW t \in Lanes, EnterReceive(t) PROVE SafeInv'
  BY <1>18 DEF EnterReceive, Goto, At
<1>19. ASSUME NEW t \in Lanes, NEW m \in Messages, Deliver(t, m) PROVE SafeInv'
  BY <1>19 DEF Deliver, FirstStep, Goto, At
<1>20. ASSUME NEW t \in Lanes, AckSend(t) PROVE SafeInv'
  BY <1>20 DEF AckSend, At
<1>21. ASSUME NEW t \in Lanes, AckRefused(t) PROVE SafeInv'
  BY <1>21 DEF AckRefused, Goto, At
<1>22. ASSUME NEW t \in Lanes, AckStale(t) PROVE SafeInv'
  BY <1>22 DEF AckStale, Raise, EndLane, Goto, At
<1>23. ASSUME NEW t \in Lanes, AckReply(t) PROVE SafeInv'
  BY <1>23 DEF AckReply, LoopHead, EndLane, Goto, At
<1>24. ASSUME NEW t \in Lanes, AckLost(t) PROVE SafeInv'
  BY <1>24 DEF AckLost, Raise, EndLane, Goto
<1>25. ASSUME NEW t \in Lanes, KafkaError(t) PROVE SafeInv'
  BY <1>25 DEF KafkaError, Raise, EndLane, Goto, Fault
<1>26. ASSUME NEW c \in Consumers, Revoke(c) PROVE SafeInv'
  BY <1>26 DEF Revoke, Unassign, Cancel
<1>27. ASSUME NEW c \in Consumers, Assign(c) PROVE SafeInv'
  BY <1>27 DEF Assign, StartPositions
<1>28. ASSUME NEW a \in [Partitions -> Consumers], Rebalance(a) PROVE SafeInv'
  BY <1>28 DEF Rebalance, Refuse
<1>29. ASSUME NEW c \in Consumers, NEW m \in Messages, Commit(c, m) PROVE SafeInv'
  BY <1>29 DEF Commit
<1>30. ASSUME NEW c \in Consumers, Start(c) PROVE SafeInv'
  BY <1>30 DEF Start, StartLanes, LoopHead
<1>31. ASSUME NEW c \in Consumers, Close(c) PROVE SafeInv'
  BY <1>31 DEF Close, RunnerExit, Discard, Unassign
<1>32. ASSUME NEW c \in Consumers, Crash(c) PROVE SafeInv'
  BY <1>32 DEF Crash, RunnerCrash, Discard, Unassign, Fault
<1>33. ASSUME NEW c \in Consumers, Evict(c) PROVE SafeInv'
  BY <1>33 DEF Evict, Refuse, Fault
<1>34. CASE UNCHANGED vars
  BY <1>34 DEF vars
<1> QED
  BY <1>1, <1>2, <1>3, <1>4, <1>5, <1>6, <1>7, <1>8, <1>8a, <1>9, <1>10, <1>11, <1>12, <1>13, <1>14,
     <1>15, <1>16, <1>17, <1>18, <1>19, <1>20, <1>21, <1>22, <1>23, <1>24, <1>25, <1>26, <1>27,
     <1>28, <1>29, <1>30, <1>31, <1>32, <1>33, <1>34
  DEF Next, WorkerStep, LaneStep, GroupStep

(* Types, group and safety, in every state.                                *)
LEMMA SafeInvariant == Spec => [](TypeInv /\ GroupInv /\ SafeInv)
<1>1. Init => SafeInv
  BY DEF Init, WorkerInit, SafeInv, LaneKnows, CommitKnows, Known
<1> QED
  BY <1>1, InitTypeInv, TypeInvStep, SafeInvStep, GroupInvariant, PTL DEF Spec

-----------------------------------------------------------------------------
(* Refinement: a message is settled once the offset of its partition has   *)
(* passed it, and because a commit is always of the first unsettled        *)
(* message it settles that one only.                                       *)

(* The initial states are initial states of JobDelivery.                   *)
LEMMA InitRefines == Init => JD!Init
BY DEF Init, WorkerInit, JD!Init, Settled

(* Every step is a step of JobDelivery or a stutter.                       *)
LEMMA StepRefines == TypeInv /\ GroupInv /\ SafeInv /\ [Next]_vars => [JD!Next]_JD!vars
<1> SUFFICES ASSUME TypeInv, GroupInv, SafeInv, [Next]_vars, ~ UNCHANGED JD!vars PROVE JD!Next
  OBVIOUS
<1> USE DEF TypeInv, TypeOK, WorkerTypeOK, HeldOK, SafeInv, LaneKnows, CommitKnows, Known,
            workerVars, driverVars, runnerVars, laneVars, storeVars, brokerVars, clientVars,
            consumerVars, JD!vars
<1>1. CASE Publish
  <2>1. PICK n \in Messages : n = published + 1
    BY <1>1 DEF Publish
  <2>2. \A m \in Messages : m <= published' <=> m <= published \/ m = n
    BY <1>1, <2>1 DEF Publish
  <2>3. ~(n <= published)
    BY <1>1, <2>1 DEF Publish
  <2>4. committed[PartitionOf[n]] \in Nat /\ committed[PartitionOf[n]] <= published
    OBVIOUS
  <2>5. ~Settled(n)
    BY <2>3, <2>4 DEF Settled
  <2>6. \A m \in Messages : Settled(m)' <=> Settled(m)
    BY <1>1 DEF Publish, Settled
  <2>7. UNCHANGED <<succeeded, recorded>>
    BY <1>1 DEF Publish
  <2>8. JD!Publish(n)
    BY ONLY <2>2, <2>3, <2>5, <2>6, <2>7, n \in Messages DEF JD!Publish
  <2> QED BY <2>8 DEF JD!Next, JD!Publish
<1>2. ASSUME NEW t \in Lanes, Succeed(t), UNCHANGED driverVars PROVE JD!Next
  <2>1. held[t] \in Messages /\ held[t] <= published
    BY <1>2 DEF Succeed, At
  <2>2. JD!Succeed(held[t])
    BY <1>2, <2>1 DEF Succeed, JD!Succeed, Settled
  <2> QED BY <2>1, <2>2 DEF JD!Next
<1>3. ASSUME NEW t \in Lanes, Save(t), UNCHANGED driverVars PROVE JD!Next
  <2>1. held[t] \in Messages /\ held[t] <= published
    BY <1>3 DEF Save, At
  <2>2. JD!Record(held[t])
    BY <1>3, <2>1 DEF Save, JD!Record, Settled
  <2> QED BY <2>1, <2>2 DEF JD!Next
<1>4. ASSUME NEW c \in Consumers, NEW m \in Messages, Commit(c, m) PROVE JD!Next
  <2>1. m \in succeeded \cup recorded /\ m <= published
    BY <1>4 DEF Commit
  <2>2. ~Settled(m)
    BY <1>4 DEF Commit, GroupInv, FlightOK
  <2>3. \A n \in Messages : Settled(n)' <=> Settled(n) \/ n = m
    BY <1>4, CommitSettles
  <2>4. JD!Settle(m)
    BY <1>4, <2>1, <2>2, <2>3 DEF Commit, JD!Settle
  <2> QED BY <2>4 DEF JD!Next, JD!Settle
<1>5. ASSUME UNCHANGED <<published, committed, succeeded, recorded>> PROVE FALSE
  BY <1>5 DEF Settled
<1>6. ASSUME NEW c \in Consumers, UNCHANGED driverVars,
             SetStop(c) \/ RunnerStop(c) \/ RunnerFail(c) \/ DrainTimeout(c)
      PROVE  FALSE
  BY <1>5, <1>6 DEF SetStop, RunnerStop, RunnerFail, DrainTimeout
<1>7. ASSUME NEW t \in Lanes, UNCHANGED driverVars,
             \/ CancelLane(t) \/ SwallowCancel(t) \/ Find(t) \/ FindReply(t) \/ FailJob(t)
             \/ DefinitionError(t) \/ SaveReply(t) \/ SaveDuplicate(t) \/ SaveVanished(t) \/ StoreError(t)
      PROVE  FALSE
  BY <1>5, <1>7 DEF CancelLane, SwallowCancel, Find, FindReply, FailJob, DefinitionError,
                    SaveReply, SaveDuplicate, SaveVanished, StoreError
<1>8. ASSUME NEW m \in Messages, Forget(m), UNCHANGED driverVars PROVE FALSE
  BY <1>5, <1>8 DEF Forget
<1>9. ASSUME NEW t \in Lanes, LaneStep(t) \/ KafkaError(t) PROVE FALSE
  BY <1>5, <1>9 DEF LaneStep, EnterReceive, Deliver, AckSend, AckRefused, AckStale, AckReply,
                    AckLost, KafkaError
<1>10. ASSUME NEW c \in Consumers,
              Revoke(c) \/ Assign(c) \/ Start(c) \/ Close(c) \/ Crash(c) \/ Evict(c)
       PROVE  FALSE
  BY <1>5, <1>10 DEF Revoke, Assign, Start, StartLanes, Close, RunnerExit, Crash, RunnerCrash,
                     Evict
<1>11. ASSUME NEW a \in [Partitions -> Consumers], Rebalance(a) PROVE FALSE
  BY <1>5, <1>11 DEF Rebalance
<1>12. ~ UNCHANGED vars
  BY <1>5 DEF vars
<1> QED
  BY <1>1, <1>2, <1>3, <1>4, <1>6, <1>7, <1>8, <1>9, <1>10, <1>11, <1>12
  DEF Next, WorkerStep, GroupStep

(* Workers on Kafka deliver at least once: every behaviour of the topic,   *)
(* the group and the executors is one of JobDelivery.  No message of a     *)
(* partition is skipped by a later commit.                                 *)
THEOREM KafkaImplementsJobDelivery == Spec => DeliversAtLeastOnce
<1>1. Spec => [](TypeInv /\ GroupInv /\ SafeInv)
  BY SafeInvariant
<1> QED
  BY <1>1, InitRefines, StepRefines, PTL DEF Spec, DeliversAtLeastOnce, JD!Spec

-----------------------------------------------------------------------------
(* A rebalance with no job in hand is harmless.                            *)

(* A worker that has not started has no task, a job is executed only by a  *)
(* live one.                                                               *)
RunnerOK ==
  /\ \A t \in Lanes : mode[Home[t]] = "new" => pc[t] = "off" /\ ~cancelled[t] /\ ~stale[t]
  /\ \A t \in Lanes : Executing(t) => Alive(Home[t])

(* A lane that has lost its delivery does not receive again, and while the *)
(* worker is running nothing but the loss of its delivery cancels a lane.  *)
LossOK ==
  /\ \A t \in Lanes : stale[t] => Executing(t) \/ Ended(t)
  /\ \A t \in Lanes : cancelled[t] /\ mode[Home[t]] = "running" => stale[t]

(* Without a fault, a client with an assignment is a member of the group,  *)
(* a commit is refused to a lane that lost its delivery only, and a record *)
(* that was found in the table stays there.                                *)
Undisturbed ==
  faults = 0 =>
    /\ \A c \in Consumers : phase[c] \in {"stable", "syncing"} => c \in members
    /\ \A t \in Lanes : pc[t] = "ackNo" => stale[t]
    /\ \A t \in Lanes : pc[t] = "duplicate" => held[t] \in failures

IdleInv == RunnerOK /\ LossOK /\ Undisturbed /\ IdleRebalanceHarmless

(* task.cancel() on lanes of one worker.                                   *)
LEMMA CancelOwn ==
  ASSUME NEW c \in Consumers, NEW ts \in SUBSET LanesOf(c), Cancel(ts)
  PROVE  \A t \in Lanes : cancelled'[t] => cancelled[t] \/ (Home[t] = c /\ ~Ended(t))
BY DEF Cancel, LanesOf

(* Only a worker that has started has tasks, only a live one executes.     *)
LEMMA RunnerOKStep == TypeInv /\ GroupInv /\ RunnerOK /\ [Next]_vars => RunnerOK'
<1> SUFFICES ASSUME TypeInv, GroupInv, RunnerOK, [Next]_vars PROVE RunnerOK'
  OBVIOUS
<1> USE DEF TypeInv, TypeOK, WorkerTypeOK, RunnerOK, Executing, Alive, workerVars, driverVars,
      runnerVars, laneVars,
            storeVars, brokerVars, clientVars, consumerVars
<1>1. CASE Publish
  BY <1>1 DEF Publish
<1>2. ASSUME NEW c \in Consumers, SetStop(c), UNCHANGED driverVars PROVE RunnerOK'
  BY <1>2 DEF SetStop
<1>3. ASSUME NEW c \in Consumers, RunnerStop(c), UNCHANGED driverVars PROVE RunnerOK'
  <2>1. Cancel({t \in LanesOf(c) : Receiving(t)}) /\ mode[c] \notin {"new", "closed", "crashed"}
    BY <1>3 DEF RunnerStop
  <2>2. \A t \in Lanes : cancelled'[t] => cancelled[t] \/ (Home[t] = c /\ ~Ended(t))
    BY <2>1, CancelOwn
  <2> QED BY <1>3, <2>1, <2>2 DEF RunnerStop, Ended
<1>4. ASSUME NEW c \in Consumers, RunnerFail(c), UNCHANGED driverVars PROVE RunnerOK'
  <2>1. Cancel(LanesOf(c)) /\ mode[c] \notin {"new", "closed", "crashed"}
    BY <1>4 DEF RunnerFail
  <2>2. \A t \in Lanes : cancelled'[t] => cancelled[t] \/ (Home[t] = c /\ ~Ended(t))
    BY <2>1, CancelOwn
  <2> QED BY <1>4, <2>1, <2>2 DEF RunnerFail, Ended
<1>5. ASSUME NEW c \in Consumers, DrainTimeout(c), UNCHANGED driverVars PROVE RunnerOK'
  <2>1. Cancel(LanesOf(c)) /\ mode[c] \notin {"new", "closed", "crashed"}
    BY <1>5 DEF DrainTimeout
  <2>2. \A t \in Lanes : cancelled'[t] => cancelled[t] \/ (Home[t] = c /\ ~Ended(t))
    BY <2>1, CancelOwn
  <2> QED BY <1>5, <2>1, <2>2 DEF DrainTimeout, Ended
<1>6. ASSUME NEW t \in Lanes, CancelLane(t), UNCHANGED driverVars PROVE RunnerOK'
  BY <1>6 DEF CancelLane, EndLane, Goto
<1>7. ASSUME NEW t \in Lanes, SwallowCancel(t), UNCHANGED driverVars PROVE RunnerOK'
  BY <1>7 DEF SwallowCancel
<1>8. ASSUME NEW t \in Lanes, Find(t), UNCHANGED driverVars PROVE RunnerOK'
  BY <1>8 DEF Find, Goto, At
<1>8a. ASSUME NEW t \in Lanes, FindReply(t), UNCHANGED driverVars PROVE RunnerOK'
  BY <1>8a DEF FindReply, Goto, At
<1>9. ASSUME NEW t \in Lanes, Succeed(t), UNCHANGED driverVars PROVE RunnerOK'
  BY <1>9 DEF Succeed, Goto, At
<1>10. ASSUME NEW t \in Lanes, FailJob(t), UNCHANGED driverVars PROVE RunnerOK'
  BY <1>10 DEF FailJob, Goto, At
<1>11. ASSUME NEW t \in Lanes, DefinitionError(t), UNCHANGED driverVars PROVE RunnerOK'
  BY <1>11 DEF DefinitionError, Raise, EndLane, Goto, At, Fault
<1>12. ASSUME NEW t \in Lanes, Save(t), UNCHANGED driverVars PROVE RunnerOK'
  BY <1>12 DEF Save, Goto, At
<1>13. ASSUME NEW t \in Lanes, SaveReply(t), UNCHANGED driverVars PROVE RunnerOK'
  BY <1>13 DEF SaveReply, Goto, At
<1>14. ASSUME NEW t \in Lanes, SaveDuplicate(t), UNCHANGED driverVars PROVE RunnerOK'
  BY <1>14 DEF SaveDuplicate, Goto, At
<1>15. ASSUME NEW t \in Lanes, SaveVanished(t), UNCHANGED driverVars PROVE RunnerOK'
  BY <1>15 DEF SaveVanished, Raise, EndLane, Goto, At
<1>16. ASSUME NEW t \in Lanes, StoreError(t), UNCHANGED driverVars PROVE RunnerOK'
  BY <1>16 DEF StoreError, Raise, EndLane, Goto, At, Fault
<1>17. ASSUME NEW m \in Messages, Forget(m), UNCHANGED driverVars PROVE RunnerOK'
  BY <1>17 DEF Forget, Fault
<1>18. ASSUME NEW t \in Lanes, EnterReceive(t) PROVE RunnerOK'
  BY <1>18 DEF EnterReceive, Goto, At
<1>19. ASSUME NEW t \in Lanes, NEW m \in Messages, Deliver(t, m) PROVE RunnerOK'
  BY <1>19 DEF Deliver, FirstStep, Goto, At, GroupInv, ClientOK
<1>20. ASSUME NEW t \in Lanes, AckSend(t) PROVE RunnerOK'
  BY <1>20 DEF AckSend, At
<1>21. ASSUME NEW t \in Lanes, AckRefused(t) PROVE RunnerOK'
  BY <1>21 DEF AckRefused, Goto, At
<1>22. ASSUME NEW t \in Lanes, AckStale(t) PROVE RunnerOK'
  BY <1>22 DEF AckStale, Raise, EndLane, Goto, At
<1>23. ASSUME NEW t \in Lanes, AckReply(t) PROVE RunnerOK'
  BY <1>23 DEF AckReply, LoopHead, EndLane, Goto, At
<1>24. ASSUME NEW t \in Lanes, AckLost(t) PROVE RunnerOK'
  BY <1>24 DEF AckLost, Raise, EndLane, Goto
<1>25. ASSUME NEW t \in Lanes, KafkaError(t) PROVE RunnerOK'
  BY <1>25 DEF KafkaError, Raise, EndLane, Goto, Fault
<1>26. ASSUME NEW c \in Consumers, Revoke(c) PROVE RunnerOK'
  BY <1>26 DEF Revoke, Unassign, Cancel, Voided, LanesOf
<1>27. ASSUME NEW c \in Consumers, Assign(c) PROVE RunnerOK'
  BY <1>27 DEF Assign, StartPositions
<1>28. ASSUME NEW a \in [Partitions -> Consumers], Rebalance(a) PROVE RunnerOK'
  BY <1>28 DEF Rebalance, Refuse
<1>29. ASSUME NEW c \in Consumers, NEW m \in Messages, Commit(c, m) PROVE RunnerOK'
  BY <1>29 DEF Commit
<1>30. ASSUME NEW c \in Consumers, Start(c) PROVE RunnerOK'
  BY <1>30 DEF Start, StartLanes, LoopHead
<1>31. ASSUME NEW c \in Consumers, Close(c) PROVE RunnerOK'
  BY <1>31 DEF Close, RunnerExit, Discard, Unassign, LanesOf, Ended
<1>32. ASSUME NEW c \in Consumers, Crash(c) PROVE RunnerOK'
  BY <1>32 DEF Crash, RunnerCrash, Discard, Unassign, Fault
<1>33. ASSUME NEW c \in Consumers, Evict(c) PROVE RunnerOK'
  BY <1>33 DEF Evict, Refuse, Fault
<1>34. CASE UNCHANGED vars
  BY <1>34 DEF vars
<1> QED
  BY <1>1, <1>2, <1>3, <1>4, <1>5, <1>6, <1>7, <1>8, <1>8a, <1>9, <1>10, <1>11, <1>12, <1>13, <1>14,
     <1>15, <1>16, <1>17, <1>18, <1>19, <1>20, <1>21, <1>22, <1>23, <1>24, <1>25, <1>26, <1>27,
     <1>28, <1>29, <1>30, <1>31, <1>32, <1>33, <1>34
  DEF Next, WorkerStep, LaneStep, GroupStep

(* A lane that lost its delivery ends; nothing else cancels a lane of a    *)
(* running worker.                                                         *)
LEMMA LossOKStep == TypeInv /\ GroupInv /\ RunnerOK /\ LossOK /\ [Next]_vars => LossOK'
<1> SUFFICES ASSUME TypeInv, GroupInv, RunnerOK, LossOK, [Next]_vars PROVE LossOK'
  OBVIOUS
<1> USE DEF TypeInv, TypeOK, WorkerTypeOK, RunnerOK, LossOK, Executing, Ended, workerVars,
      driverVars, runnerVars, laneVars,
            storeVars, brokerVars, clientVars, consumerVars
<1>1. CASE Publish
  BY <1>1 DEF Publish
<1>2. ASSUME NEW c \in Consumers, SetStop(c), UNCHANGED driverVars PROVE LossOK'
  BY <1>2 DEF SetStop
<1>3. ASSUME NEW c \in Consumers, RunnerStop(c), UNCHANGED driverVars PROVE LossOK'
  <2>1. Cancel({t \in LanesOf(c) : Receiving(t)}) /\ mode[c] \notin {"new", "closed", "crashed"}
    BY <1>3 DEF RunnerStop
  <2>2. \A t \in Lanes : cancelled'[t] => cancelled[t] \/ (Home[t] = c /\ ~Ended(t))
    BY <2>1, CancelOwn
  <2> QED BY <1>3, <2>1, <2>2 DEF RunnerStop, Ended
<1>4. ASSUME NEW c \in Consumers, RunnerFail(c), UNCHANGED driverVars PROVE LossOK'
  <2>1. Cancel(LanesOf(c)) /\ mode[c] \notin {"new", "closed", "crashed"}
    BY <1>4 DEF RunnerFail
  <2>2. \A t \in Lanes : cancelled'[t] => cancelled[t] \/ (Home[t] = c /\ ~Ended(t))
    BY <2>1, CancelOwn
  <2> QED BY <1>4, <2>1, <2>2 DEF RunnerFail, Ended
<1>5. ASSUME NEW c \in Consumers, DrainTimeout(c), UNCHANGED driverVars PROVE LossOK'
  <2>1. Cancel(LanesOf(c)) /\ mode[c] \notin {"new", "closed", "crashed"}
    BY <1>5 DEF DrainTimeout
  <2>2. \A t \in Lanes : cancelled'[t] => cancelled[t] \/ (Home[t] = c /\ ~Ended(t))
    BY <2>1, CancelOwn
  <2> QED BY <1>5, <2>1, <2>2 DEF DrainTimeout, Ended
<1>6. ASSUME NEW t \in Lanes, CancelLane(t), UNCHANGED driverVars PROVE LossOK'
  BY <1>6 DEF CancelLane, EndLane, Goto
<1>7. ASSUME NEW t \in Lanes, SwallowCancel(t), UNCHANGED driverVars PROVE LossOK'
  BY <1>7 DEF SwallowCancel
<1>8. ASSUME NEW t \in Lanes, Find(t), UNCHANGED driverVars PROVE LossOK'
  BY <1>8 DEF Find, Goto, At
<1>8a. ASSUME NEW t \in Lanes, FindReply(t), UNCHANGED driverVars PROVE LossOK'
  BY <1>8a DEF FindReply, Goto, At
<1>9. ASSUME NEW t \in Lanes, Succeed(t), UNCHANGED driverVars PROVE LossOK'
  BY <1>9 DEF Succeed, Goto, At
<1>10. ASSUME NEW t \in Lanes, FailJob(t), UNCHANGED driverVars PROVE LossOK'
  BY <1>10 DEF FailJob, Goto, At
<1>11. ASSUME NEW t \in Lanes, DefinitionError(t), UNCHANGED driverVars PROVE LossOK'
  BY <1>11 DEF DefinitionError, Raise, EndLane, Goto, At, Fault
<1>12. ASSUME NEW t \in Lanes, Save(t), UNCHANGED driverVars PROVE LossOK'
  BY <1>12 DEF Save, Goto, At
<1>13. ASSUME NEW t \in Lanes, SaveReply(t), UNCHANGED driverVars PROVE LossOK'
  BY <1>13 DEF SaveReply, Goto, At
<1>14. ASSUME NEW t \in Lanes, SaveDuplicate(t), UNCHANGED driverVars PROVE LossOK'
  BY <1>14 DEF SaveDuplicate, Goto, At
<1>15. ASSUME NEW t \in Lanes, SaveVanished(t), UNCHANGED driverVars PROVE LossOK'
  BY <1>15 DEF SaveVanished, Raise, EndLane, Goto, At
<1>16. ASSUME NEW t \in Lanes, StoreError(t), UNCHANGED driverVars PROVE LossOK'
  BY <1>16 DEF StoreError, Raise, EndLane, Goto, At, Fault
<1>17. ASSUME NEW m \in Messages, Forget(m), UNCHANGED driverVars PROVE LossOK'
  BY <1>17 DEF Forget, Fault
<1>18. ASSUME NEW t \in Lanes, EnterReceive(t) PROVE LossOK'
  BY <1>18 DEF EnterReceive, Goto, At
<1>19. ASSUME NEW t \in Lanes, NEW m \in Messages, Deliver(t, m) PROVE LossOK'
  BY <1>19 DEF Deliver, FirstStep, Goto, At
<1>20. ASSUME NEW t \in Lanes, AckSend(t) PROVE LossOK'
  BY <1>20 DEF AckSend, At
<1>21. ASSUME NEW t \in Lanes, AckRefused(t) PROVE LossOK'
  BY <1>21 DEF AckRefused, Goto, At
<1>22. ASSUME NEW t \in Lanes, AckStale(t) PROVE LossOK'
  BY <1>22 DEF AckStale, Raise, EndLane, Goto, At
<1>23. ASSUME NEW t \in Lanes, AckReply(t) PROVE LossOK'
  BY <1>23 DEF AckReply, LoopHead, EndLane, Goto, At
<1>24. ASSUME NEW t \in Lanes, AckLost(t) PROVE LossOK'
  BY <1>24 DEF AckLost, Raise, EndLane, Goto
<1>25. ASSUME NEW t \in Lanes, KafkaError(t) PROVE LossOK'
  BY <1>25 DEF KafkaError, Raise, EndLane, Goto, Fault
<1>26. ASSUME NEW c \in Consumers, Revoke(c) PROVE LossOK'
  BY <1>26 DEF Revoke, Unassign, Cancel, Voided, LanesOf
<1>27. ASSUME NEW c \in Consumers, Assign(c) PROVE LossOK'
  BY <1>27 DEF Assign, StartPositions
<1>28. ASSUME NEW a \in [Partitions -> Consumers], Rebalance(a) PROVE LossOK'
  BY <1>28 DEF Rebalance, Refuse
<1>29. ASSUME NEW c \in Consumers, NEW m \in Messages, Commit(c, m) PROVE LossOK'
  BY <1>29 DEF Commit
<1>30. ASSUME NEW c \in Consumers, Start(c) PROVE LossOK'
  BY <1>30 DEF Start, StartLanes, LoopHead
<1>31. ASSUME NEW c \in Consumers, Close(c) PROVE LossOK'
  BY <1>31 DEF Close, RunnerExit, Discard, Unassign
<1>32. ASSUME NEW c \in Consumers, Crash(c) PROVE LossOK'
  BY <1>32 DEF Crash, RunnerCrash, Discard, Unassign, Fault
<1>33. ASSUME NEW c \in Consumers, Evict(c) PROVE LossOK'
  BY <1>33 DEF Evict, Refuse, Fault
<1>34. CASE UNCHANGED vars
  BY <1>34 DEF vars
<1> QED
  BY <1>1, <1>2, <1>3, <1>4, <1>5, <1>6, <1>7, <1>8, <1>8a, <1>9, <1>10, <1>11, <1>12, <1>13, <1>14,
     <1>15, <1>16, <1>17, <1>18, <1>19, <1>20, <1>21, <1>22, <1>23, <1>24, <1>25, <1>26, <1>27,
     <1>28, <1>29, <1>30, <1>31, <1>32, <1>33, <1>34
  DEF Next, WorkerStep, LaneStep, GroupStep

(* Without a fault a commit is refused only where the delivery was lost.   *)
LEMMA UndisturbedStep == TypeInv /\ GroupInv /\ RunnerOK /\ Undisturbed /\ [Next]_vars => Undisturbed'
<1> SUFFICES ASSUME TypeInv, GroupInv, RunnerOK, Undisturbed, [Next]_vars PROVE Undisturbed'
  OBVIOUS
<1> USE DEF TypeInv, TypeOK, WorkerTypeOK, HeldOK, Undisturbed, workerVars, driverVars, runnerVars,
      laneVars,
            storeVars, brokerVars, clientVars, consumerVars
<1>1. CASE Publish
  BY <1>1 DEF Publish
<1>2. ASSUME NEW c \in Consumers, SetStop(c), UNCHANGED driverVars PROVE Undisturbed'
  BY <1>2 DEF SetStop
<1>3. ASSUME NEW c \in Consumers, RunnerStop(c), UNCHANGED driverVars PROVE Undisturbed'
  BY <1>3 DEF RunnerStop, Cancel
<1>4. ASSUME NEW c \in Consumers, RunnerFail(c), UNCHANGED driverVars PROVE Undisturbed'
  BY <1>4 DEF RunnerFail, Cancel
<1>5. ASSUME NEW c \in Consumers, DrainTimeout(c), UNCHANGED driverVars PROVE Undisturbed'
  BY <1>5 DEF DrainTimeout, Cancel
<1>6. ASSUME NEW t \in Lanes, CancelLane(t), UNCHANGED driverVars PROVE Undisturbed'
  BY <1>6 DEF CancelLane, EndLane, Goto
<1>7. ASSUME NEW t \in Lanes, SwallowCancel(t), UNCHANGED driverVars PROVE Undisturbed'
  BY <1>7 DEF SwallowCancel
<1>8. ASSUME NEW t \in Lanes, Find(t), UNCHANGED driverVars PROVE Undisturbed'
  BY <1>8 DEF Find, Goto, At
<1>8a. ASSUME NEW t \in Lanes, FindReply(t), UNCHANGED driverVars PROVE Undisturbed'
  BY <1>8a DEF FindReply, Goto, At
<1>9. ASSUME NEW t \in Lanes, Succeed(t), UNCHANGED driverVars PROVE Undisturbed'
  BY <1>9 DEF Succeed, Goto, At
<1>10. ASSUME NEW t \in Lanes, FailJob(t), UNCHANGED driverVars PROVE Undisturbed'
  BY <1>10 DEF FailJob, Goto, At
<1>11. ASSUME NEW t \in Lanes, DefinitionError(t), UNCHANGED driverVars PROVE Undisturbed'
  BY <1>11 DEF DefinitionError, Raise, EndLane, Goto, At, Fault
<1>12. ASSUME NEW t \in Lanes, Save(t), UNCHANGED driverVars PROVE Undisturbed'
  BY <1>12 DEF Save, Goto, At
<1>13. ASSUME NEW t \in Lanes, SaveReply(t), UNCHANGED driverVars PROVE Undisturbed'
  BY <1>13 DEF SaveReply, Goto, At
<1>14. ASSUME NEW t \in Lanes, SaveDuplicate(t), UNCHANGED driverVars PROVE Undisturbed'
  BY <1>14 DEF SaveDuplicate, Goto, At
<1>15. ASSUME NEW t \in Lanes, SaveVanished(t), UNCHANGED driverVars PROVE Undisturbed'
  BY <1>15 DEF SaveVanished, Raise, EndLane, Goto, At
<1>16. ASSUME NEW t \in Lanes, StoreError(t), UNCHANGED driverVars PROVE Undisturbed'
  BY <1>16 DEF StoreError, Raise, EndLane, Goto, At, Fault
<1>17. ASSUME NEW m \in Messages, Forget(m), UNCHANGED driverVars PROVE Undisturbed'
  BY <1>17 DEF Forget, Fault
<1>18. ASSUME NEW t \in Lanes, EnterReceive(t) PROVE Undisturbed'
  BY <1>18 DEF EnterReceive, Goto, At
<1>19. ASSUME NEW t \in Lanes, NEW m \in Messages, Deliver(t, m) PROVE Undisturbed'
  BY <1>19 DEF Deliver, FirstStep, Goto, At
<1>20. ASSUME NEW t \in Lanes, AckSend(t) PROVE Undisturbed'
  BY <1>20 DEF AckSend, At
<1>21. ASSUME NEW t \in Lanes, AckRefused(t) PROVE Undisturbed'
  BY <1>21 DEF AckRefused, Goto, At, GroupInv, LaneOK, ClientOK, Live, Executing
<1>22. ASSUME NEW t \in Lanes, AckStale(t) PROVE Undisturbed'
  BY <1>22 DEF AckStale, Raise, EndLane, Goto, At
<1>23. ASSUME NEW t \in Lanes, AckReply(t) PROVE Undisturbed'
  BY <1>23 DEF AckReply, LoopHead, EndLane, Goto, At
<1>24. ASSUME NEW t \in Lanes, AckLost(t) PROVE Undisturbed'
  BY <1>24 DEF AckLost, Raise, EndLane, Goto
<1>25. ASSUME NEW t \in Lanes, KafkaError(t) PROVE Undisturbed'
  BY <1>25 DEF KafkaError, Raise, EndLane, Goto, Fault
<1>26. ASSUME NEW c \in Consumers, Revoke(c) PROVE Undisturbed'
  BY <1>26 DEF Revoke, Unassign, Cancel
<1>27. ASSUME NEW c \in Consumers, Assign(c) PROVE Undisturbed'
  BY <1>27 DEF Assign, StartPositions
<1>28. ASSUME NEW a \in [Partitions -> Consumers], Rebalance(a) PROVE Undisturbed'
  <2>1. UNCHANGED <<faults, held, stale, failures>>
    BY <1>28 DEF Rebalance
  <2>2. \A c \in Consumers : phase'[c] \in {"stable", "syncing"} /\ c \notin members' =>
          phase[c] \in {"stable", "syncing"} /\ c \notin members
    BY <1>28 DEF Rebalance
  <2>3. ASSUME NEW t \in Lanes, pc[t] = "ack", <<Home[t], held[t]>> \in flight PROVE stale[t]
    <3>1. Home[t] \in members
      BY <2>3 DEF GroupInv, FlightOK
    <3>2. parts[Home[t]] = {}
      BY <1>28, <3>1 DEF Rebalance, GroupInv, ClientOK
    <3> QED BY <2>3, <3>2 DEF GroupInv, LaneOK, Live, Executing
  <2>4. \A t \in Lanes : /\ pc'[t] = "ackNo" => pc[t] = "ackNo" \/ stale[t]
                         /\ pc'[t] = "duplicate" => pc[t] = "duplicate"
    BY <1>28, <2>3 DEF Rebalance, Refuse
  <2> QED BY <2>1, <2>2, <2>4
<1>29. ASSUME NEW c \in Consumers, NEW m \in Messages, Commit(c, m) PROVE Undisturbed'
  BY <1>29 DEF Commit
<1>30. ASSUME NEW c \in Consumers, Start(c) PROVE Undisturbed'
  BY <1>30 DEF Start, StartLanes, LoopHead
<1>31. ASSUME NEW c \in Consumers, Close(c) PROVE Undisturbed'
  BY <1>31 DEF Close, RunnerExit, Discard, Unassign
<1>32. ASSUME NEW c \in Consumers, Crash(c) PROVE Undisturbed'
  BY <1>32 DEF Crash, RunnerCrash, Discard, Unassign, Fault
<1>33. ASSUME NEW c \in Consumers, Evict(c) PROVE Undisturbed'
  BY <1>33 DEF Evict, Refuse, Fault, RunnerOK, Executing, GroupInv, ClientOK
<1>34. CASE UNCHANGED vars
  BY <1>34 DEF vars
<1> QED
  BY <1>1, <1>2, <1>3, <1>4, <1>5, <1>6, <1>7, <1>8, <1>8a, <1>9, <1>10, <1>11, <1>12, <1>13, <1>14,
     <1>15, <1>16, <1>17, <1>18, <1>19, <1>20, <1>21, <1>22, <1>23, <1>24, <1>25, <1>26, <1>27,
     <1>28, <1>29, <1>30, <1>31, <1>32, <1>33, <1>34
  DEF Next, WorkerStep, LaneStep, GroupStep

(* So an idle worker comes through a rebalance.                            *)
LEMMA HarmlessStep == TypeInv /\ IdleInv /\ [Next]_vars => IdleRebalanceHarmless'
<1> SUFFICES ASSUME TypeInv, IdleInv, [Next]_vars PROVE IdleRebalanceHarmless'
  OBVIOUS
<1> USE DEF TypeInv, TypeOK, WorkerTypeOK, IdleInv, IdleRebalanceHarmless, LanesOf, workerVars,
      driverVars, runnerVars, laneVars,
            storeVars, brokerVars, clientVars, consumerVars
<1>1. CASE Publish
  BY <1>1 DEF Publish
<1>2. ASSUME NEW c \in Consumers, SetStop(c), UNCHANGED driverVars PROVE IdleRebalanceHarmless'
  BY <1>2 DEF SetStop
<1>3. ASSUME NEW c \in Consumers, RunnerStop(c), UNCHANGED driverVars PROVE IdleRebalanceHarmless'
  BY <1>3 DEF RunnerStop, Cancel
<1>4. ASSUME NEW c \in Consumers, RunnerFail(c), UNCHANGED driverVars PROVE IdleRebalanceHarmless'
  BY <1>4 DEF RunnerFail, Cancel
<1>5. ASSUME NEW c \in Consumers, DrainTimeout(c), UNCHANGED driverVars PROVE IdleRebalanceHarmless'
  BY <1>5 DEF DrainTimeout, Cancel
<1>6. ASSUME NEW t \in Lanes, CancelLane(t), UNCHANGED driverVars PROVE IdleRebalanceHarmless'
  BY <1>6 DEF CancelLane, EndLane, Goto, LossOK, RunnerOK, Undisturbed, Executing, Ended, Closing
<1>7. ASSUME NEW t \in Lanes, SwallowCancel(t), UNCHANGED driverVars PROVE IdleRebalanceHarmless'
  BY <1>7 DEF SwallowCancel
<1>8. ASSUME NEW t \in Lanes, Find(t), UNCHANGED driverVars PROVE IdleRebalanceHarmless'
  BY <1>8 DEF Find, Goto, At
<1>8a. ASSUME NEW t \in Lanes, FindReply(t), UNCHANGED driverVars PROVE IdleRebalanceHarmless'
  BY <1>8a DEF FindReply, Goto, At
<1>9. ASSUME NEW t \in Lanes, Succeed(t), UNCHANGED driverVars PROVE IdleRebalanceHarmless'
  BY <1>9 DEF Succeed, Goto, At
<1>10. ASSUME NEW t \in Lanes, FailJob(t), UNCHANGED driverVars PROVE IdleRebalanceHarmless'
  BY <1>10 DEF FailJob, Goto, At
<1>11. ASSUME NEW t \in Lanes, DefinitionError(t), UNCHANGED driverVars PROVE IdleRebalanceHarmless'
  BY <1>11 DEF DefinitionError, Raise, EndLane, Goto, At, Fault
<1>12. ASSUME NEW t \in Lanes, Save(t), UNCHANGED driverVars PROVE IdleRebalanceHarmless'
  BY <1>12 DEF Save, Goto, At
<1>13. ASSUME NEW t \in Lanes, SaveReply(t), UNCHANGED driverVars PROVE IdleRebalanceHarmless'
  BY <1>13 DEF SaveReply, Goto, At
<1>14. ASSUME NEW t \in Lanes, SaveDuplicate(t), UNCHANGED driverVars PROVE IdleRebalanceHarmless'
  BY <1>14 DEF SaveDuplicate, Goto, At
<1>15. ASSUME NEW t \in Lanes, SaveVanished(t), UNCHANGED driverVars PROVE IdleRebalanceHarmless'
  BY <1>15 DEF SaveVanished, Raise, EndLane, Goto, At, LossOK, RunnerOK, Undisturbed, Executing,
    Ended, Closing
<1>16. ASSUME NEW t \in Lanes, StoreError(t), UNCHANGED driverVars PROVE IdleRebalanceHarmless'
  BY <1>16 DEF StoreError, Raise, EndLane, Goto, At, Fault
<1>17. ASSUME NEW m \in Messages, Forget(m), UNCHANGED driverVars PROVE IdleRebalanceHarmless'
  BY <1>17 DEF Forget, Fault
<1>18. ASSUME NEW t \in Lanes, EnterReceive(t) PROVE IdleRebalanceHarmless'
  BY <1>18 DEF EnterReceive, Goto, At
<1>19. ASSUME NEW t \in Lanes, NEW m \in Messages, Deliver(t, m) PROVE IdleRebalanceHarmless'
  <2>1. pc[t] = "poll" /\ stale' = [stale EXCEPT ![t] = FALSE]
    BY <1>19 DEF Deliver, At
  <2>2. ~stale[t]
    BY <2>1 DEF LossOK, Executing, Ended
  <2>3. \A u \in Lanes : stale[u] => stale'[u]
    BY <2>1, <2>2
  <2>4. UNCHANGED faults /\ \A u \in Lanes : pc'[u] = "failed" => pc[u] = "failed"
    BY <1>19 DEF Deliver, FirstStep, Goto
  <2> QED BY <2>3, <2>4
<1>20. ASSUME NEW t \in Lanes, AckSend(t) PROVE IdleRebalanceHarmless'
  BY <1>20 DEF AckSend, At
<1>21. ASSUME NEW t \in Lanes, AckRefused(t) PROVE IdleRebalanceHarmless'
  BY <1>21 DEF AckRefused, Goto, At
<1>22. ASSUME NEW t \in Lanes, AckStale(t) PROVE IdleRebalanceHarmless'
  BY <1>22 DEF AckStale, Raise, EndLane, Goto, At
<1>23. ASSUME NEW t \in Lanes, AckReply(t) PROVE IdleRebalanceHarmless'
  BY <1>23 DEF AckReply, LoopHead, EndLane, Goto, At
<1>24. ASSUME NEW t \in Lanes, AckLost(t) PROVE IdleRebalanceHarmless'
  BY <1>24 DEF AckLost, Raise, EndLane, Goto, LossOK, RunnerOK, Undisturbed, Executing, Ended,
    Closing
<1>25. ASSUME NEW t \in Lanes, KafkaError(t) PROVE IdleRebalanceHarmless'
  BY <1>25 DEF KafkaError, Raise, EndLane, Goto, Fault
<1>26. ASSUME NEW c \in Consumers, Revoke(c) PROVE IdleRebalanceHarmless'
  BY <1>26 DEF Revoke, Unassign, Cancel
<1>27. ASSUME NEW c \in Consumers, Assign(c) PROVE IdleRebalanceHarmless'
  BY <1>27 DEF Assign, StartPositions
<1>28. ASSUME NEW a \in [Partitions -> Consumers], Rebalance(a) PROVE IdleRebalanceHarmless'
  BY <1>28 DEF Rebalance, Refuse
<1>29. ASSUME NEW c \in Consumers, NEW m \in Messages, Commit(c, m) PROVE IdleRebalanceHarmless'
  BY <1>29 DEF Commit
<1>30. ASSUME NEW c \in Consumers, Start(c) PROVE IdleRebalanceHarmless'
  BY <1>30 DEF Start, StartLanes, LoopHead, LossOK, RunnerOK, Undisturbed, Executing, Ended, Closing
<1>31. ASSUME NEW c \in Consumers, Close(c) PROVE IdleRebalanceHarmless'
  BY <1>31 DEF Close, RunnerExit, Discard, Unassign
<1>32. ASSUME NEW c \in Consumers, Crash(c) PROVE IdleRebalanceHarmless'
  BY <1>32 DEF Crash, RunnerCrash, Discard, Unassign, Fault
<1>33. ASSUME NEW c \in Consumers, Evict(c) PROVE IdleRebalanceHarmless'
  BY <1>33 DEF Evict, Refuse, Fault
<1>34. CASE UNCHANGED vars
  BY <1>34 DEF vars
<1> QED
  BY <1>1, <1>2, <1>3, <1>4, <1>5, <1>6, <1>7, <1>8, <1>8a, <1>9, <1>10, <1>11, <1>12, <1>13, <1>14,
     <1>15, <1>16, <1>17, <1>18, <1>19, <1>20, <1>21, <1>22, <1>23, <1>24, <1>25, <1>26, <1>27,
     <1>28, <1>29, <1>30, <1>31, <1>32, <1>33, <1>34
  DEF Next, WorkerStep, LaneStep, GroupStep

(* docs/worker.md: a rebalance that finds no job in hand does not stop a   *)
(* worker.  Without a fault of the environment a lane fails only in a      *)
(* worker one of whose lanes has lost a delivery to a reassignment.        *)
THEOREM IdleRebalancesAreHarmless == Spec => []IdleRebalanceHarmless
<1>1. Init => IdleInv
  BY DEF Init, WorkerInit, IdleInv, RunnerOK, LossOK, Undisturbed, IdleRebalanceHarmless,
         Executing
<1>2. TypeInv /\ GroupInv /\ IdleInv /\ [Next]_vars => IdleInv'
  BY RunnerOKStep, LossOKStep, UndisturbedStep, HarmlessStep DEF IdleInv
<1>3. IdleInv => IdleRebalanceHarmless
  BY DEF IdleInv
<1> QED
  BY <1>1, <1>2, <1>3, GroupInvariant, PTL DEF Spec

-----------------------------------------------------------------------------
(* Only the first message after an assignment is looked up in the failed-  *)
(* job store.  The later ones have not been seen by anybody: once a member *)
(* has settled a message of its partition, every other consumer that still *)
(* reads the partition, unaware that it has lost it, is behind.            *)

(* A lane of c waits for the reply to a commit in p that was executed.     *)
Answered(c, p) ==
  \E t \in Lanes : Live(t) /\ Home[t] = c /\ pc[t] = "ackOk" /\ PartitionOf[held[t]] = p

(* c has settled a message of p since p was assigned to it.                *)
Settling(c, p) == p \in trusted[c] \/ Answered(c, p)

(* c may receive the next message of p, or will be after the reply.        *)
MayRead(c, p) == p \in parts[c] /\ (p \notin paused[c] \/ Answered(c, p))

(* No failure of m is on record and no lane holds it.                      *)
Unseen(m) == m \notin recorded /\ \A t \in Lanes : held[t] # m

FreshInv ==
  \A c \in members : \A p \in Partitions : assigned[p] = c /\ Settling(c, p) =>
    /\ \A e \in Consumers : e # c /\ MayRead(e, p) => position[e][p] < committed[p]
    /\ MayRead(c, p) => \A m \in Messages : PartitionOf[m] = p /\ ~Settled(m) => Unseen(m)

(* An offset is that of a message of its partition.                        *)
OffsetOK == \A p \in Partitions : committed[p] # 0 => PartitionOf[committed[p]] = p

(* A committed offset stays that of a message of its partition.            *)
LEMMA OffsetOKStep == TypeInv /\ OffsetOK /\ [Next]_vars => OffsetOK'
<1> SUFFICES ASSUME TypeInv, OffsetOK, [Next]_vars PROVE OffsetOK'
  OBVIOUS
<1>1. committed \in [Partitions -> Messages \cup {0}]
  BY DEF TypeInv, TypeOK
<1>2. ASSUME NEW c \in Consumers, NEW m \in Messages, Commit(c, m) PROVE OffsetOK'
  BY <1>1, <1>2 DEF Commit, OffsetOK
<1>3. CASE UNCHANGED committed
  BY <1>3 DEF OffsetOK
<1> QED
  BY <1>2, <1>3, OnlyCommit

(* Steps that leave the offsets alone, let nobody settle or read more, and *)
(* show nobody an unsettled message.                                       *)
LEMMA FreshKept ==
  ASSUME FreshInv, UNCHANGED committed, members' \subseteq Consumers, members \subseteq Consumers,
         \A c \in members', p \in Partitions : assigned'[p] = c /\ Settling(c, p)' =>
            c \in members /\ assigned[p] = c /\ Settling(c, p),
         \A c \in Consumers, p \in Partitions :
            MayRead(c, p)' => MayRead(c, p) /\ position'[c][p] = position[c][p],
         \A m \in Messages : Unseen(m) => Unseen(m)'
  PROVE  FreshInv'
<1>1. \A m \in Messages : Settled(m)' <=> Settled(m)
  BY DEF Settled
<1>2. ASSUME NEW c \in members', NEW p \in Partitions, assigned'[p] = c, Settling(c, p)'
      PROVE  /\ \A e \in Consumers : e # c /\ MayRead(e, p)' => position'[e][p] < committed'[p]
             /\ MayRead(c, p)' =>
                  \A m \in Messages : PartitionOf[m] = p /\ ~Settled(m)' => Unseen(m)'
  <2>1. c \in members /\ c \in Consumers /\ assigned[p] = c /\ Settling(c, p)
    BY <1>2
  <2>2. /\ \A e \in Consumers : e # c /\ MayRead(e, p) => position[e][p] < committed[p]
        /\ MayRead(c, p) =>
             \A m \in Messages : PartitionOf[m] = p /\ ~Settled(m) => Unseen(m)
    BY <2>1 DEF FreshInv
  <2>3. ASSUME NEW e \in Consumers, e # c, MayRead(e, p)' PROVE position'[e][p] < committed'[p]
    BY <2>2, <2>3
  <2>4. ASSUME MayRead(c, p)', NEW m \in Messages, PartitionOf[m] = p, ~Settled(m)'
        PROVE  Unseen(m)'
    BY <1>1, <2>1, <2>2, <2>4
  <2> QED BY <2>3, <2>4
<1> QED
  BY <1>2 DEF FreshInv

(* What the owner of a partition has yet to read stays unseen while it     *)
(* settles there.                                                          *)
LEMMA FreshInvStep ==
  TypeInv /\ GroupInv /\ RunnerOK /\ OffsetOK /\ FreshInv /\ [Next]_vars => FreshInv'
<1> SUFFICES ASSUME TypeInv, GroupInv, RunnerOK, OffsetOK, FreshInv, [Next]_vars
             PROVE  FreshInv'
  OBVIOUS
<1> USE DEF TypeInv, TypeOK, WorkerTypeOK, HeldOK, workerVars, driverVars, runnerVars, laneVars,
            storeVars, brokerVars, clientVars, consumerVars
<1>1. TypeInv' /\ members \subseteq Consumers /\ members' \subseteq Consumers
  BY TypeInvStep
<1>2. ASSUME UNCHANGED <<committed, members, assigned, parts, position, paused, trusted>>,
             \A u \in Lanes : Live(u)' /\ pc'[u] = "ackOk" =>
               Live(u) /\ pc[u] = "ackOk" /\ held'[u] = held[u],
             \A m \in Messages : Unseen(m) => Unseen(m)'
      PROVE  FreshInv'
  <2>1. \A c \in Consumers, p \in Partitions : Answered(c, p)' => Answered(c, p)
    BY <1>2 DEF Answered
  <2> QED BY <1>1, <1>2, <2>1, FreshKept DEF Settling, MayRead
<1>3. CASE Quiet
  <2>1. \A u \in Lanes : Live(u)' /\ pc'[u] = "ackOk" =>
          Live(u) /\ pc[u] = "ackOk" /\ held'[u] = held[u]
    BY <1>3 DEF Quiet, Live, Executing
  <2>2. \A m \in Messages : Unseen(m) => Unseen(m)'
    BY <1>3 DEF Quiet, Unseen
  <2> QED BY <1>2, <1>3, <2>1, <2>2 DEF Quiet
<1>4. CASE Publish
  BY <1>2, <1>4 DEF Publish, Live, Executing, Unseen
<1>5. ASSUME NEW t \in Lanes, AckSend(t) \/ AckRefused(t) PROVE FreshInv'
  BY <1>2, <1>5 DEF AckSend, AckRefused, Goto, Live, Executing, Unseen
<1>6. ASSUME NEW t \in Lanes, AckReply(t) PROVE FreshInv'
  <2>1. /\ pc[t] = "ackOk" /\ Live(t) /\ held[t] \in Messages /\ pc'[t] \in {"wait", "done"}
        /\ pc' = [pc EXCEPT ![t] = pc'[t]] /\ held' = [held EXCEPT ![t] = 0]
        /\ UNCHANGED <<recorded, brokerVars, parts, position, stale>>
        /\ trusted' = [trusted EXCEPT ![Home[t]] = @ \cup {PartitionOf[held[t]]}]
        /\ paused' = [paused EXCEPT ![Home[t]] = @ \ {PartitionOf[held[t]]}]
    BY <1>6 DEF AckReply, At, EndLane, LoopHead, Goto, Live, Executing
  <2>2. \A u \in Lanes : Live(u)' => u # t /\ Live(u) /\ held'[u] = held[u] /\ pc'[u] = pc[u]
    BY <2>1 DEF Live, Executing
  <2>3. Answered(Home[t], PartitionOf[held[t]])
    BY <2>1 DEF Answered
  <2>4. \A c \in Consumers, p \in Partitions : Answered(c, p)' => Answered(c, p)
    BY <2>2 DEF Answered
  <2>5. \A c \in Consumers, p \in Partitions :
          /\ p \in trusted'[c] => p \in trusted[c] \/ Answered(c, p)
          /\ p \notin paused'[c] => p \notin paused[c] \/ Answered(c, p)
    BY <2>1, <2>3
  <2>6. \A m \in Messages : Unseen(m) => Unseen(m)'
    BY <2>1 DEF Unseen
  <2> QED BY <1>1, <2>1, <2>4, <2>5, <2>6, FreshKept DEF Settling, MayRead
<1>7. ASSUME NEW c \in Consumers, Revoke(c) PROVE FreshInv'
  <2>1. \A u \in Lanes : Live(u)' => Live(u) /\ Home[u] # c
    BY <1>7 DEF Revoke, Voided, LanesOf, Live, Executing
  <2>2. UNCHANGED <<pc, held, recorded, brokerVars>>
    BY <1>7 DEF Revoke
  <2>3. \A e \in Consumers, p \in Partitions : Answered(e, p)' => Answered(e, p)
    BY <2>1, <2>2 DEF Answered
  <2>4. /\ trusted' = [trusted EXCEPT ![c] = trusted[c] \ parts[c]]
        /\ parts' = [parts EXCEPT ![c] = {}] /\ paused' = [paused EXCEPT ![c] = {}]
        /\ position' = [position EXCEPT ![c] = Unread]
    BY <1>7 DEF Revoke, Unassign
  <2>5. \A m \in Messages : Unseen(m) => Unseen(m)'
    BY <2>2 DEF Unseen
  <2> QED BY <1>1, <2>2, <2>3, <2>4, <2>5, FreshKept DEF Settling, MayRead
<1>8. ASSUME NEW c \in Consumers, Assign(c) PROVE FreshInv'
  <2>1. UNCHANGED <<workerVars, brokerVars, stale>> /\ phase[c] = "syncing"
    BY <1>8 DEF Assign
  <2>2. \A u \in Lanes : (Live(u)' <=> Live(u)) /\ (Live(u) => Home[u] # c)
    BY <2>1 DEF Live, Executing, GroupInv, LaneOK, ClientOK
  <2>3. \A e \in Consumers, p \in Partitions : Answered(e, p)' => Answered(e, p) /\ e # c
    BY <2>1, <2>2 DEF Answered
  <2>4. trusted[c] = {}
    BY <2>1 DEF GroupInv, ClientOK
  <2>5. PICK ps \in SUBSET Partitions :
           /\ \A p \in ps : assigned[p] = c
           /\ trusted' = [trusted EXCEPT ![c] = trusted[c] \ ps]
           /\ parts' = [parts EXCEPT ![c] = ps] /\ paused' = [paused EXCEPT ![c] = {}]
           /\ position' = [position EXCEPT ![c] = committed]
    <3> DEFINE given == {p \in Partitions : assigned[p] = c}
    <3>1. given \in SUBSET Partitions /\ \A p \in given : assigned[p] = c
      OBVIOUS
    <3>2. /\ trusted' = [trusted EXCEPT ![c] = trusted[c] \ given]
          /\ parts' = [parts EXCEPT ![c] = given] /\ paused' = [paused EXCEPT ![c] = {}]
          /\ position' = [position EXCEPT ![c] = committed]
      BY <1>8 DEF Assign, StartPositions
    <3> HIDE DEF given
    <3> QED BY <3>1, <3>2
  <2>6. \A m \in Messages : (Settled(m)' <=> Settled(m)) /\ (Unseen(m)' <=> Unseen(m))
    BY <2>1 DEF Unseen, Settled
  <2>7. ASSUME NEW d \in members, NEW p \in Partitions, assigned[p] = d, Settling(d, p)'
        PROVE  /\ d # c /\ Settling(d, p) /\ (MayRead(d, p)' => MayRead(d, p))
               /\ ~MayRead(c, p)'
               /\ \A e \in Consumers : e # c /\ MayRead(e, p)' =>
                    MayRead(e, p) /\ position'[e][p] = position[e][p]
    BY <1>1, <2>3, <2>4, <2>5, <2>7 DEF Settling, MayRead
  <2>8. ASSUME NEW d \in members, NEW p \in Partitions, assigned[p] = d, Settling(d, p)'
        PROVE  /\ \A e \in Consumers : e # d /\ MayRead(e, p)' => position'[e][p] < committed[p]
               /\ MayRead(d, p)' =>
                    \A m \in Messages : PartitionOf[m] = p /\ ~Settled(m) => Unseen(m)
    BY <2>7, <2>8 DEF FreshInv
  <2> QED BY <2>1, <2>6, <2>8 DEF FreshInv
<1>9. ASSUME NEW a \in [Partitions -> Consumers], Rebalance(a) PROVE FreshInv'
  <2>1. /\ \A c \in members' : parts[c] = {} /\ trusted[c] = {}
        /\ UNCHANGED <<held, trusted, stale>>
    <3>1. \A c \in members' : c \in Consumers /\ phase[c] = "joining"
      BY <1>9 DEF Rebalance
    <3>2. \A c \in members' : parts[c] = {} /\ trusted[c] = {}
      <4>1. \A c \in Consumers : /\ phase[c] # "stable" => parts[c] = {}
                                 /\ trusted[c] \subseteq parts[c]
        BY DEF GroupInv, ClientOK
      <4> HIDE DEF TypeInv
      <4> QED BY <3>1, <4>1
    <3>3. UNCHANGED <<held, trusted, stale>>
      BY <1>9 DEF Rebalance
    <3> QED BY <3>2, <3>3
  <2>2. \A u \in Lanes : Live(u)' => Live(u)
    BY <1>9, <2>1 DEF Rebalance, Refuse, Live, Executing
  <2>3. \A u \in Lanes : Live(u) => parts[Home[u]] # {}
    BY DEF GroupInv, LaneOK
  <2>4. \A c \in members', p \in Partitions : ~Settling(c, p)'
    BY <2>1, <2>2, <2>3 DEF Settling, Answered
  <2> QED BY <2>4 DEF FreshInv
<1>10. ASSUME NEW t \in Lanes, NEW m \in Messages, Deliver(t, m) PROVE FreshInv'
  <2> DEFINE h == Home[t]
             q == PartitionOf[m]
  <2>1. /\ pc[t] = "poll" /\ pc' = [pc EXCEPT ![t] = pc'[t]] /\ pc'[t] \in {"find", "run"}
        /\ held' = [held EXCEPT ![t] = m] /\ stale' = [stale EXCEPT ![t] = FALSE]
        /\ UNCHANGED <<recorded, brokerVars, parts, trusted>>
        /\ position' = [position EXCEPT ![h][q] = m]
        /\ paused' = [paused EXCEPT ![h] = @ \cup {q}]
    BY <1>10 DEF Deliver, FirstStep, Goto, At
  <2>2. q \in parts[h] /\ q \notin paused[h] /\ Follows(m, position[h][q])
    BY <1>10 DEF Deliver
  <2>3. \A u \in Lanes : Live(u)' /\ pc'[u] = "ackOk" =>
          u # t /\ Live(u) /\ pc[u] = "ackOk" /\ held'[u] = held[u]
    BY <2>1 DEF Live, Executing
  <2>4. \A c \in Consumers, p \in Partitions : Answered(c, p)' => Answered(c, p)
    BY <2>3 DEF Answered
  <2>5. ~Answered(h, q)
    BY <2>2 DEF Answered, GroupInv, LaneOK
  <2>6. MayRead(h, q) /\ ~MayRead(h, q)'
    BY <2>1, <2>2, <2>4, <2>5 DEF MayRead
  <2>7. \A c \in Consumers, p \in Partitions : c # h \/ p # q =>
          /\ position'[c][p] = position[c][p]
          /\ MayRead(c, p)' => MayRead(c, p)
    BY <2>1, <2>4 DEF MayRead
  <2>8. \A c \in Consumers, p \in Partitions : Settling(c, p)' => Settling(c, p)
    BY <2>1, <2>4 DEF Settling
  <2>9. \A n \in Messages : Settled(n)' <=> Settled(n)
    BY <2>1 DEF Settled
  <2>10. \A n \in Messages : Unseen(n) /\ n # m => Unseen(n)'
    BY <2>1 DEF Unseen
  <2>11. ASSUME NEW c \in members, NEW p \in Partitions, assigned[p] = c, Settling(c, p)'
         PROVE  /\ \A e \in Consumers : e # c /\ MayRead(e, p)' => position'[e][p] < committed[p]
                /\ MayRead(c, p)' =>
                     \A n \in Messages : PartitionOf[n] = p /\ ~Settled(n) => Unseen(n)'
    <3>1. /\ \A e \in Consumers : e # c /\ MayRead(e, p) => position[e][p] < committed[p]
          /\ MayRead(c, p) =>
               \A n \in Messages : PartitionOf[n] = p /\ ~Settled(n) => Unseen(n)
      BY <1>1, <2>8, <2>11 DEF FreshInv
    <3>2. ASSUME NEW e \in Consumers, e # c, MayRead(e, p)' PROVE position'[e][p] < committed[p]
      <4>1. e # h \/ p # q
        BY <2>6, <3>2
      <4> QED BY <2>7, <3>1, <3>2, <4>1
    <3>3. ASSUME MayRead(c, p)', NEW n \in Messages, PartitionOf[n] = p, ~Settled(n)
          PROVE  Unseen(n)'
      <4>1. c # h \/ p # q
        BY <2>6, <3>3
      <4>2. Unseen(n)
        BY <1>1, <2>7, <3>1, <3>3, <4>1
      <4>3. CASE n # m
        BY <2>10, <4>2, <4>3
      <4>4. CASE n = m
        <5>1. p = q /\ h # c
          BY <3>3, <4>1, <4>4
        <5>2. PICK k \in Nat, j \in Nat : k = position[h][q] /\ j = committed[q]
          <6>1. position[h][q] \in Messages \cup {0} /\ committed[q] \in Messages \cup {0}
            OBVIOUS
          <6> QED BY <6>1
        <5>3. k < j
          BY <2>6, <3>1, <5>1, <5>2
        <5>4. j \in Messages /\ PartitionOf[j] = q
          <6>1. j # 0
            BY <5>3
          <6> QED BY <5>2, <6>1 DEF OffsetOK
        <5>5. m <= j
          BY <2>2, <5>2, <5>3, <5>4 DEF Follows
        <5> QED BY <3>3, <4>4, <5>2, <5>5 DEF Settled
      <4> QED BY <4>3, <4>4
    <3> QED BY <3>2, <3>3
  <2> QED BY <2>1, <2>9, <2>11 DEF FreshInv
<1>11. ASSUME NEW c \in Consumers, NEW m \in Messages, Commit(c, m) PROVE FreshInv'
  <2> DEFINE q == PartitionOf[m]
  <2>1. /\ committed' = [committed EXCEPT ![q] = m]
        /\ pc' = [t \in Lanes |-> IF pc[t] = "ack" /\ Home[t] = c /\ held[t] = m
                                  THEN "ackOk" ELSE pc[t]]
        /\ UNCHANGED <<held, recorded, members, assigned, clientVars, consumerVars>>
    BY <1>11 DEF Commit
  <2>2. c \in members /\ assigned[q] = c /\ Preds(m) /\ ~Settled(m)
    BY <1>11 DEF Commit, GroupInv, FlightOK
  <2>3. committed[q] < m /\ \A n \in Messages : Settled(n)' <=> Settled(n) \/ n = m
    BY <1>11, CommitSettles
  <2>4. \A u \in Lanes : Live(u)' <=> Live(u)
    BY <2>1 DEF Live, Executing
  <2>5. \A e \in Consumers, p \in Partitions : Answered(e, p)' => Answered(e, p) \/ (e = c /\ p = q)
    BY <2>1, <2>4 DEF Answered
  <2>6. \A n \in Messages : Unseen(n)' <=> Unseen(n)
    BY <2>1 DEF Unseen
  <2>7. ASSUME NEW d \in members, NEW p \in Partitions, assigned[p] = d, Settling(d, p)'
        PROVE  /\ \A e \in Consumers : e # d /\ MayRead(e, p)' => position[e][p] < committed'[p]
               /\ MayRead(d, p)' =>
                    \A n \in Messages : PartitionOf[n] = p /\ ~Settled(n)' => Unseen(n)
    <3>1. CASE p # q
      <4>1. Settling(d, p) /\ \A e \in Consumers : MayRead(e, p)' => MayRead(e, p)
        BY <1>1, <2>1, <2>5, <2>7, <3>1 DEF Settling, MayRead
      <4>2. committed'[p] = committed[p]
        BY <2>1, <3>1
      <4> QED BY <1>1, <2>3, <2>7, <4>1, <4>2 DEF FreshInv
    <3>2. CASE p = q
      <4>1. d = c
        BY <2>2, <2>7, <3>2
      <4>2. ASSUME NEW e \in Consumers, e # d, MayRead(e, p)' PROVE position[e][p] < committed'[p]
        <5>1. MayRead(e, p)
          BY <2>1, <2>5, <4>1, <4>2 DEF MayRead
        <5>2. PICK k \in Nat, j \in Nat : k = position[e][q] /\ j = committed[q]
          <6>1. position[e][q] \in Messages \cup {0} /\ committed[q] \in Messages \cup {0}
            OBVIOUS
          <6> QED BY <6>1
        <5>3. k <= j
          <6>1. CASE p \notin paused[e]
            BY <3>2, <5>1, <5>2, <6>1 DEF MayRead, GroupInv, PositionOK
          <6>2. CASE Answered(e, p)
            <7>1. PICK u \in Lanes : /\ Live(u) /\ Home[u] = e /\ pc[u] = "ackOk"
                                     /\ PartitionOf[held[u]] = p
              BY <6>2 DEF Answered
            <7>2. position[e][p] = held[u]
              BY <7>1 DEF GroupInv, LaneOK
            <7>3. held[u] <= committed[p]
              BY <7>1 DEF GroupInv, CommitOK, Settled
            <7> QED BY <3>2, <5>2, <7>2, <7>3
          <6> QED BY <5>1, <6>1, <6>2 DEF MayRead
        <5>4. j < m
          BY <2>3, <5>2
        <5>5. k < m
          BY <5>3, <5>4
        <5>6. committed'[q] = m
          BY <2>1
        <5> QED BY <3>2, <5>2, <5>5, <5>6
      <4>3. ASSUME NEW n \in Messages, PartitionOf[n] = p, ~Settled(n)' PROVE Unseen(n)
        <5>1. m < n
          <6>1. PICK j \in Nat : j = committed'[q]
            <7>1. committed'[q] = m
              BY <2>1
            <7> QED BY <7>1
          <6>2. j = m /\ ~(n <= j)
            BY <2>1, <3>2, <4>3, <6>1 DEF Settled
          <6> QED BY <6>2
        <5>2. ~Preds(n)
          BY <2>2, <3>2, <4>3, <5>1 DEF Preds
        <5>3. n # 0
          OBVIOUS
        <5> QED BY <5>2, <5>3 DEF Unseen, GroupInv, OrderOK
      <4> QED BY <4>2, <4>3
    <3> QED BY <3>1, <3>2
  <2>8. \A e \in Consumers, p \in Partitions : position'[e][p] = position[e][p]
    BY <2>1
  <2> QED BY <2>1, <2>6, <2>7, <2>8 DEF FreshInv
<1>12. ASSUME NEW c \in Consumers, Start(c) PROVE FreshInv'
  <2>1. /\ UNCHANGED <<committed, members, assigned, parts, position, paused, trusted, stale>>
        /\ UNCHANGED <<held, recorded>>
        /\ pc' = [t \in Lanes |-> IF Home[t] = c THEN LoopHead(t) ELSE pc[t]]
    BY <1>12 DEF Start, StartLanes
  <2>2. \A u \in Lanes : LoopHead(u) \in {"wait", "done"}
    BY DEF LoopHead
  <2> QED BY <1>2, <2>1, <2>2 DEF Live, Executing, Unseen
<1>13. ASSUME NEW c \in Consumers, Close(c) \/ Crash(c) PROVE FreshInv'
  <2>1. /\ UNCHANGED <<committed, assigned, recorded, stale>> /\ members' \subseteq members
        /\ parts' = [parts EXCEPT ![c] = {}] /\ paused' = [paused EXCEPT ![c] = {}]
        /\ position' = [position EXCEPT ![c] = Unread] /\ trusted' = [trusted EXCEPT ![c] = {}]
    BY <1>13 DEF Close, Crash, Discard, Unassign, RunnerExit, RunnerCrash
  <2>2. \A u \in Lanes : \/ pc'[u] = pc[u] /\ held'[u] = held[u]
                         \/ pc'[u] = "off" /\ held'[u] = 0
    BY <1>13 DEF Close, Crash, RunnerExit, RunnerCrash
  <2>3. \A u \in Lanes : Home[u] = c => pc'[u] \in EndPcs
    BY <1>13 DEF Close, Crash, RunnerExit, RunnerCrash, Ended, LanesOf
  <2>4. \A e \in Consumers, p \in Partitions : Answered(e, p)' => Answered(e, p) /\ e # c
    BY <2>1, <2>2, <2>3 DEF Answered, Live, Executing
  <2>5. \A m \in Messages : Unseen(m) => Unseen(m)'
    BY <2>1, <2>2 DEF Unseen
  <2> QED BY <1>1, <2>1, <2>4, <2>5, FreshKept DEF Settling, MayRead
<1>14. ASSUME NEW c \in Consumers, Evict(c) PROVE FreshInv'
  <2>1. /\ UNCHANGED <<committed, assigned, recorded, held, stale, parts, position, paused, trusted>>
        /\ members' \subseteq members
        /\ \A u \in Lanes : pc'[u] = pc[u] \/ pc'[u] = "ackNo"
    BY <1>14 DEF Evict, Refuse
  <2>2. \A u \in Lanes : Live(u)' /\ pc'[u] = "ackOk" => Live(u) /\ pc[u] = "ackOk"
    BY <2>1 DEF Live, Executing
  <2>3. \A e \in Consumers, p \in Partitions : Answered(e, p)' => Answered(e, p)
    BY <2>1, <2>2 DEF Answered
  <2>4. \A m \in Messages : Unseen(m) => Unseen(m)'
    BY <2>1 DEF Unseen
  <2> QED BY <1>1, <2>1, <2>3, <2>4, FreshKept DEF Settling, MayRead
<1>15. CASE WorkerStep /\ UNCHANGED driverVars
  BY <1>3, <1>15, WorkerQuiet
<1>16. ASSUME NEW t \in Lanes, EnterReceive(t) \/ AckStale(t) \/ AckLost(t) \/ KafkaError(t)
       PROVE  FreshInv'
  BY <1>3, <1>16, LaneQuiet
<1>17. CASE UNCHANGED vars
  BY <1>2, <1>17 DEF vars, Live, Executing, Unseen
<1> QED
  BY <1>4, <1>5, <1>6, <1>7, <1>8, <1>9, <1>10, <1>11, <1>12, <1>13, <1>14, <1>15, <1>16, <1>17
  DEF Next, LaneStep, GroupStep

(* Types, group, safety and freshness, in every state.                     *)
LEMMA FreshInvariant ==
  Spec => [](TypeInv /\ GroupInv /\ SafeInv /\ FreshInv)
<1>1. Init => RunnerOK /\ OffsetOK /\ FreshInv
  BY DEF Init, WorkerInit, RunnerOK, OffsetOK, FreshInv, Executing
<1> QED
  BY <1>1, SafeInvariant, RunnerOKStep, OffsetOKStep, FreshInvStep, PTL DEF Spec

(* A member of the group does not decide to run a message whose failure is *)
(* on record, although only the first message after an assignment is       *)
(* looked up: what comes after a message that this member has settled was  *)
(* never received by anybody.                                              *)
THEOREM KafkaFailuresNotRerun == Spec => NoRerunOfRecordedFailure
<1> DEFINE Kept == \A t \in Lanes :
                     /\ DecidesToRun(t)
                     /\ Home[t] \in members /\ assigned[PartitionOf[held'[t]]] = Home[t]
                        /\ ~stale'[t]
                     => held'[t] \notin failures
<1>1. TypeInv /\ GroupInv /\ SafeInv /\ FreshInv /\ [Next]_vars => [Kept]_vars
  <2> SUFFICES ASSUME TypeInv, GroupInv, SafeInv, FreshInv, [Next]_vars PROVE Kept
    OBVIOUS
  <2> USE DEF TypeInv, TypeOK, WorkerTypeOK, workerVars, driverVars, runnerVars, laneVars,
              storeVars, brokerVars, clientVars, consumerVars, DecidesToRun
  <2>1. ASSUME NEW t \in Lanes, Find(t), UNCHANGED driverVars PROVE Kept
    BY <2>1 DEF Find, Goto
  <2>1a. ASSUME NEW t \in Lanes, FindReply(t), UNCHANGED driverVars PROVE Kept
    BY <2>1a DEF FindReply, Goto
  <2>2. ASSUME NEW t \in Lanes, NEW m \in Messages, Deliver(t, m) PROVE Kept
    <3> DEFINE h == Home[t]
               q == PartitionOf[m]
    <3>1. /\ held'[t] = m /\ pc'[t] \in {"find", "run"}
          /\ \A u \in Lanes : u # t => pc'[u] = pc[u]
      BY <2>2 DEF Deliver, FirstStep, Goto
    <3>2. ASSUME pc'[t] = "run", h \in members, assigned[q] = h PROVE m \notin failures
      <4>1. q \in trusted[h] /\ q \in parts[h] /\ q \notin paused[h] /\ position[h][q] < m
        BY <2>2, <3>2 DEF Deliver, FirstStep, Goto, Follows
      <4>2. Settling(h, q) /\ MayRead(h, q)
        BY <4>1 DEF Settling, MayRead
      <4>3. ~Settled(m)
        <5>1. PICK k \in Nat, j \in Nat : k = position[h][q] /\ j = committed[q]
          <6>1. position[h][q] \in Messages \cup {0} /\ committed[q] \in Messages \cup {0}
            OBVIOUS
          <6> QED BY <6>1
        <5>2. j <= k /\ k < m
          BY <3>2, <4>1, <5>1 DEF GroupInv, PositionOK
        <5>3. ~(m <= j)
          BY <5>2
        <5> QED BY <5>1, <5>3 DEF Settled
      <4>4. Unseen(m)
        BY <3>2, <4>2, <4>3 DEF FreshInv
      <4> QED BY <4>4 DEF Unseen, SafeInv
    <3> QED BY <3>1, <3>2
  <2>3. CASE Publish
    BY <2>3 DEF Publish
  <2>4. ASSUME NEW c \in Consumers, SetStop(c), UNCHANGED driverVars PROVE Kept
    BY <2>4 DEF SetStop
  <2>5. ASSUME NEW c \in Consumers, RunnerStop(c), UNCHANGED driverVars PROVE Kept
    BY <2>5 DEF RunnerStop, Cancel
  <2>6. ASSUME NEW c \in Consumers, RunnerFail(c), UNCHANGED driverVars PROVE Kept
    BY <2>6 DEF RunnerFail, Cancel
  <2>7. ASSUME NEW c \in Consumers, DrainTimeout(c), UNCHANGED driverVars PROVE Kept
    BY <2>7 DEF DrainTimeout, Cancel
  <2>8. ASSUME NEW t \in Lanes, CancelLane(t), UNCHANGED driverVars PROVE Kept
    BY <2>8 DEF CancelLane, EndLane, Goto
  <2>9. ASSUME NEW t \in Lanes, SwallowCancel(t), UNCHANGED driverVars PROVE Kept
    BY <2>9 DEF SwallowCancel
  <2>10. ASSUME NEW t \in Lanes, Succeed(t), UNCHANGED driverVars PROVE Kept
    BY <2>10 DEF Succeed, Goto, At
  <2>11. ASSUME NEW t \in Lanes, FailJob(t), UNCHANGED driverVars PROVE Kept
    BY <2>11 DEF FailJob, Goto, At
  <2>12. ASSUME NEW t \in Lanes, DefinitionError(t), UNCHANGED driverVars PROVE Kept
    BY <2>12 DEF DefinitionError, Raise, EndLane, Goto, At, Fault
  <2>13. ASSUME NEW t \in Lanes, Save(t), UNCHANGED driverVars PROVE Kept
    BY <2>13 DEF Save, Goto, At
  <2>14. ASSUME NEW t \in Lanes, SaveReply(t), UNCHANGED driverVars PROVE Kept
    BY <2>14 DEF SaveReply, Goto, At
  <2>15. ASSUME NEW t \in Lanes, SaveDuplicate(t), UNCHANGED driverVars PROVE Kept
    BY <2>15 DEF SaveDuplicate, Goto, At
  <2>16. ASSUME NEW t \in Lanes, SaveVanished(t), UNCHANGED driverVars PROVE Kept
    BY <2>16 DEF SaveVanished, Raise, EndLane, Goto, At
  <2>17. ASSUME NEW t \in Lanes, StoreError(t), UNCHANGED driverVars PROVE Kept
    BY <2>17 DEF StoreError, Raise, EndLane, Goto, At, Fault
  <2>18. ASSUME NEW m \in Messages, Forget(m), UNCHANGED driverVars PROVE Kept
    BY <2>18 DEF Forget, Fault
  <2>19. ASSUME NEW t \in Lanes, EnterReceive(t) PROVE Kept
    BY <2>19 DEF EnterReceive, Goto, At
  <2>20. ASSUME NEW t \in Lanes, AckSend(t) PROVE Kept
    BY <2>20 DEF AckSend, At
  <2>21. ASSUME NEW t \in Lanes, AckRefused(t) PROVE Kept
    BY <2>21 DEF AckRefused, Goto, At
  <2>22. ASSUME NEW t \in Lanes, AckStale(t) PROVE Kept
    BY <2>22 DEF AckStale, Raise, EndLane, Goto, At
  <2>23. ASSUME NEW t \in Lanes, AckReply(t) PROVE Kept
    BY <2>23 DEF AckReply, LoopHead, EndLane, Goto, At
  <2>24. ASSUME NEW t \in Lanes, AckLost(t) PROVE Kept
    BY <2>24 DEF AckLost, Raise, EndLane, Goto
  <2>25. ASSUME NEW t \in Lanes, KafkaError(t) PROVE Kept
    BY <2>25 DEF KafkaError, Raise, EndLane, Goto, Fault
  <2>26. ASSUME NEW c \in Consumers, Revoke(c) PROVE Kept
    BY <2>26 DEF Revoke, Unassign, Cancel
  <2>27. ASSUME NEW c \in Consumers, Assign(c) PROVE Kept
    BY <2>27 DEF Assign, StartPositions
  <2>28. ASSUME NEW a \in [Partitions -> Consumers], Rebalance(a) PROVE Kept
    BY <2>28 DEF Rebalance, Refuse
  <2>29. ASSUME NEW c \in Consumers, NEW m \in Messages, Commit(c, m) PROVE Kept
    BY <2>29 DEF Commit
  <2>30. ASSUME NEW c \in Consumers, Start(c) PROVE Kept
    BY <2>30 DEF Start, StartLanes, LoopHead
  <2>31. ASSUME NEW c \in Consumers, Close(c) PROVE Kept
    BY <2>31 DEF Close, RunnerExit, Discard, Unassign
  <2>32. ASSUME NEW c \in Consumers, Crash(c) PROVE Kept
    BY <2>32 DEF Crash, RunnerCrash, Discard, Unassign, Fault
  <2>33. ASSUME NEW c \in Consumers, Evict(c) PROVE Kept
    BY <2>33 DEF Evict, Refuse, Fault
  <2>34. CASE UNCHANGED vars
    BY <2>34 DEF vars
  <2> HIDE DEF Kept
  <2> QED
    BY <2>1, <2>1a, <2>2, <2>3, <2>4, <2>5, <2>6, <2>7, <2>8, <2>9, <2>10, <2>11, <2>12, <2>13, <2>14,
       <2>15, <2>16, <2>17, <2>18, <2>19, <2>20, <2>21, <2>22, <2>23, <2>24, <2>25, <2>26,
       <2>27, <2>28, <2>29, <2>30, <2>31, <2>32, <2>33, <2>34
    DEF Next, WorkerStep, LaneStep, GroupStep
<1> QED
  BY <1>1, FreshInvariant, PTL DEF Spec, NoRerunOfRecordedFailure
=============================================================================
