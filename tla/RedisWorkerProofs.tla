------------------------- MODULE RedisWorkerProofs -------------------------
(***************************************************************************)
(* Theorems about RedisWorker for any number of workers, lanes, messages   *)
(* and faults.                                                             *)
(***************************************************************************)
EXTENDS RedisWorker, TLAPS

(* A lane between the reply that names an entry and the end of the         *)
(* acknowledgement holds that entry.                                       *)
HeldOK == \A t \in Lanes : pc[t] \in ExecutePcs \cup ReplyPcs => held[t] # 0

TypeInv == TypeOK /\ HeldOK

USE HomeAssumption, NoneAssumption, BoundsAssumption DEF Messages, Modes, RenewalStates, None,
    ReceivePcs, ReplyPcs, ExecutePcs, EndPcs, FindingPcs, SavePcs, AckPcs

-----------------------------------------------------------------------------
(* Type correctness.                                                       *)

(* The workers start with their types.                                     *)
LEMMA InitTypeInv == Init => TypeInv
BY DEF Init, WorkerInit, TypeInv, TypeOK, WorkerTypeOK, HeldOK

(* No step breaks the types.                                               *)
LEMMA TypeInvStep == TypeInv /\ [Next]_vars => TypeInv'
<1> SUFFICES ASSUME TypeInv, [Next]_vars PROVE TypeInv'
  OBVIOUS
<1> USE DEF TypeInv, TypeOK, WorkerTypeOK, HeldOK, workerVars, driverVars, runnerVars, laneVars,
            storeVars, streamVars, consumerVars
<1>1. CASE Publish
  BY <1>1 DEF Publish
<1>2. ASSUME NEW c \in Consumers, SetStop(c), UNCHANGED driverVars PROVE TypeInv'
  BY <1>2 DEF SetStop
<1>3. ASSUME NEW c \in Consumers, RunnerStop(c), UNCHANGED driverVars PROVE TypeInv'
  BY <1>3 DEF RunnerStop, Cancel
<1>4. ASSUME NEW c \in Consumers, RunnerFail(c), UNCHANGED driverVars PROVE TypeInv'
  BY <1>4 DEF RunnerFail, Cancel
<1>5. ASSUME NEW c \in Consumers, DrainTimeout(c), UNCHANGED driverVars PROVE TypeInv'
  BY <1>5 DEF DrainTimeout, Cancel
<1>6. ASSUME NEW t \in Lanes, CancelLane(t), UNCHANGED driverVars PROVE TypeInv'
  BY <1>6 DEF CancelLane, EndLane, Goto
<1>7. ASSUME NEW t \in Lanes, SwallowCancel(t), UNCHANGED driverVars PROVE TypeInv'
  BY <1>7 DEF SwallowCancel
<1>8. ASSUME NEW t \in Lanes, Find(t), UNCHANGED driverVars PROVE TypeInv'
  BY <1>8 DEF Find, Goto, At
<1>8a. ASSUME NEW t \in Lanes, FindReply(t), UNCHANGED driverVars PROVE TypeInv'
  BY <1>8a DEF FindReply, Goto, At
<1>9. ASSUME NEW t \in Lanes, Succeed(t), UNCHANGED driverVars PROVE TypeInv'
  BY <1>9 DEF Succeed, Goto, At
<1>10. ASSUME NEW t \in Lanes, FailJob(t), UNCHANGED driverVars PROVE TypeInv'
  BY <1>10 DEF FailJob, Goto, At
<1>11. ASSUME NEW t \in Lanes, DefinitionError(t), UNCHANGED driverVars PROVE TypeInv'
  BY <1>11 DEF DefinitionError, Raise, EndLane, Goto, At, Fault
<1>12. ASSUME NEW t \in Lanes, Save(t), UNCHANGED driverVars PROVE TypeInv'
  BY <1>12 DEF Save, Goto, At
<1>13. ASSUME NEW t \in Lanes, SaveReply(t), UNCHANGED driverVars PROVE TypeInv'
  BY <1>13 DEF SaveReply, Goto, At
<1>14. ASSUME NEW t \in Lanes, SaveDuplicate(t), UNCHANGED driverVars PROVE TypeInv'
  BY <1>14 DEF SaveDuplicate, Goto, At
<1>15. ASSUME NEW t \in Lanes, SaveVanished(t), UNCHANGED driverVars PROVE TypeInv'
  BY <1>15 DEF SaveVanished, Raise, EndLane, Goto, At
<1>16. ASSUME NEW t \in Lanes, StoreError(t), UNCHANGED driverVars PROVE TypeInv'
  BY <1>16 DEF StoreError, Raise, EndLane, Goto, At, Fault
<1>17. ASSUME NEW m \in Messages, Forget(m), UNCHANGED driverVars PROVE TypeInv'
  BY <1>17 DEF Forget, Fault
<1>18. ASSUME NEW t \in Lanes, EnterReceive(t) PROVE TypeInv'
  BY <1>18 DEF EnterReceive, Goto, At
<1>19. ASSUME NEW t \in Lanes, AutoClaim(t) PROVE TypeInv'
  BY <1>19 DEF AutoClaim, Goto, At
<1>20. ASSUME NEW t \in Lanes, AutoClaimEmpty(t) PROVE TypeInv'
  BY <1>20 DEF AutoClaimEmpty, Goto, At
<1>21. ASSUME NEW t \in Lanes, ReadNew(t) PROVE TypeInv'
  BY <1>21 DEF ReadNew, Goto, At
<1>22. ASSUME NEW t \in Lanes, ReadEmpty(t) PROVE TypeInv'
  BY <1>22 DEF ReadEmpty, Goto, At
<1>23. ASSUME NEW t \in Lanes, ReceiveRaises(t) PROVE TypeInv'
  BY <1>23 DEF ReceiveRaises, Raise, EndLane, Goto, At
<1>24. ASSUME NEW t \in Lanes, Deliver(t) PROVE TypeInv'
  BY <1>24 DEF Deliver, TakeCursor, FirstStep, Goto
<1>25. ASSUME NEW t \in Lanes, DeliverLapsed(t) PROVE TypeInv'
  BY <1>25 DEF DeliverLapsed, TakeCursor, Raise, EndLane, Goto
<1>26. ASSUME NEW t \in Lanes, Ack(t) PROVE TypeInv'
  BY <1>26 DEF Ack, Settle, Goto, At
<1>27. ASSUME NEW t \in Lanes, AckRefused(t) PROVE TypeInv'
  BY <1>27 DEF AckRefused, Goto, At
<1>28. ASSUME NEW t \in Lanes, AckReply(t) PROVE TypeInv'
  BY <1>28 DEF AckReply, LoopHead, EndLane, Goto, At
<1>29. ASSUME NEW t \in Lanes, AckLost(t) PROVE TypeInv'
  BY <1>29 DEF AckLost, Raise, EndLane, Goto, At
<1>30. ASSUME NEW t \in Lanes, RedisError(t) PROVE TypeInv'
  BY <1>30 DEF RedisError, Raise, EndLane, Goto, Fault
<1>31. ASSUME NEW c \in Consumers, Start(c) PROVE TypeInv'
  BY <1>31 DEF Start, StartLanes, LoopHead
<1>32. ASSUME NEW c \in Consumers, Close(c) PROVE TypeInv'
  BY <1>32 DEF Close, RunnerExit
<1>33. ASSUME NEW c \in Consumers, Crash(c) PROVE TypeInv'
  BY <1>33 DEF Crash, RunnerCrash, Fault
<1>34. ASSUME NEW c \in Consumers, Renew(c) PROVE TypeInv'
  <2>1. fresh' = [m \in Messages |-> fresh[m] \/ m \in pending[c]]
    BY <1>34 DEF Renew
  <2>2. fresh' \in [Messages -> BOOLEAN]
    BY <2>1, Zenon
  <2> QED BY <1>34, <2>2 DEF Renew
<1>35. ASSUME NEW c \in Consumers, RenewRefused(c) PROVE TypeInv'
  BY <1>35 DEF RenewRefused
<1>36. ASSUME NEW c \in Consumers, RenewReply(c) PROVE TypeInv'
  BY <1>36 DEF RenewReply
<1>37. ASSUME NEW c \in Consumers, RenewLost(c) PROVE TypeInv'
  BY <1>37 DEF RenewLost, EndRenewal, Cancel
<1>38. ASSUME NEW c \in Consumers, RenewError(c) PROVE TypeInv'
  BY <1>38 DEF RenewError, EndRenewal, Cancel, Fault
<1>39. ASSUME NEW m \in Messages, Expire(m) PROVE TypeInv'
  BY <1>39 DEF Expire, Fault
<1>40. CASE UNCHANGED vars
  BY <1>40 DEF vars
<1> QED
  BY <1>1, <1>2, <1>3, <1>4, <1>5, <1>6, <1>7, <1>8, <1>8a, <1>9, <1>10, <1>11, <1>12, 
     <1>13, <1>14, <1>15, <1>16, <1>17, <1>18, <1>19, <1>20, <1>21, <1>22, <1>23, 
     <1>24, <1>25, <1>26, <1>27, <1>28, <1>29, <1>30, <1>31, <1>32, <1>33, <1>34, 
     <1>35, <1>36, <1>37, <1>38, <1>39, <1>40
  DEF Next, WorkerStep, LaneStep

(* Type correctness: every variable of the stream, the consumers, the      *)
(* runners and the lanes keeps its type.                                   *)
THEOREM TypeCorrect == Spec => []TypeOK
<1>1. Spec => []TypeInv
  BY InitTypeInv, TypeInvStep, PTL DEF Spec
<1>2. TypeInv => TypeOK
  BY DEF TypeInv
<1> QED
  BY <1>1, <1>2, PTL

-----------------------------------------------------------------------------
(* No message is lost.  NoLoss speaks of the stream only; it is inductive  *)
(* together with what a lane knows about its message when it is past the   *)
(* save, and with where the messages in the stream, in the pending entries *)
(* list and in the hands of lanes come from.                               *)

(* A lane that acknowledges knows that the job succeeded or is on record.  *)
LaneKnows ==
  \A t \in Lanes : /\ pc[t] \in {"found", "saved", "duplicate"} => held[t] \in recorded
                   /\ pc[t] \in AckPcs => held[t] \in succeeded \cup recorded

(* Only published messages are delivered, held, owned or acknowledged.     *)
Delivered ==
  /\ lastDelivered <= published
  /\ \A t \in Lanes : held[t] <= lastDelivered
  /\ \A m \in Messages : InPel(m) \/ acked[m] => m <= lastDelivered

SafeInv == LaneKnows /\ failures \subseteq recorded /\ NoLoss /\ Delivered

(* What is acknowledged, or about to be, is done.                          *)
LEMMA SafeInvStep == TypeInv /\ SafeInv /\ [Next]_vars => SafeInv'
<1> SUFFICES ASSUME TypeInv, SafeInv, [Next]_vars PROVE SafeInv'
  OBVIOUS
<1> USE DEF TypeInv, TypeOK, WorkerTypeOK, HeldOK, SafeInv, LaneKnows, NoLoss, Delivered, InPel,
            workerVars, driverVars, runnerVars, laneVars, storeVars, streamVars, consumerVars
<1>1. CASE Publish
  BY <1>1 DEF Publish
<1>2. ASSUME NEW c \in Consumers, SetStop(c), UNCHANGED driverVars PROVE SafeInv'
  BY <1>2 DEF SetStop
<1>3. ASSUME NEW c \in Consumers, RunnerStop(c), UNCHANGED driverVars PROVE SafeInv'
  BY <1>3 DEF RunnerStop, Cancel
<1>4. ASSUME NEW c \in Consumers, RunnerFail(c), UNCHANGED driverVars PROVE SafeInv'
  BY <1>4 DEF RunnerFail, Cancel
<1>5. ASSUME NEW c \in Consumers, DrainTimeout(c), UNCHANGED driverVars PROVE SafeInv'
  BY <1>5 DEF DrainTimeout, Cancel
<1>6. ASSUME NEW t \in Lanes, CancelLane(t), UNCHANGED driverVars PROVE SafeInv'
  BY <1>6 DEF CancelLane, EndLane, Goto
<1>7. ASSUME NEW t \in Lanes, SwallowCancel(t), UNCHANGED driverVars PROVE SafeInv'
  BY <1>7 DEF SwallowCancel
<1>8. ASSUME NEW t \in Lanes, Find(t), UNCHANGED driverVars PROVE SafeInv'
  BY <1>8 DEF Find, Goto, At
<1>8a. ASSUME NEW t \in Lanes, FindReply(t), UNCHANGED driverVars PROVE SafeInv'
  BY <1>8a DEF FindReply, Goto, At
<1>9. ASSUME NEW t \in Lanes, Succeed(t), UNCHANGED driverVars PROVE SafeInv'
  BY <1>9 DEF Succeed, Goto, At
<1>10. ASSUME NEW t \in Lanes, FailJob(t), UNCHANGED driverVars PROVE SafeInv'
  BY <1>10 DEF FailJob, Goto, At
<1>11. ASSUME NEW t \in Lanes, DefinitionError(t), UNCHANGED driverVars PROVE SafeInv'
  BY <1>11 DEF DefinitionError, Raise, EndLane, Goto, At
<1>12. ASSUME NEW t \in Lanes, Save(t), UNCHANGED driverVars PROVE SafeInv'
  BY <1>12 DEF Save, Goto, At
<1>13. ASSUME NEW t \in Lanes, SaveReply(t), UNCHANGED driverVars PROVE SafeInv'
  BY <1>13 DEF SaveReply, Goto, At
<1>14. ASSUME NEW t \in Lanes, SaveDuplicate(t), UNCHANGED driverVars PROVE SafeInv'
  BY <1>14 DEF SaveDuplicate, Goto, At
<1>15. ASSUME NEW t \in Lanes, SaveVanished(t), UNCHANGED driverVars PROVE SafeInv'
  BY <1>15 DEF SaveVanished, Raise, EndLane, Goto, At
<1>16. ASSUME NEW t \in Lanes, StoreError(t), UNCHANGED driverVars PROVE SafeInv'
  BY <1>16 DEF StoreError, Raise, EndLane, Goto
<1>17. ASSUME NEW m \in Messages, Forget(m), UNCHANGED driverVars PROVE SafeInv'
  BY <1>17 DEF Forget
<1>18. ASSUME NEW t \in Lanes, EnterReceive(t) PROVE SafeInv'
  BY <1>18 DEF EnterReceive, Goto, At
<1>19. ASSUME NEW t \in Lanes, AutoClaim(t) PROVE SafeInv'
  BY <1>19 DEF AutoClaim, Claims, IsFirst, Idle, Goto, At
<1>20. ASSUME NEW t \in Lanes, AutoClaimEmpty(t) PROVE SafeInv'
  BY <1>20 DEF AutoClaimEmpty, Goto, At
<1>21. ASSUME NEW t \in Lanes, ReadNew(t) PROVE SafeInv'
  <2>1. /\ pc' = [pc EXCEPT ![t] = "readReply"]
        /\ held' = [held EXCEPT ![t] = lastDelivered + 1]
        /\ owner' = [owner EXCEPT ![lastDelivered + 1] = Home[t]]
        /\ lastDelivered' = lastDelivered + 1 /\ lastDelivered + 1 <= published
        /\ UNCHANGED <<published, acked, failures, recorded, succeeded>>
    BY <1>21 DEF ReadNew, Goto
  <2>2. LaneKnows' /\ (failures \subseteq recorded)' /\ NoLoss'
    BY <2>1 DEF AckPcs
  <2>3. lastDelivered \in Nat /\ published \in Nat
    BY BoundsAssumption
  <2>4. (\A u \in Lanes : held[u] <= lastDelivered)'
    <3> SUFFICES ASSUME NEW u \in Lanes PROVE held'[u] <= lastDelivered + 1
      BY <2>1
    <3>1. held[u] \in Nat /\ held[u] <= lastDelivered
      BY BoundsAssumption DEF Messages
    <3> QED BY <2>1, <2>3, <3>1
  <2>5. (\A m \in Messages : InPel(m) \/ acked[m] => m <= lastDelivered)'
    <3> SUFFICES ASSUME NEW m \in Messages, owner'[m] # None \/ acked[m]
                 PROVE  m <= lastDelivered + 1
      BY <2>1
    <3>1. m \in Nat /\ (m = lastDelivered + 1 \/ m <= lastDelivered)
      BY <2>1 DEF Messages
    <3> QED BY <2>3, <3>1
  <2> QED BY <2>1, <2>2, <2>4, <2>5
<1>22. ASSUME NEW t \in Lanes, ReadEmpty(t) PROVE SafeInv'
  BY <1>22 DEF ReadEmpty, Goto, At
<1>23. ASSUME NEW t \in Lanes, ReceiveRaises(t) PROVE SafeInv'
  BY <1>23 DEF ReceiveRaises, Raise, EndLane, Goto, At
<1>24. ASSUME NEW t \in Lanes, Deliver(t) PROVE SafeInv'
  BY <1>24 DEF Deliver, TakeCursor, FirstStep, Goto
<1>25. ASSUME NEW t \in Lanes, DeliverLapsed(t) PROVE SafeInv'
  BY <1>25 DEF DeliverLapsed, TakeCursor, Raise, EndLane, Goto
<1>26. ASSUME NEW t \in Lanes, Ack(t) PROVE SafeInv'
  BY <1>26 DEF Ack, Settle, Goto, At
<1>27. ASSUME NEW t \in Lanes, AckRefused(t) PROVE SafeInv'
  BY <1>27 DEF AckRefused, Goto, At
<1>28. ASSUME NEW t \in Lanes, AckReply(t) PROVE SafeInv'
  BY <1>28 DEF AckReply, LoopHead, EndLane, Goto, At
<1>29. ASSUME NEW t \in Lanes, AckLost(t) PROVE SafeInv'
  BY <1>29 DEF AckLost, Raise, EndLane, Goto, At
<1>30. ASSUME NEW t \in Lanes, RedisError(t) PROVE SafeInv'
  BY <1>30 DEF RedisError, Raise, EndLane, Goto
<1>31. ASSUME NEW c \in Consumers, Start(c) PROVE SafeInv'
  BY <1>31 DEF Start, StartLanes, LoopHead
<1>32. ASSUME NEW c \in Consumers, Close(c) PROVE SafeInv'
  BY <1>32 DEF Close, RunnerExit
<1>33. ASSUME NEW c \in Consumers, Crash(c) PROVE SafeInv'
  BY <1>33 DEF Crash, RunnerCrash
<1>34. ASSUME NEW c \in Consumers, Renew(c) PROVE SafeInv'
  BY <1>34 DEF Renew
<1>35. ASSUME NEW c \in Consumers, RenewRefused(c) PROVE SafeInv'
  BY <1>35 DEF RenewRefused
<1>36. ASSUME NEW c \in Consumers, RenewReply(c) PROVE SafeInv'
  BY <1>36 DEF RenewReply
<1>37. ASSUME NEW c \in Consumers, RenewLost(c) PROVE SafeInv'
  BY <1>37 DEF RenewLost, EndRenewal, Cancel
<1>38. ASSUME NEW c \in Consumers, RenewError(c) PROVE SafeInv'
  BY <1>38 DEF RenewError, EndRenewal, Cancel
<1>39. ASSUME NEW m \in Messages, Expire(m) PROVE SafeInv'
  BY <1>39 DEF Expire
<1>40. CASE UNCHANGED vars
  BY <1>40 DEF vars
<1> QED
  BY <1>1, <1>2, <1>3, <1>4, <1>5, <1>6, <1>7, <1>8, <1>8a, <1>9, <1>10, <1>11, <1>12, 
     <1>13, <1>14, <1>15, <1>16, <1>17, <1>18, <1>19, <1>20, <1>21, <1>22, <1>23, 
     <1>24, <1>25, <1>26, <1>27, <1>28, <1>29, <1>30, <1>31, <1>32, <1>33, <1>34, 
     <1>35, <1>36, <1>37, <1>38, <1>39, <1>40
  DEF Next, WorkerStep, LaneStep

(* Types and safety, in every state.                                       *)
LEMMA SafeInvariant == Spec => [](TypeInv /\ SafeInv)
<1>1. Init => SafeInv
  BY DEF Init, WorkerInit, SafeInv, LaneKnows, NoLoss, Delivered, InPel
<1> QED
  BY <1>1, InitTypeInv, TypeInvStep, SafeInvStep, PTL DEF Spec

(* No message leaves Redis before its job succeeded or its failure was     *)
(* persisted, for any number of workers, lanes, restarts and faults.       *)
THEOREM MessagesNotLost == Spec => []NoLoss
<1>1. SafeInv => NoLoss
  BY DEF SafeInv
<1> QED
  BY <1>1, SafeInvariant, PTL

-----------------------------------------------------------------------------
(* One lane per message.  The invariant adds that the message of an        *)
(* executing lane is a key of its consumer's "pending", which is what the  *)
(* check in receive() relies on.                                           *)

HeldIsPending == \A t \in Lanes : Executing(t) => held[t] \in pending[Home[t]]

LaneInv == HeldIsPending /\ OneLanePerMessage

(* What a lane executes stays in the pending table.                        *)
LEMMA LaneInvStep == TypeInv /\ LaneInv /\ [Next]_vars => LaneInv'
<1> SUFFICES ASSUME TypeInv, LaneInv, [Next]_vars PROVE LaneInv'
  OBVIOUS
<1> USE DEF TypeInv, TypeOK, WorkerTypeOK, HeldOK, LaneInv, HeldIsPending, OneLanePerMessage,
            Executing, workerVars, driverVars, runnerVars, laneVars, storeVars, streamVars,
            consumerVars
<1>1. CASE Publish
  BY <1>1 DEF Publish
<1>2. ASSUME NEW c \in Consumers, SetStop(c), UNCHANGED driverVars PROVE LaneInv'
  BY <1>2 DEF SetStop
<1>3. ASSUME NEW c \in Consumers, RunnerStop(c), UNCHANGED driverVars PROVE LaneInv'
  BY <1>3 DEF RunnerStop, Cancel
<1>4. ASSUME NEW c \in Consumers, RunnerFail(c), UNCHANGED driverVars PROVE LaneInv'
  BY <1>4 DEF RunnerFail, Cancel
<1>5. ASSUME NEW c \in Consumers, DrainTimeout(c), UNCHANGED driverVars PROVE LaneInv'
  BY <1>5 DEF DrainTimeout, Cancel
<1>6. ASSUME NEW t \in Lanes, CancelLane(t), UNCHANGED driverVars PROVE LaneInv'
  BY <1>6 DEF CancelLane, EndLane, Goto
<1>7. ASSUME NEW t \in Lanes, SwallowCancel(t), UNCHANGED driverVars PROVE LaneInv'
  BY <1>7 DEF SwallowCancel
<1>8. ASSUME NEW t \in Lanes, Find(t), UNCHANGED driverVars PROVE LaneInv'
  BY <1>8 DEF Find, Goto, At
<1>8a. ASSUME NEW t \in Lanes, FindReply(t), UNCHANGED driverVars PROVE LaneInv'
  BY <1>8a DEF FindReply, Goto, At
<1>9. ASSUME NEW t \in Lanes, Succeed(t), UNCHANGED driverVars PROVE LaneInv'
  BY <1>9 DEF Succeed, Goto, At
<1>10. ASSUME NEW t \in Lanes, FailJob(t), UNCHANGED driverVars PROVE LaneInv'
  BY <1>10 DEF FailJob, Goto, At
<1>11. ASSUME NEW t \in Lanes, DefinitionError(t), UNCHANGED driverVars PROVE LaneInv'
  BY <1>11 DEF DefinitionError, Raise, EndLane, Goto, At
<1>12. ASSUME NEW t \in Lanes, Save(t), UNCHANGED driverVars PROVE LaneInv'
  BY <1>12 DEF Save, Goto, At
<1>13. ASSUME NEW t \in Lanes, SaveReply(t), UNCHANGED driverVars PROVE LaneInv'
  BY <1>13 DEF SaveReply, Goto, At
<1>14. ASSUME NEW t \in Lanes, SaveDuplicate(t), UNCHANGED driverVars PROVE LaneInv'
  BY <1>14 DEF SaveDuplicate, Goto, At
<1>15. ASSUME NEW t \in Lanes, SaveVanished(t), UNCHANGED driverVars PROVE LaneInv'
  BY <1>15 DEF SaveVanished, Raise, EndLane, Goto, At
<1>16. ASSUME NEW t \in Lanes, StoreError(t), UNCHANGED driverVars PROVE LaneInv'
  BY <1>16 DEF StoreError, Raise, EndLane, Goto
<1>17. ASSUME NEW m \in Messages, Forget(m), UNCHANGED driverVars PROVE LaneInv'
  BY <1>17 DEF Forget
<1>18. ASSUME NEW t \in Lanes, EnterReceive(t) PROVE LaneInv'
  BY <1>18 DEF EnterReceive, Goto, At
<1>19. ASSUME NEW t \in Lanes, AutoClaim(t) PROVE LaneInv'
  BY <1>19 DEF AutoClaim, Claims, IsFirst, Idle, Goto, At
<1>20. ASSUME NEW t \in Lanes, AutoClaimEmpty(t) PROVE LaneInv'
  BY <1>20 DEF AutoClaimEmpty, Goto, At
<1>21. ASSUME NEW t \in Lanes, ReadNew(t) PROVE LaneInv'
  BY <1>21 DEF ReadNew, Goto, At
<1>22. ASSUME NEW t \in Lanes, ReadEmpty(t) PROVE LaneInv'
  BY <1>22 DEF ReadEmpty, Goto, At
<1>23. ASSUME NEW t \in Lanes, ReceiveRaises(t) PROVE LaneInv'
  BY <1>23 DEF ReceiveRaises, Raise, EndLane, Goto, At
<1>24. ASSUME NEW t \in Lanes, Deliver(t) PROVE LaneInv'
  BY <1>24 DEF Deliver, TakeCursor, FirstStep, Goto
<1>25. ASSUME NEW t \in Lanes, DeliverLapsed(t) PROVE LaneInv'
  BY <1>25 DEF DeliverLapsed, TakeCursor, Raise, EndLane, Goto
<1>26. ASSUME NEW t \in Lanes, Ack(t) PROVE LaneInv'
  BY <1>26 DEF Ack, Settle, Goto, At
<1>27. ASSUME NEW t \in Lanes, AckRefused(t) PROVE LaneInv'
  BY <1>27 DEF AckRefused, Goto, At
<1>28. ASSUME NEW t \in Lanes, AckReply(t) PROVE LaneInv'
  BY <1>28 DEF AckReply, LoopHead, EndLane, Goto, At
<1>29. ASSUME NEW t \in Lanes, AckLost(t) PROVE LaneInv'
  BY <1>29 DEF AckLost, Raise, EndLane, Goto, At
<1>30. ASSUME NEW t \in Lanes, RedisError(t) PROVE LaneInv'
  BY <1>30 DEF RedisError, Raise, EndLane, Goto
<1>31. ASSUME NEW c \in Consumers, Start(c) PROVE LaneInv'
  BY <1>31 DEF Start, StartLanes, LoopHead
<1>32. ASSUME NEW c \in Consumers, Close(c) PROVE LaneInv'
  BY <1>32 DEF Close, RunnerExit
<1>33. ASSUME NEW c \in Consumers, Crash(c) PROVE LaneInv'
  BY <1>33 DEF Crash, RunnerCrash
<1>34. ASSUME NEW c \in Consumers, Renew(c) PROVE LaneInv'
  BY <1>34 DEF Renew
<1>35. ASSUME NEW c \in Consumers, RenewRefused(c) PROVE LaneInv'
  BY <1>35 DEF RenewRefused
<1>36. ASSUME NEW c \in Consumers, RenewReply(c) PROVE LaneInv'
  BY <1>36 DEF RenewReply
<1>37. ASSUME NEW c \in Consumers, RenewLost(c) PROVE LaneInv'
  BY <1>37 DEF RenewLost, EndRenewal, Cancel
<1>38. ASSUME NEW c \in Consumers, RenewError(c) PROVE LaneInv'
  BY <1>38 DEF RenewError, EndRenewal, Cancel
<1>39. ASSUME NEW m \in Messages, Expire(m) PROVE LaneInv'
  BY <1>39 DEF Expire
<1>40. CASE UNCHANGED vars
  BY <1>40 DEF vars
<1> QED
  BY <1>1, <1>2, <1>3, <1>4, <1>5, <1>6, <1>7, <1>8, <1>8a, <1>9, <1>10, <1>11, <1>12, 
     <1>13, <1>14, <1>15, <1>16, <1>17, <1>18, <1>19, <1>20, <1>21, <1>22, <1>23, 
     <1>24, <1>25, <1>26, <1>27, <1>28, <1>29, <1>30, <1>31, <1>32, <1>33, <1>34, 
     <1>35, <1>36, <1>37, <1>38, <1>39, <1>40
  DEF Next, WorkerStep, LaneStep

(* Two lanes of one worker never execute the same message at once, however *)
(* leases expire and entries are taken over.                               *)
THEOREM LanesDisjoint == Spec => []OneLanePerMessage
<1>1. Init => LaneInv
  BY DEF Init, WorkerInit, LaneInv, HeldIsPending, OneLanePerMessage, Executing
<1>2. LaneInv => OneLanePerMessage
  BY DEF LaneInv
<1> QED
  BY <1>1, <1>2, InitTypeInv, TypeInvStep, LaneInvStep, PTL DEF Spec

-----------------------------------------------------------------------------
(* Refinement: the status of a message is a function of published and      *)
(* acked, so only five kinds of step change the abstract state.            *)

(* The initial states are initial states of JobDelivery.                   *)
LEMMA InitRefines == Init => JD!Init
BY DEF Init, WorkerInit, JD!Init

(* Every step is a step of JobDelivery or a stutter.                       *)
LEMMA StepRefines == TypeInv /\ SafeInv /\ [Next]_vars => [JD!Next]_JD!vars
<1> SUFFICES ASSUME TypeInv, SafeInv, [Next]_vars, ~ UNCHANGED JD!vars PROVE JD!Next
  OBVIOUS
<1> USE DEF TypeInv, TypeOK, WorkerTypeOK, HeldOK, SafeInv, LaneKnows, NoLoss, Delivered,
            workerVars, driverVars, runnerVars, laneVars, storeVars, streamVars, consumerVars
<1>0. ~ UNCHANGED <<published, acked, succeeded, recorded>>
  BY DEF JD!vars
<1> USE DEF JD!vars
<1>1. CASE Publish
  <2>1. published + 1 \in Messages
    BY <1>1 DEF Publish
  <2>2. ~acked[published + 1]
    BY <2>1
  <2>3. \A m \in Messages : m <= published' <=> m <= published \/ m = published + 1
    BY <1>1 DEF Publish
  <2>4. JD!Publish(published + 1)
    <3>1. ~(published + 1 <= published) /\ UNCHANGED <<acked, succeeded, recorded>>
      BY <1>1 DEF Publish
    <3> HIDE DEF TypeInv, SafeInv
    <3> QED BY <2>1, <2>2, <2>3, <3>1 DEF JD!Publish
  <2> QED BY <2>1, <2>4 DEF JD!Next, JD!Publish
<1>2. ASSUME NEW t \in Lanes, Succeed(t), UNCHANGED driverVars PROVE JD!Next
  <2>1. held[t] \in Messages /\ held[t] <= published
    BY <1>2 DEF Succeed, At
  <2>2. JD!Succeed(held[t])
    BY <1>2, <2>1 DEF Succeed, JD!Succeed
  <2> QED BY <2>1, <2>2 DEF JD!Next
<1>3. ASSUME NEW t \in Lanes, Save(t), UNCHANGED driverVars PROVE JD!Next
  <2>1. held[t] \in Messages /\ held[t] <= published
    BY <1>3 DEF Save, At
  <2>2. JD!Record(held[t])
    BY <1>3, <2>1 DEF Save, JD!Record
  <2> QED BY <2>1, <2>2 DEF JD!Next
<1>4. ASSUME NEW t \in Lanes, Ack(t) PROVE JD!Next
  <2>1. held[t] \in Messages /\ held[t] <= published /\ held[t] \in succeeded \cup recorded
    BY <1>4 DEF Ack, At
  <2>2. ~acked[held[t]]
    BY <1>4, <2>1 DEF Ack, Settle
  <2>3. JD!Settle(held[t])
    BY <1>4, <2>1, <2>2 DEF Ack, Settle, JD!Settle
  <2> QED BY <2>1, <2>3 DEF JD!Next, JD!Settle
<1>5. ASSUME NEW c \in Consumers, UNCHANGED driverVars,
             SetStop(c) \/ RunnerStop(c) \/ RunnerFail(c) \/ DrainTimeout(c)
      PROVE  FALSE
  BY <1>5 DEF SetStop, RunnerStop, RunnerFail, DrainTimeout
<1>6. ASSUME NEW t \in Lanes, UNCHANGED driverVars,
             \/ CancelLane(t) \/ SwallowCancel(t) \/ Find(t) \/ FindReply(t) \/ FailJob(t)
             \/ DefinitionError(t) \/ SaveReply(t) \/ SaveDuplicate(t) \/ SaveVanished(t) \/ StoreError(t)
      PROVE  FALSE
  BY <1>6 DEF CancelLane, SwallowCancel, Find, FindReply, FailJob, DefinitionError, SaveReply,
              SaveDuplicate, SaveVanished, StoreError
<1>7. ASSUME NEW m \in Messages, Forget(m), UNCHANGED driverVars PROVE FALSE
  BY <1>7 DEF Forget
<1>8. ASSUME NEW t \in Lanes,
             \/ EnterReceive(t) \/ AutoClaim(t) \/ AutoClaimEmpty(t) \/ ReadNew(t) \/ ReadEmpty(t)
             \/ ReceiveRaises(t) \/ Deliver(t) \/ DeliverLapsed(t)
             \/ AckRefused(t) \/ AckReply(t) \/ AckLost(t) \/ RedisError(t)
      PROVE  FALSE
  <2> HIDE DEF TypeInv, SafeInv, JD!vars
  <2>1. ~(EnterReceive(t) \/ AutoClaim(t) \/ AutoClaimEmpty(t))
    BY <1>0 DEF EnterReceive, AutoClaim, AutoClaimEmpty
  <2>2. ~(ReadNew(t) \/ ReadEmpty(t) \/ ReceiveRaises(t))
    BY <1>0 DEF ReadNew, ReadEmpty, ReceiveRaises
  <2>3. ~(Deliver(t) \/ DeliverLapsed(t))
    BY <1>0 DEF Deliver, DeliverLapsed
  <2>4. ~(AckRefused(t) \/ AckReply(t) \/ AckLost(t) \/ RedisError(t))
    BY <1>0 DEF AckRefused, AckReply, AckLost, RedisError
  <2> QED BY <1>8, <2>1, <2>2, <2>3, <2>4
<1>9. ASSUME NEW c \in Consumers,
             \/ Start(c) \/ Close(c) \/ Crash(c) \/ Renew(c) \/ RenewRefused(c) \/ RenewReply(c)
             \/ RenewLost(c) \/ RenewError(c)
      PROVE  FALSE
  BY <1>9 DEF Start, StartLanes, Close, RunnerExit, Crash, RunnerCrash, Renew, RenewRefused,
              RenewReply, RenewLost, RenewError, EndRenewal
<1>10. ASSUME NEW m \in Messages, Expire(m) PROVE FALSE
  BY <1>10 DEF Expire
<1>11. ~ UNCHANGED vars
  BY DEF vars
<1> QED
  BY <1>1, <1>2, <1>3, <1>4, <1>5, <1>6, <1>7, <1>8, <1>9, <1>10, <1>11
  DEF Next, WorkerStep, LaneStep

(* Workers on Redis Streams deliver at least once: every behaviour of the  *)
(* stream, the consumers and the executors is one of JobDelivery.          *)
THEOREM ImplementsJobDelivery == Spec => DeliversAtLeastOnce
<1>1. Spec => [](TypeInv /\ SafeInv)
  BY SafeInvariant
<1> QED
  BY <1>1, InitRefines, StepRefines, PTL DEF Spec, DeliversAtLeastOnce, JD!Spec

-----------------------------------------------------------------------------
(* A recorded failure is not run again by its owner.  execute() skips the  *)
(* look-up for a message read with XREADGROUP; that is safe because such a *)
(* message, while it is ours, is in nobody else's hands and not on record. *)

(* _receive_lock admits one lane of a consumer to Redis at a time.         *)
ReceiveExclusive ==
  \A t, u \in Lanes :
    /\ pc[t] \in ReceivePcs \ {"wait"} /\ pc[u] \in ReceivePcs \ {"wait"}
    /\ Home[t] = Home[u]
    => t = u

FirstDelivery ==
  \A t \in Lanes :
    pc[t] = "readReply" /\ owner[held[t]] = Home[t] =>
      /\ held[t] \notin recorded
      /\ \A u \in Lanes \ {t} : held[u] # held[t]

(* Only delivered messages are on record.                                  *)
RecordedDelivered == \A m \in recorded : m <= lastDelivered

ReadInv == ReceiveExclusive /\ FirstDelivery /\ RecordedDelivered

(* A first-delivery reply stays one without a record.                      *)
LEMMA ReadInvStep == TypeInv /\ SafeInv /\ ReadInv /\ [Next]_vars => ReadInv'
<1> SUFFICES ASSUME TypeInv, SafeInv, ReadInv, [Next]_vars PROVE ReadInv'
  OBVIOUS
<1> USE DEF TypeInv, TypeOK, WorkerTypeOK, HeldOK, SafeInv, Delivered,
            ReadInv, ReceiveExclusive, FirstDelivery, RecordedDelivered,
            workerVars, driverVars, runnerVars, laneVars, storeVars, streamVars, consumerVars
<1>1. CASE Publish
  BY <1>1 DEF Publish
<1>2. ASSUME NEW c \in Consumers, SetStop(c), UNCHANGED driverVars PROVE ReadInv'
  BY <1>2 DEF SetStop
<1>3. ASSUME NEW c \in Consumers, RunnerStop(c), UNCHANGED driverVars PROVE ReadInv'
  BY <1>3 DEF RunnerStop, Cancel
<1>4. ASSUME NEW c \in Consumers, RunnerFail(c), UNCHANGED driverVars PROVE ReadInv'
  BY <1>4 DEF RunnerFail, Cancel
<1>5. ASSUME NEW c \in Consumers, DrainTimeout(c), UNCHANGED driverVars PROVE ReadInv'
  BY <1>5 DEF DrainTimeout, Cancel
<1>6. ASSUME NEW t \in Lanes, CancelLane(t), UNCHANGED driverVars PROVE ReadInv'
  BY <1>6 DEF CancelLane, EndLane, Goto
<1>7. ASSUME NEW t \in Lanes, SwallowCancel(t), UNCHANGED driverVars PROVE ReadInv'
  BY <1>7 DEF SwallowCancel
<1>8. ASSUME NEW t \in Lanes, Find(t), UNCHANGED driverVars PROVE ReadInv'
  BY <1>8 DEF Find, Goto, At
<1>8a. ASSUME NEW t \in Lanes, FindReply(t), UNCHANGED driverVars PROVE ReadInv'
  BY <1>8a DEF FindReply, Goto, At
<1>9. ASSUME NEW t \in Lanes, Succeed(t), UNCHANGED driverVars PROVE ReadInv'
  BY <1>9 DEF Succeed, Goto, At
<1>10. ASSUME NEW t \in Lanes, FailJob(t), UNCHANGED driverVars PROVE ReadInv'
  BY <1>10 DEF FailJob, Goto, At
<1>11. ASSUME NEW t \in Lanes, DefinitionError(t), UNCHANGED driverVars PROVE ReadInv'
  BY <1>11 DEF DefinitionError, Raise, EndLane, Goto, At
<1>12. ASSUME NEW t \in Lanes, Save(t), UNCHANGED driverVars PROVE ReadInv'
  BY <1>12 DEF Save, Goto, At
<1>13. ASSUME NEW t \in Lanes, SaveReply(t), UNCHANGED driverVars PROVE ReadInv'
  BY <1>13 DEF SaveReply, Goto, At
<1>14. ASSUME NEW t \in Lanes, SaveDuplicate(t), UNCHANGED driverVars PROVE ReadInv'
  BY <1>14 DEF SaveDuplicate, Goto, At
<1>15. ASSUME NEW t \in Lanes, SaveVanished(t), UNCHANGED driverVars PROVE ReadInv'
  BY <1>15 DEF SaveVanished, Raise, EndLane, Goto, At
<1>16. ASSUME NEW t \in Lanes, StoreError(t), UNCHANGED driverVars PROVE ReadInv'
  BY <1>16 DEF StoreError, Raise, EndLane, Goto
<1>17. ASSUME NEW m \in Messages, Forget(m), UNCHANGED driverVars PROVE ReadInv'
  BY <1>17 DEF Forget
<1>18. ASSUME NEW t \in Lanes, EnterReceive(t) PROVE ReadInv'
  BY <1>18 DEF EnterReceive, ReceiveLockFree, LanesOf, Goto, At
<1>19. ASSUME NEW t \in Lanes, AutoClaim(t) PROVE ReadInv'
  <2>1. PICK m \in Messages : /\ owner' = [owner EXCEPT ![m] = Home[t]]
                             /\ held' = [held EXCEPT ![t] = m]
    BY <1>19 DEF AutoClaim
  <2>2. /\ pc[t] = "claim" /\ pc' = [pc EXCEPT ![t] = "claimed"]
        /\ UNCHANGED <<recorded, lastDelivered>>
    BY <1>19 DEF AutoClaim, Goto, At
  <2>3. ReceiveExclusive' /\ RecordedDelivered'
    BY <2>2
  <2>4. ASSUME NEW u \in Lanes, pc'[u] = "readReply", owner'[held'[u]] = Home[u]
        PROVE  held'[u] \notin recorded' /\ \A v \in Lanes \ {u} : held'[v] # held'[u]
    <3>1. u # t /\ pc[u] = "readReply" /\ held'[u] = held[u]
      BY <2>1, <2>2, <2>4
    <3>2. Home[u] # Home[t]
      BY <2>2, <3>1
    <3>3. held[u] # m /\ owner[held[u]] = Home[u]
      BY <2>1, <2>4, <3>1, <3>2
    <3> QED BY <2>1, <2>2, <3>1, <3>3
  <2> QED BY <2>3, <2>4
<1>20. ASSUME NEW t \in Lanes, AutoClaimEmpty(t) PROVE ReadInv'
  BY <1>20 DEF AutoClaimEmpty, Goto, At
<1>21. ASSUME NEW t \in Lanes, ReadNew(t) PROVE ReadInv'
  BY <1>21 DEF ReadNew, Goto, At
<1>22. ASSUME NEW t \in Lanes, ReadEmpty(t) PROVE ReadInv'
  BY <1>22 DEF ReadEmpty, Goto, At
<1>23. ASSUME NEW t \in Lanes, ReceiveRaises(t) PROVE ReadInv'
  BY <1>23 DEF ReceiveRaises, Raise, EndLane, Goto, At
<1>24. ASSUME NEW t \in Lanes, Deliver(t) PROVE ReadInv'
  BY <1>24 DEF Deliver, TakeCursor, FirstStep, Goto
<1>25. ASSUME NEW t \in Lanes, DeliverLapsed(t) PROVE ReadInv'
  BY <1>25 DEF DeliverLapsed, TakeCursor, Raise, EndLane, Goto
<1>26. ASSUME NEW t \in Lanes, Ack(t) PROVE ReadInv'
  BY <1>26 DEF Ack, Settle, Goto, At
<1>27. ASSUME NEW t \in Lanes, AckRefused(t) PROVE ReadInv'
  BY <1>27 DEF AckRefused, Goto, At
<1>28. ASSUME NEW t \in Lanes, AckReply(t) PROVE ReadInv'
  BY <1>28 DEF AckReply, LoopHead, EndLane, Goto, At
<1>29. ASSUME NEW t \in Lanes, AckLost(t) PROVE ReadInv'
  BY <1>29 DEF AckLost, Raise, EndLane, Goto, At
<1>30. ASSUME NEW t \in Lanes, RedisError(t) PROVE ReadInv'
  BY <1>30 DEF RedisError, Raise, EndLane, Goto
<1>31. ASSUME NEW c \in Consumers, Start(c) PROVE ReadInv'
  BY <1>31 DEF Start, StartLanes, LoopHead
<1>32. ASSUME NEW c \in Consumers, Close(c) PROVE ReadInv'
  BY <1>32 DEF Close, RunnerExit
<1>33. ASSUME NEW c \in Consumers, Crash(c) PROVE ReadInv'
  BY <1>33 DEF Crash, RunnerCrash
<1>34. ASSUME NEW c \in Consumers, Renew(c) PROVE ReadInv'
  BY <1>34 DEF Renew
<1>35. ASSUME NEW c \in Consumers, RenewRefused(c) PROVE ReadInv'
  BY <1>35 DEF RenewRefused
<1>36. ASSUME NEW c \in Consumers, RenewReply(c) PROVE ReadInv'
  BY <1>36 DEF RenewReply
<1>37. ASSUME NEW c \in Consumers, RenewLost(c) PROVE ReadInv'
  BY <1>37 DEF RenewLost, EndRenewal, Cancel
<1>38. ASSUME NEW c \in Consumers, RenewError(c) PROVE ReadInv'
  BY <1>38 DEF RenewError, EndRenewal, Cancel
<1>39. ASSUME NEW m \in Messages, Expire(m) PROVE ReadInv'
  BY <1>39 DEF Expire
<1>40. CASE UNCHANGED vars
  BY <1>40 DEF vars
<1> QED
  BY <1>1, <1>2, <1>3, <1>4, <1>5, <1>6, <1>7, <1>8, <1>8a, <1>9, <1>10, <1>11, <1>12, 
     <1>13, <1>14, <1>15, <1>16, <1>17, <1>18, <1>19, <1>20, <1>21, <1>22, <1>23, 
     <1>24, <1>25, <1>26, <1>27, <1>28, <1>29, <1>30, <1>31, <1>32, <1>33, <1>34, 
     <1>35, <1>36, <1>37, <1>38, <1>39, <1>40
  DEF Next, WorkerStep, LaneStep

(* After a lost acknowledgement the redelivery of a recorded failure is    *)
(* acknowledged, not run: a lane that owns its message decides to run it   *)
(* only while there is no failure record of it, whether it looks for one   *)
(* or relies on the message being new.                                     *)
THEOREM RecordedFailuresNotRerun == Spec => NoRerunOfRecordedFailure
<1> DEFINE Start1 == \A t \in Lanes :
                       DecidesToRun(t) /\ owner[held'[t]] = Home[t] => held'[t] \notin failures
<1>1. Init => ReadInv
  BY DEF Init, WorkerInit, ReadInv, ReceiveExclusive, FirstDelivery, RecordedDelivered
<1>2. Spec => [](TypeInv /\ SafeInv /\ ReadInv)
  BY <1>1, SafeInvariant, ReadInvStep, PTL DEF Spec
<1>3. TypeInv /\ SafeInv /\ ReadInv /\ [Next]_vars => [Start1]_vars
  <2> SUFFICES ASSUME TypeInv, SafeInv, ReadInv, Next,
                      NEW t \in Lanes, DecidesToRun(t), owner[held'[t]] = Home[t]
               PROVE  held'[t] \notin failures
    OBVIOUS
  <2> USE DEF TypeInv, TypeOK, WorkerTypeOK, workerVars, driverVars, runnerVars, laneVars,
              storeVars, streamVars, consumerVars, DecidesToRun
  <2>1. CASE Find(t)
    BY <2>1 DEF Find, Goto
  <2>2. CASE Deliver(t)
    BY <2>2 DEF Deliver, FirstStep, Goto, SafeInv, ReadInv, FirstDelivery
  <2>3. CASE \E u \in Lanes : u # t /\ (Find(u) \/ Deliver(u))
    BY <2>3 DEF Find, Deliver, Goto
  <2>4. CASE Publish \/ UNCHANGED pc
    BY <2>4 DEF Publish
  <2>5. ASSUME NEW c \in Consumers,
               \/ SetStop(c) \/ RunnerStop(c) \/ RunnerFail(c) \/ DrainTimeout(c)
               \/ Start(c) \/ Close(c) \/ Crash(c) \/ Renew(c) \/ RenewRefused(c)
               \/ RenewReply(c) \/ RenewLost(c) \/ RenewError(c)
        PROVE  FALSE
    BY <2>5 DEF SetStop, RunnerStop, RunnerFail, DrainTimeout, Start, StartLanes, LoopHead, Close,
                RunnerExit, Crash, RunnerCrash, Renew, RenewRefused, RenewReply, RenewLost,
                RenewError, EndRenewal
  <2>6. ASSUME NEW u \in Lanes,
               \/ CancelLane(u) \/ SwallowCancel(u) \/ FindReply(u) \/ Succeed(u) \/ FailJob(u)
               \/ DefinitionError(u) \/ Save(u) \/ SaveReply(u) \/ SaveDuplicate(u)
               \/ SaveVanished(u) \/ StoreError(u)
        PROVE  FALSE
    BY <2>6 DEF CancelLane, SwallowCancel, FindReply, At, Succeed, FailJob, DefinitionError, Save,
                SaveReply, SaveDuplicate, SaveVanished, StoreError, Raise, EndLane, Goto
  <2>8. ASSUME NEW u \in Lanes,
               \/ EnterReceive(u) \/ AutoClaim(u) \/ AutoClaimEmpty(u) \/ ReadNew(u)
               \/ ReadEmpty(u) \/ ReceiveRaises(u) \/ DeliverLapsed(u)
        PROVE  FALSE
    <3>1. ~EnterReceive(u) /\ ~AutoClaimEmpty(u)
      BY DEF EnterReceive, AutoClaimEmpty, Goto
    <3>4. ~AutoClaim(u)
      <4>1. AutoClaim(u) => Goto(u, "claimed")
        BY DEF AutoClaim
      <4> QED BY <4>1 DEF Goto
    <3>2. ~(ReadNew(u) \/ ReadEmpty(u))
      BY DEF ReadNew, ReadEmpty, Goto
    <3>3. ~(ReceiveRaises(u) \/ DeliverLapsed(u))
      BY DEF ReceiveRaises, DeliverLapsed, Raise, EndLane, Goto
    <3> QED BY <2>8, <3>1, <3>2, <3>3, <3>4
  <2>9. ASSUME NEW u \in Lanes, AckReply(u) PROVE FALSE
    BY <2>9 DEF AckReply, EndLane, LoopHead, Goto
  <2>10. ASSUME NEW u \in Lanes, Ack(u) \/ AckRefused(u) \/ AckLost(u) \/ RedisError(u)
         PROVE  FALSE
    BY <2>10 DEF Ack, Settle, AckRefused, AckLost, RedisError, Raise, EndLane, Goto
  <2>7. ASSUME NEW m \in Messages, Forget(m) \/ Expire(m) PROVE FALSE
    BY <2>7 DEF Forget, Expire
  <2> QED
    BY <2>1, <2>2, <2>3, <2>4, <2>5, <2>6, <2>7, <2>8, <2>9, <2>10 DEF Next, WorkerStep, LaneStep
<1> QED
  BY <1>2, <1>3, PTL DEF Spec, NoRerunOfRecordedFailure

-----------------------------------------------------------------------------
(* A worker fails only after a fault.  While there has been none, what a   *)
(* running or draining worker has pending is its own and its lease is      *)
(* kept, so that no acknowledgement, renewal or takeover can find it gone. *)

(* A worker that has not started has nothing; only a live one has lanes;   *)
(* a cancellation is waiting for a lane that has not ended.                *)
RunnerOK ==
  /\ \A c \in Consumers : mode[c] = "new" => pending[c] = {} /\ renewal[c] = "off"
  /\ \A t \in Lanes : ~Ended(t) => Alive(Home[t])
  /\ \A t \in Lanes : cancelled[t] => ~Ended(t)

(* A settled entry has left the PEL and was settled by one lane, and a     *)
(* pending one was in it.                                                  *)
EntryOK ==
  /\ \A m \in Messages : acked[m] => owner[m] = None
  /\ \A t \in Lanes : pc[t] = "ackOk" => acked[held[t]]
  /\ \A t, u \in Lanes : pc[t] = "ackOk" /\ pc[u] = "ackOk" /\ held[t] = held[u] => t = u
  /\ \A c \in Consumers : \A m \in pending[c] : m <= lastDelivered

(* The worker is neither going down nor gone.                              *)
Sound(c) == mode[c] \in {"running", "draining"}

(* m has been settled by a lane of c that waits for the reply.             *)
Answered(c, m) == \E t \in Lanes : Home[t] = c /\ pc[t] = "ackOk" /\ held[t] = m

(* Nobody is cancelled but receivers in a draining worker and everybody    *)
(* after the drain has timed out; a record found in the table stays there. *)
CancelOK ==
  faults = 0 =>
    /\ \A c \in Consumers : mode[c] \notin {"failing", "crashed"}
    /\ \A t \in Lanes : cancelled[t] => mode[Home[t]] \in {"draining", "cancelling"}
    /\ \A t \in Lanes : cancelled[t] /\ Executing(t) => mode[Home[t]] = "cancelling"
    /\ \A t \in Lanes : pc[t] = "duplicate" => held[t] \in failures

(* A sound worker keeps the leases of its deliveries ...                   *)
LeaseOK ==
  faults = 0 => \A c \in Consumers : Sound(c) =>
    \A m \in pending[c] : (owner[m] = c /\ fresh[m]) \/ Answered(c, m)

(* ... and of an entry that it is about to receive.                        *)
ReplyOK ==
  faults = 0 => \A t \in Lanes : pc[t] \in ReplyPcs /\ Sound(Home[t]) =>
    owner[held[t]] = Home[t] /\ fresh[held[t]] /\ held[t] \notin pending[Home[t]]

(* An acknowledgement is refused only to a worker that is going down.      *)
RefusedOK == faults = 0 => \A t \in Lanes : pc[t] = "ackNo" => mode[Home[t]] = "cancelling"

(* task.cancel() on lanes of one worker.                                   *)
LEMMA CancelOwn ==
  ASSUME NEW c \in Consumers, NEW ts \in SUBSET LanesOf(c), Cancel(ts)
  PROVE  \A t \in Lanes : cancelled'[t] => cancelled[t] \/ (Home[t] = c /\ ~Ended(t))
BY DEF Cancel, LanesOf

(* Only a live worker has lanes, and only they are cancelled.              *)
LEMMA RunnerOKStep == TypeInv /\ RunnerOK /\ [Next]_vars => RunnerOK'
<1> SUFFICES ASSUME TypeInv, RunnerOK, [Next]_vars PROVE RunnerOK'
  OBVIOUS
<1> USE DEF TypeInv, TypeOK, WorkerTypeOK, RunnerOK, Alive, Ended, workerVars, driverVars,
            runnerVars, laneVars, storeVars, streamVars, consumerVars
<1>1. CASE Publish
  BY <1>1 DEF Publish
<1>2. ASSUME NEW c \in Consumers, SetStop(c), UNCHANGED driverVars PROVE RunnerOK'
  BY <1>2 DEF SetStop
<1>3. ASSUME NEW c \in Consumers, RunnerStop(c), UNCHANGED driverVars PROVE RunnerOK'
  <2>1. Cancel({t \in LanesOf(c) : Receiving(t)}) /\ mode[c] \notin {"new", "closed", "crashed"}
    BY <1>3 DEF RunnerStop
  <2>2. \A t \in Lanes : cancelled'[t] => cancelled[t] \/ (Home[t] = c /\ ~Ended(t))
    BY <2>1, CancelOwn
  <2> QED BY <1>3, <2>1, <2>2 DEF RunnerStop
<1>4. ASSUME NEW c \in Consumers, RunnerFail(c), UNCHANGED driverVars PROVE RunnerOK'
  <2>1. Cancel(LanesOf(c)) /\ mode[c] \notin {"new", "closed", "crashed"}
    BY <1>4 DEF RunnerFail
  <2>2. \A t \in Lanes : cancelled'[t] => cancelled[t] \/ (Home[t] = c /\ ~Ended(t))
    BY <2>1, CancelOwn
  <2> QED BY <1>4, <2>1, <2>2 DEF RunnerFail
<1>5. ASSUME NEW c \in Consumers, DrainTimeout(c), UNCHANGED driverVars PROVE RunnerOK'
  <2>1. Cancel(LanesOf(c)) /\ mode[c] \notin {"new", "closed", "crashed"}
    BY <1>5 DEF DrainTimeout
  <2>2. \A t \in Lanes : cancelled'[t] => cancelled[t] \/ (Home[t] = c /\ ~Ended(t))
    BY <2>1, CancelOwn
  <2> QED BY <1>5, <2>1, <2>2 DEF DrainTimeout
<1>6. ASSUME NEW t \in Lanes, CancelLane(t), UNCHANGED driverVars PROVE RunnerOK'
  BY <1>6 DEF CancelLane, EndLane, Goto
<1>7. ASSUME NEW t \in Lanes, SwallowCancel(t), UNCHANGED driverVars PROVE RunnerOK'
  BY <1>7 DEF SwallowCancel
<1>8. ASSUME NEW t \in Lanes, Find(t), UNCHANGED driverVars PROVE RunnerOK'
  BY <1>8 DEF Find, Goto, At
<1>8a. ASSUME NEW t \in Lanes, FindReply(t), UNCHANGED driverVars PROVE RunnerOK'
  BY <1>8a DEF FindReply, Goto, At
<1>9. ASSUME NEW t \in Lanes, Succeed(t), UNCHANGED driverVars PROVE RunnerOK'
  BY <1>9 DEF Succeed, Goto, At
<1>10. ASSUME NEW t \in Lanes, FailJob(t), UNCHANGED driverVars PROVE RunnerOK'
  BY <1>10 DEF FailJob, Goto, At
<1>11. ASSUME NEW t \in Lanes, DefinitionError(t), UNCHANGED driverVars PROVE RunnerOK'
  BY <1>11 DEF DefinitionError, Raise, EndLane, Goto, At, Fault
<1>12. ASSUME NEW t \in Lanes, Save(t), UNCHANGED driverVars PROVE RunnerOK'
  BY <1>12 DEF Save, Goto, At
<1>13. ASSUME NEW t \in Lanes, SaveReply(t), UNCHANGED driverVars PROVE RunnerOK'
  BY <1>13 DEF SaveReply, Goto, At
<1>14. ASSUME NEW t \in Lanes, SaveDuplicate(t), UNCHANGED driverVars PROVE RunnerOK'
  BY <1>14 DEF SaveDuplicate, Goto, At
<1>15. ASSUME NEW t \in Lanes, SaveVanished(t), UNCHANGED driverVars PROVE RunnerOK'
  BY <1>15 DEF SaveVanished, Raise, EndLane, Goto, At
<1>16. ASSUME NEW t \in Lanes, StoreError(t), UNCHANGED driverVars PROVE RunnerOK'
  BY <1>16 DEF StoreError, Raise, EndLane, Goto, At, Fault
<1>17. ASSUME NEW m \in Messages, Forget(m), UNCHANGED driverVars PROVE RunnerOK'
  BY <1>17 DEF Forget, Fault
<1>18. ASSUME NEW t \in Lanes, EnterReceive(t) PROVE RunnerOK'
  BY <1>18 DEF EnterReceive, Goto, At
<1>19. ASSUME NEW t \in Lanes, AutoClaim(t) PROVE RunnerOK'
  BY <1>19 DEF AutoClaim, Goto, At
<1>20. ASSUME NEW t \in Lanes, AutoClaimEmpty(t) PROVE RunnerOK'
  BY <1>20 DEF AutoClaimEmpty, Goto, At
<1>21. ASSUME NEW t \in Lanes, ReadNew(t) PROVE RunnerOK'
  BY <1>21 DEF ReadNew, Goto, At
<1>22. ASSUME NEW t \in Lanes, ReadEmpty(t) PROVE RunnerOK'
  BY <1>22 DEF ReadEmpty, Goto, At
<1>23. ASSUME NEW t \in Lanes, ReceiveRaises(t) PROVE RunnerOK'
  BY <1>23 DEF ReceiveRaises, Raise, EndLane, Goto, At
<1>24. ASSUME NEW t \in Lanes, Deliver(t) PROVE RunnerOK'
  <2>1. /\ ~Ended(t) /\ UNCHANGED <<mode, cancelled, renewal>>
        /\ pending' = [pending EXCEPT ![Home[t]] = @ \cup {held[t]}]
    BY <1>24 DEF Deliver, ReplyPcs
  <2>2. pc' = [pc EXCEPT ![t] = "find"] \/ pc' = [pc EXCEPT ![t] = "run"]
    BY <1>24 DEF Deliver, FirstStep, Goto
  <2>3. \A u \in Lanes : (~Ended(u) => ~Ended(u)') /\ (~Ended(u)' => ~Ended(u))
    BY <2>1, <2>2
  <2>4. \A c \in Consumers : mode[c] = "new" => c # Home[t]
    BY <2>1
  <2>5. \A c \in Consumers : mode[c] = "new" => pending'[c] = {} /\ renewal[c] = "off"
    BY <2>1, <2>4
  <2> HIDE DEF Ended, TypeInv, Alive
  <2>6. \A c \in Consumers : Alive(c) => Alive(c)'
    BY <2>1 DEF Alive
  <2> QED BY <2>1, <2>3, <2>5, <2>6
<1>25. ASSUME NEW t \in Lanes, DeliverLapsed(t) PROVE RunnerOK'
  BY <1>25 DEF DeliverLapsed, TakeCursor, Raise, EndLane, Goto
<1>26. ASSUME NEW t \in Lanes, Ack(t) PROVE RunnerOK'
  BY <1>26 DEF Ack, Settle, Goto, At
<1>27. ASSUME NEW t \in Lanes, AckRefused(t) PROVE RunnerOK'
  BY <1>27 DEF AckRefused, Goto, At
<1>28. ASSUME NEW t \in Lanes, AckReply(t) PROVE RunnerOK'
  BY <1>28 DEF AckReply, LoopHead, EndLane, Goto, At
<1>29. ASSUME NEW t \in Lanes, AckLost(t) PROVE RunnerOK'
  BY <1>29 DEF AckLost, Raise, EndLane, Goto, At
<1>30. ASSUME NEW t \in Lanes, RedisError(t) PROVE RunnerOK'
  BY <1>30 DEF RedisError, Raise, EndLane, Goto, Fault
<1>31. ASSUME NEW c \in Consumers, Start(c) PROVE RunnerOK'
  BY <1>31 DEF Start, StartLanes, LoopHead
<1>32. ASSUME NEW c \in Consumers, Close(c) PROVE RunnerOK'
  BY <1>32 DEF Close, RunnerExit, LanesOf
<1>33. ASSUME NEW c \in Consumers, Crash(c) PROVE RunnerOK'
  BY <1>33 DEF Crash, RunnerCrash, Fault, LanesOf
<1>34. ASSUME NEW c \in Consumers, Renew(c) PROVE RunnerOK'
  BY <1>34 DEF Renew
<1>35. ASSUME NEW c \in Consumers, RenewRefused(c) PROVE RunnerOK'
  BY <1>35 DEF RenewRefused
<1>36. ASSUME NEW c \in Consumers, RenewReply(c) PROVE RunnerOK'
  BY <1>36 DEF RenewReply
<1>37. ASSUME NEW c \in Consumers, RenewLost(c) PROVE RunnerOK'
  <2>1. Cancel({t \in LanesOf(c) : Executing(t) /\ held[t] \in pending[c]})
    BY <1>37 DEF RenewLost, EndRenewal
  <2>2. \A t \in Lanes : cancelled'[t] => cancelled[t] \/ (Home[t] = c /\ ~Ended(t))
    BY <2>1, CancelOwn
  <2> QED BY <1>37, <2>2 DEF RenewLost, EndRenewal
<1>38. ASSUME NEW c \in Consumers, RenewError(c) PROVE RunnerOK'
  <2>1. Cancel({t \in LanesOf(c) : Executing(t) /\ held[t] \in pending[c]})
    BY <1>38 DEF RenewError, EndRenewal
  <2>2. \A t \in Lanes : cancelled'[t] => cancelled[t] \/ (Home[t] = c /\ ~Ended(t))
    BY <2>1, CancelOwn
  <2> QED BY <1>38, <2>2 DEF RenewError, EndRenewal, Fault
<1>39. ASSUME NEW m \in Messages, Expire(m) PROVE RunnerOK'
  BY <1>39 DEF Expire, Fault
<1>40. CASE UNCHANGED vars
  BY <1>40 DEF vars
<1> QED
  BY <1>1, <1>2, <1>3, <1>4, <1>5, <1>6, <1>7, <1>8, <1>8a, <1>9, <1>10, <1>11, <1>12, <1>13, <1>14,
     <1>15, <1>16, <1>17, <1>18, <1>19, <1>20, <1>21, <1>22, <1>23, <1>24, <1>25, <1>26, <1>27,
     <1>28, <1>29, <1>30, <1>31, <1>32, <1>33, <1>34, <1>35, <1>36, <1>37, <1>38, <1>39, <1>40
  DEF Next, WorkerStep, LaneStep

(* A settled entry has left the PEL, a pending one was in it.              *)
LEMMA EntryOKStep == TypeInv /\ SafeInv /\ EntryOK /\ [Next]_vars => EntryOK'
<1> SUFFICES ASSUME TypeInv, SafeInv, EntryOK, [Next]_vars PROVE EntryOK'
  OBVIOUS
<1> USE DEF TypeInv, TypeOK, WorkerTypeOK, HeldOK, SafeInv, Delivered, EntryOK, workerVars,
            driverVars, runnerVars, laneVars, storeVars, streamVars, consumerVars
<1>1. CASE Publish
  BY <1>1 DEF Publish
<1>2. ASSUME NEW c \in Consumers, SetStop(c), UNCHANGED driverVars PROVE EntryOK'
  BY <1>2 DEF SetStop
<1>3. ASSUME NEW c \in Consumers, RunnerStop(c), UNCHANGED driverVars PROVE EntryOK'
  BY <1>3 DEF RunnerStop, Cancel
<1>4. ASSUME NEW c \in Consumers, RunnerFail(c), UNCHANGED driverVars PROVE EntryOK'
  BY <1>4 DEF RunnerFail, Cancel
<1>5. ASSUME NEW c \in Consumers, DrainTimeout(c), UNCHANGED driverVars PROVE EntryOK'
  BY <1>5 DEF DrainTimeout, Cancel
<1>6. ASSUME NEW t \in Lanes, CancelLane(t), UNCHANGED driverVars PROVE EntryOK'
  BY <1>6 DEF CancelLane, EndLane, Goto
<1>7. ASSUME NEW t \in Lanes, SwallowCancel(t), UNCHANGED driverVars PROVE EntryOK'
  BY <1>7 DEF SwallowCancel
<1>8. ASSUME NEW t \in Lanes, Find(t), UNCHANGED driverVars PROVE EntryOK'
  BY <1>8 DEF Find, Goto, At
<1>8a. ASSUME NEW t \in Lanes, FindReply(t), UNCHANGED driverVars PROVE EntryOK'
  BY <1>8a DEF FindReply, Goto, At
<1>9. ASSUME NEW t \in Lanes, Succeed(t), UNCHANGED driverVars PROVE EntryOK'
  BY <1>9 DEF Succeed, Goto, At
<1>10. ASSUME NEW t \in Lanes, FailJob(t), UNCHANGED driverVars PROVE EntryOK'
  BY <1>10 DEF FailJob, Goto, At
<1>11. ASSUME NEW t \in Lanes, DefinitionError(t), UNCHANGED driverVars PROVE EntryOK'
  BY <1>11 DEF DefinitionError, Raise, EndLane, Goto, At, Fault
<1>12. ASSUME NEW t \in Lanes, Save(t), UNCHANGED driverVars PROVE EntryOK'
  BY <1>12 DEF Save, Goto, At
<1>13. ASSUME NEW t \in Lanes, SaveReply(t), UNCHANGED driverVars PROVE EntryOK'
  BY <1>13 DEF SaveReply, Goto, At
<1>14. ASSUME NEW t \in Lanes, SaveDuplicate(t), UNCHANGED driverVars PROVE EntryOK'
  BY <1>14 DEF SaveDuplicate, Goto, At
<1>15. ASSUME NEW t \in Lanes, SaveVanished(t), UNCHANGED driverVars PROVE EntryOK'
  BY <1>15 DEF SaveVanished, Raise, EndLane, Goto, At
<1>16. ASSUME NEW t \in Lanes, StoreError(t), UNCHANGED driverVars PROVE EntryOK'
  BY <1>16 DEF StoreError, Raise, EndLane, Goto, At, Fault
<1>17. ASSUME NEW m \in Messages, Forget(m), UNCHANGED driverVars PROVE EntryOK'
  BY <1>17 DEF Forget, Fault
<1>18. ASSUME NEW t \in Lanes, EnterReceive(t) PROVE EntryOK'
  BY <1>18 DEF EnterReceive, Goto, At
<1>19. ASSUME NEW t \in Lanes, AutoClaim(t) PROVE EntryOK'
  BY <1>19 DEF AutoClaim, Goto, At, Claims, Idle, IsFirst, InPel
<1>20. ASSUME NEW t \in Lanes, AutoClaimEmpty(t) PROVE EntryOK'
  BY <1>20 DEF AutoClaimEmpty, Goto, At
<1>21. ASSUME NEW t \in Lanes, ReadNew(t) PROVE EntryOK'
  BY <1>21 DEF ReadNew, Goto, At
<1>22. ASSUME NEW t \in Lanes, ReadEmpty(t) PROVE EntryOK'
  BY <1>22 DEF ReadEmpty, Goto, At
<1>23. ASSUME NEW t \in Lanes, ReceiveRaises(t) PROVE EntryOK'
  BY <1>23 DEF ReceiveRaises, Raise, EndLane, Goto, At
<1>24. ASSUME NEW t \in Lanes, Deliver(t) PROVE EntryOK'
  BY <1>24 DEF Deliver, TakeCursor, FirstStep, Goto
<1>25. ASSUME NEW t \in Lanes, DeliverLapsed(t) PROVE EntryOK'
  BY <1>25 DEF DeliverLapsed, TakeCursor, Raise, EndLane, Goto
<1>26. ASSUME NEW t \in Lanes, Ack(t) PROVE EntryOK'
  BY <1>26 DEF Ack, Settle, Goto, At
<1>27. ASSUME NEW t \in Lanes, AckRefused(t) PROVE EntryOK'
  BY <1>27 DEF AckRefused, Goto, At
<1>28. ASSUME NEW t \in Lanes, AckReply(t) PROVE EntryOK'
  BY <1>28 DEF AckReply, LoopHead, EndLane, Goto, At
<1>29. ASSUME NEW t \in Lanes, AckLost(t) PROVE EntryOK'
  BY <1>29 DEF AckLost, Raise, EndLane, Goto, At
<1>30. ASSUME NEW t \in Lanes, RedisError(t) PROVE EntryOK'
  BY <1>30 DEF RedisError, Raise, EndLane, Goto, Fault
<1>31. ASSUME NEW c \in Consumers, Start(c) PROVE EntryOK'
  BY <1>31 DEF Start, StartLanes, LoopHead
<1>32. ASSUME NEW c \in Consumers, Close(c) PROVE EntryOK'
  BY <1>32 DEF Close, RunnerExit
<1>33. ASSUME NEW c \in Consumers, Crash(c) PROVE EntryOK'
  BY <1>33 DEF Crash, RunnerCrash, Fault
<1>34. ASSUME NEW c \in Consumers, Renew(c) PROVE EntryOK'
  BY <1>34 DEF Renew
<1>35. ASSUME NEW c \in Consumers, RenewRefused(c) PROVE EntryOK'
  BY <1>35 DEF RenewRefused
<1>36. ASSUME NEW c \in Consumers, RenewReply(c) PROVE EntryOK'
  BY <1>36 DEF RenewReply
<1>37. ASSUME NEW c \in Consumers, RenewLost(c) PROVE EntryOK'
  BY <1>37 DEF RenewLost, EndRenewal
<1>38. ASSUME NEW c \in Consumers, RenewError(c) PROVE EntryOK'
  BY <1>38 DEF RenewError, EndRenewal, Fault
<1>39. ASSUME NEW m \in Messages, Expire(m) PROVE EntryOK'
  BY <1>39 DEF Expire, Fault
<1>40. CASE UNCHANGED vars
  BY <1>40 DEF vars
<1> QED
  BY <1>1, <1>2, <1>3, <1>4, <1>5, <1>6, <1>7, <1>8, <1>8a, <1>9, <1>10, <1>11, <1>12, <1>13, <1>14,
     <1>15, <1>16, <1>17, <1>18, <1>19, <1>20, <1>21, <1>22, <1>23, <1>24, <1>25, <1>26, <1>27,
     <1>28, <1>29, <1>30, <1>31, <1>32, <1>33, <1>34, <1>35, <1>36, <1>37, <1>38, <1>39, <1>40
  DEF Next, WorkerStep, LaneStep

(* Without a fault only a stop cancels lanes.                              *)
LEMMA CancelOKStep ==
  TypeInv /\ RunnerOK /\ CancelOK /\ NoSpuriousFailure /\ [Next]_vars => CancelOK'
<1> SUFFICES ASSUME TypeInv, RunnerOK, CancelOK, NoSpuriousFailure, [Next]_vars PROVE CancelOK'
  OBVIOUS
<1> USE DEF TypeInv, TypeOK, WorkerTypeOK, HeldOK, RunnerOK, Ended, CancelOK,
            NoSpuriousFailure, Executing, workerVars, driverVars, runnerVars, laneVars,
            storeVars, streamVars, consumerVars
<1>1. CASE Publish
  BY <1>1 DEF Publish
<1>2. ASSUME NEW c \in Consumers, SetStop(c), UNCHANGED driverVars PROVE CancelOK'
  BY <1>2 DEF SetStop
<1>3. ASSUME NEW c \in Consumers, RunnerStop(c), UNCHANGED driverVars PROVE CancelOK'
  <2>1. Cancel({t \in LanesOf(c) : Receiving(t)}) /\ mode[c] = "running"
    BY <1>3 DEF RunnerStop
  <2>2. \A t \in Lanes : cancelled'[t] =>
          cancelled[t] \/ (Home[t] = c /\ ~Ended(t) /\ ~Executing(t))
    BY <2>1 DEF Cancel, LanesOf, Receiving
  <2>3. mode' = [mode EXCEPT ![c] = "draining"] /\ UNCHANGED <<pc, held, failures, faults>>
    BY <1>3 DEF RunnerStop
  <2> QED BY <2>1, <2>2, <2>3
<1>4. ASSUME NEW c \in Consumers, RunnerFail(c), UNCHANGED driverVars PROVE CancelOK'
  <2>1. faults # 0
    BY <1>4 DEF RunnerFail, LanesOf
  <2> QED BY <1>4, <2>1 DEF RunnerFail
<1>5. ASSUME NEW c \in Consumers, DrainTimeout(c), UNCHANGED driverVars PROVE CancelOK'
  <2>1. Cancel(LanesOf(c)) /\ mode[c] \notin {"new", "closed", "crashed"}
    BY <1>5 DEF DrainTimeout
  <2>2. \A t \in Lanes : cancelled'[t] => cancelled[t] \/ (Home[t] = c /\ ~Ended(t))
    BY <2>1, CancelOwn
  <2> QED BY <1>5, <2>1, <2>2 DEF DrainTimeout
<1>6. ASSUME NEW t \in Lanes, CancelLane(t), UNCHANGED driverVars PROVE CancelOK'
  BY <1>6 DEF CancelLane, EndLane, Goto
<1>7. ASSUME NEW t \in Lanes, SwallowCancel(t), UNCHANGED driverVars PROVE CancelOK'
  BY <1>7 DEF SwallowCancel
<1>8. ASSUME NEW t \in Lanes, Find(t), UNCHANGED driverVars PROVE CancelOK'
  BY <1>8 DEF Find, Goto, At
<1>8a. ASSUME NEW t \in Lanes, FindReply(t), UNCHANGED driverVars PROVE CancelOK'
  BY <1>8a DEF FindReply, Goto, At
<1>9. ASSUME NEW t \in Lanes, Succeed(t), UNCHANGED driverVars PROVE CancelOK'
  BY <1>9 DEF Succeed, Goto, At
<1>10. ASSUME NEW t \in Lanes, FailJob(t), UNCHANGED driverVars PROVE CancelOK'
  BY <1>10 DEF FailJob, Goto, At
<1>11. ASSUME NEW t \in Lanes, DefinitionError(t), UNCHANGED driverVars PROVE CancelOK'
  BY <1>11 DEF DefinitionError, Raise, EndLane, Goto, At, Fault
<1>12. ASSUME NEW t \in Lanes, Save(t), UNCHANGED driverVars PROVE CancelOK'
  BY <1>12 DEF Save, Goto, At
<1>13. ASSUME NEW t \in Lanes, SaveReply(t), UNCHANGED driverVars PROVE CancelOK'
  BY <1>13 DEF SaveReply, Goto, At
<1>14. ASSUME NEW t \in Lanes, SaveDuplicate(t), UNCHANGED driverVars PROVE CancelOK'
  BY <1>14 DEF SaveDuplicate, Goto, At
<1>15. ASSUME NEW t \in Lanes, SaveVanished(t), UNCHANGED driverVars PROVE CancelOK'
  BY <1>15 DEF SaveVanished, Raise, EndLane, Goto, At
<1>16. ASSUME NEW t \in Lanes, StoreError(t), UNCHANGED driverVars PROVE CancelOK'
  BY <1>16 DEF StoreError, Raise, EndLane, Goto, At, Fault
<1>17. ASSUME NEW m \in Messages, Forget(m), UNCHANGED driverVars PROVE CancelOK'
  BY <1>17 DEF Forget, Fault
<1>18. ASSUME NEW t \in Lanes, EnterReceive(t) PROVE CancelOK'
  BY <1>18 DEF EnterReceive, Goto, At
<1>19. ASSUME NEW t \in Lanes, AutoClaim(t) PROVE CancelOK'
  BY <1>19 DEF AutoClaim, Goto, At
<1>20. ASSUME NEW t \in Lanes, AutoClaimEmpty(t) PROVE CancelOK'
  BY <1>20 DEF AutoClaimEmpty, Goto, At
<1>21. ASSUME NEW t \in Lanes, ReadNew(t) PROVE CancelOK'
  BY <1>21 DEF ReadNew, Goto, At
<1>22. ASSUME NEW t \in Lanes, ReadEmpty(t) PROVE CancelOK'
  BY <1>22 DEF ReadEmpty, Goto, At
<1>23. ASSUME NEW t \in Lanes, ReceiveRaises(t) PROVE CancelOK'
  BY <1>23 DEF ReceiveRaises, Raise, EndLane, Goto, At
<1>24. ASSUME NEW t \in Lanes, Deliver(t) PROVE CancelOK'
  BY <1>24 DEF Deliver, TakeCursor, FirstStep, Goto
<1>25. ASSUME NEW t \in Lanes, DeliverLapsed(t) PROVE CancelOK'
  BY <1>25 DEF DeliverLapsed, TakeCursor, Raise, EndLane, Goto
<1>26. ASSUME NEW t \in Lanes, Ack(t) PROVE CancelOK'
  BY <1>26 DEF Ack, Settle, Goto, At
<1>27. ASSUME NEW t \in Lanes, AckRefused(t) PROVE CancelOK'
  BY <1>27 DEF AckRefused, Goto, At
<1>28. ASSUME NEW t \in Lanes, AckReply(t) PROVE CancelOK'
  BY <1>28 DEF AckReply, LoopHead, EndLane, Goto, At
<1>29. ASSUME NEW t \in Lanes, AckLost(t) PROVE CancelOK'
  BY <1>29 DEF AckLost, Raise, EndLane, Goto, At
<1>30. ASSUME NEW t \in Lanes, RedisError(t) PROVE CancelOK'
  BY <1>30 DEF RedisError, Raise, EndLane, Goto, Fault
<1>31. ASSUME NEW c \in Consumers, Start(c) PROVE CancelOK'
  BY <1>31 DEF Start, StartLanes, LoopHead
<1>32. ASSUME NEW c \in Consumers, Close(c) PROVE CancelOK'
  BY <1>32 DEF Close, RunnerExit, LanesOf
<1>33. ASSUME NEW c \in Consumers, Crash(c) PROVE CancelOK'
  BY <1>33 DEF Crash, RunnerCrash, Fault
<1>34. ASSUME NEW c \in Consumers, Renew(c) PROVE CancelOK'
  BY <1>34 DEF Renew
<1>35. ASSUME NEW c \in Consumers, RenewRefused(c) PROVE CancelOK'
  BY <1>35 DEF RenewRefused
<1>36. ASSUME NEW c \in Consumers, RenewReply(c) PROVE CancelOK'
  BY <1>36 DEF RenewReply
<1>37. ASSUME NEW c \in Consumers, RenewLost(c) PROVE CancelOK'
  <2>1. Cancel({t \in LanesOf(c) : Executing(t) /\ held[t] \in pending[c]})
    BY <1>37 DEF RenewLost, EndRenewal
  <2>2. \A t \in Lanes : cancelled'[t] => cancelled[t] \/ (Home[t] = c /\ ~Ended(t))
    BY <2>1, CancelOwn
  <2> QED BY <1>37, <2>2 DEF RenewLost, EndRenewal
<1>38. ASSUME NEW c \in Consumers, RenewError(c) PROVE CancelOK'
  <2>1. Cancel({t \in LanesOf(c) : Executing(t) /\ held[t] \in pending[c]})
    BY <1>38 DEF RenewError, EndRenewal
  <2>2. \A t \in Lanes : cancelled'[t] => cancelled[t] \/ (Home[t] = c /\ ~Ended(t))
    BY <2>1, CancelOwn
  <2> QED BY <1>38, <2>2 DEF RenewError, EndRenewal, Fault
<1>39. ASSUME NEW m \in Messages, Expire(m) PROVE CancelOK'
  BY <1>39 DEF Expire, Fault
<1>40. CASE UNCHANGED vars
  BY <1>40 DEF vars
<1> QED
  BY <1>1, <1>2, <1>3, <1>4, <1>5, <1>6, <1>7, <1>8, <1>8a, <1>9, <1>10, <1>11, <1>12, <1>13, <1>14,
     <1>15, <1>16, <1>17, <1>18, <1>19, <1>20, <1>21, <1>22, <1>23, <1>24, <1>25, <1>26, <1>27,
     <1>28, <1>29, <1>30, <1>31, <1>32, <1>33, <1>34, <1>35, <1>36, <1>37, <1>38, <1>39, <1>40
  DEF Next, WorkerStep, LaneStep

(* Without a fault a sound worker keeps the leases of its deliveries.      *)
LEMMA LeaseOKStep ==
  TypeInv /\ SafeInv /\ LaneInv /\ RunnerOK /\ EntryOK /\ CancelOK /\ ReplyOK
    /\ RefusedOK /\ NoSpuriousFailure /\ LeaseOK /\ [Next]_vars => LeaseOK'
<1> SUFFICES ASSUME TypeInv, SafeInv, LaneInv, RunnerOK, EntryOK, CancelOK, ReplyOK, RefusedOK,
      NoSpuriousFailure, LeaseOK, [Next]_vars PROVE LeaseOK'
  OBVIOUS
<1> USE DEF TypeInv, TypeOK, WorkerTypeOK, HeldOK, LeaseOK, Answered, Sound, workerVars,
            driverVars, runnerVars, laneVars, storeVars, streamVars, consumerVars
<1>1. CASE Publish
  BY <1>1 DEF Publish
<1>2. ASSUME NEW c \in Consumers, SetStop(c), UNCHANGED driverVars PROVE LeaseOK'
  BY <1>2 DEF SetStop
<1>3. ASSUME NEW c \in Consumers, RunnerStop(c), UNCHANGED driverVars PROVE LeaseOK'
  <2>1. /\ mode' = [mode EXCEPT ![c] = "draining"] /\ mode[c] = "running"
        /\ UNCHANGED <<pc, held, faults, owner, fresh, pending>>
    BY <1>3 DEF RunnerStop
  <2> QED BY <2>1
<1>4. ASSUME NEW c \in Consumers, RunnerFail(c), UNCHANGED driverVars PROVE LeaseOK'
  <2>1. /\ mode' = [mode EXCEPT ![c] = "failing"]
        /\ UNCHANGED <<pc, held, faults, owner, fresh, pending>>
    BY <1>4 DEF RunnerFail
  <2> QED BY <2>1
<1>5. ASSUME NEW c \in Consumers, DrainTimeout(c), UNCHANGED driverVars PROVE LeaseOK'
  <2>1. /\ mode' = [mode EXCEPT ![c] = "cancelling"]
        /\ UNCHANGED <<pc, held, faults, owner, fresh, pending>>
    BY <1>5 DEF DrainTimeout
  <2> QED BY <2>1
<1>6. ASSUME NEW t \in Lanes, CancelLane(t), UNCHANGED driverVars PROVE LeaseOK'
  BY <1>6 DEF CancelLane, EndLane, Goto, CancelOK, Executing, Ended
<1>7. ASSUME NEW t \in Lanes, SwallowCancel(t), UNCHANGED driverVars PROVE LeaseOK'
  BY <1>7 DEF SwallowCancel
<1>8. ASSUME NEW t \in Lanes, Find(t), UNCHANGED driverVars PROVE LeaseOK'
  BY <1>8 DEF Find, Goto, At
<1>8a. ASSUME NEW t \in Lanes, FindReply(t), UNCHANGED driverVars PROVE LeaseOK'
  BY <1>8a DEF FindReply, Goto, At
<1>9. ASSUME NEW t \in Lanes, Succeed(t), UNCHANGED driverVars PROVE LeaseOK'
  BY <1>9 DEF Succeed, Goto, At
<1>10. ASSUME NEW t \in Lanes, FailJob(t), UNCHANGED driverVars PROVE LeaseOK'
  BY <1>10 DEF FailJob, Goto, At
<1>11. ASSUME NEW t \in Lanes, DefinitionError(t), UNCHANGED driverVars PROVE LeaseOK'
  BY <1>11 DEF DefinitionError, Raise, EndLane, Goto, At, Fault
<1>12. ASSUME NEW t \in Lanes, Save(t), UNCHANGED driverVars PROVE LeaseOK'
  BY <1>12 DEF Save, Goto, At
<1>13. ASSUME NEW t \in Lanes, SaveReply(t), UNCHANGED driverVars PROVE LeaseOK'
  BY <1>13 DEF SaveReply, Goto, At
<1>14. ASSUME NEW t \in Lanes, SaveDuplicate(t), UNCHANGED driverVars PROVE LeaseOK'
  BY <1>14 DEF SaveDuplicate, Goto, At
<1>15. ASSUME NEW t \in Lanes, SaveVanished(t), UNCHANGED driverVars PROVE LeaseOK'
  BY <1>15 DEF SaveVanished, Raise, EndLane, Goto, At
<1>16. ASSUME NEW t \in Lanes, StoreError(t), UNCHANGED driverVars PROVE LeaseOK'
  BY <1>16 DEF StoreError, Raise, EndLane, Goto, At, Fault
<1>17. ASSUME NEW m \in Messages, Forget(m), UNCHANGED driverVars PROVE LeaseOK'
  BY <1>17 DEF Forget, Fault
<1>18. ASSUME NEW t \in Lanes, EnterReceive(t) PROVE LeaseOK'
  BY <1>18 DEF EnterReceive, Goto, At
<1>19. ASSUME NEW t \in Lanes, AutoClaim(t) PROVE LeaseOK'
  BY <1>19 DEF AutoClaim, Goto, At, EntryOK, Claims, Idle, IsFirst, InPel
<1>20. ASSUME NEW t \in Lanes, AutoClaimEmpty(t) PROVE LeaseOK'
  BY <1>20 DEF AutoClaimEmpty, Goto, At
<1>21. ASSUME NEW t \in Lanes, ReadNew(t) PROVE LeaseOK'
  BY <1>21 DEF ReadNew, Goto, At, EntryOK
<1>22. ASSUME NEW t \in Lanes, ReadEmpty(t) PROVE LeaseOK'
  BY <1>22 DEF ReadEmpty, Goto, At
<1>23. ASSUME NEW t \in Lanes, ReceiveRaises(t) PROVE LeaseOK'
  BY <1>23 DEF ReceiveRaises, Raise, EndLane, Goto, At
<1>24. ASSUME NEW t \in Lanes, Deliver(t) PROVE LeaseOK'
  BY <1>24 DEF Deliver, TakeCursor, FirstStep, Goto, ReplyOK
<1>25. ASSUME NEW t \in Lanes, DeliverLapsed(t) PROVE LeaseOK'
  BY <1>25 DEF DeliverLapsed, TakeCursor, Raise, EndLane, Goto
<1>26. ASSUME NEW t \in Lanes, Ack(t) PROVE LeaseOK'
  BY <1>26 DEF Ack, Settle, Goto, At, EntryOK
<1>27. ASSUME NEW t \in Lanes, AckRefused(t) PROVE LeaseOK'
  BY <1>27 DEF AckRefused, Goto, At
<1>28. ASSUME NEW t \in Lanes, AckReply(t) PROVE LeaseOK'
  BY <1>28 DEF AckReply, LoopHead, EndLane, Goto, At
<1>29. ASSUME NEW t \in Lanes, AckLost(t) PROVE LeaseOK'
  BY <1>29 DEF AckLost, Raise, EndLane, Goto, At, RefusedOK
<1>30. ASSUME NEW t \in Lanes, RedisError(t) PROVE LeaseOK'
  BY <1>30 DEF RedisError, Raise, EndLane, Goto, Fault
<1>31. ASSUME NEW c \in Consumers, Start(c) PROVE LeaseOK'
  BY <1>31 DEF Start, StartLanes, LoopHead, RunnerOK
<1>32. ASSUME NEW c \in Consumers, Close(c) PROVE LeaseOK'
  BY <1>32 DEF Close, RunnerExit
<1>33. ASSUME NEW c \in Consumers, Crash(c) PROVE LeaseOK'
  BY <1>33 DEF Crash, RunnerCrash, Fault
<1>34. ASSUME NEW c \in Consumers, Renew(c) PROVE LeaseOK'
  BY <1>34 DEF Renew
<1>35. ASSUME NEW c \in Consumers, RenewRefused(c) PROVE LeaseOK'
  BY <1>35 DEF RenewRefused
<1>36. ASSUME NEW c \in Consumers, RenewReply(c) PROVE LeaseOK'
  BY <1>36 DEF RenewReply
<1>37. ASSUME NEW c \in Consumers, RenewLost(c) PROVE LeaseOK'
  BY <1>37 DEF RenewLost, EndRenewal
<1>38. ASSUME NEW c \in Consumers, RenewError(c) PROVE LeaseOK'
  BY <1>38 DEF RenewError, EndRenewal, Fault
<1>39. ASSUME NEW m \in Messages, Expire(m) PROVE LeaseOK'
  BY <1>39 DEF Expire, Fault, LeaseKept, NoSpuriousFailure, Alive
<1>40. CASE UNCHANGED vars
  BY <1>40 DEF vars
<1> QED
  BY <1>1, <1>2, <1>3, <1>4, <1>5, <1>6, <1>7, <1>8, <1>8a, <1>9, <1>10, <1>11, <1>12, <1>13, <1>14,
     <1>15, <1>16, <1>17, <1>18, <1>19, <1>20, <1>21, <1>22, <1>23, <1>24, <1>25, <1>26, <1>27,
     <1>28, <1>29, <1>30, <1>31, <1>32, <1>33, <1>34, <1>35, <1>36, <1>37, <1>38, <1>39, <1>40
  DEF Next, WorkerStep, LaneStep

(* ... and of the entry it is about to receive.                            *)
LEMMA ReplyOKStep ==
  TypeInv /\ SafeInv /\ ReadInv /\ LaneInv /\ RunnerOK /\ EntryOK /\ CancelOK
    /\ LeaseOK /\ ReplyOK /\ [Next]_vars => ReplyOK'
<1> SUFFICES ASSUME TypeInv, SafeInv, ReadInv, LaneInv, RunnerOK, EntryOK, CancelOK, LeaseOK,
      ReplyOK, [Next]_vars PROVE ReplyOK'
  OBVIOUS
<1> USE DEF TypeInv, TypeOK, WorkerTypeOK, HeldOK, ReplyOK, Sound, workerVars, driverVars,
            runnerVars, laneVars, storeVars, streamVars, consumerVars
<1>1. CASE Publish
  BY <1>1 DEF Publish
<1>2. ASSUME NEW c \in Consumers, SetStop(c), UNCHANGED driverVars PROVE ReplyOK'
  BY <1>2 DEF SetStop
<1>3. ASSUME NEW c \in Consumers, RunnerStop(c), UNCHANGED driverVars PROVE ReplyOK'
  <2>1. /\ mode' = [mode EXCEPT ![c] = "draining"] /\ mode[c] = "running"
        /\ UNCHANGED <<pc, held, faults, owner, fresh, pending>>
    BY <1>3 DEF RunnerStop
  <2> QED BY <2>1
<1>4. ASSUME NEW c \in Consumers, RunnerFail(c), UNCHANGED driverVars PROVE ReplyOK'
  <2>1. /\ mode' = [mode EXCEPT ![c] = "failing"]
        /\ UNCHANGED <<pc, held, faults, owner, fresh, pending>>
    BY <1>4 DEF RunnerFail
  <2> QED BY <2>1
<1>5. ASSUME NEW c \in Consumers, DrainTimeout(c), UNCHANGED driverVars PROVE ReplyOK'
  <2>1. /\ mode' = [mode EXCEPT ![c] = "cancelling"]
        /\ UNCHANGED <<pc, held, faults, owner, fresh, pending>>
    BY <1>5 DEF DrainTimeout
  <2> QED BY <2>1
<1>6. ASSUME NEW t \in Lanes, CancelLane(t), UNCHANGED driverVars PROVE ReplyOK'
  BY <1>6 DEF CancelLane, EndLane, Goto
<1>7. ASSUME NEW t \in Lanes, SwallowCancel(t), UNCHANGED driverVars PROVE ReplyOK'
  BY <1>7 DEF SwallowCancel
<1>8. ASSUME NEW t \in Lanes, Find(t), UNCHANGED driverVars PROVE ReplyOK'
  BY <1>8 DEF Find, Goto, At
<1>8a. ASSUME NEW t \in Lanes, FindReply(t), UNCHANGED driverVars PROVE ReplyOK'
  BY <1>8a DEF FindReply, Goto, At
<1>9. ASSUME NEW t \in Lanes, Succeed(t), UNCHANGED driverVars PROVE ReplyOK'
  BY <1>9 DEF Succeed, Goto, At
<1>10. ASSUME NEW t \in Lanes, FailJob(t), UNCHANGED driverVars PROVE ReplyOK'
  BY <1>10 DEF FailJob, Goto, At
<1>11. ASSUME NEW t \in Lanes, DefinitionError(t), UNCHANGED driverVars PROVE ReplyOK'
  BY <1>11 DEF DefinitionError, Raise, EndLane, Goto, At, Fault
<1>12. ASSUME NEW t \in Lanes, Save(t), UNCHANGED driverVars PROVE ReplyOK'
  BY <1>12 DEF Save, Goto, At
<1>13. ASSUME NEW t \in Lanes, SaveReply(t), UNCHANGED driverVars PROVE ReplyOK'
  BY <1>13 DEF SaveReply, Goto, At
<1>14. ASSUME NEW t \in Lanes, SaveDuplicate(t), UNCHANGED driverVars PROVE ReplyOK'
  BY <1>14 DEF SaveDuplicate, Goto, At
<1>15. ASSUME NEW t \in Lanes, SaveVanished(t), UNCHANGED driverVars PROVE ReplyOK'
  BY <1>15 DEF SaveVanished, Raise, EndLane, Goto, At
<1>16. ASSUME NEW t \in Lanes, StoreError(t), UNCHANGED driverVars PROVE ReplyOK'
  BY <1>16 DEF StoreError, Raise, EndLane, Goto, At, Fault
<1>17. ASSUME NEW m \in Messages, Forget(m), UNCHANGED driverVars PROVE ReplyOK'
  BY <1>17 DEF Forget, Fault
<1>18. ASSUME NEW t \in Lanes, EnterReceive(t) PROVE ReplyOK'
  BY <1>18 DEF EnterReceive, Goto, At
<1>19. ASSUME NEW t \in Lanes, AutoClaim(t) PROVE ReplyOK'
  BY <1>19 DEF AutoClaim, Goto, At, LeaseOK, Answered, EntryOK, Claims, Idle, IsFirst, InPel
<1>20. ASSUME NEW t \in Lanes, AutoClaimEmpty(t) PROVE ReplyOK'
  BY <1>20 DEF AutoClaimEmpty, Goto, At
<1>21. ASSUME NEW t \in Lanes, ReadNew(t) PROVE ReplyOK'
  BY <1>21 DEF ReadNew, Goto, At, EntryOK, SafeInv, Delivered
<1>22. ASSUME NEW t \in Lanes, ReadEmpty(t) PROVE ReplyOK'
  BY <1>22 DEF ReadEmpty, Goto, At
<1>23. ASSUME NEW t \in Lanes, ReceiveRaises(t) PROVE ReplyOK'
  BY <1>23 DEF ReceiveRaises, Raise, EndLane, Goto, At
<1>24. ASSUME NEW t \in Lanes, Deliver(t) PROVE ReplyOK'
  BY <1>24 DEF Deliver, TakeCursor, FirstStep, Goto, ReadInv, ReceiveExclusive
<1>25. ASSUME NEW t \in Lanes, DeliverLapsed(t) PROVE ReplyOK'
  BY <1>25 DEF DeliverLapsed, TakeCursor, Raise, EndLane, Goto
<1>26. ASSUME NEW t \in Lanes, Ack(t) PROVE ReplyOK'
  BY <1>26 DEF Ack, Settle, Goto, At, LaneInv, HeldIsPending, Executing
<1>27. ASSUME NEW t \in Lanes, AckRefused(t) PROVE ReplyOK'
  BY <1>27 DEF AckRefused, Goto, At
<1>28. ASSUME NEW t \in Lanes, AckReply(t) PROVE ReplyOK'
  BY <1>28 DEF AckReply, LoopHead, EndLane, Goto, At
<1>29. ASSUME NEW t \in Lanes, AckLost(t) PROVE ReplyOK'
  BY <1>29 DEF AckLost, Raise, EndLane, Goto, At
<1>30. ASSUME NEW t \in Lanes, RedisError(t) PROVE ReplyOK'
  BY <1>30 DEF RedisError, Raise, EndLane, Goto, Fault
<1>31. ASSUME NEW c \in Consumers, Start(c) PROVE ReplyOK'
  BY <1>31 DEF Start, StartLanes, LoopHead, RunnerOK
<1>32. ASSUME NEW c \in Consumers, Close(c) PROVE ReplyOK'
  BY <1>32 DEF Close, RunnerExit
<1>33. ASSUME NEW c \in Consumers, Crash(c) PROVE ReplyOK'
  BY <1>33 DEF Crash, RunnerCrash, Fault
<1>34. ASSUME NEW c \in Consumers, Renew(c) PROVE ReplyOK'
  BY <1>34 DEF Renew
<1>35. ASSUME NEW c \in Consumers, RenewRefused(c) PROVE ReplyOK'
  BY <1>35 DEF RenewRefused
<1>36. ASSUME NEW c \in Consumers, RenewReply(c) PROVE ReplyOK'
  BY <1>36 DEF RenewReply
<1>37. ASSUME NEW c \in Consumers, RenewLost(c) PROVE ReplyOK'
  BY <1>37 DEF RenewLost, EndRenewal
<1>38. ASSUME NEW c \in Consumers, RenewError(c) PROVE ReplyOK'
  BY <1>38 DEF RenewError, EndRenewal, Fault
<1>39. ASSUME NEW m \in Messages, Expire(m) PROVE ReplyOK'
  <2>1. /\ UNCHANGED <<pc, held, mode, owner, pending>>
        /\ fresh' = [fresh EXCEPT ![m] = FALSE]
        /\ LeaseKept(m) => faults' # 0
        /\ faults' = 0 => faults = 0
    BY <1>39 DEF Expire, Fault
  <2>2. ASSUME NEW t \in Lanes, pc[t] \in ReplyPcs, Sound(Home[t]), owner[held[t]] = Home[t],
               held[t] = m
        PROVE  LeaseKept(m)
    BY <2>2 DEF LeaseKept, LanesOf, Alive
  <2>3. ASSUME faults' = 0, NEW t \in Lanes, pc[t] \in ReplyPcs, Sound(Home[t])
        PROVE  owner[held[t]] = Home[t] /\ fresh'[held[t]] /\ held[t] \notin pending[Home[t]]
    <3>1. owner[held[t]] = Home[t] /\ fresh[held[t]] /\ held[t] \notin pending[Home[t]]
      BY <2>1, <2>3
    <3>2. held[t] # m
      BY <2>1, <2>2, <2>3, <3>1
    <3> QED BY <2>1, <3>1, <3>2
  <2> QED BY <2>1, <2>3
<1>40. CASE UNCHANGED vars
  BY <1>40 DEF vars
<1> QED
  BY <1>1, <1>2, <1>3, <1>4, <1>5, <1>6, <1>7, <1>8, <1>8a, <1>9, <1>10, <1>11, <1>12, <1>13, <1>14,
     <1>15, <1>16, <1>17, <1>18, <1>19, <1>20, <1>21, <1>22, <1>23, <1>24, <1>25, <1>26, <1>27,
     <1>28, <1>29, <1>30, <1>31, <1>32, <1>33, <1>34, <1>35, <1>36, <1>37, <1>38, <1>39, <1>40
  DEF Next, WorkerStep, LaneStep

(* Without a fault only a worker that is going down is refused an          *)
(* acknowledgement.                                                        *)
LEMMA RefusedOKStep ==
  TypeInv /\ LaneInv /\ RunnerOK /\ EntryOK /\ CancelOK /\ LeaseOK /\ RefusedOK /\ [Next]_vars => RefusedOK'
<1> SUFFICES ASSUME TypeInv, LaneInv, RunnerOK, EntryOK, CancelOK, LeaseOK, RefusedOK, [Next]_vars
      PROVE RefusedOK'
  OBVIOUS
<1> USE DEF TypeInv, TypeOK, WorkerTypeOK, HeldOK, RefusedOK, workerVars, driverVars,
            runnerVars, laneVars, storeVars, streamVars, consumerVars
<1>1. CASE Publish
  BY <1>1 DEF Publish
<1>2. ASSUME NEW c \in Consumers, SetStop(c), UNCHANGED driverVars PROVE RefusedOK'
  BY <1>2 DEF SetStop
<1>3. ASSUME NEW c \in Consumers, RunnerStop(c), UNCHANGED driverVars PROVE RefusedOK'
  BY <1>3 DEF RunnerStop, Cancel
<1>4. ASSUME NEW c \in Consumers, RunnerFail(c), UNCHANGED driverVars PROVE RefusedOK'
  BY <1>4 DEF RunnerFail, Cancel
<1>5. ASSUME NEW c \in Consumers, DrainTimeout(c), UNCHANGED driverVars PROVE RefusedOK'
  BY <1>5 DEF DrainTimeout, Cancel
<1>6. ASSUME NEW t \in Lanes, CancelLane(t), UNCHANGED driverVars PROVE RefusedOK'
  BY <1>6 DEF CancelLane, EndLane, Goto
<1>7. ASSUME NEW t \in Lanes, SwallowCancel(t), UNCHANGED driverVars PROVE RefusedOK'
  BY <1>7 DEF SwallowCancel
<1>8. ASSUME NEW t \in Lanes, Find(t), UNCHANGED driverVars PROVE RefusedOK'
  BY <1>8 DEF Find, Goto, At
<1>8a. ASSUME NEW t \in Lanes, FindReply(t), UNCHANGED driverVars PROVE RefusedOK'
  BY <1>8a DEF FindReply, Goto, At
<1>9. ASSUME NEW t \in Lanes, Succeed(t), UNCHANGED driverVars PROVE RefusedOK'
  BY <1>9 DEF Succeed, Goto, At
<1>10. ASSUME NEW t \in Lanes, FailJob(t), UNCHANGED driverVars PROVE RefusedOK'
  BY <1>10 DEF FailJob, Goto, At
<1>11. ASSUME NEW t \in Lanes, DefinitionError(t), UNCHANGED driverVars PROVE RefusedOK'
  BY <1>11 DEF DefinitionError, Raise, EndLane, Goto, At, Fault
<1>12. ASSUME NEW t \in Lanes, Save(t), UNCHANGED driverVars PROVE RefusedOK'
  BY <1>12 DEF Save, Goto, At
<1>13. ASSUME NEW t \in Lanes, SaveReply(t), UNCHANGED driverVars PROVE RefusedOK'
  BY <1>13 DEF SaveReply, Goto, At
<1>14. ASSUME NEW t \in Lanes, SaveDuplicate(t), UNCHANGED driverVars PROVE RefusedOK'
  BY <1>14 DEF SaveDuplicate, Goto, At
<1>15. ASSUME NEW t \in Lanes, SaveVanished(t), UNCHANGED driverVars PROVE RefusedOK'
  BY <1>15 DEF SaveVanished, Raise, EndLane, Goto, At
<1>16. ASSUME NEW t \in Lanes, StoreError(t), UNCHANGED driverVars PROVE RefusedOK'
  BY <1>16 DEF StoreError, Raise, EndLane, Goto, At, Fault
<1>17. ASSUME NEW m \in Messages, Forget(m), UNCHANGED driverVars PROVE RefusedOK'
  BY <1>17 DEF Forget, Fault
<1>18. ASSUME NEW t \in Lanes, EnterReceive(t) PROVE RefusedOK'
  BY <1>18 DEF EnterReceive, Goto, At
<1>19. ASSUME NEW t \in Lanes, AutoClaim(t) PROVE RefusedOK'
  BY <1>19 DEF AutoClaim, Goto, At
<1>20. ASSUME NEW t \in Lanes, AutoClaimEmpty(t) PROVE RefusedOK'
  BY <1>20 DEF AutoClaimEmpty, Goto, At
<1>21. ASSUME NEW t \in Lanes, ReadNew(t) PROVE RefusedOK'
  BY <1>21 DEF ReadNew, Goto, At
<1>22. ASSUME NEW t \in Lanes, ReadEmpty(t) PROVE RefusedOK'
  BY <1>22 DEF ReadEmpty, Goto, At
<1>23. ASSUME NEW t \in Lanes, ReceiveRaises(t) PROVE RefusedOK'
  BY <1>23 DEF ReceiveRaises, Raise, EndLane, Goto, At
<1>24. ASSUME NEW t \in Lanes, Deliver(t) PROVE RefusedOK'
  BY <1>24 DEF Deliver, TakeCursor, FirstStep, Goto
<1>25. ASSUME NEW t \in Lanes, DeliverLapsed(t) PROVE RefusedOK'
  BY <1>25 DEF DeliverLapsed, TakeCursor, Raise, EndLane, Goto
<1>26. ASSUME NEW t \in Lanes, Ack(t) PROVE RefusedOK'
  BY <1>26 DEF Ack, Settle, Goto, At
<1>27. ASSUME NEW t \in Lanes, AckRefused(t) PROVE RefusedOK'
  <2>1. /\ pc[t] = "ack" /\ pc' = [pc EXCEPT ![t] = "ackNo"] /\ owner[held[t]] # Home[t]
        /\ UNCHANGED <<mode, faults>>
    BY <1>27 DEF AckRefused, At, Goto
  <2>2. held[t] \in pending[Home[t]] /\ ~Answered(Home[t], held[t])
    BY <2>1 DEF LaneInv, HeldIsPending, OneLanePerMessage, Executing, Answered
  <2>3. faults = 0 => ~Sound(Home[t])
    BY <2>1, <2>2 DEF LeaseOK
  <2>4. faults = 0 => mode[Home[t]] = "cancelling"
    BY <2>1, <2>3 DEF Sound, RunnerOK, Ended, Alive, CancelOK
  <2> QED BY <2>1, <2>4
<1>28. ASSUME NEW t \in Lanes, AckReply(t) PROVE RefusedOK'
  BY <1>28 DEF AckReply, LoopHead, EndLane, Goto, At
<1>29. ASSUME NEW t \in Lanes, AckLost(t) PROVE RefusedOK'
  BY <1>29 DEF AckLost, Raise, EndLane, Goto, At
<1>30. ASSUME NEW t \in Lanes, RedisError(t) PROVE RefusedOK'
  BY <1>30 DEF RedisError, Raise, EndLane, Goto, Fault
<1>31. ASSUME NEW c \in Consumers, Start(c) PROVE RefusedOK'
  BY <1>31 DEF Start, StartLanes, LoopHead
<1>32. ASSUME NEW c \in Consumers, Close(c) PROVE RefusedOK'
  BY <1>32 DEF Close, RunnerExit, LanesOf, Ended
<1>33. ASSUME NEW c \in Consumers, Crash(c) PROVE RefusedOK'
  BY <1>33 DEF Crash, RunnerCrash, Fault
<1>34. ASSUME NEW c \in Consumers, Renew(c) PROVE RefusedOK'
  BY <1>34 DEF Renew
<1>35. ASSUME NEW c \in Consumers, RenewRefused(c) PROVE RefusedOK'
  BY <1>35 DEF RenewRefused
<1>36. ASSUME NEW c \in Consumers, RenewReply(c) PROVE RefusedOK'
  BY <1>36 DEF RenewReply
<1>37. ASSUME NEW c \in Consumers, RenewLost(c) PROVE RefusedOK'
  BY <1>37 DEF RenewLost, EndRenewal
<1>38. ASSUME NEW c \in Consumers, RenewError(c) PROVE RefusedOK'
  BY <1>38 DEF RenewError, EndRenewal, Fault
<1>39. ASSUME NEW m \in Messages, Expire(m) PROVE RefusedOK'
  BY <1>39 DEF Expire, Fault
<1>40. CASE UNCHANGED vars
  BY <1>40 DEF vars
<1> QED
  BY <1>1, <1>2, <1>3, <1>4, <1>5, <1>6, <1>7, <1>8, <1>8a, <1>9, <1>10, <1>11, <1>12, <1>13, <1>14,
     <1>15, <1>16, <1>17, <1>18, <1>19, <1>20, <1>21, <1>22, <1>23, <1>24, <1>25, <1>26, <1>27,
     <1>28, <1>29, <1>30, <1>31, <1>32, <1>33, <1>34, <1>35, <1>36, <1>37, <1>38, <1>39, <1>40
  DEF Next, WorkerStep, LaneStep

(* So a step that fails a worker has a cause.                              *)
LEMMA NoSpuriousFailureStep ==
  TypeInv /\ RunnerOK /\ CancelOK /\ LeaseOK /\ ReplyOK /\ RefusedOK
    /\ NoSpuriousFailure /\ [Next]_vars => NoSpuriousFailure'
<1> SUFFICES ASSUME TypeInv, RunnerOK, CancelOK, LeaseOK, ReplyOK, RefusedOK, NoSpuriousFailure,
      [Next]_vars PROVE NoSpuriousFailure'
  OBVIOUS
<1> USE DEF TypeInv, TypeOK, WorkerTypeOK, HeldOK, NoSpuriousFailure, workerVars, driverVars,
            runnerVars, laneVars, storeVars, streamVars, consumerVars
<1>1. CASE Publish
  BY <1>1 DEF Publish
<1>2. ASSUME NEW c \in Consumers, SetStop(c), UNCHANGED driverVars PROVE NoSpuriousFailure'
  BY <1>2 DEF SetStop
<1>3. ASSUME NEW c \in Consumers, RunnerStop(c), UNCHANGED driverVars PROVE NoSpuriousFailure'
  BY <1>3 DEF RunnerStop, Cancel, LanesOf
<1>4. ASSUME NEW c \in Consumers, RunnerFail(c), UNCHANGED driverVars PROVE NoSpuriousFailure'
  BY <1>4 DEF RunnerFail, Cancel, LanesOf
<1>5. ASSUME NEW c \in Consumers, DrainTimeout(c), UNCHANGED driverVars PROVE NoSpuriousFailure'
  BY <1>5 DEF DrainTimeout, Cancel
<1>6. ASSUME NEW t \in Lanes, CancelLane(t), UNCHANGED driverVars PROVE NoSpuriousFailure'
  BY <1>6 DEF CancelLane, EndLane, Goto, CancelOK, Closing
<1>7. ASSUME NEW t \in Lanes, SwallowCancel(t), UNCHANGED driverVars PROVE NoSpuriousFailure'
  BY <1>7 DEF SwallowCancel
<1>8. ASSUME NEW t \in Lanes, Find(t), UNCHANGED driverVars PROVE NoSpuriousFailure'
  BY <1>8 DEF Find, Goto, At
<1>8a. ASSUME NEW t \in Lanes, FindReply(t), UNCHANGED driverVars PROVE NoSpuriousFailure'
  BY <1>8a DEF FindReply, Goto, At
<1>9. ASSUME NEW t \in Lanes, Succeed(t), UNCHANGED driverVars PROVE NoSpuriousFailure'
  BY <1>9 DEF Succeed, Goto, At
<1>10. ASSUME NEW t \in Lanes, FailJob(t), UNCHANGED driverVars PROVE NoSpuriousFailure'
  BY <1>10 DEF FailJob, Goto, At
<1>11. ASSUME NEW t \in Lanes, DefinitionError(t), UNCHANGED driverVars PROVE NoSpuriousFailure'
  BY <1>11 DEF DefinitionError, Raise, EndLane, Goto, At, Fault
<1>12. ASSUME NEW t \in Lanes, Save(t), UNCHANGED driverVars PROVE NoSpuriousFailure'
  BY <1>12 DEF Save, Goto, At
<1>13. ASSUME NEW t \in Lanes, SaveReply(t), UNCHANGED driverVars PROVE NoSpuriousFailure'
  BY <1>13 DEF SaveReply, Goto, At
<1>14. ASSUME NEW t \in Lanes, SaveDuplicate(t), UNCHANGED driverVars PROVE NoSpuriousFailure'
  BY <1>14 DEF SaveDuplicate, Goto, At
<1>15. ASSUME NEW t \in Lanes, SaveVanished(t), UNCHANGED driverVars PROVE NoSpuriousFailure'
  BY <1>15 DEF SaveVanished, Raise, EndLane, Goto, At, CancelOK
<1>16. ASSUME NEW t \in Lanes, StoreError(t), UNCHANGED driverVars PROVE NoSpuriousFailure'
  BY <1>16 DEF StoreError, Raise, EndLane, Goto, At, Fault
<1>17. ASSUME NEW m \in Messages, Forget(m), UNCHANGED driverVars PROVE NoSpuriousFailure'
  BY <1>17 DEF Forget, Fault
<1>18. ASSUME NEW t \in Lanes, EnterReceive(t) PROVE NoSpuriousFailure'
  BY <1>18 DEF EnterReceive, Goto, At
<1>19. ASSUME NEW t \in Lanes, AutoClaim(t) PROVE NoSpuriousFailure'
  BY <1>19 DEF AutoClaim, Goto, At
<1>20. ASSUME NEW t \in Lanes, AutoClaimEmpty(t) PROVE NoSpuriousFailure'
  BY <1>20 DEF AutoClaimEmpty, Goto, At
<1>21. ASSUME NEW t \in Lanes, ReadNew(t) PROVE NoSpuriousFailure'
  BY <1>21 DEF ReadNew, Goto, At
<1>22. ASSUME NEW t \in Lanes, ReadEmpty(t) PROVE NoSpuriousFailure'
  BY <1>22 DEF ReadEmpty, Goto, At
<1>23. ASSUME NEW t \in Lanes, ReceiveRaises(t) PROVE NoSpuriousFailure'
  BY <1>23 DEF ReceiveRaises, Raise, EndLane, Goto, At
<1>24. ASSUME NEW t \in Lanes, Deliver(t) PROVE NoSpuriousFailure'
  BY <1>24 DEF Deliver, TakeCursor, FirstStep, Goto
<1>25. ASSUME NEW t \in Lanes, DeliverLapsed(t) PROVE NoSpuriousFailure'
  BY <1>25 DEF DeliverLapsed, TakeCursor, Raise, EndLane, Goto, ReplyOK, Sound, RunnerOK, Ended,
    Alive, CancelOK
<1>26. ASSUME NEW t \in Lanes, Ack(t) PROVE NoSpuriousFailure'
  BY <1>26 DEF Ack, Settle, Goto, At
<1>27. ASSUME NEW t \in Lanes, AckRefused(t) PROVE NoSpuriousFailure'
  BY <1>27 DEF AckRefused, Goto, At
<1>28. ASSUME NEW t \in Lanes, AckReply(t) PROVE NoSpuriousFailure'
  BY <1>28 DEF AckReply, LoopHead, EndLane, Goto, At
<1>29. ASSUME NEW t \in Lanes, AckLost(t) PROVE NoSpuriousFailure'
  BY <1>29 DEF AckLost, Raise, EndLane, Goto, At, RefusedOK
<1>30. ASSUME NEW t \in Lanes, RedisError(t) PROVE NoSpuriousFailure'
  BY <1>30 DEF RedisError, Raise, EndLane, Goto, Fault
<1>31. ASSUME NEW c \in Consumers, Start(c) PROVE NoSpuriousFailure'
  BY <1>31 DEF Start, StartLanes, LoopHead
<1>32. ASSUME NEW c \in Consumers, Close(c) PROVE NoSpuriousFailure'
  BY <1>32 DEF Close, RunnerExit
<1>33. ASSUME NEW c \in Consumers, Crash(c) PROVE NoSpuriousFailure'
  BY <1>33 DEF Crash, RunnerCrash, Fault
<1>34. ASSUME NEW c \in Consumers, Renew(c) PROVE NoSpuriousFailure'
  BY <1>34 DEF Renew
<1>35. ASSUME NEW c \in Consumers, RenewRefused(c) PROVE NoSpuriousFailure'
  BY <1>35 DEF RenewRefused, LeaseOK, Sound, Alive, CancelOK, LockFree, LanesOf, Answered
<1>36. ASSUME NEW c \in Consumers, RenewReply(c) PROVE NoSpuriousFailure'
  BY <1>36 DEF RenewReply
<1>37. ASSUME NEW c \in Consumers, RenewLost(c) PROVE NoSpuriousFailure'
  BY <1>37 DEF RenewLost, EndRenewal
<1>38. ASSUME NEW c \in Consumers, RenewError(c) PROVE NoSpuriousFailure'
  BY <1>38 DEF RenewError, EndRenewal, Fault
<1>39. ASSUME NEW m \in Messages, Expire(m) PROVE NoSpuriousFailure'
  BY <1>39 DEF Expire, Fault
<1>40. CASE UNCHANGED vars
  BY <1>40 DEF vars
<1> QED
  BY <1>1, <1>2, <1>3, <1>4, <1>5, <1>6, <1>7, <1>8, <1>8a, <1>9, <1>10, <1>11, <1>12, <1>13, <1>14,
     <1>15, <1>16, <1>17, <1>18, <1>19, <1>20, <1>21, <1>22, <1>23, <1>24, <1>25, <1>26, <1>27,
     <1>28, <1>29, <1>30, <1>31, <1>32, <1>33, <1>34, <1>35, <1>36, <1>37, <1>38, <1>39, <1>40
  DEF Next, WorkerStep, LaneStep

(* What is known of a group of workers that has met no fault.              *)
CalmInv == /\ RunnerOK /\ EntryOK /\ CancelOK /\ LeaseOK /\ ReplyOK /\ RefusedOK
           /\ NoSpuriousFailure

LEMMA CalmInvariant == Spec => [](LaneInv /\ CalmInv)
<1>1. Init => CalmInv
  BY DEF Init, WorkerInit, CalmInv, RunnerOK, EntryOK, CancelOK, LeaseOK, ReplyOK, RefusedOK,
         NoSpuriousFailure, Ended, Executing, Sound
<1>2. TypeInv /\ SafeInv /\ LaneInv /\ ReadInv /\ CalmInv /\ [Next]_vars => CalmInv'
  BY RunnerOKStep, EntryOKStep, CancelOKStep, LeaseOKStep, ReplyOKStep, RefusedOKStep,
     NoSpuriousFailureStep DEF CalmInv
<1>3. Init => LaneInv /\ ReadInv
  BY DEF Init, WorkerInit, LaneInv, HeldIsPending, OneLanePerMessage, ReadInv, ReceiveExclusive,
         FirstDelivery, RecordedDelivered, Executing
<1> QED
  BY <1>1, <1>2, <1>3, SafeInvariant, LaneInvStep, ReadInvStep, PTL DEF Spec

(* A worker fails only if something went wrong outside it: without a       *)
(* fault, acknowledgements, renewals, takeovers and stops of any number of *)
(* workers never make a lane raise or a renewal end, unless the worker's   *)
(* drain has timed out.                                                    *)
THEOREM FailuresHaveACause == Spec => []NoSpuriousFailure
<1>1. CalmInv => NoSpuriousFailure
  BY DEF CalmInv
<1> QED
  BY <1>1, CalmInvariant, PTL

(* Two workers never work on the same message at once without a fault: the *)
(* lease of every job in hand is kept by its worker's renewals, and nobody *)
(* takes over an entry whose lease is kept.                                *)
THEOREM OneWorkerPerMessage == Spec => []RunByOneWorker
<1>1. TypeInv /\ LaneInv /\ CalmInv => RunByOneWorker
  <2> SUFFICES ASSUME TypeInv, LaneInv, CalmInv, faults = 0,
                      NEW t \in Lanes, NEW u \in Lanes, Home[t] # Home[u],
                      Executing(t), Executing(u), held[t] = held[u],
                      mode[Home[t]] # "cancelling", mode[Home[u]] # "cancelling"
               PROVE  FALSE
    BY DEF RunByOneWorker
  <2>1. Home[t] \in Consumers /\ Home[u] \in Consumers
    BY HomeAssumption
  <2>2. Sound(Home[t]) /\ Sound(Home[u])
    <3>1. ~Ended(t) /\ ~Ended(u)
      BY DEF Executing, Ended, ExecutePcs, FindingPcs, SavePcs, AckPcs, EndPcs
    <3>2. Alive(Home[t]) /\ Alive(Home[u])
      BY <3>1 DEF CalmInv, RunnerOK
    <3> QED BY <2>1, <3>2 DEF CalmInv, CancelOK, Alive, Sound
  <2>3. held[t] \in pending[Home[t]] /\ held[t] \in pending[Home[u]] /\ held[t] \in Messages
    BY <2>1 DEF LaneInv, HeldIsPending, TypeInv, TypeOK
  <2>4. /\ owner[held[t]] = Home[t] \/ Answered(Home[t], held[t])
        /\ owner[held[t]] = Home[u] \/ Answered(Home[u], held[t])
    BY <2>1, <2>2, <2>3 DEF CalmInv, LeaseOK
  <2>5. \A c \in Consumers : Answered(c, held[t]) => owner[held[t]] = None
    BY <2>3 DEF Answered, CalmInv, EntryOK
  <2>6. None # Home[t] /\ None # Home[u]
    BY <2>1, NoneAssumption DEF None
  <2>7. Answered(Home[t], held[t]) /\ Answered(Home[u], held[t])
    BY <2>1, <2>4, <2>5, <2>6
  <2> QED BY <2>7 DEF Answered, CalmInv, EntryOK
<1> QED
  BY <1>1, SafeInvariant, CalmInvariant, PTL
=============================================================================
